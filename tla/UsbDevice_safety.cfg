SPECIFICATION Spec
CONSTANTS
  adb = adb
  uvc = uvc
  rndis = rndis
  uac = uac
  adbd = adbd
  uvcGadget = uvcGadget
  NoFile = NoFile
  Down = Down
  NoInode = NoInode
  Exec <- ConstExec
  Reqs = {r1}
  Insts = {adb, uvc, rndis, uac}
  Supported = {adb, uvc, rndis}
  Daemons = {adb, uvc}
  Ffs = {adb}
  Filled = {uvc}
  Execs = {adbd, uvcGadget}
  Slots = {k1}
  Configs = {{adb, rndis}, {adb, uvc, uac}}
  Inodes = {n1, n2}
  Systemd = FALSE
  ManualActs = {"start", "stop", "restart"}
  UdcAtBoot = FALSE
  EndInTime = FALSE
  EnvKinds = {"crash", "udc", "cable", "user", "edit", "stop"}
  MaxEnv = 1
  MaxFail = 0
  StartLimit = 2
INVARIANTS TypeOK RecordedIsLinked DaemonHasLoop
PROPERTIES KeepsExposure StopIsClean
\* the system comes to rest when no request and no event is left
CHECK_DEADLOCK FALSE
