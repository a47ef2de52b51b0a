SPECIFICATION Spec
CONSTANTS
  adb = adb
  uvc = uvc
  rndis = rndis
  uac = uac
  adbd = adbd
  uvcGadget = uvcGadget
  NoFile = NoFile
  Down = Down
  NoInode = NoInode
  Exec <- ConstExec
  Reqs = {r1, r2}
  Insts = {adb, uvc}
  Supported = {adb, uvc}
  Daemons = {adb, uvc}
  Ffs = {adb}
  Filled = {uvc}
  Execs = {adbd, uvcGadget}
  Slots = {k1}
  Configs = {{adb, uvc}}
  Inodes = {n1, n2, n3}
  Systemd = FALSE
  ManualActs = {"start", "stop", "restart"}
  UdcAtBoot = TRUE
  EndInTime = FALSE
  EnvKinds = {}
  MaxEnv = 0
  MaxFail = 1
  StartLimit = 2
PROPERTY LockProtocol
\* the system comes to rest when no request and no event is left
CHECK_DEADLOCK FALSE
