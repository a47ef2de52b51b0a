SPECIFICATION FairSpec
CONSTANTS
  adb = adb
  uvc = uvc
  rndis = rndis
  uac = uac
  adbd = adbd
  uvcGadget = uvcGadget
  NoFile = NoFile
  Down = Down
  NoInode = NoInode
  Exec <- ConstExec
  Reqs = {r1}
  Insts = {adb, uvc, uac}
  Supported = {adb, uvc}
  Daemons = {adb, uvc}
  Ffs = {adb}
  Filled = {uvc}
  Execs = {adbd, uvcGadget}
  Slots = {k1}
  Configs = {{adb, uac}, {adb, uvc}}
  Inodes = {n1, n2}
  Systemd = FALSE
  ManualActs = {"start", "stop", "restart"}
  UdcAtBoot = FALSE
  EndInTime = FALSE
  EnvKinds = {"crash", "udc", "cable", "user", "edit", "stop"}
  MaxEnv = 0
  MaxFail = 0
  StartLimit = 2
PROPERTY RetriesUntilUp
\* the system comes to rest when no request and no event is left
CHECK_DEADLOCK FALSE
