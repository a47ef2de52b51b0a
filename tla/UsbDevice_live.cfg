SPECIFICATION FairSpec
CONSTANTS
  adb = adb
  uvc = uvc
  rndis = rndis
  uac = uac
  adbd = adbd
  uvcGadget = uvcGadget
  NoFile = NoFile
  Down = Down
  NoInode = NoInode
  Exec <- ConstExec
  Reqs = {r1, r2}
  Insts = {adb, uac}
  Supported = {adb}
  Daemons = {adb}
  Ffs = {adb}
  Filled = {}
  Execs = {adbd}
  Slots = {k1}
  Configs = {{adb}}
  Inodes = {n1, n2, n3}
  Systemd = TRUE
  ManualActs = {"update", "restart"}
  UdcAtBoot = FALSE
  EnvKinds = {"cable"}
  MaxEnv = 1
  MaxFail = 0
  EndInTime = TRUE
  StartLimit = 1
PROPERTY Settles
\* the system comes to rest when no request and no event is left
CHECK_DEADLOCK FALSE
