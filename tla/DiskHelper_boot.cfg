SPECIFICATION Spec
CONSTANTS
  root = root
  userdata = userdata
  sd = sd
  Parts = {root, userdata}
  Root = {root}
  Helpers = {"mount", "resize"}
  Checked = {root, userdata}
  Resizable = {root, userdata}
  Formattable = {userdata}
  Ubi = {userdata}
  Deep = {}
  Opt <- ConstOpt
  MaxBoot = 2
  MaxFail = 2
INVARIANTS TypeOK MarkerMeansFull RoRwRestored
PROPERTY WipedWithCopy
\* a boot that is over waits for the next one
CHECK_DEADLOCK FALSE
