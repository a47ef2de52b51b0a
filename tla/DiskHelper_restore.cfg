SPECIFICATION Spec
CONSTANTS
  root = root
  userdata = userdata
  sd = sd
  Parts = {sd}
  Root = {}
  Helpers = {"mount", "resize"}
  Checked = {sd}
  Resizable = {sd}
  Formattable = {sd}
  Ubi = {}
  Deep = {sd}
  Opt <- ConstOpt
  MaxBoot = 2
  MaxFail = 0
INVARIANT FilesSurvive
\* a boot that is over waits for the next one
CHECK_DEADLOCK FALSE
