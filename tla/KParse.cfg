CONSTANTS
  Type <- const_Type
  Number <- const_Number
  Sources <- const_Sources
  Configs = {"A", "B", "R", "V", "W"}
  ChoiceSyms = {"CH"}
  modules_sym = "n"
  Hash <- const_Hash
SPECIFICATION Spec
INVARIANTS TypeOK KeepsMeaning SelectsGathered SourceOrder SubmenuReached CycleReported PrintsBack
CHECK_DEADLOCK FALSE
