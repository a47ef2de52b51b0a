CONSTANTS
  Type <- const_Type
  Number <- const_Number
  Hash <- const_Hash
  ChoiceSyms = {"CH", "CB"}
  modules_sym = "MODULES"
  Versions <- const_Versions
  Trees <- const_Trees
  Disks <- const_Disks
  Defconfig <- const_Defconfig
  Picks <- const_Picks
  Answers = {1, 3}
  MaxStarts = 1
SPECIFICATION Spec
INVARIANTS TypeOK SavedReadsBack SavedObeys NewAsked CacheIsFresh MinimalIsEnough DependentsRebuilt
PROPERTIES FilesSpec AcceptedIsSet RunEnds
CHECK_DEADLOCK FALSE
