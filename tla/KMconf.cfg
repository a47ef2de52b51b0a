CONSTANTS
  Type <- const_Type
  Number <- const_Number
  Hash <- const_Hash
  ChoiceSyms = {"CH"}
  modules_sym = "MODULES"
  Runs <- const_Runs
  Initial <- const_Initial
  Letters = {"a", "e", "z"}
  Chars = {1}
  Starts <- const_Starts
  Searches <- const_Searches
  Terminals <- const_Terminals
  HelpLines = 2
  InputWidth = 2
  MaxLen = 2
SPECIFICATION Spec
INVARIANTS TypeOK ShownIsActedOn PageStays EntriesReachable JumpLands CleanIsSaved
PROPERTIES ScreenSpec EscapeLeaves
CHECK_DEADLOCK FALSE
