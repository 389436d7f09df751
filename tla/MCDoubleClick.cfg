SPECIFICATION PresetsSpec
CONSTANTS
  Branches = {"soc2"}
  Callers = {"tab1", "tab2"}
  Serves <- EveryHandler
  Files = 1
  MaxCalls = 2
  MaxApplies = 0
  MaxByUser = 0
PROPERTIES
  NoCommitOnOpenPR
CHECK_DEADLOCK FALSE
