SPECIFICATION PresetsSpec
CONSTANTS
  Branches = {"soc2"}
  Callers = {"tab1", "tab2"}
  Serves <- EveryHandler
  Files = 2
  MaxCalls = 3
  MaxApplies = 1
  MaxByUser = 2
INVARIANTS
  PendingHasPR
PROPERTIES
  NoCommitOnStandingPR
  OpensOnlyComplete
  RefinesService
  EveryCallReturns
  DemoPresetGetsEnabled
CHECK_DEADLOCK FALSE
