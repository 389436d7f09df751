SPECIFICATION Spec
CONSTANTS
  Owners = {"a"}
  NameOf <- MCNames
  Kinds <- MCKinds
  Limit = 1
  MaxReports = 5
  MaxUnseen = 1
  MaxFaults = 1
  MaxUser = 3
INVARIANTS
  CompletedNamesNewest
PROPERTIES
  OnlyOldPruned
  HistoryComesBack
  RunningEnds
CHECK_DEADLOCK FALSE
