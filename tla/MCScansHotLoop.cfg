SPECIFICATION Spec
CONSTANTS
  Owners = {"cluster"}
  NameOf <- MCNames
  Kinds <- MCKinds
  Limit = 1
  MaxReports = 5
  MaxUnseen = 1
  MaxFaults = 0
  MaxUser = 1
PROPERTY NoSelfTriggeredScan
CHECK_DEADLOCK FALSE
