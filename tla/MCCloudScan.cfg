SPECIFICATION Spec
CONSTANTS
  Accounts <- MCAccounts
  Regions = {"east", "west"}
  Default = "east"
  Estates <- MCEstates
INVARIANTS
  CleanScanIsExact
  FaultsReportedOrLogged
  NothingMadeUp
  CriticalFailsCompliance
