SPECIFICATION Spec
CONSTANTS
  Resources <- MCResources
  Policies <- MCPolicies
  Messages <- MCMessages
  Signals <- MCSignals
  Window = 2
  PruneFactor = 2
  MaxTime = 4
  MaxEvents = 4
INVARIANTS
  TypeOK
  OneFreshOpenIncident
  SeverityIsHighest
  NoMissedPair
  SharedOnlyAtWindowEdge
PROPERTIES
  RefinesBoard
CHECK_DEADLOCK FALSE
