SPECIFICATION Spec
CONSTANTS
  Keys = {"k1", "k2"}
  Scans = {"s1", "s2"}
  Resources = {"r1", "r2"}
  Capacity = 1
  Publishers = {"p1", "p2"}
  Workloads <- MCPanels
  Browsers = {"b1"}
  History = 3
  Limit = 2
  BusQueue = 1
  StreamQueue = 1
  MaxBeats = 0
  MaxConnects = 1
INVARIANTS
  IndexesExact
  PanelAgrees
  PanelShowsMerge
CHECK_DEADLOCK FALSE
