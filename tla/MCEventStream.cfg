SPECIFICATION Spec
CONSTANTS
  Keys = {"k1", "k2"}
  Scans = {"s1", "s2"}
  Resources = {"r1", "r2"}
  Capacity = 1
  Publishers = {"p1", "p2"}
  Workloads <- MCWorkloads
  Browsers = {"b1"}
  History = 3
  Limit = 2
  BusQueue = 1
  StreamQueue = 1
  MaxBeats = 1
  MaxConnects = 1
INVARIANTS
  StreamInOrder
  NothingMissed
PROPERTIES
  StopsCleanly
CHECK_DEADLOCK FALSE
