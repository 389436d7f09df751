SPECIFICATION Spec
CONSTANTS
  Callers = {c1, c2}
  Threshold = 2
  MaxRetries = 1
  HasFallback = TRUE
INVARIANTS
  TypeOK
  HalfOpenHasProbe
  OpenIffTooManyFailures
PROPERTIES
  EveryCallReturns
  BreakerRecovers
