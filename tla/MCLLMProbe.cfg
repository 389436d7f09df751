SPECIFICATION Spec
CONSTANTS
  Callers = {c1, c2, c3}
  Threshold = 1
  MaxRetries = 0
  HasFallback = FALSE
INVARIANTS
  OnlyOneInFlightProbe
