CONSTANTS
  Calls = {c1, c2, c3}
  Operators = {}
  FailureThreshold = 1
  HalfOpenMaxCalls = 1
SPECIFICATION Spec
INVARIANT EveryChangeHeard
CHECK_DEADLOCK FALSE
