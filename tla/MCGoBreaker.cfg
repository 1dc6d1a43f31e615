CONSTANTS
  Calls = {c1, c2, c3}
  Operators = {o1}
  FailureThreshold = 1
  HalfOpenMaxCalls = 1
SPECIFICATION FairSpec
PROPERTIES ImplementsContract TrialResolves
CHECK_DEADLOCK FALSE
