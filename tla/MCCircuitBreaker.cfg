CONSTANTS
  FailureThreshold = 2
  HalfOpenMaxCalls = 1
  Calls = {c1, c2, c3, c4, c5}
  ResetBound = 1
SPECIFICATION FairSpec
INVARIANTS TrippedAtThreshold
PROPERTIES ImplementsContract TrialResolves
CHECK_DEADLOCK FALSE
