CONSTANTS
  FailureThreshold = 1
  HalfOpenMaxCalls = 1
  Clients = {s1, s2}
  Priority = {"rag", "fta", "code_analysis"}
  Decisions = {"rag", "workflow"}
  Errors = {"unknown", "missing"}
  MaxRetries = 2
  MaxClarifications = 1
  SessionBound = 2
SPECIFICATION Spec
SYMMETRY Symmetry
INVARIANTS NoRouteTwice LastResort LateCallsBounded FailingRouteIsShielded
CHECK_DEADLOCK FALSE
