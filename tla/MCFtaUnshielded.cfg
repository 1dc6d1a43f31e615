CONSTANTS
  FailureThreshold = 3
  HalfOpenMaxCalls = 1
  Clients = {s1}
  Priority = {"rag", "fta", "code_analysis"}
  Decisions = {"rag", "workflow"}
  Errors = {"unknown"}
  MaxRetries = 2
  MaxClarifications = 0
  SessionBound = 3
SPECIFICATION Spec
INVARIANT FtaIsShielded
CHECK_DEADLOCK FALSE
