CONSTANTS
  a1 = a1
  a2 = a2
  svc = svc
  r1 = r1
  r2 = r2
  r3 = r3
  r4 = r4
  None = None
  Requests <- MCRequests
  Senders = {a1, a2, svc}
  Services = {svc}
  Sender <- MCSender
  Service <- MCService
  Inner <- MCInner
  StopBound = 0
SPECIFICATION Spec
INVARIANTS AnswersCorrelate
CHECK_DEADLOCK FALSE
