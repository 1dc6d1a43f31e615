CONSTANTS
  t1 = t1
  t2 = t2
  a1 = a1
  a2 = a2
  q1 = q1
  q2 = q2
  Tabs = {t1, t2}
  Agents = {a1, a2}
  FirstAgent = a1
  None = None
  MaxHistory = 2
  Asks = {q1, q2}
  ConvBound = 4
  UpsetBound = 1
SPECIFICATION Spec
SYMMETRY TabAndAskSymmetry
CHECK_DEADLOCK FALSE
INVARIANTS
  QuestionsKept
  OneAgentPerConversation
  AnswerUnderItsQuestion
  SpinnerMeansWaiting
