SPECIFICATION LoopSpec
CONSTANTS
  e1 = e1
  e2 = e2
  v1 = v1
  v2 = v2
  s1 = s1
  s2 = s2
  Emitters = {e1, e2}
  Evaluators = {v1, v2}
  Sources = {s1, s2}
  Cap = 2
  Window = 1
  Threshold = 2
  MaxTime = 2
  EmitBound = 3
  EvalBound = 3
SYMMETRY Interchangeable
CHECK_DEADLOCK FALSE
INVARIANTS BufferHoldsLatest WindowKept
PROPERTIES Cooldown
