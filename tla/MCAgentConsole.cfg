CONSTANTS
  c1 = c1
  c2 = c2
  m1 = m1
  m2 = m2
  Confs = {c1, c2}
  None = None
  Blank = Blank
  Mutations = {m1, m2}
  Slots <- MCSlots
  Methods <- MCMethods
  MaxReplicas = 2
  WriteBound = 3
SPECIFICATION Spec
SYMMETRY Interchangeable
INVARIANTS
  HonestWithoutMocks
  VerdictExpires
  DeploymentCurrent
PROPERTIES
  FormKept
