SPECIFICATION Spec
CONSTANTS
  e0 = e0
  e1 = e1
  e2 = e2
  g1 = g1
  g2 = g2
  None = None
  Events = {e0, e1, e2}
  Gates = {g1, g2}
  Trees <- MCTrees
  OthersTrees <- MCOthersTrees
  Heights = {0, 3}
  MaxPast = 1
  EditBound = 2
INVARIANTS SavedAcyclic RoundTrip LayoutKeepsTree CleanMeansSaved
