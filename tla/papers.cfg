SPECIFICATION Spec
CONSTANTS
  c1 = c1
  n1 = n1
  q1 = q1
  q2 = q2
  t1 = t1
  t2 = t2
  x1 = x1
  x2 = x2
  Null = Null
  Unset = Unset
  New = New
  Gone = Gone
  Idle = Idle
  Txns = {x1, x2}
  Paths <- MCPaths
  Lists <- MCLists
  Patches <- MCPatches
  Cats = {c1}
  Names = {n1}
  Questions = {q1, q2}
  Tests = {t1, t2}
  MaxPath = 0
  MaxList = 2
  Numbers = {1}
INVARIANTS
  PositionsDistinct
PROPERTIES
  QuestionsStay
  OnlyAskedFields
SYMMETRY Symmetry
CHECK_DEADLOCK FALSE
