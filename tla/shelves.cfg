SPECIFICATION Spec
CONSTANTS
  c1 = c1
  c2 = c2
  n1 = n1
  n2 = n2
  q1 = q1
  t1 = t1
  x1 = x1
  x2 = x2
  Null = Null
  Unset = Unset
  New = New
  Gone = Gone
  Idle = Idle
  Txns = {x1, x2}
  Paths <- MCPaths
  Lists <- MCLists
  Patches <- MCPatches
  Cats = {c1, c2}
  Names = {n1, n2}
  Questions = {q1}
  Tests = {t1}
  MaxPath = 2
  MaxList = 0
  Numbers = {Null}
INVARIANTS
  TypeOK
  ReferencesExist
SYMMETRY Symmetry
CHECK_DEADLOCK FALSE
