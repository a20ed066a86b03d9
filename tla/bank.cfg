SPECIFICATION Spec
CONSTANTS
  q1 = q1
  q2 = q2
  v1 = v1
  v2 = v2
  b1 = b1
  b2 = b2
  x1 = x1
  x2 = x2
  New = New
  Gone = Gone
  Missing = Missing
  Unreadable = Unreadable
  None = None
  Idle = Idle
  Questions = {q1}
  Versions = {v1, v2}
  Banks = {b1, b2}
  Sessions = {x1, x2}
INVARIANTS
  TypeOK
  BankComplete
  
  CacheFresh
SYMMETRY Symmetry
CHECK_DEADLOCK FALSE
