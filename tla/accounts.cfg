SPECIFICATION Spec
CONSTANTS
  u1 = u1
  u2 = u2
  Plain = Plain
  Capital = Capital
  other = other
  phone1 = phone1
  firstWord = firstWord
  nextWord = nextWord
  student = student
  admin = admin
  x1 = x1
  x2 = x2
  None = None
  Unset = Unset
  New = New
  Gone = Gone
  Idle = Idle
  Users = {u1, u2}
  Addresses = {Plain, Capital, other}
  Normal <- MCNormal
  Phones = {phone1}
  Schools = {}
  Passwords = {firstWord, nextWord}
  Roles = {student, admin}
  Student = student
  Payloads <- MCPayloads
  Txns = {x1, x2}
INVARIANTS
  TypeOK
  FoundByAddress
  TeachersStay
PROPERTY CredentialsStay
SYMMETRY Symmetry
CHECK_DEADLOCK FALSE
