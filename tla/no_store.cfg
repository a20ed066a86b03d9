SPECIFICATION LoginSpec
CONSTANTS
  u1 = u1
  u2 = u2
  mail = mail
  secret = secret
  student = student
  k1 = k1
  r1 = r1
  r2 = r2
  x1 = x1
  None = None
  Unset = Unset
  New = New
  Gone = Gone
  Idle = Idle
  Nothing = Nothing
  Users = {u1, u2}
  Addresses = {mail}
  Normal <- MCNormal
  Phones = {}
  Schools = {}
  Passwords = {secret}
  Roles = {student}
  Student = student
  Payloads = {}
  Txns = {x1}
  Tokens = {k1}
  Requests = {r1, r2}
  Stores = {FALSE}
  AccessTTL = 1
  SessionTTL = 2
  RefreshTTL = 3
  MaxTime = 4
INVARIANT LogoutRevokes
SYMMETRY Symmetry
CHECK_DEADLOCK FALSE
