SPECIFICATION Spec
CONSTANTS
  Request = {r1, r2}
  u1 = u1
  e1 = e1
  u2 = u2
  e2 = e2
  User = {u1}
  Email = {e1}
  Role = {user}
  Password = {p1, p2}
  Null = Null
  FirstEmail <- OneUser
  FirstRole = user
  FirstPassword = p1
  MaxSessions = 2
  MaxVersion = 2
  MaxCodes = 0
INVARIANTS
  SingleSession
CHECK_DEADLOCK FALSE
