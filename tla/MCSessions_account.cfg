SPECIFICATION Spec
CONSTANTS
  Request = {r1, r2}
  u1 = u1
  e1 = e1
  u2 = u2
  e2 = e2
  User = {u1, u2}
  Email = {e1, e2}
  Role = {user}
  Password = {p1, p2}
  Null = Null
  FirstEmail <- TwoUsers
  FirstRole = user
  FirstPassword = p1
  MaxSessions = 1
  MaxVersion = 2
  MaxCodes = 1
VIEW Future
SYMMETRY UserSymmetry
INVARIANTS
  TypeOK
  StoredTokenMatchesAccount
PROPERTIES
  PasswordChangeIsProven
  ImplementsAccounts
CHECK_DEADLOCK FALSE
