SPECIFICATION Spec
CONSTANTS
  Request = {r1, r2}
  User = {u1, u2}
  Email = {e1, e2}
  SeedEmail = e1
  Null = Null
SYMMETRY AccountSymmetry
INVARIANTS
  TypeOK
  OneSuperadmin
  EmailsAreUnique
PROPERTIES
  OnlySuperadminDemotes
  DeletedAccountIsFinal
  GrantedByManager
  ImplementsAccounts
CHECK_DEADLOCK FALSE
