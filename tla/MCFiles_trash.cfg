SPECIFICATION Spec
CONSTANTS
  Request = {r1, r2}
  User = {u1, u2}
  Admin = {u2}
  File = {f1}
  Key = {k1}
  Null = Null
  Healthy = {}
  Retention = 2
  MaxTime = 0
  MaxCodes = 1
  MaxRestarts = 0
SYMMETRY BucketSymmetry
INVARIANTS
  TypeOK
  ObjectGoesBeforeRecord
PROPERTIES
  RemovedIsFinal
  TrashNeedsAcceptedCode
  OnlyOwnerOrAdminDisposes
