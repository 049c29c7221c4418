SPECIFICATION CronSpec
CONSTANTS
  Request = {r1}
  User = {u1}
  Admin = {}
  File = {f1, f2}
  Key = {k1, k2}
  Null = Null
  Healthy = {f1}
  Retention = 2
  MaxTime = 2
  MaxCodes = 1
  MaxRestarts = 1
INVARIANTS
  ObjectGoesBeforeRecord
PROPERTIES
  TrashNeedsAcceptedCode
  RetentionRespected
  ExpiredTrashIsRemoved
