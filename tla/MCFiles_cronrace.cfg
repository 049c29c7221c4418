SPECIFICATION Spec
CONSTANTS
  Request = {r1, r2}
  User = {u1}
  Admin = {}
  File = {f1}
  Key = {k1}
  Null = Null
  Healthy = {}
  Retention = 1
  MaxTime = 2
  MaxCodes = 1
  MaxRestarts = 0
PROPERTIES
  CronDeletesOnlyTrash
