SPECIFICATION FairSpec
CONSTANTS
  Request = {r1, r2}
  User = {u1}
  Purpose = {resetPassword}
  File = {}
  Null = Null
  Code = {c1, c2}
  Expiry = 1
  MaxAttempts = 1
  MaxTime = 2
  MaxOtp = 2
PROPERTIES
  EveryCodeRetires
