SPECIFICATION Spec
CONSTANTS
  Request = {r1, r2}
  User = {u1}
  Purpose = {resetPassword}
  File = {f1, f2}
  Null = Null
  Code = {c1, c2}
  Expiry = 1
  MaxAttempts = 2
  MaxTime = 1
  MaxOtp = 2
SYMMETRY OtpSymmetry
INVARIANTS
  TypeOK
  ActiveIsNewest
  DuplicateOnlyUnderRace
PROPERTIES
  SettledLockHolds
  ImplementsOneTimeCode
