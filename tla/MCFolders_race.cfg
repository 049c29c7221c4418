SPECIFICATION Spec
CONSTANTS
  Request = {r1, r2}
  User = {u1, u2}
  Admin = {u2}
  Folder = {f1, f2}
  Name = {n1}
  Null = Null
  MaxDepth = 2
SYMMETRY FolderSymmetry
INVARIANTS
  TypeOK
  TreeShowsRooted
  PlacesAgree
PROPERTIES
  DeletedIsFinal
  TwinNeedsRace
  PathNeedsRace
CHECK_DEADLOCK FALSE
