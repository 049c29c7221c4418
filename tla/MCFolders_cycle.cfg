SPECIFICATION Spec
CONSTANTS
  Request = {r1}
  User = {u1}
  Admin = {u1}
  Folder = {f1, f2}
  Name = {n1, n2}
  Null = Null
  MaxDepth = 2
SYMMETRY FolderSymmetry
INVARIANTS
  NoFolderInsideItself
CHECK_DEADLOCK FALSE
