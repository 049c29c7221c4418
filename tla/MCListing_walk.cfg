SPECIFICATION Spec
CONSTANTS
  Row = {a, b, c}
  FolderRow = {c}
  MaxLimit = 2
  DefaultLimit = 1
  MaxKey = 3
  MaxPage = 4
SYMMETRY RowSymmetry
INVARIANTS
  TypeOK
  MissedNeedsCause
  TwiceNeedsCause
  OverviewOffByWrites
