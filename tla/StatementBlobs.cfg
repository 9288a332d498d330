\* The program keeps a blob's pointer as long as sw_db.h allows.
SPECIFICATION Spec
CONSTANTS
  Stmt = {s1}
  Row = {r1, r2, Null}
  Null = Null
  NoRow = NoRow
  KeepsBlobs = TRUE
  MaxRows = 2
INVARIANT PointersValid
