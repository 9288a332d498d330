\* Two statements over one table; the program keeps one blob at a time.
SPECIFICATION Spec
CONSTANTS
  Stmt = {s1, s2}
  Row = {r1, Null}
  Null = Null
  NoRow = NoRow
  KeepsBlobs = FALSE
  MaxRows = 3
SYMMETRY StmtSymmetry
INVARIANTS TypeOK PointersValid NothingLost
PROPERTY ImplementsCursor
