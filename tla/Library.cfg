SPECIFICATION Spec
CONSTANTS
  Conn = {c1, c2, c3}
  Timeouts = {1, 2, 3}
  PollTimeout = 2
  MaxTime = 2
  MaxDeadlines = 5
  MaxUnits = 6
  MaxRecord = 3
  MaxReply = 2
  MaxControls = 2
  MaxSqlUnits = 2
  MaxPieces = 2
  Languages <- AllLanguages
  Tables <- AllTables
  GroupFiles <- AllGroupFiles
  ValidCodes = {"ja", "ar"}
  MaxCalls = 4
  MaxSaid = 4
  MaxRequests = 4
SYMMETRY Symmetry
INVARIANTS TimersOrdered NeverStalls StatementText TranslationsWhole PageExact Settled
\* Every part stops at its bound.
CHECK_DEADLOCK FALSE
