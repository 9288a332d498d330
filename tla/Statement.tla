----------------------------- MODULE Statement -----------------------------
(***************************************************************************)
(* Prepared statements of the postgres driver (src/src/sw_db_postgres.c)   *)
(* behind the interface of src/src/sw_db.c, used by one thread over one    *)
(* connection.  The driver has no cursor: the first step executes the      *)
(* statement and keeps the whole PGresult, later steps count through its   *)
(* rows.                                                                   *)
(*                                                                         *)
(* The program keeps pointers the column functions return for as long as   *)
(* sw_db.h says they stay valid.  A pointer is into the memory of the      *)
(* statement's PGresult, or is its blob cache.                             *)
(*                                                                         *)
(* An insert adds the row its parameter is bound to; a select gives all    *)
(* rows.  The database, what a row is made of, texts of errors, and a      *)
(* connection that breaks are left out.                                    *)
(***************************************************************************)
EXTENDS Integers, Sequences

CONSTANTS
  Stmt,            \* the statements
  Row,             \* what a row of the table may be
  Null,            \* the row of NULLs, which an unbound parameter stands for
  NoRow,           \* "no row"
  KeepsBlobs,      \* the program keeps a blob's pointer over the next column_blob
  MaxRows          \* bound: rows in the table

ASSUME RowAssumption == Null \in Row /\ NoRow \notin Row
ASSUME BoundAssumption == KeepsBlobs \in BOOLEAN /\ MaxRows \in Nat

VARIABLES
  table,           \* the rows, in the order the database gives them
  stmt,            \* each sw_db_stmt with its sw_pg_stmt
  held,            \* the pointers into each statement's memory that the program keeps
  lost             \* history: memory nothing refers to any more was not freed

vars == <<table, stmt, held, lost>>

\* status is that of the PGresult, "none" without one; cache: there is a blob cache.
Unprepared ==
  [sql |-> "none", param |-> Null, status |-> "none", rows |-> <<>>, rowIndex |-> -1,
   cache |-> FALSE]

-----------------------------------------------------------------------------
(* Memory.                                                                  *)

Pointer(where) == [to |-> where, valid |-> TRUE]

\* What becomes of pointers when the memory they are to is freed.
Freed(where, pointers) ==
  {IF p.to \in where THEN [p EXCEPT !.valid = FALSE] ELSE p : p \in pointers}

\* sw_pg_clear_result
ClearResult(c) == [c EXCEPT !.status = "none", !.rows = <<>>, !.rowIndex = -1]

\* sw_pg_clear_blob_cache
ClearBlobCache(c) == [c EXCEPT !.cache = FALSE]

\* Nothing is left of an execution.
Cleared(c) == ClearBlobCache(ClearResult(c))

\* sw_pg_current_row; 0 is none.
CurrentRow(c) == IF c.rowIndex < Len(c.rows) THEN c.rowIndex + 1 ELSE 0

\* What the program keeps when it asks for a blob, and what it is given.
Kept(pointers) == IF KeepsBlobs THEN pointers ELSE {p \in pointers : p.to # "cache"}
Returned(where) == IF where = "none" THEN {} ELSE {Pointer(where)}

-----------------------------------------------------------------------------

Init ==
  /\ table = <<>>
  /\ stmt = [s \in Stmt |-> Unprepared]
  /\ held = [s \in Stmt |-> {}]
  /\ lost = FALSE

\* sw_pg_prepare; one that fails leaves nothing.
Prepare(s, q) ==
  /\ stmt[s].sql = "none"
  /\ stmt' = [stmt EXCEPT ![s] = [Unprepared EXCEPT !.sql = q]]
  /\ UNCHANGED <<table, held, lost>>

\* Mutant: a new value makes the statement ready to be executed.
BindResets(s, r) ==
  /\ stmt[s].sql # "none"
  /\ stmt' = [stmt EXCEPT ![s] = Cleared([@ EXCEPT !.param = r])]
  /\ held' = [held EXCEPT ![s] = Freed({"result", "cache"}, @)]
  /\ UNCHANGED <<table, lost>>

\* sw_pg_bind_owned: allowed at any time, seen by the next execution.
Bind(s, r) ==
  /\ stmt[s].sql # "none"
  /\ stmt' = [stmt EXCEPT ![s].param = r]
  /\ UNCHANGED <<table, held, lost>>

\* Mutant: the result of a failed execution is kept.
FailedKept(c) == [c EXCEPT !.status = "error"]

\* What a failed execution leaves: a result with an error in it is cleared at once.
Failed(c) == Cleared(c)

\* sw_pg_execute_stmt fails: no memory, or an error from the server.
ExecuteFails(s) ==
  /\ stmt[s].sql # "none"
  /\ stmt[s].status = "none"
  /\ stmt' = [stmt EXCEPT ![s] = Failed(@)]
  /\ held' = [held EXCEPT ![s] = {}]
  /\ UNCHANGED <<table, lost>>

\* The first step of an insert: SW_DB_DONE.
StepInsert(s) ==
  /\ stmt[s].sql = "insert"
  /\ stmt[s].status = "none"
  /\ Len(table) < MaxRows
  /\ table' = Append(table, stmt[s].param)
  /\ stmt' = [stmt EXCEPT ![s] = [Cleared(@) EXCEPT !.status = "command"]]
  /\ held' = [held EXCEPT ![s] = {}]
  /\ UNCHANGED lost

\* The first step of a select: SW_DB_ROW if there is one, else SW_DB_DONE.
StepSelect(s) ==
  /\ stmt[s].sql = "select"
  /\ stmt[s].status = "none"
  /\ stmt' = [stmt EXCEPT ![s] =
       [Cleared(@) EXCEPT !.status = "tuples", !.rows = table,
                          !.rowIndex = IF table # <<>> THEN 0 ELSE -1]]
  /\ held' = [held EXCEPT ![s] = {}]
  /\ UNCHANGED <<table, lost>>

\* Mutant: the row after the last is counted too.
HasNextLate(c) == c.rowIndex < Len(c.rows)

HasNext(c) == c.rowIndex + 1 < Len(c.rows)

Advanced(c) == ClearBlobCache([c EXCEPT !.rowIndex = c.rowIndex + 1])

\* SW_DB_ROW: the next row.
StepNext(s) ==
  /\ stmt[s].status = "tuples"
  /\ HasNext(stmt[s])
  /\ stmt' = [stmt EXCEPT ![s] = Advanced(@)]
  /\ held' = [held EXCEPT ![s] = {}]
  /\ UNCHANGED <<table, lost>>

\* SW_DB_DONE, once more: the result and its last row stay.
StepDone(s) ==
  /\ \/ stmt[s].status = "command"
     \/ stmt[s].status = "tuples" /\ ~HasNext(stmt[s])
  /\ held' = [held EXCEPT ![s] = {}]
  /\ UNCHANGED <<table, stmt, lost>>

\* sw_pg_reset: what is bound stays bound.
Reset(s) ==
  /\ stmt[s].sql # "none"
  /\ stmt' = [stmt EXCEPT ![s] = Cleared(@)]
  /\ held' = [held EXCEPT ![s] = {}]
  /\ UNCHANGED <<table, lost>>

\* Mutant: the blob cache is forgotten.
ReleasedButCache(c) == ClearResult(c)

\* What sw_pg_finalize frees before the statement itself.
Released(c) == Cleared(c)

Finalize(s) ==
  /\ stmt[s].sql # "none"
  /\ lost' = (lost \/ Released(stmt[s]).cache \/ Released(stmt[s]).status # "none")
  /\ stmt' = [stmt EXCEPT ![s] = Unprepared]
  /\ held' = [held EXCEPT ![s] = {}]
  /\ UNCHANGED table

\* sw_pg_column_text
ColumnText(s) ==
  /\ CurrentRow(stmt[s]) # 0
  /\ held' = [held EXCEPT ![s] = @ \union {Pointer("result")}]
  /\ UNCHANGED <<table, stmt, lost>>

\* sw_pg_column_blob of a value that is not null: the cache is freed, and made anew for a
\* bytea if there is memory; a value of another type is in the result.
ColumnBlob(s) ==
  /\ CurrentRow(stmt[s]) # 0
  /\ \E where \in {"cache", "result", "none"} :
       /\ stmt' = [stmt EXCEPT ![s].cache = (where = "cache")]
       /\ held' = [held EXCEPT ![s] = Freed({"cache"}, Kept(@)) \union Returned(where)]
  /\ UNCHANGED <<table, lost>>

\* sw_db_exec: somebody else's row, or all of them deleted.
Exec ==
  /\ \/ Len(table) < MaxRows /\ \E r \in Row : table' = Append(table, r)
     \/ table' = <<>>
  /\ UNCHANGED <<stmt, held, lost>>

Next ==
  \/ \E s \in Stmt :
       \/ \E q \in {"insert", "select"} : Prepare(s, q)
       \/ \E r \in Row : Bind(s, r)
       \/ ExecuteFails(s) \/ StepInsert(s) \/ StepSelect(s) \/ StepNext(s) \/ StepDone(s)
       \/ Reset(s) \/ Finalize(s)
       \/ ColumnText(s) \/ ColumnBlob(s)
  \/ Exec

Spec == Init /\ [][Next]_vars
-----------------------------------------------------------------------------

Statements ==
  [sql : {"none", "insert", "select"}, param : Row, status : {"none", "command", "tuples"},
   rows : Seq(Row), rowIndex : Int, cache : BOOLEAN]

\* The position is among the rows, and only a select has rows.
Positioned(c) ==
  /\ c.rowIndex \in -1 .. Len(c.rows) - 1
  /\ c.status # "tuples" => c.rows = <<>>

TypeOK ==
  /\ table \in Seq(Row)
  /\ stmt \in [Stmt -> Statements]
  /\ \A s \in Stmt : Positioned(stmt[s])
  /\ held \in [Stmt -> SUBSET [to : {"result", "cache"}, valid : BOOLEAN]]
  /\ lost \in BOOLEAN

\* A pointer returned by a column function stays valid until the next step, reset or
\* finalize of its statement: other column functions, binds and other statements free
\* nothing it is to, and the statement still has that memory.
PointersValid ==
  \A s \in Stmt : \A p \in held[s] :
    p.valid /\ stmt[s].status # "none" /\ (p.to = "cache" => stmt[s].cache)

\* All memory of a statement's results and blobs is freed by the time it is finalized.
NothingLost == ~lost

\* The rows a statement has still to give, and the one it gave last.
Left(c) == SubSeq(c.rows, c.rowIndex + 2, Len(c.rows))
Given(c) == IF c.rowIndex = -1 THEN NoRow ELSE c.rows[c.rowIndex + 1]

Promise == INSTANCE Cursor WITH
  sql <- [s \in Stmt |-> stmt[s].sql],
  bound <- [s \in Stmt |-> stmt[s].param],
  ran <- [s \in Stmt |-> stmt[s].status # "none"],
  left <- [s \in Stmt |-> Left(stmt[s])],
  at <- [s \in Stmt |-> Given(stmt[s])]

\* Counting through a whole result is a cursor: each row of one execution is given
\* once and in order, a step after the last executes nothing, and a failed execution
\* is tried again by the next step.
ImplementsCursor == Promise!Spec
=============================================================================
