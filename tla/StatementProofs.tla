--------------------------- MODULE StatementProofs ---------------------------
(***************************************************************************)
(* Statement is proved for any number of statements, any rows and tables   *)
(* of any length: its types, that no memory is lost, that the pointers are *)
(* valid where the program keeps one blob at a time, and that it           *)
(* implements Cursor.                                                      *)
(***************************************************************************)
EXTENDS Statement, SequenceTheorems, TLAPS

Pointers == [to : {"result", "cache"}, valid : BOOLEAN]

USE RowAssumption, BoundAssumption

-----------------------------------------------------------------------------
(* What the helpers make of one statement's record.                         *)

LEMMA NoRows == <<>> \in Seq(Row) /\ Len(<<>>) = 0
  BY EmptySeq

LEMMA UnpreparedFits == Unprepared \in Statements /\ Positioned(Unprepared)
  BY NoRows DEF Unprepared, Statements, Positioned

\* Giving one field a value leaves the others, and the record in its range.
LEMMA SetSql ==
  ASSUME NEW c \in Statements, NEW v \in {"none", "insert", "select"}
  PROVE  LET d == [c EXCEPT !.sql = v]
         IN  /\ d \in Statements
             /\ d.sql = v /\ d.param = c.param /\ d.status = c.status /\ d.rows = c.rows
             /\ d.rowIndex = c.rowIndex /\ d.cache = c.cache
  BY DEF Statements

LEMMA SetParam ==
  ASSUME NEW c \in Statements, NEW v \in Row
  PROVE  LET d == [c EXCEPT !.param = v]
         IN  /\ d \in Statements
             /\ d.sql = c.sql /\ d.param = v /\ d.status = c.status /\ d.rows = c.rows
             /\ d.rowIndex = c.rowIndex /\ d.cache = c.cache
  BY DEF Statements

LEMMA SetStatus ==
  ASSUME NEW c \in Statements, NEW v \in {"none", "command", "tuples"}
  PROVE  LET d == [c EXCEPT !.status = v]
         IN  /\ d \in Statements
             /\ d.sql = c.sql /\ d.param = c.param /\ d.status = v /\ d.rows = c.rows
             /\ d.rowIndex = c.rowIndex /\ d.cache = c.cache
  BY DEF Statements

LEMMA SetRows ==
  ASSUME NEW c \in Statements, NEW v \in Seq(Row)
  PROVE  LET d == [c EXCEPT !.rows = v]
         IN  /\ d \in Statements
             /\ d.sql = c.sql /\ d.param = c.param /\ d.status = c.status /\ d.rows = v
             /\ d.rowIndex = c.rowIndex /\ d.cache = c.cache
  BY DEF Statements

LEMMA SetRowIndex ==
  ASSUME NEW c \in Statements, NEW v \in Int
  PROVE  LET d == [c EXCEPT !.rowIndex = v]
         IN  /\ d \in Statements
             /\ d.sql = c.sql /\ d.param = c.param /\ d.status = c.status /\ d.rows = c.rows
             /\ d.rowIndex = v /\ d.cache = c.cache
  BY DEF Statements

LEMMA SetCache ==
  ASSUME NEW c \in Statements, NEW v \in BOOLEAN
  PROVE  LET d == [c EXCEPT !.cache = v]
         IN  /\ d \in Statements
             /\ d.sql = c.sql /\ d.param = c.param /\ d.status = c.status /\ d.rows = c.rows
             /\ d.rowIndex = c.rowIndex /\ d.cache = v
  BY DEF Statements

LEMMA ClearedFits ==
  ASSUME NEW c \in Statements
  PROVE  LET d == Cleared(c)
         IN  /\ d \in Statements /\ Positioned(d)
             /\ d.sql = c.sql /\ d.param = c.param /\ d.status = "none" /\ d.rows = <<>>
             /\ d.rowIndex = -1 /\ d.cache = FALSE
  <1> DEFINE c1 == [c EXCEPT !.status = "none"]
             c2 == [c1 EXCEPT !.rows = <<>>]
             c3 == [c2 EXCEPT !.rowIndex = -1]
             c4 == [c3 EXCEPT !.cache = FALSE]
  <1>1. /\ c1 \in Statements
        /\ c1.sql = c.sql /\ c1.param = c.param /\ c1.status = "none"
    BY SetStatus
  <1> HIDE DEF c1
  <1>2. /\ c2 \in Statements
        /\ c2.sql = c.sql /\ c2.param = c.param /\ c2.status = "none" /\ c2.rows = <<>>
    BY <1>1, SetRows, NoRows
  <1> HIDE DEF c2
  <1>3. /\ c3 \in Statements
        /\ c3.sql = c.sql /\ c3.param = c.param /\ c3.status = "none" /\ c3.rows = <<>>
        /\ c3.rowIndex = -1
    BY <1>2, SetRowIndex
  <1> HIDE DEF c3
  <1>4. /\ c4 \in Statements
        /\ c4.sql = c.sql /\ c4.param = c.param /\ c4.status = "none" /\ c4.rows = <<>>
        /\ c4.rowIndex = -1 /\ c4.cache = FALSE
    BY <1>3, SetCache
  <1>5. Cleared(c) = c4
    BY DEF Cleared, ClearResult, ClearBlobCache, c1, c2, c3
  <1> QED
    BY <1>4, <1>5, NoRows DEF Positioned

\* What the first step of an insert leaves.
LEMMA CommandFits ==
  ASSUME NEW c \in Statements
  PROVE  LET d == [Cleared(c) EXCEPT !.status = "command"]
         IN  /\ d \in Statements /\ Positioned(d)
             /\ d.sql = c.sql /\ d.param = c.param /\ d.status = "command" /\ d.rows = <<>>
             /\ d.rowIndex = -1 /\ d.cache = FALSE
  <1> DEFINE c0 == Cleared(c)
             c1 == [c0 EXCEPT !.status = "command"]
  <1>1. /\ c0 \in Statements
        /\ c0.sql = c.sql /\ c0.param = c.param /\ c0.rows = <<>>
        /\ c0.rowIndex = -1 /\ c0.cache = FALSE
    BY ClearedFits
  <1>2. /\ c1 \in Statements
        /\ c1.sql = c.sql /\ c1.param = c.param /\ c1.status = "command" /\ c1.rows = <<>>
        /\ c1.rowIndex = -1 /\ c1.cache = FALSE
    <2> HIDE DEF c0
    <2> QED
      BY <1>1, SetStatus
  <1> HIDE DEF c1
  <1>3. Positioned(c1)
    BY <1>2, NoRows DEF Positioned
  <1> QED
    BY <1>2, <1>3 DEF c1

\* What the first step of a select leaves.
LEMMA TuplesFit ==
  ASSUME NEW c \in Statements, NEW rows \in Seq(Row)
  PROVE  LET i == IF rows # <<>> THEN 0 ELSE -1
             d == [Cleared(c) EXCEPT !.status = "tuples", !.rows = rows, !.rowIndex = i]
         IN  /\ d \in Statements /\ Positioned(d)
             /\ d.sql = c.sql /\ d.param = c.param /\ d.status = "tuples" /\ d.rows = rows
             /\ d.rowIndex = i /\ d.cache = FALSE
  <1> DEFINE i == IF rows # <<>> THEN 0 ELSE -1
             c0 == Cleared(c)
             c1 == [c0 EXCEPT !.status = "tuples"]
             c2 == [c1 EXCEPT !.rows = rows]
             c3 == [c2 EXCEPT !.rowIndex = i]
  <1>1. /\ c0 \in Statements
        /\ c0.sql = c.sql /\ c0.param = c.param /\ c0.cache = FALSE
    BY ClearedFits
  <1>2. /\ c1 \in Statements
        /\ c1.sql = c.sql /\ c1.param = c.param /\ c1.cache = FALSE /\ c1.status = "tuples"
    <2> HIDE DEF c0
    <2> QED
      BY <1>1, SetStatus
  <1> HIDE DEF c1
  <1>3. /\ c2 \in Statements
        /\ c2.sql = c.sql /\ c2.param = c.param /\ c2.cache = FALSE /\ c2.status = "tuples"
        /\ c2.rows = rows
    BY <1>2, SetRows
  <1> HIDE DEF c2
  <1>4. /\ c3 \in Statements
        /\ c3.sql = c.sql /\ c3.param = c.param /\ c3.cache = FALSE /\ c3.status = "tuples"
        /\ c3.rows = rows /\ c3.rowIndex = i
    BY <1>3, SetRowIndex
  <1>5. rows = <<>> \/ Len(rows) \in Nat \ {0}
    BY EmptySeq
  <1>6. Positioned(c3)
    BY <1>4, <1>5, NoRows DEF Positioned
  <1> QED
    BY <1>4, <1>6 DEF c1, c2

\* What a later step leaves.
LEMMA AdvancedFits ==
  ASSUME NEW c \in Statements, Positioned(c), HasNext(c), c.status = "tuples"
  PROVE  LET d == Advanced(c)
         IN  /\ d \in Statements /\ Positioned(d)
             /\ d.sql = c.sql /\ d.param = c.param /\ d.status = c.status /\ d.rows = c.rows
             /\ d.rowIndex = c.rowIndex + 1 /\ d.cache = FALSE
  <1> DEFINE next == c.rowIndex + 1
             c1 == [c EXCEPT !.rowIndex = next]
             c2 == [c1 EXCEPT !.cache = FALSE]
  <1>1. c.rowIndex \in Int /\ c.rows \in Seq(Row) /\ next \in Int
    BY DEF Statements
  <1>2. /\ c1 \in Statements
        /\ c1.sql = c.sql /\ c1.param = c.param /\ c1.status = c.status /\ c1.rows = c.rows
        /\ c1.rowIndex = c.rowIndex + 1
    <2>1. /\ c1 \in Statements
          /\ c1.sql = c.sql /\ c1.param = c.param /\ c1.status = c.status /\ c1.rows = c.rows
          /\ c1.rowIndex = next
      <3> HIDE DEF next
      <3> QED
        BY <1>1, SetRowIndex
    <2> QED
      BY <2>1
  <1> HIDE DEF c1
  <1>3. /\ c2 \in Statements
        /\ c2.sql = c.sql /\ c2.param = c.param /\ c2.status = c.status /\ c2.rows = c.rows
        /\ c2.rowIndex = c.rowIndex + 1 /\ c2.cache = FALSE
    BY <1>2, SetCache
  <1>4. Advanced(c) = c2
    BY DEF Advanced, ClearBlobCache, c1
  <1>5. Positioned(c2)
    BY <1>1, <1>3, LenProperties DEF Positioned, HasNext
  <1> QED
    BY <1>3, <1>4, <1>5

\* A step that gives one statement a fitting record keeps the types.
LEMMA Update ==
  ASSUME TypeOK, NEW s \in Stmt, NEW d \in Statements, Positioned(d),
         stmt' = [stmt EXCEPT ![s] = d],
         table' \in Seq(Row), held' \in [Stmt -> SUBSET Pointers], lost' \in BOOLEAN
  PROVE  TypeOK'
  <1>1. stmt' \in [Stmt -> Statements]
    BY DEF TypeOK
  <1>2. \A t \in Stmt : Positioned(stmt'[t])
    BY DEF TypeOK
  <1> QED
    BY <1>1, <1>2 DEF TypeOK, Pointers

-----------------------------------------------------------------------------

LEMMA Initial == Init => TypeOK /\ PointersValid /\ NothingLost
  <1> SUFFICES ASSUME Init PROVE TypeOK /\ PointersValid /\ NothingLost
    OBVIOUS
  <1>1. table \in Seq(Row)
    BY DEF Init
  <1>2. stmt \in [Stmt -> Statements] /\ \A s \in Stmt : Positioned(stmt[s])
    BY UnpreparedFits DEF Init
  <1>3. held \in [Stmt -> SUBSET Pointers] /\ lost = FALSE
    BY DEF Init
  <1> QED
    BY <1>1, <1>2, <1>3 DEF Init, TypeOK, PointersValid, NothingLost, Pointers

\* The variables keep their ranges: the position stays among the rows.
LEMMA TypeStep == TypeOK /\ [Next]_vars => TypeOK'
  <1> SUFFICES ASSUME TypeOK, [Next]_vars PROVE TypeOK'
    OBVIOUS
  <1>t. /\ table \in Seq(Row) /\ stmt \in [Stmt -> Statements]
        /\ held \in [Stmt -> SUBSET Pointers] /\ lost \in BOOLEAN
        /\ \A s \in Stmt : Positioned(stmt[s])
    BY DEF TypeOK, Pointers
  <1>1. ASSUME NEW s \in Stmt, NEW q \in {"insert", "select"}, Prepare(s, q) PROVE TypeOK'
    <2> DEFINE d == [Unprepared EXCEPT !.sql = q]
    <2>0. /\ d \in Statements
          /\ d.status = Unprepared.status /\ d.rows = Unprepared.rows
          /\ d.rowIndex = Unprepared.rowIndex
      <3>1. Unprepared \in Statements /\ q \in {"none", "insert", "select"}
        BY UnpreparedFits
      <3> QED
        BY <3>1, SetSql
    <2>1. d \in Statements /\ Positioned(d)
      <3> HIDE DEF d
      <3> QED
        BY <2>0, UnpreparedFits DEF Positioned
    <2> QED
      BY <1>t, <1>1, <2>1, Update DEF Prepare
  <1>2. ASSUME NEW s \in Stmt, NEW r \in Row, Bind(s, r) PROVE TypeOK'
    <2> DEFINE d == [stmt[s] EXCEPT !.param = r]
    <2>1. d \in Statements /\ Positioned(d)
      BY <1>t, SetParam DEF Positioned
    <2> QED
      BY <1>t, <1>2, <2>1, Update DEF Bind
  <1>3. ASSUME NEW s \in Stmt, ExecuteFails(s) PROVE TypeOK'
    <2>1. Failed(stmt[s]) \in Statements /\ Positioned(Failed(stmt[s]))
      BY <1>t, ClearedFits DEF Failed
    <2>2. held' \in [Stmt -> SUBSET Pointers]
      BY <1>t, <1>3 DEF ExecuteFails
    <2> QED
      BY <1>t, <1>3, <2>1, <2>2, Update DEF ExecuteFails
  <1>4. ASSUME NEW s \in Stmt, StepInsert(s) PROVE TypeOK'
    <2>1. /\ [Cleared(stmt[s]) EXCEPT !.status = "command"] \in Statements
          /\ Positioned([Cleared(stmt[s]) EXCEPT !.status = "command"])
      BY <1>t, CommandFits
    <2>2. table' \in Seq(Row)
      BY <1>t, <1>4 DEF StepInsert, Statements
    <2>3. held' \in [Stmt -> SUBSET Pointers]
      BY <1>t, <1>4 DEF StepInsert
    <2> QED
      BY <1>t, <1>4, <2>1, <2>2, <2>3, Update DEF StepInsert
  <1>5. ASSUME NEW s \in Stmt, StepSelect(s) PROVE TypeOK'
    <2> DEFINE d == [Cleared(stmt[s]) EXCEPT !.status = "tuples", !.rows = table,
                                             !.rowIndex = IF table # <<>> THEN 0 ELSE -1]
    <2>3. d \in Statements /\ Positioned(d)
      BY <1>t, TuplesFit, ZenonT(40)
    <2>4. held' \in [Stmt -> SUBSET Pointers]
      BY <1>t, <1>5 DEF StepSelect
    <2> QED
      BY <1>t, <1>5, <2>3, <2>4, Update DEF StepSelect
  <1>6. ASSUME NEW s \in Stmt, StepNext(s) PROVE TypeOK'
    <2>2. Advanced(stmt[s]) \in Statements /\ Positioned(Advanced(stmt[s]))
      BY <1>t, <1>6, AdvancedFits DEF StepNext
    <2>3. held' \in [Stmt -> SUBSET Pointers]
      BY <1>t, <1>6 DEF StepNext
    <2> QED
      BY <1>t, <1>6, <2>2, <2>3, Update DEF StepNext
  <1>7. ASSUME NEW s \in Stmt, StepDone(s) PROVE TypeOK'
    BY <1>t, <1>7 DEF StepDone, TypeOK, Positioned, Pointers
  <1>8. ASSUME NEW s \in Stmt, Reset(s) PROVE TypeOK'
    <2>1. Cleared(stmt[s]) \in Statements /\ Positioned(Cleared(stmt[s]))
      BY <1>t, ClearedFits
    <2>2. held' \in [Stmt -> SUBSET Pointers]
      BY <1>t, <1>8 DEF Reset
    <2> QED
      BY <1>t, <1>8, <2>1, <2>2, Update DEF Reset
  <1>9. ASSUME NEW s \in Stmt, Finalize(s) PROVE TypeOK'
    <2>1. Released(stmt[s]) \in Statements
      BY <1>t, ClearedFits DEF Released
    <2>2. lost' \in BOOLEAN
      BY <1>t, <1>9, <2>1 DEF Finalize, Statements
    <2>3. held' \in [Stmt -> SUBSET Pointers]
      BY <1>t, <1>9 DEF Finalize
    <2> QED
      BY <1>t, <1>9, <2>2, <2>3, UnpreparedFits, Update DEF Finalize
  <1>10. ASSUME NEW s \in Stmt, ColumnText(s) PROVE TypeOK'
    <2>1. Pointer("result") \in Pointers
      BY DEF Pointer, Pointers
    <2>2. held' \in [Stmt -> SUBSET Pointers]
      BY <1>t, <1>10, <2>1 DEF ColumnText
    <2> QED
      BY <1>t, <1>10, <2>2 DEF ColumnText, TypeOK, Positioned, Pointers
  <1>11. ASSUME NEW s \in Stmt, ColumnBlob(s) PROVE TypeOK'
    <2>p. PICK where \in {"cache", "result", "none"} :
            /\ stmt' = [stmt EXCEPT ![s].cache = (where = "cache")]
            /\ held' = [held EXCEPT ![s] = Freed({"cache"}, Kept(@)) \union Returned(where)]
      BY <1>11 DEF ColumnBlob
    <2> DEFINE b == (where = "cache")
               d == [stmt[s] EXCEPT !.cache = b]
    <2>1. d \in Statements /\ Positioned(d)
      <3>1. b \in BOOLEAN
        OBVIOUS
      <3> HIDE DEF b
      <3> QED
        BY <1>t, <3>1, SetCache DEF Positioned
    <2>2. Freed({"cache"}, Kept(held[s])) \in SUBSET Pointers
      <3>1. Kept(held[s]) \in SUBSET Pointers
        BY <1>t DEF Kept
      <3>2. \A p \in Pointers : [p EXCEPT !.valid = FALSE] \in Pointers
        BY DEF Pointers
      <3> QED
        BY <3>1, <3>2 DEF Freed
    <2>3. Returned(where) \in SUBSET Pointers
      BY DEF Returned, Pointer, Pointers
    <2>5. held' \in [Stmt -> SUBSET Pointers]
      BY <1>t, <2>p, <2>2, <2>3
    <2> QED
      BY <1>t, <1>11, <2>p, <2>1, <2>5, Update DEF ColumnBlob
  <1>12. CASE Exec
    <2>1. \A r \in Row : Append(table, r) \in Seq(Row)
      BY <1>t, AppendProperties
    <2>2. table' \in Seq(Row)
      BY <1>12, <2>1, NoRows DEF Exec
    <2> QED
      BY <1>t, <1>12, <2>2 DEF Exec, TypeOK, Positioned, Pointers
  <1>13. CASE UNCHANGED vars
    BY <1>t, <1>13 DEF vars, TypeOK, Positioned, Pointers
  <1> QED
    BY <1>1, <1>2, <1>3, <1>4, <1>5, <1>6, <1>7, <1>8, <1>9, <1>10, <1>11, <1>12, <1>13 DEF Next

\* TypeOK for every behaviour: sw_pg_step's row index never leaves the result's rows,
\* and only a select's result has rows.
THEOREM StatementTypes == Spec => []TypeOK
  BY Initial, TypeStep, PTL DEF Spec

-----------------------------------------------------------------------------
(* Memory.                                                                  *)

\* Finalizing frees the result and the blob cache, whatever the statement has.
LEMMA LostStep == TypeOK /\ NothingLost /\ [Next]_vars => NothingLost'
  <1> SUFFICES ASSUME TypeOK, NothingLost, [Next]_vars PROVE NothingLost'
    OBVIOUS
  <1>1. ASSUME NEW s \in Stmt, Finalize(s) PROVE NothingLost'
    <2>1. ~Released(stmt[s]).cache /\ Released(stmt[s]).status = "none"
      BY ClearedFits DEF Released, TypeOK
    <2> QED
      BY <1>1, <2>1 DEF Finalize, NothingLost
  <1>2. ASSUME UNCHANGED lost PROVE NothingLost'
    BY <1>2 DEF NothingLost
  <1> QED
    BY <1>1, <1>2 DEF Next, vars, Prepare, Bind, ExecuteFails, StepInsert, StepSelect,
       StepNext, StepDone, Reset, ColumnText, ColumnBlob, Exec

\* NothingLost for every behaviour: sw_pg_finalize, and what is executed again after a
\* reset or a failure, leave no result and no blob that nothing refers to.
THEOREM MemoryFreed == Spec => []NothingLost
  <1>1. TypeOK /\ NothingLost /\ [Next]_vars => TypeOK' /\ NothingLost'
    BY TypeStep, LostStep
  <1> QED
    BY Initial, <1>1, PTL DEF Spec

-----------------------------------------------------------------------------
(* A statement that is not prepared has nothing.                            *)

Fresh == \A s \in Stmt : stmt[s].sql = "none" => stmt[s] = Unprepared

LEMMA FreshUpdate ==
  ASSUME TypeOK, Fresh, NEW s \in Stmt, NEW d, d.sql # "none" \/ d = Unprepared,
         stmt' = [stmt EXCEPT ![s] = d]
  PROVE  Fresh'
  BY DEF TypeOK, Fresh

LEMMA UnpreparedHasNothing ==
  /\ Unprepared.sql = "none" /\ Unprepared.param = Null /\ Unprepared.status = "none"
  /\ Unprepared.rows = <<>> /\ Unprepared.rowIndex = -1 /\ Unprepared.cache = FALSE
  BY DEF Unprepared

\* What a column function may be asked for is a row of a select that was executed.
LEMMA AtARow ==
  ASSUME TypeOK, Fresh, NEW s \in Stmt, CurrentRow(stmt[s]) # 0
  PROVE  stmt[s].status = "tuples" /\ stmt[s].sql # "none"
  <1>1. stmt[s] \in Statements /\ Positioned(stmt[s])
    BY DEF TypeOK
  <1>2. stmt[s].status = "tuples"
    <2>1. stmt[s].rowIndex \in Int
      BY <1>1 DEF Statements
    <2>2. SUFFICES ASSUME stmt[s].rows = <<>> PROVE FALSE
      BY <1>1 DEF Positioned
    <2> QED
      BY <1>1, <2>1, <2>2, NoRows DEF Positioned, CurrentRow
  <1> QED
    BY <1>2, UnpreparedHasNothing DEF Fresh

LEMMA FreshStep == TypeOK /\ Fresh /\ [Next]_vars => Fresh'
  <1> SUFFICES ASSUME TypeOK, Fresh, [Next]_vars PROVE Fresh'
    OBVIOUS
  <1>t. \A s \in Stmt : stmt[s] \in Statements /\ Positioned(stmt[s])
    BY DEF TypeOK
  <1>1. ASSUME NEW s \in Stmt, NEW q \in {"insert", "select"}, Prepare(s, q) PROVE Fresh'
    <2>1. [Unprepared EXCEPT !.sql = q].sql # "none"
      BY DEF Unprepared
    <2> QED
      BY <1>1, <2>1, FreshUpdate DEF Prepare
  <1>2. ASSUME NEW s \in Stmt, NEW r \in Row, Bind(s, r) PROVE Fresh'
    <2>1. [stmt[s] EXCEPT !.param = r].sql # "none"
      BY <1>t, <1>2, SetParam DEF Bind
    <2> QED
      BY <1>2, <2>1, FreshUpdate DEF Bind
  <1>3. ASSUME NEW s \in Stmt, ExecuteFails(s) PROVE Fresh'
    <2>1. Failed(stmt[s]).sql # "none"
      BY <1>t, <1>3, ClearedFits DEF ExecuteFails, Failed
    <2> QED
      BY <1>3, <2>1, FreshUpdate DEF ExecuteFails
  <1>4. ASSUME NEW s \in Stmt, StepInsert(s) PROVE Fresh'
    <2> DEFINE d == [Cleared(stmt[s]) EXCEPT !.status = "command"]
    <2>1. d.sql # "none"
      BY <1>t, <1>4, CommandFits DEF StepInsert
    <2> QED
      BY <1>4, <2>1, FreshUpdate DEF StepInsert
  <1>5. ASSUME NEW s \in Stmt, StepSelect(s) PROVE Fresh'
    <2> DEFINE d == [Cleared(stmt[s]) EXCEPT !.status = "tuples", !.rows = table,
                                             !.rowIndex = IF table # <<>> THEN 0 ELSE -1]
    <2>1. table \in Seq(Row)
      BY DEF TypeOK
    <2>2. d.sql = stmt[s].sql
      BY <1>t, <2>1, TuplesFit
    <2> QED
      BY <1>5, <2>2, FreshUpdate DEF StepSelect
  <1>6. ASSUME NEW s \in Stmt, StepNext(s) PROVE Fresh'
    <2>1. stmt[s].sql # "none"
      BY <1>6, UnpreparedHasNothing DEF StepNext, Fresh
    <2>2. Advanced(stmt[s]).sql # "none"
      BY <1>t, <1>6, <2>1, AdvancedFits DEF StepNext
    <2> QED
      BY <1>6, <2>2, FreshUpdate DEF StepNext
  <1>7. ASSUME UNCHANGED stmt PROVE Fresh'
    BY <1>7 DEF Fresh
  <1>8. ASSUME NEW s \in Stmt, Reset(s) PROVE Fresh'
    <2>1. Cleared(stmt[s]).sql # "none"
      BY <1>t, <1>8, ClearedFits DEF Reset
    <2> QED
      BY <1>8, <2>1, FreshUpdate DEF Reset
  <1>9. ASSUME NEW s \in Stmt, Finalize(s) PROVE Fresh'
    BY <1>9, FreshUpdate DEF Finalize
  <1>10. ASSUME NEW s \in Stmt, ColumnBlob(s) PROVE Fresh'
    <2>1. PICK where \in {"cache", "result", "none"} :
            stmt' = [stmt EXCEPT ![s].cache = (where = "cache")]
      BY <1>10 DEF ColumnBlob
    <2> DEFINE b == (where = "cache")
    <2>2. b \in BOOLEAN
      OBVIOUS
    <2>3. stmt' = [stmt EXCEPT ![s] = [stmt[s] EXCEPT !.cache = b]]
      BY <2>1
    <2> HIDE DEF b
    <2>4. [stmt[s] EXCEPT !.cache = b].sql # "none"
      BY <1>t, <1>10, <2>2, AtARow, SetCache DEF ColumnBlob
    <2> QED
      BY <2>3, <2>4, FreshUpdate
  <1> QED
    BY <1>1, <1>2, <1>3, <1>4, <1>5, <1>6, <1>7, <1>8, <1>9, <1>10
    DEF Next, vars, StepDone, ColumnText, Exec

LEMMA FreshInit == Init => Fresh
  BY DEF Init, Fresh

-----------------------------------------------------------------------------
(* Pointers.                                                                *)

\* A step that drops a statement's pointers and touches no other's keeps the others valid.
LEMMA Dropped ==
  ASSUME TypeOK, PointersValid, NEW s \in Stmt, NEW d,
         stmt' = [stmt EXCEPT ![s] = d], held' = [held EXCEPT ![s] = {}]
  PROVE  PointersValid'
  BY DEF TypeOK, PointersValid

\* So does one after which a statement still has its result, and its blob cache if it had
\* one.
LEMMA MemoryKept ==
  ASSUME TypeOK, PointersValid, NEW s \in Stmt, NEW d \in Statements,
         d.status = stmt[s].status, d.cache = stmt[s].cache,
         stmt' = [stmt EXCEPT ![s] = d], held' = held
  PROVE  PointersValid'
  BY DEF TypeOK, PointersValid

\* Only a column_blob frees memory that a pointer outlives: the last blob's.
LEMMA PointersStep ==
  ASSUME ~KeepsBlobs, TypeOK, Fresh, PointersValid, [Next]_vars
  PROVE  PointersValid'
  <1>t. /\ \A s \in Stmt : stmt[s] \in Statements
        /\ stmt \in [Stmt -> Statements] /\ held \in [Stmt -> SUBSET Pointers]
    BY DEF TypeOK, Pointers
  <1>1. ASSUME NEW s \in Stmt, NEW q \in {"insert", "select"}, Prepare(s, q)
        PROVE  PointersValid'
    <2>1. stmt[s].status = "none"
      BY <1>1, UnpreparedHasNothing DEF Prepare, Fresh
    <2>2. held[s] = {}
      BY <2>1 DEF PointersValid
    <2>3. held' = [held EXCEPT ![s] = {}]
      BY <1>t, <1>1, <2>2 DEF Prepare
    <2> QED
      BY <1>1, <2>3, Dropped DEF Prepare
  <1>2. ASSUME NEW s \in Stmt, NEW r \in Row, Bind(s, r) PROVE PointersValid'
    <2> DEFINE d == [stmt[s] EXCEPT !.param = r]
    <2>1. d \in Statements /\ d.status = stmt[s].status /\ d.cache = stmt[s].cache
      BY <1>t, SetParam
    <2> QED
      BY <1>2, <2>1, MemoryKept DEF Bind
  <1>3. ASSUME NEW s \in Stmt,
               ExecuteFails(s) \/ StepInsert(s) \/ StepSelect(s) \/ StepNext(s)
                 \/ Reset(s) \/ Finalize(s)
        PROVE  PointersValid'
    BY <1>3, Dropped DEF ExecuteFails, StepInsert, StepSelect, StepNext, Reset, Finalize
  <1>4. ASSUME NEW s \in Stmt, StepDone(s) PROVE PointersValid'
    BY <1>t, <1>4 DEF StepDone, PointersValid
  <1>5. ASSUME NEW s \in Stmt, ColumnText(s) PROVE PointersValid'
    <2>1. stmt[s].status = "tuples" /\ stmt' = stmt
      BY <1>5, AtARow DEF ColumnText
    <2>2. \A t \in Stmt : \A p \in held'[t] :
            p \in held[t] \/ (t = s /\ p = Pointer("result"))
      BY <1>t, <1>5 DEF ColumnText
    <2>3. Pointer("result").valid = TRUE /\ Pointer("result").to = "result"
      BY DEF Pointer
    <2> QED
      BY <2>1, <2>2, <2>3 DEF PointersValid
  <1>6. ASSUME NEW s \in Stmt, ColumnBlob(s) PROVE PointersValid'
    <2>p. PICK where \in {"cache", "result", "none"} :
            /\ stmt' = [stmt EXCEPT ![s].cache = (where = "cache")]
            /\ held' = [held EXCEPT ![s] = Freed({"cache"}, Kept(@)) \union Returned(where)]
      BY <1>6 DEF ColumnBlob
    <2> DEFINE b == (where = "cache")
               d == [stmt[s] EXCEPT !.cache = b]
    <2>1. stmt[s].status = "tuples"
      BY <1>6, AtARow DEF ColumnBlob
    <2>2. d.status = "tuples" /\ d.cache = b
      <3>1. b \in BOOLEAN
        OBVIOUS
      <3> HIDE DEF b
      <3> QED
        BY <1>t, <2>1, <3>1, SetCache
    <2>3. \A t \in Stmt : stmt'[t] = IF t = s THEN d ELSE stmt[t]
      BY <1>t, <2>p
    <2>4. \A p \in Freed({"cache"}, Kept(held[s])) : p \in held[s] /\ p.to # "cache"
      BY DEF Freed, Kept
    <2>5. \A t \in Stmt : \A p \in held'[t] :
            \/ p \in held[t] /\ (t = s => p.to # "cache")
            \/ t = s /\ p \in Returned(where)
      BY <1>t, <2>p, <2>4
    <2>6. \A p \in Returned(where) : p.valid /\ (p.to = "cache" => b)
      BY DEF Returned, Pointer
    <2> HIDE DEF d
    <2>7. ASSUME NEW p \in held'[s]
          PROVE  p.valid /\ d.status # "none" /\ (p.to = "cache" => d.cache)
      BY <2>2, <2>5, <2>6, <2>7 DEF PointersValid
    <2>8. ASSUME NEW t \in Stmt, t # s, NEW p \in held'[t]
          PROVE  p.valid /\ stmt[t].status # "none" /\ (p.to = "cache" => stmt[t].cache)
      BY <2>5, <2>8 DEF PointersValid
    <2> QED
      BY <2>3, <2>7, <2>8 DEF PointersValid
  <1>7. ASSUME UNCHANGED <<stmt, held>> PROVE PointersValid'
    BY <1>7 DEF PointersValid
  <1> QED
    BY <1>1, <1>2, <1>3, <1>4, <1>5, <1>6, <1>7 DEF Next, vars, Exec

\* PointersValid for a program that is done with a blob before it asks for the next:
\* sw_pg_column_blob is the only function that frees what an earlier pointer is to.
THEOREM PointersStayValid == ~KeepsBlobs => (Spec => []PointersValid)
  <1> SUFFICES ASSUME ~KeepsBlobs PROVE Spec => []PointersValid
    OBVIOUS
  <1>1. TypeOK /\ Fresh /\ PointersValid /\ [Next]_vars
          => TypeOK' /\ Fresh' /\ PointersValid'
    BY TypeStep, FreshStep, PointersStep
  <1> QED
    BY Initial, FreshInit, <1>1, PTL DEF Spec

-----------------------------------------------------------------------------
(* Refinement.                                                              *)

\* What Cursor sees of a change of one statement's record.
LEMMA RanChanged ==
  ASSUME TypeOK, NEW s \in Stmt, NEW d, stmt' = [stmt EXCEPT ![s] = d]
  PROVE  /\ d.status # "none" => [t \in Stmt |-> stmt[t].status # "none"]'
                = [[t \in Stmt |-> stmt[t].status # "none"] EXCEPT ![s] = TRUE]
         /\ d.status = "none" => [t \in Stmt |-> stmt[t].status # "none"]'
                = [[t \in Stmt |-> stmt[t].status # "none"] EXCEPT ![s] = FALSE]
  <1>1. d.status # "none" => [t \in Stmt |-> stmt[t].status # "none"]'
            = [[t \in Stmt |-> stmt[t].status # "none"] EXCEPT ![s] = TRUE]
    BY DEF TypeOK
  <1>2. d.status = "none" => [t \in Stmt |-> stmt[t].status # "none"]'
            = [[t \in Stmt |-> stmt[t].status # "none"] EXCEPT ![s] = FALSE]
    BY DEF TypeOK
  <1> QED
    BY <1>1, <1>2

LEMMA Unchanged ==
  ASSUME TypeOK, NEW s \in Stmt, NEW d, stmt' = [stmt EXCEPT ![s] = d]
  PROVE  /\ d.sql = stmt[s].sql => UNCHANGED [t \in Stmt |-> stmt[t].sql]
         /\ d.param = stmt[s].param => UNCHANGED [t \in Stmt |-> stmt[t].param]
         /\ (d.status # "none" <=> stmt[s].status # "none")
              => UNCHANGED [t \in Stmt |-> stmt[t].status # "none"]
         /\ Left(d) = Left(stmt[s]) => UNCHANGED [t \in Stmt |-> Left(stmt[t])]
         /\ Given(d) = Given(stmt[s]) => UNCHANGED [t \in Stmt |-> Given(stmt[t])]
  <1>1. d.sql = stmt[s].sql => UNCHANGED [t \in Stmt |-> stmt[t].sql]
    BY DEF TypeOK
  <1>2. d.param = stmt[s].param => UNCHANGED [t \in Stmt |-> stmt[t].param]
    BY DEF TypeOK
  <1>3. (d.status # "none" <=> stmt[s].status # "none")
          => UNCHANGED [t \in Stmt |-> stmt[t].status # "none"]
    BY DEF TypeOK
  <1>4. Left(d) = Left(stmt[s]) => UNCHANGED [t \in Stmt |-> Left(stmt[t])]
    BY DEF TypeOK
  <1>5. Given(d) = Given(stmt[s]) => UNCHANGED [t \in Stmt |-> Given(stmt[t])]
    BY DEF TypeOK
  <1> QED
    BY <1>1, <1>2, <1>3, <1>4, <1>5

\* Without an execution there is no row to give and none was given.
LEMMA NothingGiven ==
  ASSUME NEW c, c.rows = <<>>, c.rowIndex = -1
  PROVE  Left(c) = <<>> /\ Given(c) = NoRow
  BY NoRows, SubSeqEmpty DEF Left, Given

LEMMA NotExecuted ==
  ASSUME NEW c \in Statements, Positioned(c), c.status # "tuples"
  PROVE  Left(c) = <<>> /\ Given(c) = NoRow
  <1>1. c.rows = <<>> /\ c.rowIndex = -1
    BY NoRows DEF Positioned
  <1> QED
    BY <1>1, NothingGiven

\* The first row of a select is given at once.
LEMMA FirstGiven ==
  ASSUME NEW c \in Statements, NEW rows \in Seq(Row), rows # <<>>,
         c.rows = rows, c.rowIndex = 0
  PROVE  Left(c) = Tail(rows) /\ Given(c) = Head(rows)
  <1>1. Len(rows) \in Nat \ {0}
    BY EmptySeq
  <1>2. Left(c) = Tail(rows)
    BY TailIsSubSeq DEF Left
  <1>3. Head(rows) = rows[1]
    BY <1>1
  <1> QED
    BY <1>2, <1>3 DEF Given

\* Every further row is the first of those left.
LEMMA NextGiven ==
  ASSUME NEW c \in Statements, NEW d, Positioned(c), HasNext(c),
         d.rows = c.rows, d.rowIndex = c.rowIndex + 1
  PROVE  Left(c) # <<>> /\ Left(d) = Tail(Left(c)) /\ Given(d) = Head(Left(c))
  <1> DEFINE n == Len(c.rows)
             m == c.rowIndex + 2
  <1>1. c.rows \in Seq(Row) /\ n \in Nat /\ c.rowIndex \in Int
    BY LenProperties DEF Statements
  <1>2. m \in 1 .. n /\ n \in m .. n
    BY <1>1 DEF Positioned, HasNext
  <1>3. /\ Head(SubSeq(c.rows, m, n)) = c.rows[m]
        /\ Tail(SubSeq(c.rows, m, n)) = SubSeq(c.rows, m + 1, n)
    BY <1>1, <1>2, HeadTailOfSubSeq
  <1>4. \A i \in m .. n : c.rows[i] \in Row
    BY <1>1, <1>2, ElementOfSeq
  <1>5. Len(SubSeq(c.rows, m, n)) = n - m + 1
    BY <1>1, <1>2, <1>4, SubSeqProperties
  <1>6. SubSeq(c.rows, m, n) # <<>>
    <2>1. n - m + 1 # 0
      BY <1>1, <1>2
    <2> QED
      BY <1>5, <2>1, NoRows
  <1>7. Left(d) = SubSeq(c.rows, m + 1, n)
    <2>1. d.rowIndex + 2 = m + 1
      BY <1>1
    <2> QED
      BY <2>1 DEF Left
  <1>8. Given(d) = c.rows[m]
    <2>1. d.rowIndex # -1 /\ d.rowIndex + 1 = m
      BY <1>1, <1>2
    <2> QED
      BY <2>1 DEF Given
  <1> QED
    BY <1>3, <1>6, <1>7, <1>8 DEF Left

\* Every step of the driver is a step of the cursor or changes nothing it sees.
LEMMA CursorStep == TypeOK /\ Fresh /\ [Next]_vars => [Promise!Next]_(Promise!vars)
  <1> SUFFICES ASSUME TypeOK, Fresh, [Next]_vars PROVE [Promise!Next]_(Promise!vars)
    OBVIOUS
  <1>t. \A s \in Stmt : stmt[s] \in Statements /\ Positioned(stmt[s])
    BY DEF TypeOK
  <1>1. ASSUME NEW s \in Stmt, NEW q \in {"insert", "select"}, Prepare(s, q)
        PROVE  Promise!Prepare(s, q)
    <2> DEFINE d == [Unprepared EXCEPT !.sql = q]
    <2>1. stmt[s].sql = "none" /\ stmt[s] = Unprepared
      BY <1>1 DEF Prepare, Fresh
    <2>2. /\ d.sql = q /\ d.param = stmt[s].param /\ d.status = stmt[s].status
          /\ d.rows = stmt[s].rows /\ d.rowIndex = stmt[s].rowIndex
      BY <2>1 DEF Unprepared
    <2>3. stmt' = [stmt EXCEPT ![s] = d] /\ table' = table
      BY <1>1 DEF Prepare
    <2> HIDE DEF d
    <2>4. Left(d) = Left(stmt[s]) /\ Given(d) = Given(stmt[s])
      BY <2>2 DEF Left, Given
    <2>5. [t \in Stmt |-> stmt[t].sql]'
          = [[t \in Stmt |-> stmt[t].sql] EXCEPT ![s] = q]
      BY <2>1, <2>2, <2>3, <2>4 DEF TypeOK
    <2>6. UNCHANGED <<[t \in Stmt |-> stmt[t].param],
                      [t \in Stmt |-> stmt[t].status # "none"],
                      [t \in Stmt |-> Left(stmt[t])],
                      [t \in Stmt |-> Given(stmt[t])]>>
      BY <2>1, <2>2, <2>3, <2>4, Unchanged
    <2> QED
      BY <2>1, <2>3, <2>5, <2>6 DEF Promise!Prepare
  <1>2. ASSUME NEW s \in Stmt, NEW r \in Row, Bind(s, r) PROVE Promise!Bind(s, r)
    <2> DEFINE d == [stmt[s] EXCEPT !.param = r]
    <2>1. /\ d.sql = stmt[s].sql /\ d.param = r /\ d.status = stmt[s].status
          /\ d.rows = stmt[s].rows /\ d.rowIndex = stmt[s].rowIndex
      BY <1>t, SetParam
    <2>2. stmt' = [stmt EXCEPT ![s] = d] /\ table' = table /\ stmt[s].sql # "none"
      BY <1>2 DEF Bind
    <2> HIDE DEF d
    <2>3. Left(d) = Left(stmt[s]) /\ Given(d) = Given(stmt[s])
      BY <2>1 DEF Left, Given
    <2>4. [t \in Stmt |-> stmt[t].param]'
          = [[t \in Stmt |-> stmt[t].param] EXCEPT ![s] = r]
      BY <2>1, <2>2, <2>3 DEF TypeOK
    <2>5. UNCHANGED <<[t \in Stmt |-> stmt[t].sql],
                      [t \in Stmt |-> stmt[t].status # "none"],
                      [t \in Stmt |-> Left(stmt[t])],
                      [t \in Stmt |-> Given(stmt[t])]>>
      BY <2>1, <2>2, <2>3, Unchanged
    <2> QED
      BY <2>2, <2>4, <2>5 DEF Promise!Bind
  <1>3. ASSUME NEW s \in Stmt, ExecuteFails(s) \/ Reset(s) PROVE Promise!Reset(s)
    <2> DEFINE d == Cleared(stmt[s])
    <2>1. /\ d.sql = stmt[s].sql /\ d.param = stmt[s].param /\ d.status = "none"
          /\ d.rows = <<>> /\ d.rowIndex = -1
      BY <1>t, ClearedFits
    <2>2. stmt' = [stmt EXCEPT ![s] = d] /\ table' = table /\ stmt[s].sql # "none"
      BY <1>3 DEF ExecuteFails, Reset, Failed
    <2> HIDE DEF d
    <2>3. Left(d) = <<>> /\ Given(d) = NoRow
      BY <2>1, NothingGiven
    <2>4. [t \in Stmt |-> stmt[t].status # "none"]'
          = [[t \in Stmt |-> stmt[t].status # "none"] EXCEPT ![s] = FALSE]
      BY <2>1, <2>2, <2>3, RanChanged
    <2>5. [t \in Stmt |-> Left(stmt[t])]'
          = [[t \in Stmt |-> Left(stmt[t])] EXCEPT ![s] = <<>>]
      BY <2>1, <2>2, <2>3 DEF TypeOK
    <2>6. [t \in Stmt |-> Given(stmt[t])]'
          = [[t \in Stmt |-> Given(stmt[t])] EXCEPT ![s] = NoRow]
      BY <2>1, <2>2, <2>3 DEF TypeOK
    <2>7. UNCHANGED <<[t \in Stmt |-> stmt[t].sql],
                      [t \in Stmt |-> stmt[t].param]>>
      BY <2>1, <2>2, <2>3, Unchanged
    <2> QED
      BY <2>2, <2>4, <2>5, <2>6, <2>7 DEF Promise!Reset, Promise!Forget
  <1>4. ASSUME NEW s \in Stmt, StepInsert(s) PROVE Promise!Insert(s)
    <2> DEFINE d == [Cleared(stmt[s]) EXCEPT !.status = "command"]
    <2>1. /\ d.sql = stmt[s].sql /\ d.param = stmt[s].param /\ d.status = "command"
          /\ d.rows = <<>> /\ d.rowIndex = -1
      BY <1>t, CommandFits
    <2>2. /\ stmt' = [stmt EXCEPT ![s] = d] /\ table' = Append(table, stmt[s].param)
          /\ stmt[s].sql = "insert" /\ stmt[s].status = "none"
      BY <1>4 DEF StepInsert
    <2> HIDE DEF d
    <2>3. Left(d) = Left(stmt[s]) /\ Given(d) = Given(stmt[s])
      BY <1>t, <2>1, <2>2, NothingGiven, NotExecuted
    <2>4. [t \in Stmt |-> stmt[t].status # "none"]'
          = [[t \in Stmt |-> stmt[t].status # "none"] EXCEPT ![s] = TRUE]
      BY <2>1, <2>2, <2>3, RanChanged
    <2>5. UNCHANGED <<[t \in Stmt |-> stmt[t].sql],
                      [t \in Stmt |-> stmt[t].param],
                      [t \in Stmt |-> Left(stmt[t])],
                      [t \in Stmt |-> Given(stmt[t])]>>
      BY <2>1, <2>2, <2>3, Unchanged
    <2> QED
      BY <2>2, <2>4, <2>5 DEF Promise!Insert
  <1>5. ASSUME NEW s \in Stmt, StepSelect(s) PROVE Promise!Select(s)
    <2> DEFINE d == [Cleared(stmt[s]) EXCEPT !.status = "tuples", !.rows = table,
                                             !.rowIndex = IF table # <<>> THEN 0 ELSE -1]
    <2>1. table \in Seq(Row)
      BY DEF TypeOK
    <2>2. /\ d \in Statements
          /\ d.sql = stmt[s].sql /\ d.param = stmt[s].param /\ d.status = "tuples"
          /\ d.rows = table /\ d.rowIndex = IF table # <<>> THEN 0 ELSE -1
      BY <1>t, <2>1, TuplesFit
    <2>3. /\ stmt' = [stmt EXCEPT ![s] = d] /\ table' = table
          /\ stmt[s].sql = "select" /\ stmt[s].status = "none"
      BY <1>5 DEF StepSelect
    <2> HIDE DEF d
    <2>4. CASE table = <<>>
      <3>1. Left(d) = Left(stmt[s]) /\ Given(d) = Given(stmt[s])
        BY <1>t, <2>2, <2>3, <2>4, NothingGiven, NotExecuted
      <3>2. [t \in Stmt |-> stmt[t].status # "none"]'
            = [[t \in Stmt |-> stmt[t].status # "none"] EXCEPT ![s] = TRUE]
        BY <2>2, <2>3, <3>1, RanChanged
      <3>3. UNCHANGED <<[t \in Stmt |-> stmt[t].sql],
                        [t \in Stmt |-> stmt[t].param],
                        [t \in Stmt |-> Left(stmt[t])],
                        [t \in Stmt |-> Given(stmt[t])]>>
        BY <2>2, <2>3, <3>1, Unchanged
      <3> QED
        BY <2>3, <2>4, <3>2, <3>3 DEF Promise!Select
    <2>5. CASE table # <<>>
      <3>1. Left(d) = Tail(table) /\ Given(d) = Head(table)
        BY <2>1, <2>2, <2>5, FirstGiven
      <3>2. [t \in Stmt |-> stmt[t].status # "none"]'
            = [[t \in Stmt |-> stmt[t].status # "none"] EXCEPT ![s] = TRUE]
        BY <2>2, <2>3, <3>1, RanChanged
      <3>3. [t \in Stmt |-> Left(stmt[t])]'
            = [[t \in Stmt |-> Left(stmt[t])] EXCEPT ![s] = Tail(table)]
        BY <2>2, <2>3, <3>1 DEF TypeOK
      <3>4. [t \in Stmt |-> Given(stmt[t])]'
            = [[t \in Stmt |-> Given(stmt[t])] EXCEPT ![s] = Head(table)]
        BY <2>2, <2>3, <3>1 DEF TypeOK
      <3>5. UNCHANGED <<[t \in Stmt |-> stmt[t].sql],
                        [t \in Stmt |-> stmt[t].param]>>
        BY <2>2, <2>3, <3>1, Unchanged
      <3> QED
        BY <2>3, <2>5, <3>2, <3>3, <3>4, <3>5 DEF Promise!Select
    <2> QED
      BY <2>4, <2>5
  <1>6. ASSUME NEW s \in Stmt, StepNext(s) PROVE Promise!Give(s)
    <2> DEFINE d == Advanced(stmt[s])
    <2>1. stmt[s].status = "tuples" /\ HasNext(stmt[s])
      BY <1>6 DEF StepNext
    <2>2. /\ d.sql = stmt[s].sql /\ d.param = stmt[s].param /\ d.status = stmt[s].status
          /\ d.rows = stmt[s].rows /\ d.rowIndex = stmt[s].rowIndex + 1
      BY <1>t, <2>1, AdvancedFits
    <2>3. stmt' = [stmt EXCEPT ![s] = d] /\ table' = table
      BY <1>6 DEF StepNext
    <2> HIDE DEF d
    <2>4. /\ Left(stmt[s]) # <<>> /\ Left(d) = Tail(Left(stmt[s]))
          /\ Given(d) = Head(Left(stmt[s]))
      BY <1>t, <2>1, <2>2, NextGiven
    <2>5. [t \in Stmt |-> Left(stmt[t])]'
          = [[t \in Stmt |-> Left(stmt[t])] EXCEPT ![s] = Tail(Left(stmt[s]))]
      BY <2>1, <2>2, <2>3, <2>4 DEF TypeOK
    <2>6. [t \in Stmt |-> Given(stmt[t])]'
          = [[t \in Stmt |-> Given(stmt[t])] EXCEPT ![s] = Head(Left(stmt[s]))]
      BY <2>1, <2>2, <2>3, <2>4 DEF TypeOK
    <2>7. UNCHANGED <<[t \in Stmt |-> stmt[t].sql],
                      [t \in Stmt |-> stmt[t].param],
                      [t \in Stmt |-> stmt[t].status # "none"]>>
      BY <2>1, <2>2, <2>3, <2>4, Unchanged
    <2> QED
      BY <2>1, <2>3, <2>4, <2>5, <2>6, <2>7 DEF Promise!Give
  <1>7. ASSUME NEW s \in Stmt, Finalize(s) PROVE Promise!Finalize(s)
    <2>1. stmt' = [stmt EXCEPT ![s] = Unprepared] /\ table' = table /\ stmt[s].sql # "none"
      BY <1>7 DEF Finalize
    <2>2. Left(Unprepared) = <<>> /\ Given(Unprepared) = NoRow
      BY UnpreparedHasNothing, NothingGiven
    <2>3. [t \in Stmt |-> stmt[t].sql]'
          = [[t \in Stmt |-> stmt[t].sql] EXCEPT ![s] = "none"]
      BY <2>1, <2>2, UnpreparedHasNothing DEF TypeOK
    <2>4. [t \in Stmt |-> stmt[t].param]'
          = [[t \in Stmt |-> stmt[t].param] EXCEPT ![s] = Null]
      BY <2>1, <2>2, UnpreparedHasNothing DEF TypeOK
    <2>5. [t \in Stmt |-> stmt[t].status # "none"]'
          = [[t \in Stmt |-> stmt[t].status # "none"] EXCEPT ![s] = FALSE]
      BY <2>1, <2>2, UnpreparedHasNothing, RanChanged
    <2>6. [t \in Stmt |-> Left(stmt[t])]'
          = [[t \in Stmt |-> Left(stmt[t])] EXCEPT ![s] = <<>>]
      BY <2>1, <2>2, UnpreparedHasNothing DEF TypeOK
    <2>7. [t \in Stmt |-> Given(stmt[t])]'
          = [[t \in Stmt |-> Given(stmt[t])] EXCEPT ![s] = NoRow]
      BY <2>1, <2>2, UnpreparedHasNothing DEF TypeOK
    <2> QED
      BY <2>1, <2>3, <2>4, <2>5, <2>6, <2>7 DEF Promise!Finalize, Promise!Forget
  <1>8. ASSUME NEW s \in Stmt, ColumnBlob(s) PROVE UNCHANGED Promise!vars
    <2>p. PICK where \in {"cache", "result", "none"} :
            stmt' = [stmt EXCEPT ![s].cache = (where = "cache")]
      BY <1>8 DEF ColumnBlob
    <2> DEFINE b == (where = "cache")
               d == [stmt[s] EXCEPT !.cache = b]
    <2>b. b \in BOOLEAN
      OBVIOUS
    <2>2. stmt' = [stmt EXCEPT ![s] = d] /\ table' = table
      BY <1>8, <2>p DEF ColumnBlob
    <2> HIDE DEF b
    <2>1. /\ d.sql = stmt[s].sql /\ d.param = stmt[s].param /\ d.status = stmt[s].status
          /\ d.rows = stmt[s].rows /\ d.rowIndex = stmt[s].rowIndex
      BY <1>t, <2>b, SetCache
    <2> HIDE DEF d
    <2>3. Left(d) = Left(stmt[s]) /\ Given(d) = Given(stmt[s])
      BY <2>1 DEF Left, Given
    <2>4. UNCHANGED <<[t \in Stmt |-> stmt[t].sql],
                      [t \in Stmt |-> stmt[t].param],
                      [t \in Stmt |-> stmt[t].status # "none"],
                      [t \in Stmt |-> Left(stmt[t])],
                      [t \in Stmt |-> Given(stmt[t])]>>
      BY <2>1, <2>2, <2>3, Unchanged
    <2> QED
      BY <2>2, <2>4 DEF Promise!vars
  <1>9. CASE Exec
    <2>1. table' \in Seq(Row) /\ stmt' = stmt
      BY <1>9, TypeStep DEF Exec, TypeOK
    <2> QED
      BY <2>1 DEF Promise!Next, Promise!Change
  <1>10. ASSUME UNCHANGED <<table, stmt>> PROVE UNCHANGED Promise!vars
    BY <1>10 DEF Promise!vars
  <1> QED
    BY <1>1, <1>2, <1>3, <1>4, <1>5, <1>6, <1>7, <1>8, <1>9, <1>10
    DEF Next, vars, StepDone, ColumnText, Promise!Next

LEMMA CursorInit == Init => Promise!Init
  BY UnpreparedHasNothing, NothingGiven DEF Init, Promise!Init

\* ImplementsCursor: executing once and counting through the whole result gives each row
\* of one execution once and in order, for any statements interleaved in any way.
THEOREM StatementImplementsCursor == Spec => ImplementsCursor
  <1>1. TypeOK /\ Fresh /\ [Next]_vars => TypeOK' /\ Fresh'
    BY TypeStep, FreshStep
  <1> QED
    BY Initial, FreshInit, CursorInit, CursorStep, <1>1, PTL
    DEF Spec, ImplementsCursor, Promise!Spec
=============================================================================
