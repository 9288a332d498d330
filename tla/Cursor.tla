------------------------------- MODULE Cursor -------------------------------
(***************************************************************************)
(* What a prepared statement promises, without a driver (sw_db.h): it is    *)
(* executed once, by its first step, with what is bound by then; its steps  *)
(* give the rows of that one execution, each once and in order, whatever    *)
(* happens to the table and to other statements meanwhile; only a reset     *)
(* makes it ready to be executed again; and an execution that fails has no  *)
(* effect and leaves it ready.                                              *)
(***************************************************************************)
EXTENDS Integers, Sequences

CONSTANTS
  Stmt,            \* the statements
  Row,             \* what a row of the table may be
  Null,            \* the row of NULLs, which an unbound parameter stands for
  NoRow            \* "no row"

VARIABLES
  table,           \* the rows, in the order the database gives them
  sql,             \* each statement's SQL: "insert", "select"; "none": not prepared
  bound,           \* what its parameter is bound to
  ran,             \* it was executed since it was prepared or reset
  left,            \* the rows it has still to give
  at               \* the row it gave last

vars == <<table, sql, bound, ran, left, at>>

Init ==
  /\ table = <<>>
  /\ sql = [s \in Stmt |-> "none"]
  /\ bound = [s \in Stmt |-> Null]
  /\ ran = [s \in Stmt |-> FALSE]
  /\ left = [s \in Stmt |-> <<>>]
  /\ at = [s \in Stmt |-> NoRow]

\* What a statement keeps of an execution is given up.
Forget(s) ==
  /\ ran' = [ran EXCEPT ![s] = FALSE]
  /\ left' = [left EXCEPT ![s] = <<>>]
  /\ at' = [at EXCEPT ![s] = NoRow]

Prepare(s, q) ==
  /\ sql[s] = "none"
  /\ sql' = [sql EXCEPT ![s] = q]
  /\ UNCHANGED <<table, bound, ran, left, at>>

Bind(s, r) ==
  /\ sql[s] # "none"
  /\ bound' = [bound EXCEPT ![s] = r]
  /\ UNCHANGED <<table, sql, ran, left, at>>

Insert(s) ==
  /\ sql[s] = "insert" /\ ~ran[s]
  /\ table' = Append(table, bound[s])
  /\ ran' = [ran EXCEPT ![s] = TRUE]
  /\ UNCHANGED <<sql, bound, left, at>>

Select(s) ==
  /\ sql[s] = "select" /\ ~ran[s]
  /\ ran' = [ran EXCEPT ![s] = TRUE]
  /\ IF table = <<>> THEN UNCHANGED <<left, at>>
     ELSE /\ left' = [left EXCEPT ![s] = Tail(table)]
          /\ at' = [at EXCEPT ![s] = Head(table)]
  /\ UNCHANGED <<table, sql, bound>>

Give(s) ==
  /\ ran[s] /\ left[s] # <<>>
  /\ left' = [left EXCEPT ![s] = Tail(left[s])]
  /\ at' = [at EXCEPT ![s] = Head(left[s])]
  /\ UNCHANGED <<table, sql, bound, ran>>

Reset(s) ==
  /\ sql[s] # "none"
  /\ Forget(s)
  /\ UNCHANGED <<table, sql, bound>>

Finalize(s) ==
  /\ sql[s] # "none"
  /\ Forget(s)
  /\ sql' = [sql EXCEPT ![s] = "none"]
  /\ bound' = [bound EXCEPT ![s] = Null]
  /\ UNCHANGED table

\* Somebody else, or sw_db_exec, changes the table.
Change ==
  /\ table' \in Seq(Row)
  /\ UNCHANGED <<sql, bound, ran, left, at>>

Next ==
  \/ \E s \in Stmt :
       \/ \E q \in {"insert", "select"} : Prepare(s, q)
       \/ \E r \in Row : Bind(s, r)
       \/ Insert(s) \/ Select(s) \/ Give(s) \/ Reset(s) \/ Finalize(s)
  \/ Change

Spec == Init /\ [][Next]_vars
=============================================================================
