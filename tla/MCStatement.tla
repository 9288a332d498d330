---------------------------- MODULE MCStatement ----------------------------
(***************************************************************************)
(* A small instance of Statement for TLC.                                  *)
(***************************************************************************)
EXTENDS Statement, TLC

\* Statements are interchangeable: only safety is checked.
StmtSymmetry == Permutations(Stmt)
=============================================================================
