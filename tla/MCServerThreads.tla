--------------------------- MODULE MCServerThreads ---------------------------
(***************************************************************************)
(* Small instances of ServerThreads for TLC.                               *)
(***************************************************************************)
EXTENDS ServerThreads, TLC

\* Connections are interchangeable: sound for the runs that check only safety.
ConnSymmetry == Permutations(Conn)
=============================================================================
