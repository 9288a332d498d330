--------------------------- MODULE ConnectionSlots ---------------------------
(***************************************************************************)
(* What the server promises about connections, without its threads: at any *)
(* time at most MaxConnections connections are inside the server, each     *)
(* passes through it once and in one direction, from admission to serving  *)
(* to closing, and the server ends with nobody inside.                     *)
(***************************************************************************)
EXTENDS Integers, FiniteSets

CONSTANTS
  Conn,            \* the connections
  MaxConnections   \* how many may be inside at once

VARIABLES
  waiting,         \* made by a client, not yet looked at
  admitted,        \* occupying a slot, not yet served
  serving,         \* being served
  closing,         \* being closed, the slot still occupied
  ended            \* the server is gone

vars == <<waiting, admitted, serving, closing, ended>>

Inside == admitted \union serving \union closing

Init ==
  /\ waiting = {}
  /\ admitted = {}
  /\ serving = {}
  /\ closing = {}
  /\ ended = FALSE

Arrive(c) ==
  /\ ~ended
  /\ c \notin waiting \union Inside
  /\ waiting' = waiting \union {c}
  /\ UNCHANGED <<admitted, serving, closing, ended>>

Refuse(c) ==
  /\ c \in waiting
  /\ waiting' = waiting \ {c}
  /\ UNCHANGED <<admitted, serving, closing, ended>>

Admit(c) ==
  /\ c \in waiting
  /\ Cardinality(Inside) < MaxConnections
  /\ waiting' = waiting \ {c}
  /\ admitted' = admitted \union {c}
  /\ UNCHANGED <<serving, closing, ended>>

Serve(c) ==
  /\ c \in admitted
  /\ admitted' = admitted \ {c}
  /\ serving' = serving \union {c}
  /\ UNCHANGED <<waiting, closing, ended>>

Drop(c) ==
  /\ c \in admitted \union serving
  /\ admitted' = admitted \ {c}
  /\ serving' = serving \ {c}
  /\ closing' = closing \union {c}
  /\ UNCHANGED <<waiting, ended>>

Release(c) ==
  /\ c \in closing
  /\ closing' = closing \ {c}
  /\ UNCHANGED <<waiting, admitted, serving, ended>>

End ==
  /\ ~ended
  /\ Inside = {}
  /\ ended' = TRUE
  /\ waiting' = {}
  /\ UNCHANGED <<admitted, serving, closing>>

Next ==
  \/ \E c \in Conn : Arrive(c) \/ Refuse(c) \/ Admit(c) \/ Serve(c) \/ Drop(c) \/ Release(c)
  \/ End

Spec == Init /\ [][Next]_vars
=============================================================================
