------------------------------- MODULE Lists -------------------------------
(***************************************************************************)
(* The arrays of the library, compacted in place: what is removed leaves   *)
(* the rest in its order (s_array_remove_ordered and the loops around it). *)
(***************************************************************************)
EXTENDS Integers, Sequences

\* The loop that visits every element of s and keeps those at the positions in I.
Kept(s, I) ==
  LET kept[i \in 0 .. Len(s)] ==
        IF i = 0 THEN <<>>
        ELSE IF i \in I THEN Append(kept[i - 1], s[i])
        ELSE kept[i - 1]
  IN  kept[Len(s)]
=============================================================================
