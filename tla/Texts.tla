------------------------------- MODULE Texts --------------------------------
(***************************************************************************)
(* What the server's readers of text share (src/src/sw_server.c).  A text  *)
(* is a sequence of symbols, each a string; positions count from 1, and 0  *)
(* is SIZE_MAX, "not found".                                               *)
(***************************************************************************)
EXTENDS Integers, Sequences, SequencesExt, FiniteSets, FiniteSetsExt

CRLF == <<"CR", "LF">>

From(t, i) == SubSeq(t, i, Len(t))
OccursAt(s, t, i) == i >= 1 /\ IsPrefix(s, From(t, i))

\* Where s first occurs in t at or after position "from".
FirstAt(s, t, from) ==
  LET at == {i \in from .. Len(t) : OccursAt(s, t, i)}
  IN  IF at = {} THEN 0 ELSE Min(at)

\* t without the symbols of "blank" at its ends.
Trimmed(t, blank) ==
  LET kept == {i \in DOMAIN t : t[i] \notin blank}
  IN  IF kept = {} THEN <<>> ELSE SubSeq(t, Min(kept), Max(kept))

\* The longest beginning of t whose symbols are all in S.
Leading(t, S) ==
  SubSeq(t, 1, Max({n \in 0 .. Len(t) : \A i \in 1 .. n : t[i] \in S}))

\* What is between the symbols of "sep", from the first piece to the last.
Pieces(t, sep) ==
  LET cuts == {0, Len(t) + 1} \cup {i \in DOMAIN t : t[i] \in sep}
      cut(k) == CHOOSE i \in cuts : Cardinality({j \in cuts : j < i}) = k - 1
  IN  [k \in 1 .. Cardinality(cuts) - 1 |-> SubSeq(t, cut(k) + 1, cut(k + 1) - 1)]

\* The number that digits spell, in base "radix".
Number(digits, Value, radix) ==
  FoldLeft(LAMBDA n, d : n * radix + Value[d], 0, digits)
=============================================================================
