--------------------------- MODULE MCSessionStore ---------------------------
(***************************************************************************)
(* Small instances of SessionStore for TLC: one browser with two           *)
(* connections, and two browsers with one each.                            *)
(***************************************************************************)
EXTENDS SessionStore, TLC

CONSTANTS ann, bob, k1, k2

Links == {k1, k2}
OneBrowser == {ann}
AllAnn == [k \in Links |-> ann]
TwoBrowsers == {ann, bob}
AnnAndBob == (k1 :> ann) @@ (k2 :> bob)

\* A browser's connections are interchangeable: only safety is checked.
LinkSymmetry == Permutations(Links)
=============================================================================
