------------------------------- MODULE Loops --------------------------------
(***************************************************************************)
(* The loops of the library that change one value until it settles.        *)
(***************************************************************************)
EXTENDS Integers

\* What n turns of a loop make of s.  body[x] = x when the loop ends at x, so
\* that n may be any number of turns that is not too small.
Turns(body, s, n) ==
  LET after[k \in 0 .. n] == IF k = 0 THEN s ELSE body[after[k - 1]]
  IN  after[n]
=============================================================================
