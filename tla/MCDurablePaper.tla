--------------------------- MODULE MCDurablePaper ---------------------------
(***************************************************************************)
(* Two calls on one host and one on another; an order of two lots, so that *)
(* it can fill in parts.                                                   *)
(***************************************************************************)
EXTENDS DurablePaper, TLC

CONSTANTS h1, h2, c1, c2, c3

MCHostOf == [c \in Calls |-> IF c = c2 THEN h2 ELSE h1]

\* The two calls of host h1 differ in nothing but their name.
MCSymmetry == Permutations({c1, c3})
=============================================================================
