------------------------------ MODULE Selection ------------------------------
(***************************************************************************)
(* What a comprehension with a condition keeps of a sequence: the elements *)
(* at some of its indices, in the order they had.                          *)
(***************************************************************************)
EXTENDS Integers, FiniteSets

(* The members of a finite set of numbers, the smallest first.             *)
InOrder(indices) ==
    [k \in 1..Cardinality(indices) |->
        CHOOSE i \in indices : Cardinality({j \in indices : j < i}) = k - 1]

Select(seq, indices) ==
    LET order == InOrder(indices)
    IN  [k \in DOMAIN order |-> seq[order[k]]]
=============================================================================
