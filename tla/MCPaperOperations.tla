------------------------- MODULE MCPaperOperations -------------------------
(* Two processes and two approved intents; an order gets no fill or two.    *)
EXTENDS PaperOperations, TLC

Symmetric == Permutations(Workers) \cup Permutations(Keys)
=============================================================================
