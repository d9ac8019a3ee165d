------------------------- MODULE MCPaperAccounting -------------------------
(***************************************************************************)
(* Buys and sells that add to, reduce, close and reverse the position of   *)
(* one instrument, at prices on ticks of four units whose average is no    *)
(* whole unit; a fill of another instrument of the same currency; and      *)
(* three marks.                                                            *)
(***************************************************************************)
EXTENDS PaperAccounting

CONSTANTS gold, oil, f1, f2, f3, f4, f5, m1, m2, m3

MCFill(i, q, p, t) ==
  [instrument |-> i, quantity |-> q, price |-> p, commission |-> 2, at |-> t]

MCFillOf ==
  [f \in Fills |-> CASE f = f1 -> MCFill(gold, 2, 8, 1)
                     [] f = f2 -> MCFill(gold, 1, 12, 2)
                     [] f = f3 -> MCFill(gold, -1, 12, 3)
                     [] f = f4 -> MCFill(gold, -4, 16, 3)
                     [] f = f5 -> MCFill(oil, 3, 4, 1)]

MCMarkOf ==
  [m \in Marks |-> CASE m = m1 -> [instrument |-> gold, price |-> 12, at |-> 2]
                     [] m = m2 -> [instrument |-> gold, price |-> 4, at |-> 3]
                     [] m = m3 -> [instrument |-> oil, price |-> 8, at |-> 2]]
=============================================================================
