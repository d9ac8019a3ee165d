---------------------------- MODULE MCPaperSoak ----------------------------
(* One run id, run up to twice, for two symbols; three samples.            *)
EXTENDS PaperSoak

Item(symbol, specification, stale) ==
    [symbol |-> symbol, specification |-> specification, currency |-> "USD",
     active |-> TRUE, stale |-> stale]

(* The specifications, a newer version of one of them, and a stale one.    *)
MCResolutions == {<<Item("A", "a1", FALSE), Item("B", "b1", FALSE)>>,
                  <<Item("A", "a2", FALSE), Item("B", "b1", FALSE)>>,
                  <<Item("A", "a1", FALSE), Item("B", "b1", TRUE)>>}
=============================================================================
