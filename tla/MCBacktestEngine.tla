-------------------------- MODULE MCBacktestEngine --------------------------
(* Two symbols, four intervals and up to two orders.                       *)
EXTENDS BacktestEngine

Shape(o, h, l, c) == [open_price |-> o, high |-> h, low |-> l, close |-> c]

(* Levels: stops and targets at 3 and 9 around an open of 6.               *)
MCCandles == {Shape(6, 8, 5, 7),      \* quiet
              Shape(6, 10, 2, 6),     \* touches both levels
              Shape(6, 9, 6, 9),      \* reaches the upper level
              Shape(2, 4, 2, 3),      \* gaps below the lower level
              Shape(2, 2, 0, 0),      \* and ends at nothing
              Shape(11, 11, 10, 10)}  \* gaps above the upper level

(* Two intervals in which both symbols trade, then one of them only; and a *)
(* dataset with holes.                                                     *)
MCCalendars == {({1, 2} \X (0..1)) \cup ({1} \X (2..3)),
                {<<1, 0>>, <<2, 0>>, <<1, 1>>, <<2, 2>>, <<1, 3>>}}

(* What the broker model grants always fits open_position's margin check.  *)
(* False where a lot costs neither margin nor commission (the defaults).   *)
GrantsFit == outcome # "margin"
=============================================================================
