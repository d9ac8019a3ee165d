----------------------------- MODULE MarketData -----------------------------
(***************************************************************************)
(* How broker rates become candles the strategy may use: the MT5 adapter   *)
(* asks the terminal for a window, keeps the closed bars and cuts the      *)
(* newest of them; MarketDataValidator classifies what is left; and        *)
(* MarketDataService refuses a batch with an error.  The terminal is       *)
(* external: it may return bars out of order, twice or not at all.         *)
(*                                                                         *)
(* A rate is the open time of a bar, in units of the nominal interval's    *)
(* fraction; every bar lasts Duration.                                     *)
(***************************************************************************)
EXTENDS Selection, SequencesExt

CONSTANTS
    Duration,           \* Timeframe.duration
    Slack,              \* the extra bars asked for: 10 in the code
    GapMultiplier, MaxStaleness     \* MarketDataValidator

ASSUME ValidatorAssumption ==
    {Duration, Slack, GapMultiplier, MaxStaleness} \subseteq Nat \ {0}

(* copy_rates_range answers with the bars of [until - window, until].      *)
Window(until, limit) == (until - Duration * (limit + Slack))..until
InWindow(rates, until, limit) ==
    Select(rates, {i \in DOMAIN rates : rates[i] \in Window(until, limit)})

(* closed_candles: the last limit bars, as returned, that have closed.     *)
ClosedCandles(rates, until, limit) ==
    LET answer == InWindow(rates, until, limit)
        closed == Select(answer, {i \in DOMAIN answer : answer[i] + Duration <= until})
    IN  SubSeq(closed, IF Len(closed) > limit THEN Len(closed) - limit + 1 ELSE 1, Len(closed))

(* Mutant: the open times already seen are not compared.                   *)
Duplicated_Never(candles) == FALSE

Duplicated(candles) == \E i, j \in DOMAIN candles : i < j /\ candles[i] = candles[j]
OutOfOrder(candles) == \E i \in 2..Len(candles) : candles[i] < candles[i - 1]
Gapped(candles)     == \E i \in 2..Len(candles) :
                          candles[i] - candles[i - 1] > Duration * GapMultiplier
Stale(candles, as_of) == as_of - (candles[Len(candles)] + Duration) > MaxStaleness

(* validate: the issue codes; a gap is a warning, the others are errors.   *)
Issues(candles, as_of) ==
    LET Is(code, holds) == IF holds THEN {code} ELSE {}
    IN  IF candles = <<>> THEN {"EMPTY_DATA"}
        ELSE UNION {Is("DUPLICATE_CANDLE", Duplicated(candles)),
                    Is("OUT_OF_ORDER", OutOfOrder(candles)),
                    Is("GAP_DETECTED", Gapped(candles)),
                    Is("STALE_DATA", Stale(candles, as_of)),
                    Is("FORMING_CANDLE",
                       \E i \in DOMAIN candles : candles[i] + Duration > as_of)}

IsUsable(candles, as_of) == Issues(candles, as_of) \subseteq {"GAP_DETECTED"}
=============================================================================
