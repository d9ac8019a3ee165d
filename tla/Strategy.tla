------------------------------ MODULE Strategy ------------------------------
(***************************************************************************)
(* The strategy's view of a candle series: calculate_indicators,           *)
(* calculate_market_structure, detect_candlestick_patterns and, from them, *)
(* the point-in-time feature vectors of research.  The code computes each  *)
(* of them over the whole series at once and promises that the value at a  *)
(* candle uses that candle and earlier ones only.                          *)
(*                                                                         *)
(* A candle is [symbol, open_time, close_time, open, high, low, close] and *)
(* is closed.  A Python list with None during the warm-up is a function    *)
(* whose domain starts at the first defined index.  Prices are integers;   *)
(* averages and ratios are integers in units of 1/Scale, rounded down at   *)
(* every division as Decimal rounds at its 28th digit.                     *)
(***************************************************************************)
EXTENDS Selection, SequencesExt

CONSTANTS
    Scale,
    Pipeline        \* FeaturePipelineConfig: periods, pivot bars and ratios

ASSUME PipelineAssumption ==
    /\ Scale \in Nat \ {0}
    /\ \A name \in {"ema_fast", "ema_mid", "ema_slow", "rsi", "macd_fast", "macd_slow",
                    "macd_signal", "atr", "left_bars", "right_bars"} :
          Pipeline[name] \in Nat \ {0}
    /\ Pipeline.macd_fast < Pipeline.macd_slow
    /\ Pipeline.zone_percent \in 1..99 /\ Pipeline.doji_percent \in 1..99
    /\ Pipeline.wick_ratio \in Nat \ {0, 1}

Larger(a, b)  == IF a >= b THEN a ELSE b
Smaller(a, b) == IF a <= b THEN a ELSE b
Distance(a, b) == Larger(a - b, b - a)
Total(values) == FoldLeft(+, 0, values)

Candle ==
    {c \in [symbol : Nat, is_closed : BOOLEAN, open_time : Int, close_time : Int,
            open : Int, high : Int, low : Int, close : Int] :
        /\ c.close_time > c.open_time
        /\ c.low <= Smaller(c.open, c.close) /\ Larger(c.open, c.close) <= c.high}

(* The series every calculation accepts: one instrument, strictly ordered. *)
ValidSeries(candles) ==
    /\ candles # <<>>
    /\ \A i \in 1..Len(candles) : /\ candles[i].is_closed
                                  /\ candles[i].symbol = candles[1].symbol
    /\ \A i \in 2..Len(candles) : candles[i].open_time > candles[i - 1].open_time

(* Candles of one timeframe have one duration: they close as they open.    *)
OneTimeframe(candles) ==
    /\ candles \in Seq(Candle)
    /\ \A i, j \in DOMAIN candles :
          candles[i].open_time < candles[j].open_time
              => candles[i].close_time < candles[j].close_time

-----------------------------------------------------------------------------
(* Indicators *)

(* The moving averages: seeded with the mean of the first period values,   *)
(* then moved towards each value by weight / (period - 1 + weight).        *)
Averaged(values, period, weight) ==
    LET a[i \in period..Len(values)] ==
            IF i = period THEN Total([j \in 1..period |-> values[j]]) \div period
            ELSE (a[i - 1] * (period - 1) + weight * values[i]) \div (period - 1 + weight)
    IN  a

(* alpha is 2 / (period + 1); Wilder's smoothing, of the changes for RSI   *)
(* and of the ranges for ATR, uses 1 / period.                             *)
Ema(values, period)      == Averaged(values, period, 2)
Smoothed(values, period) == Averaged(values, period, 1)

Rsi(values, period) ==
    LET Gain(i) == Larger(values[i + 1] - values[i], 0)
        Loss(i) == Larger(values[i] - values[i + 1], 0)
        gains   == Smoothed([i \in 1..(Len(values) - 1) |-> Gain(i)], period)
        losses  == Smoothed([i \in 1..(Len(values) - 1) |-> Loss(i)], period)
    IN  [i \in (period + 1)..Len(values) |->
            LET gain == gains[i - 1]
                loss == losses[i - 1]
            IN  IF loss = 0 THEN (IF gain > 0 THEN 100 ELSE 50) * Scale
                ELSE (100 * Scale * gain) \div (gain + loss)]

(* The histogram; the signal line averages the defined differences only.   *)
Macd(values, fast, slow, signal) ==
    LET fastLine == Ema(values, fast)
        slowLine == Ema(values, slow)
        line     == [i \in 1..(Len(values) - slow + 1) |->
                        fastLine[i + slow - 1] - slowLine[i + slow - 1]]
        average  == Ema(line, signal)
    IN  [i \in (slow + signal - 1)..Len(values) |->
            line[i - slow + 1] - average[i - slow + 1]]

TrueRange(candles, i) ==
    LET range == candles[i].high - candles[i].low
    IN  IF i = 1 THEN range
        ELSE LET close == candles[i - 1].close
             IN  Larger(range, Larger(Distance(candles[i].high, close),
                                      Distance(candles[i].low, close)))

Atr(candles, period) ==
    Smoothed([i \in 1..Len(candles) |-> Scale * TrueRange(candles, i)], period)

-----------------------------------------------------------------------------
(* Market structure *)

Neighbours(candles, pivot) ==
    {i \in (pivot - Pipeline.left_bars)..(pivot + Pipeline.right_bars) :
        i # pivot /\ i \in 1..Len(candles)}
IsPivotLow(candles, pivot) ==
    \A i \in Neighbours(candles, pivot) : candles[pivot].low < candles[i].low
IsPivotHigh(candles, pivot) ==
    \A i \in Neighbours(candles, pivot) : candles[pivot].high > candles[i].high

(* Mutant: a pivot is reported at the candle where it occurs, before the   *)
(* bars to its right have closed.                                          *)
PivotAt_Unconfirmed(observed) == observed

(* The candle whose pivot the candle observed confirms.                    *)
PivotAt(observed) == observed - Pipeline.right_bars

(* The swings that the candle at an index confirms: a low, then a high.    *)
Swings(candles, observed) ==
    LET pivot == PivotAt(observed)
        Swing(kind, price) == [kind |-> kind, price |-> price,
                               confirmed_at |-> candles[observed].close_time]
        low   == IF IsPivotLow(candles, pivot)
                 THEN <<Swing("support", candles[pivot].low)>> ELSE <<>>
        high  == IF IsPivotHigh(candles, pivot)
                 THEN <<Swing("resistance", candles[pivot].high)>> ELSE <<>>
    IN  IF pivot > Pipeline.left_bars THEN low \o high ELSE <<>>

(* A swing widens the first zone of its kind that it touches, or opens a   *)
(* zone of its own.  Bounds are in hundredths of a price.                  *)
MergeZone(zones, swing) ==
    LET width == swing.price * Pipeline.zone_percent
        lower == swing.price * 100 - width
        upper == swing.price * 100 + width
        touched == SelectInSeq(zones, LAMBDA z : /\ z.kind = swing.kind
                                                 /\ lower <= z.upper
                                                 /\ upper >= z.lower)
    IN  IF touched = 0
        THEN Append(zones, [kind |-> swing.kind, lower |-> lower, upper |-> upper,
                            last_confirmed_at |-> swing.confirmed_at, touches |-> 1])
        ELSE [zones EXCEPT ![touched] =
                [@ EXCEPT !.lower = Smaller(@, lower), !.upper = Larger(@, upper),
                          !.last_confirmed_at = swing.confirmed_at, !.touches = @ + 1]]

Merged(zones, swings) == FoldLeft(MergeZone, zones, swings)

(* The zones known when the candle at an index has closed.                 *)
Zones(candles, observed) ==
    LET z[i \in 0..observed] ==
            IF i = 0 THEN <<>> ELSE Merged(z[i - 1], Swings(candles, i))
    IN  z[observed]

(* <<distance in ATR, present>> of the nearest zone of a kind: below the   *)
(* close for support, above it for resistance.                             *)
NearestZone(close, atr, zones, kind) ==
    LET Below   == kind = "support"
        middles == {zones[i].lower + zones[i].upper :
                        i \in {j \in DOMAIN zones : zones[j].kind = kind}}
        at      == 200 * close
        usable  == {m \in middles : IF Below THEN m <= at ELSE m >= at}
        nearest == CHOOSE m \in usable : \A n \in usable : Distance(m, at) <= Distance(n, at)
    IN  IF usable = {} THEN <<0, 0>>
        ELSE <<(Distance(nearest, at) * Scale * Scale) \div (200 * atr), 1>>

-----------------------------------------------------------------------------
(* Patterns, of a candle and its predecessor *)

Patterns(candles, i) ==
    LET c       == candles[i]
        bottom  == Smaller(c.open, c.close)
        top     == Larger(c.open, c.close)
        tiny    == (c.high - c.low) * Pipeline.doji_percent
        body    == Larger((top - bottom) * 100, tiny)
        upper   == (c.high - top) * 100
        lower   == (bottom - c.low) * 100
        Engulfs(p) == bottom <= Smaller(p.open, p.close) /\ top >= Larger(p.open, p.close)
        Is(name, holds) == IF holds THEN {name} ELSE {}
    IN  UNION {Is("doji", (top - bottom) * 100 <= tiny),
               Is("hammer", lower >= body * Pipeline.wick_ratio /\ upper <= body),
               Is("shooting_star", upper >= body * Pipeline.wick_ratio /\ lower <= body),
               Is("bullish_engulfing",
                  i > 1 /\ LET p == candles[i - 1]
                           IN  p.close < p.open /\ c.close > c.open /\ Engulfs(p)),
               Is("bearish_engulfing",
                  i > 1 /\ LET p == candles[i - 1]
                           IN  p.close > p.open /\ c.close < c.open /\ Engulfs(p))}

-----------------------------------------------------------------------------
(* Features *)

Indicators(candles) ==
    LET closes == [i \in 1..Len(candles) |-> candles[i].close * Scale]
    IN  [fast |-> Ema(closes, Pipeline.ema_fast),
         mid  |-> Ema(closes, Pipeline.ema_mid),
         slow |-> Ema(closes, Pipeline.ema_slow),
         rsi  |-> Rsi(closes, Pipeline.rsi),
         macd |-> Macd(closes, Pipeline.macd_fast, Pipeline.macd_slow, Pipeline.macd_signal),
         atr  |-> Atr(candles, Pipeline.atr)]

(* Past the warm-up of every indicator, and with positive volatility.      *)
IsReady(candles, at, i) ==
    /\ i > 1
    /\ \A name \in DOMAIN at : i \in DOMAIN at[name]
    /\ at.atr[i] > 0 /\ candles[i - 1].close > 0

(* The vector of the candle at an index; distances are in ATR.             *)
Vector(candles, at, i) ==
    LET candle == candles[i]
        close  == candle.close * Scale
        InAtr(value) == (value * Scale) \div at.atr[i]
        Nearest(kind) == NearestZone(candle.close, at.atr[i], Zones(candles, i), kind)
    IN  [symbol |-> candle.symbol, observed_at |-> candle.close_time,
         body |-> InAtr(close - candle.open * Scale),
         range |-> InAtr((candle.high - candle.low) * Scale),
         gaps |-> <<InAtr(close - at.fast[i]), InAtr(close - at.mid[i]),
                    InAtr(close - at.slow[i])>>,
         macd |-> InAtr(at.macd[i]), rsi |-> at.rsi[i],
         support |-> Nearest("support"), resistance |-> Nearest("resistance"),
         return |-> (candle.close * Scale) \div candles[i - 1].close - Scale,
         patterns |-> Patterns(candles, i)]

(* build_feature_set: the vectors of the candles that are ready, in order. *)
Features(candles) ==
    LET at    == Indicators(candles)
        order == InOrder({i \in 1..Len(candles) : IsReady(candles, at, i)})
    IN  [k \in DOMAIN order |-> Vector(candles, at, order[k])]
=============================================================================
