------------------------------ MODULE Research ------------------------------
(***************************************************************************)
(* The research dataset and its walk-forward folds: build_research_dataset *)
(* labels every feature vector with the return some bars later, across     *)
(* instruments whose candles have gaps of their own, and                   *)
(* build_walk_forward_folds cuts the time-ordered examples by count and    *)
(* then drops those whose label reaches past a boundary.  Identities and   *)
(* checksums are the values themselves.                                    *)
(***************************************************************************)
EXTENDS Strategy

CONSTANTS
    Horizon,            \* DatasetBuildConfig.horizon_bars
    NeutralPercent,     \* DatasetBuildConfig.neutral_return_threshold
    Interval            \* the nominal time between two candles

ASSUME LabelAssumption == /\ Horizon \in Nat \ {0}
                          /\ NeutralPercent \in Nat
                          /\ Interval \in Nat \ {0}

(* Mutant: the label is taken to end a fixed time after the observation,   *)
(* whatever candles the instrument has.                                    *)
LabelEnd_Nominal(candles, source) == candles[source].close_time + Horizon * Interval

(* The close of the candle whose price decides the label.                  *)
LabelEnd(candles, source) == candles[source + Horizon].close_time

(* The candle a vector was observed at, and the move from there.           *)
Source(candles, vector) ==
    CHOOSE i \in 1..Len(candles) : candles[i].close_time = vector.observed_at
Move(candles, source) == candles[source + Horizon].close - candles[source].close

(* _label_feature_set: no example without a candle Horizon bars later, nor *)
(* for a move within the neutral band.                                     *)
HasLabel(candles, source) ==
    /\ source + Horizon <= Len(candles)
    /\ Distance(Move(candles, source), 0) * 100 > NeutralPercent * candles[source].close

Example(candles, vector) ==
    LET source == Source(candles, vector)
    IN  [features |-> vector, up |-> Move(candles, source) > 0,
         label_end_at |-> LabelEnd(candles, source)]

Labelled(candles) ==
    {Example(candles, v) : v \in
        {w \in ToSet(Features(candles)) : HasLabel(candles, Source(candles, w))}}

(* build_research_dataset: one history per instrument, then one sequence   *)
(* in order of observation and symbol.                                     *)
Earlier(a, b) ==
    \/ a.features.observed_at < b.features.observed_at
    \/ /\ a.features.observed_at = b.features.observed_at
       /\ a.features.symbol < b.features.symbol

Sorted(examples) ==
    [i \in 1..Cardinality(examples) |->
        CHOOSE e \in examples : Cardinality({d \in examples : Earlier(d, e)}) = i - 1]

ResearchDataset(series) == Sorted(UNION {Labelled(candles) : candles \in series})

(* What the dataset's own validation refuses: invalid or repeated series,  *)
(* equal feature-set checksums (two series still in warm-up), no example.  *)
DatasetError(series) ==
    \/ series = {}
    \/ \E candles \in series : ~ValidSeries(candles)
    \/ \E a, b \in series : a # b /\ \/ a[1].symbol = b[1].symbol
                                     \/ Features(a) = Features(b)
    \/ ResearchDataset(series) = <<>>

-----------------------------------------------------------------------------
(* Walk-forward folds.                                                     *)

WalkForwardConfig ==
    [training : Nat \ {0}, validation : Nat \ {0}, test : Nat \ {0}, step : Nat \ {0},
     expanding : BOOLEAN, purge : Nat, embargo : Nat]

FoldCount(examples, config) ==
    LET room == Len(examples) - config.training - config.validation - config.test
    IN  IF room < 0 THEN 0 ELSE room \div config.step + 1

ObservedAt(examples) == {examples[i].features.observed_at : i \in DOMAIN examples}

(* The n-th fold: its raw windows, then the purge before each boundary and *)
(* the embargo after it.                                                   *)
Fold(examples, config, n) ==
    LET tests  == config.training + config.validation + (n - 1) * config.step
        checks == tests - config.validation
        first  == IF config.expanding THEN 1 ELSE checks - config.training + 1
        VBoundary == examples[checks + 1].features.observed_at
        TBoundary == examples[tests + 1].features.observed_at
        Purged(e, boundary)    == e.label_end_at <= boundary - config.purge
        Embargoed(e, boundary) == e.features.observed_at >= boundary + config.embargo
        Keep(from, to, Passes(_)) == Select(examples, {i \in from..to : Passes(examples[i])})
    IN  [training   |-> Keep(first, checks, LAMBDA e : Purged(e, VBoundary)),
         validation |-> Keep(checks + 1, tests,
                             LAMBDA e : Embargoed(e, VBoundary) /\ Purged(e, TBoundary)),
         test       |-> Keep(tests + 1, tests + config.test,
                             LAMBDA e : Embargoed(e, TBoundary))]

(* WalkForwardFold refuses an empty partition and one that is not wholly   *)
(* before the next; either ends the evaluation.                            *)
FoldError(fold) ==
    LET Precedes(a, b) == \A s \in ObservedAt(a), t \in ObservedAt(b) : s < t
    IN  CASE <<>> \in {fold.training, fold.validation, fold.test} -> "empty"
          [] ~Precedes(fold.training, fold.validation)            -> "order"
          [] ~Precedes(fold.validation, fold.test)                -> "order"
          [] OTHER                                                -> "none"

-----------------------------------------------------------------------------
(* The examples somebody could build from the candles closed by a time.    *)
ClosedBy(candles, time) == Select(candles, {i \in DOMAIN candles : candles[i].close_time <= time})

Known(series, time) ==
    UNION {Labelled(ClosedBy(candles, time)) :
               candles \in {c \in series : ClosedBy(c, time) # <<>>}}
=============================================================================
