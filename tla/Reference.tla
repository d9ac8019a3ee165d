----------------------------- MODULE Reference -----------------------------
(***************************************************************************)
(* The pure computations between the broker's rates and an order intent,   *)
(* each applied to every input of a bounded set and compared with what it  *)
(* promises, stated without the steps the code takes.  A behaviour picks   *)
(* one input and stops; the invariants look at the input picked.           *)
(***************************************************************************)
EXTENDS MarketData, Research, TradeApproval

CONSTANTS
    Batches,    \* [rates, until, limit]: a terminal's answer and a request
    Histories,  \* candle series of one instrument
    Studies,    \* [series, config]: a research dataset and its walk-forward
    Proposals   \* everything a trade's approval is decided on

VARIABLES kind, input

ASSUME BatchesAssumption ==
    Batches \subseteq [rates : Seq(Int), until : Int, limit : Nat \ {0}]
ASSUME ProposalsAssumption == Proposals \subseteq Proposal
ASSUME HistoriesAssumption ==
    \A history \in Histories : OneTimeframe(history) /\ ValidSeries(history)
ASSUME StudiesAssumption == \A study \in Studies :
    /\ study.config \in WalkForwardConfig
    /\ IsFiniteSet(study.series) /\ \A candles \in study.series : OneTimeframe(candles)

choice == <<kind, input>>

NoInput == kind = "none" /\ input = <<>>

Take(name, values) == kind = "none" /\ kind' = name /\ input' \in values

LoadBatch      == Take("batch", Batches)
ObserveHistory == Take("history", Histories)
EvaluateStudy  == Take("study", Studies)
ProposeTrade   == Take("trade", Proposals)

TakeInput == LoadBatch \/ ObserveHistory \/ EvaluateStudy \/ ProposeTrade
Inputs == NoInput /\ [][TakeInput]_choice

-----------------------------------------------------------------------------
Increasing(seq) == \A i, j \in DOMAIN seq : i < j => seq[i] < seq[j]

(* A batch that MarketDataService lets through is one every strategy       *)
(* calculation accepts, closed by the time asked about and recent, and it  *)
(* is refused for no other reason; and when the terminal answered in order *)
(* it is exactly the newest closed bars (quality.py:56-155,                *)
(* mt5/market_data.py:150-185).                                            *)
SoundBatch(batch) ==
    LET until   == batch.until
        candles == ClosedCandles(batch.rates, until, batch.limit)
        series  == [i \in DOMAIN candles |->
                       [symbol |-> 1, is_closed |-> candles[i] + Duration <= until,
                        open_time |-> candles[i]]]
        closed  == {r \in ToSet(batch.rates) : r + Duration <= until
                                               /\ r \in Window(until, batch.limit)}
    IN  /\ IsUsable(candles, until)
              <=> ValidSeries(series) /\ ~Stale(candles, until)
        /\ Increasing(batch.rates) =>
              /\ Len(candles) = Minimum(batch.limit, Cardinality(closed))
              /\ \A r \in closed \ ToSet(candles), s \in ToSet(candles) : r < s

UsableDataIsSound == kind = "batch" => SoundBatch(input)

(* No look-ahead: the feature vectors of a history cut short are exactly   *)
(* those of the whole history that were observed by then, whatever candles *)
(* follow (docs/06_TRADING_LOGIC.md; market_structure.py:101-147 confirms  *)
(* a pivot only when the bars to its right have closed).                   *)
FeaturesAreCausal == kind = "history" =>
    LET whole == Features(input)
        ObservedBy(time) == {k \in DOMAIN whole : whole[k].observed_at <= time}
    IN  \A n \in DOMAIN input :
            LET cut == Features(SubSeq(input, 1, n))
            IN  /\ DOMAIN cut = ObservedBy(input[n].close_time)
                /\ \A k \in DOMAIN cut : cut[k] = whole[k]

(* No leakage: in every fold that is evaluated, the training examples can  *)
(* be built from the candles that had closed, purge and embargo before,    *)
(* when any validation example is observed, and the validation examples    *)
(* likewise before any test example; and a fold is never refused for the   *)
(* order of its partitions (walk_forward.py:158-210).                      *)
KnownBefore(series, apart, part, next) ==
    \A time \in ObservedAt(next) : ToSet(part) \subseteq Known(series, time - apart)

SoundFold(study, fold) ==
    LET apart == study.config.purge + study.config.embargo
    IN  /\ FoldError(fold) # "order"
        /\ FoldError(fold) = "none" =>
              /\ KnownBefore(study.series, apart, fold.training, fold.validation)
              /\ KnownBefore(study.series, apart, fold.validation, fold.test)

NoLeakage == kind = "study" =>
    LET examples == ResearchDataset(input.series)
    IN  ~DatasetError(input.series) =>
            \A n \in 1..FoldCount(examples, input.config) :
                SoundFold(input, Fold(examples, input.config, n))

(* An intent never risks what was not granted.  Reckoned from the intent   *)
(* alone: stopped out with all its costs, each in its own unit, the trade  *)
(* loses at most its budget, and together with the risk already open at most the             *)
(* portfolio's; it leaves the margin buffer; every exposure limit holds    *)
(* with it in the portfolio; no larger volume on the grid would do; it     *)
(* keeps the direction proposed, is stopped on the losing side, pays       *)
(* enough for its risk and is built while its signal lives                 *)
(* (risk/engine.py:31-201, approval.py:15-68).                             *)
SafeIntent(trade, intent) ==
    LET account == trade.account
        side    == IF intent.side = "BUY" THEN 1 ELSE -1
        cost    == trade.spread * Instrument.point + trade.slippage * Instrument.point
                      + trade.commission + trade.swap
        tick    == Instrument.tick_size
        Lost(volume) == volume * ((trade.entry - intent.stop) * side + cost)
                            * Instrument.tick_value
        Fits(volume) ==
            /\ Whole * Lost(volume) <= account.equity * RiskPolicy.risk_per_trade * tick
            /\ Whole * (Lost(volume) + Sum(LAMBDA e : e.monetary_risk, trade.existing) * tick)
                  <= account.equity * RiskPolicy.max_open_risk * tick
        entered == [symbol |-> intent.symbol, strategy |-> trade.strategy,
                    asset_class |-> Instrument.asset_class, action |-> intent.side,
                    volume |-> intent.volume, contract_size |-> Instrument.contract_size,
                    price |-> trade.entry]
        reward  == (intent.target - trade.entry) * side - cost
    IN  /\ Fits(intent.volume)
        /\ LET larger == intent.volume + Instrument.volume_step
           IN  larger <= Instrument.volume_max => ~Fits(larger)
        /\ Whole * (account.free_margin - intent.volume * trade.margin_per_lot)
              >= account.free_margin * RiskPolicy.margin_buffer
        /\ LimitBreaches(<<entered>> \o trade.existing) = {}
        /\ intent.side = trade.proposed /\ (trade.entry - intent.stop) * side > 0
        /\ intent.target # 0 =>
              reward > 0 /\ Whole * reward >= RiskPolicy.min_reward_risk
                                        * (Magnitude(trade.entry - intent.stop) + cost)
        /\ intent.created_at
              < trade.observed_at + BarDuration * Parameters[intent.symbol].ttl_bars

ApprovedIntentIsSafe ==
    kind = "trade" => \A intent \in Intents(input) : SafeIntent(input, intent)
=============================================================================
