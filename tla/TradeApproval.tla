--------------------------- MODULE TradeApproval ---------------------------
(***************************************************************************)
(* From a proposed direction to an order intent: build_configured_signal,  *)
(* DecisionEngine.decide, RiskEngine.assess with the exposure limits, and  *)
(* build_approved_order_intent.  Each is a pure function of its arguments; *)
(* together they decide whether a trade is sent, how large it is and until *)
(* when.                                                                   *)
(*                                                                         *)
(* A Decimal is a number of units as small as it takes: prices of one      *)
(* unit, in which a point and a tick have a size, money of another,        *)
(* volumes of a third; tick_value and contract_size are per unit of        *)
(* volume.  Fractions, ratios and exchange rates are in Whole-ths.  The    *)
(* code divides by tick_size and multiplies by fractions; here both sides  *)
(* of a comparison are multiplied by tick_size, or by Whole.               *)
(*                                                                         *)
(* A trade is a record of everything the four functions are given; 0       *)
(* stands for an absent take profit.                                       *)
(***************************************************************************)
EXTENDS Integers, FiniteSets, SequencesExt

CONSTANTS
    Whole,          \* the denominator of fractions, ratios and rates
    Parameters,     \* StrategyConfiguration.resolve: symbol -> effective parameters
    BarDuration,    \* Timeframe.duration of the signal's candle
    DecisionConfidence,     \* DecisionPolicy.minimum_confidence
    RiskPolicy, Instrument, \* the versioned policy and the broker's specification
    Base, Quote,    \* decompose_symbol, on the symbols it accepts
    AccountCurrency, FxRates, Limits    \* ExposureLimits; a group is key -> limit

ASSUME SizingAssumption ==
    /\ {Instrument.point, Instrument.tick_size, Instrument.tick_value,
        Instrument.contract_size, Instrument.volume_step,
        Instrument.volume_min, Instrument.volume_max, BarDuration,
        RiskPolicy.min_stop_ticks, RiskPolicy.max_stop_ticks,
        RiskPolicy.min_reward_risk, Whole} \subseteq Nat \ {0}
    /\ Instrument.volume_max >= Instrument.volume_min
    /\ RiskPolicy.min_stop_ticks <= RiskPolicy.max_stop_ticks
    /\ \A p \in {RiskPolicy.risk_per_trade, RiskPolicy.max_open_risk,
                 RiskPolicy.max_daily_loss, RiskPolicy.max_drawdown} : p \in 1..Whole
    /\ RiskPolicy.margin_buffer \in 0..Whole
ASSUME CurrencyAssumption ==
    /\ DOMAIN Base = DOMAIN Quote
    /\ FxRates \in [DOMAIN FxRates -> Nat \ {0}]

Magnitude(n) == IF n < 0 THEN -n ELSE n
Minimum(a, b) == IF a <= b THEN a ELSE b
Sum(Value(_), records) == SumFunction([i \in DOMAIN records |-> Value(records[i])])
Code(name, holds) == IF holds THEN {name} ELSE {}

-----------------------------------------------------------------------------
(* What the constructors of the records accept *)

(* ExposureRecord, of a position or an order that is open.                 *)
ExposureRecord ==
    [symbol : DOMAIN Base, strategy : STRING, asset_class : STRING,
     action : {"BUY", "SELL"}, volume : Nat \ {0}, contract_size : Nat \ {0},
     price : Nat \ {0}, monetary_risk : Nat \ {0}]

AccountRiskSnapshot ==
    {a \in [equity : Nat \ {0}, daily_peak : Nat \ {0}, peak : Nat \ {0},
            free_margin : Nat, open_risk : Nat, losses : Nat, positions : Nat,
            reconciled_at : Int, last_loss_at : Int] :
        a.daily_peak >= a.equity /\ a.peak >= a.equity}

(* The signal's proposal, TradeRiskRequest and the moment of the intent.   *)
Proposal ==
    [proposed : {"BUY", "SELL", "HOLD"}, confidence : 0..Whole,
     symbol : DOMAIN Parameters, strategy : STRING,
     observed_at : Int, evaluated_at : Int, assessed_at : Int, created_at : Int,
     entry : Nat \ {0}, stop : Nat \ {0}, target : Nat, exit_policy : BOOLEAN,
     spread : Nat, slippage : Nat, commission : Nat, swap : Nat,
     margin_per_lot : Nat \ {0}, account : AccountRiskSnapshot,
     existing : Seq(ExposureRecord), failing : SUBSET STRING]

-----------------------------------------------------------------------------
(* Signal and decision *)

(* build_configured_signal: a weak proposal becomes a HOLD; the signal     *)
(* lives ttl bars from the close of its candle.                            *)
Signal(trade) ==
    LET parameters == Parameters[trade.symbol]
        weak == trade.confidence < parameters.minimum_confidence
    IN  [action |-> IF weak THEN "HOLD" ELSE trade.proposed,
         expires_at |-> trade.observed_at + BarDuration * parameters.ttl_bars]

(* decide keeps the direction or downgrades it; it never makes one.        *)
Decide(trade) ==
    LET signal == Signal(trade)
    IN  [action |-> IF \/ trade.evaluated_at >= signal.expires_at
                       \/ trade.confidence < DecisionConfidence
                    THEN "HOLD" ELSE signal.action,
         symbol |-> trade.symbol, expires_at |-> signal.expires_at]

-----------------------------------------------------------------------------
(* Exposure *)

SignedNotional(e) ==
    (IF e.action = "BUY" THEN 1 ELSE -1) * e.volume * e.contract_size * e.price
Rate(e) == IF Quote[e.symbol] = AccountCurrency THEN Whole ELSE FxRates[Quote[e.symbol]]
Convertible(e) == Quote[e.symbol] \in DOMAIN FxRates \cup {AccountCurrency}
Converted(e) == Magnitude(SignedNotional(e)) * Rate(e)

(* The native units of one currency that an exposure moves, on either leg. *)
CurrencyUnits(e, currency) ==
    (IF Base[e.symbol] = currency THEN e.volume * e.contract_size ELSE 0)
    + (IF Quote[e.symbol] = currency THEN Magnitude(SignedNotional(e)) ELSE 0)

(* gross_notional, what the records that agree in a field come to, both in *)
(* Whole-ths of the account currency, and what they move of a currency.    *)
Gross(records) == Sum(Converted, records)
Held(records, field, key) ==
    Sum(LAMBDA e : IF e[field] = key THEN Converted(e) ELSE 0, records)
Moved(records, currency) == Sum(LAMBDA e : CurrencyUnits(e, currency), records)

(* limit_breaches, by the rejection code of each group; a quote currency   *)
(* without a rate makes the whole portfolio incomplete.                    *)
LimitBreaches(records) ==
    LET Exceeded(limits, field) ==
            \E key \in DOMAIN limits : Held(records, field, key) > Whole * limits[key]
    IN  IF \E i \in DOMAIN records : ~Convertible(records[i]) THEN {"INCOMPLETE"}
        ELSE UNION {
            Code("PORTFOLIO", Gross(records) > Whole * Limits.gross),
            Code("SYMBOL", Exceeded(Limits.symbol, "symbol")),
            Code("STRATEGY", Exceeded(Limits.strategy, "strategy")),
            Code("PORTFOLIO", Exceeded(Limits.asset, "asset_class")),
            Code("CURRENCY", \E currency \in DOMAIN Limits.currency :
                                Moved(records, currency) > Limits.currency[currency])}

-----------------------------------------------------------------------------
(* Risk *)

Toward(trade) == IF Decide(trade).action = "BUY" THEN 1 ELSE -1
StopDistance(trade) == (trade.entry - trade.stop) * Toward(trade)
StopSize(trade) == Magnitude(trade.entry - trade.stop)

(* Mutant: a point is taken for a tick.                                    *)
RoundTripCost_InTicks(trade) ==
    (trade.spread + trade.slippage) * Instrument.tick_size + trade.commission + trade.swap

(* Spread and slippage are in points, commission and swap are prices.      *)
RoundTripCost(trade) ==
    (trade.spread + trade.slippage) * Instrument.point + trade.commission + trade.swap

(* loss_per_lot times tick_size: (stop_ticks + cost_ticks) * tick_value,   *)
(* where both numbers of ticks are prices divided by tick_size.            *)
LossPerLot(trade) == (StopSize(trade) + RoundTripCost(trade)) * Instrument.tick_value

(* The gates before any arithmetic.  trade.failing holds the codes of the  *)
(* failing ones among kill switch, readiness, database, broker,            *)
(* reconciliation, market, session and news.                               *)
GateCodes(trade) ==
    LET decision == Decide(trade)
        account  == trade.account
        age      == trade.assessed_at - account.reconciled_at
    IN  UNION {
        trade.failing,
        Code("INCOMPLETE", decision.action = "HOLD" \/ age < 0),
        Code("EXPIRED", trade.assessed_at >= decision.expires_at),
        Code("STALE", age > RiskPolicy.snapshot_max_age),
        Code("UNKNOWN_SYMBOL", decision.symbol # Instrument.symbol),
        Code("SPREAD", trade.spread > RiskPolicy.max_spread),
        Code("SLIPPAGE", trade.slippage > RiskPolicy.max_slippage),
        Code("INCOMPLETE", Sum(LAMBDA e : e.monetary_risk, trade.existing) # account.open_risk)}

LevelCodes(trade) ==
    LET distance == StopDistance(trade)
        reward   == (trade.target - trade.entry) * Toward(trade) - RoundTripCost(trade)
        risked   == StopSize(trade) + RoundTripCost(trade)
        Ticks(n) == n * Instrument.tick_size
    IN  UNION {
        Code("STOP_LOSS", distance <= 0),
        Code("STOP_SMALL", Whole * StopSize(trade) < Ticks(RiskPolicy.min_stop_ticks)),
        Code("STOP_LARGE", Whole * StopSize(trade) > Ticks(RiskPolicy.max_stop_ticks)),
        Code("INCOMPLETE", trade.target = 0 /\ ~trade.exit_policy),
        Code("REWARD", /\ trade.target # 0 /\ distance > 0
                       /\ \/ reward <= 0
                          \/ Whole * reward < RiskPolicy.min_reward_risk * risked)}

(* A last loss that is unknown counts as one in the future.                *)
AccountCodes(trade) ==
    LET account == trade.account
        Down(peak, fraction) == (peak - account.equity) * Whole >= fraction * peak
        losing == account.losses >= RiskPolicy.max_losses
    IN  UNION {
        Code("DAILY_LOSS", Down(account.daily_peak, RiskPolicy.max_daily_loss)),
        Code("DRAWDOWN", Down(account.peak, RiskPolicy.max_drawdown)),
        Code("POSITIONS", account.positions >= RiskPolicy.max_positions),
        Code("INCOMPLETE", losing /\ account.last_loss_at > trade.assessed_at),
        Code("COOLDOWN", /\ losing /\ account.last_loss_at <= trade.assessed_at
                         /\ trade.assessed_at < account.last_loss_at + RiskPolicy.cooldown)}

(* What the trade may lose, in Whole-ths of money: its own budget, or what *)
(* the portfolio has left.                                                 *)
TradeBudget(trade) == trade.account.equity * RiskPolicy.risk_per_trade
PortfolioLeft(trade) ==
    trade.account.equity * RiskPolicy.max_open_risk - Whole * trade.account.open_risk
RiskBudget(trade) ==
    LET left == PortfolioLeft(trade)
    IN  Minimum(TradeBudget(trade), IF left > 0 THEN left ELSE 0)

(* Rounded down to the grid, then capped; the cap itself is not rounded.   *)
Volume(trade) ==
    LET step == Instrument.volume_step
        raw  == IF LossPerLot(trade) > 0
                THEN ((RiskBudget(trade) * Instrument.tick_size)
                         \div (Whole * LossPerLot(trade) * step)) * step
                ELSE 0
    IN  Minimum(raw, Instrument.volume_max)

(* CandidateExposure; no limit looks at its risk, which is left out.       *)
Candidate(trade) ==
    [symbol |-> trade.symbol, strategy |-> trade.strategy,
     asset_class |-> Instrument.asset_class, action |-> Decide(trade).action,
     volume |-> Volume(trade), contract_size |-> Instrument.contract_size,
     price |-> trade.entry]
HasCandidate(trade) == Volume(trade) >= Instrument.volume_min /\ Decide(trade).action # "HOLD"

SizeCodes(trade) ==
    LET volume == Volume(trade)
        loss   == LossPerLot(trade) * volume
        free   == trade.account.free_margin
    IN  UNION {
        Code("PORTFOLIO", RiskBudget(trade) <= 0),
        Code("VOLUME", volume < Instrument.volume_min),
        Code("TRADE_RISK", /\ volume >= Instrument.volume_min
                           /\ Whole * loss > TradeBudget(trade) * Instrument.tick_size),
        Code("MARGIN", Whole * trade.margin_per_lot * volume
                          > free * (Whole - RiskPolicy.margin_buffer)),
        IF HasCandidate(trade) THEN LimitBreaches(Append(trade.existing, Candidate(trade)))
        ELSE {}}

RejectionCodes(trade) ==
    UNION {GateCodes(trade), LevelCodes(trade), AccountCodes(trade), SizeCodes(trade)}

(* The candidate is built outside the try: a symbol decompose_symbol does  *)
(* not accept makes assess raise instead of reject.                        *)
AssessRaises(trade) == HasCandidate(trade) /\ trade.symbol \notin DOMAIN Base
Approved(trade) == ~AssessRaises(trade) /\ RejectionCodes(trade) = {}

-----------------------------------------------------------------------------
(* build_approved_order_intent: the set of the intents it returns, none    *)
(* when it raises.                                                         *)
Intents(trade) ==
    LET decision == Decide(trade)
    IN  IF /\ Approved(trade)
           /\ decision.action # "HOLD"
           /\ trade.created_at < decision.expires_at
           /\ trade.assessed_at <= trade.created_at
        THEN {[side |-> decision.action, symbol |-> decision.symbol,
               volume |-> Volume(trade), stop |-> trade.stop, target |-> trade.target,
               created_at |-> trade.created_at]}
        ELSE {}
=============================================================================
