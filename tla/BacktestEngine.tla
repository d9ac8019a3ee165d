--------------------------- MODULE BacktestEngine ---------------------------
(***************************************************************************)
(* One research experiment: run_experiment replays a set of historical     *)
(* candles through BacktestEngine.step and submits the orders whose signal *)
(* was observed at the candle just replayed.  The code is sequential; what *)
(* is hard here is the order in which one step touches the one portfolio   *)
(* that every symbol shares (entries, protective exits, mark), and whether *)
(* the independent books it keeps (cash, closed trades, journal, report)   *)
(* still agree at the end.                                                 *)
(*                                                                         *)
(* Prices are whole ticks and time is counted in bars: the candle with     *)
(* open time t closes at t + 1.  An experiment has a single timeframe      *)
(* (runner.py:213-219), so a candle is identified by symbol and open time. *)
(* A symbol is a number, in the order of the names.  A signal is the       *)
(* position of its order in the schedule, which the runner requires to be  *)
(* in canonical order.                                                     *)
(***************************************************************************)
EXTENDS Integers, FiniteSets, SequencesExt

CONSTANTS
    Symbols,            \* the instruments of the experiment, numbered in name order
    Calendars,          \* the candle slots a dataset may consist of
    Candles,            \* the price shapes a candle may have
    Volumes, Stops, Targets, Lifetimes,   \* what an order may ask for
    MaxSignals,         \* bound: orders in the schedule
    InitialCash, TickValue, Adverse, CommissionPerLot, MarginPerLot,
    VolumeMin, VolumeStep, VolumeMax, LiquidityCap, AllowPartial,
    SwapPerLot, TripleSwapWeekday, BarsPerDay,
    ValidationBoundary, TestBoundary, Embargo

ASSUME SlotAssumption ==
    /\ Symbols \subseteq Nat
    /\ Calendars \subseteq SUBSET (Symbols \X Nat)
    /\ \A slots \in Calendars : IsFiniteSet(slots)
ASSUME CandleAssumption ==
    \A c \in Candles :
        /\ {c.open_price, c.high, c.low, c.close} \subseteq Int
        /\ c.low <= c.open_price /\ c.open_price <= c.high
        /\ c.low <= c.close /\ c.close <= c.high
ASSUME OrderAssumption ==
    /\ Volumes \cup Stops \subseteq Nat \ {0}
    /\ Targets \cup Lifetimes \subseteq Nat
ASSUME CostAssumption ==
    /\ {Adverse, CommissionPerLot, MarginPerLot, SwapPerLot, Embargo} \subseteq Nat
    /\ {InitialCash, TickValue, BarsPerDay} \subseteq Nat \ {0}
ASSUME GridAssumption ==
    /\ {VolumeMin, VolumeStep, VolumeMax, LiquidityCap} \subseteq Nat \ {0}
    /\ AllowPartial \in BOOLEAN
    /\ TripleSwapWeekday \in 0..4
ASSUME SplitAssumption ==
    /\ {ValidationBoundary, TestBoundary} \subseteq Nat
    /\ ValidationBoundary < TestBoundary

VARIABLES
    events,     \* SimulationClock.events: the slots in replay order
    cursor,     \* SimulationClock.cursor: events consumed so far
    bar,        \* the candle of the step in progress
    phase,      \* where run_experiment is inside one iteration of its loop
    todo,       \* what the loop in progress has still to visit
    schedule,   \* the scheduled orders submitted so far, by signal
    pending,    \* BacktestEngine.pending_orders
    retained,   \* step's list of orders that stay pending
    portfolio,  \* PortfolioState: cash, realized, positions, closed
    exits,      \* BacktestStep.protective_exits of the step in progress
    replay,     \* what the ReplayEvents say was expired and rejected
    report,     \* the BaselineReport of a completed experiment
    outcome     \* "running", "completed", or the error that ended the run

vars == <<events, cursor, bar, phase, todo, schedule, pending, retained,
          portfolio, exits, replay, report, outcome>>

NoTarget == 0
NoBar    == [symbol |-> 0, open |-> 0]
NoReport == [overall |-> "none"]

Sides     == {"BUY", "SELL"}
Direction(side) == IF side = "BUY" THEN 1 ELSE -1
Opposite(side)  == IF side = "BUY" THEN "SELL" ELSE "BUY"

SumOver(Value(_), seq) == SumFunction([i \in DOMAIN seq |-> Value(seq[i])])

(* The replay order of from_candles: by close time, then by symbol.        *)
Before(a, b) == a[2] < b[2] \/ (a[2] = b[2] /\ a[1] < b[1])
FromCandles(slots) ==
    [i \in 1..Cardinality(slots) |->
        CHOOSE s \in slots : Cardinality({r \in slots : Before(r, s)}) = i - 1]

-----------------------------------------------------------------------------
(* The broker model *)

(* A market fill pays half the spread and the slippage on top of the       *)
(* reference price, for an entry and for an exit.                          *)
FillPrice(reference, side) == reference + Direction(side) * Adverse

UnrealizedPnl(p) == (p.mark - p.entry) * Direction(p.side) * TickValue * p.volume
Equity(pf)     == pf.cash + SumOver(UnrealizedPnl, pf.positions)
MarginUsed(pf) == SumOver(LAMBDA p : p.margin, pf.positions)
FreeMargin(pf) == Equity(pf) - MarginUsed(pf)

(* The largest volume on the instrument's grid not above the rational      *)
(* number num / den.                                                       *)
RoundVolumeDown(num, den) ==
    IF num < VolumeMin * den THEN 0
    ELSE VolumeMin + ((num - VolumeMin * den) \div (VolumeStep * den)) * VolumeStep

Least(a, b) == IF a <= b THEN a ELSE b

(* Mutant: the commission is not reserved when the volume is capped.       *)
FillDecision_IgnoresCommission(requested, available) ==
    LET capped  == Least(requested, Least(VolumeMax, LiquidityCap))
        rounded == IF available < MarginPerLot * capped
                   THEN RoundVolumeDown(available, MarginPerLot)
                   ELSE RoundVolumeDown(capped, 1)
        filled  == IF rounded < requested /\ ~AllowPartial THEN 0 ELSE rounded
    IN  [filled |-> filled, margin |-> MarginPerLot * filled]

(* simulate_broker_fill_decision: the volume the broker grants.            *)
FillDecision(requested, available) ==
    LET capped  == Least(requested, Least(VolumeMax, LiquidityCap))
        capital == MarginPerLot + CommissionPerLot
        rounded == IF available < capital * capped
                   THEN RoundVolumeDown(available, capital)
                   ELSE RoundVolumeDown(capped, 1)
        filled  == IF rounded < requested /\ ~AllowPartial THEN 0 ELSE rounded
    IN  [filled |-> filled, margin |-> MarginPerLot * filled]

(* calculate_swap_cost: one unit for every weekday night, three on the     *)
(* triple-swap weekday.                                                    *)
SwapCost(volume, opened, closed) ==
    LET nights   == (opened \div BarsPerDay)..((closed \div BarsPerDay) - 1)
        weekdays == {d \in nights : d % 7 < 5}
        triple   == {d \in weekdays : d % 7 = TripleSwapWeekday}
    IN  SwapPerLot * volume * (Cardinality(weekdays) + 2 * Cardinality(triple))

(* The side of a price level a price is on, seen from a position: Lost     *)
(* when the price is at the level or worse, Won when at it or better.      *)
Lost(side, price, level) == (price - level) * Direction(side) <= 0
Won(side, price, level)  == level # NoTarget /\ (price - level) * Direction(side) >= 0
Worst(side, c) == IF side = "BUY" THEN c.low ELSE c.high
Best(side, c)  == IF side = "BUY" THEN c.high ELSE c.low

Exit(reason, reference, at) == [reason |-> reason, reference |-> reference, at |-> at]
NoExit == Exit("NONE", 0, 0)

(* Mutant: a bar that touches both levels is taken for a win.              *)
IntrabarExit_TargetFirst(p, c) ==
    CASE Lost(p.side, c.open_price, p.stop) ->
            Exit("GAP_STOP_LOSS", c.open_price, c.open)
      [] ~Lost(p.side, c.open_price, p.stop) /\ Won(p.side, Best(p.side, c), p.target) ->
            Exit("TAKE_PROFIT", p.target, c.open + 1)
      [] OTHER ->
            IF Lost(p.side, Worst(p.side, c), p.stop)
            THEN Exit("STOP_LOSS", p.stop, c.open + 1)
            ELSE NoExit

(* simulate_conservative_intrabar_exit: the exits the bar allows, the      *)
(* stop first when the bar touched both levels.                            *)
IntrabarExit(p, c) ==
    CASE Lost(p.side, c.open_price, p.stop) ->
            Exit("GAP_STOP_LOSS", c.open_price, c.open)
      [] Won(p.side, c.open_price, p.target) /\ ~Lost(p.side, c.open_price, p.stop) ->
            Exit("GAP_TAKE_PROFIT", p.target, c.open)
      [] OTHER ->
            IF Lost(p.side, Worst(p.side, c), p.stop)
            THEN Exit("STOP_LOSS", p.stop, c.open + 1)
            ELSE IF Won(p.side, Best(p.side, c), p.target)
                 THEN Exit("TAKE_PROFIT", p.target, c.open + 1)
                 ELSE NoExit

-----------------------------------------------------------------------------
(* The portfolio *)

(* OpenPosition as open_position builds it from the entry fill.            *)
NewPosition(signal, order, volume, margin, c) ==
    LET price == FillPrice(c.open_price, order.side)
    IN  [signal |-> signal, symbol |-> order.symbol, side |-> order.side,
         volume |-> volume, reference |-> c.open_price, entry |-> price,
         opened_at |-> c.open, commission |-> CommissionPerLot * volume,
         mark |-> price, marked_at |-> c.open,
         stop |-> order.stop, target |-> order.target, margin |-> margin]

(* The ValueErrors of SimulatedFill, open_position and OpenPosition, in    *)
(* the order the code raises them.                                         *)
EntryError(p) ==
    CASE p.entry <= 0 -> "price"
      [] p.entry > 0 /\ p.commission > portfolio.cash -> "commission"
      [] p.entry > 0 /\ p.commission <= portfolio.cash
            /\ p.margin > FreeMargin(portfolio) - p.commission -> "margin"
      [] OTHER ->
            IF \/ Lost(p.side, p.entry, p.stop)
               \/ p.target # NoTarget /\ Lost(p.side, p.target, p.entry)
            THEN "protection" ELSE "none"

(* Mutant: the entry commission is booked as realized and not paid.        *)
WithPosition_Unpaid(p) ==
    [portfolio EXCEPT !.realized = @ - p.commission, !.positions = Append(@, p)]

WithPosition(p) ==
    [portfolio EXCEPT !.cash = @ - p.commission, !.realized = @ - p.commission,
                      !.positions = Append(@, p)]

(* close_position: the ClosedTrade and the cash it leaves.                 *)
Trade(p, exit) ==
    LET size   == Direction(p.side) * TickValue * p.volume
        price  == FillPrice(exit.reference, Opposite(p.side))
        gross  == (exit.reference - p.reference) * size
        filled == (price - p.entry) * size
        swap   == SwapCost(p.volume, p.opened_at, exit.at)
        commission == CommissionPerLot * p.volume
    IN  [signal |-> p.signal, symbol |-> p.symbol, side |-> p.side,
         opened_at |-> p.opened_at, closed_at |-> exit.at,
         exit_reference |-> exit.reference, exit_price |-> price,
         filled_pnl |-> filled, costs |-> commission + swap, cost |-> gross - filled,
         net |-> gross - (gross - filled) - p.commission - commission - swap]

ExitError(t) ==
    CASE t.exit_price <= 0 -> "price"
      [] t.exit_price > 0 /\ t.cost < 0 -> "improvement"
      [] OTHER -> IF portfolio.cash + t.filled_pnl - t.costs < 0 THEN "cash" ELSE "none"

WithoutPosition(t) ==
    [portfolio EXCEPT !.cash = @ + t.filled_pnl - t.costs,
                      !.realized = @ + t.filled_pnl - t.costs,
                      !.positions =
                          RemoveAt(@, CHOOSE i \in DOMAIN @ : @[i].signal = t.signal),
                      !.closed = Append(@, t)]

Marked(c) ==
    [portfolio EXCEPT !.positions =
        [i \in DOMAIN @ |-> IF @[i].symbol = c.symbol
                            THEN [@[i] EXCEPT !.mark = c.close, !.marked_at = c.open + 1]
                            ELSE @[i]]]

Abort(error) ==
    /\ outcome' = error
    /\ phase' = "stopped"
    /\ UNCHANGED <<events, cursor, bar, todo, schedule, pending, retained,
                   portfolio, exits, replay, report>>

-----------------------------------------------------------------------------
(* The report *)

(* TradeJournal: the trades by close time.  The code breaks ties by the    *)
(* random position id, the model by signal.                                *)
ClosesBefore(t, u) ==
    t.closed_at < u.closed_at \/ (t.closed_at = u.closed_at /\ t.signal < u.signal)
Journal(trades) ==
    [i \in 1..Cardinality(trades) |->
        CHOOSE t \in trades : Cardinality({u \in trades : ClosesBefore(u, t)}) = i - 1]

Net(t) == t.net
TotalNet(journal) == SumOver(Net, journal)
Commissions(positions) == SumOver(LAMBDA p : p.commission, positions)

(* One turn of the equity loop, and of the loop that counts losing trades. *)
Book(m, t) ==
    LET equity == m.equity + t.net
        peak   == IF equity > m.peak THEN equity ELSE m.peak
        losing == IF t.net < 0 THEN m.losing + 1 ELSE 0
    IN  [equity |-> equity, peak |-> peak, losing |-> losing,
         drawdown |-> IF peak - equity > m.drawdown THEN peak - equity ELSE m.drawdown,
         streak |-> IF losing > m.streak THEN losing ELSE m.streak]

BookedFrom(start, journal) ==
    LET booked[i \in 0..Len(journal)] ==
            IF i = 0 THEN start ELSE Book(booked[i - 1], journal[i])
    IN  booked[Len(journal)]

Opening == [equity |-> InitialCash, peak |-> InitialCash, losing |-> 0,
            drawdown |-> 0, streak |-> 0]

(* Mutant: the equity peak starts at zero instead of the initial cash.     *)
Metrics_PeakFromZero(journal) == BookedFrom([Opening EXCEPT !.peak = 0], journal)

(* calculate_performance_metrics: the longest losing streak and the        *)
(* high-water-mark drawdown.  The other counts and ratios are left out.    *)
Metrics(journal) == BookedFrom(Opening, journal)

Partitions == {"training", "validation", "test"}

(* The partition of the sample an order belongs to; samples in an embargo  *)
(* are excluded and may not be scheduled.                                  *)
PartitionOf(observed_at) ==
    CASE observed_at < ValidationBoundary -> "training"
      [] ValidationBoundary + Embargo <= observed_at /\ observed_at < TestBoundary ->
            "validation"
      [] observed_at >= TestBoundary + Embargo -> "test"
      [] OTHER -> "excluded"

ClosesOutside(t, partition) ==
    CASE partition = "training"   -> t.closed_at >= ValidationBoundary
      [] partition = "validation" -> \/ t.closed_at < ValidationBoundary
                                     \/ t.closed_at >= TestBoundary
      [] partition = "test"       -> t.closed_at < TestBoundary

PartitionTrades(partition) ==
    {t \in ToSet(portfolio.closed) :
        PartitionOf(schedule[t.signal].observed_at) = partition}

-----------------------------------------------------------------------------
Bars      == [symbol : Symbols, open : Nat, open_price : Int,
              high : Int, low : Int, close : Int]
Orders    == [symbol : Symbols, side : Sides, volume : Volumes, stop : Stops,
              target : Targets, observed_at : Nat, expires_at : Nat]
Positions == [signal : Nat, symbol : Symbols, side : Sides, volume : Nat \ {0},
              reference : Int, entry : Int, opened_at : Nat, commission : Nat,
              mark : Int, marked_at : Nat, stop : Stops, target : Targets, margin : Nat]
Trades    == [signal : Nat, symbol : Symbols, side : Sides, opened_at : Nat,
              closed_at : Nat, exit_reference : Int, exit_price : Int,
              filled_pnl : Int, costs : Int, cost : Int, net : Int]
Books     == [equity : Int, peak : Int, losing : Nat, drawdown : Int, streak : Nat]
Reasons   == {"GAP_STOP_LOSS", "GAP_TAKE_PROFIT", "STOP_LOSS", "TAKE_PROFIT"}
Errors    == {"price", "commission", "margin", "protection", "improvement", "cash",
              "pending", "positions", "reconcile", "partition", "reconstruct"}

(* The three uses of todo: orders to visit, positions to visit, nothing.   *)
TypeOK ==
    /\ events \in Seq(Symbols \X Nat)
    /\ cursor \in 0..Len(events)
    /\ bar \in Bars \cup {NoBar}
    /\ phase \in {"clock", "entries", "exits", "submit", "stopped"}
    /\ CASE phase = "entries" -> todo \in Seq(DOMAIN schedule)
         [] phase = "exits"   -> todo \in Seq(Positions)
         [] phase = "stopped" -> TRUE
         [] OTHER             -> todo = <<>>
    /\ schedule \in Seq(Orders)
    /\ {pending, retained} \subseteq Seq(DOMAIN schedule)
    /\ portfolio \in [cash : Int, realized : Int, positions : Seq(Positions),
                      closed : Seq(Trades)]
    /\ exits \in Seq([signal : DOMAIN schedule, reason : Reasons])
    /\ replay \in [expired : SUBSET DOMAIN schedule, rejected : SUBSET DOMAIN schedule]
    /\ report \in {NoReport} \cup [overall : Books, partitions : [Partitions -> Books]]
    /\ outcome \in {"running", "completed"} \cup Errors

-----------------------------------------------------------------------------
Init ==
    /\ \E slots \in Calendars : events = FromCandles(slots)
    /\ cursor = 0
    /\ bar = NoBar
    /\ phase = "clock"
    /\ todo = <<>>
    /\ schedule = <<>>
    /\ pending = <<>>
    /\ retained = <<>>
    /\ portfolio = [cash |-> InitialCash, realized |-> 0,
                    positions |-> <<>>, closed |-> <<>>]
    /\ exits = <<>>
    /\ replay = [expired |-> {}, rejected |-> {}]
    /\ report = NoReport
    /\ outcome = "running"

(* SimulationClock.advance, and the start of step's loop over the pending  *)
(* orders.  A candle's prices are read when its event is reached.          *)
AdvanceClock(c) ==
    /\ phase = "clock"
    /\ cursor < Len(events)
    /\ cursor' = cursor + 1
    /\ bar' = [symbol |-> events[cursor + 1][1], open |-> events[cursor + 1][2],
                open_price |-> c.open_price, high |-> c.high, low |-> c.low,
                close |-> c.close]
    /\ phase' = "entries"
    /\ todo' = pending
    /\ retained' = <<>>
    /\ exits' = <<>>
    /\ UNCHANGED <<events, schedule, pending, portfolio, replay, report, outcome>>

Visiting == phase = "entries" /\ todo # <<>>
Visited  == schedule[Head(todo)]
Eligible == Visited.symbol = bar.symbol /\ bar.open >= Visited.observed_at
Expired  == bar.open > Visited.expires_at

RetainOrder ==
    /\ Visiting
    /\ ~Eligible
    /\ retained' = Append(retained, Head(todo))
    /\ todo' = Tail(todo)
    /\ UNCHANGED <<events, cursor, bar, phase, schedule, pending, portfolio, exits,
                   replay, report, outcome>>

ExpireOrder ==
    /\ Visiting
    /\ Eligible
    /\ Expired
    /\ replay' = [replay EXCEPT !.expired = @ \cup {Head(todo)}]
    /\ todo' = Tail(todo)
    /\ UNCHANGED <<events, cursor, bar, phase, schedule, pending, retained, portfolio,
                   exits, report, outcome>>

(* The broker is asked with the free margin the previous order of the same *)
(* bar left.                                                               *)
Decision ==
    LET free == FreeMargin(portfolio)
    IN  FillDecision(Visited.volume, IF free > 0 THEN free ELSE 0)

(* Mutant: a rejected order is kept for the next candle as well.           *)
RejectOrder_Retains ==
    /\ Visiting
    /\ Eligible
    /\ ~Expired
    /\ Decision.filled = 0
    /\ replay' = [replay EXCEPT !.rejected = @ \cup {Head(todo)}]
    /\ retained' = Append(retained, Head(todo))
    /\ todo' = Tail(todo)
    /\ UNCHANGED <<events, cursor, bar, phase, schedule, pending, portfolio, exits,
                   report, outcome>>

RejectOrder ==
    /\ Visiting
    /\ Eligible
    /\ ~Expired
    /\ Decision.filled = 0
    /\ replay' = [replay EXCEPT !.rejected = @ \cup {Head(todo)}]
    /\ todo' = Tail(todo)
    /\ UNCHANGED <<events, cursor, bar, phase, schedule, pending, retained, portfolio,
                   exits, report, outcome>>

(* A fill at the open of the bar; an unfilled remainder is dropped.        *)
Entry == NewPosition(Head(todo), Visited, Decision.filled, Decision.margin, bar)

FillOrder ==
    /\ Visiting
    /\ Eligible
    /\ ~Expired
    /\ Decision.filled > 0
    /\ IF EntryError(Entry) = "none"
       THEN /\ portfolio' = WithPosition(Entry)
            /\ todo' = Tail(todo)
            /\ UNCHANGED <<events, cursor, bar, phase, schedule, pending, retained,
                           exits, replay, report, outcome>>
       ELSE Abort(EntryError(Entry))

(* The loop over the positions, those just opened included; it passes over *)
(* the ones of other symbols.                                              *)
StartExits ==
    /\ phase = "entries"
    /\ todo = <<>>
    /\ phase' = "exits"
    /\ todo' = portfolio.positions
    /\ UNCHANGED <<events, cursor, bar, schedule, pending, retained, portfolio, exits,
                   replay, report, outcome>>

Leaves(p) == p.symbol = bar.symbol /\ IntrabarExit(p, bar) # NoExit

KeepPosition ==
    /\ phase = "exits"
    /\ todo # <<>>
    /\ ~Leaves(Head(todo))
    /\ todo' = Tail(todo)
    /\ UNCHANGED <<events, cursor, bar, phase, schedule, pending, retained, portfolio,
                   exits, replay, report, outcome>>

ClosePosition ==
    /\ phase = "exits"
    /\ todo # <<>>
    /\ Leaves(Head(todo))
    /\ LET exit  == IntrabarExit(Head(todo), bar)
           trade == Trade(Head(todo), exit)
       IN  IF ExitError(trade) = "none"
           THEN /\ portfolio' = WithoutPosition(trade)
                /\ exits' = Append(exits, [signal |-> trade.signal, reason |-> exit.reason])
                /\ todo' = Tail(todo)
                /\ UNCHANGED <<events, cursor, bar, phase, schedule, pending, retained,
                               replay, report, outcome>>
           ELSE Abort(ExitError(trade))

(* The end of step: the mark at the close, which must be a price if there  *)
(* is a position to mark, and the pending orders left.                     *)
MarkToMarket ==
    /\ phase = "exits"
    /\ todo = <<>>
    /\ IF bar.close <= 0 /\ \E p \in ToSet(portfolio.positions) : p.symbol = bar.symbol
       THEN Abort("price")
       ELSE /\ portfolio' = Marked(bar)
            /\ pending' = retained
            /\ phase' = "submit"
            /\ UNCHANGED <<events, cursor, bar, todo, schedule, retained, exits, replay,
                           report, outcome>>

(* run_experiment submits an order anchored at the candle just replayed.   *)
SubmitOrder(side, volume, stop, target, lifetime) ==
    /\ phase = "submit"
    /\ Len(schedule) < MaxSignals
    /\ PartitionOf(bar.open + 1) # "excluded"
    /\ schedule' = Append(schedule,
                      [symbol |-> bar.symbol, side |-> side, volume |-> volume,
                       stop |-> stop, target |-> target, observed_at |-> bar.open + 1,
                       expires_at |-> bar.open + 1 + lifetime])
    /\ pending' = Append(pending, Len(schedule) + 1)
    /\ UNCHANGED <<events, cursor, bar, phase, todo, retained, portfolio, exits, replay,
                   report, outcome>>

NextEvent ==
    /\ phase = "submit"
    /\ phase' = "clock"
    /\ UNCHANGED <<events, cursor, bar, todo, schedule, pending, retained, portfolio,
                   exits, replay, report, outcome>>

(* The checks after the replay, in the order of the code, and the report.  *)
Finish ==
    /\ phase = "clock"
    /\ cursor = Len(events)
    /\ LET closed   == ToSet(portfolio.closed)
           journal  == Journal(closed)
           journals == [p \in Partitions |-> Journal(PartitionTrades(p))]
           combined == UNION {ToSet(journals[p]) : p \in Partitions}
       IN  IF pending # <<>> THEN Abort("pending")
           ELSE IF portfolio.positions # <<>> THEN Abort("positions")
           ELSE IF InitialCash + TotalNet(journal) # portfolio.cash THEN Abort("reconcile")
           ELSE IF \E p \in Partitions : \E t \in ToSet(journals[p]) : ClosesOutside(t, p)
                THEN Abort("partition")
           ELSE IF Journal(combined) # journal THEN Abort("reconstruct")
           ELSE /\ report' = [overall    |-> Metrics(journal),
                              partitions |-> [p \in Partitions |-> Metrics(journals[p])]]
                /\ outcome' = "completed"
                /\ phase' = "stopped"
                /\ UNCHANGED <<events, cursor, bar, todo, schedule, pending, retained,
                               portfolio, exits, replay>>

Next ==
    \/ \E c \in Candles : AdvanceClock(c)
    \/ RetainOrder
    \/ ExpireOrder
    \/ RejectOrder
    \/ FillOrder
    \/ StartExits
    \/ KeepPosition
    \/ ClosePosition
    \/ MarkToMarket
    \/ \E side \in Sides, v \in Volumes, s \in Stops, t \in Targets, l \in Lifetimes :
            SubmitOrder(side, v, s, t, l)
    \/ NextEvent
    \/ Finish

Spec == Init /\ [][Next]_vars

-----------------------------------------------------------------------------
Running == outcome = "running"

(* LedgerReconciles: at every point of the replay, in the middle of a step *)
(* too, the cash is the initial cash plus the net result of every closed   *)
(* trade minus the entry commissions of the positions still open, and the  *)
(* realized P&L is the change of the cash.  Cash is updated in two places  *)
(* (open_position, close_position) from filled prices, the trade's net     *)
(* result is computed from reference prices and costs.                     *)
LedgerReconciles ==
    /\ portfolio.cash = InitialCash + TotalNet(portfolio.closed)
                        - Commissions(portfolio.positions)
    /\ portfolio.realized = portfolio.cash - InitialCash

(* SignalHasOneFate: a scheduled signal is, at the end of every step, in   *)
(* exactly one of the books: pending, expired, rejected, open or closed.   *)
(* An order that is filled, refused or expired must not stay pending, and  *)
(* none may be lost while another symbol's candle is replayed.             *)
Fates(n) ==
    <<n \in ToSet(pending), n \in replay.expired, n \in replay.rejected,
      \E p \in ToSet(portfolio.positions) : p.signal = n,
      \E t \in ToSet(portfolio.closed) : t.signal = n>>
SignalHasOneFate ==
    phase \in {"clock", "submit"} =>
        \A n \in DOMAIN schedule : Cardinality({i \in 1..5 : Fates(n)[i]}) = 1

(* ProtectionIsHonoured: a candle that trades through the stop of a        *)
(* position of its symbol ends the position at the stop or at a worse      *)
(* price, whatever else the candle touched; a candle that only reaches the *)
(* target ends it at the target, never better; and no position survives a  *)
(* candle that touched one of its levels.                                  *)
ProtectionIsHonoured ==
    /\ \A e \in ToSet(exits) :
          LET order == schedule[e.signal]
              trade == CHOOSE t \in ToSet(portfolio.closed) : t.signal = e.signal
          IN  IF Lost(order.side, Worst(order.side, bar), order.stop)
                 /\ e.reason # "GAP_TAKE_PROFIT"
              THEN Lost(order.side, trade.exit_price, order.stop)
              ELSE /\ trade.exit_reference = order.target
                   /\ Lost(order.side, trade.exit_price, order.target)
    /\ phase = "submit" =>
          \A p \in ToSet(portfolio.positions) : p.symbol = bar.symbol =>
              /\ ~Lost(p.side, Worst(p.side, bar), p.stop)
              /\ ~Won(p.side, Best(p.side, bar), p.target)

(* ChecksAgree: the checks that repeat a computation made elsewhere never  *)
(* fire: an exit never improves on its reference price, the journal        *)
(* reconciles with the cash, the partition journals rebuild the whole      *)
(* journal, and what the broker model grants fits open_position's margin   *)
(* check.  The last has one exception, which the defaults allow: where a   *)
(* lot costs neither margin nor commission the broker model does not look  *)
(* at the free margin, and a negative one makes open_position raise.  (An  *)
(* entry commission above the cash, a protective price on the wrong side   *)
(* of a gapped entry, a loss above the cash, an order or a position left   *)
(* at the end and a trade closed in the next partition do end the          *)
(* experiment.)                                                            *)
LotsAreFree == MarginPerLot = 0 /\ CommissionPerLot = 0
ChecksAgree ==
    /\ outcome \notin {"improvement", "reconcile", "reconstruct"}
    /\ outcome = "margin" => LotsAreFree /\ FreeMargin(portfolio) < 0

(* ReportAgrees: the report of a completed experiment ends at the cash of  *)
(* the portfolio, its partitions add up to the whole, and its drawdown is  *)
(* the largest fall between two points of the equity curve.                *)
ReportAgrees ==
    outcome = "completed" =>
        LET journal   == Journal(ToSet(portfolio.closed))
            EquityAt(i) == InitialCash + TotalNet(SubSeq(journal, 1, i))
            Gain(m)   == m.equity - InitialCash
            parts     == report.partitions
        IN  /\ report.overall.equity = portfolio.cash
            /\ Gain(report.overall) = Gain(parts["training"]) + Gain(parts["validation"])
                                      + Gain(parts["test"])
            /\ \A i, j \in 0..Len(journal) :
                    i <= j => EquityAt(i) - EquityAt(j) <= report.overall.drawdown
            /\ \E i, j \in 0..Len(journal) :
                    i <= j /\ EquityAt(i) - EquityAt(j) = report.overall.drawdown

(* NoLookAhead: when the broker is asked for a fill at the open of a       *)
(* candle, no mark and no exit the portfolio holds is later than that      *)
(* open.  docs/06_TRADING_LOGIC.md requires a backtest without look-ahead  *)
(* bias.  With two symbols it does not hold: the candles of one interval   *)
(* are replayed one symbol after the other, so the entry of the second     *)
(* symbol at the open is sized with the first symbol's result at the       *)
(* close.                                                                  *)
NoLookAhead ==
    (Visiting /\ Eligible /\ ~Expired) =>
        /\ \A p \in ToSet(portfolio.positions) : p.marked_at <= bar.open
        /\ \A t \in ToSet(portfolio.closed) : t.closed_at <= bar.open
=============================================================================
