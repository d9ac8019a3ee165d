------------------------ MODULE BacktestEngineProofs ------------------------
(***************************************************************************)
(* One experiment, proved for every dataset, every price, cost model,      *)
(* volume grid and schedule of orders: types, the ledger, the fate of      *)
(* every signal, the protective exits, the checks the runner repeats and   *)
(* the report.                                                             *)
(*                                                                         *)
(* The last sections are about what an experiment is fed with: the batch   *)
(* of candles, the feature vectors and the walk-forward folds of the       *)
(* module Reference, none of which may look ahead.                         *)
(*                                                                         *)
(* The invariant says where the loops of one step stand: what is still to  *)
(* visit is waiting (entries) or open (exits), once; what has been visited *)
(* survived the candle; an open position still is what its order asked for *)
(* and its entry fill made of it.                                          *)
(***************************************************************************)
EXTENDS BacktestEngine, Reference, Sums, SequenceTheorems

-----------------------------------------------------------------------------
(* The inductive invariant *)

EachOnce(seq)       == \A i, j \in DOMAIN seq : seq[i] = seq[j] => i = j
EachSignalOnce(seq) == \A i, j \in DOMAIN seq : seq[i].signal = seq[j].signal => i = j
SignalsOf(seq)      == {seq[i].signal : i \in DOMAIN seq}

Opened == SignalsOf(portfolio.positions)
Closed == SignalsOf(portfolio.closed)

(* The orders not decided yet: the engine's pending orders, or, inside a   *)
(* step, the ones still to visit and the ones retained.                    *)
Waiting ==
  CASE phase = "entries" -> ToSet(todo) \cup ToSet(retained)
    [] phase = "exits"   -> ToSet(retained)
    [] OTHER             -> ToSet(pending)

WaitsOnce ==
  /\ phase = "entries" => /\ EachOnce(todo) /\ EachOnce(retained)
                          /\ ToSet(todo) \cap ToSet(retained) = {}
  /\ phase = "exits" => EachOnce(retained)
  /\ phase \in {"clock", "submit"} => EachOnce(pending)

ExactlyOne(a, b, c, d, e) ==
  /\ a \/ b \/ c \/ d \/ e
  /\ a => ~b /\ ~c /\ ~d /\ ~e
  /\ b => ~c /\ ~d /\ ~e
  /\ c => ~d /\ ~e
  /\ d => ~e

OneFateEach ==
  phase # "stopped" =>
    \A n \in DOMAIN schedule :
      ExactlyOne(n \in Waiting, n \in replay.expired, n \in replay.rejected,
                 n \in Opened, n \in Closed)

(* A position is what its order asked for and its entry fill made of it.   *)
FollowsOrder(p, orders) ==
  /\ p.signal \in DOMAIN orders
  /\ p.symbol = orders[p.signal].symbol
  /\ p.side = orders[p.signal].side
  /\ p.stop = orders[p.signal].stop
  /\ p.target = orders[p.signal].target
  /\ p.entry = FillPrice(p.reference, p.side)
  /\ p.commission = CommissionPerLot * p.volume

SoundBooks(pf, orders) ==
  /\ \A i \in DOMAIN pf.positions : FollowsOrder(pf.positions[i], orders)
  /\ \A i \in DOMAIN pf.closed : pf.closed[i].signal \in DOMAIN orders
  /\ EachSignalOnce(pf.positions)
  /\ EachSignalOnce(pf.closed)

BookSound == SoundBooks(portfolio, schedule)

(* The candle touched neither level of the position.                       *)
Stands(p, c) ==
  /\ ~Lost(p.side, Worst(p.side, c), p.stop)
  /\ ~Won(p.side, Best(p.side, c), p.target)

VisitSound ==
  /\ phase = "exits" =>
       /\ \A i \in DOMAIN todo : \E j \in DOMAIN portfolio.positions :
             portfolio.positions[j] = todo[i]
       /\ EachSignalOnce(todo)
       /\ \A j \in DOMAIN portfolio.positions :
             portfolio.positions[j].symbol = bar.symbol =>
                \/ \E i \in DOMAIN todo : todo[i] = portfolio.positions[j]
                \/ Stands(portfolio.positions[j], bar)
  /\ phase = "submit" =>
       \A j \in DOMAIN portfolio.positions :
          portfolio.positions[j].symbol = bar.symbol => Stands(portfolio.positions[j], bar)

(* What ProtectionIsHonoured says of an exit, its trade and its order.      *)
Honoured(e, t, order, c) ==
  IF Lost(order.side, Worst(order.side, c), order.stop) /\ e.reason # "GAP_TAKE_PROFIT"
  THEN Lost(order.side, t.exit_price, order.stop)
  ELSE /\ t.exit_reference = order.target
       /\ Lost(order.side, t.exit_price, order.target)

ExitsSound ==
  /\ phase = "entries" => exits = <<>>
  /\ \A i \in DOMAIN exits : \E k \in DOMAIN portfolio.closed :
        /\ portfolio.closed[k].signal = exits[i].signal
        /\ Honoured(exits[i], portfolio.closed[k], schedule[exits[i].signal], bar)

SplitSound ==
  \A n \in DOMAIN schedule : PartitionOf(schedule[n].observed_at) \in Partitions

(* An error that ends an experiment and is not of a check that only repeats *)
(* a computation, or is the one exception ChecksAgree makes.                *)
Justified(error) ==
  /\ error \notin {"improvement", "reconcile", "reconstruct"}
  /\ error = "margin" => LotsAreFree /\ FreeMargin(portfolio) < 0

InStep == phase \in {"entries", "exits", "submit"}

ControlSound ==
  /\ outcome = "running" <=> phase # "stopped"
  /\ InStep => /\ bar \in Bars
               /\ bar.low <= bar.open_price /\ bar.open_price <= bar.high

IInv ==
  /\ TypeOK
  /\ ControlSound
  /\ WaitsOnce
  /\ OneFateEach
  /\ BookSound
  /\ VisitSound
  /\ ExitsSound
  /\ SplitSound
  /\ LedgerReconciles
  /\ ChecksAgree
  /\ ReportAgrees
-----------------------------------------------------------------------------
(* Sequences *)

\* What is left of a sequence when its first element is taken.
LEMMA TakenFirst ==
  ASSUME NEW S, NEW s \in Seq(S), s # <<>>
  PROVE  /\ Head(s) \in S /\ Head(s) = s[1] /\ 1 \in DOMAIN s
         /\ Tail(s) \in Seq(S)
         /\ Len(s) \in Nat /\ Len(s) >= 1
         /\ DOMAIN s = 1..Len(s)
         /\ DOMAIN Tail(s) = 1..(Len(s) - 1)
         /\ \A i \in DOMAIN Tail(s) : i + 1 \in DOMAIN s /\ Tail(s)[i] = s[i + 1]
         /\ \A i \in DOMAIN s : i = 1 \/ i - 1 \in DOMAIN Tail(s)
  OBVIOUS

\* A sequence with one more element.
LEMMA Appended ==
  ASSUME NEW S, NEW s \in Seq(S), NEW x \in S
  PROVE  /\ Append(s, x) \in Seq(S)
         /\ Len(s) \in Nat
         /\ DOMAIN s = 1..Len(s)
         /\ DOMAIN Append(s, x) = 1..(Len(s) + 1)
         /\ Append(s, x)[Len(s) + 1] = x
         /\ \A i \in DOMAIN s : Append(s, x)[i] = s[i]
         /\ \A i \in DOMAIN Append(s, x) : i \in DOMAIN s \/ i = Len(s) + 1
         /\ Len(s) + 1 \notin DOMAIN s
  OBVIOUS

\* RemoveAt closes the gap the element leaves.
LEMMA Removed ==
  ASSUME NEW S, NEW s \in Seq(S), NEW k \in DOMAIN s
  PROVE  /\ RemoveAt(s, k) \in Seq(S)
         /\ Len(s) \in Nat
         /\ DOMAIN s = 1..Len(s)
         /\ DOMAIN RemoveAt(s, k) = 1..(Len(s) - 1)
         /\ \A i \in DOMAIN RemoveAt(s, k) :
               RemoveAt(s, k)[i] = IF i < k THEN s[i] ELSE s[i + 1]
<1> DEFINE a == SubSeq(s, 1, k - 1)
           b == SubSeq(s, k + 1, Len(s))
<1>0. k \in 1..Len(s) /\ Len(s) \in Nat /\ DOMAIN s = 1..Len(s)
  OBVIOUS
<1>1. a \in Seq(S) /\ Len(a) = k - 1 /\ \A i \in 1..(k - 1) : a[i] = s[i]
  BY <1>0
<1>2. b \in Seq(S) /\ Len(b) = Len(s) - k /\ \A i \in 1..(Len(s) - k) : b[i] = s[i + k]
  BY <1>0
<1>3. RemoveAt(s, k) = a \o b
  BY DEF RemoveAt
<1> HIDE DEF a, b
<1>4. /\ a \o b \in Seq(S)
      /\ Len(a \o b) = Len(s) - 1
  <2>1. a \o b \in Seq(S) /\ Len(a \o b) = Len(a) + Len(b)
    <3>1. a \in Seq(S) /\ b \in Seq(S)
      BY <1>1, <1>2
    <3>2. QED BY ONLY <3>1
  <2>2. Len(a) + Len(b) = Len(s) - 1
    BY <1>0, <1>1, <1>2
  <2>3. QED BY <2>1, <2>2
<1>5. ASSUME NEW i \in 1..(Len(s) - 1)
      PROVE  (a \o b)[i] = IF i < k THEN s[i] ELSE s[i + 1]
  <2>1. (a \o b)[i] = IF i <= Len(a) THEN a[i] ELSE b[i - Len(a)]
    <3>1. i \in 1..(Len(a) + Len(b))
      BY <1>0, <1>1, <1>2
    <3>2. a \in Seq(S) /\ b \in Seq(S)
      BY <1>1, <1>2
    <3>3. QED BY ONLY <3>1, <3>2
  <2>2. CASE i < k
    <3>1. i \in 1..(k - 1) /\ i <= Len(a)
      BY <1>0, <1>1, <2>2
    <3>2. QED BY <1>1, <2>1, <2>2, <3>1
  <2>3. CASE ~(i < k)
    <3>1. i - Len(a) \in 1..(Len(s) - k) /\ ~(i <= Len(a)) /\ i - Len(a) + k = i + 1
      BY <1>0, <1>1, <2>3
    <3>2. b[i - Len(a)] = s[i + 1]
      BY <1>2, <3>1
    <3>3. QED BY <2>1, <2>3, <3>1, <3>2
  <2>4. QED BY <2>2, <2>3
<1>6. DOMAIN (a \o b) = 1..(Len(s) - 1)
  BY <1>4
<1>7. \A i \in DOMAIN (a \o b) : (a \o b)[i] = IF i < k THEN s[i] ELSE s[i + 1]
  BY <1>5, <1>6
<1>8. QED BY <1>0, <1>3, <1>4, <1>6, <1>7

\* The elements of a sequence and what becomes of them.
LEMMA Elements ==
  ASSUME NEW S, NEW s \in Seq(S)
  PROVE  /\ ToSet(s) \subseteq S
         /\ \A x : x \in ToSet(s) <=> \E i \in DOMAIN s : s[i] = x
         /\ ToSet(<<>>) = {}
         /\ \A x \in S : ToSet(Append(s, x)) = ToSet(s) \cup {x}
         /\ s # <<>> => ToSet(s) = ToSet(Tail(s)) \cup {Head(s)}
<1>1. ASSUME NEW x \in S PROVE ToSet(Append(s, x)) = ToSet(s) \cup {x}
  BY Appended DEF ToSet
<1>2. ASSUME s # <<>> PROVE ToSet(s) = ToSet(Tail(s)) \cup {Head(s)}
  BY <1>2, TakenFirst DEF ToSet
<1>3. ToSet(s) \subseteq S /\ \A x : x \in ToSet(s) <=> \E i \in DOMAIN s : s[i] = x
  BY DEF ToSet
<1>4. ToSet(<<>>) = {}
  BY DEF ToSet
<1>5. QED BY <1>1, <1>2, <1>3, <1>4

\* In a sequence without repetition the first element is not in the rest.
LEMMA OnceTaken ==
  ASSUME NEW S, NEW s \in Seq(S), s # <<>>, EachOnce(s)
  PROVE  EachOnce(Tail(s)) /\ Head(s) \notin ToSet(Tail(s))
<1>1. EachOnce(Tail(s))
  <2> SUFFICES ASSUME NEW i \in DOMAIN Tail(s), NEW j \in DOMAIN Tail(s),
                      Tail(s)[i] = Tail(s)[j]
               PROVE  i = j
    BY DEF EachOnce
  <2>1. i + 1 = j + 1
    BY TakenFirst DEF EachOnce
  <2>2. i \in Nat /\ j \in Nat
    BY TakenFirst
  <2>3. QED BY <2>1, <2>2
<1>2. ASSUME NEW i \in DOMAIN Tail(s), Tail(s)[i] = Head(s) PROVE FALSE
  <2>1. i + 1 = 1
    BY <1>2, TakenFirst DEF EachOnce
  <2>2. i \in 1..(Len(s) - 1)
    BY TakenFirst
  <2>3. QED BY <2>1, <2>2
<1>3. QED BY <1>1, <1>2 DEF ToSet

\* A new element keeps a sequence without repetition.
LEMMA OnceAppended ==
  ASSUME NEW S, NEW s \in Seq(S), NEW x \in S, EachOnce(s), x \notin ToSet(s)
  PROVE  EachOnce(Append(s, x))
  BY Appended DEF EachOnce, ToSet

-----------------------------------------------------------------------------
(* Prices, volumes and amounts *)

\* The direction of a side is a sign, and the opposite side has the other one.
LEMMA SideFacts ==
  /\ \A side \in Sides : side = "BUY" \/ side = "SELL"
  /\ Direction("BUY") = 1 /\ Direction("SELL") = -1
  /\ Opposite("BUY") = "SELL" /\ Opposite("SELL") = "BUY"
  BY DEF Sides, Direction, Opposite

\* Fill prices are integers.
LEMMA FillPriceTyped ==
  ASSUME NEW price \in Int, NEW side \in Sides
  PROVE  FillPrice(price, side) \in Int
  BY CostAssumption, SideFacts DEF FillPrice, Sides

\* Rounding down to the grid: the volume granted is worth at most the capital
\* it is asked for.
LEMMA RoundedDown ==
  ASSUME NEW num \in Nat, NEW den \in Nat \ {0}
  PROVE  /\ RoundVolumeDown(num, den) \in Nat
         /\ RoundVolumeDown(num, den) * den <= num
<1> DEFINE rest == num - VolumeMin * den
           step == VolumeStep * den
           q    == rest \div step
<1>1. VolumeMin \in Nat \ {0} /\ VolumeStep \in Nat \ {0}
  BY GridAssumption
<1>2. VolumeMin * den \in Nat /\ step \in Nat \ {0} /\ rest \in Int
  <2>1. VolumeMin * den \in Nat /\ VolumeStep * den \in Nat
    BY <1>1
  <2>2. VolumeStep * den # 0
    BY <1>1
  <2>3. QED BY <2>1, <2>2
<1>3. CASE num < VolumeMin * den
  BY <1>3 DEF RoundVolumeDown
<1>4. CASE ~(num < VolumeMin * den)
  <2>1. rest \in Nat
    BY <1>2, <1>4
  <2>2. q \in Nat /\ q * step <= rest
    <3> HIDE DEF rest, step
    <3>1. QED BY <1>2, <2>1
  <2>3. RoundVolumeDown(num, den) = VolumeMin + q * VolumeStep
    BY <1>4 DEF RoundVolumeDown
  <2>4. (VolumeMin + q * VolumeStep) * den = VolumeMin * den + q * step
    <3> HIDE DEF q
    <3>1. QED BY <1>1, <2>2
  <2>5. VolumeMin + q * VolumeStep \in Nat
    <3> HIDE DEF q
    <3>1. QED BY <1>1, <2>2
  <2>6. VolumeMin * den + q * step <= num
    <3>1. q * step \in Int
      <4> HIDE DEF q, step
      <4>1. QED BY <1>2, <2>2
    <3>2. rest = num - VolumeMin * den
      OBVIOUS
    <3> HIDE DEF q, step, rest
    <3>3. QED BY <1>2, <2>2, <3>1, <3>2
  <2>7. QED BY <2>3, <2>4, <2>5, <2>6
<1>5. QED BY <1>3, <1>4

\* The volume the broker grants is affordable: its margin and its entry
\* commission together fit into the free margin.
LEMMA GrantIsAffordable ==
  ASSUME NEW requested \in Nat, NEW available \in Nat
  PROVE  LET grant == FillDecision(requested, available)
         IN  /\ grant.filled \in Nat /\ grant.margin \in Nat
             /\ grant.margin = MarginPerLot * grant.filled
             /\ grant.margin + CommissionPerLot * grant.filled <= available
<1> DEFINE capped  == Least(requested, Least(VolumeMax, LiquidityCap))
           capital == MarginPerLot + CommissionPerLot
           rounded == IF available < capital * capped
                      THEN RoundVolumeDown(available, capital)
                      ELSE RoundVolumeDown(capped, 1)
           filled  == IF rounded < requested /\ ~AllowPartial THEN 0 ELSE rounded
<1>1. capped \in Nat /\ capital \in Nat /\ MarginPerLot \in Nat /\ CommissionPerLot \in Nat
  BY GridAssumption, CostAssumption DEF Least
<1>2. rounded \in Nat /\ rounded * capital <= available
  <2> HIDE DEF capped, capital
  <2>1. CASE available < capital * capped
    <3>1. capital # 0
      BY <1>1, <2>1
    <3>2. RoundVolumeDown(available, capital) \in Nat
          /\ RoundVolumeDown(available, capital) * capital <= available
      BY <1>1, <3>1, RoundedDown
    <3>3. QED BY <2>1, <3>2
  <2>2. CASE ~(available < capital * capped)
    <3> DEFINE r == RoundVolumeDown(capped, 1)
    <3>1. r \in Nat /\ r * 1 <= capped
      BY <1>1, RoundedDown
    <3> HIDE DEF r
    <3>2. r * capital <= capped * capital
      BY <1>1, <3>1
    <3>3. r * capital <= available
      BY <1>1, <2>2, <3>1, <3>2
    <3>4. QED BY <2>2, <3>1, <3>3 DEF r
  <2>3. QED BY <2>1, <2>2
<1>3. filled \in Nat /\ filled * capital <= available
  <2> HIDE DEF rounded, capital
  <2>1. QED BY <1>1, <1>2
<1>4. FillDecision(requested, available) = [filled |-> filled, margin |-> MarginPerLot * filled]
  BY DEF FillDecision
<1>5. filled * capital = MarginPerLot * filled + CommissionPerLot * filled
  <2> HIDE DEF filled
  <2>1. QED BY <1>1, <1>3
<1>6. MarginPerLot * filled \in Nat
  <2> HIDE DEF filled
  <2>1. QED BY <1>1, <1>3
<1> HIDE DEF filled, capital
<1>7. QED BY <1>3, <1>4, <1>5, <1>6

\* The swap of a position is a natural number.
LEMMA SwapTyped ==
  ASSUME NEW volume \in Nat, NEW opened \in Nat, NEW closed \in Nat
  PROVE  SwapCost(volume, opened, closed) \in Nat
<1> DEFINE nights   == (opened \div BarsPerDay)..((closed \div BarsPerDay) - 1)
           weekdays == {d \in nights : d % 7 < 5}
           triple   == {d \in weekdays : d % 7 = TripleSwapWeekday}
<1>1. opened \div BarsPerDay \in Int /\ (closed \div BarsPerDay) - 1 \in Int
  BY CostAssumption
<1>2. IsFiniteSet(nights)
  BY <1>1, FS_Interval
<1>3. IsFiniteSet(weekdays) /\ IsFiniteSet(triple)
  <2>1. weekdays \in SUBSET nights /\ triple \in SUBSET nights
    OBVIOUS
  <2> HIDE DEF nights, weekdays, triple
  <2>2. QED BY <1>2, <2>1, FS_Subset
<1>4. Cardinality(weekdays) \in Nat /\ Cardinality(triple) \in Nat
  BY <1>3, FS_CardinalityType
<1>5. SwapCost(volume, opened, closed)
        = SwapPerLot * volume * (Cardinality(weekdays) + 2 * Cardinality(triple))
  BY DEF SwapCost
<1> HIDE DEF nights, weekdays, triple
<1>6. Cardinality(weekdays) + 2 * Cardinality(triple) \in Nat
  BY <1>4
<1>7. SwapPerLot * volume \in Nat
  BY CostAssumption
<1>8. SwapPerLot * volume * (Cardinality(weekdays) + 2 * Cardinality(triple)) \in Nat
  BY <1>6, <1>7
<1>9. QED BY <1>5, <1>8

-----------------------------------------------------------------------------
(* The sums of the books *)

\* A sum over a sequence of integers is an integer.
LEMMA SumTyped ==
  ASSUME NEW n \in Nat, NEW v, DOMAIN v = 1..n, \A i \in 1..n : v[i] \in Int
  PROVE  SumFunction(v) \in Int
<1>1. IsFiniteSet(1..n)
  BY FS_Interval
<1>2. SumFunctionOnSet(v, 1..n) \in Int
  BY <1>1, SumInt
<1>3. QED BY <1>2 DEF SumFunction

\* The total of a journal, and of a journal with one more trade.
LEMMA NetAppended ==
  ASSUME NEW s \in Seq(Trades)
  PROVE  /\ TotalNet(s) \in Int
         /\ \A t \in Trades : TotalNet(Append(s, t)) = TotalNet(s) + t.net
<1> DEFINE v == [i \in DOMAIN s |-> s[i].net]
<1>1. DOMAIN s = 1..Len(s) /\ Len(s) \in Nat
  OBVIOUS
<1>2. TotalNet(s) = SumFunction(v)
  BY DEF TotalNet, SumOver, Net
<1>3. ASSUME NEW x \in Trades PROVE x.net \in Int
  BY DEF Trades
<1>4. DOMAIN v = 1..Len(s) /\ \A i \in 1..Len(s) : v[i] \in Int
  BY <1>1, <1>3
<1>5. TotalNet(s) \in Int
  <2> HIDE DEF v
  <2>1. QED BY <1>1, <1>2, <1>4, SumTyped
<1>6. ASSUME NEW t \in Trades PROVE TotalNet(Append(s, t)) = TotalNet(s) + t.net
  <2> DEFINE w == [i \in DOMAIN Append(s, t) |-> Append(s, t)[i].net]
  <2>1. TotalNet(Append(s, t)) = SumFunction(w)
    BY DEF TotalNet, SumOver, Net
  <2>2. /\ DOMAIN w = 1..(Len(s) + 1)
        /\ \A i \in 1..Len(s) : w[i] = v[i]
        /\ w[Len(s) + 1] = t.net
    BY <1>1, Appended
  <2>3. t.net \in Int
    BY <1>3
  <2> HIDE DEF v, w
  <2>4. SumFunction(w) = SumFunction(v) + w[Len(s) + 1]
    BY <1>1, <1>4, <2>2, <2>3, SumAppended
  <2>5. QED BY <1>2, <2>1, <2>2, <2>4
<1>7. QED BY <1>5, <1>6

\* The entry commissions of the positions, with one more and with one less.
LEMMA CommissionsMove ==
  ASSUME NEW s \in Seq(Positions)
  PROVE  /\ Commissions(s) \in Int
         /\ \A p \in Positions : Commissions(Append(s, p)) = Commissions(s) + p.commission
         /\ \A k \in DOMAIN s :
               Commissions(RemoveAt(s, k)) = Commissions(s) - s[k].commission
<1> DEFINE v == [i \in DOMAIN s |-> s[i].commission]
<1>1. DOMAIN s = 1..Len(s) /\ Len(s) \in Nat
  OBVIOUS
<1>2. Commissions(s) = SumFunction(v)
  BY DEF Commissions, SumOver
<1>3. ASSUME NEW x \in Positions PROVE x.commission \in Int
  BY DEF Positions
<1>4. DOMAIN v = 1..Len(s) /\ \A i \in 1..Len(s) : v[i] \in Int
  BY <1>1, <1>3
<1>5. Commissions(s) \in Int
  <2> HIDE DEF v
  <2>1. QED BY <1>1, <1>2, <1>4, SumTyped
<1>6. ASSUME NEW p \in Positions
      PROVE  Commissions(Append(s, p)) = Commissions(s) + p.commission
  <2> DEFINE w == [i \in DOMAIN Append(s, p) |-> Append(s, p)[i].commission]
  <2>1. Commissions(Append(s, p)) = SumFunction(w)
    BY DEF Commissions, SumOver
  <2>2. /\ DOMAIN w = 1..(Len(s) + 1)
        /\ \A i \in 1..Len(s) : w[i] = v[i]
        /\ w[Len(s) + 1] = p.commission
    BY <1>1, Appended
  <2>3. p.commission \in Int
    BY <1>3
  <2> HIDE DEF v, w
  <2>4. SumFunction(w) = SumFunction(v) + w[Len(s) + 1]
    BY <1>1, <1>4, <2>2, <2>3, SumAppended
  <2>5. QED BY <1>2, <2>1, <2>2, <2>4
<1>7. ASSUME NEW k \in DOMAIN s
      PROVE  Commissions(RemoveAt(s, k)) = Commissions(s) - s[k].commission
  <2> DEFINE r == RemoveAt(s, k)
             w == [i \in DOMAIN r |-> r[i].commission]
  <2>1. Commissions(r) = SumFunction(w)
    BY DEF Commissions, SumOver
  <2>2. /\ DOMAIN r = 1..(Len(s) - 1)
        /\ \A i \in DOMAIN r : r[i] = IF i < k THEN s[i] ELSE s[i + 1]
    BY Removed
  <2> HIDE DEF r
  <2>3. k \in 1..Len(s)
    BY <1>1
  <2>4. \A i \in 1..(Len(s) - 1) : w[i] = IF i < k THEN v[i] ELSE v[i + 1]
    <3> TAKE i \in 1..(Len(s) - 1)
    <3>1. i \in DOMAIN s /\ i + 1 \in DOMAIN s
      BY <1>1
    <3>2. QED BY <2>2, <3>1
  <2>5. DOMAIN w = 1..(Len(s) - 1)
    BY <2>2
  <2>6. v[k] = s[k].commission
    OBVIOUS
  <2> HIDE DEF v, w
  <2>7. SumFunction(w) = SumFunction(v) - v[k]
    BY <1>1, <1>4, <2>3, <2>4, <2>5, SumShortened
  <2>8. QED BY <1>2, <2>1, <2>6, <2>7 DEF r
<1>8. QED BY <1>5, <1>6, <1>7

\* Positions with the same commissions have the same total.
LEMMA CommissionsKept ==
  ASSUME NEW s \in Seq(Positions), NEW r \in Seq(Positions), DOMAIN r = DOMAIN s,
         \A i \in DOMAIN s : r[i].commission = s[i].commission
  PROVE  Commissions(r) = Commissions(s)
<1>1. [i \in DOMAIN r |-> r[i].commission] = [i \in DOMAIN s |-> s[i].commission]
  OBVIOUS
<1>2. QED BY <1>1 DEF Commissions, SumOver

\* The equity and the free margin of a portfolio are integers.
LEMMA MarginTyped ==
  ASSUME NEW pf, pf.cash \in Int, pf.positions \in Seq(Positions)
  PROVE  FreeMargin(pf) \in Int
<1> DEFINE s == pf.positions
           u == [i \in DOMAIN s |-> UnrealizedPnl(s[i])]
           m == [i \in DOMAIN s |-> s[i].margin]
<1>1. DOMAIN s = 1..Len(s) /\ Len(s) \in Nat
  OBVIOUS
<1>2. ASSUME NEW p \in Positions PROVE UnrealizedPnl(p) \in Int /\ p.margin \in Int
  <2>1. /\ p.mark \in Int /\ p.entry \in Int /\ p.side \in Sides /\ p.volume \in Int
        /\ p.margin \in Int /\ TickValue \in Int
    BY CostAssumption DEF Positions
  <2>2. Direction(p.side) \in Int
    BY <2>1, SideFacts
  <2>3. (p.mark - p.entry) * Direction(p.side) \in Int
    BY <2>1, <2>2
  <2>4. (p.mark - p.entry) * Direction(p.side) * TickValue \in Int
    BY <2>1, <2>3
  <2>5. QED BY <2>1, <2>4 DEF UnrealizedPnl
<1>3. SumFunction(u) \in Int /\ SumFunction(m) \in Int
  <2>1. DOMAIN u = 1..Len(s) /\ \A i \in 1..Len(s) : u[i] \in Int
    BY <1>1, <1>2
  <2>2. DOMAIN m = 1..Len(s) /\ \A i \in 1..Len(s) : m[i] \in Int
    BY <1>1, <1>2
  <2> HIDE DEF u, m
  <2>3. QED BY <1>1, <2>1, <2>2, SumTyped
<1>4. FreeMargin(pf) = (pf.cash + SumFunction(u)) - SumFunction(m)
  BY DEF FreeMargin, Equity, MarginUsed, SumOver
<1> HIDE DEF u, m
<1>5. QED BY <1>3, <1>4

-----------------------------------------------------------------------------
(* Events, positions and trades *)

\* The replay visits every slot of the dataset once; its events are slots.
LEMMA EventsTyped ==
  ASSUME NEW slots \in Calendars
  PROVE  FromCandles(slots) \in Seq(Symbols \X Nat)
<1> DEFINE R == {e \in slots \X slots : Before(e[1], e[2])}
           n == Cardinality(slots)
<1>1. IsFiniteSet(slots) /\ slots \subseteq Symbols \X Nat /\ n \in Nat
  BY SlotAssumption, FS_CardinalityType
<1>2. ASSUME NEW a \in slots
      PROVE  a[1] \in Int /\ a[2] \in Int /\ a = <<a[1], a[2]>>
  <2>1. a \in Symbols \X Nat
    BY <1>1
  <2>2. a[1] \in Symbols /\ a[2] \in Nat /\ a = <<a[1], a[2]>>
    BY <2>1
  <2>3. Symbols \subseteq Nat
    BY SlotAssumption
  <2>4. QED BY ONLY <2>2, <2>3
<1>3. \A a, b \in slots : <<a, b>> \in R <=> Before(a, b)
  OBVIOUS
<1>4. StrictlyOrders(R, slots)
  <2>1. \A a, b \in slots : a = b \/ Before(a, b) \/ Before(b, a)
    BY <1>2 DEF Before
  <2>2. \A a \in slots : ~Before(a, a)
    BY <1>2 DEF Before
  <2>3. \A a, b, c \in slots : Before(a, b) /\ Before(b, c) => Before(a, c)
    BY <1>2 DEF Before
  <2> HIDE DEF R
  <2>4. QED BY <1>3, <2>1, <2>2, <2>3 DEF StrictlyOrders
<1>5. \A s \in slots : Preceding(R, slots, s) = {r \in slots : Before(r, s)}
  BY <1>3 DEF Preceding
<1>6. Sorts(FromCandles(slots), R, slots)
  <2>1. FromCandles(slots) = [i \in 1..n |-> FromCandles(slots)[i]]
    BY DEF FromCandles
  <2>2. ASSUME NEW i \in 1..n,
               \E s \in slots : Cardinality(Preceding(R, slots, s)) = i - 1
        PROVE  FromCandles(slots)[i] \in slots
               /\ Cardinality(Preceding(R, slots, FromCandles(slots)[i])) = i - 1
    <3> DEFINE c == CHOOSE s \in slots : Cardinality({r \in slots : Before(r, s)}) = i - 1
    <3>1. FromCandles(slots)[i] = c
      BY DEF FromCandles
    <3>2. \E s \in slots : Cardinality({r \in slots : Before(r, s)}) = i - 1
      <4> HIDE DEF R
      <4>1. QED BY <1>5, <2>2
    <3>3. c \in slots /\ Cardinality({r \in slots : Before(r, c)}) = i - 1
      BY <3>2
    <3> HIDE DEF c, R
    <3>4. QED BY <1>5, <3>1, <3>3
  <2> HIDE DEF R, n
  <2>3. QED BY <2>1, <2>2 DEF Sorts, n
<1>7. FromCandles(slots) \in Bijection(1..n, slots)
  <2> HIDE DEF R
  <2>1. QED BY <1>1, <1>4, <1>6, SortedOnce
<1>8. FromCandles(slots) \in [1..n -> Symbols \X Nat]
  BY <1>1, <1>7 DEF Bijection, Injection
<1> HIDE DEF n
<1>9. QED BY <1>1, <1>8

\* The four exits a candle can force.
LEMMA ExitTyped ==
  ASSUME NEW p \in Positions, NEW c \in Bars, IntrabarExit(p, c) # NoExit
  PROVE  /\ IntrabarExit(p, c).reason \in Reasons
         /\ IntrabarExit(p, c).reference \in Int
         /\ IntrabarExit(p, c).at \in Nat
<1>1. /\ c.open_price \in Int /\ c.open \in Nat /\ c.open + 1 \in Nat
      /\ p.stop \in Int /\ p.target \in Int
  BY OrderAssumption DEF Bars, Positions
<1> DEFINE left == IntrabarExit(p, c)
<1>2. \/ left = Exit("GAP_STOP_LOSS", c.open_price, c.open)
      \/ left = Exit("GAP_TAKE_PROFIT", p.target, c.open)
      \/ left = Exit("STOP_LOSS", p.stop, c.open + 1)
      \/ left = Exit("TAKE_PROFIT", p.target, c.open + 1)
  BY DEF IntrabarExit
<1> HIDE DEF left
<1>3. left.reason \in Reasons /\ left.reference \in Int /\ left.at \in Nat
  BY <1>1, <1>2 DEF Exit, Reasons
<1>4. QED BY <1>3 DEF left

\* The position an entry fill opens follows its order.
LEMMA EntryTyped ==
  ASSUME NEW n \in DOMAIN schedule, schedule \in Seq(Orders),
         NEW volume \in Nat \ {0}, NEW margin \in Nat, NEW c \in Bars
  PROVE  LET p == NewPosition(n, schedule[n], volume, margin, c)
         IN  /\ p \in Positions
             /\ p.signal = n
             /\ p.volume = volume
             /\ p.margin = margin
             /\ FollowsOrder(p, schedule)
<1> DEFINE order == schedule[n]
<1>1. /\ order \in Orders /\ order.side \in Sides /\ order.symbol \in Symbols
      /\ order.stop \in Stops /\ order.target \in Targets /\ n \in Nat
  <2>1. n \in 1..Len(schedule) /\ order \in Orders
    OBVIOUS
  <2> HIDE DEF order
  <2>2. QED BY <2>1 DEF Orders
<1>2. c.open_price \in Int /\ c.open \in Nat
  BY DEF Bars
<1>3. FillPrice(c.open_price, order.side) \in Int
  BY <1>1, <1>2, FillPriceTyped
<1>4. CommissionPerLot * volume \in Nat
  BY CostAssumption
<1> HIDE DEF order
<1>5. NewPosition(n, order, volume, margin, c) \in Positions
  BY <1>1, <1>2, <1>3, <1>4 DEF NewPosition, Positions
<1>6. QED BY <1>5 DEF NewPosition, FollowsOrder, order

\* The trade a position ends in: what it adds to the cash is its net result
\* plus the entry commission paid before, and spread and slippage cost money.
LEMMA TradeTyped ==
  ASSUME NEW p \in Positions, NEW exit, exit.reference \in Int, exit.at \in Nat
  PROVE  LET t == Trade(p, exit)
         IN  /\ t \in Trades
             /\ t.signal = p.signal
             /\ t.exit_reference = exit.reference
             /\ t.exit_price = FillPrice(exit.reference, Opposite(p.side))
             /\ t.net = t.filled_pnl - t.costs - p.commission
             /\ p.entry = FillPrice(p.reference, p.side) => t.cost >= 0
<1> DEFINE d      == Direction(p.side)
           size   == d * TickValue * p.volume
           price  == FillPrice(exit.reference, Opposite(p.side))
           gross  == (exit.reference - p.reference) * size
           filled == (price - p.entry) * size
           swap   == SwapCost(p.volume, p.opened_at, exit.at)
           commission == CommissionPerLot * p.volume
<1>1. /\ p.signal \in Nat /\ p.symbol \in Symbols /\ p.side \in Sides
      /\ p.volume \in Nat /\ p.reference \in Int /\ p.entry \in Int
      /\ p.opened_at \in Nat /\ p.commission \in Nat
  BY DEF Positions
<1>2. d \in Int /\ TickValue \in Nat /\ Adverse \in Nat /\ Opposite(p.side) \in Sides
  BY <1>1, SideFacts, CostAssumption DEF Sides
<1>3. size \in Int
  <2>1. d * TickValue \in Int
    BY <1>2
  <2> HIDE DEF d
  <2>2. QED BY <1>1, <2>1
<1>4. price \in Int
  BY <1>2, FillPriceTyped
<1>5. gross \in Int /\ filled \in Int
  <2> HIDE DEF size, price
  <2>1. QED BY <1>1, <1>3, <1>4
<1>6. swap \in Nat /\ commission \in Nat
  <2>1. swap \in Nat
    BY <1>1, SwapTyped
  <2>2. CommissionPerLot \in Nat
    BY CostAssumption
  <2>3. commission \in Nat
    BY <1>1, <2>2
  <2>4. QED BY <2>1, <2>3
<1> DEFINE t == [signal |-> p.signal, symbol |-> p.symbol, side |-> p.side,
                 opened_at |-> p.opened_at, closed_at |-> exit.at,
                 exit_reference |-> exit.reference, exit_price |-> price,
                 filled_pnl |-> filled, costs |-> commission + swap, cost |-> gross - filled,
                 net |-> gross - (gross - filled) - p.commission - commission - swap]
<1>7. Trade(p, exit) = t
  BY DEF Trade
<1>8. p.entry = FillPrice(p.reference, p.side) => gross - filled >= 0
  <2> SUFFICES ASSUME p.entry = FillPrice(p.reference, p.side)
               PROVE  gross - filled >= 0
    OBVIOUS
  <2> DEFINE a == TickValue * p.volume
             x == exit.reference - p.reference
             y == price - p.entry
  <2>1. a \in Nat /\ x \in Int /\ y \in Int
    BY <1>1, <1>2, <1>4
  <2>2. CASE p.side = "BUY"
    <3>1. d = 1 /\ Direction(Opposite(p.side)) = -1
      BY <2>2, SideFacts
    <3>2. size = a
      BY <1>1, <1>2, <3>1
    <3>3. y = x - 2 * Adverse
      BY <1>1, <1>2, <3>1 DEF FillPrice
    <3>4. gross = x * a /\ filled = y * a
      BY <3>2
    <3> HIDE DEF a, x, y, gross, filled
    <3>5. (x - 2 * Adverse) * a = x * a - (2 * Adverse) * a /\ (2 * Adverse) * a >= 0
      BY <1>2, <2>1
    <3>6. x * a \in Int /\ (2 * Adverse) * a \in Int
      BY <1>2, <2>1
    <3>7. QED BY <3>3, <3>4, <3>5, <3>6
  <2>3. CASE p.side = "SELL"
    <3>1. d = -1 /\ Direction(Opposite(p.side)) = 1
      BY <2>3, SideFacts
    <3>2. size = -a
      BY <1>1, <1>2, <3>1
    <3>3. y = x + 2 * Adverse
      BY <1>1, <1>2, <3>1 DEF FillPrice
    <3>4. gross = x * (-a) /\ filled = y * (-a)
      BY <3>2
    <3> HIDE DEF a, x, y, gross, filled
    <3>5. (x + 2 * Adverse) * (-a) = x * (-a) - (2 * Adverse) * a /\ (2 * Adverse) * a >= 0
      BY <1>2, <2>1
    <3>6. x * (-a) \in Int /\ (2 * Adverse) * a \in Int
      BY <1>2, <2>1
    <3>7. QED BY <3>3, <3>4, <3>5, <3>6
  <2>4. QED BY <1>1, <2>2, <2>3, SideFacts
<1> HIDE DEF size, price, gross, filled, swap, commission, d
<1>9. t \in Trades
  <2>1. /\ commission + swap \in Int /\ gross - filled \in Int
        /\ gross - (gross - filled) - p.commission - commission - swap \in Int
    BY <1>1, <1>5, <1>6
  <2>2. QED BY <1>1, <1>4, <1>5, <2>1 DEF Trades
<1>10. t.net = t.filled_pnl - t.costs - p.commission
  BY <1>1, <1>5, <1>6
<1>11. /\ t.signal = p.signal /\ t.exit_reference = exit.reference
       /\ t.exit_price = price /\ t.cost = gross - filled
  OBVIOUS
<1> HIDE DEF t
<1>12. QED BY <1>7, <1>8, <1>9, <1>10, <1>11 DEF price

-----------------------------------------------------------------------------
(* The equity curve *)

EquityAfter(journal, i) == InitialCash + TotalNet(SubSeq(journal, 1, i))

\* The equity starts at the initial cash and moves by the net result of each
\* trade.
LEMMA EquityMoves ==
  ASSUME NEW s \in Seq(Trades)
  PROVE  /\ EquityAfter(s, 0) = InitialCash
         /\ \A i \in 0..Len(s) : EquityAfter(s, i) \in Int
         /\ \A i \in 1..Len(s) : EquityAfter(s, i) = EquityAfter(s, i - 1) + s[i].net
         /\ EquityAfter(s, Len(s)) = InitialCash + TotalNet(s)
<1>0. InitialCash \in Int /\ Len(s) \in Nat
  BY CostAssumption
<1>1. SubSeq(s, 1, 0) = <<>> /\ SubSeq(s, 1, Len(s)) = s
  OBVIOUS
<1>2. TotalNet(<<>>) = 0
  <2>1. TotalNet(<<>>) = SumFunctionOnSet([i \in {} |-> Net(<<>>[i])], {})
    BY DEF TotalNet, SumOver, SumFunction
  <2>2. QED BY <2>1, SumEmpty
<1>3. ASSUME NEW i \in 0..Len(s)
      PROVE  SubSeq(s, 1, i) \in Seq(Trades) /\ TotalNet(SubSeq(s, 1, i)) \in Int
  <2>1. SubSeq(s, 1, i) \in Seq(Trades)
    BY <1>0
  <2>2. QED BY <2>1, NetAppended
<1>4. ASSUME NEW i \in 1..Len(s)
      PROVE  EquityAfter(s, i) = EquityAfter(s, i - 1) + s[i].net
  <2> DEFINE r == SubSeq(s, 1, i - 1)
  <2>1. i - 1 \in 0..Len(s) /\ s[i] \in Trades /\ s[i].net \in Int
    <3>1. i - 1 \in 0..Len(s) /\ s[i] \in Trades
      BY <1>0
    <3>2. QED BY <3>1 DEF Trades
  <2>2. r \in Seq(Trades) /\ TotalNet(r) \in Int
    BY <1>3, <2>1
  <2>3. SubSeq(s, 1, i) = Append(r, s[i])
    BY <1>0
  <2>4. TotalNet(SubSeq(s, 1, i)) = TotalNet(r) + s[i].net
    BY <2>1, <2>2, <2>3, NetAppended
  <2> HIDE DEF r
  <2>5. EquityAfter(s, i - 1) = InitialCash + TotalNet(r)
    BY DEF EquityAfter, r
  <2>6. QED BY <1>0, <2>1, <2>2, <2>4, <2>5 DEF EquityAfter
<1>5. \A i \in 0..Len(s) : EquityAfter(s, i) \in Int
  BY <1>0, <1>3 DEF EquityAfter
<1>6. EquityAfter(s, 0) = InitialCash /\ EquityAfter(s, Len(s)) = InitialCash + TotalNet(s)
  <2>1. EquityAfter(s, 0) = InitialCash + TotalNet(<<>>)
    BY <1>1, Zenon DEF EquityAfter
  <2>2. EquityAfter(s, Len(s)) = InitialCash + TotalNet(s)
    BY <1>1, Zenon DEF EquityAfter
  <2>3. QED BY <1>0, <1>2, <2>1, <2>2
<1>7. QED BY <1>4, <1>5, <1>6

\* g is the record of the loop: the state before the first trade and after
\* each of n trades.
Loop(g, journal, n) ==
  g = [i \in 0..n |-> IF i = 0 THEN Opening ELSE Book(g[i - 1], journal[i])]

\* The loop has a record, for every number of turns.
LEMMA LoopsEnd ==
  ASSUME NEW journal, NEW n \in Nat
  PROVE  \E g : Loop(g, journal, n)
<1> DEFINE Without == {m \in Nat : ~\E g : Loop(g, journal, m)}
<1>1. Without = {}
  <2> SUFFICES ASSUME Without # {} PROVE FALSE
    OBVIOUS
  <2>1. PICK m \in Without : \A k \in Without : m <= k
    BY LeastNumber
  <2>2. CASE m = 0
    <3>1. Loop([i \in 0..0 |-> Opening], journal, 0)
      BY DEF Loop
    <3>2. QED BY <2>1, <2>2, <3>1
  <2>3. CASE m # 0
    <3>1. m - 1 \in Nat /\ m - 1 \notin Without /\ m \in Nat
      BY <2>1, <2>3
    <3>2. PICK g : Loop(g, journal, m - 1)
      BY <3>1
    <3> DEFINE next(i) == Book(g[i - 1], journal[i])
               h == [i \in 0..m |-> IF i = 0 THEN Opening ELSE next(i)]
    <3>3. ASSUME NEW i \in 0..(m - 1) PROVE h[i] = g[i]
      <4>1. g[i] = IF i = 0 THEN Opening ELSE Book(g[i - 1], journal[i])
        BY <3>2 DEF Loop
      <4>2. i \in 0..m
        BY <3>1
      <4>3. QED BY <4>1, <4>2
    <3>4. \A i \in 0..m : i # 0 => next(i) = Book(h[i - 1], journal[i])
      <4> SUFFICES ASSUME NEW i \in 0..m, i # 0
                   PROVE  next(i) = Book(h[i - 1], journal[i])
        OBVIOUS
      <4>1. i - 1 \in 0..(m - 1)
        BY <3>1
      <4>2. h[i - 1] = g[i - 1]
        BY <3>3, <4>1
      <4> HIDE DEF h
      <4>3. QED BY <4>2
    <3>5. \A i \in 0..m : h[i] = IF i = 0 THEN Opening ELSE Book(h[i - 1], journal[i])
      <4>1. \A i \in 0..m : h[i] = IF i = 0 THEN Opening ELSE next(i)
        OBVIOUS
      <4> HIDE DEF h, next
      <4>2. QED BY <3>4, <4>1
    <3>6. DOMAIN h = 0..m /\ h = [i \in 0..m |-> h[i]]
      OBVIOUS
    <3>7. Loop(h, journal, m)
      <4> HIDE DEF h
      <4>1. QED BY <3>5, <3>6 DEF Loop
    <3>8. QED BY <2>1, <3>7
  <2>4. QED BY <2>2, <2>3
<1>2. QED BY <1>1

\* The metrics are the last entry of the record.
LEMMA MetricsAreLast ==
  ASSUME NEW journal, Len(journal) \in Nat
  PROVE  \E g : Loop(g, journal, Len(journal)) /\ Metrics(journal) = g[Len(journal)]
<1> DEFINE g == CHOOSE g : Loop(g, journal, Len(journal))
<1>1. Loop(g, journal, Len(journal))
  BY LoopsEnd
<1>2. Metrics(journal) = g[Len(journal)]
  BY DEF Metrics, BookedFrom, Loop
<1>3. QED BY <1>1, <1>2

(* What the loop has computed after i turns: the equity, the highest       *)
(* equity so far and the largest fall so far.                              *)
CurveAt(m, journal, i) ==
  /\ m \in Books
  /\ m.equity = EquityAfter(journal, i)
  /\ \A j \in 0..i : EquityAfter(journal, j) <= m.peak
  /\ \A j, k \in 0..i : j <= k =>
        EquityAfter(journal, j) - EquityAfter(journal, k) <= m.drawdown
  /\ \E j, k \in 0..i : j <= k
        /\ EquityAfter(journal, j) - EquityAfter(journal, k) = m.drawdown
  /\ \E j \in 0..i : EquityAfter(journal, j) = m.peak

\* One turn of the loop extends what it has computed by one trade.
LEMMA OneTurn ==
  ASSUME NEW s \in Seq(Trades), NEW i \in 1..Len(s), NEW m, CurveAt(m, s, i - 1)
  PROVE  CurveAt(Book(m, s[i]), s, i)
<1> DEFINE E(j)   == EquityAfter(s, j)
           equity == m.equity + s[i].net
           peak   == IF equity > m.peak THEN equity ELSE m.peak
           losing == IF s[i].net < 0 THEN m.losing + 1 ELSE 0
           fall   == IF peak - equity > m.drawdown THEN peak - equity ELSE m.drawdown
           streak == IF losing > m.streak THEN losing ELSE m.streak
           b      == [equity |-> equity, peak |-> peak, losing |-> losing,
                      drawdown |-> fall, streak |-> streak]
<1>0. i - 1 \in Nat /\ i \in Nat /\ Len(s) \in Nat /\ i <= Len(s) /\ 0..i = (0..(i - 1)) \cup {i}
  OBVIOUS
<1>1. /\ m.equity \in Int /\ m.peak \in Int /\ m.losing \in Nat
      /\ m.drawdown \in Int /\ m.streak \in Nat
  BY DEF CurveAt, Books
<1>2. s[i].net \in Int
  <2>1. s[i] \in Trades
    BY <1>0
  <2>2. QED BY <2>1 DEF Trades
<1>3. Book(m, s[i]) = b
  BY DEF Book
<1>4. equity \in Int /\ peak \in Int /\ losing \in Nat /\ fall \in Int /\ streak \in Nat
  BY <1>1, <1>2
<1>5. b \in Books
  <2> HIDE DEF equity, peak, losing, fall, streak
  <2>1. QED BY <1>4 DEF Books
<1>6. \A j \in 0..i : E(j) \in Int
  BY <1>0, EquityMoves
<1>7. equity = E(i)
  BY EquityMoves DEF CurveAt
<1>8. \A j \in 0..(i - 1) : E(j) <= m.peak
  BY DEF CurveAt
<1>9. PICK top \in 0..(i - 1) : E(top) = m.peak
  BY DEF CurveAt
<1>10. \A j, k \in 0..(i - 1) : j <= k => E(j) - E(k) <= m.drawdown
  BY DEF CurveAt
<1>11. PICK from \in 0..(i - 1), to \in 0..(i - 1) : from <= to /\ E(from) - E(to) = m.drawdown
  BY DEF CurveAt
<1> HIDE DEF E, equity
<1>12. \A j \in 0..i : E(j) <= peak
  BY <1>0, <1>1, <1>4, <1>6, <1>7, <1>8
<1>13. \E j \in 0..i : E(j) = peak
  BY <1>0, <1>7, <1>9
<1>14. \A j, k \in 0..i : j <= k => E(j) - E(k) <= fall
  <2> SUFFICES ASSUME NEW j \in 0..i, NEW k \in 0..i, j <= k PROVE E(j) - E(k) <= fall
    OBVIOUS
  <2>1. E(j) \in Int /\ E(k) \in Int
    BY <1>6
  <2>2. CASE k = i
    <3>1. E(j) <= peak /\ E(k) = equity
      BY <1>7, <1>12, <2>2
    <3> HIDE DEF peak
    <3>2. QED BY <1>1, <1>4, <2>1, <3>1
  <2>3. CASE k # i
    <3>1. j \in 0..(i - 1) /\ k \in 0..(i - 1)
      BY <1>0, <2>3
    <3>2. E(j) - E(k) <= m.drawdown
      BY <1>10, <3>1
    <3> HIDE DEF peak
    <3>3. QED BY <1>1, <1>4, <2>1, <3>2
  <2>4. QED BY <2>2, <2>3
<1>15. \E j, k \in 0..i : j <= k /\ E(j) - E(k) = fall
  <2>1. CASE peak - equity > m.drawdown
    <3>1. PICK j \in 0..i : E(j) = peak
      BY <1>13
    <3>2. j <= i /\ i \in 0..i
      BY <1>0
    <3>3. E(j) - E(i) = fall
      BY <1>7, <2>1, <3>1
    <3>4. QED BY <3>2, <3>3
  <2>2. CASE ~(peak - equity > m.drawdown)
    <3>1. from \in 0..i /\ to \in 0..i
      BY <1>0
    <3>2. E(from) - E(to) = fall
      BY <1>11, <2>2
    <3>3. QED BY <1>11, <3>1, <3>2
  <2>3. QED BY <2>1, <2>2
<1>16. /\ b.equity = E(i) /\ b.peak = peak /\ b.drawdown = fall
  BY <1>7
<1> HIDE DEF b, peak, fall
<1>17. CurveAt(b, s, i)
  BY <1>5, <1>12, <1>13, <1>14, <1>15, <1>16 DEF CurveAt, E
<1>18. QED BY <1>3, <1>17

\* The metrics of a journal describe its whole equity curve.
LEMMA MetricsDescribeCurve ==
  ASSUME NEW s \in Seq(Trades)
  PROVE  CurveAt(Metrics(s), s, Len(s))
<1>0. Len(s) \in Nat
  OBVIOUS
<1>1. PICK g : Loop(g, s, Len(s)) /\ Metrics(s) = g[Len(s)]
  BY <1>0, MetricsAreLast
<1> DEFINE Wrong == {i \in 0..Len(s) : ~CurveAt(g[i], s, i)}
<1>2. Wrong = {}
  <2> SUFFICES ASSUME Wrong # {} PROVE FALSE
    OBVIOUS
  <2>1. Wrong \subseteq Nat
    BY <1>0
  <2>2. PICK i \in Wrong : \A j \in Wrong : i <= j
    <3> HIDE DEF Wrong
    <3>1. QED BY <2>1, LeastNumber
  <2>3. i \in 0..Len(s) /\ ~CurveAt(g[i], s, i)
    BY <2>2
  <2>4. CASE i = 0
    <3>1. g[0] = Opening
      BY <1>0, <1>1 DEF Loop
    <3>2. /\ EquityAfter(s, 0) = InitialCash /\ InitialCash \in Int
          /\ \A j \in 0..0 : j = 0
      BY EquityMoves, CostAssumption
    <3>3. CurveAt(Opening, s, 0)
      BY <3>2 DEF CurveAt, Opening, Books
    <3>4. QED BY <2>3, <2>4, <3>1, <3>3
  <2>5. CASE i # 0
    <3>1. i \in 1..Len(s) /\ i - 1 \in 0..Len(s) /\ ~(i <= i - 1)
      BY <1>0, <2>3, <2>5
    <3>2. CurveAt(g[i - 1], s, i - 1)
      BY <2>2, <3>1
    <3>3. g[i] = Book(g[i - 1], s[i])
      BY <1>1, <2>3, <2>5 DEF Loop
    <3>4. QED BY <2>3, <3>1, <3>2, <3>3, OneTurn
  <2>6. QED BY <2>4, <2>5
<1>3. Len(s) \in 0..Len(s)
  BY <1>0
<1>4. QED BY <1>1, <1>2, <1>3

-----------------------------------------------------------------------------
(* The journal *)

NetOf(trades) == SumFunctionOnSet([t \in trades |-> t.net], trades)

\* A sequence that lists each trade of a set once has the set's total.
LEMMA ListedOnce ==
  ASSUME NEW C, C \subseteq Trades, NEW n \in Nat, NEW s \in Bijection(1..n, C)
  PROVE  /\ s \in Seq(Trades) /\ Len(s) = n /\ ToSet(s) = C /\ IsFiniteSet(C)
         /\ TotalNet(s) = NetOf(C)
<1>1. /\ s \in [1..n -> C]
      /\ \A t \in C : \E i \in 1..n : s[i] = t
  BY DEF Bijection, Injection, Surjection
<1>2. s \in Seq(Trades) /\ Len(s) = n /\ DOMAIN s = 1..n
  BY <1>1
<1>3. ToSet(s) = C
  BY <1>1, <1>2 DEF ToSet
<1>4. IsFiniteSet(1..n)
  BY FS_Interval
<1>5. IsFiniteSet(C)
  <2>1. s \in Surjection(1..n, C)
    BY DEF Bijection
  <2>2. QED BY ONLY <1>4, <2>1, FS_Surjection
<1> DEFINE f == [i \in DOMAIN s |-> s[i].net]
           g == [t \in C |-> t.net]
<1>6. \A i \in 1..n : f[i] \in Int /\ g[s[i]] = f[i]
  <2> TAKE i \in 1..n
  <2>1. s[i] \in C /\ s[i] \in Trades
    BY <1>1
  <2>2. s[i].net \in Int
    BY <2>1 DEF Trades
  <2>3. QED BY <1>2, <2>1, <2>2
<1>7. TotalNet(s) = SumFunctionOnSet(f, 1..n)
  BY <1>2 DEF TotalNet, SumOver, Net, SumFunction
<1>8. SumFunctionOnSet(f, 1..n) = SumFunctionOnSet(g, C)
  <2>1. s \in Bijection(1..n, C)
    OBVIOUS
  <2> HIDE DEF f, g
  <2>2. QED BY ONLY <1>4, <1>6, <2>1, SumRenamed
<1>9. QED BY <1>2, <1>3, <1>5, <1>7, <1>8 DEF NetOf

Signed(trades) == \A t, u \in trades : t.signal = u.signal => t = u

\* The journal of a finite set of trades of different signals lists each once.
LEMMA JournalListsOnce ==
  ASSUME NEW C, C \subseteq Trades, IsFiniteSet(C), Signed(C)
  PROVE  /\ Cardinality(C) \in Nat
         /\ Journal(C) \in Bijection(1..Cardinality(C), C)
<1> DEFINE R == {e \in C \X C : ClosesBefore(e[1], e[2])}
           n == Cardinality(C)
<1>1. n \in Nat
  BY FS_CardinalityType
<1>2. \A t \in C : t.closed_at \in Int /\ t.signal \in Int
  BY DEF Trades
<1>3. \A t, u \in C : <<t, u>> \in R <=> ClosesBefore(t, u)
  OBVIOUS
<1>4. StrictlyOrders(R, C)
  <2>1. \A t, u \in C : t = u \/ ClosesBefore(t, u) \/ ClosesBefore(u, t)
    BY <1>2 DEF ClosesBefore, Signed
  <2>2. \A t \in C : ~ClosesBefore(t, t)
    BY <1>2 DEF ClosesBefore
  <2>3. \A t, u, v \in C : ClosesBefore(t, u) /\ ClosesBefore(u, v) => ClosesBefore(t, v)
    BY <1>2 DEF ClosesBefore
  <2> HIDE DEF R
  <2>4. QED BY <1>3, <2>1, <2>2, <2>3 DEF StrictlyOrders
<1>5. \A t \in C : Preceding(R, C, t) = {u \in C : ClosesBefore(u, t)}
  BY <1>3 DEF Preceding
<1>6. Sorts(Journal(C), R, C)
  <2>1. Journal(C) = [i \in 1..n |-> Journal(C)[i]]
    <3> DEFINE place(i) ==
          CHOOSE t \in C : Cardinality({u \in C : ClosesBefore(u, t)}) = i - 1
    <3>1. Journal(C) = [i \in 1..n |-> place(i)]
      BY DEF Journal
    <3> HIDE DEF place
    <3>2. QED BY <3>1
  <2>2. ASSUME NEW i \in 1..n, \E t \in C : Cardinality(Preceding(R, C, t)) = i - 1
        PROVE  Journal(C)[i] \in C
               /\ Cardinality(Preceding(R, C, Journal(C)[i])) = i - 1
    <3> DEFINE c == CHOOSE t \in C : Cardinality({u \in C : ClosesBefore(u, t)}) = i - 1
    <3>1. Journal(C)[i] = c
      BY DEF Journal
    <3>2. \E t \in C : Cardinality({u \in C : ClosesBefore(u, t)}) = i - 1
      <4> HIDE DEF R
      <4>1. QED BY <1>5, <2>2
    <3>3. c \in C /\ Cardinality({u \in C : ClosesBefore(u, c)}) = i - 1
      BY <3>2
    <3> HIDE DEF c, R
    <3>4. QED BY <1>5, <3>1, <3>3
  <2> HIDE DEF R, n
  <2>3. QED BY <2>1, <2>2 DEF Sorts, n
<1> HIDE DEF R
<1>7. QED BY <1>1, <1>4, <1>6, SortedOnce

\* The journal's length, elements and total.
LEMMA JournalFacts ==
  ASSUME NEW C, C \subseteq Trades, IsFiniteSet(C), Signed(C)
  PROVE  /\ Journal(C) \in Seq(Trades) /\ ToSet(Journal(C)) = C
         /\ TotalNet(Journal(C)) = NetOf(C)
  BY JournalListsOnce, ListedOnce

\* The closed trades list each trade once.
LEMMA ClosedFacts ==
  ASSUME NEW s \in Seq(Trades), EachSignalOnce(s)
  PROVE  /\ ToSet(s) \subseteq Trades /\ IsFiniteSet(ToSet(s)) /\ Signed(ToSet(s))
         /\ TotalNet(s) = NetOf(ToSet(s))
<1>1. Len(s) \in Nat /\ DOMAIN s = 1..Len(s) /\ s \in [1..Len(s) -> Trades]
  OBVIOUS
<1>2. s \in Bijection(1..Len(s), ToSet(s))
  <2>1. s \in [1..Len(s) -> ToSet(s)]
    BY <1>1 DEF ToSet
  <2>2. \A i, j \in 1..Len(s) : s[i] = s[j] => i = j
    BY <1>1 DEF EachSignalOnce
  <2>3. \A t \in ToSet(s) : \E i \in 1..Len(s) : s[i] = t
    BY <1>1 DEF ToSet
  <2>4. QED BY <2>1, <2>2, <2>3 DEF Bijection, Injection, Surjection, IsInjective
<1>3. ToSet(s) \subseteq Trades
  BY <1>1 DEF ToSet
<1>4. Signed(ToSet(s))
  BY DEF Signed, ToSet, EachSignalOnce
<1>5. QED BY <1>1, <1>2, <1>3, <1>4, ListedOnce

\* The total of trades in two sets without a common trade.
LEMMA NetUnion ==
  ASSUME NEW C, C \subseteq Trades, IsFiniteSet(C), NEW D, D \subseteq Trades,
         IsFiniteSet(D), C \cap D = {}
  PROVE  /\ NetOf(C \cup D) = NetOf(C) + NetOf(D)
         /\ NetOf(C) \in Int /\ NetOf(D) \in Int
<1> DEFINE f == [t \in C |-> t.net]
           g == [t \in D |-> t.net]
           h == [t \in C \cup D |-> t.net]
<1>1. \A t \in C \cup D : h[t] \in Int
  BY DEF Trades
<1>2. SumFunctionOnSet(h, C \cup D) = SumFunctionOnSet(h, C) + SumFunctionOnSet(h, D)
  <2> HIDE DEF h
  <2>1. QED BY <1>1, SumUnion
<1>3. SumFunctionOnSet(h, C) = SumFunctionOnSet(f, C)
  <2>1. \A t \in C : h[t] = f[t]
    OBVIOUS
  <2> HIDE DEF h, f
  <2>2. QED BY <2>1, SumSame
<1>4. SumFunctionOnSet(h, D) = SumFunctionOnSet(g, D)
  <2>1. \A t \in D : h[t] = g[t]
    OBVIOUS
  <2> HIDE DEF h, g
  <2>2. QED BY <2>1, SumSame
<1>5. SumFunctionOnSet(h, C) \in Int /\ SumFunctionOnSet(h, D) \in Int
  <2> HIDE DEF h
  <2>1. QED BY <1>1, SumInt
<1>6. QED BY <1>2, <1>3, <1>4, <1>5 DEF NetOf

-----------------------------------------------------------------------------
(* The steps *)

\* A new experiment has no order, no position and the initial cash.
LEMMA InitInvariant == Init => IInv
<1> SUFFICES ASSUME Init PROVE IInv
  OBVIOUS
<1> USE DEF Init
<1>1. TypeOK
  <2>1. events \in Seq(Symbols \X Nat) /\ Len(events) \in Nat
    BY EventsTyped
  <2>2. InitialCash \in Int
    BY CostAssumption
  <2>3. portfolio \in [cash : Int, realized : Int, positions : Seq(Positions),
                       closed : Seq(Trades)]
    BY <2>2
  <2>4. QED BY <2>1, <2>3 DEF TypeOK
<1>2. ControlSound /\ ChecksAgree /\ ReportAgrees
  BY DEF ControlSound, InStep, ChecksAgree, Justified, ReportAgrees
<1>3. WaitsOnce /\ OneFateEach /\ SplitSound
  BY DEF WaitsOnce, EachOnce, OneFateEach, SplitSound
<1>4. BookSound /\ VisitSound /\ ExitsSound
  BY DEF BookSound, SoundBooks, EachSignalOnce, VisitSound, ExitsSound
<1>5. LedgerReconciles
  <2>1. TotalNet(<<>>) = 0 /\ Commissions(<<>>) = 0
    <3>1. /\ TotalNet(<<>>) = SumFunctionOnSet([i \in {} |-> Net(<<>>[i])], {})
          /\ Commissions(<<>>) = SumFunctionOnSet([i \in {} |-> <<>>[i].commission], {})
      BY DEF TotalNet, Commissions, SumOver, SumFunction
    <3>2. QED BY <3>1, SumEmpty
  <2>2. InitialCash \in Int
    BY CostAssumption
  <2>3. /\ portfolio.cash = InitialCash /\ portfolio.realized = 0
        /\ portfolio.closed = <<>> /\ portfolio.positions = <<>>
    OBVIOUS
  <2>4. /\ portfolio.cash = InitialCash + TotalNet(portfolio.closed)
                            - Commissions(portfolio.positions)
        /\ portfolio.realized = portfolio.cash - InitialCash
    BY <2>1, <2>2, <2>3
  <2>5. QED BY <2>4 DEF LedgerReconciles
<1>6. QED BY <1>1, <1>2, <1>3, <1>4, <1>5 DEF IInv

Balanced(pf) ==
  /\ pf.cash = InitialCash + TotalNet(pf.closed) - Commissions(pf.positions)
  /\ pf.realized = pf.cash - InitialCash

\* The ledger is a statement about the portfolio alone.
LEMMA LedgerIs ==
  /\ LedgerReconciles <=> Balanced(portfolio)
  /\ LedgerReconciles' <=> Balanced(portfolio')
<1>1. LedgerReconciles <=> Balanced(portfolio)
  BY DEF LedgerReconciles, Balanced
<1>2. LedgerReconciles' <=> Balanced(portfolio')
  BY DEF LedgerReconciles, Balanced
<1>3. QED BY <1>1, <1>2

\* A step that leaves the portfolio and the schedule leaves what is true of them.
LEMMA BooksKept ==
  ASSUME BookSound, LedgerReconciles, SplitSound,
         portfolio' = portfolio, schedule' = schedule
  PROVE  BookSound' /\ LedgerReconciles' /\ SplitSound'
         /\ Opened' = Opened /\ Closed' = Closed
<1>1. BookSound'
  BY DEF BookSound
<1>2. LedgerReconciles'
  BY LedgerIs, Zenon
<1>3. SplitSound'
  BY DEF SplitSound
<1>4. QED BY <1>1, <1>2, <1>3 DEF Opened, Closed

\* An experiment that stops with an error the code allows leaves its books.
LEMMA AbortStep ==
  ASSUME IInv, NEW error \in Errors, Justified(error), Abort(error)
  PROVE  IInv'
<1> USE DEF Abort
<1>1. TypeOK'
  BY DEF IInv, TypeOK
<1>2. ControlSound' /\ ChecksAgree' /\ ReportAgrees'
  BY DEF ControlSound, InStep, ChecksAgree, ReportAgrees, Justified, Errors
<1>3. WaitsOnce' /\ OneFateEach' /\ VisitSound'
  BY DEF IInv, WaitsOnce, OneFateEach, VisitSound
<1>4. BookSound' /\ LedgerReconciles' /\ SplitSound'
  BY BooksKept DEF IInv
<1>5. ExitsSound'
  BY DEF IInv, ExitsSound
<1>6. QED BY <1>1, <1>2, <1>3, <1>4, <1>5 DEF IInv

\* A running experiment that goes on running reports nothing yet.
LEMMA GoesOn ==
  ASSUME IInv, phase # "stopped", phase' # "stopped", outcome' = outcome
  PROVE  ChecksAgree' /\ ReportAgrees' /\ (outcome' = "running" <=> phase' # "stopped")
  BY DEF IInv, ControlSound, ChecksAgree, ReportAgrees

\* The clock moves on: the pending orders are the ones to visit.
LEMMA AdvanceStep ==
  ASSUME IInv, NEW c \in Candles, AdvanceClock(c)
  PROVE  IInv'
<1> USE DEF AdvanceClock
<1>1. /\ bar' \in Bars
      /\ bar'.low <= bar'.open_price /\ bar'.open_price <= bar'.high
  <2>1. events[cursor + 1] \in Symbols \X Nat
    BY DEF IInv, TypeOK
  <2>2. events[cursor + 1][1] \in Symbols /\ events[cursor + 1][2] \in Nat
    BY <2>1
  <2>3. /\ c.open_price \in Int /\ c.high \in Int /\ c.low \in Int /\ c.close \in Int
        /\ c.low <= c.open_price /\ c.open_price <= c.high
    BY CandleAssumption
  <2>4. QED BY <2>2, <2>3 DEF Bars
<1>2. TypeOK'
  <2>1. cursor' \in 0..Len(events) /\ todo' \in Seq(DOMAIN schedule)
    BY DEF IInv, TypeOK
  <2>2. QED BY <1>1, <2>1 DEF IInv, TypeOK
<1>3. ControlSound' /\ ChecksAgree' /\ ReportAgrees'
  BY <1>1, GoesOn DEF ControlSound, InStep
<1>4. WaitsOnce'
  BY DEF IInv, WaitsOnce, EachOnce, ToSet
<1>5. Waiting' = Waiting
  BY DEF Waiting, ToSet
<1>6. OneFateEach'
  BY <1>5 DEF IInv, OneFateEach, Opened, Closed
<1>7. BookSound' /\ LedgerReconciles' /\ SplitSound'
  BY BooksKept DEF IInv
<1>8. VisitSound' /\ ExitsSound'
  BY DEF VisitSound, ExitsSound
<1>9. QED BY <1>2, <1>3, <1>4, <1>6, <1>7, <1>8 DEF IInv

\* The order visited is waiting, once, and has no other fate yet.
LEMMA VisitedOrder ==
  ASSUME IInv, Visiting
  PROVE  LET n == Head(todo)
         IN  /\ todo \in Seq(DOMAIN schedule) /\ retained \in Seq(DOMAIN schedule)
             /\ n \in DOMAIN schedule /\ Tail(todo) \in Seq(DOMAIN schedule)
             /\ EachOnce(Tail(todo)) /\ EachOnce(retained)
             /\ n \notin ToSet(Tail(todo)) /\ n \notin ToSet(retained)
             /\ ToSet(Tail(todo)) \cap ToSet(retained) = {}
             /\ ToSet(todo) = ToSet(Tail(todo)) \cup {n}
             /\ Waiting = (ToSet(Tail(todo)) \cup ToSet(retained)) \cup {n}
             /\ n \notin replay.expired /\ n \notin replay.rejected
             /\ n \notin Opened /\ n \notin Closed
<1> DEFINE n == Head(todo)
<1>1. todo \in Seq(DOMAIN schedule) /\ retained \in Seq(DOMAIN schedule) /\ todo # <<>>
  BY DEF IInv, TypeOK, Visiting
<1>2. n \in DOMAIN schedule /\ Tail(todo) \in Seq(DOMAIN schedule)
  BY <1>1, TakenFirst
<1>3. /\ EachOnce(todo) /\ EachOnce(retained) /\ ToSet(todo) \cap ToSet(retained) = {}
      /\ Waiting = ToSet(todo) \cup ToSet(retained)
  BY DEF IInv, WaitsOnce, Waiting, Visiting
<1>4. EachOnce(Tail(todo)) /\ n \notin ToSet(Tail(todo))
  BY <1>1, <1>3, OnceTaken
<1>5. ToSet(todo) = ToSet(Tail(todo)) \cup {n}
  BY <1>1, Elements
<1>6. ExactlyOne(n \in Waiting, n \in replay.expired, n \in replay.rejected,
                 n \in Opened, n \in Closed)
  BY <1>2 DEF IInv, OneFateEach, Visiting
<1>7. n \in Waiting
  BY <1>3, <1>5
<1>8. n \notin replay.expired /\ n \notin replay.rejected /\ n \notin Opened /\ n \notin Closed
  BY <1>6, <1>7 DEF ExactlyOne
<1> HIDE DEF n
<1>9. QED BY <1>1, <1>2, <1>3, <1>4, <1>5, <1>8 DEF n

\* A visit inside the entries loop that leaves the portfolio.
LEMMA EntriesFrame ==
  ASSUME IInv, Visiting,
         UNCHANGED <<events, cursor, bar, phase, schedule, pending, portfolio, exits,
                     report, outcome>>
  PROVE  /\ ControlSound' /\ ChecksAgree' /\ ReportAgrees'
         /\ BookSound' /\ LedgerReconciles' /\ SplitSound'
         /\ VisitSound' /\ ExitsSound'
         /\ Opened' = Opened /\ Closed' = Closed
<1>1. ChecksAgree' /\ ReportAgrees'
  BY GoesOn DEF Visiting
<1>2. BookSound' /\ LedgerReconciles' /\ SplitSound' /\ Opened' = Opened /\ Closed' = Closed
  BY BooksKept DEF IInv
<1>3. VisitSound' /\ ExitsSound'
  BY DEF IInv, VisitSound, ExitsSound, Visiting
<1>4. ControlSound'
  BY DEF IInv, ControlSound, InStep
<1>5. QED BY <1>1, <1>2, <1>3, <1>4

\* An order for another symbol, or one for a later candle, stays pending.
LEMMA RetainStep == ASSUME IInv, RetainOrder PROVE IInv'
<1> USE DEF RetainOrder
<1> DEFINE n == Head(todo)
<1>1. Visiting
  OBVIOUS
<1>2. /\ todo \in Seq(DOMAIN schedule) /\ retained \in Seq(DOMAIN schedule)
      /\ n \in DOMAIN schedule /\ Tail(todo) \in Seq(DOMAIN schedule)
      /\ EachOnce(Tail(todo)) /\ EachOnce(retained)
      /\ n \notin ToSet(Tail(todo)) /\ n \notin ToSet(retained)
      /\ ToSet(Tail(todo)) \cap ToSet(retained) = {}
      /\ Waiting = (ToSet(Tail(todo)) \cup ToSet(retained)) \cup {n}
  BY <1>1, VisitedOrder
<1> HIDE DEF n
<1>3. /\ Append(retained, n) \in Seq(DOMAIN schedule)
      /\ EachOnce(Append(retained, n))
      /\ ToSet(Append(retained, n)) = ToSet(retained) \cup {n}
  <2>1. Append(retained, n) \in Seq(DOMAIN schedule)
    BY <1>2, Appended
  <2>2. EachOnce(Append(retained, n))
    BY <1>2, OnceAppended
  <2>3. ToSet(Append(retained, n)) = ToSet(retained) \cup {n}
    BY <1>2, Elements
  <2>4. QED BY <2>1, <2>2, <2>3
<1>4. retained' = Append(retained, n) /\ todo' = Tail(todo) /\ phase' = "entries"
      /\ phase = "entries"
  BY DEF n, Visiting
<1>5. TypeOK'
  BY <1>2, <1>3, <1>4 DEF IInv, TypeOK
<1>6. WaitsOnce'
  BY <1>2, <1>3, <1>4 DEF WaitsOnce
<1>7. Waiting' = Waiting
  BY <1>2, <1>3, <1>4 DEF Waiting
<1>8. /\ ControlSound' /\ ChecksAgree' /\ ReportAgrees'
      /\ BookSound' /\ LedgerReconciles' /\ SplitSound'
      /\ VisitSound' /\ ExitsSound'
      /\ Opened' = Opened /\ Closed' = Closed
  BY <1>1, EntriesFrame
<1>9. OneFateEach'
  BY <1>7, <1>8 DEF IInv, OneFateEach
<1>10. QED BY <1>5, <1>6, <1>8, <1>9 DEF IInv

\* An order past its expiry is expired and visited no more.
LEMMA ExpireStep == ASSUME IInv, ExpireOrder PROVE IInv'
<1> USE DEF ExpireOrder
<1> DEFINE n == Head(todo)
<1>1. Visiting
  OBVIOUS
<1>2. /\ todo \in Seq(DOMAIN schedule) /\ retained \in Seq(DOMAIN schedule)
      /\ n \in DOMAIN schedule /\ Tail(todo) \in Seq(DOMAIN schedule)
      /\ EachOnce(Tail(todo)) /\ EachOnce(retained)
      /\ n \notin ToSet(Tail(todo)) /\ n \notin ToSet(retained)
      /\ ToSet(Tail(todo)) \cap ToSet(retained) = {}
      /\ Waiting = (ToSet(Tail(todo)) \cup ToSet(retained)) \cup {n}
      /\ n \notin replay.expired /\ n \notin replay.rejected
      /\ n \notin Opened /\ n \notin Closed
  BY <1>1, VisitedOrder
<1>3. /\ replay \in [expired : SUBSET DOMAIN schedule, rejected : SUBSET DOMAIN schedule]
  BY DEF IInv, TypeOK
<1>4. /\ todo' = Tail(todo) /\ phase' = "entries" /\ phase = "entries"
      /\ retained' = retained /\ schedule' = schedule
      /\ replay' = [replay EXCEPT !.expired = @ \cup {n}]
  BY DEF Visiting
<1> HIDE DEF n
<1>5. /\ replay'.expired = replay.expired \cup {n} /\ replay'.rejected = replay.rejected
      /\ replay' \in [expired : SUBSET DOMAIN schedule, rejected : SUBSET DOMAIN schedule]
  BY <1>2, <1>3, <1>4
<1>6. TypeOK'
  BY <1>2, <1>4, <1>5 DEF IInv, TypeOK
<1>7. WaitsOnce'
  BY <1>2, <1>4 DEF WaitsOnce
<1>8. Waiting' = Waiting \ {n}
  BY <1>2, <1>4 DEF Waiting
<1>9. /\ ControlSound' /\ ChecksAgree' /\ ReportAgrees'
      /\ BookSound' /\ LedgerReconciles' /\ SplitSound'
      /\ VisitSound' /\ ExitsSound'
      /\ Opened' = Opened /\ Closed' = Closed
  BY <1>1, EntriesFrame
<1>10. OneFateEach'
  BY <1>2, <1>4, <1>5, <1>8, <1>9 DEF IInv, OneFateEach, ExactlyOne
<1>11. QED BY <1>6, <1>7, <1>9, <1>10 DEF IInv

\* An order the broker grants no volume is rejected and visited no more.
LEMMA RejectStep == ASSUME IInv, RejectOrder PROVE IInv'
<1> USE DEF RejectOrder
<1> DEFINE n == Head(todo)
<1>1. Visiting
  OBVIOUS
<1>2. /\ todo \in Seq(DOMAIN schedule) /\ retained \in Seq(DOMAIN schedule)
      /\ n \in DOMAIN schedule /\ Tail(todo) \in Seq(DOMAIN schedule)
      /\ EachOnce(Tail(todo)) /\ EachOnce(retained)
      /\ n \notin ToSet(Tail(todo)) /\ n \notin ToSet(retained)
      /\ ToSet(Tail(todo)) \cap ToSet(retained) = {}
      /\ Waiting = (ToSet(Tail(todo)) \cup ToSet(retained)) \cup {n}
      /\ n \notin replay.expired /\ n \notin replay.rejected
      /\ n \notin Opened /\ n \notin Closed
  BY <1>1, VisitedOrder
<1>3. /\ replay \in [expired : SUBSET DOMAIN schedule, rejected : SUBSET DOMAIN schedule]
  BY DEF IInv, TypeOK
<1>4. /\ todo' = Tail(todo) /\ phase' = "entries" /\ phase = "entries"
      /\ retained' = retained /\ schedule' = schedule
      /\ replay' = [replay EXCEPT !.rejected = @ \cup {n}]
  BY DEF Visiting
<1> HIDE DEF n
<1>5. /\ replay'.expired = replay.expired /\ replay'.rejected = replay.rejected \cup {n}
      /\ replay' \in [expired : SUBSET DOMAIN schedule, rejected : SUBSET DOMAIN schedule]
  BY <1>2, <1>3, <1>4
<1>6. TypeOK'
  <2>1. TypeOK /\ UNCHANGED <<events, cursor, bar, schedule, pending, portfolio, exits,
                              report, outcome>>
    BY DEF IInv
  <2>2. QED BY ONLY <1>2, <1>4, <1>5, <2>1 DEF TypeOK
<1>7. WaitsOnce'
  BY <1>2, <1>4 DEF WaitsOnce
<1>8. Waiting' = Waiting \ {n}
  BY <1>2, <1>4 DEF Waiting
<1>9. /\ ControlSound' /\ ChecksAgree' /\ ReportAgrees'
      /\ BookSound' /\ LedgerReconciles' /\ SplitSound'
      /\ VisitSound' /\ ExitsSound'
      /\ Opened' = Opened /\ Closed' = Closed
  BY <1>1, EntriesFrame
<1>10. OneFateEach'
  BY <1>2, <1>4, <1>5, <1>8, <1>9 DEF IInv, OneFateEach, ExactlyOne
<1>11. QED BY <1>6, <1>7, <1>9, <1>10 DEF IInv

\* The signals of a sequence with one more element.
LEMMA SignalsAppended ==
  ASSUME NEW S, NEW s \in Seq(S), NEW x \in S
  PROVE  /\ SignalsOf(Append(s, x)) = SignalsOf(s) \cup {x.signal}
         /\ EachSignalOnce(s) /\ x.signal \notin SignalsOf(s) => EachSignalOnce(Append(s, x))
<1>1. /\ DOMAIN s = 1..Len(s) /\ Len(s) \in Nat
      /\ DOMAIN Append(s, x) = 1..(Len(s) + 1)
      /\ Append(s, x)[Len(s) + 1] = x
      /\ \A i \in DOMAIN s : Append(s, x)[i] = s[i]
      /\ \A i \in DOMAIN Append(s, x) : i \in DOMAIN s \/ i = Len(s) + 1
      /\ Len(s) + 1 \notin DOMAIN s
  BY Appended
<1>2. \A i \in DOMAIN s : i \in DOMAIN Append(s, x)
  BY <1>1
<1>3. Len(s) + 1 \in DOMAIN Append(s, x)
  BY <1>1
<1> DEFINE r == Append(s, x)
           k == Len(s) + 1
<1> HIDE DEF r, k
<1>4. SignalsOf(r) = SignalsOf(s) \cup {x.signal}
  BY <1>1, <1>2, <1>3 DEF SignalsOf, r, k
<1>5. EachSignalOnce(s) /\ x.signal \notin SignalsOf(s) => EachSignalOnce(r)
  BY <1>1, <1>2, <1>3 DEF SignalsOf, EachSignalOnce, r, k
<1>6. QED BY <1>4, <1>5 DEF r

\* The position an order is filled with, and what open_position may refuse.
LEMMA EntryChecked ==
  ASSUME IInv, Visiting, Decision.filled > 0
  PROVE  /\ Entry \in Positions /\ Entry.signal = Head(todo) /\ FollowsOrder(Entry, schedule)
         /\ EntryError(Entry) # "none" =>
               EntryError(Entry) \in Errors /\ Justified(EntryError(Entry))
<1> DEFINE n    == Head(todo)
           free == FreeMargin(portfolio)
           available == IF free > 0 THEN free ELSE 0
<1>1. n \in DOMAIN schedule /\ schedule \in Seq(Orders)
  BY VisitedOrder DEF IInv, TypeOK
<1>2. Visited \in Orders
  BY <1>1 DEF Visited
<1>3. Visited.volume \in Nat
  <2>1. Visited.volume \in Volumes
    BY <1>2 DEF Orders
  <2>2. QED BY <2>1, OrderAssumption
<1>4. free \in Int
  <2>1. portfolio.cash \in Int /\ portfolio.positions \in Seq(Positions)
    BY DEF IInv, TypeOK
  <2>2. QED BY <2>1, MarginTyped
<1>5. available \in Nat
  <2> HIDE DEF free
  <2>1. QED BY <1>4
<1> DEFINE filled == Decision.filled
           margin == Decision.margin
<1>6. Decision = FillDecision(Visited.volume, available)
  BY DEF Decision
<1>7. /\ filled \in Nat /\ margin \in Nat /\ margin = MarginPerLot * filled
      /\ margin + CommissionPerLot * filled <= available
  <2> HIDE DEF available
  <2>1. QED BY <1>3, <1>5, <1>6, GrantIsAffordable
<1>8. filled \in Nat \ {0}
  <2>1. filled > 0
    OBVIOUS
  <2> HIDE DEF filled
  <2>2. QED BY <1>7, <2>1
<1>9. bar \in Bars
  BY DEF IInv, ControlSound, InStep, Visiting
<1>10. /\ Entry \in Positions /\ Entry.signal = n /\ Entry.volume = filled
       /\ Entry.margin = margin /\ FollowsOrder(Entry, schedule)
  <2> DEFINE p == NewPosition(n, schedule[n], filled, margin, bar)
  <2>1. Entry = p
    BY DEF Entry, Visited
  <2> HIDE DEF n, filled, margin, p
  <2>2. p \in Positions /\ p.signal = n /\ p.volume = filled /\ p.margin = margin
        /\ FollowsOrder(p, schedule)
    BY <1>1, <1>7, <1>8, <1>9, EntryTyped DEF p
  <2>3. QED BY <2>1, <2>2
<1>11. Entry.commission = CommissionPerLot * filled
  BY <1>10 DEF FollowsOrder
<1> HIDE DEF n, filled, margin
<1>12. EntryError(Entry) \in {"none", "price", "commission", "margin", "protection"}
  BY DEF EntryError
<1>13. EntryError(Entry) = "margin" => margin > free - CommissionPerLot * filled
  BY <1>10, <1>11 DEF EntryError
<1>14. EntryError(Entry) = "margin" => LotsAreFree /\ free < 0
  <2> SUFFICES ASSUME margin > free - CommissionPerLot * filled
               PROVE  LotsAreFree /\ free < 0
    BY <1>13
  <2>1. CommissionPerLot \in Nat /\ MarginPerLot \in Nat
    BY CostAssumption
  <2>2. CommissionPerLot * filled \in Nat /\ MarginPerLot * filled \in Nat
    BY <1>8, <2>1
  <2> DEFINE cost == CommissionPerLot * filled
  <2>3. cost \in Nat /\ margin + cost <= available /\ margin > free - cost
    BY <1>7, <2>2
  <2>4. free < 0 /\ margin = 0 /\ cost = 0
    <3> HIDE DEF cost
    <3>1. free <= 0 /\ available = 0
      <4>1. CASE free > 0
        <5>1. available = free
          BY <4>1
        <5> HIDE DEF free, available
        <5>2. QED BY <1>4, <1>7, <2>3, <5>1
      <4>2. CASE ~(free > 0)
        <5>1. available = 0
          BY <4>2
        <5> HIDE DEF free, available
        <5>2. QED BY <1>4, <4>2, <5>1
      <4>3. QED BY <4>1, <4>2
    <3> HIDE DEF free, available
    <3>2. QED BY <1>4, <1>7, <2>3, <3>1
  <2>5. \A a \in Nat, b \in Nat \ {0} : a * b = 0 => a = 0
    OBVIOUS
  <2>6. MarginPerLot = 0 /\ CommissionPerLot = 0
    BY <1>7, <1>8, <2>1, <2>4, <2>5
  <2>7. QED BY <2>4, <2>6 DEF LotsAreFree
<1>15. QED BY <1>10, <1>12, <1>14 DEF Errors, Justified, n

\* A filled order becomes an open position, or the experiment ends.
LEMMA FillStep == ASSUME IInv, FillOrder PROVE IInv'
<1> DEFINE n == Head(todo)
           p == Entry
<1>1. Visiting /\ Decision.filled > 0
  BY DEF FillOrder
<1>2. /\ p \in Positions /\ p.signal = n /\ FollowsOrder(p, schedule)
      /\ EntryError(p) # "none" => EntryError(p) \in Errors /\ Justified(EntryError(p))
  BY <1>1, EntryChecked
<1>3. CASE EntryError(p) # "none"
  <2>1. Abort(EntryError(p))
    BY <1>3 DEF FillOrder
  <2>2. QED BY <1>2, <1>3, <2>1, AbortStep
<1>4. CASE EntryError(p) = "none"
  <2>1. /\ portfolio' = WithPosition(p)
        /\ todo' = Tail(todo)
        /\ UNCHANGED <<events, cursor, bar, phase, schedule, pending, retained,
                       exits, replay, report, outcome>>
    BY <1>4 DEF FillOrder
  <2>2. /\ portfolio \in [cash : Int, realized : Int, positions : Seq(Positions),
                          closed : Seq(Trades)]
        /\ schedule \in Seq(Orders)
    BY DEF IInv, TypeOK
  <2>3. p.commission \in Int
    BY <1>2 DEF Positions
  <2> HIDE DEF p
  <2>4. /\ portfolio'.cash = portfolio.cash - p.commission
        /\ portfolio'.realized = portfolio.realized - p.commission
        /\ portfolio'.positions = Append(portfolio.positions, p)
        /\ portfolio'.closed = portfolio.closed
        /\ portfolio' \in [cash : Int, realized : Int, positions : Seq(Positions),
                           closed : Seq(Trades)]
    <3>1. Append(portfolio.positions, p) \in Seq(Positions)
      BY <1>2, <2>2, Appended
    <3>2. portfolio.cash - p.commission \in Int /\ portfolio.realized - p.commission \in Int
      BY <2>2, <2>3
    <3> DEFINE q == Append(portfolio.positions, p)
               c == portfolio.cash - p.commission
               r == portfolio.realized - p.commission
    <3>3. portfolio' = [portfolio EXCEPT !.cash = c, !.realized = r, !.positions = q]
      BY <2>1 DEF WithPosition
    <3> HIDE DEF q, c, r
    <3>4. /\ portfolio'.cash = c /\ portfolio'.realized = r /\ portfolio'.positions = q
          /\ portfolio'.closed = portfolio.closed
          /\ portfolio' \in [cash : Int, realized : Int, positions : Seq(Positions),
                             closed : Seq(Trades)]
      BY <2>2, <3>1, <3>2, <3>3 DEF q, c, r
    <3>5. QED BY <3>4 DEF q, c, r
  <2>5. /\ todo \in Seq(DOMAIN schedule)
        /\ n \in DOMAIN schedule /\ Tail(todo) \in Seq(DOMAIN schedule)
        /\ EachOnce(Tail(todo)) /\ EachOnce(retained)
        /\ n \notin ToSet(Tail(todo)) /\ n \notin ToSet(retained)
        /\ ToSet(Tail(todo)) \cap ToSet(retained) = {}
        /\ Waiting = (ToSet(Tail(todo)) \cup ToSet(retained)) \cup {n}
        /\ n \notin replay.expired /\ n \notin replay.rejected
        /\ n \notin Opened /\ n \notin Closed
    BY <1>1, VisitedOrder
  <2>6. phase = "entries" /\ phase' = "entries"
    BY <1>1, <2>1 DEF Visiting
  <2> HIDE DEF n
  <2>7. TypeOK'
    <3>1. TypeOK
      BY DEF IInv
    <3>2. QED BY ONLY <2>1, <2>4, <2>5, <2>6, <3>1 DEF TypeOK
  <2>8. ControlSound' /\ ChecksAgree' /\ ReportAgrees'
    <3>1. ChecksAgree' /\ ReportAgrees' /\ (outcome' = "running" <=> phase' # "stopped")
      BY <2>1, <2>6, GoesOn
    <3>2. QED BY <2>1, <2>6, <3>1 DEF IInv, ControlSound, InStep
  <2>9. WaitsOnce'
    BY <2>1, <2>5, <2>6 DEF WaitsOnce
  <2>10. Waiting' = Waiting \ {n}
    BY <2>1, <2>5, <2>6 DEF Waiting
  <2>11. Opened' = Opened \cup {n} /\ Closed' = Closed
         /\ EachSignalOnce(portfolio'.positions)
    <3>1. /\ SignalsOf(Append(portfolio.positions, p))
                = SignalsOf(portfolio.positions) \cup {p.signal}
          /\ EachSignalOnce(portfolio.positions)
             /\ p.signal \notin SignalsOf(portfolio.positions)
             => EachSignalOnce(Append(portfolio.positions, p))
      BY <1>2, <2>2, SignalsAppended
    <3>2. EachSignalOnce(portfolio.positions)
      BY DEF IInv, BookSound, SoundBooks
    <3>3. QED BY <1>2, <2>4, <2>5, <3>1, <3>2 DEF Opened, Closed
  <2>12. OneFateEach'
    BY <2>1, <2>5, <2>6, <2>10, <2>11 DEF IInv, OneFateEach, ExactlyOne
  <2>13. BookSound'
    <3>1. SoundBooks(portfolio, schedule)
      BY DEF IInv, BookSound
    <3>2. ASSUME NEW i \in DOMAIN portfolio'.positions
          PROVE  FollowsOrder(portfolio'.positions[i], schedule)
      BY <1>2, <2>2, <2>4, <3>1, Appended DEF SoundBooks
    <3>3. EachSignalOnce(portfolio.closed)
      BY <3>1 DEF SoundBooks
    <3>4. SoundBooks(portfolio', schedule)
      BY <2>4, <2>11, <3>1, <3>2, <3>3 DEF SoundBooks
    <3>5. QED BY <2>1, <3>4 DEF BookSound
  <2>14. VisitSound'
    BY <2>6 DEF VisitSound
  <2>15. ExitsSound'
    BY <2>1, <2>6 DEF IInv, ExitsSound
  <2>16. SplitSound'
    BY <2>1 DEF IInv, SplitSound
  <2>17. LedgerReconciles'
    <3>1. Balanced(portfolio)
      BY LedgerIs DEF IInv
    <3>2. TotalNet(portfolio.closed) \in Int
      BY <2>2, NetAppended
    <3>3. /\ Commissions(portfolio.positions) \in Int
          /\ Commissions(portfolio'.positions)
               = Commissions(portfolio.positions) + p.commission
      BY <1>2, <2>2, <2>4, CommissionsMove
    <3>4. portfolio.cash \in Int /\ portfolio.realized \in Int /\ InitialCash \in Int
      BY <2>2, CostAssumption
    <3>5. Balanced(portfolio')
      <4>1. TotalNet(portfolio'.closed) = TotalNet(portfolio.closed)
        BY <2>4
      <4>2. /\ portfolio.cash = InitialCash + TotalNet(portfolio.closed)
                                - Commissions(portfolio.positions)
            /\ portfolio.realized = portfolio.cash - InitialCash
        BY <3>1 DEF Balanced
      <4>3. /\ portfolio'.cash = portfolio.cash - p.commission
            /\ portfolio'.realized = portfolio.realized - p.commission
        BY <2>4
      <4>4. QED BY ONLY <2>3, <3>2, <3>3, <3>4, <4>1, <4>2, <4>3 DEF Balanced
    <3>6. QED BY <3>5, LedgerIs
  <2>18. QED BY <2>7, <2>8, <2>9, <2>12, <2>13, <2>14, <2>15, <2>16, <2>17 DEF IInv
<1>5. QED BY <1>3, <1>4

\* The orders visited, the loop over the positions starts.
LEMMA StartStep == ASSUME IInv, StartExits PROVE IInv'
<1> USE DEF StartExits
<1>1. /\ phase = "entries" /\ phase' = "exits" /\ todo = <<>>
      /\ todo' = portfolio.positions
  OBVIOUS
<1>2. TypeOK'
  <2>1. TypeOK /\ UNCHANGED <<events, cursor, bar, schedule, pending, retained, portfolio,
                              exits, replay, report, outcome>>
    BY DEF IInv
  <2>2. portfolio.positions \in Seq(Positions)
    BY <2>1 DEF TypeOK
  <2>3. QED BY ONLY <1>1, <2>1, <2>2 DEF TypeOK
<1>3. ControlSound' /\ ChecksAgree' /\ ReportAgrees'
  <2>1. ChecksAgree' /\ ReportAgrees' /\ (outcome' = "running" <=> phase' # "stopped")
    BY GoesOn
  <2>2. QED BY <2>1 DEF IInv, ControlSound, InStep
<1>4. BookSound' /\ LedgerReconciles' /\ SplitSound' /\ Opened' = Opened /\ Closed' = Closed
  BY BooksKept DEF IInv
<1>5. WaitsOnce'
  BY DEF IInv, WaitsOnce
<1>6. Waiting' = Waiting
  <2>1. ToSet(<<>>) = {}
    BY DEF ToSet
  <2>2. QED BY <2>1 DEF Waiting
<1>7. OneFateEach'
  BY <1>4, <1>6 DEF IInv, OneFateEach
<1>8. VisitSound'
  BY <1>1 DEF IInv, BookSound, SoundBooks, VisitSound
<1>9. ExitsSound'
  BY DEF IInv, ExitsSound
<1>10. QED BY <1>2, <1>3, <1>4, <1>5, <1>7, <1>8, <1>9 DEF IInv

\* The position visited is open, as its order asked, and is visited once.
LEMMA VisitedPosition ==
  ASSUME IInv, phase = "exits", todo # <<>>
  PROVE  LET p == Head(todo)
         IN  /\ p \in Positions /\ Tail(todo) \in Seq(Positions)
             /\ EachSignalOnce(Tail(todo))
             /\ \A i \in DOMAIN Tail(todo) :
                   /\ Tail(todo)[i].signal # p.signal
                   /\ \E j \in DOMAIN portfolio.positions :
                         portfolio.positions[j] = Tail(todo)[i]
             /\ \A i \in DOMAIN todo :
                   todo[i] = p \/ \E k \in DOMAIN Tail(todo) : Tail(todo)[k] = todo[i]
             /\ \E j \in DOMAIN portfolio.positions : portfolio.positions[j] = p
             /\ FollowsOrder(p, schedule)
<1> DEFINE p == Head(todo)
<1>1. todo \in Seq(Positions)
  BY DEF IInv, TypeOK
<1>2. /\ p \in Positions /\ p = todo[1] /\ 1 \in DOMAIN todo
      /\ Tail(todo) \in Seq(Positions)
      /\ Len(todo) \in Nat
      /\ DOMAIN Tail(todo) = 1..(Len(todo) - 1)
      /\ \A i \in DOMAIN Tail(todo) : i + 1 \in DOMAIN todo /\ Tail(todo)[i] = todo[i + 1]
      /\ \A i \in DOMAIN todo : i = 1 \/ i - 1 \in DOMAIN Tail(todo)
      /\ DOMAIN todo = 1..Len(todo)
  BY <1>1, TakenFirst
<1>3. /\ \A i \in DOMAIN todo : \E j \in DOMAIN portfolio.positions :
            portfolio.positions[j] = todo[i]
      /\ EachSignalOnce(todo)
  BY DEF IInv, VisitSound
<1> HIDE DEF p
<1>4. EachSignalOnce(Tail(todo))
  <2> SUFFICES ASSUME NEW i \in DOMAIN Tail(todo), NEW k \in DOMAIN Tail(todo),
                      Tail(todo)[i].signal = Tail(todo)[k].signal
               PROVE  i = k
    BY DEF EachSignalOnce
  <2>1. i + 1 = k + 1
    BY <1>2, <1>3 DEF EachSignalOnce
  <2>2. i \in Int /\ k \in Int
    BY <1>2
  <2>3. QED BY <2>1, <2>2
<1>5. ASSUME NEW i \in DOMAIN Tail(todo) PROVE Tail(todo)[i].signal # p.signal
  <2> SUFFICES ASSUME Tail(todo)[i].signal = p.signal PROVE FALSE
    OBVIOUS
  <2>1. i + 1 = 1
    BY <1>2, <1>3 DEF EachSignalOnce
  <2>2. i \in Int /\ i >= 1
    BY <1>2
  <2>3. QED BY <2>1, <2>2
<1>6. ASSUME NEW i \in DOMAIN Tail(todo)
      PROVE  \E j \in DOMAIN portfolio.positions : portfolio.positions[j] = Tail(todo)[i]
  BY <1>2, <1>3
<1>7. ASSUME NEW i \in DOMAIN todo
      PROVE  todo[i] = p \/ \E k \in DOMAIN Tail(todo) : Tail(todo)[k] = todo[i]
  <2>1. CASE i = 1
    BY <1>2, <2>1
  <2>2. CASE i # 1
    <3>1. i - 1 \in DOMAIN Tail(todo) /\ i \in Int
      BY <1>2, <2>2
    <3>2. Tail(todo)[i - 1] = todo[(i - 1) + 1] /\ (i - 1) + 1 = i
      BY <1>2, <3>1
    <3>3. QED BY <3>1, <3>2
  <2>3. QED BY <2>1, <2>2
<1>8. \E j \in DOMAIN portfolio.positions : portfolio.positions[j] = p
  BY <1>2, <1>3
<1>9. FollowsOrder(p, schedule)
  BY <1>8 DEF IInv, BookSound, SoundBooks
<1>10. QED BY <1>2, <1>4, <1>5, <1>6, <1>7, <1>8, <1>9 DEF p

\* A position whose candle leaves both its levels alone survives the visit.
LEMMA KeepStep == ASSUME IInv, KeepPosition PROVE IInv'
<1> USE DEF KeepPosition
<1> DEFINE p == Head(todo)
<1>1. phase = "exits" /\ phase' = "exits" /\ todo # <<>> /\ todo' = Tail(todo)
  OBVIOUS
<1>2. /\ p \in Positions /\ Tail(todo) \in Seq(Positions)
      /\ EachSignalOnce(Tail(todo))
      /\ \A i \in DOMAIN Tail(todo) : \E j \in DOMAIN portfolio.positions :
            portfolio.positions[j] = Tail(todo)[i]
      /\ \A i \in DOMAIN todo :
            todo[i] = p \/ \E k \in DOMAIN Tail(todo) : Tail(todo)[k] = todo[i]
  BY VisitedPosition
<1>3. p.symbol = bar.symbol => Stands(p, bar)
  <2> SUFFICES ASSUME IntrabarExit(p, bar) = NoExit PROVE Stands(p, bar)
    BY DEF Leaves
  <2>1. QED BY DEF IntrabarExit, NoExit, Exit, Stands
<1> HIDE DEF p
<1>4. TypeOK'
  <2>1. TypeOK /\ UNCHANGED <<events, cursor, bar, schedule, pending, retained, portfolio,
                              exits, replay, report, outcome>>
    BY DEF IInv
  <2>2. QED BY ONLY <1>1, <1>2, <2>1 DEF TypeOK
<1>5. ControlSound' /\ ChecksAgree' /\ ReportAgrees'
  <2>1. ChecksAgree' /\ ReportAgrees' /\ (outcome' = "running" <=> phase' # "stopped")
    BY GoesOn
  <2>2. QED BY <2>1 DEF IInv, ControlSound, InStep
<1>6. BookSound' /\ LedgerReconciles' /\ SplitSound' /\ Opened' = Opened /\ Closed' = Closed
  BY BooksKept DEF IInv
<1>7. WaitsOnce'
  BY DEF IInv, WaitsOnce
<1>8. Waiting' = Waiting
  BY DEF Waiting
<1>9. OneFateEach'
  BY <1>6, <1>8 DEF IInv, OneFateEach
<1>10. VisitSound'
  <2>1. ASSUME NEW j \in DOMAIN portfolio.positions,
               portfolio.positions[j].symbol = bar.symbol
        PROVE  \/ \E i \in DOMAIN Tail(todo) : Tail(todo)[i] = portfolio.positions[j]
               \/ Stands(portfolio.positions[j], bar)
    <3>1. \/ \E i \in DOMAIN todo : todo[i] = portfolio.positions[j]
          \/ Stands(portfolio.positions[j], bar)
      BY <2>1 DEF IInv, VisitSound
    <3>2. QED BY <1>2, <1>3, <2>1, <3>1
  <2>2. portfolio' = portfolio /\ bar' = bar
    OBVIOUS
  <2>3. QED BY ONLY <1>1, <1>2, <2>1, <2>2 DEF VisitSound
<1>11. ExitsSound'
  BY DEF IInv, ExitsSound
<1>12. QED BY <1>4, <1>5, <1>6, <1>7, <1>9, <1>10, <1>11 DEF IInv

\* The next event is due.
LEMMA NextStep == ASSUME IInv, NextEvent PROVE IInv'
<1> USE DEF NextEvent
<1>1. phase = "submit" /\ phase' = "clock"
  OBVIOUS
<1>2. TypeOK'
  <2>1. TypeOK /\ UNCHANGED <<events, cursor, bar, todo, schedule, pending, retained,
                              portfolio, exits, replay, report, outcome>>
    BY DEF IInv
  <2>2. QED BY ONLY <1>1, <2>1 DEF TypeOK
<1>3. ControlSound' /\ ChecksAgree' /\ ReportAgrees'
  <2>1. ChecksAgree' /\ ReportAgrees' /\ (outcome' = "running" <=> phase' # "stopped")
    BY GoesOn
  <2>2. QED BY <2>1 DEF ControlSound, InStep
<1>4. BookSound' /\ LedgerReconciles' /\ SplitSound' /\ Opened' = Opened /\ Closed' = Closed
  BY BooksKept DEF IInv
<1>5. WaitsOnce' /\ Waiting' = Waiting
  BY DEF IInv, WaitsOnce, Waiting
<1>6. OneFateEach'
  BY <1>4, <1>5 DEF IInv, OneFateEach
<1>7. VisitSound' /\ ExitsSound'
  BY DEF IInv, VisitSound, ExitsSound
<1>8. QED BY <1>2, <1>3, <1>4, <1>5, <1>6, <1>7 DEF IInv

\* What closing one position leaves of the others.
LEMMA OthersStay ==
  ASSUME NEW s \in Seq(Positions), EachSignalOnce(s), NEW k \in DOMAIN s
  PROVE  LET r == RemoveAt(s, k)
         IN  /\ r \in Seq(Positions) /\ EachSignalOnce(r)
             /\ \A i \in DOMAIN r : \E j \in DOMAIN s : j # k /\ r[i] = s[j]
             /\ \A j \in DOMAIN s : j # k => \E i \in DOMAIN r : r[i] = s[j]
             /\ SignalsOf(r) = SignalsOf(s) \ {s[k].signal}
<1> DEFINE r == RemoveAt(s, k)
           from(i) == IF i < k THEN i ELSE i + 1
<1>1. /\ r \in Seq(Positions) /\ Len(s) \in Nat /\ DOMAIN s = 1..Len(s)
      /\ DOMAIN r = 1..(Len(s) - 1)
      /\ \A i \in DOMAIN r : r[i] = IF i < k THEN s[i] ELSE s[i + 1]
  BY Removed
<1>2. \A i \in DOMAIN r : from(i) \in DOMAIN s /\ from(i) # k /\ r[i] = s[from(i)]
  <2> HIDE DEF r
  <2>1. QED BY <1>1
<1>3. \A i, j \in DOMAIN r : from(i) = from(j) => i = j
  <2> HIDE DEF r
  <2>1. QED BY <1>1
<1>4. \A j \in DOMAIN s : j # k => \E i \in DOMAIN r : from(i) = j
  <2> SUFFICES ASSUME NEW j \in DOMAIN s, j # k PROVE \E i \in DOMAIN r : from(i) = j
    OBVIOUS
  <2> HIDE DEF r
  <2>1. CASE j < k
    <3>1. j \in DOMAIN r /\ from(j) = j
      BY <1>1, <2>1
    <3>2. QED BY <3>1
  <2>2. CASE ~(j < k)
    <3>1. j - 1 \in DOMAIN r /\ from(j - 1) = j
      BY <1>1, <2>2
    <3>2. QED BY <3>1
  <2>3. QED BY <2>1, <2>2
<1> HIDE DEF r, from
<1>5. EachSignalOnce(r)
  BY <1>2, <1>3 DEF EachSignalOnce
<1>6. SignalsOf(r) = SignalsOf(s) \ {s[k].signal}
  <2>1. ASSUME NEW i \in DOMAIN r PROVE r[i].signal \in SignalsOf(s) \ {s[k].signal}
    BY <1>2 DEF SignalsOf, EachSignalOnce
  <2>2. ASSUME NEW j \in DOMAIN s, s[j].signal # s[k].signal
        PROVE  s[j].signal \in SignalsOf(r)
    BY <1>2, <1>4, <2>2 DEF SignalsOf
  <2>3. QED BY <2>1, <2>2 DEF SignalsOf
<1>7. \A j \in DOMAIN s : j # k => \E i \in DOMAIN r : r[i] = s[j]
  BY <1>2, <1>4
<1>8. \A i \in DOMAIN r : \E j \in DOMAIN s : j # k /\ r[i] = s[j]
  BY <1>2
<1>9. QED BY <1>1, <1>5, <1>6, <1>7, <1>8 DEF r

\* The exit a candle forces honours the levels: the stop when the candle traded
\* through it and did not open at the target, and otherwise the target, always
\* at the level or at a worse price.
LEMMA ExitHonours ==
  ASSUME NEW p \in Positions, NEW c \in Bars,
         c.low <= c.open_price, c.open_price <= c.high,
         IntrabarExit(p, c) # NoExit
  PROVE  LET exit  == IntrabarExit(p, c)
             price == FillPrice(exit.reference, Opposite(p.side))
         IN  IF Lost(p.side, Worst(p.side, c), p.stop)
                /\ exit.reason # "GAP_TAKE_PROFIT"
             THEN Lost(p.side, price, p.stop)
             ELSE exit.reference = p.target /\ Lost(p.side, price, p.target)
<1>1. /\ c.open_price \in Int /\ c.low \in Int /\ c.high \in Int
      /\ p.stop \in Int /\ p.target \in Int /\ Adverse \in Nat
      /\ p.side = "BUY" \/ p.side = "SELL"
  BY OrderAssumption, CostAssumption, SideFacts DEF Bars, Positions
<1> DEFINE exit  == IntrabarExit(p, c)
           price == FillPrice(exit.reference, Opposite(p.side))
           worst == Worst(p.side, c)
<1>2. ASSUME NEW ref \in Int, NEW level \in Int, Lost(p.side, ref, level)
      PROVE  Lost(p.side, FillPrice(ref, Opposite(p.side)), level)
  BY <1>1, <1>2, SideFacts DEF Lost, FillPrice
<1>3. ASSUME NEW ref \in Int PROVE Lost(p.side, ref, ref)
  BY <1>1, SideFacts DEF Lost
<1>4. Lost(p.side, c.open_price, p.stop) => Lost(p.side, worst, p.stop)
  BY <1>1, SideFacts DEF Lost, Worst
<1> DEFINE gap  == Lost(p.side, c.open_price, p.stop)
           lost == Lost(p.side, worst, p.stop)
<1>5. \/ gap /\ exit = Exit("GAP_STOP_LOSS", c.open_price, c.open)
      \/ exit = Exit("GAP_TAKE_PROFIT", p.target, c.open)
      \/ lost /\ exit = Exit("STOP_LOSS", p.stop, c.open + 1)
      \/ ~lost /\ exit = Exit("TAKE_PROFIT", p.target, c.open + 1)
  BY DEF IntrabarExit
<1> HIDE DEF exit, worst, gap, lost
<1>6. CASE gap /\ exit = Exit("GAP_STOP_LOSS", c.open_price, c.open)
  <2>1. exit.reason = "GAP_STOP_LOSS" /\ exit.reference = c.open_price
    BY <1>6 DEF Exit
  <2>2. lost /\ Lost(p.side, price, p.stop)
    BY <1>1, <1>2, <1>4, <1>6, <2>1 DEF gap, lost
  <2>3. QED BY <2>1, <2>2 DEF lost, exit, worst
<1>7. CASE exit = Exit("GAP_TAKE_PROFIT", p.target, c.open)
  <2>1. exit.reason = "GAP_TAKE_PROFIT" /\ exit.reference = p.target
    BY <1>7 DEF Exit
  <2>2. Lost(p.side, price, p.target)
    BY <1>1, <1>2, <1>3, <2>1
  <2>3. QED BY <2>1, <2>2 DEF lost, exit, worst
<1>8. CASE lost /\ exit = Exit("STOP_LOSS", p.stop, c.open + 1)
  <2>1. exit.reason = "STOP_LOSS" /\ exit.reference = p.stop
    BY <1>8 DEF Exit
  <2>2. Lost(p.side, price, p.stop)
    BY <1>1, <1>2, <1>3, <2>1
  <2>3. QED BY <1>8, <2>1, <2>2 DEF lost, exit, worst
<1>9. CASE ~lost /\ exit = Exit("TAKE_PROFIT", p.target, c.open + 1)
  <2>1. exit.reason = "TAKE_PROFIT" /\ exit.reference = p.target
    BY <1>9 DEF Exit
  <2>2. Lost(p.side, price, p.target)
    BY <1>1, <1>2, <1>3, <2>1
  <2>3. QED BY <1>9, <2>1, <2>2 DEF lost, exit, worst
<1>10. QED BY <1>5, <1>6, <1>7, <1>8, <1>9

\* The position visited becomes a closed trade with a recorded exit, or the
\* experiment ends.
LEMMA CloseStep == ASSUME IInv, ClosePosition PROVE IInv'
<1> DEFINE p     == Head(todo)
           left  == IntrabarExit(p, bar)
           trade == Trade(p, left)
           e     == [signal |-> trade.signal, reason |-> left.reason]
<1>1. phase = "exits" /\ todo # <<>> /\ Leaves(p)
  BY DEF ClosePosition
<1>2. bar \in Bars /\ bar.low <= bar.open_price /\ bar.open_price <= bar.high
  BY <1>1 DEF IInv, ControlSound, InStep
<1>3. /\ p \in Positions /\ Tail(todo) \in Seq(Positions)
      /\ EachSignalOnce(Tail(todo))
      /\ \A i \in DOMAIN Tail(todo) :
            /\ Tail(todo)[i].signal # p.signal
            /\ \E j \in DOMAIN portfolio.positions :
                  portfolio.positions[j] = Tail(todo)[i]
      /\ \A i \in DOMAIN todo :
            todo[i] = p \/ \E k \in DOMAIN Tail(todo) : Tail(todo)[k] = todo[i]
      /\ \E j \in DOMAIN portfolio.positions : portfolio.positions[j] = p
      /\ FollowsOrder(p, schedule)
  BY <1>1, VisitedPosition
<1>4. left # NoExit
  BY <1>1 DEF Leaves
<1> HIDE DEF p
<1>5. left.reason \in Reasons /\ left.reference \in Int /\ left.at \in Nat
  BY <1>2, <1>3, <1>4, ExitTyped
<1>6. IF Lost(p.side, Worst(p.side, bar), p.stop) /\ left.reason # "GAP_TAKE_PROFIT"
      THEN Lost(p.side, FillPrice(left.reference, Opposite(p.side)), p.stop)
      ELSE /\ left.reference = p.target
           /\ Lost(p.side, FillPrice(left.reference, Opposite(p.side)), p.target)
  BY <1>2, <1>3, <1>4, ExitHonours
<1> HIDE DEF left
<1>7. /\ trade \in Trades /\ trade.signal = p.signal
      /\ trade.exit_reference = left.reference
      /\ trade.exit_price = FillPrice(left.reference, Opposite(p.side))
      /\ trade.net = trade.filled_pnl - trade.costs - p.commission
      /\ trade.cost >= 0
  BY <1>3, <1>5, TradeTyped DEF FollowsOrder
<1>8. CASE ExitError(trade) # "none"
  <2>1. Abort(ExitError(trade))
    BY <1>8 DEF ClosePosition, p, left
  <2>2. trade.cost \in Int
    BY <1>7 DEF Trades
  <2> HIDE DEF trade
  <2>3. ExitError(trade) \in Errors /\ Justified(ExitError(trade))
    BY <1>7, <1>8, <2>2 DEF ExitError, Errors, Justified
  <2>4. QED BY <2>1, <2>3, AbortStep
<1>9. CASE ExitError(trade) = "none"
  <2>1. /\ portfolio' = WithoutPosition(trade)
        /\ exits' = Append(exits, e)
        /\ todo' = Tail(todo)
        /\ UNCHANGED <<events, cursor, bar, phase, schedule, pending, retained,
                       replay, report, outcome>>
    BY <1>9 DEF ClosePosition, p, left
  <2>2. /\ portfolio \in [cash : Int, realized : Int, positions : Seq(Positions),
                          closed : Seq(Trades)]
        /\ exits \in Seq([signal : DOMAIN schedule, reason : Reasons])
        /\ schedule \in Seq(Orders)
    BY DEF IInv, TypeOK
  <2> HIDE DEF trade
  <2>3. trade.filled_pnl \in Int /\ trade.costs \in Int /\ trade.net \in Int
        /\ p.commission \in Int
    BY <1>3, <1>7 DEF Trades, Positions
  <2>4. SoundBooks(portfolio, schedule)
    BY DEF IInv, BookSound
  <2> DEFINE s == portfolio.positions
             k == CHOOSE i \in DOMAIN s : s[i].signal = trade.signal
             r == RemoveAt(s, k)
             d == Append(portfolio.closed, trade)
             c == portfolio.cash + trade.filled_pnl - trade.costs
             z == portfolio.realized + trade.filled_pnl - trade.costs
  <2>5. k \in DOMAIN s /\ s[k] = p
    <3>1. \E i \in DOMAIN s : s[i].signal = trade.signal /\ s[i] = p
      BY <1>3, <1>7
    <3>2. k \in DOMAIN s /\ s[k].signal = trade.signal
      BY <3>1
    <3> HIDE DEF k
    <3>3. QED BY <2>4, <3>1, <3>2 DEF SoundBooks, EachSignalOnce
  <2>6. s \in Seq(Positions) /\ EachSignalOnce(s)
    BY <2>2, <2>4 DEF SoundBooks
  <2> HIDE DEF k
  <2>7. /\ r \in Seq(Positions) /\ EachSignalOnce(r)
        /\ \A i \in DOMAIN r : \E j \in DOMAIN s : j # k /\ r[i] = s[j]
        /\ \A j \in DOMAIN s : j # k => \E i \in DOMAIN r : r[i] = s[j]
        /\ SignalsOf(r) = SignalsOf(s) \ {p.signal}
    <3> HIDE DEF s
    <3>1. QED BY <2>5, <2>6, OthersStay
  <2>8. Commissions(r) = Commissions(s) - p.commission /\ Commissions(s) \in Int
    <3> HIDE DEF s
    <3>1. QED BY <2>5, <2>6, CommissionsMove
  <2>9. /\ d \in Seq(Trades)
        /\ TotalNet(d) = TotalNet(portfolio.closed) + trade.net
        /\ TotalNet(portfolio.closed) \in Int
        /\ Len(portfolio.closed) + 1 \in DOMAIN d /\ d[Len(portfolio.closed) + 1] = trade
        /\ \A i \in DOMAIN portfolio.closed : i \in DOMAIN d /\ d[i] = portfolio.closed[i]
        /\ \A i \in DOMAIN d : i \in DOMAIN portfolio.closed \/ d[i] = trade
    BY <1>7, <2>2, Appended, NetAppended
  <2>10. c \in Int /\ z \in Int
    BY <2>2, <2>3
  <2>11. portfolio' = [portfolio EXCEPT !.cash = c, !.realized = z, !.positions = r,
                                        !.closed = d]
    BY <2>1 DEF WithoutPosition, k
  <2>12. /\ portfolio'.cash = c /\ portfolio'.realized = z
         /\ portfolio'.positions = r /\ portfolio'.closed = d
         /\ portfolio' \in [cash : Int, realized : Int, positions : Seq(Positions),
                            closed : Seq(Trades)]
    <3> HIDE DEF r, d, c, z
    <3>1. QED BY <2>2, <2>7, <2>9, <2>10, <2>11
  <2>13. p.signal \in DOMAIN schedule /\ p.side = schedule[p.signal].side
         /\ p.stop = schedule[p.signal].stop /\ p.target = schedule[p.signal].target
    BY <1>3 DEF FollowsOrder
  <2>14. e \in [signal : DOMAIN schedule, reason : Reasons]
         /\ e.signal = p.signal /\ e.reason = left.reason
    BY <1>5, <1>7, <2>13
  <2> HIDE DEF e
  <2>15. /\ exits' \in Seq([signal : DOMAIN schedule, reason : Reasons])
         /\ \A i \in DOMAIN exits' : exits'[i] = e \/ (i \in DOMAIN exits /\ exits'[i] = exits[i])
    BY <2>1, <2>2, <2>14, Appended
  <2> HIDE DEF s, r, d, c, z
  <2>16. TypeOK'
    <3>1. TypeOK
      BY DEF IInv
    <3>2. QED BY ONLY <1>1, <1>3, <2>1, <2>12, <2>15, <3>1 DEF TypeOK
  <2>17. ControlSound' /\ ChecksAgree' /\ ReportAgrees'
    <3>1. phase' = phase /\ phase # "stopped"
      BY <1>1, <2>1
    <3>2. ChecksAgree' /\ ReportAgrees' /\ (outcome' = "running" <=> phase' # "stopped")
      BY <2>1, <3>1, GoesOn
    <3>3. QED BY <2>1, <3>1, <3>2 DEF IInv, ControlSound, InStep
  <2>18. WaitsOnce' /\ Waiting' = Waiting
    BY <1>1, <2>1 DEF IInv, WaitsOnce, Waiting
  <2>19. SignalsOf(d) = SignalsOf(portfolio.closed) \cup {p.signal}
    <3>1. portfolio.closed \in Seq(Trades)
      BY <2>2
    <3>2. QED BY <1>7, <3>1, SignalsAppended DEF d
  <2>20. Opened' = Opened \ {p.signal} /\ Closed' = Closed \cup {p.signal}
    BY <2>7, <2>12, <2>19 DEF Opened, Closed, s
  <2>21. p.signal \in Opened
    BY <2>5 DEF Opened, SignalsOf, s
  <2>22. p.signal \notin Closed
    BY <1>1, <2>13, <2>21 DEF IInv, OneFateEach, ExactlyOne
  <2>23. OneFateEach'
    BY <1>1, <2>1, <2>18, <2>20, <2>21 DEF IInv, OneFateEach, ExactlyOne
  <2>24. BookSound'
    <3>1. EachSignalOnce(d)
      <4>1. portfolio.closed \in Seq(Trades) /\ EachSignalOnce(portfolio.closed)
        BY <2>2, <2>4 DEF SoundBooks
      <4>2. trade.signal \notin SignalsOf(portfolio.closed)
        BY <1>7, <2>22 DEF Closed
      <4>3. QED BY <1>7, <4>1, <4>2, SignalsAppended DEF d
    <3>2. \A i \in DOMAIN d : d[i].signal \in DOMAIN schedule
      BY <1>7, <2>4, <2>9, <2>13 DEF SoundBooks
    <3>3. \A i \in DOMAIN r : FollowsOrder(r[i], schedule)
      BY <2>4, <2>7 DEF SoundBooks, s
    <3>4. SoundBooks(portfolio', schedule)
      BY <2>7, <2>12, <3>1, <3>2, <3>3 DEF SoundBooks
    <3>5. QED BY <2>1, <3>4 DEF BookSound
  <2>25. VisitSound'
    <3>1. ASSUME NEW i \in DOMAIN Tail(todo) PROVE \E j \in DOMAIN r : r[j] = Tail(todo)[i]
      <4>1. PICK j \in DOMAIN s : s[j] = Tail(todo)[i] /\ Tail(todo)[i].signal # p.signal
        BY <1>3 DEF s
      <4>2. j # k
        BY <2>5, <4>1
      <4>3. QED BY <2>7, <4>1, <4>2
    <3>2. ASSUME NEW j \in DOMAIN r, r[j].symbol = bar.symbol
          PROVE  \/ \E i \in DOMAIN Tail(todo) : Tail(todo)[i] = r[j]
                 \/ Stands(r[j], bar)
      <4>1. PICK m \in DOMAIN s : m # k /\ r[j] = s[m]
        BY <2>7
      <4>2. s[m] # p
        BY <2>5, <2>6, <4>1 DEF EachSignalOnce
      <4>3. (\E i \in DOMAIN todo : todo[i] = s[m]) \/ Stands(s[m], bar)
        BY <1>1, <3>2, <4>1 DEF IInv, VisitSound, s
      <4>4. QED BY <1>3, <4>1, <4>2, <4>3
    <3>3. QED BY <1>1, <1>3, <2>1, <2>12, <3>1, <3>2 DEF VisitSound
  <2>26. ExitsSound'
    <3>1. Honoured(e, trade, schedule[e.signal], bar)
      BY <1>6, <1>7, <2>13, <2>14 DEF Honoured
    <3>2. ASSUME NEW i \in DOMAIN exits'
          PROVE  \E j \in DOMAIN d :
                    /\ d[j].signal = exits'[i].signal
                    /\ Honoured(exits'[i], d[j], schedule[exits'[i].signal], bar)
      <4>1. CASE exits'[i] = e
        BY <1>7, <2>9, <2>14, <3>1, <4>1
      <4>2. CASE i \in DOMAIN exits /\ exits'[i] = exits[i]
        <5>1. PICK j \in DOMAIN portfolio.closed :
                 /\ portfolio.closed[j].signal = exits[i].signal
                 /\ Honoured(exits[i], portfolio.closed[j], schedule[exits[i].signal], bar)
          BY <4>2 DEF IInv, ExitsSound
        <5>2. j \in DOMAIN d /\ d[j] = portfolio.closed[j]
          BY <2>9
        <5>3. QED BY <4>2, <5>1, <5>2
      <4>3. QED BY <2>15, <4>1, <4>2
    <3>3. QED BY <1>1, <2>1, <2>12, <3>2 DEF ExitsSound
  <2>27. SplitSound'
    BY <2>1 DEF IInv, SplitSound
  <2>28. LedgerReconciles'
    <3>1. /\ portfolio.cash = InitialCash + TotalNet(portfolio.closed) - Commissions(s)
          /\ portfolio.realized = portfolio.cash - InitialCash
      BY LedgerIs DEF IInv, Balanced, s
    <3>2. portfolio.cash \in Int /\ portfolio.realized \in Int /\ InitialCash \in Int
      BY <2>2, CostAssumption
    <3>3. c = InitialCash + TotalNet(d) - Commissions(r) /\ z = c - InitialCash
      <4>1. /\ c = portfolio.cash + trade.filled_pnl - trade.costs
            /\ z = portfolio.realized + trade.filled_pnl - trade.costs
        BY DEF c, z
      <4>2. /\ trade.net = trade.filled_pnl - trade.costs - p.commission
            /\ Commissions(r) = Commissions(s) - p.commission
            /\ TotalNet(d) = TotalNet(portfolio.closed) + trade.net
            /\ Commissions(s) \in Int /\ TotalNet(portfolio.closed) \in Int
        BY <1>7, <2>8, <2>9
      <4>3. QED BY ONLY <2>3, <3>1, <3>2, <4>1, <4>2
    <3>4. Balanced(portfolio')
      BY <2>12, <3>3 DEF Balanced
    <3>5. QED BY <3>4, LedgerIs
  <2>29. QED BY <2>16, <2>17, <2>18, <2>23, <2>24, <2>25, <2>26, <2>27, <2>28 DEF IInv
<1>10. QED BY <1>8, <1>9

Marks(s, c) ==
  [i \in DOMAIN s |-> IF s[i].symbol = c.symbol
                     THEN [s[i] EXCEPT !.mark = c.close, !.marked_at = c.open + 1]
                     ELSE s[i]]

\* A mark changes nothing of a position but its mark.
LEMMA MarksKeepPositions ==
  ASSUME NEW s \in Seq(Positions), NEW c \in Bars
  PROVE  LET r == Marks(s, c)
         IN  /\ r \in Seq(Positions) /\ DOMAIN r = DOMAIN s
             /\ \A i \in DOMAIN s :
                   /\ r[i].signal = s[i].signal /\ r[i].symbol = s[i].symbol
                   /\ r[i].side = s[i].side /\ r[i].volume = s[i].volume
                   /\ r[i].reference = s[i].reference /\ r[i].entry = s[i].entry
                   /\ r[i].commission = s[i].commission
                   /\ r[i].stop = s[i].stop /\ r[i].target = s[i].target
<1> DEFINE remark(p) == [p EXCEPT !.mark = c.close, !.marked_at = c.open + 1]
           q(p) == IF p.symbol = c.symbol THEN remark(p) ELSE p
           r == [i \in DOMAIN s |-> q(s[i])]
<1>1. DOMAIN s = 1..Len(s) /\ Len(s) \in Nat /\ \A i \in DOMAIN s : s[i] \in Positions
  OBVIOUS
<1>2. c.close \in Int /\ c.open + 1 \in Nat
  BY DEF Bars
<1>3. ASSUME NEW p \in Positions
      PROVE  /\ q(p) \in Positions
             /\ q(p).signal = p.signal /\ q(p).symbol = p.symbol
             /\ q(p).side = p.side /\ q(p).volume = p.volume
             /\ q(p).reference = p.reference /\ q(p).entry = p.entry
             /\ q(p).commission = p.commission
             /\ q(p).stop = p.stop /\ q(p).target = p.target
  BY <1>2 DEF Positions
<1> HIDE DEF q
<1>4. DOMAIN r = DOMAIN s /\ \A i \in DOMAIN s : r[i] = q(s[i])
  OBVIOUS
<1>5. r \in Seq(Positions)
  <2>1. r \in [1..Len(s) -> Positions]
    BY <1>1, <1>3
  <2> HIDE DEF r
  <2>2. QED BY <1>1, <2>1
<1> HIDE DEF r
<1>6. \A i \in DOMAIN s :
         /\ r[i].signal = s[i].signal /\ r[i].symbol = s[i].symbol
         /\ r[i].side = s[i].side /\ r[i].volume = s[i].volume
         /\ r[i].reference = s[i].reference /\ r[i].entry = s[i].entry
         /\ r[i].commission = s[i].commission
         /\ r[i].stop = s[i].stop /\ r[i].target = s[i].target
  BY <1>1, <1>3, <1>4
<1>7. Marks(s, c) = r
  BY DEF Marks, r, q
<1>8. QED BY <1>4, <1>5, <1>6, <1>7

\* The end of step: the positions are marked, what was retained is pending.
LEMMA MarkStep == ASSUME IInv, MarkToMarket PROVE IInv'
<1>1. phase = "exits" /\ todo = <<>>
  BY DEF MarkToMarket
<1> DEFINE broke == bar.close <= 0
                    /\ \E p \in ToSet(portfolio.positions) : p.symbol = bar.symbol
<1>2. CASE broke
  <2>1. Abort("price")
    BY <1>2 DEF MarkToMarket
  <2>2. "price" \in Errors /\ Justified("price")
    BY DEF Errors, Justified
  <2>3. QED BY <2>1, <2>2, AbortStep
<1>3. CASE ~broke
  <2>1. /\ portfolio' = Marked(bar)
        /\ pending' = retained
        /\ phase' = "submit"
        /\ UNCHANGED <<events, cursor, bar, todo, schedule, retained, exits, replay,
                       report, outcome>>
    BY <1>3 DEF MarkToMarket
  <2>2. /\ portfolio \in [cash : Int, realized : Int, positions : Seq(Positions),
                          closed : Seq(Trades)]
        /\ retained \in Seq(DOMAIN schedule)
        /\ bar \in Bars
    BY <1>1 DEF IInv, TypeOK, ControlSound, InStep
  <2>3. SoundBooks(portfolio, schedule)
    BY DEF IInv, BookSound
  <2> DEFINE s == portfolio.positions
             r == Marks(s, bar)
  <2>4. s \in Seq(Positions)
    BY <2>2
  <2>5. portfolio' = [portfolio EXCEPT !.positions = r]
    BY <2>1 DEF Marked, Marks
  <2> HIDE DEF s
  <2>6. /\ r \in Seq(Positions) /\ DOMAIN r = DOMAIN s
        /\ \A i \in DOMAIN s :
              /\ r[i].signal = s[i].signal /\ r[i].symbol = s[i].symbol
              /\ r[i].side = s[i].side /\ r[i].volume = s[i].volume
              /\ r[i].reference = s[i].reference /\ r[i].entry = s[i].entry
              /\ r[i].commission = s[i].commission
              /\ r[i].stop = s[i].stop /\ r[i].target = s[i].target
    BY <2>2, <2>4, MarksKeepPositions
  <2> HIDE DEF r
  <2>7. /\ portfolio'.cash = portfolio.cash /\ portfolio'.realized = portfolio.realized
        /\ portfolio'.positions = r /\ portfolio'.closed = portfolio.closed
        /\ portfolio' \in [cash : Int, realized : Int, positions : Seq(Positions),
                           closed : Seq(Trades)]
    BY <2>2, <2>5, <2>6
  <2>8. TypeOK'
    <3>1. TypeOK
      BY DEF IInv
    <3>2. QED BY ONLY <1>1, <2>1, <2>2, <2>7, <3>1 DEF TypeOK
  <2>9. ControlSound' /\ ChecksAgree' /\ ReportAgrees'
    <3>1. phase' # "stopped" /\ phase # "stopped"
      BY <1>1, <2>1
    <3>2. ChecksAgree' /\ ReportAgrees' /\ (outcome' = "running" <=> phase' # "stopped")
      BY <2>1, <3>1, GoesOn
    <3>3. QED BY <1>1, <2>1, <3>2 DEF IInv, ControlSound, InStep
  <2>10. WaitsOnce' /\ Waiting' = Waiting
    BY <1>1, <2>1 DEF IInv, WaitsOnce, Waiting
  <2>11. Opened' = Opened /\ Closed' = Closed
    <3>1. SignalsOf(r) = SignalsOf(s)
      BY <2>6 DEF SignalsOf
    <3>2. QED BY <2>7, <3>1 DEF Opened, Closed, s
  <2>12. OneFateEach'
    BY <1>1, <2>1, <2>10, <2>11 DEF IInv, OneFateEach
  <2>13. BookSound'
    <3>1. \A i \in DOMAIN r : FollowsOrder(r[i], schedule)
      BY <2>3, <2>6 DEF SoundBooks, FollowsOrder, s
    <3>2. EachSignalOnce(r)
      BY <2>3, <2>6 DEF SoundBooks, EachSignalOnce, s
    <3>3. SoundBooks(portfolio', schedule)
      BY <2>3, <2>7, <3>1, <3>2 DEF SoundBooks
    <3>4. QED BY <2>1, <3>3 DEF BookSound
  <2>14. VisitSound'
    <3>1. ASSUME NEW j \in DOMAIN r, r[j].symbol = bar.symbol PROVE Stands(r[j], bar)
      <4>1. j \in DOMAIN s /\ s[j].symbol = bar.symbol
        BY <2>6, <3>1
      <4>2. Stands(s[j], bar)
        BY <1>1, <4>1 DEF IInv, VisitSound, s
      <4>3. QED BY <2>6, <4>1, <4>2 DEF Stands
    <3>2. QED BY <2>1, <2>7, <3>1 DEF VisitSound
  <2>15. ExitsSound' /\ SplitSound'
    BY <1>1, <2>1, <2>7 DEF IInv, ExitsSound, SplitSound
  <2>16. LedgerReconciles'
    <3>1. Commissions(r) = Commissions(s)
      BY <2>4, <2>6, CommissionsKept
    <3>2. Balanced(portfolio)
      BY LedgerIs DEF IInv
    <3>3. Balanced(portfolio')
      BY <2>7, <3>1, <3>2 DEF Balanced, s
    <3>4. QED BY <3>3, LedgerIs
  <2>17. QED BY <2>8, <2>9, <2>10, <2>12, <2>13, <2>14, <2>15, <2>16 DEF IInv
<1>4. QED BY <1>2, <1>3

\* A scheduled order joins the pending ones under a signal of its own.
LEMMA SubmitStep ==
  ASSUME IInv, NEW side \in Sides, NEW volume \in Volumes, NEW stop \in Stops,
         NEW target \in Targets, NEW lifetime \in Lifetimes,
         SubmitOrder(side, volume, stop, target, lifetime)
  PROVE  IInv'
<1> DEFINE n == Len(schedule) + 1
           order == [symbol |-> bar.symbol, side |-> side, volume |-> volume,
                     stop |-> stop, target |-> target, observed_at |-> bar.open + 1,
                     expires_at |-> bar.open + 1 + lifetime]
<1>1. /\ phase = "submit" /\ phase' = "submit"
      /\ PartitionOf(bar.open + 1) # "excluded"
      /\ schedule' = Append(schedule, order)
      /\ pending' = Append(pending, n)
      /\ UNCHANGED <<events, cursor, bar, phase, todo, retained, portfolio, exits, replay,
                     report, outcome>>
  BY DEF SubmitOrder
<1>2. /\ schedule \in Seq(Orders) /\ pending \in Seq(DOMAIN schedule)
      /\ retained \in Seq(DOMAIN schedule)
      /\ exits \in Seq([signal : DOMAIN schedule, reason : Reasons])
      /\ replay \in [expired : SUBSET DOMAIN schedule, rejected : SUBSET DOMAIN schedule]
      /\ bar \in Bars
  BY <1>1 DEF IInv, TypeOK, ControlSound, InStep
<1>3. order \in Orders /\ order.observed_at = bar.open + 1
  <2>1. bar.symbol \in Symbols /\ bar.open + 1 \in Nat
    BY <1>2 DEF Bars
  <2>2. lifetime \in Nat
    BY OrderAssumption
  <2>3. bar.open + 1 + lifetime \in Nat
    BY <2>1, <2>2
  <2>4. QED BY <2>1, <2>3 DEF Orders
<1> HIDE DEF order
<1>4. /\ schedule' \in Seq(Orders) /\ Len(schedule) \in Nat
      /\ DOMAIN schedule = 1..Len(schedule)
      /\ DOMAIN schedule' = 1..n
      /\ schedule'[n] = order /\ n \in DOMAIN schedule' /\ n \notin DOMAIN schedule
      /\ \A i \in DOMAIN schedule : i \in DOMAIN schedule' /\ schedule'[i] = schedule[i]
      /\ \A i \in DOMAIN schedule' : i \in DOMAIN schedule \/ i = n
  BY <1>1, <1>2, <1>3, Appended
<1> HIDE DEF n
<1>5. DOMAIN schedule \subseteq DOMAIN schedule'
  BY <1>4
<1>6. ASSUME NEW S, NEW T, S \subseteq T, NEW s \in Seq(S) PROVE s \in Seq(T)
  BY <1>6
<1>7. /\ pending \in Seq(DOMAIN schedule') /\ retained \in Seq(DOMAIN schedule')
      /\ exits \in Seq([signal : DOMAIN schedule', reason : Reasons])
      /\ replay \in [expired : SUBSET DOMAIN schedule', rejected : SUBSET DOMAIN schedule']
  <2>1. [signal : DOMAIN schedule, reason : Reasons]
           \subseteq [signal : DOMAIN schedule', reason : Reasons]
    BY <1>5
  <2>2. exits \in Seq([signal : DOMAIN schedule', reason : Reasons])
    BY <1>2, <1>6, <2>1
  <2>3. pending \in Seq(DOMAIN schedule') /\ retained \in Seq(DOMAIN schedule')
    BY <1>2, <1>5, <1>6
  <2>4. replay \in [expired : SUBSET DOMAIN schedule', rejected : SUBSET DOMAIN schedule']
    BY <1>2, <1>5
  <2>5. QED BY <2>2, <2>3, <2>4
<1>8. ToSet(pending) \subseteq DOMAIN schedule
  BY <1>2, Elements
<1>9. /\ pending' \in Seq(DOMAIN schedule')
      /\ EachOnce(pending')
      /\ ToSet(pending') = ToSet(pending) \cup {n}
  <2>1. EachOnce(pending) /\ n \notin ToSet(pending)
    BY <1>1, <1>4, <1>8 DEF IInv, WaitsOnce
  <2>2. n \in DOMAIN schedule'
    BY <1>4
  <2> DEFINE S == DOMAIN schedule'
  <2> HIDE DEF S
  <2>3. pending \in Seq(S) /\ n \in S
    BY <1>7, <2>2 DEF S
  <2>4. Append(pending, n) \in Seq(S)
    BY <2>3, Appended
  <2>5. EachOnce(Append(pending, n))
    BY <2>1, <2>3, OnceAppended
  <2>6. ToSet(Append(pending, n)) = ToSet(pending) \cup {n}
    BY <2>3, Elements
  <2>7. QED BY <1>1, <2>4, <2>5, <2>6 DEF S
<1>10. TypeOK'
  <2>1. TypeOK
    BY DEF IInv
  <2>2. QED BY ONLY <1>1, <1>4, <1>7, <1>9, <2>1 DEF TypeOK
<1>11. ControlSound' /\ ChecksAgree' /\ ReportAgrees'
  <2>1. phase' # "stopped" /\ phase # "stopped" /\ outcome' = outcome
    BY <1>1
  <2>2. ChecksAgree' /\ ReportAgrees' /\ (outcome' = "running" <=> phase' # "stopped")
    BY <2>1, GoesOn
  <2>3. QED BY <1>1, <2>2 DEF IInv, ControlSound, InStep
<1>12. WaitsOnce'
  BY <1>1, <1>9 DEF WaitsOnce
<1>13. /\ Opened' = Opened /\ Closed' = Closed
       /\ Opened \subseteq DOMAIN schedule /\ Closed \subseteq DOMAIN schedule
  BY <1>1 DEF IInv, BookSound, SoundBooks, FollowsOrder, Opened, Closed, SignalsOf
<1>14. OneFateEach'
  <2>1. Waiting = ToSet(pending) /\ Waiting' = ToSet(pending')
    BY <1>1 DEF Waiting
  <2>2. replay' = replay /\ replay.expired \subseteq DOMAIN schedule
        /\ replay.rejected \subseteq DOMAIN schedule
    BY <1>1, <1>2
  <2>3. ASSUME NEW m \in DOMAIN schedule'
        PROVE  ExactlyOne(m \in Waiting', m \in replay.expired, m \in replay.rejected,
                          m \in Opened, m \in Closed)
    <3>1. CASE m \in DOMAIN schedule
      <4>1. ExactlyOne(m \in Waiting, m \in replay.expired, m \in replay.rejected,
                       m \in Opened, m \in Closed)
        BY <1>1, <3>1 DEF IInv, OneFateEach
      <4>2. m # n
        BY <1>4, <3>1
      <4>3. m \in Waiting' <=> m \in Waiting
        BY <1>9, <2>1, <4>2
      <4>4. QED BY <4>1, <4>3 DEF ExactlyOne
    <3>2. CASE m = n
      BY <1>4, <1>9, <1>13, <2>1, <2>2, <3>2 DEF ExactlyOne
    <3>3. QED BY <1>4, <3>1, <3>2
  <2>4. QED BY <1>13, <2>2, <2>3 DEF OneFateEach
<1>15. BookSound'
  <2>1. SoundBooks(portfolio, schedule)
    BY DEF IInv, BookSound
  <2>2. \A i \in DOMAIN portfolio.positions :
           FollowsOrder(portfolio.positions[i], schedule')
    <3> TAKE i \in DOMAIN portfolio.positions
    <3>1. FollowsOrder(portfolio.positions[i], schedule)
      BY <2>1 DEF SoundBooks
    <3>2. QED BY <1>4, <3>1 DEF FollowsOrder
  <2>3. SoundBooks(portfolio, schedule')
    BY <1>4, <2>1, <2>2 DEF SoundBooks
  <2>4. QED BY <1>1, <2>3 DEF BookSound
<1>16. VisitSound'
  BY <1>1 DEF IInv, VisitSound
<1>17. ExitsSound'
  <2>1. ASSUME NEW i \in DOMAIN exits
        PROVE  /\ schedule'[exits[i].signal] = schedule[exits[i].signal]
               /\ \E k \in DOMAIN portfolio.closed :
                     /\ portfolio.closed[k].signal = exits[i].signal
                     /\ Honoured(exits[i], portfolio.closed[k],
                                 schedule[exits[i].signal], bar)
    <3>1. PICK k \in DOMAIN portfolio.closed :
             /\ portfolio.closed[k].signal = exits[i].signal
             /\ Honoured(exits[i], portfolio.closed[k], schedule[exits[i].signal], bar)
      BY DEF IInv, ExitsSound
    <3>2. exits[i].signal \in DOMAIN schedule
      BY <3>1 DEF IInv, BookSound, SoundBooks
    <3>3. QED BY <1>4, <3>1, <3>2
  <2>2. QED BY <1>1, <2>1 DEF ExitsSound
<1>18. SplitSound'
  <2>1. PartitionOf(bar.open + 1) \in Partitions
    BY <1>1 DEF PartitionOf, Partitions
  <2>2. \A m \in DOMAIN schedule : PartitionOf(schedule[m].observed_at) \in Partitions
    BY DEF IInv, SplitSound
  <2>3. \A m \in DOMAIN schedule' : PartitionOf(schedule'[m].observed_at) \in Partitions
    BY <1>3, <1>4, <2>1, <2>2
  <2>4. QED BY <2>3 DEF SplitSound
<1>19. LedgerReconciles'
  <2>1. portfolio' = portfolio
    BY <1>1
  <2>2. QED BY <2>1, LedgerIs, Zenon DEF IInv
<1>20. QED BY <1>10, <1>11, <1>12, <1>14, <1>15, <1>16, <1>17, <1>18, <1>19 DEF IInv

\* The trades of the partitions are the closed trades, each in one partition.
LEMMA PartitionsSplit ==
  ASSUME IInv
  PROVE  LET closed == ToSet(portfolio.closed)
         IN  /\ \A p \in Partitions : PartitionTrades(p) \subseteq closed
             /\ closed = UNION {PartitionTrades(p) : p \in Partitions}
             /\ closed = (PartitionTrades("training") \cup PartitionTrades("validation"))
                         \cup PartitionTrades("test")
             /\ PartitionTrades("training") \cap PartitionTrades("validation") = {}
             /\ (PartitionTrades("training") \cup PartitionTrades("validation"))
                   \cap PartitionTrades("test") = {}
<1> DEFINE closed == ToSet(portfolio.closed)
           home(t) == PartitionOf(schedule[t.signal].observed_at)
<1>1. \A t \in closed : home(t) \in Partitions
  BY DEF IInv, BookSound, SoundBooks, SplitSound, ToSet
<1>2. \A p : PartitionTrades(p) = {t \in closed : home(t) = p}
  BY DEF PartitionTrades
<1> HIDE DEF closed, home
<1>3. closed = UNION {PartitionTrades(p) : p \in Partitions}
  BY <1>1, <1>2
<1>4. closed = (PartitionTrades("training") \cup PartitionTrades("validation"))
               \cup PartitionTrades("test")
  BY <1>1, <1>2 DEF Partitions
<1>5. /\ PartitionTrades("training") \cap PartitionTrades("validation") = {}
      /\ (PartitionTrades("training") \cup PartitionTrades("validation"))
            \cap PartitionTrades("test") = {}
  BY <1>2
<1>6. \A p \in Partitions : PartitionTrades(p) \subseteq closed
  BY <1>2
<1>7. QED BY <1>3, <1>4, <1>5, <1>6 DEF closed

\* The trades of each partition are journalled once.
LEMMA PartitionJournals ==
  ASSUME IInv, NEW C, C \subseteq ToSet(portfolio.closed)
  PROVE  /\ C \subseteq Trades /\ IsFiniteSet(C) /\ NetOf(C) \in Int
         /\ Journal(C) \in Seq(Trades) /\ ToSet(Journal(C)) = C
         /\ TotalNet(Journal(C)) = NetOf(C)
<1>1. portfolio.closed \in Seq(Trades) /\ EachSignalOnce(portfolio.closed)
  BY DEF IInv, TypeOK, BookSound, SoundBooks
<1>2. /\ ToSet(portfolio.closed) \subseteq Trades /\ IsFiniteSet(ToSet(portfolio.closed))
      /\ Signed(ToSet(portfolio.closed))
  BY <1>1, ClosedFacts
<1>3. C \subseteq Trades /\ Signed(C)
  BY <1>2 DEF Signed
<1>4. IsFiniteSet(C)
  BY <1>2, FS_Subset
<1>5. /\ Journal(C) \in Seq(Trades) /\ ToSet(Journal(C)) = C
      /\ TotalNet(Journal(C)) = NetOf(C)
  BY <1>3, <1>4, JournalFacts
<1>6. NetOf(C) \in Int
  BY <1>5, NetAppended
<1>7. QED BY <1>3, <1>4, <1>5, <1>6

\* What the checks after the replay find: the journal has the net result the
\* cash moved by, and the journals of the partitions rebuild it.
LEMMA ChecksRepeat ==
  ASSUME IInv, phase = "clock"
  PROVE  LET closed   == ToSet(portfolio.closed)
             journals == [p \in Partitions |-> Journal(PartitionTrades(p))]
             combined == UNION {ToSet(journals[p]) : p \in Partitions}
         IN  /\ portfolio.positions = <<>> =>
                   InitialCash + TotalNet(Journal(closed)) = portfolio.cash
             /\ combined = closed
<1> DEFINE closed   == ToSet(portfolio.closed)
           journals == [p \in Partitions |-> Journal(PartitionTrades(p))]
<1>1. portfolio.positions = <<>> => InitialCash + TotalNet(Journal(closed)) = portfolio.cash
  <2> SUFFICES ASSUME portfolio.positions = <<>>
               PROVE  InitialCash + TotalNet(Journal(closed)) = portfolio.cash
    OBVIOUS
  <2>1. Commissions(<<>>) = 0
    <3>1. Commissions(<<>>) = SumFunctionOnSet([i \in {} |-> <<>>[i].commission], {})
      BY DEF Commissions, SumOver, SumFunction
    <3>2. QED BY <3>1, SumEmpty
  <2>2. portfolio.cash = InitialCash + TotalNet(portfolio.closed) - Commissions(<<>>)
    BY LedgerIs DEF IInv, Balanced
  <2>3. TotalNet(Journal(closed)) = NetOf(closed)
    BY PartitionJournals
  <2>4. TotalNet(portfolio.closed) = NetOf(closed) /\ TotalNet(portfolio.closed) \in Int
    <3>1. portfolio.closed \in Seq(Trades) /\ EachSignalOnce(portfolio.closed)
      BY DEF IInv, TypeOK, BookSound, SoundBooks
    <3>2. QED BY <3>1, ClosedFacts, NetAppended
  <2> HIDE DEF closed
  <2>5. InitialCash \in Int
    BY CostAssumption
  <2>6. QED BY <2>1, <2>2, <2>3, <2>4, <2>5
<1>2. UNION {ToSet(journals[p]) : p \in Partitions} = closed
  <2>1. \A p \in Partitions : ToSet(journals[p]) = PartitionTrades(p)
    BY PartitionsSplit, PartitionJournals
  <2>2. closed = UNION {PartitionTrades(p) : p \in Partitions}
    BY PartitionsSplit
  <2> HIDE DEF journals, closed
  <2>3. QED BY <2>1, <2>2
<1>3. QED BY <1>1, <1>2

\* The report of a journal: the equity it ends at, and its whole curve.
LEMMA ReportIs ==
  ASSUME IInv, NEW C, C \subseteq ToSet(portfolio.closed)
  PROVE  LET m == Metrics(Journal(C))
         IN  /\ m \in Books /\ Len(Journal(C)) \in Nat
             /\ m.equity = InitialCash + NetOf(C)
             /\ CurveAt(m, Journal(C), Len(Journal(C)))
<1> DEFINE j == Journal(C)
<1>1. j \in Seq(Trades) /\ TotalNet(j) = NetOf(C)
  BY PartitionJournals
<1> HIDE DEF j
<1>2. CurveAt(Metrics(j), j, Len(j)) /\ Len(j) \in Nat
  BY <1>1, MetricsDescribeCurve
<1>3. Metrics(j) \in Books /\ Metrics(j).equity = EquityAfter(j, Len(j))
  BY <1>2 DEF CurveAt
<1>4. EquityAfter(j, Len(j)) = InitialCash + TotalNet(j)
  BY <1>1, EquityMoves
<1>5. QED BY <1>1, <1>2, <1>3, <1>4 DEF j

\* An experiment that completes reports what its closed trades earned.
LEMMA CompletedReport ==
  ASSUME IInv, phase = "clock", portfolio.positions = <<>>,
         portfolio' = portfolio,
         report' = [overall    |-> Metrics(Journal(ToSet(portfolio.closed))),
                    partitions |-> [p \in Partitions |-> Metrics(Journal(PartitionTrades(p)))]]
  PROVE  /\ report' \in [overall : Books, partitions : [Partitions -> Books]]
         /\ ReportAgrees'
<1> DEFINE closed  == ToSet(portfolio.closed)
           journal == Journal(closed)
           overall == Metrics(journal)
           part(p) == Metrics(Journal(PartitionTrades(p)))
           parts   == [p \in Partitions |-> part(p)]
           net(p)  == NetOf(PartitionTrades(p))
<1>1. /\ overall \in Books /\ overall.equity = InitialCash + NetOf(closed)
      /\ CurveAt(overall, journal, Len(journal))
  BY ReportIs
<1>2. \A p \in Partitions : part(p) \in Books /\ part(p).equity = InitialCash + net(p)
  BY PartitionsSplit, ReportIs
<1>3. NetOf(closed) = net("training") + net("validation") + net("test")
      /\ net("training") \in Int /\ net("validation") \in Int /\ net("test") \in Int
  <2> DEFINE A == PartitionTrades("training")
             B == PartitionTrades("validation")
             C == PartitionTrades("test")
  <2>1. /\ A \subseteq closed /\ B \subseteq closed /\ C \subseteq closed
        /\ closed = (A \cup B) \cup C
        /\ A \cap B = {} /\ (A \cup B) \cap C = {}
    BY PartitionsSplit DEF Partitions
  <2>2. /\ A \subseteq Trades /\ IsFiniteSet(A) /\ B \subseteq Trades /\ IsFiniteSet(B)
        /\ C \subseteq Trades /\ IsFiniteSet(C)
        /\ A \cup B \subseteq Trades /\ IsFiniteSet(A \cup B)
    <3>1. A \cup B \subseteq closed
      BY <2>1
    <3> HIDE DEF A, B, C
    <3>2. QED BY <2>1, <3>1, PartitionJournals
  <2> HIDE DEF closed, A, B, C
  <2>3. NetOf(A \cup B) = NetOf(A) + NetOf(B) /\ NetOf(A) \in Int /\ NetOf(B) \in Int
    BY <2>1, <2>2, NetUnion
  <2>4. NetOf((A \cup B) \cup C) = NetOf(A \cup B) + NetOf(C) /\ NetOf(C) \in Int
    BY <2>1, <2>2, NetUnion
  <2>5. NetOf(closed) = NetOf((A \cup B) \cup C)
    BY <2>1
  <2>6. NetOf(closed) = NetOf(A) + NetOf(B) + NetOf(C)
    BY <2>3, <2>4, <2>5
  <2>7. QED BY <2>3, <2>4, <2>6 DEF A, B, C
<1>4. InitialCash + NetOf(closed) = portfolio.cash
  <2>1. InitialCash + TotalNet(journal) = portfolio.cash
    BY ChecksRepeat
  <2>2. TotalNet(journal) = NetOf(closed)
    BY PartitionJournals
  <2>3. QED BY <2>1, <2>2
<1>5. report'.overall = overall /\ report'.partitions = parts
  <2> HIDE DEF overall, part
  <2>1. report' = [overall |-> overall, partitions |-> [p \in Partitions |-> part(p)]]
    BY DEF overall, part
  <2>2. QED BY <2>1
<1>6. report' \in [overall : Books, partitions : [Partitions -> Books]]
  <2>1. parts \in [Partitions -> Books]
    <3> HIDE DEF part
    <3>1. QED BY <1>2
  <2>2. report' = [overall |-> overall, partitions |-> parts]
    OBVIOUS
  <2> HIDE DEF overall, parts
  <2>3. QED BY <1>1, <2>1, <2>2
<1>7. /\ parts["training"].equity = InitialCash + net("training")
      /\ parts["validation"].equity = InitialCash + net("validation")
      /\ parts["test"].equity = InitialCash + net("test")
  <2>1. \A p \in Partitions : parts[p] = part(p)
    OBVIOUS
  <2>2. {"training", "validation", "test"} \subseteq Partitions
    BY DEF Partitions
  <2> HIDE DEF part, parts, net
  <2>3. QED BY <1>2, <2>1, <2>2
<1> HIDE DEF overall, parts, part, net, journal
<1>8. overall.equity = portfolio.cash
  BY <1>1, <1>4
<1>9. overall.equity - InitialCash
        = (parts["training"].equity - InitialCash)
          + (parts["validation"].equity - InitialCash)
          + (parts["test"].equity - InitialCash)
  <2>1. InitialCash \in Int /\ NetOf(closed) \in Int
    BY <1>3, CostAssumption
  <2> HIDE DEF closed
  <2>2. QED BY <1>1, <1>3, <1>7, <2>1
<1>10. /\ \A i, j \in 0..Len(journal) : i <= j =>
             EquityAfter(journal, i) - EquityAfter(journal, j) <= overall.drawdown
       /\ \E i, j \in 0..Len(journal) : i <= j
             /\ EquityAfter(journal, i) - EquityAfter(journal, j) = overall.drawdown
  BY <1>1 DEF CurveAt
<1>11. ReportAgrees'
  <2>1. Journal(ToSet(portfolio'.closed)) = journal
    BY DEF journal
  <2>2. QED BY <1>5, <1>8, <1>9, <1>10, <2>1 DEF ReportAgrees, EquityAfter
<1>12. QED BY <1>6, <1>11

\* The end of the experiment: an error the code allows, or the report.
LEMMA FinishStep == ASSUME IInv, Finish PROVE IInv'
<1> DEFINE closed   == ToSet(portfolio.closed)
           journals == [p \in Partitions |-> Journal(PartitionTrades(p))]
           combined == UNION {ToSet(journals[p]) : p \in Partitions}
           complete == /\ report' = [overall    |-> Metrics(Journal(closed)),
                                     partitions |-> [p \in Partitions |-> Metrics(journals[p])]]
                       /\ outcome' = "completed"
                       /\ phase' = "stopped"
                       /\ UNCHANGED <<events, cursor, bar, todo, schedule, pending, retained,
                                      portfolio, exits, replay>>
<1>1. phase = "clock"
  BY DEF Finish
<1>2. /\ portfolio.positions = <<>> =>
            InitialCash + TotalNet(Journal(closed)) = portfolio.cash
      /\ combined = closed
  BY <1>1, ChecksRepeat
<1>3. \/ Abort("pending")
      \/ Abort("positions")
      \/ portfolio.positions = <<>>
         /\ InitialCash + TotalNet(Journal(closed)) # portfolio.cash
      \/ Abort("partition")
      \/ Journal(combined) # Journal(closed)
      \/ portfolio.positions = <<>> /\ complete
  BY Zenon DEF Finish
<1>4. ASSUME NEW error \in {"pending", "positions", "partition"}, Abort(error) PROVE IInv'
  <2>1. error \in Errors /\ Justified(error)
    BY DEF Errors, Justified
  <2>2. QED BY <1>4, <2>1, AbortStep
<1>5. CASE portfolio.positions = <<>> /\ complete
  <2>1. \A p \in Partitions : journals[p] = Journal(PartitionTrades(p))
    OBVIOUS
  <2>2. report' = [overall    |-> Metrics(Journal(closed)),
                   partitions |-> [p \in Partitions |-> Metrics(Journal(PartitionTrades(p)))]]
    BY <1>5
  <2>3. /\ phase' = "stopped" /\ outcome' = "completed"
        /\ UNCHANGED <<events, cursor, bar, todo, schedule, pending, retained,
                       portfolio, exits, replay>>
    BY <1>5
  <2> HIDE DEF closed, journals, combined, complete
  <2>4. /\ report' \in [overall : Books, partitions : [Partitions -> Books]]
        /\ ReportAgrees'
    BY <1>1, <1>5, <2>2, <2>3, CompletedReport DEF closed
  <2>5. TypeOK'
    <3>1. TypeOK
      BY DEF IInv
    <3>2. QED BY ONLY <1>1, <2>3, <2>4, <3>1 DEF TypeOK
  <2>6. ControlSound' /\ ChecksAgree'
    BY <2>3 DEF ControlSound, InStep, ChecksAgree, Justified
  <2>7. WaitsOnce' /\ OneFateEach' /\ VisitSound'
    BY <2>3 DEF WaitsOnce, OneFateEach, VisitSound
  <2>8. BookSound' /\ LedgerReconciles' /\ SplitSound'
    BY <2>3, BooksKept DEF IInv
  <2>9. ExitsSound'
    BY <2>3 DEF IInv, ExitsSound
  <2>10. QED BY <2>4, <2>5, <2>6, <2>7, <2>8, <2>9 DEF IInv
<1> HIDE DEF closed, combined, complete
<1>6. QED BY <1>2, <1>3, <1>4, <1>5

\* A step that changes nothing.
LEMMA StutterStep == ASSUME IInv, UNCHANGED vars PROVE IInv'
<1> USE DEF vars
<1>1. TypeOK' /\ ControlSound' /\ ChecksAgree' /\ ReportAgrees'
  BY DEF IInv, TypeOK, ControlSound, InStep, ChecksAgree, ReportAgrees
<1>2. BookSound' /\ LedgerReconciles' /\ SplitSound' /\ Opened' = Opened /\ Closed' = Closed
  BY BooksKept DEF IInv
<1>3. WaitsOnce' /\ Waiting' = Waiting
  BY DEF IInv, WaitsOnce, Waiting
<1>4. OneFateEach' /\ VisitSound' /\ ExitsSound'
  BY <1>2, <1>3 DEF IInv, OneFateEach, VisitSound, ExitsSound
<1>5. QED BY <1>1, <1>2, <1>3, <1>4 DEF IInv

-----------------------------------------------------------------------------
(* The theorems *)

\* Every step of the runner and the engine keeps the invariant.
LEMMA InvariantStep == IInv /\ [Next]_vars => IInv'
<1> SUFFICES ASSUME IInv, [Next]_vars PROVE IInv'
  OBVIOUS
<1>1. ASSUME NEW c \in Candles, AdvanceClock(c) PROVE IInv'
  BY <1>1, AdvanceStep
<1>2. CASE RetainOrder
  BY <1>2, RetainStep
<1>3. CASE ExpireOrder
  BY <1>3, ExpireStep
<1>4. CASE RejectOrder
  BY <1>4, RejectStep
<1>5. CASE FillOrder
  BY <1>5, FillStep
<1>6. CASE StartExits
  BY <1>6, StartStep
<1>7. CASE KeepPosition
  BY <1>7, KeepStep
<1>8. CASE ClosePosition
  BY <1>8, CloseStep
<1>9. CASE MarkToMarket
  BY <1>9, MarkStep
<1>10. ASSUME NEW side \in Sides, NEW v \in Volumes, NEW s \in Stops, NEW t \in Targets,
              NEW l \in Lifetimes, SubmitOrder(side, v, s, t, l)
       PROVE  IInv'
  BY <1>10, SubmitStep
<1>11. CASE NextEvent
  BY <1>11, NextStep
<1>12. CASE Finish
  BY <1>12, FinishStep
<1>13. CASE UNCHANGED vars
  BY <1>13, StutterStep
<1>14. QED
  BY <1>1, <1>2, <1>3, <1>4, <1>5, <1>6, <1>7, <1>8, <1>9, <1>10, <1>11, <1>12, <1>13
  DEF Next

\* The invariant holds in every state of every experiment: for every dataset,
\* every price, cost model, volume grid and schedule of orders.
THEOREM Invariant == Spec => []IInv
<1>1. QED BY InitInvariant, InvariantStep, PTL DEF Spec

\* The books of an experiment have their types; in particular the report of a
\* completed experiment is one of metrics for the whole and for each partition.
THEOREM TypeCorrect == Spec => []TypeOK
<1>1. IInv => TypeOK
  BY DEF IInv
<1>2. QED BY <1>1, Invariant, PTL

\* At every point of the replay the cash is the initial cash plus the net result
\* of the closed trades minus the entry commissions of the open positions: what
\* open_position and close_position pay from filled prices is what the trades say
\* from reference prices and costs.
THEOREM LedgerStaysReconciled == Spec => []LedgerReconciles
<1>1. IInv => LedgerReconciles
  BY DEF IInv
<1>2. QED BY <1>1, Invariant, PTL

\* Of five conditions of which exactly one holds, the set of those that hold has
\* one element.
LEMMA OneOfFive ==
  ASSUME NEW f, DOMAIN f = 1..5, ExactlyOne(f[1], f[2], f[3], f[4], f[5])
  PROVE  Cardinality({i \in 1..5 : f[i]}) = 1
<1>1. \E k \in 1..5 : {i \in 1..5 : f[i]} = {k}
  <2>1. \A i \in 1..5 : i = 1 \/ i = 2 \/ i = 3 \/ i = 4 \/ i = 5
    OBVIOUS
  <2>2. {1, 2, 3, 4, 5} \subseteq 1..5
    OBVIOUS
  <2>3. CASE f[1]
    <3>1. {i \in 1..5 : f[i]} = {1}
      BY <2>1, <2>2, <2>3 DEF ExactlyOne
    <3>2. QED BY <2>2, <3>1
  <2>4. CASE f[2]
    <3>1. {i \in 1..5 : f[i]} = {2}
      BY <2>1, <2>2, <2>4 DEF ExactlyOne
    <3>2. QED BY <2>2, <3>1
  <2>5. CASE f[3]
    <3>1. {i \in 1..5 : f[i]} = {3}
      BY <2>1, <2>2, <2>5 DEF ExactlyOne
    <3>2. QED BY <2>2, <3>1
  <2>6. CASE f[4]
    <3>1. {i \in 1..5 : f[i]} = {4}
      BY <2>1, <2>2, <2>6 DEF ExactlyOne
    <3>2. QED BY <2>2, <3>1
  <2>7. CASE f[5]
    <3>1. {i \in 1..5 : f[i]} = {5}
      BY <2>1, <2>2, <2>7 DEF ExactlyOne
    <3>2. QED BY <2>2, <3>1
  <2>8. QED BY <2>3, <2>4, <2>5, <2>6, <2>7 DEF ExactlyOne
<1>2. QED BY <1>1, FS_Singleton

\* The members of a list of five.
LEMMA FiveListed ==
  ASSUME NEW a, NEW b, NEW c, NEW d, NEW e
  PROVE  LET f == <<a, b, c, d, e>>
         IN  /\ DOMAIN f = 1..5
             /\ f[1] = a /\ f[2] = b /\ f[3] = c /\ f[4] = d /\ f[5] = e
  OBVIOUS

\* Between two steps of the replay every scheduled signal is pending, expired,
\* rejected, open or closed, and only one of them: no order is lost or used twice
\* while candles of other symbols are replayed.
THEOREM EverySignalHasOneFate == Spec => []SignalHasOneFate
<1>1. ASSUME IInv PROVE SignalHasOneFate
  <2> SUFFICES ASSUME phase \in {"clock", "submit"}, NEW n \in DOMAIN schedule
               PROVE  Cardinality({i \in 1..5 : Fates(n)[i]}) = 1
    BY DEF SignalHasOneFate
  <2>1. ExactlyOne(n \in Waiting, n \in replay.expired, n \in replay.rejected,
                   n \in Opened, n \in Closed)
    BY <1>1 DEF IInv, OneFateEach
  <2>2. Waiting = ToSet(pending)
    BY DEF Waiting
  <2>3. n \in Opened <=> \E p \in ToSet(portfolio.positions) : p.signal = n
    BY DEF Opened, SignalsOf, ToSet
  <2>4. n \in Closed <=> \E t \in ToSet(portfolio.closed) : t.signal = n
    BY DEF Closed, SignalsOf, ToSet
  <2> DEFINE f    == Fates(n)
             open == \E p \in ToSet(portfolio.positions) : p.signal = n
             over == \E t \in ToSet(portfolio.closed) : t.signal = n
  <2>5. /\ DOMAIN f = 1..5
        /\ f[1] = (n \in ToSet(pending)) /\ f[2] = (n \in replay.expired)
        /\ f[3] = (n \in replay.rejected) /\ f[4] = open /\ f[5] = over
    <3> DEFINE waits    == n \in ToSet(pending)
               expired  == n \in replay.expired
               rejected == n \in replay.rejected
    <3>1. f = <<waits, expired, rejected, open, over>>
      BY DEF Fates
    <3> HIDE DEF f, waits, expired, rejected, open, over
    <3>2. /\ DOMAIN f = 1..5 /\ f[1] = waits /\ f[2] = expired /\ f[3] = rejected
          /\ f[4] = open /\ f[5] = over
      BY ONLY <3>1, FiveListed
    <3>3. QED BY <3>2 DEF waits, expired, rejected
  <2>6. ExactlyOne(f[1], f[2], f[3], f[4], f[5])
    <3>1. ExactlyOne(n \in ToSet(pending), n \in replay.expired, n \in replay.rejected,
                     open, over)
      BY <2>1, <2>2, <2>3, <2>4 DEF ExactlyOne
    <3> HIDE DEF f, open, over
    <3>2. QED BY <2>5, <3>1, Zenon
  <2> HIDE DEF f
  <2>7. Cardinality({i \in 1..5 : f[i]}) = 1
    BY <2>5, <2>6, OneOfFive
  <2>8. QED BY <2>7 DEF f
<1>2. QED BY <1>1, Invariant, PTL

\* A candle that trades through a position's stop ends it at the stop or worse,
\* one that only reaches the target ends it at the target, never better, and no
\* position survives a candle that touched one of its levels.
THEOREM LevelsAreHonoured == Spec => []ProtectionIsHonoured
<1>1. ASSUME IInv PROVE ProtectionIsHonoured
  <2>1. portfolio.closed \in Seq(Trades) /\ EachSignalOnce(portfolio.closed)
    BY <1>1 DEF IInv, TypeOK, BookSound, SoundBooks
  <2>2. Signed(ToSet(portfolio.closed))
    BY <2>1, ClosedFacts
  <2>3. ASSUME NEW e \in ToSet(exits)
        PROVE  Honoured(e, CHOOSE t \in ToSet(portfolio.closed) : t.signal = e.signal,
                        schedule[e.signal], bar)
    <3> DEFINE trade == CHOOSE t \in ToSet(portfolio.closed) : t.signal = e.signal
    <3>1. \E t \in ToSet(portfolio.closed) :
             t.signal = e.signal /\ Honoured(e, t, schedule[e.signal], bar)
      BY <1>1 DEF IInv, ExitsSound, ToSet
    <3>2. trade \in ToSet(portfolio.closed) /\ trade.signal = e.signal
      BY <3>1
    <3> HIDE DEF trade
    <3>3. Honoured(e, trade, schedule[e.signal], bar)
      BY <2>2, <3>1, <3>2 DEF Signed
    <3>4. QED BY <3>3 DEF trade
  <2>4. ASSUME phase = "submit", NEW p \in ToSet(portfolio.positions),
               p.symbol = bar.symbol
        PROVE  Stands(p, bar)
    BY <1>1, <2>4 DEF IInv, VisitSound, ToSet
  <2>5. QED BY <2>3, <2>4 DEF ProtectionIsHonoured, Honoured, Stands
<1>2. QED BY <1>1, Invariant, PTL

\* The checks that repeat a computation made elsewhere never end an experiment,
\* but for the margin check of open_position where a lot costs neither margin
\* nor commission and the free margin is negative: the broker model then grants
\* the whole volume.
THEOREM RepeatedChecksAgree == Spec => []ChecksAgree
<1>1. IInv => ChecksAgree
  BY DEF IInv
<1>2. QED BY <1>1, Invariant, PTL

\* The report of a completed experiment ends at the cash of the portfolio, its
\* partitions add up to the whole, and its drawdown is the largest fall between
\* two points of the equity curve.
THEOREM TheReportAgrees == Spec => []ReportAgrees
<1>1. IInv => ReportAgrees
  BY DEF IInv
<1>2. QED BY <1>1, Invariant, PTL

-----------------------------------------------------------------------------
(* The members of a set of indices in order *)

\* The order of the natural numbers, as a relation.
LessThan == {pair \in Nat \X Nat : pair[1] < pair[2]}

\* The members of a set below a number.
Under(S, s) == {j \in S : j < s}

\* The members of an indexed set come in order, each once.
LEMMA InOrderSorts ==
  ASSUME NEW S, S \subseteq Nat, IsFiniteSet(S)
  PROVE  /\ DOMAIN InOrder(S) = 1..Cardinality(S)
         /\ \A k \in 1..Cardinality(S) :
               /\ InOrder(S)[k] \in S
               /\ Cardinality(Under(S, InOrder(S)[k])) = k - 1
         /\ \A j, k \in 1..Cardinality(S) : InOrder(S)[j] = InOrder(S)[k] => j = k
         /\ \A s \in S : \E k \in 1..Cardinality(S) : InOrder(S)[k] = s
<1>1. \A s \in S : Preceding(LessThan, S, s) = Under(S, s)
  BY DEF Preceding, LessThan, Under
<1>2. StrictlyOrders(LessThan, S)
  BY DEF StrictlyOrders, LessThan
<1>3. \A k \in 1..Cardinality(S) :
        (\E s \in S : Cardinality(Under(S, s)) = k - 1)
           => /\ InOrder(S)[k] \in S
              /\ Cardinality(Under(S, InOrder(S)[k])) = k - 1
  BY DEF InOrder, Under
<1>4. InOrder(S) = [k \in 1..Cardinality(S) |-> InOrder(S)[k]]
  <2> DEFINE c(k) == CHOOSE i \in S : Cardinality({j \in S : j < i}) = k - 1
             f == [k \in 1..Cardinality(S) |-> c(k)]
  <2>1. InOrder(S) = f
    BY DEF InOrder
  <2> HIDE DEF c
  <2>2. QED BY <2>1
<1>5. Sorts(InOrder(S), LessThan, S)
  BY <1>1, <1>3, <1>4 DEF Sorts
<1>6. /\ InOrder(S) \in Bijection(1..Cardinality(S), S)
      /\ \A k \in 1..Cardinality(S) :
            InOrder(S)[k] \in S /\ Cardinality(Preceding(LessThan, S, InOrder(S)[k])) = k - 1
  BY <1>2, <1>5, SortedOnce
<1>7. DOMAIN InOrder(S) = 1..Cardinality(S)
  BY DEF InOrder
<1>8. /\ \A j, k \in 1..Cardinality(S) : InOrder(S)[j] = InOrder(S)[k] => j = k
      /\ \A s \in S : \E k \in 1..Cardinality(S) : InOrder(S)[k] = s
  BY <1>6, <1>7 DEF Bijection, Injection, Surjection, IsInjective
<1>9. QED BY <1>1, <1>6, <1>7, <1>8

\* A member's place is the number of smaller members, plus one.
LEMMA PlaceInOrder ==
  ASSUME NEW S, S \subseteq Nat, IsFiniteSet(S), NEW s \in S,
         NEW k \in 1..Cardinality(S), Cardinality(Under(S, s)) = k - 1
  PROVE  InOrder(S)[k] = s
<1>1. Cardinality(S) \in Nat
  BY FS_CardinalityType
<1>2. PICK m \in 1..Cardinality(S) : InOrder(S)[m] = s
  BY InOrderSorts
<1>3. Cardinality(Under(S, s)) = m - 1
  BY <1>2, InOrderSorts
<1>4. m = k
  BY <1>1, <1>3
<1>5. QED BY <1>2, <1>4

\* The order is strict.
LEMMA InOrderIncreases ==
  ASSUME NEW S, S \subseteq Nat, IsFiniteSet(S),
         NEW j \in 1..Cardinality(S), NEW k \in 1..Cardinality(S), j < k
  PROVE  InOrder(S)[j] < InOrder(S)[k]
<1> DEFINE a == InOrder(S)[j]
           b == InOrder(S)[k]
<1>1. a \in S /\ b \in S /\ Cardinality(Under(S, a)) = j - 1 /\ Cardinality(Under(S, b)) = k - 1
  BY InOrderSorts
<1>2. Cardinality(S) \in Nat /\ a \in Nat /\ b \in Nat
  BY <1>1, FS_CardinalityType
<1> HIDE DEF a, b
<1>3. ASSUME b <= a PROVE FALSE
  <2>1. Under(S, b) \subseteq Under(S, a) /\ Under(S, a) \subseteq S
    <3>1. ASSUME NEW i \in S, i < b PROVE i < a
      <4>1. i \in Nat
        OBVIOUS
      <4>2. QED BY <1>2, <1>3, <3>1, <4>1
    <3>2. QED BY <3>1 DEF Under
  <2>2. IsFiniteSet(Under(S, a))
    BY <2>1, FS_Subset
  <2>3. Cardinality(Under(S, b)) <= Cardinality(Under(S, a))
    BY <2>1, <2>2, FS_Subset
  <2>4. QED BY <1>1, <1>2, <2>3
<1>4. QED BY <1>2, <1>3 DEF a, b

\* The members up to a number are the first ones.
LEMMA InOrderCut ==
  ASSUME NEW S, S \subseteq Nat, IsFiniteSet(S), NEW n \in Nat
  PROVE  LET C == {i \in S : i <= n}
         IN  /\ IsFiniteSet(C) /\ Cardinality(C) \in Nat /\ Cardinality(S) \in Nat
             /\ Cardinality(C) <= Cardinality(S)
             /\ \A k \in 1..Cardinality(C) : InOrder(C)[k] = InOrder(S)[k]
             /\ \A k \in 1..Cardinality(S) : InOrder(S)[k] <= n <=> k <= Cardinality(C)
<1> DEFINE C == {i \in S : i <= n}
<1>1. C \subseteq S /\ C \subseteq Nat
  OBVIOUS
<1>2. /\ IsFiniteSet(C) /\ Cardinality(C) \in Nat /\ Cardinality(S) \in Nat
      /\ Cardinality(C) <= Cardinality(S)
  BY <1>1, FS_Subset, FS_CardinalityType
<1>3. ASSUME NEW k \in 1..Cardinality(C) PROVE InOrder(C)[k] = InOrder(S)[k]
  <2> DEFINE x == InOrder(C)[k]
  <2>1. x \in C /\ Cardinality(Under(C, x)) = k - 1
    <3> HIDE DEF C
    <3>1. QED BY <1>1, <1>2, InOrderSorts
  <2>2. Under(C, x) = Under(S, x)
    <3>1. x \in Nat /\ x <= n
      BY <2>1
    <3> HIDE DEF x
    <3>2. ASSUME NEW j \in S, j < x PROVE j \in C
      <4>1. j \in Nat
        OBVIOUS
      <4>2. QED BY <3>1, <3>2, <4>1
    <3>3. QED BY <3>2 DEF Under
  <2>3. k \in 1..Cardinality(S)
    BY <1>2
  <2> HIDE DEF x
  <2>4. x \in S /\ Cardinality(Under(S, x)) = k - 1
    BY <1>1, <2>1, <2>2
  <2>5. QED BY <2>3, <2>4, PlaceInOrder DEF x
<1>4. ASSUME NEW k \in 1..Cardinality(S)
      PROVE  InOrder(S)[k] <= n <=> k <= Cardinality(C)
  <2>1. ASSUME k <= Cardinality(C) PROVE InOrder(S)[k] <= n
    <3>1. k \in 1..Cardinality(C)
      BY <1>2, <2>1
    <3>2. InOrder(C)[k] \in C
      <4> HIDE DEF C
      <4>1. QED BY <1>1, <1>2, <3>1, InOrderSorts
    <3>3. QED BY <1>3, <3>1, <3>2
  <2>2. ASSUME InOrder(S)[k] <= n PROVE k <= Cardinality(C)
    <3>1. InOrder(S)[k] \in S
      BY InOrderSorts
    <3>2. InOrder(S)[k] \in C
      BY <2>2, <3>1
    <3>3. PICK m \in 1..Cardinality(C) : InOrder(C)[m] = InOrder(S)[k]
      <4> HIDE DEF C
      <4>1. QED BY <1>1, <1>2, <3>2, InOrderSorts
    <3>4. m \in 1..Cardinality(S) /\ InOrder(S)[m] = InOrder(S)[k]
      BY <1>2, <1>3, <3>3
    <3>5. m = k
      BY <3>4, InOrderSorts
    <3>6. QED BY <1>2, <3>5
  <2>3. QED BY <2>1, <2>2
<1>5. QED BY <1>2, <1>3, <1>4

-----------------------------------------------------------------------------
(* What a filter keeps *)

\* A filter returns the elements at its indices, as many as there are, in order.
LEMMA Selected ==
  ASSUME NEW T, NEW seq \in Seq(T), NEW I, I \subseteq DOMAIN seq
  PROVE  /\ Select(seq, I) \in Seq(T) /\ Len(Select(seq, I)) = Cardinality(I)
         /\ DOMAIN Select(seq, I) = 1..Cardinality(I) /\ Cardinality(I) \in Nat
         /\ IsFiniteSet(I) /\ I \subseteq Nat
         /\ \A k \in 1..Cardinality(I) : /\ InOrder(I)[k] \in I
                                         /\ Select(seq, I)[k] = seq[InOrder(I)[k]]
         /\ ToSet(Select(seq, I)) = {seq[i] : i \in I}
<1> DEFINE n == Cardinality(I)
           s == Select(seq, I)
<1>1. I \subseteq Nat /\ IsFiniteSet(I) /\ n \in Nat
  <2>1. DOMAIN seq = 1..Len(seq) /\ Len(seq) \in Nat
    OBVIOUS
  <2>2. IsFiniteSet(1..Len(seq)) /\ 1..Len(seq) \subseteq Nat
    BY <2>1, FS_Interval
  <2>3. QED BY <2>1, <2>2, FS_Subset, FS_CardinalityType
<1>2. DOMAIN InOrder(I) = 1..n /\ \A k \in 1..n : InOrder(I)[k] \in I
  BY <1>1, InOrderSorts
<1>3. s = [k \in 1..n |-> seq[InOrder(I)[k]]]
  BY <1>2 DEF Select
<1>4. \A i \in I : \E k \in 1..n : InOrder(I)[k] = i
  BY <1>1, InOrderSorts
<1> HIDE DEF n, s
<1>5. \A k \in 1..n : s[k] = seq[InOrder(I)[k]] /\ s[k] \in T
  <2> TAKE k \in 1..n
  <2>1. InOrder(I)[k] \in DOMAIN seq
    BY <1>2
  <2>2. QED BY <1>3, <2>1
<1>6. s \in Seq(T) /\ Len(s) = n /\ DOMAIN s = 1..n
  BY <1>1, <1>3, <1>5
<1>7. ToSet(s) = {seq[i] : i \in I}
  <2>1. ToSet(s) = {s[k] : k \in 1..n}
    BY <1>6 DEF ToSet
  <2>2. QED BY <1>2, <1>4, <1>5, <2>1
<1>8. QED BY <1>1, <1>2, <1>5, <1>6, <1>7 DEF n, s

\* What is left of increasing numbers increases.
LEMMA SelectedIncreases ==
  ASSUME NEW seq \in Seq(Int), Increasing(seq), NEW I, I \subseteq DOMAIN seq
  PROVE  Increasing(Select(seq, I))
<1>1. SUFFICES ASSUME NEW j \in 1..Cardinality(I), NEW k \in 1..Cardinality(I), j < k
               PROVE  Select(seq, I)[j] < Select(seq, I)[k]
  <2>1. DOMAIN Select(seq, I) = 1..Cardinality(I)
    BY Selected
  <2>2. QED BY <2>1 DEF Increasing
<1>2. InOrder(I)[j] < InOrder(I)[k]
  BY <1>1, Selected, InOrderIncreases
<1>3. QED BY <1>2, Selected DEF Increasing

\* Increasing numbers are as many as their sequence is long.
LEMMA IncreasingCounted ==
  ASSUME NEW seq \in Seq(Int), Increasing(seq)
  PROVE  Cardinality(ToSet(seq)) = Len(seq) /\ Len(seq) \in Nat
<1>1. Len(seq) \in Nat /\ DOMAIN seq = 1..Len(seq) /\ ToSet(seq) = {seq[i] : i \in 1..Len(seq)}
  BY DEF ToSet
<1>2. ASSUME NEW i \in 1..Len(seq), NEW j \in 1..Len(seq), seq[i] = seq[j] PROVE i = j
  <2>1. seq[i] \in Int /\ seq[j] \in Int /\ i \in Int /\ j \in Int
    BY <1>1
  <2>2. (i < j => seq[i] < seq[j]) /\ (j < i => seq[j] < seq[i])
    BY <1>1 DEF Increasing
  <2>3. QED BY <1>2, <2>1, <2>2
<1>3. seq \in [1..Len(seq) -> ToSet(seq)]
  BY <1>1
<1>4. seq \in Bijection(1..Len(seq), ToSet(seq))
  <2>1. \A t \in ToSet(seq) : \E i \in 1..Len(seq) : seq[i] = t
    BY <1>1
  <2>2. QED BY <1>2, <1>3, <2>1 DEF Bijection, Injection, Surjection, IsInjective
<1>5. IsFiniteSet(1..Len(seq)) /\ Cardinality(1..Len(seq)) = Len(seq)
  BY <1>1, FS_Interval
<1>6. Cardinality(ToSet(seq)) = Cardinality(1..Len(seq))
  <2>1. ExistsBijection(1..Len(seq), ToSet(seq))
    BY <1>4 DEF ExistsBijection
  <2>2. QED BY ONLY <1>5, <2>1, FS_Bijection
<1>7. QED BY <1>1, <1>5, <1>6

\* Neighbours that increase make the whole increase.
LEMMA StepsIncrease ==
  ASSUME NEW seq \in Seq(Int), \A i \in 2..Len(seq) : seq[i] > seq[i - 1]
  PROVE  Increasing(seq)
<1>1. SUFFICES ASSUME NEW i \in DOMAIN seq, NEW j \in DOMAIN seq, i < j, ~(seq[i] < seq[j])
               PROVE  FALSE
  BY DEF Increasing
<1> DEFINE Bad == {k \in Nat : k \in DOMAIN seq /\ i < k /\ ~(seq[i] < seq[k])}
<1>2. DOMAIN seq = 1..Len(seq) /\ Len(seq) \in Nat /\ i \in Nat /\ j \in Nat
  OBVIOUS
<1>3. j \in Bad
  BY <1>1, <1>2
<1>4. PICK k \in Bad : \A m \in Bad : k <= m
  BY <1>3, LeastNumber
<1>5. k \in 2..Len(seq) /\ k - 1 \in DOMAIN seq /\ k - 1 \in Nat /\ k - 1 \notin Bad
  BY <1>2, <1>4
<1>6. seq[k] > seq[k - 1] /\ seq[k] \in Int /\ seq[k - 1] \in Int /\ seq[i] \in Int
  BY <1>2, <1>4, <1>5
<1>7. i = k - 1 \/ i < k - 1
  BY <1>2, <1>4, <1>5
<1>8. seq[i] <= seq[k - 1]
  BY <1>5, <1>6, <1>7
<1>9. QED BY <1>4, <1>6, <1>8

-----------------------------------------------------------------------------
(* What is computed from a history cut short *)

\* One sequence begins another.
Begins(d, c) ==
  /\ Len(d) \in Nat /\ Len(c) \in Nat /\ Len(d) <= Len(c)
  /\ \A i \in 1..Len(d) : d[i] = c[i]

\* Two lists, undefined while they warm up, agree at the first n indices.
AgreeUpTo(n, f, g) ==
  \A i \in 1..n : /\ i \in DOMAIN f <=> i \in DOMAIN g
                  /\ i \in DOMAIN f => f[i] = g[i]

\* The next value of a moving average.
NextAverage(previous, value, period, weight) ==
  (previous * (period - 1) + weight * value) \div (period - 1 + weight)

\* The mean of the first values.
Seed(values, period) == Total([j \in 1..period |-> values[j]]) \div period

\* a satisfies the recursion of the moving averages up to an index.
AveragesUpTo(a, n, values, period, weight) ==
  a = [i \in period..n |-> IF i = period THEN Seed(values, period)
                           ELSE NextAverage(a[i - 1], values[i], period, weight)]

\* The recursion defines a function, value by value.
LEMMA AveragesExist ==
  ASSUME NEW values, NEW period \in Nat \ {0}, NEW weight, NEW len \in Nat
  PROVE  \E a : AveragesUpTo(a, len, values, period, weight)
<1> DEFINE Without == {n \in Nat : ~\E a : AveragesUpTo(a, n, values, period, weight)}
<1>1. SUFFICES ASSUME Without # {} PROVE FALSE
  OBVIOUS
<1>2. PICK n \in Without : \A m \in Without : n <= m
  BY <1>1, LeastNumber
<1>3. CASE n < period
  <2>1. period..n = {}
    BY <1>3
  <2>2. AveragesUpTo([i \in {} |-> 0], n, values, period, weight)
    BY <2>1 DEF AveragesUpTo
  <2>3. QED BY <1>2, <2>2
<1>4. CASE n >= period
  <2>1. n - 1 \in Nat /\ n - 1 \notin Without
    BY <1>2, <1>4
  <2>2. PICK a : AveragesUpTo(a, n - 1, values, period, weight)
    BY <2>1
  <2> DEFINE value(i) == IF i = period THEN Seed(values, period)
                         ELSE NextAverage(a[i - 1], values[i], period, weight)
             b == [i \in period..n |-> value(i)]
  <2>3. ASSUME NEW i \in period..n, i # period PROVE b[i - 1] = a[i - 1]
    <3>1. i - 1 \in period..(n - 1) /\ i - 1 \in period..n
      BY <2>3
    <3>2. a[i - 1] = value(i - 1)
      BY <2>2, <3>1 DEF AveragesUpTo
    <3>3. b[i - 1] = value(i - 1)
      BY <3>1
    <3>4. QED BY <3>2, <3>3
  <2>4. AveragesUpTo(b, n, values, period, weight)
    <3> HIDE DEF b
    <3>1. b = [i \in period..n |-> IF i = period THEN Seed(values, period)
                           ELSE NextAverage(b[i - 1], values[i], period, weight)]
      BY <2>3 DEF b
    <3>2. QED BY <3>1 DEF AveragesUpTo
  <2>5. QED BY <1>2, <2>4
<1>5. QED BY <1>2, <1>3, <1>4

\* The moving average satisfies its recursion.
LEMMA AveragedIsDefined ==
  ASSUME NEW values, Len(values) \in Nat, NEW period \in Nat \ {0}, NEW weight
  PROVE  AveragesUpTo(Averaged(values, period, weight), Len(values), values, period, weight)
<1>1. Averaged(values, period, weight)
         = CHOOSE a : AveragesUpTo(a, Len(values), values, period, weight)
  BY DEF Averaged, AveragesUpTo, NextAverage, Seed
<1>2. \E a : AveragesUpTo(a, Len(values), values, period, weight)
  BY AveragesExist
<1>3. QED BY <1>1, <1>2

\* The averages of a sequence and of one it begins.
LEMMA AveragesAgree ==
  ASSUME NEW c, NEW d, Begins(d, c), NEW period \in Nat \ {0}, NEW weight
  PROVE  /\ AgreeUpTo(Len(d), Averaged(d, period, weight), Averaged(c, period, weight))
         /\ DOMAIN Averaged(d, period, weight) = period..Len(d)
         /\ DOMAIN Averaged(c, period, weight) = period..Len(c)
<1> DEFINE a == Averaged(d, period, weight)
           b == Averaged(c, period, weight)
           Different == {i \in Nat : i \in period..Len(d) /\ a[i] # b[i]}
<1>0. Len(d) \in Nat /\ Len(c) \in Nat /\ Len(d) <= Len(c)
  BY DEF Begins
<1>1. AveragesUpTo(a, Len(d), d, period, weight) /\ AveragesUpTo(b, Len(c), c, period, weight)
  BY <1>0, AveragedIsDefined
<1> HIDE DEF a, b
<1>2. Different = {}
  <2>1. SUFFICES ASSUME Different # {} PROVE FALSE
    OBVIOUS
  <2>2. PICK n \in Different : \A m \in Different : n <= m
    BY <2>1, LeastNumber
  <2>3. n \in period..Len(d) /\ n \in period..Len(c) /\ a[n] # b[n] /\ n \in 1..Len(d)
    BY <1>0, <2>2
  <2>4. CASE n = period
    <3>1. a[n] = Seed(d, period) /\ b[n] = Seed(c, period)
      BY <1>1, <2>3, <2>4 DEF AveragesUpTo
    <3>2. [j \in 1..period |-> d[j]] = [j \in 1..period |-> c[j]]
      BY <1>0, <2>3, <2>4 DEF Begins
    <3>3. QED BY <2>3, <3>1, <3>2 DEF Seed
  <2>5. CASE n # period
    <3>1. /\ a[n] = NextAverage(a[n - 1], d[n], period, weight)
          /\ b[n] = NextAverage(b[n - 1], c[n], period, weight)
      BY <1>1, <2>3, <2>5 DEF AveragesUpTo
    <3>2. n - 1 \in Nat /\ n - 1 \in period..Len(d) /\ n - 1 \notin Different
      BY <1>0, <2>2, <2>3, <2>5
    <3>3. a[n - 1] = b[n - 1] /\ d[n] = c[n]
      BY <2>3, <3>2 DEF Begins
    <3>4. QED BY <2>3, <3>1, <3>3
  <2>6. QED BY <2>4, <2>5
<1>3. DOMAIN a = period..Len(d) /\ DOMAIN b = period..Len(c)
  BY <1>1 DEF AveragesUpTo
<1>4. \A i \in period..Len(d) : a[i] = b[i]
  BY <1>0, <1>2
<1>5. QED BY <1>0, <1>3, <1>4 DEF AgreeUpTo, a, b

\* The relative strength needs the changes up to the candle.
LEMMA RsiAgrees ==
  ASSUME NEW c, NEW d, Begins(d, c), Len(d) > 0, NEW period \in Nat \ {0}
  PROVE  AgreeUpTo(Len(d), Rsi(d, period), Rsi(c, period))
<1> DEFINE Gain(v, i) == Larger(v[i + 1] - v[i], 0)
           Loss(v, i) == Larger(v[i] - v[i + 1], 0)
           Gains(v) == [i \in 1..(Len(v) - 1) |-> Gain(v, i)]
           Losses(v) == [i \in 1..(Len(v) - 1) |-> Loss(v, i)]
           gd == Smoothed(Gains(d), period)
           gc == Smoothed(Gains(c), period)
           ld == Smoothed(Losses(d), period)
           lc == Smoothed(Losses(c), period)
           Strength(gain, loss) ==
             IF loss = 0 THEN (IF gain > 0 THEN 100 ELSE 50) * Scale
             ELSE (100 * Scale * gain) \div (gain + loss)
<1>0. Len(d) - 1 \in Nat /\ Len(c) - 1 \in Nat /\ Len(d) - 1 <= Len(c) - 1
  BY DEF Begins
<1>1. \A i \in 1..(Len(d) - 1) : /\ d[i] = c[i] /\ d[i + 1] = c[i + 1]
  BY DEF Begins
<1>2. /\ Len(Gains(d)) = Len(d) - 1 /\ Len(Gains(c)) = Len(c) - 1
      /\ Len(Losses(d)) = Len(d) - 1 /\ Len(Losses(c)) = Len(c) - 1
  <2> HIDE DEF Gain, Loss
  <2>1. QED BY <1>0
<1>3. Begins(Gains(d), Gains(c)) /\ Begins(Losses(d), Losses(c))
  <2>1. \A i \in 1..(Len(d) - 1) : Gains(d)[i] = Gains(c)[i] /\ Losses(d)[i] = Losses(c)[i]
    BY <1>0, <1>1
  <2> HIDE DEF Gains, Losses
  <2>2. QED BY <1>0, <1>2, <2>1 DEF Begins
<1>4. /\ AgreeUpTo(Len(d) - 1, gd, gc) /\ AgreeUpTo(Len(d) - 1, ld, lc)
      /\ DOMAIN gd = period..(Len(d) - 1) /\ DOMAIN ld = period..(Len(d) - 1)
  <2> HIDE DEF Gains, Losses
  <2>1. QED BY <1>2, <1>3, AveragesAgree DEF Smoothed
<1>5. /\ Rsi(d, period) = [i \in (period + 1)..Len(d) |-> Strength(gd[i - 1], ld[i - 1])]
      /\ Rsi(c, period) = [i \in (period + 1)..Len(c) |-> Strength(gc[i - 1], lc[i - 1])]
  BY DEF Rsi
<1> HIDE DEF Strength, gd, gc, ld, lc
<1>6. \A i \in (period + 1)..Len(d) : gd[i - 1] = gc[i - 1] /\ ld[i - 1] = lc[i - 1]
  <2> TAKE i \in (period + 1)..Len(d)
  <2>1. i - 1 \in 1..(Len(d) - 1) /\ i - 1 \in period..(Len(d) - 1)
    BY <1>0
  <2>2. QED BY <1>4, <2>1 DEF AgreeUpTo
<1>7. QED BY <1>0, <1>5, <1>6 DEF AgreeUpTo

\* The histogram needs the two averages up to the candle, and its own signal.
LEMMA MacdAgrees ==
  ASSUME NEW c, NEW d, Begins(d, c), NEW fast \in Nat \ {0}, NEW slow \in Nat \ {0},
         NEW signal \in Nat \ {0}, fast < slow
  PROVE  AgreeUpTo(Len(d), Macd(d, fast, slow, signal), Macd(c, fast, slow, signal))
<1> DEFINE Line(v) == [i \in 1..(Len(v) - slow + 1) |->
                          Ema(v, fast)[i + slow - 1] - Ema(v, slow)[i + slow - 1]]
           Histogram(v) == [i \in (slow + signal - 1)..Len(v) |->
                          Line(v)[i - slow + 1] - Ema(Line(v), signal)[i - slow + 1]]
<1>0. Len(d) \in Nat /\ Len(c) \in Nat /\ Len(d) <= Len(c)
  BY DEF Begins
<1>1. Macd(d, fast, slow, signal) = Histogram(d) /\ Macd(c, fast, slow, signal) = Histogram(c)
  BY DEF Macd
<1>2. CASE Len(d) < slow + signal - 1
  BY <1>0, <1>1, <1>2 DEF AgreeUpTo
<1>3. CASE Len(d) >= slow + signal - 1
  <2> DEFINE m == Len(d) - slow + 1
             n == Len(c) - slow + 1
  <2>0. m \in Nat /\ n \in Nat /\ m <= n
    BY <1>0, <1>3
  <2>1. Len(Line(d)) = m /\ Len(Line(c)) = n
    BY <2>0
  <2>2. AgreeUpTo(Len(d), Ema(d, fast), Ema(c, fast))
        /\ AgreeUpTo(Len(d), Ema(d, slow), Ema(c, slow))
    BY AveragesAgree DEF Ema
  <2>3. DOMAIN Ema(d, fast) = fast..Len(d) /\ DOMAIN Ema(d, slow) = slow..Len(d)
    BY AveragesAgree DEF Ema
  <2>4. ASSUME NEW i \in 1..m PROVE Line(d)[i] = Line(c)[i]
    <3>1. /\ i + slow - 1 \in 1..Len(d) /\ i + slow - 1 \in fast..Len(d)
          /\ i + slow - 1 \in slow..Len(d) /\ i \in 1..n
      BY <1>0, <2>0
    <3>2. Ema(d, fast)[i + slow - 1] = Ema(c, fast)[i + slow - 1]
          /\ Ema(d, slow)[i + slow - 1] = Ema(c, slow)[i + slow - 1]
      BY <2>2, <2>3, <3>1 DEF AgreeUpTo
    <3>3. QED BY <3>1, <3>2
  <2> HIDE DEF Line, m, n
  <2>5. Begins(Line(d), Line(c))
    BY <2>0, <2>1, <2>4 DEF Begins
  <2>6. AgreeUpTo(m, Ema(Line(d), signal), Ema(Line(c), signal))
        /\ DOMAIN Ema(Line(d), signal) = signal..m
    BY <2>1, <2>5, AveragesAgree DEF Ema
  <2>7. ASSUME NEW i \in (slow + signal - 1)..Len(d)
        PROVE  Histogram(d)[i] = Histogram(c)[i]
    <3>1. i - slow + 1 \in 1..m /\ i - slow + 1 \in signal..m
          /\ i \in (slow + signal - 1)..Len(c)
      BY <1>0 DEF m
    <3>2. /\ Line(d)[i - slow + 1] = Line(c)[i - slow + 1]
          /\ Ema(Line(d), signal)[i - slow + 1] = Ema(Line(c), signal)[i - slow + 1]
      BY <2>4, <2>6, <3>1 DEF AgreeUpTo
    <3>3. QED BY <3>1, <3>2
  <2>8. DOMAIN Histogram(d) = (slow + signal - 1)..Len(d)
        /\ DOMAIN Histogram(c) = (slow + signal - 1)..Len(c)
    OBVIOUS
  <2> HIDE DEF Histogram
  <2>9. QED BY <1>0, <1>1, <2>7, <2>8 DEF AgreeUpTo
<1>4. QED BY <1>0, <1>2, <1>3

\* The true range compares a candle with its predecessor.
LEMMA AtrAgrees ==
  ASSUME NEW c, NEW d, Begins(d, c), NEW period \in Nat \ {0}
  PROVE  AgreeUpTo(Len(d), Atr(d, period), Atr(c, period))
<1> DEFINE Ranges(v) == [i \in 1..Len(v) |-> Scale * TrueRange(v, i)]
<1>0. Len(d) \in Nat /\ Len(c) \in Nat /\ Len(d) <= Len(c)
  BY DEF Begins
<1>1. Len(Ranges(d)) = Len(d) /\ Len(Ranges(c)) = Len(c)
  BY <1>0
<1>2. ASSUME NEW i \in 1..Len(d) PROVE TrueRange(d, i) = TrueRange(c, i)
  <2>1. d[i] = c[i]
    BY DEF Begins
  <2>2. CASE i = 1
    BY <2>1, <2>2 DEF TrueRange
  <2>3. CASE i # 1
    <3>1. i - 1 \in 1..Len(d)
      BY <1>0, <2>3
    <3>2. d[i - 1] = c[i - 1]
      BY <3>1 DEF Begins
    <3>3. QED BY <2>1, <2>3, <3>2 DEF TrueRange
  <2>4. QED BY <2>2, <2>3
<1>3. \A i \in 1..Len(d) : Ranges(d)[i] = Ranges(c)[i]
  BY <1>0, <1>2
<1>4. Atr(d, period) = Averaged(Ranges(d), period, 1)
      /\ Atr(c, period) = Averaged(Ranges(c), period, 1)
  BY DEF Atr, Smoothed
<1> HIDE DEF Ranges
<1>5. Begins(Ranges(d), Ranges(c))
  BY <1>0, <1>1, <1>3 DEF Begins
<1>6. QED BY <1>1, <1>4, <1>5, AveragesAgree

\* The swings a candle confirms need no candle after it: the bars to the right
\* of the pivot end with that candle.
LEMMA SwingsAgree ==
  ASSUME NEW c, NEW d, Begins(d, c), NEW i \in 1..Len(d)
  PROVE  Swings(d, i) = Swings(c, i)
<1> DEFINE pivot == i - Pipeline.right_bars
<1>0. /\ Len(d) \in Nat /\ Len(c) \in Nat /\ Len(d) <= Len(c)
      /\ Pipeline.right_bars \in Nat \ {0} /\ Pipeline.left_bars \in Nat \ {0}
  BY PipelineAssumption DEF Begins
<1>1. CASE ~(pivot > Pipeline.left_bars)
  BY <1>1 DEF Swings, PivotAt
<1>2. CASE pivot > Pipeline.left_bars
  <2>1. pivot \in 1..Len(d) /\ pivot \in 1..Len(c)
    BY <1>0, <1>2
  <2>2. \A j \in (pivot - Pipeline.left_bars)..(pivot + Pipeline.right_bars) :
          j \in 1..Len(d) /\ j \in 1..Len(c)
    BY <1>0, <1>2
  <2> HIDE DEF pivot
  <2>3. Neighbours(d, pivot) = Neighbours(c, pivot) /\ Neighbours(d, pivot) \subseteq 1..Len(d)
    BY <2>2 DEF Neighbours
  <2>4. d[pivot] = c[pivot] /\ d[i] = c[i]
        /\ \A j \in Neighbours(d, pivot) : d[j] = c[j]
    BY <2>1, <2>3 DEF Begins
  <2>5. (IsPivotLow(d, pivot) <=> IsPivotLow(c, pivot))
        /\ (IsPivotHigh(d, pivot) <=> IsPivotHigh(c, pivot))
    BY <2>3, <2>4 DEF IsPivotLow, IsPivotHigh
  <2>6. PivotAt(i) = pivot
    BY DEF PivotAt, pivot
  <2>7. QED BY <2>4, <2>5, <2>6 DEF Swings
<1>3. QED BY <1>1, <1>2

\* z lists the zones known at each candle up to the n-th.
ZonesUpTo(z, n, candles) ==
  z = [i \in 0..n |-> IF i = 0 THEN <<>> ELSE Merged(z[i - 1], Swings(candles, i))]

\* The recursion of the zones defines a function.
LEMMA ZonesExist ==
  ASSUME NEW candles, NEW len \in Nat
  PROVE  \E z : ZonesUpTo(z, len, candles)
<1> DEFINE Without == {n \in Nat : ~\E z : ZonesUpTo(z, n, candles)}
<1>1. SUFFICES ASSUME Without # {} PROVE FALSE
  OBVIOUS
<1>2. PICK n \in Without : \A m \in Without : n <= m
  BY <1>1, LeastNumber
<1>3. CASE n = 0
  <2>1. ZonesUpTo([i \in 0..0 |-> <<>>], 0, candles)
    BY DEF ZonesUpTo
  <2>2. QED BY <1>2, <1>3, <2>1
<1>4. CASE n # 0
  <2>1. n - 1 \in Nat /\ n - 1 \notin Without
    BY <1>2, <1>4
  <2>2. PICK z : ZonesUpTo(z, n - 1, candles)
    BY <2>1
  <2> DEFINE value(i) == IF i = 0 THEN <<>> ELSE Merged(z[i - 1], Swings(candles, i))
             y == [i \in 0..n |-> value(i)]
  <2>3. ASSUME NEW i \in 0..n, i # 0 PROVE y[i - 1] = z[i - 1]
    <3>1. i - 1 \in 0..(n - 1) /\ i - 1 \in 0..n
      BY <2>3
    <3>2. z[i - 1] = value(i - 1)
      BY <2>2, <3>1 DEF ZonesUpTo
    <3>3. y[i - 1] = value(i - 1)
      BY <3>1
    <3>4. QED BY <3>2, <3>3
  <2>4. ZonesUpTo(y, n, candles)
    <3> HIDE DEF y
    <3>1. y = [i \in 0..n |-> IF i = 0 THEN <<>> ELSE Merged(y[i - 1], Swings(candles, i))]
      BY <2>3 DEF y
    <3>2. QED BY <3>1 DEF ZonesUpTo
  <2>5. QED BY <1>2, <2>4
<1>5. QED BY <1>3, <1>4

\* The zones known at a candle need the candles up to it.
LEMMA ZonesAgree ==
  ASSUME NEW c, NEW d, Begins(d, c), NEW k \in 1..Len(d)
  PROVE  Zones(d, k) = Zones(c, k)
<1>0. Len(d) \in Nat /\ k \in Nat
  BY DEF Begins
<1>1. PICK x : ZonesUpTo(x, k, d) /\ Zones(d, k) = x[k]
  <2>1. Zones(d, k) = (CHOOSE z : ZonesUpTo(z, k, d))[k]
    BY DEF Zones, ZonesUpTo
  <2>2. \E z : ZonesUpTo(z, k, d)
    BY <1>0, ZonesExist
  <2>3. QED BY <2>1, <2>2
<1>2. PICK y : ZonesUpTo(y, k, c) /\ Zones(c, k) = y[k]
  <2>1. Zones(c, k) = (CHOOSE z : ZonesUpTo(z, k, c))[k]
    BY DEF Zones, ZonesUpTo
  <2>2. \E z : ZonesUpTo(z, k, c)
    BY <1>0, ZonesExist
  <2>3. QED BY <2>1, <2>2
<1> DEFINE Different == {i \in Nat : i <= k /\ x[i] # y[i]}
<1>3. Different = {}
  <2>1. SUFFICES ASSUME Different # {} PROVE FALSE
    OBVIOUS
  <2>2. PICK n \in Different : \A m \in Different : n <= m
    BY <2>1, LeastNumber
  <2>3. n \in 0..k
    BY <1>0, <2>2
  <2>4. CASE n = 0
    BY <1>1, <1>2, <2>2, <2>3, <2>4 DEF ZonesUpTo
  <2>5. CASE n # 0
    <3>1. x[n] = Merged(x[n - 1], Swings(d, n)) /\ y[n] = Merged(y[n - 1], Swings(c, n))
      BY <1>1, <1>2, <2>3, <2>5 DEF ZonesUpTo
    <3>2. n - 1 \in Nat /\ n - 1 <= k /\ n - 1 \notin Different /\ n \in 1..Len(d)
      BY <1>0, <2>2, <2>3, <2>5
    <3>3. x[n - 1] = y[n - 1] /\ Swings(d, n) = Swings(c, n)
      BY <3>2, SwingsAgree
    <3>4. QED BY <2>2, <3>1, <3>3
  <2>6. QED BY <2>4, <2>5
<1>4. QED BY <1>0, <1>1, <1>2, <1>3

\* Indicators of two histories that agree at the first n candles.
Matching(n, a, b) ==
  /\ DOMAIN a = DOMAIN b
  /\ DOMAIN a = {"fast", "mid", "slow", "rsi", "macd", "atr"}
  /\ \A name \in DOMAIN a : AgreeUpTo(n, a[name], b[name])

\* The indicators of a history cut short are those of the whole.
LEMMA IndicatorsMatch ==
  ASSUME NEW c, NEW d, Begins(d, c), Len(d) > 0
  PROVE  Matching(Len(d), Indicators(d), Indicators(c))
<1> DEFINE Closes(v) == [i \in 1..Len(v) |-> v[i].close * Scale]
<1>0. Len(d) \in Nat /\ Len(c) \in Nat /\ Len(d) <= Len(c)
  BY DEF Begins
<1>1. Len(Closes(d)) = Len(d) /\ Len(Closes(c)) = Len(c)
  BY <1>0
<1>2. \A i \in 1..Len(d) : Closes(d)[i] = Closes(c)[i]
  BY <1>0 DEF Begins
<1>3. /\ Indicators(d) = [fast |-> Ema(Closes(d), Pipeline.ema_fast),
                          mid  |-> Ema(Closes(d), Pipeline.ema_mid),
                          slow |-> Ema(Closes(d), Pipeline.ema_slow),
                          rsi  |-> Rsi(Closes(d), Pipeline.rsi),
                          macd |-> Macd(Closes(d), Pipeline.macd_fast, Pipeline.macd_slow,
                                        Pipeline.macd_signal),
                          atr  |-> Atr(d, Pipeline.atr)]
      /\ Indicators(c) = [fast |-> Ema(Closes(c), Pipeline.ema_fast),
                          mid  |-> Ema(Closes(c), Pipeline.ema_mid),
                          slow |-> Ema(Closes(c), Pipeline.ema_slow),
                          rsi  |-> Rsi(Closes(c), Pipeline.rsi),
                          macd |-> Macd(Closes(c), Pipeline.macd_fast, Pipeline.macd_slow,
                                        Pipeline.macd_signal),
                          atr  |-> Atr(c, Pipeline.atr)]
  BY DEF Indicators
<1> HIDE DEF Closes
<1>4. Begins(Closes(d), Closes(c))
  BY <1>0, <1>1, <1>2 DEF Begins
<1>5. /\ Pipeline.ema_fast \in Nat \ {0} /\ Pipeline.ema_mid \in Nat \ {0}
      /\ Pipeline.ema_slow \in Nat \ {0} /\ Pipeline.rsi \in Nat \ {0}
      /\ Pipeline.macd_fast \in Nat \ {0} /\ Pipeline.macd_slow \in Nat \ {0}
      /\ Pipeline.macd_signal \in Nat \ {0} /\ Pipeline.atr \in Nat \ {0}
      /\ Pipeline.macd_fast < Pipeline.macd_slow
  BY PipelineAssumption
<1>6. ASSUME NEW period \in Nat \ {0}
      PROVE  AgreeUpTo(Len(d), Ema(Closes(d), period), Ema(Closes(c), period))
  BY <1>1, <1>4, AveragesAgree DEF Ema
<1>7. AgreeUpTo(Len(d), Rsi(Closes(d), Pipeline.rsi), Rsi(Closes(c), Pipeline.rsi))
  BY <1>1, <1>4, <1>5, RsiAgrees
<1>8. AgreeUpTo(Len(d), Macd(Closes(d), Pipeline.macd_fast, Pipeline.macd_slow,
                             Pipeline.macd_signal),
                Macd(Closes(c), Pipeline.macd_fast, Pipeline.macd_slow,
                     Pipeline.macd_signal))
  BY <1>1, <1>4, <1>5, MacdAgrees
<1>9. AgreeUpTo(Len(d), Atr(d, Pipeline.atr), Atr(c, Pipeline.atr))
  BY <1>5, AtrAgrees
<1>10. QED BY <1>3, <1>5, <1>6, <1>7, <1>8, <1>9 DEF Matching

\* A vector needs its candle, the one before it, the indicators there and the
\* zones known by then.
LEMMA VectorsAgree ==
  ASSUME NEW c, NEW d, Begins(d, c), NEW a, NEW b, Matching(Len(d), a, b),
         NEW i \in 1..Len(d)
  PROVE  /\ IsReady(d, a, i) <=> IsReady(c, b, i)
         /\ IsReady(d, a, i) => Vector(d, a, i) = Vector(c, b, i)
<1>0. Len(d) \in Nat /\ i \in Nat
  BY DEF Begins
<1>1. CASE ~(i > 1)
  BY <1>1 DEF IsReady
<1>2. CASE i > 1
  <2>1. i - 1 \in 1..Len(d)
    BY <1>0, <1>2
  <2>2. d[i] = c[i] /\ d[i - 1] = c[i - 1]
    BY <2>1 DEF Begins
  <2>3. \A name \in DOMAIN a : /\ i \in DOMAIN a[name] <=> i \in DOMAIN b[name]
                               /\ i \in DOMAIN a[name] => a[name][i] = b[name][i]
    BY DEF Matching, AgreeUpTo
  <2>4. DOMAIN a = {"fast", "mid", "slow", "rsi", "macd", "atr"} /\ DOMAIN b = DOMAIN a
    BY DEF Matching
  <2>5. IsReady(d, a, i) <=> IsReady(c, b, i)
    BY <2>2, <2>3, <2>4 DEF IsReady
  <2>6. ASSUME IsReady(d, a, i) PROVE Vector(d, a, i) = Vector(c, b, i)
    <3>1. /\ a.fast[i] = b.fast[i] /\ a.mid[i] = b.mid[i] /\ a.slow[i] = b.slow[i]
          /\ a.rsi[i] = b.rsi[i] /\ a.macd[i] = b.macd[i] /\ a.atr[i] = b.atr[i]
      BY <2>3, <2>4, <2>6 DEF IsReady
    <3>2. Zones(d, i) = Zones(c, i)
      BY ZonesAgree
    <3>3. Patterns(d, i) = Patterns(c, i)
      BY <2>2 DEF Patterns
    <3>4. QED BY <2>2, <3>1, <3>2, <3>3 DEF Vector
  <2>7. QED BY <2>5, <2>6
<1>3. QED BY <1>1, <1>2

\* The candles a feature set has a vector for.
Ready(candles) == {i \in 1..Len(candles) : IsReady(candles, Indicators(candles), i)}

\* The k-th vector is that of the k-th ready candle.
LEMMA FeaturesListed ==
  ASSUME NEW c, Len(c) \in Nat
  PROVE  /\ Ready(c) \subseteq Nat /\ Ready(c) \subseteq 1..Len(c) /\ IsFiniteSet(Ready(c))
         /\ DOMAIN Features(c) = 1..Cardinality(Ready(c))
         /\ \A k \in 1..Cardinality(Ready(c)) :
               Features(c)[k] = Vector(c, Indicators(c), InOrder(Ready(c))[k])
<1>1. Ready(c) \subseteq Nat /\ Ready(c) \subseteq 1..Len(c) /\ IsFiniteSet(Ready(c))
  <2>1. Ready(c) \subseteq 1..Len(c) /\ 1..Len(c) \subseteq Nat /\ IsFiniteSet(1..Len(c))
    BY FS_Interval DEF Ready
  <2>2. QED BY <2>1, FS_Subset
<1>2. DOMAIN InOrder(Ready(c)) = 1..Cardinality(Ready(c))
  BY <1>1, InOrderSorts
<1>3. Features(c) = [k \in DOMAIN InOrder(Ready(c)) |->
                        Vector(c, Indicators(c), InOrder(Ready(c))[k])]
  BY DEF Features, Ready
<1>4. QED BY <1>1, <1>2, <1>3

\* The feature set of a history cut short is the beginning of the whole's.
LEMMA FeaturesBegin ==
  ASSUME NEW c, NEW d, Begins(d, c), Len(d) > 0
  PROVE  /\ DOMAIN Features(d) \subseteq DOMAIN Features(c)
         /\ \A k \in DOMAIN Features(d) : Features(d)[k] = Features(c)[k]
         /\ \A k \in DOMAIN Features(c) :
               k \in DOMAIN Features(d) <=> InOrder(Ready(c))[k] <= Len(d)
<1> DEFINE C == {i \in Ready(c) : i <= Len(d)}
<1>0. Len(d) \in Nat /\ Len(c) \in Nat /\ Len(d) <= Len(c)
  BY DEF Begins
<1>1. Matching(Len(d), Indicators(d), Indicators(c))
  BY IndicatorsMatch
<1>2. Ready(d) = C
  <2>1. \A i \in 1..Len(d) : IsReady(d, Indicators(d), i) <=> IsReady(c, Indicators(c), i)
    BY <1>1, VectorsAgree
  <2>2. QED BY <1>0, <2>1 DEF Ready
<1>3. Ready(c) \subseteq Nat /\ IsFiniteSet(Ready(c))
  BY <1>0, FeaturesListed
<1>4. /\ Cardinality(C) \in Nat /\ Cardinality(Ready(c)) \in Nat
      /\ Cardinality(C) <= Cardinality(Ready(c))
      /\ \A k \in 1..Cardinality(C) : InOrder(C)[k] = InOrder(Ready(c))[k]
      /\ \A k \in 1..Cardinality(Ready(c)) :
            InOrder(Ready(c))[k] <= Len(d) <=> k <= Cardinality(C)
  BY <1>0, <1>3, InOrderCut
<1> HIDE DEF C
<1>5. /\ DOMAIN Features(d) = 1..Cardinality(C)
      /\ DOMAIN Features(c) = 1..Cardinality(Ready(c))
  BY <1>0, <1>2, FeaturesListed
<1>6. ASSUME NEW k \in 1..Cardinality(C) PROVE Features(d)[k] = Features(c)[k]
  <2> DEFINE i == InOrder(C)[k]
  <2>1. i \in Ready(d) /\ i \in 1..Len(d) /\ IsReady(d, Indicators(d), i)
    <3>1. C \subseteq Nat /\ IsFiniteSet(C)
      BY <1>0, <1>2, FeaturesListed
    <3>2. i \in Ready(d)
      BY <1>2, <3>1, InOrderSorts
    <3>3. QED BY <3>2 DEF Ready
  <2>2. Features(d)[k] = Vector(d, Indicators(d), i)
    BY <1>0, <1>2, FeaturesListed
  <2>3. Features(c)[k] = Vector(c, Indicators(c), i)
    <3>1. k \in 1..Cardinality(Ready(c))
      BY <1>4
    <3>2. QED BY <1>0, <1>4, <3>1, FeaturesListed
  <2> HIDE DEF i
  <2>4. QED BY <1>1, <2>1, <2>2, <2>3, VectorsAgree
<1>7. DOMAIN Features(d) \subseteq DOMAIN Features(c)
  BY <1>4, <1>5
<1>8. ASSUME NEW k \in 1..Cardinality(Ready(c))
      PROVE  k \in 1..Cardinality(C) <=> InOrder(Ready(c))[k] <= Len(d)
  <2>1. k \in 1..Cardinality(C) <=> k <= Cardinality(C)
    BY <1>4
  <2>2. QED BY <1>4, <2>1
<1>9. QED BY <1>5, <1>6, <1>7, <1>8

\* What every calculation on one instrument's candles is given.
IsHistory(candles) == OneTimeframe(candles) /\ ValidSeries(candles)

\* A history cut after its n-th candle.
LEMMA CutBegins ==
  ASSUME NEW c, IsHistory(c), NEW n \in 1..Len(c)
  PROVE  /\ Begins(SubSeq(c, 1, n), c) /\ Len(SubSeq(c, 1, n)) = n
         /\ n > 0 /\ Len(c) \in Nat /\ DOMAIN c = 1..Len(c)
<1>1. c \in Seq(Candle)
  BY DEF IsHistory, OneTimeframe
<1>2. QED BY <1>1 DEF Begins

\* The candles of a history close one after the other.
LEMMA ClosesInOrder ==
  ASSUME NEW c, IsHistory(c)
  PROVE  /\ DOMAIN c = 1..Len(c) /\ Len(c) \in Nat /\ Len(c) > 0
         /\ \A i \in 1..Len(c) : c[i].close_time \in Int /\ c[i] \in Candle
         /\ \A i, j \in 1..Len(c) : i < j => c[i].close_time < c[j].close_time
<1> DEFINE opens == [i \in 1..Len(c) |-> c[i].open_time]
<1>1. c \in Seq(Candle) /\ c # <<>> /\ DOMAIN c = 1..Len(c) /\ Len(c) \in Nat
  BY DEF IsHistory, OneTimeframe, ValidSeries
<1>2. \A i \in 1..Len(c) : /\ c[i] \in Candle /\ c[i].open_time \in Int
                           /\ c[i].close_time \in Int
  BY <1>1 DEF Candle
<1>3. opens \in Seq(Int) /\ Len(opens) = Len(c) /\ DOMAIN opens = 1..Len(c)
  BY <1>1, <1>2
<1>4. \A i \in 2..Len(opens) : opens[i] > opens[i - 1]
  <2> TAKE i \in 2..Len(opens)
  <2>1. i \in 1..Len(c) /\ i - 1 \in 1..Len(c) /\ i \in 2..Len(c)
    BY <1>1, <1>3
  <2>2. c[i].open_time > c[i - 1].open_time
    BY <2>1 DEF IsHistory, ValidSeries
  <2>3. QED BY <2>1, <2>2
<1>5. Increasing(opens)
  <2> HIDE DEF opens
  <2>1. QED BY <1>3, <1>4, StepsIncrease
<1>6. ASSUME NEW i \in 1..Len(c), NEW j \in 1..Len(c), i < j
      PROVE  c[i].close_time < c[j].close_time
  <2>1. opens[i] < opens[j]
    BY <1>3, <1>5, <1>6 DEF Increasing
  <2>2. c[i].open_time < c[j].open_time
    BY <2>1
  <2>3. QED BY <1>1, <2>2 DEF IsHistory, OneTimeframe
<1>7. Len(c) > 0
  BY <1>1
<1>8. QED BY <1>1, <1>2, <1>6, <1>7

\* A candle closes no later than another exactly when it does not come after it.
LEMMA ClosesCompared ==
  ASSUME NEW c, IsHistory(c), NEW i \in 1..Len(c), NEW n \in 1..Len(c)
  PROVE  /\ c[i].close_time <= c[n].close_time <=> i <= n
         /\ c[i].close_time = c[n].close_time <=> i = n
<1>1. /\ c[i].close_time \in Int /\ c[n].close_time \in Int /\ i \in Nat /\ n \in Nat
      /\ i < n => c[i].close_time < c[n].close_time
      /\ n < i => c[n].close_time < c[i].close_time
  BY ClosesInOrder
<1>2. QED BY <1>1

\* No look-ahead, for one history: what is cut off changes no vector before.
LEMMA HistoryIsCausal ==
  ASSUME NEW c, IsHistory(c), NEW n \in DOMAIN c
  PROVE  LET whole == Features(c)
             cut   == Features(SubSeq(c, 1, n))
         IN  /\ DOMAIN cut = {k \in DOMAIN whole : whole[k].observed_at <= c[n].close_time}
             /\ \A k \in DOMAIN cut : cut[k] = whole[k]
<1> DEFINE d     == SubSeq(c, 1, n)
           whole == Features(c)
           cut   == Features(d)
<1>1. /\ n \in 1..Len(c) /\ Len(c) \in Nat
      /\ Begins(d, c) /\ Len(d) = n /\ n > 0
  <2>1. c \in Seq(Candle)
    BY DEF IsHistory, OneTimeframe
  <2>2. n \in 1..Len(c)
    BY <2>1
  <2>3. QED BY <2>2, CutBegins
<1>2. /\ DOMAIN cut \subseteq DOMAIN whole
      /\ \A k \in DOMAIN cut : cut[k] = whole[k]
      /\ \A k \in DOMAIN whole : k \in DOMAIN cut <=> InOrder(Ready(c))[k] <= n
  <2> HIDE DEF d
  <2>1. Len(d) > 0
    BY <1>1
  <2>2. /\ DOMAIN Features(d) \subseteq DOMAIN Features(c)
        /\ \A k \in DOMAIN Features(d) : Features(d)[k] = Features(c)[k]
        /\ \A k \in DOMAIN Features(c) :
               k \in DOMAIN Features(d) <=> InOrder(Ready(c))[k] <= Len(d)
    BY ONLY <1>1, <2>1, FeaturesBegin
  <2>3. QED BY <1>1, <2>2
<1>3. ASSUME NEW k \in DOMAIN whole
      PROVE  whole[k].observed_at <= c[n].close_time <=> InOrder(Ready(c))[k] <= n
  <2> DEFINE i == InOrder(Ready(c))[k]
  <2>1. i \in 1..Len(c) /\ whole[k] = Vector(c, Indicators(c), i)
    <3>1. /\ Ready(c) \subseteq Nat /\ Ready(c) \subseteq 1..Len(c) /\ IsFiniteSet(Ready(c))
          /\ k \in 1..Cardinality(Ready(c))
          /\ whole[k] = Vector(c, Indicators(c), InOrder(Ready(c))[k])
      BY <1>1, FeaturesListed
    <3>2. i \in Ready(c)
      BY <3>1, InOrderSorts
    <3>3. QED BY <3>1, <3>2
  <2> HIDE DEF i
  <2>2. whole[k].observed_at = c[i].close_time
    BY <2>1 DEF Vector
  <2>3. QED BY <1>1, <2>1, <2>2, ClosesCompared DEF i
<1> HIDE DEF whole, cut
<1>4. QED BY <1>2, <1>3 DEF whole, cut

\* Whatever histories are observed, no feature looks ahead: research/features.py
\* and strategy/market_structure.py compute a whole series at once.
THEOREM FeaturesNeverLookAhead == Inputs => []FeaturesAreCausal
<1> DEFINE Observed == kind = "history" => IsHistory(input)
<1>1. NoInput => Observed
  BY DEF NoInput
<1>2. Observed /\ [TakeInput]_choice => Observed'
  <2> SUFFICES ASSUME Observed, [TakeInput]_choice PROVE Observed'
    OBVIOUS
  <2>1. CASE ObserveHistory
    BY <2>1, HistoriesAssumption DEF ObserveHistory, Take, IsHistory
  <2>2. CASE LoadBatch \/ EvaluateStudy \/ ProposeTrade
    BY <2>2 DEF LoadBatch, EvaluateStudy, ProposeTrade, Take
  <2>3. CASE UNCHANGED choice
    BY <2>3 DEF choice
  <2>4. QED BY <2>1, <2>2, <2>3 DEF TakeInput
<1>3. Observed => FeaturesAreCausal
  BY HistoryIsCausal DEF FeaturesAreCausal
<1>4. QED BY <1>1, <1>2, <1>3, PTL DEF Inputs

-----------------------------------------------------------------------------
(* The candles of a batch *)

\* The closed bars of a terminal's answer, before they are cut.
ClosedAnswer(rates, until, limit) ==
  LET answer == InWindow(rates, until, limit)
  IN  Select(answer, {i \in DOMAIN answer : answer[i] + Duration <= until})

\* They are the bars of the answer that are in the window and have closed.
LEMMA ClosedAnswerHolds ==
  ASSUME NEW rates \in Seq(Int), NEW until \in Int, NEW limit \in Nat \ {0}
  PROVE  LET answer == ClosedAnswer(rates, until, limit)
         IN  /\ answer \in Seq(Int)
             /\ ToSet(answer) = {r \in ToSet(rates) : r + Duration <= until
                                                      /\ r \in Window(until, limit)}
             /\ Increasing(rates) => Increasing(answer)
<1> DEFINE I == {i \in DOMAIN rates : rates[i] \in Window(until, limit)}
           first == InWindow(rates, until, limit)
           J == {i \in DOMAIN first : first[i] + Duration <= until}
           answer == ClosedAnswer(rates, until, limit)
<1>1. first = Select(rates, I) /\ I \subseteq DOMAIN rates
  BY DEF InWindow
<1>2. answer = Select(first, J) /\ J \subseteq DOMAIN first
  BY DEF ClosedAnswer
<1>3. first \in Seq(Int) /\ ToSet(first) = {rates[i] : i \in I}
      /\ (Increasing(rates) => Increasing(first))
  <2> HIDE DEF I, first
  <2>1. QED BY <1>1, Selected, SelectedIncreases
<1>4. answer \in Seq(Int) /\ ToSet(answer) = {first[i] : i \in J}
      /\ (Increasing(first) => Increasing(answer))
  <2> HIDE DEF I, J, first, answer
  <2>1. QED BY <1>2, <1>3, Selected, SelectedIncreases
<1>5. ToSet(first) = {first[i] : i \in DOMAIN first}
      /\ ToSet(rates) = {rates[i] : i \in DOMAIN rates}
  BY DEF ToSet
<1>6. \A r : r \in ToSet(answer) <=> r \in ToSet(first) /\ r + Duration <= until
  <2> HIDE DEF first, answer
  <2>1. QED BY <1>4, <1>5
<1>7. \A r : r \in ToSet(first) <=> r \in ToSet(rates) /\ r \in Window(until, limit)
  <2> HIDE DEF first, answer
  <2>1. QED BY <1>3, <1>5
<1> HIDE DEF I, J, first, answer
<1>8. ToSet(answer) = {r \in ToSet(rates) : r + Duration <= until
                                            /\ r \in Window(until, limit)}
  BY <1>6, <1>7
<1>9. QED BY <1>3, <1>4, <1>8 DEF answer

\* The batch is the end of the closed bars.
LEMMA BatchIsTheEnd ==
  ASSUME NEW rates \in Seq(Int), NEW until \in Int, NEW limit \in Nat \ {0}
  PROVE  LET all == ClosedAnswer(rates, until, limit)
             cut == ClosedCandles(rates, until, limit)
         IN  \E start \in Nat :
                /\ all \in Seq(Int) /\ cut \in Seq(Int) /\ Len(all) \in Nat
                /\ Len(cut) = Minimum(limit, Len(all)) /\ start + Len(cut) = Len(all)
                /\ \A i \in 1..Len(cut) : cut[i] = all[start + i]
<1> DEFINE all == ClosedAnswer(rates, until, limit)
           start == IF Len(all) > limit THEN Len(all) - limit ELSE 0
           cut == ClosedCandles(rates, until, limit)
<1>1. all \in Seq(Int) /\ Len(all) \in Nat
  <2>1. all \in Seq(Int)
    BY ClosedAnswerHolds
  <2> HIDE DEF all
  <2>2. QED BY <2>1
<1>2. cut = SubSeq(all, IF Len(all) > limit THEN Len(all) - limit + 1 ELSE 1, Len(all))
  BY DEF ClosedCandles, ClosedAnswer
<1> HIDE DEF all, cut
<1>3. start \in Nat /\ cut = SubSeq(all, start + 1, Len(all)) /\ start <= Len(all)
      /\ Len(all) - start = Minimum(limit, Len(all))
  <2>1. CASE Len(all) > limit
    BY <1>1, <1>2, <2>1 DEF Minimum
  <2>2. CASE ~(Len(all) > limit)
    <3>1. start = 0 /\ start + 1 = 1 /\ Minimum(limit, Len(all)) = Len(all)
      BY <1>1, <2>2 DEF Minimum
    <3>2. QED BY <1>1, <1>2, <2>2, <3>1
  <2>3. QED BY <2>1, <2>2
<1> HIDE DEF start
<1>4. /\ cut \in Seq(Int) /\ Len(cut) = Len(all) - start
      /\ \A i \in 1..Len(cut) : cut[i] = all[start + i]
  <2>1. \A i \in (start + 1)..Len(all) : all[i] \in Int
    BY <1>1, <1>3
  <2>2. cut \in Seq(Int)
    BY <1>1, <1>3, <2>1
  <2>3. Len(cut) = Len(all) - start
    BY <1>1, <1>3
  <2>4. \A i \in 1..Len(cut) : cut[i] = all[start + i]
    <3> TAKE i \in 1..Len(cut)
    <3>1. i \in 1..(Len(all) - (start + 1) + 1) /\ start + 1 + i - 1 = start + i
      BY <1>1, <1>3, <2>3
    <3>2. cut[i] = all[(start + 1) + i - 1]
      BY <1>1, <1>3, <3>1
    <3>3. QED BY <1>3, <3>1, <3>2
  <2>5. QED BY <2>2, <2>3, <2>4
<1>5. start + Len(cut) = Len(all)
  BY <1>1, <1>3, <1>4
<1>6. QED BY <1>1, <1>3, <1>4, <1>5 DEF all, cut

\* The validator's errors are what the strategy's series and the clock demand.
LEMMA UsableIsValid ==
  ASSUME NEW candles \in Seq(Int), NEW until \in Int
  PROVE  LET series == [i \in DOMAIN candles |->
                          [symbol |-> 1, is_closed |-> candles[i] + Duration <= until,
                           open_time |-> candles[i]]]
         IN  IsUsable(candles, until) <=> ValidSeries(series) /\ ~Stale(candles, until)
<1> DEFINE n == Len(candles)
           series == [i \in DOMAIN candles |->
                          [symbol |-> 1, is_closed |-> candles[i] + Duration <= until,
                           open_time |-> candles[i]]]
           Forming == \E i \in DOMAIN candles : candles[i] + Duration > until
<1>0. n \in Nat /\ DOMAIN candles = 1..n /\ \A i \in 1..n : candles[i] \in Int
  OBVIOUS
<1>1. Len(series) = n /\ (series = <<>> <=> candles = <<>>)
      /\ \A i \in 1..n : /\ series[i].symbol = 1 /\ series[i].open_time = candles[i]
                         /\ series[i].is_closed <=> candles[i] + Duration <= until
  <2> DEFINE record(i) == [symbol |-> 1, is_closed |-> candles[i] + Duration <= until,
                           open_time |-> candles[i]]
  <2>1. \A i \in 1..n : record(i).symbol = 1 /\ record(i).open_time = candles[i]
    OBVIOUS
  <2>2. \A i \in 1..n : record(i).is_closed <=> candles[i] + Duration <= until
    OBVIOUS
  <2> HIDE DEF record
  <2>3. series = [i \in 1..n |-> record(i)]
    BY <1>0 DEF record
  <2> HIDE DEF series
  <2>4. Len(series) = n /\ DOMAIN series = 1..n
    BY <1>0, <2>3
  <2>5. series = <<>> <=> candles = <<>>
    <3>1. n = 0 <=> candles = <<>>
      OBVIOUS
    <3>2. n = 0 <=> series = <<>>
      BY <1>0, <2>3, <2>4
    <3>3. QED BY <3>1, <3>2
  <2>6. \A i \in 1..n : series[i] = record(i)
    BY <2>3
  <2>7. QED BY <2>1, <2>2, <2>4, <2>5, <2>6
<1>2. CASE candles = <<>>
  BY <1>1, <1>2 DEF IsUsable, Issues, ValidSeries
<1>3. CASE candles # <<>>
  <2>1. IsUsable(candles, until)
          <=> ~Duplicated(candles) /\ ~OutOfOrder(candles) /\ ~Stale(candles, until) /\ ~Forming
    <3> DEFINE Is(code, holds) == IF holds THEN {code} ELSE {}
    <3>1. Issues(candles, until)
            = UNION {Is("DUPLICATE_CANDLE", Duplicated(candles)),
                     Is("OUT_OF_ORDER", OutOfOrder(candles)),
                     Is("GAP_DETECTED", Gapped(candles)),
                     Is("STALE_DATA", Stale(candles, until)), Is("FORMING_CANDLE", Forming)}
      BY <1>3 DEF Issues
    <3> HIDE DEF Forming
    <3>2. \A code : code \in Issues(candles, until)
            <=> \/ code = "DUPLICATE_CANDLE" /\ Duplicated(candles)
                \/ code = "OUT_OF_ORDER" /\ OutOfOrder(candles)
                \/ code = "GAP_DETECTED" /\ Gapped(candles)
                \/ code = "STALE_DATA" /\ Stale(candles, until)
                \/ code = "FORMING_CANDLE" /\ Forming
      BY <3>1
    <3>3. IsUsable(candles, until)
            <=> \A code \in Issues(candles, until) : code = "GAP_DETECTED"
      BY DEF IsUsable
    <3>4. QED BY <3>2, <3>3
  <2>2. Duration \in Nat
    BY ValidatorAssumption
  <2>3. ~Forming <=> \A i \in 1..n : series[i].is_closed
    <3>1. \A i \in 1..n : candles[i] + Duration > until <=> ~(candles[i] + Duration <= until)
      BY <1>0, <2>2
    <3> HIDE DEF series
    <3>2. QED BY <1>0, <1>1, <3>1
  <2>4. ~Duplicated(candles) /\ ~OutOfOrder(candles)
          <=> \A i \in 2..n : candles[i] > candles[i - 1]
    <3>1. ASSUME ~Duplicated(candles), ~OutOfOrder(candles), NEW i \in 2..n
          PROVE  candles[i] > candles[i - 1]
      <4>1. i - 1 \in 1..n /\ i \in 1..n /\ i - 1 < i
        BY <1>0
      <4>2. candles[i] # candles[i - 1] /\ ~(candles[i] < candles[i - 1])
        BY <1>0, <3>1, <4>1 DEF Duplicated, OutOfOrder
      <4>3. QED BY <1>0, <4>1, <4>2
    <3>2. ASSUME \A i \in 2..n : candles[i] > candles[i - 1]
          PROVE  ~Duplicated(candles) /\ ~OutOfOrder(candles)
      <4>1. Increasing(candles)
        BY <3>2, StepsIncrease
      <4>2. ~Duplicated(candles)
        <5>1. SUFFICES ASSUME NEW i \in 1..n, NEW j \in 1..n, i < j, candles[i] = candles[j]
                       PROVE  FALSE
          BY <1>0 DEF Duplicated
        <5>2. candles[i] < candles[j] /\ candles[i] \in Int
          BY <1>0, <4>1, <5>1 DEF Increasing
        <5>3. QED BY <5>1, <5>2
      <4>3. ~OutOfOrder(candles)
        <5>1. SUFFICES ASSUME NEW i \in 2..n, candles[i] < candles[i - 1] PROVE FALSE
          BY <1>0 DEF OutOfOrder
        <5>2. i \in 1..n /\ i - 1 \in 1..n /\ candles[i] > candles[i - 1]
          BY <1>0, <3>2
        <5>3. candles[i] \in Int /\ candles[i - 1] \in Int
          BY <1>0, <5>2
        <5>4. QED BY <5>1, <5>2, <5>3
      <4>4. QED BY <4>2, <4>3
    <3>3. QED BY <3>1, <3>2
  <2>5. (\A i \in 2..n : candles[i] > candles[i - 1])
          <=> \A i \in 2..Len(series) : series[i].open_time > series[i - 1].open_time
    <3>1. \A i \in 2..n : i \in 1..n /\ i - 1 \in 1..n
      BY <1>0
    <3>2. QED BY <1>1, <3>1
  <2>6. 1 \in 1..n /\ \A i \in 1..n : series[i].symbol = series[1].symbol
    BY <1>0, <1>1, <1>3
  <2> HIDE DEF series, Forming
  <2>7. ValidSeries(series)
          <=> /\ \A i \in 1..n : series[i].is_closed
              /\ \A i \in 2..n : series[i].open_time > series[i - 1].open_time
    BY <1>1, <1>3, <2>6 DEF ValidSeries
  <2>8. IsUsable(candles, until) <=> ValidSeries(series) /\ ~Stale(candles, until)
    BY <1>1, <2>1, <2>3, <2>4, <2>5, <2>7
  <2>9. QED BY <2>8 DEF series
<1>4. QED BY <1>2, <1>3

\* A terminal that answers in order is answered with the newest closed bars.
LEMMA NewestBars ==
  ASSUME NEW rates \in Seq(Int), NEW until \in Int, NEW limit \in Nat \ {0}, Increasing(rates)
  PROVE  LET cut    == ClosedCandles(rates, until, limit)
             closed == {r \in ToSet(rates) : r + Duration <= until
                                             /\ r \in Window(until, limit)}
         IN  /\ Len(cut) = Minimum(limit, Cardinality(closed))
             /\ \A r \in closed \ ToSet(cut), s \in ToSet(cut) : r < s
<1> DEFINE all == ClosedAnswer(rates, until, limit)
           cut == ClosedCandles(rates, until, limit)
           closed == {r \in ToSet(rates) : r + Duration <= until
                                           /\ r \in Window(until, limit)}
<1>1. all \in Seq(Int) /\ ToSet(all) = closed /\ Increasing(all)
  BY ClosedAnswerHolds
<1>2. PICK start \in Nat :
        /\ cut \in Seq(Int) /\ Len(all) \in Nat
        /\ Len(cut) = Minimum(limit, Len(all)) /\ start + Len(cut) = Len(all)
        /\ \A i \in 1..Len(cut) : cut[i] = all[start + i]
  BY BatchIsTheEnd
<1> HIDE DEF all, cut, closed
<1>3. Cardinality(closed) = Len(all)
  BY <1>1, IncreasingCounted
<1>4. ASSUME NEW r \in closed \ ToSet(cut), NEW s \in ToSet(cut) PROVE r < s
  <2>1. PICK j \in 1..Len(all) : r = all[j]
    BY <1>1 DEF ToSet
  <2>2. PICK k \in 1..Len(cut) : s = cut[k]
    BY <1>2 DEF ToSet
  <2>3. Len(cut) \in Nat /\ DOMAIN cut = 1..Len(cut) /\ DOMAIN all = 1..Len(all)
    BY <1>1, <1>2
  <2>4. start + k \in 1..Len(all) /\ s = all[start + k]
    BY <1>2, <2>2, <2>3
  <2>5. j <= start
    <3>1. SUFFICES ASSUME ~(j <= start) PROVE FALSE
      OBVIOUS
    <3>2. j - start \in 1..Len(cut)
      BY <1>2, <2>1, <2>3, <3>1
    <3>3. cut[j - start] = all[start + (j - start)] /\ start + (j - start) = j
      BY <1>2, <2>1, <3>2
    <3>4. r \in ToSet(cut)
      BY <2>1, <2>3, <3>2, <3>3 DEF ToSet
    <3>5. QED BY <3>4
  <2>6. j < start + k
    BY <1>2, <2>1, <2>2, <2>3, <2>5
  <2>7. QED BY <1>1, <2>1, <2>3, <2>4, <2>6 DEF Increasing
<1>5. QED BY <1>2, <1>3, <1>4 DEF cut, closed

\* Whatever the terminal answers, a batch that is let through is sound, and none
\* is refused for another reason (market_data/quality.py, mt5/market_data.py).
THEOREM BatchesAreSound == Inputs => []UsableDataIsSound
<1> DEFINE Batch   == [rates : Seq(Int), until : Int, limit : Nat \ {0}]
           Answered == kind = "batch" => input \in Batch
<1>1. NoInput => Answered
  BY DEF NoInput
<1>2. Answered /\ [TakeInput]_choice => Answered'
  <2> SUFFICES ASSUME Answered, [TakeInput]_choice PROVE Answered'
    OBVIOUS
  <2>1. CASE LoadBatch
    BY <2>1, BatchesAssumption DEF LoadBatch, Take
  <2>2. CASE ObserveHistory \/ EvaluateStudy \/ ProposeTrade
    BY <2>2 DEF ObserveHistory, EvaluateStudy, ProposeTrade, Take
  <2>3. CASE UNCHANGED choice
    BY <2>3 DEF choice
  <2>4. QED BY <2>1, <2>2, <2>3 DEF TakeInput
<1>3. ASSUME NEW batch \in Batch PROVE SoundBatch(batch)
  <2>1. batch.rates \in Seq(Int) /\ batch.until \in Int /\ batch.limit \in Nat \ {0}
    OBVIOUS
  <2>2. ClosedCandles(batch.rates, batch.until, batch.limit) \in Seq(Int)
    BY <2>1, BatchIsTheEnd
  <2>3. QED BY <2>1, <2>2, UsableIsValid, NewestBars DEF SoundBatch, Increasing
<1>4. Answered => UsableDataIsSound
  BY <1>3 DEF UsableDataIsSound
<1>5. QED BY <1>1, <1>2, <1>4, PTL DEF Inputs

-----------------------------------------------------------------------------
(* Examples that are known early *)

\* What has closed by a time is the beginning of a history.
LEMMA ClosedByBegins ==
  ASSUME NEW c, IsHistory(c), NEW T \in Int
  PROVE  /\ Begins(ClosedBy(c, T), c)
         /\ \A i \in 1..Len(c) : c[i].close_time <= T => i <= Len(ClosedBy(c, T))
<1> DEFINE I == {i \in DOMAIN c : c[i].close_time <= T}
           d == ClosedBy(c, T)
           n == Cardinality(I)
<1>1. /\ c \in Seq(Candle) /\ DOMAIN c = 1..Len(c) /\ Len(c) \in Nat
      /\ \A i \in 1..Len(c) : c[i].close_time \in Int
      /\ \A i, j \in 1..Len(c) : i < j => c[i].close_time < c[j].close_time
  BY ClosesInOrder DEF IsHistory, OneTimeframe
<1>2. d = Select(c, I) /\ I \subseteq DOMAIN c
  BY DEF ClosedBy
<1>3. \A i \in I, j \in 1..Len(c) : j <= i => j \in I
  <2> TAKE i \in I, j \in 1..Len(c)
  <2>1. i \in 1..Len(c) /\ c[i].close_time <= T /\ c[i].close_time \in Int
        /\ c[j].close_time \in Int /\ i \in Nat /\ j \in Nat
    BY <1>1
  <2>2. j < i => c[j].close_time < c[i].close_time
    BY <1>1, <2>1
  <2>3. QED BY <1>1, <2>1, <2>2
<1>4. \A i \in 1..Len(c) : c[i].close_time <= T => i \in I
  BY <1>1
<1> HIDE DEF I, d
<1>5. /\ Len(d) = n /\ n \in Nat /\ IsFiniteSet(I) /\ I \subseteq Nat
      /\ \A k \in 1..n : d[k] = c[InOrder(I)[k]]
  BY <1>1, <1>2, Selected
<1>6. n <= Len(c)
  <2>1. IsFiniteSet(1..Len(c)) /\ Cardinality(1..Len(c)) = Len(c)
    BY <1>1, FS_Interval
  <2>2. QED BY <1>1, <1>2, <2>1, FS_Subset
<1>7. ASSUME NEW k \in 1..n PROVE k \in I
  <2>1. SUFFICES ASSUME k \notin I PROVE FALSE
    OBVIOUS
  <2>2. k \in 1..Len(c) /\ k - 1 \in Nat
    BY <1>1, <1>5, <1>6
  <2>3. ASSUME NEW i \in I PROVE i \in 1..(k - 1)
    <3>1. i \in 1..Len(c) /\ ~(k <= i)
      BY <1>1, <1>2, <1>3, <2>1, <2>2
    <3>2. QED BY <1>1, <2>2, <3>1
  <2>4. IsFiniteSet(1..(k - 1)) /\ Cardinality(1..(k - 1)) = k - 1
    BY <2>2, FS_Interval
  <2>5. n <= k - 1
    BY <2>3, <2>4, FS_Subset
  <2>6. QED BY <1>5, <2>5
<1>8. ASSUME NEW k \in 1..n PROVE InOrder(I)[k] = k
  <2>1. k \in I /\ k - 1 \in Nat /\ k \in 1..Len(c)
    BY <1>1, <1>5, <1>6, <1>7
  <2>2. Under(I, k) = 1..(k - 1)
    <3>1. ASSUME NEW j \in 1..(k - 1) PROVE j \in I /\ j < k
      <4>1. j \in 1..Len(c) /\ j <= k /\ j < k
        BY <1>1, <2>1
      <4>2. QED BY <1>3, <2>1, <4>1
    <3>2. ASSUME NEW j \in I, j < k PROVE j \in 1..(k - 1)
      <4>1. j \in 1..Len(c)
        BY <1>1, <1>2
      <4>2. QED BY <1>1, <2>1, <3>2, <4>1
    <3>3. QED BY <3>1, <3>2 DEF Under
  <2>3. Cardinality(Under(I, k)) = k - 1
    BY <2>1, <2>2, FS_Interval
  <2>4. QED BY <1>5, <2>1, <2>3, PlaceInOrder
<1>9. Begins(d, c)
  BY <1>1, <1>5, <1>6, <1>8 DEF Begins
<1>10. ASSUME NEW i \in 1..Len(c), c[i].close_time <= T PROVE i <= n
  <2>1. i \in I
    BY <1>4, <1>10
  <2>2. \E k \in 1..n : InOrder(I)[k] = i
    BY <1>5, <2>1, InOrderSorts
  <2>3. QED BY <1>1, <1>5, <1>8, <2>2
<1>11. QED BY <1>5, <1>9, <1>10 DEF d

\* The candle a vector was observed at is found by its close.
LEMMA SourceFound ==
  ASSUME NEW c, NEW i \in 1..Len(c), NEW v, v.observed_at = c[i].close_time,
         \A j \in 1..Len(c) : c[j].close_time = c[i].close_time => j = i
  PROVE  Source(c, v) = i
BY DEF Source

\* What makes an example: a ready candle, and the close Horizon candles later.
LEMMA LabelledMeans ==
  ASSUME NEW c, IsHistory(c), NEW e \in Labelled(c)
  PROVE  \E k \in DOMAIN Features(c), i \in 1..Len(c) :
            /\ i = InOrder(Ready(c))[k] /\ Source(c, Features(c)[k]) = i
            /\ Features(c)[k].observed_at = c[i].close_time
            /\ Features(c)[k].symbol = c[1].symbol
            /\ HasLabel(c, i) /\ e = Example(c, Features(c)[k])
            /\ e.features = Features(c)[k]
            /\ i + Horizon \in 1..Len(c) /\ e.label_end_at = c[i + Horizon].close_time
<1>1. PICK w \in ToSet(Features(c)) : HasLabel(c, Source(c, w)) /\ e = Example(c, w)
  BY DEF Labelled
<1>2. PICK k \in DOMAIN Features(c) : w = Features(c)[k]
  BY DEF ToSet
<1> DEFINE i == InOrder(Ready(c))[k]
<1>3. Len(c) \in Nat
  BY ClosesInOrder
<1>4. i \in 1..Len(c) /\ w = Vector(c, Indicators(c), i)
  <2>1. /\ Ready(c) \subseteq Nat /\ Ready(c) \subseteq 1..Len(c) /\ IsFiniteSet(Ready(c))
        /\ k \in 1..Cardinality(Ready(c))
        /\ Features(c)[k] = Vector(c, Indicators(c), InOrder(Ready(c))[k])
    BY <1>3, FeaturesListed
  <2>2. i \in Ready(c)
    BY <2>1, InOrderSorts
  <2>3. QED BY <1>2, <2>1, <2>2
<1> HIDE DEF i
<1>5. w.observed_at = c[i].close_time /\ w.symbol = c[i].symbol
  BY <1>4 DEF Vector
<1>6. c[i].symbol = c[1].symbol
  BY <1>4 DEF IsHistory, ValidSeries
<1>7. Source(c, w) = i
  <2>1. \A j \in 1..Len(c) : c[j].close_time = c[i].close_time => j = i
    BY <1>4, ClosesCompared
  <2>2. QED BY <1>4, <1>5, <2>1, SourceFound
<1>8. i + Horizon \in 1..Len(c)
  <2>1. i + Horizon <= Len(c)
    BY <1>1, <1>7 DEF HasLabel
  <2>2. QED BY <1>3, <1>4, <2>1, LabelAssumption
<1>9. e.features = w /\ e.label_end_at = c[i + Horizon].close_time
  BY <1>1, <1>7 DEF Example, LabelEnd
<1>10. QED BY <1>1, <1>2, <1>4, <1>5, <1>6, <1>7, <1>8, <1>9 DEF i

\* An example whose label has ended by a time can be built from what has closed
\* by then.
LEMMA LabelledEarly ==
  ASSUME NEW c, IsHistory(c), NEW e \in Labelled(c), NEW T \in Int, e.label_end_at <= T
  PROVE  ClosedBy(c, T) # <<>> /\ e \in Labelled(ClosedBy(c, T))
<1> DEFINE d == ClosedBy(c, T)
<1>1. PICK k \in DOMAIN Features(c), i \in 1..Len(c) :
            /\ i = InOrder(Ready(c))[k] /\ Source(c, Features(c)[k]) = i
            /\ Features(c)[k].observed_at = c[i].close_time
            /\ HasLabel(c, i) /\ e = Example(c, Features(c)[k])
            /\ i + Horizon \in 1..Len(c) /\ e.label_end_at = c[i + Horizon].close_time
  BY LabelledMeans
<1> DEFINE v == Features(c)[k]
<1>2. Begins(d, c) /\ i + Horizon <= Len(d)
  BY <1>1, ClosedByBegins
<1> HIDE DEF d
<1>3. /\ Len(d) \in Nat /\ Len(c) \in Nat /\ Len(d) <= Len(c) /\ Len(d) > 0
      /\ i \in 1..Len(d) /\ i + Horizon \in 1..Len(d)
  BY <1>1, <1>2, LabelAssumption DEF Begins
<1>4. k \in DOMAIN Features(d) /\ Features(d)[k] = v
  BY <1>1, <1>2, <1>3, FeaturesBegin
<1>5. d[i] = c[i] /\ d[i + Horizon] = c[i + Horizon]
  BY <1>2, <1>3 DEF Begins
<1>6. Source(d, v) = i
  <2>1. ASSUME NEW j \in 1..Len(d), d[j].close_time = d[i].close_time PROVE j = i
    <3>1. j \in 1..Len(c) /\ d[j] = c[j]
      BY <1>2, <1>3 DEF Begins
    <3>2. QED BY <1>5, <2>1, <3>1, ClosesCompared
  <2>2. QED BY <1>1, <1>3, <1>5, <2>1, SourceFound
<1>7. Move(d, i) = Move(c, i)
  BY <1>5 DEF Move
<1>8. HasLabel(d, i)
  BY <1>1, <1>3, <1>5, <1>7 DEF HasLabel
<1>9. Example(d, v) = e
  BY <1>1, <1>5, <1>6, <1>7 DEF Example, LabelEnd
<1>10. v \in ToSet(Features(d))
  BY <1>4 DEF ToSet
<1>11. e \in Labelled(d)
  BY <1>6, <1>8, <1>9, <1>10 DEF Labelled
<1>12. d # <<>>
  BY <1>3
<1>13. QED BY <1>11, <1>12 DEF d

-----------------------------------------------------------------------------
(* The dataset in its order, and the folds cut from it *)

\* The series a dataset is built from: histories of different instruments.
LEMMA SeriesAreHistories ==
  ASSUME NEW series, \A candles \in series : OneTimeframe(candles), ~DatasetError(series)
  PROVE  /\ \A c \in series : IsHistory(c)
         /\ \A a, b \in series : a # b => a[1].symbol # b[1].symbol
BY DEF DatasetError, IsHistory

\* Everything a dataset may hold.
Examples(series) == UNION {Labelled(candles) : candles \in series}

\* An example is observed before its label ends.
LEMMA ExampleMeasured ==
  ASSUME NEW c, IsHistory(c), NEW e \in Labelled(c)
  PROVE  /\ e.features.observed_at \in Int /\ e.label_end_at \in Int
         /\ e.features.observed_at < e.label_end_at
         /\ e.features.symbol = c[1].symbol /\ e.features.symbol \in Nat
<1>1. PICK k \in DOMAIN Features(c), i \in 1..Len(c) :
            /\ Features(c)[k].observed_at = c[i].close_time
            /\ Features(c)[k].symbol = c[1].symbol
            /\ e.features = Features(c)[k]
            /\ i + Horizon \in 1..Len(c) /\ e.label_end_at = c[i + Horizon].close_time
  BY LabelledMeans
<1>2. i < i + Horizon
  BY <1>1, LabelAssumption, ClosesInOrder
<1>3. c[1] \in Candle
  <2>1. 1 \in 1..Len(c)
    BY ClosesInOrder
  <2>2. QED BY <2>1, ClosesInOrder
<1>4. c[1].symbol \in Nat
  BY <1>3 DEF Candle
<1>5. QED BY <1>1, <1>2, <1>4, ClosesInOrder

\* One candle, one example.
LEMMA ExampleOfCandle ==
  ASSUME NEW c, IsHistory(c), NEW e \in Labelled(c), NEW f \in Labelled(c),
         e.features.observed_at = f.features.observed_at
  PROVE  e = f
<1>1. PICK k \in DOMAIN Features(c), i \in 1..Len(c) :
            /\ i = InOrder(Ready(c))[k] /\ Features(c)[k].observed_at = c[i].close_time
            /\ e = Example(c, Features(c)[k]) /\ e.features = Features(c)[k]
  BY LabelledMeans
<1>2. PICK l \in DOMAIN Features(c), j \in 1..Len(c) :
            /\ j = InOrder(Ready(c))[l] /\ Features(c)[l].observed_at = c[j].close_time
            /\ f = Example(c, Features(c)[l]) /\ f.features = Features(c)[l]
  BY LabelledMeans
<1>3. c[i].close_time = c[j].close_time
  BY <1>1, <1>2
<1>4. i = j
  BY <1>3, ClosesCompared
<1>5. k = l
  <2>1. /\ Ready(c) \subseteq Nat /\ IsFiniteSet(Ready(c))
        /\ k \in 1..Cardinality(Ready(c)) /\ l \in 1..Cardinality(Ready(c))
    BY ClosesInOrder, FeaturesListed
  <2>2. QED BY <1>1, <1>2, <1>4, <2>1, InOrderSorts
<1>6. QED BY <1>1, <1>2, <1>5

\* The examples of one history are finitely many.
LEMMA LabelledFinite ==
  ASSUME NEW c, IsHistory(c)
  PROVE  IsFiniteSet(Labelled(c))
<1>1. DOMAIN Features(c) = 1..Cardinality(Ready(c)) /\ Cardinality(Ready(c)) \in Nat
  BY ClosesInOrder, FeaturesListed, FS_CardinalityType
<1>2. IsFiniteSet(DOMAIN Features(c))
  BY <1>1, FS_Interval
<1> DEFINE D == DOMAIN Features(c)
           g == [k \in D |-> Example(c, Features(c)[k])]
           R == {g[k] : k \in D}
<1>3. g \in Surjection(D, R)
  <2>1. g \in [D -> R]
    OBVIOUS
  <2>2. \A r \in R : \E k \in D : g[k] = r
    OBVIOUS
  <2> HIDE DEF g, R, D
  <2>3. QED BY <2>1, <2>2 DEF Surjection
<1>4. IsFiniteSet(R)
  <2> HIDE DEF g, R
  <2>1. QED BY <1>2, <1>3, FS_Surjection
<1>5. Labelled(c) \subseteq R
  <2>1. ASSUME NEW e \in Labelled(c) PROVE e \in R
    <3>1. PICK k \in D : e = Example(c, Features(c)[k])
      BY LabelledMeans
    <3>2. e = g[k]
      BY <3>1
    <3>3. QED BY <3>2
  <2>2. QED BY <2>1
<1>6. QED BY <1>4, <1>5, FS_Subset

\* The dataset lists the examples, each once.
LEMMA DatasetLists ==
  ASSUME NEW series, IsFiniteSet(series), \A candles \in series : OneTimeframe(candles),
         ~DatasetError(series)
  PROVE  /\ ResearchDataset(series) \in Seq(Examples(series))
         /\ \A e \in Examples(series) : \E c \in series : IsHistory(c) /\ e \in Labelled(c)
<1> DEFINE E == Examples(series)
           R == {p \in E \X E : Earlier(p[1], p[2])}
           X == ResearchDataset(series)
<1>1. \A c \in series : IsHistory(c)
  BY SeriesAreHistories
<1>2. \A e \in E : \E c \in series : IsHistory(c) /\ e \in Labelled(c)
  BY <1>1 DEF Examples
<1>3. IsFiniteSet(E)
  <2> DEFINE parts == {Labelled(c) : c \in series}
             f == [c \in series |-> Labelled(c)]
  <2>1. f \in Surjection(series, parts)
    BY DEF Surjection
  <2>2. IsFiniteSet(parts)
    <3> HIDE DEF f, parts
    <3>1. QED BY <2>1, FS_Surjection
  <2>3. \A p \in parts : IsFiniteSet(p)
    BY <1>1, LabelledFinite
  <2>4. E = UNION parts
    BY DEF Examples
  <2> HIDE DEF parts, E
  <2>5. QED BY <2>2, <2>3, <2>4, FS_UNION
<1>4. \A e \in E : e.features.observed_at \in Int /\ e.features.symbol \in Nat
  BY <1>2, ExampleMeasured
<1>5. ASSUME NEW e \in E, NEW f \in E, e # f PROVE Earlier(e, f) \/ Earlier(f, e)
  <2>1. PICK c \in series : IsHistory(c) /\ e \in Labelled(c)
    BY <1>2
  <2>2. PICK d \in series : IsHistory(d) /\ f \in Labelled(d)
    BY <1>2
  <2>3. CASE c = d
    <3>1. e.features.observed_at # f.features.observed_at
      BY <1>5, <2>1, <2>2, <2>3, ExampleOfCandle
    <3>2. QED BY <1>4, <3>1 DEF Earlier
  <2>4. CASE c # d
    <3>1. e.features.symbol # f.features.symbol
      BY <2>1, <2>2, <2>4, SeriesAreHistories, ExampleMeasured
    <3>2. QED BY <1>4, <3>1 DEF Earlier
  <2>5. QED BY <2>3, <2>4
<1>6. StrictlyOrders(R, E)
  <2>1. \A a, b \in E : <<a, b>> \in R <=> Earlier(a, b)
    OBVIOUS
  <2>2. \A a \in E : ~Earlier(a, a)
    BY <1>4 DEF Earlier
  <2>3. \A a, b, c \in E : Earlier(a, b) /\ Earlier(b, c) => Earlier(a, c)
    BY <1>4 DEF Earlier
  <2> HIDE DEF R, E
  <2>4. QED BY <1>5, <2>1, <2>2, <2>3 DEF StrictlyOrders
<1>7. \A s \in E : Preceding(R, E, s) = {d \in E : Earlier(d, s)}
  <2> HIDE DEF E
  <2>1. QED BY DEF Preceding
<1>8. Sorts(X, R, E)
  <2> DEFINE c(i) == CHOOSE e \in E : Cardinality({d \in E : Earlier(d, e)}) = i - 1
  <2>1. X = [i \in 1..Cardinality(E) |-> c(i)]
    BY DEF ResearchDataset, Sorted, Examples
  <2>2. ASSUME NEW i \in 1..Cardinality(E),
               \E s \in E : Cardinality(Preceding(R, E, s)) = i - 1
        PROVE  c(i) \in E /\ Cardinality(Preceding(R, E, c(i))) = i - 1
    <3> HIDE DEF E, R
    <3>1. \E s \in E : Cardinality({d \in E : Earlier(d, s)}) = i - 1
      BY <1>7, <2>2
    <3>2. c(i) \in E /\ Cardinality({d \in E : Earlier(d, c(i))}) = i - 1
      BY <3>1
    <3> HIDE DEF c
    <3>3. QED BY <1>7, <3>2
  <2> HIDE DEF c, X, R, E
  <2>3. X = [i \in 1..Cardinality(E) |-> X[i]]
    BY <2>1
  <2>4. \A i \in 1..Cardinality(E) : X[i] = c(i)
    BY <2>1
  <2>5. QED BY <2>2, <2>3, <2>4 DEF Sorts
<1>9. X \in Seq(E)
  <2> HIDE DEF X, R, E
  <2>1. X \in Bijection(1..Cardinality(E), E)
    BY <1>3, <1>6, <1>8, SortedOnce
  <2>2. X \in [1..Cardinality(E) -> E] /\ Cardinality(E) \in Nat
    BY <1>3, <2>1, FS_CardinalityType DEF Bijection, Injection
  <2>3. QED BY <2>2
<1>10. QED BY <1>2, <1>9

\* The fold's windows lie in the dataset.
LEMMA WindowsFit ==
  ASSUME NEW size \in Nat, NEW config \in WalkForwardConfig, NEW n \in Nat, n >= 1,
         NEW room, room = size - config.training - config.validation - config.test,
         n <= (IF room < 0 THEN 0 ELSE room \div config.step + 1)
  PROVE  LET tests  == config.training + config.validation + (n - 1) * config.step
             checks == tests - config.validation
         IN  /\ checks \in Nat /\ tests \in Nat
             /\ checks >= config.training /\ checks < tests
             /\ tests < tests + config.test /\ tests + config.test <= size
<1> DEFINE past == (n - 1) * config.step
           quotient == room \div config.step
<1>1. /\ config.training \in Nat \ {0} /\ config.validation \in Nat \ {0}
      /\ config.test \in Nat \ {0} /\ config.step \in Nat \ {0}
  BY DEF WalkForwardConfig
<1>2. room \in Int
  BY <1>1
<1>3. room >= 0
  BY <1>2
<1>4. n - 1 <= quotient /\ n - 1 \in Nat /\ quotient \in Int
  BY <1>1, <1>2, <1>3
<1>5. quotient * config.step <= room
  BY <1>1, <1>2, <1>3
<1>6. ASSUME NEW a \in Int, NEW b \in Int, NEW s \in Nat, a <= b PROVE a * s <= b * s
  BY <1>6
<1>7. past <= quotient * config.step
  BY <1>1, <1>4, <1>6
<1>8. past \in Nat
  <2>1. ASSUME NEW a \in Nat, NEW s \in Nat PROVE a * s \in Nat
    OBVIOUS
  <2>2. QED BY <1>1, <1>4, <2>1
<1>9. quotient * config.step \in Int
  BY <1>1, <1>4
<1>10. past <= room
  BY <1>2, <1>5, <1>7, <1>8, <1>9
<1> HIDE DEF past, quotient
<1>11. QED BY <1>1, <1>2, <1>8, <1>10 DEF past

\* What a fold's partitions hold.
LEMMA FoldHolds ==
  ASSUME NEW E, NEW examples \in Seq(E), NEW config \in WalkForwardConfig,
         NEW n \in 1..FoldCount(examples, config)
  PROVE  LET fold == Fold(examples, config, n)
         IN  \E v \in E, t \in E :
                /\ \A e \in ToSet(fold.training) :
                      e \in E /\ e.label_end_at <= v.features.observed_at - config.purge
                /\ \A e \in ToSet(fold.validation) :
                      /\ e \in E /\ e.label_end_at <= t.features.observed_at - config.purge
                      /\ e.features.observed_at >= v.features.observed_at + config.embargo
                /\ \A e \in ToSet(fold.test) :
                      e \in E /\ e.features.observed_at >= t.features.observed_at + config.embargo
                /\ fold.training \in Seq(E) /\ fold.validation \in Seq(E)
                /\ fold.test \in Seq(E)
<1> DEFINE tests  == config.training + config.validation + (n - 1) * config.step
           checks == tests - config.validation
           first  == IF config.expanding THEN 1 ELSE checks - config.training + 1
           v == examples[checks + 1]
           t == examples[tests + 1]
           I == {i \in first..checks :
                   examples[i].label_end_at <= v.features.observed_at - config.purge}
           J == {i \in (checks + 1)..tests :
                   /\ examples[i].features.observed_at
                         >= v.features.observed_at + config.embargo
                   /\ examples[i].label_end_at <= t.features.observed_at - config.purge}
           K == {i \in (tests + 1)..(tests + config.test) :
                   examples[i].features.observed_at
                      >= t.features.observed_at + config.embargo}
           fold == Fold(examples, config, n)
<1>1. /\ fold.training = Select(examples, I) /\ fold.validation = Select(examples, J)
      /\ fold.test = Select(examples, K)
  BY DEF Fold
<1>2. DOMAIN examples = 1..Len(examples) /\ Len(examples) \in Nat
  OBVIOUS
<1>3. /\ config.training \in Nat \ {0} /\ config.validation \in Nat \ {0}
      /\ config.test \in Nat \ {0}
  BY DEF WalkForwardConfig
<1>4. /\ checks \in Nat /\ tests \in Nat /\ checks >= config.training /\ checks < tests
      /\ tests < tests + config.test /\ tests + config.test <= Len(examples)
  <2> DEFINE room == Len(examples) - config.training - config.validation - config.test
  <2>1. FoldCount(examples, config) = IF room < 0 THEN 0 ELSE room \div config.step + 1
    BY DEF FoldCount
  <2>2. FoldCount(examples, config) \in Int
    BY <1>2, <1>3, <2>1 DEF WalkForwardConfig
  <2>3. n \in Nat /\ n >= 1 /\ n <= FoldCount(examples, config)
    BY <2>2
  <2> HIDE DEF room
  <2>4. QED BY <1>2, <2>1, <2>3, WindowsFit DEF room
<1> HIDE DEF tests, checks
<1>5. first \in Nat /\ first >= 1
  BY <1>3, <1>4
<1> HIDE DEF first
<1>6. checks + 1 \in 1..Len(examples) /\ tests + 1 \in 1..Len(examples)
  BY <1>2, <1>3, <1>4
<1>7. v \in E /\ t \in E
  BY <1>2, <1>6
<1>8. I \subseteq DOMAIN examples /\ J \subseteq DOMAIN examples /\ K \subseteq DOMAIN examples
  <2>1. \A i \in first..checks : i \in 1..Len(examples)
    BY <1>2, <1>3, <1>4, <1>5
  <2>2. \A i \in (checks + 1)..tests : i \in 1..Len(examples)
    BY <1>2, <1>3, <1>4
  <2>3. \A i \in (tests + 1)..(tests + config.test) : i \in 1..Len(examples)
    BY <1>2, <1>3, <1>4
  <2>4. QED BY <1>2, <2>1, <2>2, <2>3
<1>9. /\ \A i \in I : examples[i].label_end_at <= v.features.observed_at - config.purge
      /\ \A i \in J : /\ examples[i].features.observed_at
                            >= v.features.observed_at + config.embargo
                      /\ examples[i].label_end_at <= t.features.observed_at - config.purge
      /\ \A i \in K : examples[i].features.observed_at
                         >= t.features.observed_at + config.embargo
  OBVIOUS
<1> HIDE DEF I, J, K, v, t, fold
<1>10. /\ ToSet(fold.training) = {examples[i] : i \in I} /\ fold.training \in Seq(E)
       /\ ToSet(fold.validation) = {examples[i] : i \in J} /\ fold.validation \in Seq(E)
       /\ ToSet(fold.test) = {examples[i] : i \in K} /\ fold.test \in Seq(E)
  BY <1>1, <1>8, Selected
<1>11. \A i \in I \cup J \cup K : examples[i] \in E
  BY <1>8
<1>12. /\ \A e \in ToSet(fold.training) :
             e \in E /\ e.label_end_at <= v.features.observed_at - config.purge
       /\ \A e \in ToSet(fold.validation) :
             /\ e \in E /\ e.label_end_at <= t.features.observed_at - config.purge
             /\ e.features.observed_at >= v.features.observed_at + config.embargo
       /\ \A e \in ToSet(fold.test) :
             e \in E /\ e.features.observed_at >= t.features.observed_at + config.embargo
  BY <1>9, <1>10, <1>11
<1>13. QED BY <1>7, <1>10, <1>12 DEF fold

\* In the order the partitions have, the one is over before the next begins.
Precedes(a, b) == \A s \in ObservedAt(a), t \in ObservedAt(b) : s < t

\* What one partition's labels need had closed, purge and embargo before any
\* observation of the next.
LEMMA PartsApart ==
  ASSUME NEW series, IsFiniteSet(series), \A candles \in series : OneTimeframe(candles),
         ~DatasetError(series), NEW purge \in Nat, NEW embargo \in Nat, NEW boundary \in Int,
         NEW part \in Seq(Examples(series)), NEW next \in Seq(Examples(series)),
         \A e \in ToSet(part) : e.label_end_at <= boundary - purge,
         \A e \in ToSet(next) : e.features.observed_at >= boundary + embargo
  PROVE  /\ Precedes(part, next)
         /\ KnownBefore(series, purge + embargo, part, next)
<1>1. \A e \in Examples(series) : \E c \in series : IsHistory(c) /\ e \in Labelled(c)
  BY DatasetLists
<1>2. ASSUME NEW f \in ToSet(next)
      PROVE  /\ f.features.observed_at \in Int /\ f.features.observed_at >= boundary + embargo
  <2>1. f \in Examples(series)
    BY DEF ToSet
  <2>2. QED BY <1>1, <2>1, ExampleMeasured
<1>3. ASSUME NEW e \in ToSet(part)
      PROVE  /\ e.features.observed_at \in Int /\ e.label_end_at \in Int
             /\ e.features.observed_at < e.label_end_at
             /\ e.label_end_at <= boundary - purge
             /\ \E c \in series : IsHistory(c) /\ e \in Labelled(c)
  <2>1. e \in Examples(series)
    BY DEF ToSet
  <2>2. QED BY <1>1, <2>1, ExampleMeasured
<1>4. /\ \A time \in ObservedAt(next) : \E f \in ToSet(next) : time = f.features.observed_at
      /\ \A time \in ObservedAt(part) : \E e \in ToSet(part) : time = e.features.observed_at
  BY DEF ObservedAt, ToSet
<1>5. Precedes(part, next)
  <2>1. ASSUME NEW s \in ObservedAt(part), NEW t \in ObservedAt(next) PROVE s < t
    <3>1. PICK e \in ToSet(part) : s = e.features.observed_at
      BY <1>4
    <3>2. PICK f \in ToSet(next) : t = f.features.observed_at
      BY <1>4
    <3>3. QED BY <1>2, <1>3, <3>1, <3>2
  <2>2. QED BY <2>1 DEF Precedes
<1>6. ASSUME NEW time \in ObservedAt(next), NEW e \in ToSet(part)
      PROVE  e \in Known(series, time - (purge + embargo))
  <2> DEFINE T == time - (purge + embargo)
  <2>1. PICK f \in ToSet(next) : time = f.features.observed_at
    BY <1>4
  <2>2. T \in Int /\ e.label_end_at <= T
    <3>1. time \in Int /\ time >= boundary + embargo
      BY <1>2, <2>1
    <3>2. e.label_end_at \in Int /\ e.label_end_at <= boundary - purge
      BY <1>3
    <3>3. QED BY <3>1, <3>2
  <2>3. PICK c \in series : IsHistory(c) /\ e \in Labelled(c)
    BY <1>3
  <2> HIDE DEF T
  <2>4. ClosedBy(c, T) # <<>> /\ e \in Labelled(ClosedBy(c, T))
    BY <2>2, <2>3, LabelledEarly
  <2>5. e \in Known(series, T)
    BY <2>4 DEF Known
  <2>6. QED BY <2>5 DEF T
<1>7. KnownBefore(series, purge + embargo, part, next)
  BY <1>6 DEF KnownBefore
<1>8. QED BY <1>5, <1>7

\* One study: no fold is out of order, and none trains on what is not known yet.
LEMMA StudyDoesNotLeak ==
  ASSUME NEW study, study.config \in WalkForwardConfig, IsFiniteSet(study.series),
         \A candles \in study.series : OneTimeframe(candles), ~DatasetError(study.series),
         NEW n \in 1..FoldCount(ResearchDataset(study.series), study.config)
  PROVE  SoundFold(study, Fold(ResearchDataset(study.series), study.config, n))
<1> DEFINE series == study.series
           config == study.config
           E == Examples(series)
           fold == Fold(ResearchDataset(series), config, n)
<1>1. ResearchDataset(series) \in Seq(E)
      /\ \A e \in E : \E c \in series : IsHistory(c) /\ e \in Labelled(c)
  BY DatasetLists
<1>2. config.purge \in Nat /\ config.embargo \in Nat
  BY DEF WalkForwardConfig
<1> HIDE DEF series, config, E
<1>3. PICK v \in E, t \in E :
         /\ \A e \in ToSet(fold.training) :
               e \in E /\ e.label_end_at <= v.features.observed_at - config.purge
         /\ \A e \in ToSet(fold.validation) :
               /\ e \in E /\ e.label_end_at <= t.features.observed_at - config.purge
               /\ e.features.observed_at >= v.features.observed_at + config.embargo
         /\ \A e \in ToSet(fold.test) :
               e \in E /\ e.features.observed_at >= t.features.observed_at + config.embargo
         /\ fold.training \in Seq(E) /\ fold.validation \in Seq(E) /\ fold.test \in Seq(E)
  BY <1>1, FoldHolds DEF config, series
<1>4. v.features.observed_at \in Int /\ t.features.observed_at \in Int
  BY <1>1, ExampleMeasured
<1> HIDE DEF fold
<1>5. /\ Precedes(fold.training, fold.validation)
      /\ KnownBefore(series, config.purge + config.embargo, fold.training, fold.validation)
  BY <1>2, <1>3, <1>4, PartsApart DEF series, E
<1>6. /\ Precedes(fold.validation, fold.test)
      /\ KnownBefore(series, config.purge + config.embargo, fold.validation, fold.test)
  BY <1>2, <1>3, <1>4, PartsApart DEF series, E
<1>7. FoldError(fold) # "order"
  BY <1>5, <1>6 DEF FoldError, Precedes
<1>8. SoundFold(study, fold)
  BY <1>5, <1>6, <1>7 DEF SoundFold, series, config
<1>9. QED BY <1>8 DEF fold, series, config

\* Whatever series and windows a study has, it does not leak
\* (research/dataset.py, research/walk_forward.py).
THEOREM StudiesDoNotLeak == Inputs => []NoLeakage
<1> DEFINE Sound(study) ==
             /\ study.config \in WalkForwardConfig
             /\ IsFiniteSet(study.series) /\ \A candles \in study.series : OneTimeframe(candles)
           Evaluated == kind = "study" => Sound(input)
<1>1. NoInput => Evaluated
  BY DEF NoInput
<1>2. Evaluated /\ [TakeInput]_choice => Evaluated'
  <2> SUFFICES ASSUME Evaluated, [TakeInput]_choice PROVE Evaluated'
    OBVIOUS
  <2>1. CASE EvaluateStudy
    BY <2>1, StudiesAssumption DEF EvaluateStudy, Take
  <2>2. CASE LoadBatch \/ ObserveHistory \/ ProposeTrade
    BY <2>2 DEF LoadBatch, ObserveHistory, ProposeTrade, Take
  <2>3. CASE UNCHANGED choice
    BY <2>3 DEF choice
  <2>4. QED BY <2>1, <2>2, <2>3 DEF TakeInput
<1>3. Evaluated => NoLeakage
  BY StudyDoesNotLeak DEF NoLeakage
<1>4. QED BY <1>1, <1>2, <1>3, PTL DEF Inputs
=============================================================================
