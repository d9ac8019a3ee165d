----------------------- MODULE PaperAccountingProofs -----------------------
(***************************************************************************)
(* The ledger explains the positions, average cost conserves money and the *)
(* account adds up, for any instruments, fills, marks and scale, whatever  *)
(* is projected and marked in which order.                                 *)
(*                                                                         *)
(* NUMERIC rounds each figure on its own, so the equations hold up to a    *)
(* number of roundings.  A fill rounds either the average, when it extends *)
(* the position, or the realized P&L, when it reduces it, never both; what *)
(* is not rounded is conserved exactly, also when the position is closed   *)
(* or reversed.  A mark writes the columns that differ from what it has    *)
(* loaded, and none of the columns that the equations are about.           *)
(***************************************************************************)
EXTENDS PaperAccounting, Sums

-----------------------------------------------------------------------------
(* The inductive invariant *)

\* There is no position without an account, and no fill without a position.
RowsComeInOrder ==
  /\ account = None => Held = {} /\ ledger = {}
  /\ \A i \in Instruments \ Held : LedgerOf(i) = {}
  /\ \A m \in Marks : loaded[m] # None => MarkOf[m].instrument \in Held

\* A position is never larger than what was traded.
NetIsTraded ==
  \A i \in Held : Abs(position[i].net) <= SumFunctionOnSet(Traded, LedgerOf(i))

IInv ==
  /\ TypeOK
  /\ IsFiniteSet(ledger) /\ IsFiniteSet(Held)
  /\ RowsComeInOrder
  /\ LedgerExplainsPositions
  /\ NetIsTraded
  /\ CostIsConserved
  /\ AccountAddsUp

-----------------------------------------------------------------------------
(* Lemmas about rounding *)

\* Integer division.
LEMMA Division ==
  ASSUME NEW a \in Nat, NEW b \in Nat \ {0}
  PROVE  /\ a \div b \in Nat
         /\ b * (a \div b) <= a
         /\ a < b * (a \div b) + b
  OBVIOUS

\* Absolute value and sign.
LEMMA AbsIs ==
  ASSUME NEW x \in Int
  PROVE  /\ Abs(x) \in Nat /\ Sign(x) \in {-1, 1}
         /\ x >= 0 => Abs(x) = x /\ Sign(x) = 1
         /\ x < 0 => Abs(x) = -x /\ Sign(x) = -1
  BY DEF Abs, Sign

\* NUMERIC rounds to an integer that is at most half a unit away.
LEMMA RoundedIs ==
  ASSUME NEW x \in Int, NEW d \in Nat \ {0}
  PROVE  /\ Rounded(x, d) \in Int
         /\ 2 * (d * Rounded(x, d)) - 2 * x <= d
         /\ 2 * x - 2 * (d * Rounded(x, d)) <= d
         /\ x >= 0 => Rounded(x, d) >= 0
<1> DEFINE a == Abs(x)
           q == (2 * a + d) \div (2 * d)
<1>1. a \in Nat /\ 2 * a + d \in Nat /\ 2 * d \in Nat \ {0}
  BY AbsIs
<1>2. /\ q \in Nat
      /\ (2 * d) * q <= 2 * a + d
      /\ 2 * a + d < (2 * d) * q + 2 * d
  <2> HIDE DEF a
  <2>1. QED BY <1>1, Division
<1>3. Rounded(x, d) = Sign(x) * q
  BY DEF Rounded
<1> HIDE DEF q
<1>4. (2 * d) * q = 2 * (d * q) /\ d * q \in Int
  BY <1>2
<1>5. CASE x >= 0
  <2>1. a = x /\ Rounded(x, d) = q
    BY <1>2, <1>3, <1>5, AbsIs
  <2>2. QED BY <1>2, <1>4, <2>1
<1>6. CASE x < 0
  <2>1. a = -x /\ Rounded(x, d) = -q
    BY <1>2, <1>3, <1>6, AbsIs
  <2>2. d * (-q) = -(d * q)
    BY <1>2
  <2>3. QED BY <1>2, <1>4, <1>6, <2>1, <2>2
<1>7. QED BY <1>5, <1>6

\* A whole number of units is stored as it is.
LEMMA RoundedExact ==
  ASSUME NEW x \in Int, NEW d \in Nat \ {0}
  PROVE  Rounded(d * x, d) = x
<1> DEFINE r == Rounded(d * x, d)
<1>1. r \in Int /\ 2 * (d * r) - 2 * (d * x) <= d /\ 2 * (d * x) - 2 * (d * r) <= d
  <2>1. d * x \in Int
    OBVIOUS
  <2>2. QED BY <2>1, RoundedIs
<1> HIDE DEF r
<1>2. d * r - d * x = d * (r - x) /\ d * x - d * r = d * (x - r)
  BY <1>1
<1>3. CASE r > x
  <2>1. r - x >= 1 /\ d * (r - x) >= d
    BY <1>1, <1>3
  <2>2. QED BY <1>1, <1>2, <2>1
<1>4. CASE r < x
  <2>1. x - r >= 1 /\ d * (x - r) >= d
    BY <1>1, <1>4
  <2>2. QED BY <1>1, <1>2, <2>1
<1>5. QED BY <1>1, <1>3, <1>4 DEF r

-----------------------------------------------------------------------------
(* Lemmas about one fill *)

Fill == [instrument : Instruments, quantity : Int \ {0}, price : Nat \ {0},
         commission : Nat, at : Nat]

\* A fill that extends a position leaves its realized P&L alone and rounds the
\* average.
LEMMA ExtendingFill ==
  ASSUME NEW p \in Position, NEW f \in Fill, Extends(p, f)
  PROVE  /\ Average(p, f) \in Nat
         /\ RealizedDelta(p, f) = 0
         /\ LET net == p.net + f.quantity
                x == net * Average(p, f) - p.net * p.average - f.quantity * f.price
            IN 2 * x <= Abs(net) /\ -(2 * x) <= Abs(net)
<1> DEFINE n == p.net
           q == f.quantity
           a == p.average
           c == f.price
           m == n + q
           b == Average(p, f)
           y == Abs(n) * a + Abs(q) * c
<1>1. n \in Int /\ q \in Int /\ q # 0 /\ a \in Nat /\ c \in Nat /\ m \in Int
  BY DEF Position, Fill
<1>2. n = 0 \/ (n > 0) = (q > 0)
  BY DEF Extends
<1>3. b = Rounded(y, Abs(m)) /\ RealizedDelta(p, f) = 0
  BY DEF Average, RealizedDelta
<1> HIDE DEF n, q, a, c, b
<1>4. CASE q > 0
  <2>1. n >= 0 /\ Abs(n) = n /\ Abs(q) = q /\ Abs(m) = m /\ m \in Nat \ {0}
    BY <1>1, <1>2, <1>4 DEF Abs
  <2>2. y = n * a + q * c /\ y \in Int /\ n * a \in Nat /\ q * c \in Nat /\ y >= 0
    BY <1>1, <1>4, <2>1
  <2>3. b \in Int /\ b >= 0 /\ 2 * (m * b) - 2 * y <= m /\ 2 * y - 2 * (m * b) <= m
    <3> HIDE DEF y, m
    <3>1. QED BY <1>3, <2>1, <2>2, RoundedIs
  <2>4. QED BY <1>1, <1>3, <2>1, <2>2, <2>3 DEF n, q, a, c, b
<1>5. CASE q < 0
  <2>1. n <= 0 /\ Abs(n) = -n /\ Abs(q) = -q /\ Abs(m) = -m /\ -m \in Nat \ {0}
    BY <1>1, <1>2, <1>5 DEF Abs
  <2>2. y = (-n) * a + (-q) * c /\ y \in Int /\ y >= 0
    BY <1>1, <1>5, <2>1
  <2>3. b \in Int /\ b >= 0 /\ 2 * ((-m) * b) - 2 * y <= -m /\ 2 * y - 2 * ((-m) * b) <= -m
    <3> HIDE DEF y, m
    <3>1. QED BY <1>3, <2>1, <2>2, RoundedIs
  <2>4. (-m) * b = -(m * b) /\ (-n) * a = -(n * a) /\ (-q) * c = -(q * c)
    BY <1>1, <2>3
  <2>5. QED BY <1>1, <1>3, <2>1, <2>2, <2>3, <2>4 DEF n, q, a, c, b
<1>6. QED BY <1>1, <1>4, <1>5

\* A fill that reduces, closes or reverses a position keeps or replaces the
\* average and conserves money exactly.
LEMMA ReducingFill ==
  ASSUME NEW p \in Position, NEW f \in Fill, ~Extends(p, f)
  PROVE  /\ Average(p, f) \in Nat
         /\ RealizedDelta(p, f) \in Int
         /\ f.quantity * f.price + RealizedDelta(p, f)
              = (p.net + f.quantity) * Average(p, f) - p.net * p.average
<1> DEFINE n == p.net
           q == f.quantity
           a == p.average
           c == f.price
           m == n + q
           b == Average(p, f)
           d == RealizedDelta(p, f)
<1>1. n \in Int /\ q \in Int /\ q # 0 /\ a \in Nat /\ c \in Nat /\ m \in Int
  BY DEF Position, Fill
<1>2. n # 0 /\ (n > 0) # (q > 0)
  BY DEF Extends
<1>3. /\ d = (c - a) * Lesser(Abs(n), Abs(q)) * Sign(n)
      /\ b = IF m = 0 THEN 0 ELSE IF (m > 0) = (n > 0) THEN a ELSE c
  BY DEF Average, RealizedDelta
<1> HIDE DEF n, q, a, c, b, d
<1>4. b \in Nat /\ d \in Int /\ q * c + d = m * b - n * a
  <2>1. CASE n > 0 /\ -q <= n
    <3>1. q < 0 /\ Lesser(Abs(n), Abs(q)) = -q /\ Sign(n) = 1
      BY <1>1, <1>2, <2>1 DEF Lesser, Abs, Sign
    <3>2. d = (c - a) * (-q)
      BY <1>1, <1>3, <3>1
    <3>3. d = q * a - q * c
      BY <1>1, <3>2
    <3>4. CASE m = 0
      BY <1>1, <1>3, <3>3, <3>4
    <3>5. CASE m # 0
      BY <1>1, <1>3, <2>1, <3>3, <3>5
    <3>6. QED BY <3>4, <3>5
  <2>2. CASE n > 0 /\ ~(-q <= n)
    <3>1. q < 0 /\ Lesser(Abs(n), Abs(q)) = n /\ Sign(n) = 1 /\ m < 0
      BY <1>1, <1>2, <2>2 DEF Lesser, Abs, Sign
    <3>2. d = c * n - a * n
      BY <1>1, <1>3, <3>1
    <3>3. QED BY <1>1, <1>3, <2>2, <3>1, <3>2
  <2>3. CASE n < 0 /\ q <= -n
    <3>1. q > 0 /\ Lesser(Abs(n), Abs(q)) = q /\ Sign(n) = -1
      BY <1>1, <1>2, <2>3 DEF Lesser, Abs, Sign
    <3>2. d = (c - a) * q * (-1)
      BY <1>1, <1>3, <3>1
    <3>3. d = a * q - c * q
      BY <1>1, <3>2
    <3>4. CASE m = 0
      BY <1>1, <1>3, <3>3, <3>4
    <3>5. CASE m # 0
      BY <1>1, <1>3, <2>3, <3>3, <3>5
    <3>6. QED BY <3>4, <3>5
  <2>4. CASE n < 0 /\ ~(q <= -n)
    <3>1. q > 0 /\ Lesser(Abs(n), Abs(q)) = -n /\ Sign(n) = -1 /\ m > 0
      BY <1>1, <1>2, <2>4 DEF Lesser, Abs, Sign
    <3>2. d = (c - a) * (-n) * (-1)
      BY <1>1, <1>3, <3>1
    <3>3. d = c * n - a * n
      BY <1>1, <3>2
    <3>4. QED BY <1>1, <1>3, <2>4, <3>1, <3>3
  <2>5. QED BY <1>1, <1>2, <2>1, <2>2, <2>3, <2>4
<1>5. QED BY <1>4 DEF n, q, a, c, b, d

\* What one fill may cost: one rounding, of the average or of the realized P&L.
LEMMA OneRounding ==
  ASSUME NEW p \in Position, NEW f \in Fill
  PROVE  /\ Average(p, f) \in Nat
         /\ RealizedDelta(p, f) \in Int
         /\ LET net == p.net + f.quantity
                realized == Stored(Scale * p.realized + RealizedDelta(p, f))
                x == f.quantity * f.price + Scale * realized - Scale * p.realized
                       - net * Average(p, f) + p.net * p.average
            IN /\ realized \in Int
               /\ 2 * x <= Greater(Abs(net), Scale)
               /\ -(2 * x) <= Greater(Abs(net), Scale)
<1> DEFINE n == p.net
           q == f.quantity
           a == p.average
           c == f.price
           m == n + q
           b == Average(p, f)
           d == RealizedDelta(p, f)
           r == p.realized
           s == Stored(Scale * r + d)
           g == Greater(Abs(m), Scale)
           x == q * c + Scale * s - Scale * r - m * b + n * a
<1>1. /\ n \in Int /\ q \in Int /\ a \in Nat /\ c \in Nat /\ m \in Int /\ r \in Int
      /\ Scale \in Nat \ {0}
  BY AccountingAssumption DEF Position, Fill
<1>2. g \in Nat /\ Abs(m) <= g /\ Scale <= g
  BY <1>1, AbsIs DEF Greater
<1>3. CASE Extends(p, f)
  <2>1. /\ b \in Nat /\ d = 0
        /\ 2 * (m * b - n * a - q * c) <= Abs(m)
        /\ -(2 * (m * b - n * a - q * c)) <= Abs(m)
    BY <1>3, ExtendingFill
  <2>2. s = r
    <3>1. Scale * r + 0 = Scale * r
      BY <1>1
    <3>2. QED BY <1>1, <2>1, <3>1, RoundedExact DEF Stored
  <2> HIDE DEF n, q, a, c, b, d, r, s, g
  <2>3. s \in Int /\ 2 * x <= g /\ -(2 * x) <= g
    <3>1. /\ m * b \in Int /\ n * a \in Int /\ q * c \in Int /\ Scale * r \in Int
          /\ Abs(m) \in Nat
      BY <1>1, <2>1, AbsIs
    <3>2. x = q * c - m * b + n * a
      BY <2>2, <3>1
    <3>3. QED BY <1>1, <1>2, <2>1, <2>2, <3>1, <3>2
  <2>4. QED BY <2>1, <2>3 DEF n, q, a, c, b, d, r, s, g
<1>4. CASE ~Extends(p, f)
  <2>1. b \in Nat /\ d \in Int /\ q * c + d = m * b - n * a
    BY <1>4, ReducingFill
  <2> HIDE DEF n, q, a, c, b, d, r, g
  <2>2. /\ s \in Int
        /\ 2 * (Scale * s) - 2 * (Scale * r + d) <= Scale
        /\ 2 * (Scale * r + d) - 2 * (Scale * s) <= Scale
    <3>1. Scale * r + d \in Int
      BY <1>1, <2>1
    <3>2. QED BY <1>1, <3>1, RoundedIs DEF Stored
  <2> HIDE DEF s
  <2>3. s \in Int /\ 2 * x <= g /\ -(2 * x) <= g
    <3>1. m * b \in Int /\ n * a \in Int /\ q * c \in Int /\ Scale * r \in Int /\ Scale * s \in Int
      BY <1>1, <2>1, <2>2
    <3>2. x = Scale * s - Scale * r - d
      BY <2>1, <3>1
    <3>3. QED BY <1>1, <1>2, <2>1, <2>2, <3>1, <3>2
  <2>4. QED BY <2>1, <2>3 DEF n, q, a, c, b, d, r, s, g
<1>5. QED BY <1>3, <1>4

-----------------------------------------------------------------------------
(* Lemmas about the account row *)

\* Figures that are at most three roundings apart differ by at most a unit.
LEMMA WithinAUnit ==
  ASSUME NEW x \in Int, NEW y \in Int,
         2 * (Scale * x) - 2 * (Scale * y) <= 3 * Scale,
         2 * (Scale * y) - 2 * (Scale * x) <= 3 * Scale
  PROVE  Near(x, y, 1)
<1>1. Scale \in Nat \ {0}
  BY AccountingAssumption
<1>2. CASE x >= y + 2
  <2>1. Scale * (x - y) >= Scale * 2 /\ Scale * (x - y) = Scale * x - Scale * y
    BY <1>1, <1>2
  <2>2. QED BY <1>1, <2>1
<1>3. CASE y >= x + 2
  <2>1. Scale * (y - x) >= Scale * 2 /\ Scale * (y - x) = Scale * y - Scale * x
    BY <1>1, <1>3
  <2>2. QED BY <1>1, <2>1
<1>4. QED BY <1>2, <1>3 DEF Near, Abs

\* A sum that is stored is the sum of what is stored, up to a unit; exactly so
\* up to one rounding when one part is a whole number of units.
LEMMA StoredSum ==
  ASSUME NEW x \in Int, NEW y \in Int
  PROVE  /\ Stored(x) \in Int
         /\ Near(Stored(x + y), Stored(x) + Stored(y), 1)
         /\ Near(Stored(Scale * x + y), x + Stored(y), 1)
<1> DEFINE a == Stored(x)
           b == Stored(y)
           c == Stored(x + y)
           d == Stored(Scale * x + y)
<1>1. Scale \in Nat \ {0} /\ x + y \in Int /\ Scale * x \in Int /\ Scale * x + y \in Int
  BY AccountingAssumption
<1>2. /\ a \in Int /\ 2 * (Scale * a) - 2 * x <= Scale /\ 2 * x - 2 * (Scale * a) <= Scale
      /\ b \in Int /\ 2 * (Scale * b) - 2 * y <= Scale /\ 2 * y - 2 * (Scale * b) <= Scale
  BY <1>1, RoundedIs DEF Stored
<1>3. /\ c \in Int
      /\ 2 * (Scale * c) - 2 * (x + y) <= Scale
      /\ 2 * (x + y) - 2 * (Scale * c) <= Scale
  BY <1>1, RoundedIs DEF Stored
<1>4. /\ d \in Int
      /\ 2 * (Scale * d) - 2 * (Scale * x + y) <= Scale
      /\ 2 * (Scale * x + y) - 2 * (Scale * d) <= Scale
  BY <1>1, RoundedIs DEF Stored
<1> HIDE DEF a, b, c, d
<1>5. Scale * (a + b) = Scale * a + Scale * b /\ Scale * (x + b) = Scale * x + Scale * b
  BY <1>1, <1>2
<1>6. Near(c, a + b, 1)
  BY <1>1, <1>2, <1>3, <1>5, WithinAUnit
<1>7. Near(d, x + b, 1)
  BY <1>1, <1>2, <1>4, <1>5, WithinAUnit
<1>8. QED BY <1>2, <1>6, <1>7 DEF a, b, c, d

\* The stored unrealized P&L of the other positions is a number.
LEMMA OthersAreNumbers ==
  ASSUME TypeOK, IsFiniteSet(Held), NEW i \in Instruments
  PROVE  OthersUnrealized(i) \in Int
<1> DEFINE R == Held \ {i}
           g == [j \in R |-> position[j].unrealized]
<1>1. IsFiniteSet(R)
  BY FS_RemoveElement
<1>2. \A j \in R : g[j] \in Int
  BY DEF TypeOK, Held, Position
<1>3. SumFunction(g) = SumFunctionOnSet(g, R)
  BY DEF SumFunction
<1> HIDE DEF R, g
<1>4. SumFunctionOnSet(g, R) \in Int
  BY <1>1, <1>2, SumInt
<1>5. QED BY <1>3, <1>4 DEF OthersUnrealized, R, g

\* A row of update_account adds up, each of its figures rounded on its own.
LEMMA UpdatedIs ==
  ASSUME TypeOK, account # None, IsFiniteSet(Held), NEW i \in Instruments,
         NEW d \in Int, NEW fee \in Nat, NEW u \in Int
  PROVE  /\ Updated(i, d, fee, u) \in Account
         /\ Updated(i, d, fee, u).realized = Stored(Scale * account.realized + d)
         /\ Updated(i, d, fee, u).fees = account.fees + fee
         /\ Near(Updated(i, d, fee, u).cash,
                 Initial + Updated(i, d, fee, u).realized - Updated(i, d, fee, u).fees, 1)
         /\ Near(Updated(i, d, fee, u).equity,
                 Updated(i, d, fee, u).cash + Updated(i, d, fee, u).unrealized, 1)
<1> DEFINE realized == Scale * account.realized + d
           fees == account.fees + fee
           cash == Scale * Initial + realized - Scale * fees
           total == Scale * OthersUnrealized(i) + u
           equity == cash + total
           peak == Greater(Scale * account.peak, equity)
           a == Updated(i, d, fee, u)
<1>1. /\ Scale \in Nat \ {0} /\ Initial \in Nat \ {0} /\ OthersUnrealized(i) \in Int
      /\ account.realized \in Int /\ account.fees \in Nat /\ account.peak \in Int
  BY AccountingAssumption, OthersAreNumbers DEF TypeOK, Account
<1>2. a = [realized |-> Stored(realized), unrealized |-> Stored(total), fees |-> fees,
           cash |-> Stored(cash), equity |-> Stored(equity), peak |-> Stored(peak),
           drawdown |-> Stored(peak - equity)]
  BY DEF Updated
<1>3. /\ realized \in Int /\ fees \in Nat /\ Scale * (Initial - fees) \in Int
      /\ cash = Scale * (Initial - fees) + realized /\ cash \in Int
      /\ total \in Int /\ equity \in Int /\ Initial - fees \in Int
  BY <1>1
<1>4. peak \in Int /\ peak - equity \in Nat
  <2>1. Scale * account.peak \in Int
    BY <1>1
  <2> HIDE DEF equity
  <2>2. QED BY <1>3, <2>1 DEF Greater
<1> HIDE DEF a, realized, fees, cash, total, equity, peak
<1>5. /\ Stored(realized) \in Int /\ Stored(total) \in Int /\ Stored(cash) \in Int
      /\ Stored(equity) \in Int /\ Stored(peak) \in Int /\ Stored(peak - equity) \in Nat
  BY <1>1, <1>3, <1>4, RoundedIs DEF Stored
<1>6. Near(Stored(cash), (Initial - fees) + Stored(realized), 1)
  BY <1>3, StoredSum
<1>7. Near(Stored(equity), Stored(cash) + Stored(total), 1)
  BY <1>3, StoredSum DEF equity
<1>8. (Initial - fees) + Stored(realized) = Initial + Stored(realized) - fees
  BY <1>1, <1>3, <1>5
<1>9. a \in Account
  BY <1>2, <1>3, <1>5 DEF Account
<1>10. QED BY <1>2, <1>6, <1>7, <1>8, <1>9 DEF a, realized, fees

-----------------------------------------------------------------------------
(* Lemmas about the sums over the ledger *)

\* The figures of the fills on record.
LEMMA FillsAre ==
  ASSUME NEW f \in Fills
  PROVE  /\ FillOf[f] \in Fill /\ FillOf[f].instrument \in Instruments
         /\ Quantity[f] = FillOf[f].quantity /\ Quantity[f] \in Int
         /\ Traded[f] = Abs(FillOf[f].quantity) /\ Traded[f] \in Nat
         /\ Paid[f] = FillOf[f].quantity * FillOf[f].price /\ Paid[f] \in Int
         /\ Commission[f] = FillOf[f].commission /\ Commission[f] \in Nat
<1>1. FillOf[f] \in Fill
  BY AccountingAssumption DEF Fill
<1>2. /\ FillOf[f].instrument \in Instruments /\ FillOf[f].quantity \in Int
      /\ FillOf[f].price \in Int /\ FillOf[f].commission \in Nat
  BY <1>1 DEF Fill
<1>3. Abs(FillOf[f].quantity) \in Nat /\ FillOf[f].quantity * FillOf[f].price \in Int
  BY <1>2, AbsIs
<1>4. QED BY <1>1, <1>2, <1>3 DEF Quantity, Traded, Paid, Commission

\* A figure of the fills is a number for each of them.
Figure(x) == \A f \in Fills : x[f] \in Int

LEMMA Figures == Figure(Quantity) /\ Figure(Traded) /\ Figure(Paid) /\ Figure(Commission)
  BY FillsAre DEF Figure

\* Projecting a fill adds its figure to the ledger and to its instrument.
LEMMA LedgerSums ==
  ASSUME TypeOK, IsFiniteSet(ledger), NEW f \in Fills, f \notin ledger,
         ledger' = ledger \cup {f}, NEW x, Figure(x)
  PROVE  /\ SumFunctionOnSet(x, ledger) \in Int
         /\ SumFunctionOnSet(x, ledger') = SumFunctionOnSet(x, ledger) + x[f]
         /\ \A i \in Instruments :
              SumFunctionOnSet(x, LedgerOf(i)) \in Int
         /\ SumFunctionOnSet(x, LedgerOf(FillOf[f].instrument)')
              = SumFunctionOnSet(x, LedgerOf(FillOf[f].instrument)) + x[f]
<1>1. ledger \subseteq Fills /\ \A g \in Fills : x[g] \in Int
  BY DEF TypeOK, Figure
<1>2. ASSUME NEW S \in SUBSET ledger
      PROVE  /\ SumFunctionOnSet(x, S) \in Int
             /\ SumFunctionOnSet(x, S \cup {f}) = SumFunctionOnSet(x, S) + x[f]
  <2>1. IsFiniteSet(S) /\ f \notin S /\ \A g \in S : x[g] \in Int
    BY <1>1, FS_Subset
  <2>2. QED BY <1>1, <2>1, SumInt, SumAdd
<1>3. \A i \in Instruments : LedgerOf(i) \in SUBSET ledger
  BY DEF LedgerOf
<1>4. FillOf[f].instrument \in Instruments
  BY FillsAre
<1>5. LedgerOf(FillOf[f].instrument)' = LedgerOf(FillOf[f].instrument) \cup {f}
  BY DEF LedgerOf
<1>6. QED BY <1>2, <1>3, <1>4, <1>5

\* The fills of an instrument, and their number.
LEMMA LedgerCounts ==
  ASSUME TypeOK, IsFiniteSet(ledger), NEW f \in Fills, f \notin ledger,
         ledger' = ledger \cup {f}
  PROVE  /\ IsFiniteSet(ledger') /\ Cardinality(ledger) \in Nat
         /\ Cardinality(ledger') = Cardinality(ledger) + 1
         /\ \A i \in Instruments : Cardinality(LedgerOf(i)) \in Nat
         /\ Cardinality(LedgerOf(FillOf[f].instrument)')
              = Cardinality(LedgerOf(FillOf[f].instrument)) + 1
         /\ \A i \in Instruments : i # FillOf[f].instrument => LedgerOf(i)' = LedgerOf(i)
<1>1. \A i \in Instruments : IsFiniteSet(LedgerOf(i))
  BY FS_Subset DEF LedgerOf
<1>2. FillOf[f].instrument \in Instruments /\ f \notin LedgerOf(FillOf[f].instrument)
  BY FillsAre DEF LedgerOf
<1>3. LedgerOf(FillOf[f].instrument)' = LedgerOf(FillOf[f].instrument) \cup {f}
  BY DEF LedgerOf
<1>4. \A i \in Instruments : i # FillOf[f].instrument => LedgerOf(i)' = LedgerOf(i)
  BY DEF LedgerOf
<1>5. QED BY <1>1, <1>2, <1>3, <1>4, FS_AddElement, FS_CardinalityType

-----------------------------------------------------------------------------
(* Projecting a fill *)

\* What the invariant says of the position of one instrument.
Explained(i, p) ==
  /\ p \in Position
  /\ p.net = SumFunctionOnSet(Quantity, LedgerOf(i))
  /\ p.fees = SumFunctionOnSet(Commission, LedgerOf(i))
  /\ Abs(p.net) <= SumFunctionOnSet(Traded, LedgerOf(i))
  /\ Near(2 * (SumFunctionOnSet(Paid, LedgerOf(i)) + Scale * p.realized),
          2 * p.net * p.average, RoundingOf(i))

\* A position that does not exist yet is explained as a flat one.
LEMMA BeforeIsExplained ==
  ASSUME IInv, NEW f \in Fills
  PROVE  Explained(FillOf[f].instrument, Before(f))
<1> DEFINE i == FillOf[f].instrument
<1>1. i \in Instruments
  BY FillsAre
<1>2. CASE i \in Held
  <2>1. Before(f) = position[i] /\ position[i] \in Position
    BY <1>2 DEF IInv, TypeOK, Before, Held
  <2>2. QED BY <1>2, <2>1
            DEF IInv, LedgerExplainsPositions, NetIsTraded, CostIsConserved, Explained
<1>3. CASE i \notin Held
  <2>1. Before(f) = Flat /\ LedgerOf(i) = {}
    BY <1>1, <1>3 DEF IInv, RowsComeInOrder, Before, Held
  <2>2. \A x : SumFunctionOnSet(x, LedgerOf(i)) = 0
    BY <2>1, SumEmpty
  <2>3. Cardinality(LedgerOf(i)) = 0 /\ Greater(0, Scale) = Scale /\ Scale \in Nat
    BY <2>1, FS_EmptySet, AccountingAssumption DEF Greater
  <2>4. RoundingOf(i) = 0
    BY <2>2, <2>3 DEF RoundingOf
  <2>5. Flat \in Position
    BY DEF Flat, Position
  <2>6. QED BY <2>1, <2>2, <2>3, <2>4, <2>5 DEF Explained, Flat, Near, Abs
<1>4. QED BY <1>2, <1>3

\* The fields of a position after a fill.
LEMMA FilledIs ==
  ASSUME NEW p \in Position, NEW f \in Fill
  PROVE  /\ Filled(p, f) \in Position
         /\ Filled(p, f).net = p.net + f.quantity
         /\ Filled(p, f).average = Average(p, f)
         /\ Filled(p, f).realized = Stored(Scale * p.realized + RealizedDelta(p, f))
         /\ Filled(p, f).fees = p.fees + f.commission
<1>1. Average(p, f) \in Nat /\ Stored(Scale * p.realized + RealizedDelta(p, f)) \in Int
  BY OneRounding
<1>2. /\ p.net \in Int /\ p.fees \in Nat
      /\ f.quantity \in Int /\ f.price \in Nat /\ f.commission \in Nat /\ f.at \in Nat
  BY DEF Position, Fill
<1>3. p.net + f.quantity \in Int /\ p.fees + f.commission \in Nat
  BY <1>2
<1>4. QED BY <1>1, <1>2, <1>3 DEF Filled, Position

\* The bound on the roundings grows by one rounding with each fill.
LEMMA CostStep ==
  ASSUME NEW x \in Int, NEW y \in Int, NEW n \in Nat, NEW s \in Nat, NEW t \in Nat,
         NEW m \in Nat, NEW z \in Nat,
         Near(x, y, n * Greater(t, s)), m <= t + z,
         NEW u \in Int, NEW v \in Int,
         (u - v) - (x - y) <= Greater(m, s), (x - y) - (u - v) <= Greater(m, s)
  PROVE  Near(u, v, (n + 1) * Greater(t + z, s))
<1> DEFINE a == Greater(t, s)
           b == Greater(t + z, s)
           c == Greater(m, s)
<1>1. a \in Nat /\ b \in Nat /\ c \in Nat /\ a <= b /\ c <= b
  BY DEF Greater
<1>2. x - y <= n * a /\ y - x <= n * a
  <2>1. n * a \in Int
    BY <1>1
  <2> HIDE DEF a
  <2>2. QED BY <2>1 DEF Near, Abs, a
<1> HIDE DEF a, b, c
<1>3. n * a <= n * b /\ n * a \in Int /\ n * b \in Int /\ (n + 1) * b = n * b + b
  BY <1>1
<1>4. (u - v) - (x - y) <= c /\ (x - y) - (u - v) <= c
  BY DEF c
<1>5. u - v <= (n + 1) * b /\ v - u <= (n + 1) * b
  BY <1>1, <1>2, <1>3, <1>4
<1>6. QED BY <1>1, <1>3, <1>5 DEF Near, Abs, b

\* The position after the fill is explained by the ledger with the fill in it.
LEMMA FilledIsExplained ==
  ASSUME IInv, NEW f \in Fills, f \notin ledger, ledger' = ledger \cup {f},
         NEW p, p = Filled(Before(f), FillOf[f])
  PROVE  LET i == FillOf[f].instrument
         IN /\ p \in Position
            /\ p.net = SumFunctionOnSet(Quantity, LedgerOf(i)')
            /\ p.fees = SumFunctionOnSet(Commission, LedgerOf(i)')
            /\ Abs(p.net) <= SumFunctionOnSet(Traded, LedgerOf(i)')
            /\ Near(2 * (SumFunctionOnSet(Paid, LedgerOf(i)') + Scale * p.realized),
                    2 * p.net * p.average,
                    Cardinality(LedgerOf(i)')
                      * Greater(SumFunctionOnSet(Traded, LedgerOf(i)'), Scale))
<1> DEFINE i == FillOf[f].instrument
           o == Before(f)
           g == FillOf[f]
           q == SumFunctionOnSet(Quantity, LedgerOf(i))
           t == SumFunctionOnSet(Traded, LedgerOf(i))
           d == SumFunctionOnSet(Paid, LedgerOf(i))
           k == Cardinality(LedgerOf(i))
<1>1. TypeOK /\ IsFiniteSet(ledger) /\ g \in Fill /\ i \in Instruments
  BY FillsAre DEF IInv
<1>2. /\ o \in Position /\ o.net = q
      /\ o.fees = SumFunctionOnSet(Commission, LedgerOf(i))
      /\ Abs(o.net) <= t
      /\ Near(2 * (d + Scale * o.realized), 2 * o.net * o.average, k * Greater(t, Scale))
  BY BeforeIsExplained DEF Explained, RoundingOf
<1>3. /\ p \in Position /\ p.net = o.net + g.quantity /\ p.average = Average(o, g)
      /\ p.realized = Stored(Scale * o.realized + RealizedDelta(o, g))
      /\ p.fees = o.fees + g.commission
  BY <1>1, <1>2, FilledIs
<1>4. /\ q \in Int /\ t \in Int /\ d \in Int /\ k \in Nat
      /\ SumFunctionOnSet(Quantity, LedgerOf(i)') = q + g.quantity
      /\ SumFunctionOnSet(Commission, LedgerOf(i)') = o.fees + g.commission
      /\ SumFunctionOnSet(Traded, LedgerOf(i)') = t + Abs(g.quantity)
      /\ SumFunctionOnSet(Paid, LedgerOf(i)') = d + g.quantity * g.price
      /\ Cardinality(LedgerOf(i)') = k + 1
  BY <1>1, <1>2, LedgerSums, LedgerCounts, Figures, FillsAre
<1>5. /\ g.quantity \in Int /\ g.price \in Nat /\ o.net \in Int /\ o.average \in Nat
      /\ o.realized \in Int /\ p.net \in Int /\ p.average \in Nat /\ p.realized \in Int
      /\ Scale \in Nat
  BY <1>1, <1>2, <1>3, AccountingAssumption DEF Position, Fill
<1> HIDE DEF i, o, g, q, t, d, k
<1>6. /\ Abs(g.quantity) \in Nat /\ Abs(p.net) \in Nat /\ t \in Nat
      /\ Abs(p.net) <= t + Abs(g.quantity)
  BY <1>2, <1>3, <1>4, <1>5 DEF Abs
<1> DEFINE x == 2 * (d + Scale * o.realized)
           y == 2 * o.net * o.average
           u == 2 * ((d + g.quantity * g.price) + Scale * p.realized)
           v == 2 * p.net * p.average
           e == g.quantity * g.price + Scale * p.realized - Scale * o.realized
                  - p.net * p.average + o.net * o.average
<1>7. 2 * e <= Greater(Abs(p.net), Scale) /\ -(2 * e) <= Greater(Abs(p.net), Scale)
  BY <1>1, <1>2, <1>3, OneRounding
<1>8. /\ x \in Int /\ y \in Int /\ u \in Int /\ v \in Int /\ e \in Int
      /\ (u - v) - (x - y) = 2 * e /\ (x - y) - (u - v) = -(2 * e)
  BY <1>4, <1>5
<1>9. Near(u, v, (k + 1) * Greater(t + Abs(g.quantity), Scale))
  <2>1. Near(x, y, k * Greater(t, Scale))
    BY <1>2
  <2> HIDE DEF x, y, u, v, e
  <2> DEFINE z == Abs(g.quantity)
             m == Abs(p.net)
  <2>2. /\ x \in Int /\ y \in Int /\ u \in Int /\ v \in Int
        /\ k \in Nat /\ Scale \in Nat /\ t \in Nat /\ m \in Nat /\ z \in Nat /\ m <= t + z
    BY <1>4, <1>5, <1>6, <1>8
  <2>3. (u - v) - (x - y) <= Greater(m, Scale) /\ (x - y) - (u - v) <= Greater(m, Scale)
    BY <1>7, <1>8
  <2> HIDE DEF z, m
  <2>4. Near(u, v, (k + 1) * Greater(t + z, Scale))
    BY ONLY <2>1, <2>2, <2>3, CostStep
  <2>5. QED BY <2>4 DEF z
<1>10. QED BY <1>2, <1>3, <1>4, <1>6, <1>9 DEF i

\* The realized P&L of all positions.
RealizedSum == SumFunction([i \in Held |-> position[i].realized])

\* One position changes by as much as their sum.
LEMMA RealizedSumStep ==
  ASSUME position \in [Instruments -> Position \cup {None}], IsFiniteSet(Held),
         NEW i \in Instruments, NEW p \in Position,
         position' = [position EXCEPT ![i] = p],
         NEW o \in Position, o = IF i \in Held THEN position[i] ELSE Flat
  PROVE  /\ Held' = Held \cup {i} /\ IsFiniteSet(Held')
         /\ RealizedSum \in Int
         /\ RealizedSum' = RealizedSum - o.realized + p.realized
<1> DEFINE R == Held \ {i}
           g == [j \in Held |-> position[j].realized]
           h == [j \in Held \cup {i} |-> position'[j].realized]
<1>1. /\ position'[i] = p /\ p # None
      /\ \A j \in Instruments : j # i => position'[j] = position[j]
  BY NoneAssumption
<1>2. Held' = Held \cup {i} /\ R \cup {i} = Held \cup {i} /\ i \notin R
  BY <1>1 DEF Held
<1>3. IsFiniteSet(R) /\ IsFiniteSet(Held \cup {i})
  BY FS_RemoveElement, FS_AddElement
<1>4. /\ \A j \in Held : g[j] = position[j].realized /\ g[j] \in Int
      /\ \A j \in R : h[j] \in Int /\ h[j] = g[j]
      /\ h[i] = p.realized /\ h[i] \in Int
  BY <1>1 DEF Held, Position
<1>5. RealizedSum = SumFunctionOnSet(g, Held) /\ RealizedSum' = SumFunctionOnSet(h, R \cup {i})
  <2>1. RealizedSum' = SumFunction([j \in Held' |-> position'[j].realized])
    BY DEF RealizedSum
  <2>2. QED BY <1>2, <2>1 DEF RealizedSum, SumFunction
<1> HIDE DEF R, g, h
<1>6. SumFunctionOnSet(h, R \cup {i}) = SumFunctionOnSet(h, R) + p.realized
  <2>1. IsFiniteSet(R) /\ i \notin R /\ h[i] \in Int /\ \A j \in R : h[j] \in Int
    BY <1>2, <1>3, <1>4
  <2>2. SumFunctionOnSet(h, R \cup {i}) = SumFunctionOnSet(h, R) + h[i]
    BY ONLY <2>1, SumAdd
  <2>3. QED BY <1>4, <2>2
<1>7. SumFunctionOnSet(h, R) = SumFunctionOnSet(g, R) /\ SumFunctionOnSet(g, R) \in Int
  <2>1. R \subseteq Held
    BY DEF R
  <2>2. SumFunctionOnSet(h, R) = SumFunctionOnSet(g, R)
    BY <1>3, <1>4, SumSame
  <2>3. SumFunctionOnSet(g, R) \in Int
    BY <1>3, <1>4, <2>1, SumInt
  <2>4. QED BY <2>2, <2>3
<1>8. SumFunctionOnSet(g, Held) = SumFunctionOnSet(g, R) + o.realized
  <2>1. CASE i \in Held
    <3>1. SumFunctionOnSet(g, Held) = SumFunctionOnSet(g, Held \ {i}) + g[i]
      BY <1>4, <2>1, SumRemove
    <3>2. QED BY <1>4, <2>1, <3>1 DEF R
  <2>2. CASE i \notin Held
    <3>1. Held = R /\ o.realized = 0
      BY <2>2 DEF R, Flat
    <3>2. QED BY <1>7, <3>1
  <2>3. QED BY <2>1, <2>2
<1>9. o.realized \in Int /\ p.realized \in Int
  BY DEF Position
<1>10. QED BY <1>2, <1>3, <1>5, <1>6, <1>7, <1>8, <1>9

\* A fill keeps the invariant.
LEMMA ProjectFillStep ==
  ASSUME IInv, NEW f \in Fills, ProjectFill(f)
  PROVE  IInv'
<1> DEFINE i == FillOf[f].instrument
           g == FillOf[f]
           o == Before(f)
           p == Filled(o, g)
           d == RealizedDelta(o, g)
           a == AccountAfter(f)
<1>1. /\ TypeOK /\ IsFiniteSet(ledger) /\ IsFiniteSet(Held) /\ RowsComeInOrder
      /\ LedgerExplainsPositions /\ NetIsTraded /\ CostIsConserved /\ AccountAddsUp
  BY DEF IInv
<1>2. /\ account # None /\ f \notin ledger /\ account' = a
      /\ position' = [position EXCEPT ![i] = p] /\ ledger' = ledger \cup {f}
      /\ observed' = observed /\ loaded' = loaded
  BY DEF ProjectFill
<1>3. /\ g \in Fill /\ i \in Instruments /\ g.commission \in Nat
      /\ position \in [Instruments -> Position \cup {None}] /\ account \in Account
  BY <1>1, <1>2, FillsAre DEF TypeOK, Fill
<1>4. o \in Position /\ o = IF i \in Held THEN position[i] ELSE Flat
  BY <1>3, BeforeIsExplained DEF Explained, Before, Held
<1>5. /\ p \in Position /\ d \in Int
      /\ p.realized = Stored(Scale * o.realized + d)
  BY <1>3, <1>4, FilledIs, OneRounding
<1>6. /\ a \in Account /\ a # None
      /\ a.realized = Stored(Scale * account.realized + d)
      /\ a.fees = account.fees + g.commission
      /\ Near(a.cash, Initial + a.realized - a.fees, 1)
      /\ Near(a.equity, a.cash + a.unrealized, 1)
  <2>1. a = Updated(i, d, g.commission, 0)
    BY DEF AccountAfter
  <2> HIDE DEF a, d, i, g
  <2>2. QED BY <1>1, <1>2, <1>3, <1>5, <2>1, UpdatedIs, NoneAssumption
<1>7. /\ position'[i] = p /\ p # None
      /\ \A j \in Instruments : j # i => position'[j] = position[j]
      /\ Held' = Held \cup {i} /\ IsFiniteSet(Held')
      /\ RealizedSum \in Int
      /\ RealizedSum' = RealizedSum - o.realized + p.realized
  <2> HIDE DEF i, p, o
  <2>1. QED BY <1>1, <1>2, <1>3, <1>4, <1>5, RealizedSumStep, NoneAssumption
<1>8. TypeOK'
  <2> HIDE DEF i, p, a
  <2>1. QED BY <1>1, <1>2, <1>3, <1>5, <1>6 DEF TypeOK
<1>9. /\ IsFiniteSet(ledger') /\ Cardinality(ledger) \in Nat
      /\ Cardinality(ledger') = Cardinality(ledger) + 1
      /\ \A j \in Instruments : j # i => LedgerOf(j)' = LedgerOf(j)
  BY <1>1, <1>2, LedgerCounts
<1>10. /\ p.net = SumFunctionOnSet(Quantity, LedgerOf(i)')
       /\ p.fees = SumFunctionOnSet(Commission, LedgerOf(i)')
       /\ Abs(p.net) <= SumFunctionOnSet(Traded, LedgerOf(i)')
       /\ Near(2 * (SumFunctionOnSet(Paid, LedgerOf(i)') + Scale * p.realized),
               2 * p.net * p.average,
               Cardinality(LedgerOf(i)')
                 * Greater(SumFunctionOnSet(Traded, LedgerOf(i)'), Scale))
  BY <1>2, FilledIsExplained
<1>11. a.fees = SumFunctionOnSet(Commission, ledger')
  <2>1. account.fees = SumFunctionOnSet(Commission, ledger)
    BY <1>1, <1>2 DEF LedgerExplainsPositions
  <2>2. SumFunctionOnSet(Commission, ledger')
          = SumFunctionOnSet(Commission, ledger) + Commission[f]
    BY <1>1, <1>2, LedgerSums, Figures
  <2>3. Commission[f] = g.commission
    BY FillsAre
  <2>4. QED BY <1>6, <2>1, <2>2, <2>3
<1>12. Near(a.realized, RealizedSum', Cardinality(ledger'))
  <2>1. Near(account.realized, RealizedSum, Cardinality(ledger))
    BY <1>1, <1>2 DEF AccountAddsUp, RealizedSum
  <2> DEFINE x == account.realized
             y == o.realized
             u == a.realized
             v == p.realized
  <2>2. x \in Int /\ y \in Int /\ u \in Int /\ v \in Int /\ Scale \in Nat \ {0}
    BY <1>3, <1>4, <1>5, <1>6, AccountingAssumption DEF Account, Position
  <2> HIDE DEF d, x, y, u, v, a, p, o
  <2>3. Scale * x + d \in Int /\ Scale * y + d \in Int
    BY <1>5, <2>2
  <2>4. /\ u = Rounded(Scale * x + d, Scale) /\ v = Rounded(Scale * y + d, Scale)
    BY <1>5, <1>6 DEF Stored, x, y, u, v
  <2>5. /\ 2 * (Scale * u) - 2 * (Scale * x + d) <= Scale
        /\ 2 * (Scale * x + d) - 2 * (Scale * u) <= Scale
        /\ 2 * (Scale * v) - 2 * (Scale * y + d) <= Scale
        /\ 2 * (Scale * y + d) - 2 * (Scale * v) <= Scale
    BY <2>2, <2>3, <2>4, RoundedIs
  <2>6. Scale * (u - x) = Scale * u - Scale * x /\ Scale * (v - y) = Scale * v - Scale * y
    BY <2>2
  <2>7. /\ Scale * u \in Int /\ Scale * x \in Int /\ Scale * v \in Int /\ Scale * y \in Int
    BY <2>2
  <2>8. Near(u - x, v - y, 1)
    <3>1. /\ 2 * (Scale * (u - x)) - 2 * (Scale * (v - y)) <= 3 * Scale
          /\ 2 * (Scale * (v - y)) - 2 * (Scale * (u - x)) <= 3 * Scale
      BY <1>5, <2>2, <2>5, <2>6, <2>7
    <3>2. u - x \in Int /\ v - y \in Int
      BY <2>2
    <3>3. QED BY <3>1, <3>2, WithinAUnit
  <2>9. RealizedSum' = RealizedSum - y + v /\ RealizedSum \in Int
    BY <1>7 DEF y, v
  <2>10. Near(x, RealizedSum, Cardinality(ledger))
    BY <2>1 DEF x
  <2>11. Near(u, RealizedSum - y + v, Cardinality(ledger) + 1)
    BY <1>9, <2>2, <2>8, <2>9, <2>10 DEF Near, Abs
  <2>12. QED BY <1>9, <2>9, <2>11 DEF u
<1> HIDE DEF i, g, o, p, d, a
<1>13. LedgerExplainsPositions'
  <2>1. ASSUME NEW j \in Held'
        PROVE  /\ position'[j].net = SumFunctionOnSet(Quantity, LedgerOf(j)')
               /\ position'[j].fees = SumFunctionOnSet(Commission, LedgerOf(j)')
    <3>1. CASE j = i
      BY <1>7, <1>10, <3>1
    <3>2. CASE j # i
      BY <1>1, <1>7, <1>9, <2>1, <3>2 DEF LedgerExplainsPositions, Held
    <3>3. QED BY <3>1, <3>2
  <2>2. Quantity' = Quantity /\ Commission' = Commission
    BY DEF Quantity, Commission
  <2>3. QED BY <1>2, <1>11, <2>1, <2>2 DEF LedgerExplainsPositions
<1>14. NetIsTraded'
  <2>1. ASSUME NEW j \in Held'
        PROVE  Abs(position'[j].net) <= SumFunctionOnSet(Traded, LedgerOf(j)')
    <3>1. CASE j = i
      BY <1>7, <1>10, <3>1
    <3>2. CASE j # i
      BY <1>1, <1>7, <1>9, <2>1, <3>2 DEF NetIsTraded, Held
    <3>3. QED BY <3>1, <3>2
  <2>2. QED BY <2>1 DEF NetIsTraded, Traded
<1>15. CostIsConserved'
  <2>1. ASSUME NEW j \in Held'
        PROVE  Near(2 * (SumFunctionOnSet(Paid, LedgerOf(j)') + Scale * position'[j].realized),
                    2 * position'[j].net * position'[j].average,
                    Cardinality(LedgerOf(j)')
                      * Greater(SumFunctionOnSet(Traded, LedgerOf(j)'), Scale))
    <3>1. CASE j = i
      BY <1>7, <1>10, <3>1
    <3>2. CASE j # i
      BY <1>1, <1>7, <1>9, <2>1, <3>2 DEF CostIsConserved, RoundingOf, Held
    <3>3. QED BY <3>1, <3>2
  <2>2. QED BY <2>1 DEF CostIsConserved, RoundingOf, Paid, Traded
<1>16. RowsComeInOrder'
  <2>1. account' # None
    BY <1>2, <1>6
  <2>2. ASSUME NEW j \in Instruments \ Held' PROVE LedgerOf(j)' = {}
    <3>1. j # i /\ j \notin Held
      BY <1>7, <2>2
    <3>2. QED BY <1>1, <1>9, <2>2, <3>1 DEF RowsComeInOrder
  <2>3. ASSUME NEW m \in Marks, loaded'[m] # None PROVE MarkOf[m].instrument \in Held'
    BY <1>1, <1>2, <1>7, <2>3 DEF RowsComeInOrder
  <2>4. QED BY <2>1, <2>2, <2>3 DEF RowsComeInOrder
<1>17. AccountAddsUp'
  BY <1>2, <1>6, <1>12 DEF AccountAddsUp, RealizedSum
<1>18. QED BY <1>7, <1>8, <1>9, <1>13, <1>14, <1>15, <1>16, <1>17 DEF IInv

-----------------------------------------------------------------------------
(* Marking a position *)

\* A mark changes the mark, the unrealized P&L and the time of a position.
LEMMA MarkedIs ==
  ASSUME NEW row \in Position, NEW stale \in Position,
         NEW price \in Nat, NEW at \in Nat, NEW u \in Int
  PROVE  /\ Marked(row, stale, price, at, u) \in Position
         /\ Marked(row, stale, price, at, u).net = row.net
         /\ Marked(row, stale, price, at, u).average = row.average
         /\ Marked(row, stale, price, at, u).realized = row.realized
         /\ Marked(row, stale, price, at, u).fees = row.fees
<1> DEFINE x == IF price = stale.mark THEN row.mark ELSE price
           y == IF u = Scale * stale.unrealized THEN row.unrealized ELSE Stored(u)
           z == IF at = stale.at THEN row.at ELSE at
           r == [net |-> row.net, average |-> row.average, mark |-> x,
                 realized |-> row.realized, unrealized |-> y, fees |-> row.fees, at |-> z]
<1>1. row = [net |-> row.net, average |-> row.average, mark |-> row.mark,
             realized |-> row.realized, unrealized |-> row.unrealized, fees |-> row.fees,
             at |-> row.at]
  BY DEF Position
<1>2. Marked(row, stale, price, at, u) = [row EXCEPT !.mark = x, !.unrealized = y, !.at = z]
  BY DEF Marked
<1>3. /\ row.net \in Int /\ row.average \in Nat /\ row.realized \in Int /\ row.fees \in Nat
      /\ x \in Nat /\ y \in Int /\ z \in Nat
  <2>1. Stored(u) \in Int
    BY StoredSum
  <2>2. QED BY <2>1 DEF Position
<1> HIDE DEF x, y, z
<1>4. [row EXCEPT !.mark = x, !.unrealized = y, !.at = z] = r
  <2> DEFINE s == [row EXCEPT !.mark = x]
             t == [s EXCEPT !.unrealized = y]
  <2>1. s = [net |-> row.net, average |-> row.average, mark |-> x,
             realized |-> row.realized, unrealized |-> row.unrealized, fees |-> row.fees,
             at |-> row.at]
    BY <1>1
  <2>2. [row EXCEPT !.mark = x, !.unrealized = y, !.at = z] = [t EXCEPT !.at = z]
    OBVIOUS
  <2> HIDE DEF s
  <2>3. t = [net |-> row.net, average |-> row.average, mark |-> x,
             realized |-> row.realized, unrealized |-> y, fees |-> row.fees, at |-> row.at]
    BY <2>1
  <2> HIDE DEF t
  <2>4. [t EXCEPT !.at = z] = r
    BY <2>3
  <2>5. QED BY <2>2, <2>4
<1>5. r \in Position
  BY <1>3 DEF Position
<1>6. QED BY <1>2, <1>4, <1>5

\* A mark keeps the invariant: what it writes from a stale copy is none of the
\* columns that the ledger explains.
LEMMA PersistMarkStep ==
  ASSUME IInv, NEW m \in Marks, PersistMark(m)
  PROVE  IInv'
<1> DEFINE i == MarkOf[m].instrument
           stale == loaded[m]
           u == (MarkOf[m].price - stale.average) * stale.net
           a == Updated(i, 0, 0, u)
           p == Marked(position[i], stale, MarkOf[m].price, MarkOf[m].at, u)
<1>1. /\ TypeOK /\ IsFiniteSet(ledger) /\ IsFiniteSet(Held) /\ RowsComeInOrder
      /\ LedgerExplainsPositions /\ NetIsTraded /\ CostIsConserved /\ AccountAddsUp
  BY DEF IInv
<1>2. /\ stale # None /\ account # None /\ account' = a
      /\ position' = [position EXCEPT ![i] = p] /\ ledger' = ledger
      /\ observed' = observed \cup {<<i, MarkOf[m].at>>}
      /\ loaded' = [loaded EXCEPT ![m] = None]
  BY DEF PersistMark
<1>3. /\ i \in Instruments /\ MarkOf[m].price \in Nat /\ MarkOf[m].at \in Nat
      /\ stale \in Position /\ i \in Held /\ position[i] \in Position
      /\ position \in [Instruments -> Position \cup {None}]
      /\ loaded \in [Marks -> Position \cup {None}]
      /\ account \in Account /\ account.realized \in Int /\ account.fees \in Nat
  BY <1>1, <1>2, AccountingAssumption DEF TypeOK, RowsComeInOrder, Held, Account
<1>4. u \in Int
  BY <1>3 DEF Position
<1> HIDE DEF u
<1>5. /\ a \in Account /\ a # None
      /\ a.realized = account.realized /\ a.fees = account.fees
      /\ Near(a.cash, Initial + a.realized - a.fees, 1)
      /\ Near(a.equity, a.cash + a.unrealized, 1)
  <2>1. Stored(Scale * account.realized + 0) = account.realized
    <3>1. Scale \in Nat \ {0} /\ Scale * account.realized + 0 = Scale * account.realized
      BY <1>3, AccountingAssumption
    <3>2. QED BY <1>3, <3>1, RoundedExact DEF Stored
  <2>2. a.realized = Stored(Scale * account.realized + 0) /\ a.fees = account.fees + 0
        /\ a \in Account
        /\ Near(a.cash, Initial + a.realized - a.fees, 1)
        /\ Near(a.equity, a.cash + a.unrealized, 1)
    <3> HIDE DEF i
    <3>1. TypeOK /\ account # None /\ IsFiniteSet(Held) /\ i \in Instruments
          /\ 0 \in Int /\ 0 \in Nat /\ u \in Int
      BY <1>1, <1>2, <1>3, <1>4
    <3>2. QED BY ONLY <3>1, UpdatedIs DEF a
  <2> HIDE DEF a
  <2>3. QED BY <1>3, <2>1, <2>2, NoneAssumption
<1>6. /\ p \in Position /\ p # None
      /\ p.net = position[i].net /\ p.average = position[i].average
      /\ p.realized = position[i].realized /\ p.fees = position[i].fees
  <2> DEFINE row == position[i]
             price == MarkOf[m].price
             at == MarkOf[m].at
  <2>1. row \in Position /\ stale \in Position /\ price \in Nat /\ at \in Nat /\ u \in Int
    BY <1>3, <1>4
  <2> HIDE DEF row, price, at, stale
  <2> DEFINE w == Marked(row, stale, price, at, u)
  <2>2. /\ w \in Position /\ w.net = row.net /\ w.average = row.average
        /\ w.realized = row.realized /\ w.fees = row.fees
    BY ONLY <2>1, MarkedIs
  <2>3. w # None
    BY <2>2, NoneAssumption
  <2>4. p = w
    BY DEF row, price, at, stale
  <2> HIDE DEF w
  <2>5. QED BY <2>2, <2>3, <2>4 DEF row
<1> HIDE DEF a, p
<1>7. /\ Held' = Held /\ RealizedSum' = RealizedSum
      /\ \A j \in Held : /\ position'[j].net = position[j].net
                         /\ position'[j].average = position[j].average
                         /\ position'[j].realized = position[j].realized
                         /\ position'[j].fees = position[j].fees
  <2>1. /\ Held' = Held \cup {i} /\ RealizedSum \in Int
        /\ RealizedSum' = RealizedSum - position[i].realized + p.realized
    <3> HIDE DEF i
    <3>1. QED BY <1>1, <1>2, <1>3, <1>6, RealizedSumStep
  <2>2. position[i].realized \in Int
    BY <1>3 DEF Position
  <2> HIDE DEF i
  <2>3. \A j \in Held : j # i => position'[j] = position[j]
    BY <1>2, <1>3 DEF Held
  <2>4. position'[i] = p
    BY <1>2, <1>3
  <2>5. QED BY <1>3, <1>6, <2>1, <2>2, <2>3, <2>4
<1>8. TypeOK'
  <2>1. <<i, MarkOf[m].at>> \in Instruments \X Nat
    BY <1>3
  <2> HIDE DEF i
  <2>2. QED BY <1>1, <1>2, <1>3, <1>5, <1>6, <2>1 DEF TypeOK
<1>9. \A j : LedgerOf(j)' = LedgerOf(j)
  BY <1>2 DEF LedgerOf
<1>10. RowsComeInOrder'
  BY <1>1, <1>2, <1>3, <1>5, <1>7, <1>9 DEF RowsComeInOrder
<1>11. LedgerExplainsPositions'
  BY <1>1, <1>2, <1>5, <1>7, <1>9 DEF LedgerExplainsPositions, Quantity, Commission
<1>12. NetIsTraded'
  BY <1>1, <1>7, <1>9 DEF NetIsTraded, Traded
<1>13. CostIsConserved'
  BY <1>1, <1>7, <1>9 DEF CostIsConserved, RoundingOf, Paid, Traded
<1>14. AccountAddsUp'
  BY <1>1, <1>2, <1>5, <1>7 DEF AccountAddsUp, RealizedSum
<1>15. QED BY <1>1, <1>2, <1>7, <1>8, <1>10, <1>11, <1>12, <1>13, <1>14 DEF IInv

-----------------------------------------------------------------------------
(* The theorems *)

\* The invariant holds at first and is kept by every step.
THEOREM Invariant == Spec => []IInv
<1>1. Init => IInv
  <2> SUFFICES ASSUME Init PROVE IInv
    OBVIOUS
  <2>1. TypeOK
    BY DEF Init, TypeOK
  <2>2. Held = {} /\ ledger = {} /\ account = None
    BY DEF Init, Held
  <2>3. RowsComeInOrder
    BY <2>2 DEF Init, RowsComeInOrder, LedgerOf
  <2>4. IsFiniteSet(ledger) /\ IsFiniteSet(Held)
    BY <2>2, FS_EmptySet
  <2>5. QED BY <2>1, <2>2, <2>3, <2>4
            DEF IInv, LedgerExplainsPositions, NetIsTraded, CostIsConserved, AccountAddsUp
<1>2. IInv /\ [Next]_vars => IInv'
  <2> SUFFICES ASSUME IInv, [Next]_vars PROVE IInv'
    OBVIOUS
  <2>1. CASE Initialize
    <3> DEFINE a == [realized |-> 0, unrealized |-> 0, fees |-> 0, cash |-> Initial,
                     equity |-> Initial, peak |-> Initial, drawdown |-> 0]
    <3>1. /\ account = None /\ account' = a /\ position' = position /\ ledger' = ledger
          /\ observed' = observed /\ loaded' = loaded
      BY <2>1 DEF Initialize
    <3>2. a \in Account /\ a # None
      BY AccountingAssumption, NoneAssumption DEF Account
    <3>3. Held = {} /\ ledger = {} /\ TypeOK /\ RowsComeInOrder
      BY <3>1 DEF IInv, RowsComeInOrder
    <3>4. Held' = {} /\ ledger' = {} /\ \A j : LedgerOf(j)' = {}
      BY <3>1, <3>3 DEF Held, LedgerOf
    <3>5. TypeOK' /\ RowsComeInOrder'
      BY <3>1, <3>2, <3>3, <3>4 DEF TypeOK, RowsComeInOrder
    <3>6. LedgerExplainsPositions' /\ NetIsTraded' /\ CostIsConserved'
      <4>1. SumFunctionOnSet(Commission', {}) = 0
        BY SumEmpty
      <4>2. QED BY <3>1, <3>4, <4>1 DEF LedgerExplainsPositions, NetIsTraded, CostIsConserved
    <3>7. AccountAddsUp'
      <4>1. SumFunction([i \in Held' |-> position'[i].realized]) = 0
        <5>1. DOMAIN [i \in Held' |-> position'[i].realized] = {}
          BY <3>4
        <5>2. QED BY <5>1, SumEmpty DEF SumFunction
      <4>2. Cardinality(ledger') = 0
        BY <3>4, FS_EmptySet
      <4>3. /\ account'.realized = 0 /\ account'.unrealized = 0 /\ account'.fees = 0
            /\ account'.cash = Initial /\ account'.equity = Initial /\ Initial \in Int
        BY <3>1, AccountingAssumption
      <4>4. QED BY <4>1, <4>2, <4>3 DEF AccountAddsUp, Near, Abs
    <3>8. QED BY <3>4, <3>5, <3>6, <3>7, FS_EmptySet DEF IInv
  <2>2. ASSUME NEW m \in Marks, LoadMark(m) PROVE IInv'
    <3>1. /\ UNCHANGED <<account, position, ledger, observed>>
          /\ position[MarkOf[m].instrument] # None /\ MarkOf[m].instrument \in Instruments
          /\ loaded' = [loaded EXCEPT ![m] = position[MarkOf[m].instrument]]
      BY <2>2, AccountingAssumption DEF LoadMark
    <3>2. TypeOK'
      BY <3>1 DEF IInv, TypeOK
    <3>3. Held' = Held /\ MarkOf[m].instrument \in Held /\ \A j : LedgerOf(j)' = LedgerOf(j)
      BY <3>1 DEF Held, LedgerOf
    <3>4. RowsComeInOrder'
      BY <3>1, <3>3 DEF IInv, TypeOK, RowsComeInOrder
    <3>5. QED BY <3>1, <3>2, <3>3, <3>4
              DEF IInv, LedgerExplainsPositions, NetIsTraded, CostIsConserved, AccountAddsUp,
                  RoundingOf, Quantity, Traded, Paid, Commission
  <2>3. ASSUME NEW m \in Marks, EndMark(m) PROVE IInv'
    <3>1. /\ UNCHANGED <<account, position, ledger, observed>>
          /\ loaded' = [loaded EXCEPT ![m] = None]
      BY <2>3 DEF EndMark
    <3>2. TypeOK'
      BY <3>1 DEF IInv, TypeOK
    <3>3. Held' = Held /\ \A j : LedgerOf(j)' = LedgerOf(j)
      BY <3>1 DEF Held, LedgerOf
    <3>4. RowsComeInOrder'
      BY <3>1, <3>3 DEF IInv, TypeOK, RowsComeInOrder
    <3>5. QED BY <3>1, <3>2, <3>3, <3>4
              DEF IInv, LedgerExplainsPositions, NetIsTraded, CostIsConserved, AccountAddsUp,
                  RoundingOf, Quantity, Traded, Paid, Commission
  <2>4. CASE UNCHANGED vars
    <3>1. UNCHANGED <<account, position, ledger, observed, loaded>>
      BY <2>4 DEF vars
    <3>2. Held' = Held /\ \A j : LedgerOf(j)' = LedgerOf(j)
      BY <3>1 DEF Held, LedgerOf
    <3>3. QED BY <3>1, <3>2
              DEF IInv, TypeOK, RowsComeInOrder, LedgerExplainsPositions, NetIsTraded,
                  CostIsConserved, AccountAddsUp, RoundingOf, Quantity, Traded, Paid, Commission
  <2>5. QED BY <2>1, <2>2, <2>3, <2>4, ProjectFillStep, PersistMarkStep DEF Next
<1>3. QED BY <1>1, <1>2, PTL DEF Spec

\* Every variable keeps its type.
THEOREM TypeCorrect == Spec => []TypeOK
  BY Invariant, PTL DEF IInv

\* Every fill on record counts exactly once in its position and in the account,
\* whatever is replayed, raced or marked in between (project_fill and mark,
\* accounting_repository.py).
THEOREM LedgerIsComplete == Spec => []LedgerExplainsPositions
  BY Invariant, PTL DEF IInv

\* No money appears or disappears through average-cost accounting beyond one
\* rounding for each fill (apply_fill, accounting/service.py).
THEOREM CostStaysConserved == Spec => []CostIsConserved
  BY Invariant, PTL DEF IInv

\* The realized P&L of the account is that of its positions up to one unit for
\* each fill, and its cash and equity add up to a unit, although every figure is
\* rounded on its own (update_account, accounting/service.py).
THEOREM AccountStaysBalanced == Spec => []AccountAddsUp
  BY Invariant, PTL DEF IInv

=============================================================================
