-------------------------- MODULE PaperAccounting --------------------------
(***************************************************************************)
(* The PAPER account of one currency and its positions, projected from     *)
(* fills and marks.                                                        *)
(*                                                                         *)
(*   apply_fill, mark_position, update_account   accounting/service.py     *)
(*   PostgresPaperAccountingRepository           infrastructure/database/  *)
(*                                               accounting_repository.py  *)
(*                                                                         *)
(* A projection is one transaction under the lock of the account row.  A   *)
(* mark first reads the position without a lock; SQLAlchemy keeps the      *)
(* attributes of a row it has loaded, so the SELECT ... FOR UPDATE that    *)
(* follows locks the row but does not refresh them, and the flush writes   *)
(* only the columns that differ from what was loaded.                      *)
(*                                                                         *)
(* Money and prices are counted in units of 10^-12, what NUMERIC(30, 12)   *)
(* stores; quantities (volume times contract_multiplier) in steps of       *)
(* 1/Scale, so a price times a quantity is an amount in units of 10^-12 /  *)
(* Scale: what Python computes with before the database rounds it.         *)
(***************************************************************************)
EXTENDS Integers, FiniteSets, Functions

CONSTANTS
  Instruments,
  Fills,      \* PAPER fills on record
  FillOf,     \* instrument, signed quantity, price, commission and filled_at
  Marks,      \* invocations of mark
  MarkOf,     \* instrument, price and observed_at of an invocation
  Scale,      \* quantity steps in a contract unit
  Initial,    \* initial_balance
  None        \* no row, nothing loaded

ASSUME AccountingAssumption ==
  /\ FillOf \in [Fills -> [instrument : Instruments, quantity : Int \ {0},
                           price : Nat \ {0}, commission : Nat, at : Nat]]
  /\ MarkOf \in [Marks -> [instrument : Instruments, price : Nat \ {0}, at : Nat]]
  /\ Scale \in Nat \ {0}
  /\ Initial \in Nat \ {0}

VARIABLES
  account,    \* the paper_accounts row of the currency
  position,   \* the paper_positions rows
  ledger,     \* the fills with a paper_accounting_events row
  observed,   \* instrument and observed_at of the paper_mark_events rows
  loaded      \* the position a mark has read, until it ends

vars == <<account, position, ledger, observed, loaded>>

Position == [net : Int, average : Nat, mark : Nat, realized : Int,
             unrealized : Int, fees : Nat, at : Nat]

Account == [realized : Int, unrealized : Int, fees : Nat, cash : Int,
            equity : Int, peak : Int, drawdown : Nat]

ASSUME NoneAssumption == None \notin Position \cup Account

TypeOK ==
  /\ account \in Account \cup {None}
  /\ position \in [Instruments -> Position \cup {None}]
  /\ ledger \subseteq Fills
  /\ observed \subseteq Instruments \X Nat
  /\ loaded \in [Marks -> Position \cup {None}]

Init ==
  /\ account = None
  /\ position = [i \in Instruments |-> None]
  /\ ledger = {}
  /\ observed = {}
  /\ loaded = [m \in Marks |-> None]

-----------------------------------------------------------------------------
(* Arithmetic *)

Abs(x) == IF x < 0 THEN -x ELSE x

Sign(x) == IF x < 0 THEN -1 ELSE 1

Lesser(x, y) == IF x < y THEN x ELSE y

Greater(x, y) == IF x < y THEN y ELSE x

\* The quotient as NUMERIC rounds it: to the nearest unit, a tie away from 0.
Rounded(x, divisor) == Sign(x) * ((2 * Abs(x) + divisor) \div (2 * divisor))

Stored(amount) == Rounded(amount, Scale)

-----------------------------------------------------------------------------
(* apply_fill *)

\* A position that does not exist yet counts as a flat one.
Flat == [net |-> 0, average |-> 0, mark |-> 0, realized |-> 0, unrealized |-> 0,
         fees |-> 0, at |-> 0]

Extends(p, f) == p.net = 0 \/ (p.net > 0) = (f.quantity > 0)

\* Gross P&L of the part that a fill closes.
RealizedDelta(p, f) ==
  IF Extends(p, f) THEN 0
  ELSE (f.price - p.average) * Lesser(Abs(p.net), Abs(f.quantity)) * Sign(p.net)

\* Mutant: a position that is reversed keeps its average.
Average_KeptOnReversal(p, f) ==
  LET net == p.net + f.quantity IN
  IF Extends(p, f)
    THEN Rounded(Abs(p.net) * p.average + Abs(f.quantity) * f.price, Abs(net))
  ELSE IF net = 0 THEN 0 ELSE p.average

\* Average cost; a fill that reverses the position starts a new one.
Average(p, f) ==
  LET net == p.net + f.quantity IN
  IF Extends(p, f)
    THEN Rounded(Abs(p.net) * p.average + Abs(f.quantity) * f.price, Abs(net))
  ELSE IF net = 0 THEN 0
  ELSE IF (net > 0) = (p.net > 0) THEN p.average ELSE f.price

\* The position row after a fill: marked at its price, with no unrealized P&L.
Filled(p, f) ==
  LET net == p.net + f.quantity IN
  [net |-> net,
   average |-> Average(p, f),
   mark |-> IF net = 0 THEN 0 ELSE f.price,
   realized |-> Stored(Scale * p.realized + RealizedDelta(p, f)),
   unrealized |-> 0,
   fees |-> p.fees + f.commission,
   at |-> f.at]

-----------------------------------------------------------------------------
(* update_account *)

\* The instruments with a position row.
Held == {i \in Instruments : position[i] # None}

\* The stored unrealized P&L of the other positions of the currency.
OthersUnrealized(i) == SumFunction([j \in Held \ {i} |-> position[j].unrealized])

\* Mutant: the fees are taken off the realized P&L as well.
Updated_FeesTwice(i, realizedDelta, fee, unrealized) ==
  LET realized == Scale * account.realized + realizedDelta - Scale * fee
      fees == account.fees + fee
      cash == Scale * Initial + realized - Scale * fees
      total == Scale * OthersUnrealized(i) + unrealized
      equity == cash + total
      peak == Greater(Scale * account.peak, equity)
  IN [realized |-> Stored(realized), unrealized |-> Stored(total), fees |-> fees,
      cash |-> Stored(cash), equity |-> Stored(equity), peak |-> Stored(peak),
      drawdown |-> Stored(peak - equity)]

\* The account row, from the row before, what the transaction has realized and
\* charged, and the new unrealized P&L of its position.
Updated(i, realizedDelta, fee, unrealized) ==
  LET realized == Scale * account.realized + realizedDelta
      fees == account.fees + fee
      cash == Scale * Initial + realized - Scale * fees
      total == Scale * OthersUnrealized(i) + unrealized
      equity == cash + total
      peak == Greater(Scale * account.peak, equity)
  IN [realized |-> Stored(realized), unrealized |-> Stored(total), fees |-> fees,
      cash |-> Stored(cash), equity |-> Stored(equity), peak |-> Stored(peak),
      drawdown |-> Stored(peak - equity)]

\* CHECK constraints on the rounded columns; a row that fails them raises.
AccountValid(a) == a.peak >= a.equity /\ a.drawdown = a.peak - a.equity

PositionValid(p) == p.net # 0 \/ (p.average = 0 /\ p.unrealized = 0)

-----------------------------------------------------------------------------
(* PostgresPaperAccountingRepository *)

Initialize ==
  /\ account = None
  /\ account' = [realized |-> 0, unrealized |-> 0, fees |-> 0, cash |-> Initial,
                 equity |-> Initial, peak |-> Initial, drawdown |-> 0]
  /\ UNCHANGED <<position, ledger, observed, loaded>>

Before(f) ==
  IF position[FillOf[f].instrument] = None THEN Flat ELSE position[FillOf[f].instrument]

\* What a projection of the fill makes of the account.
AccountAfter(f) ==
  Updated(FillOf[f].instrument, RealizedDelta(Before(f), FillOf[f]),
          FillOf[f].commission, 0)

\* project_fill.  Evidence already in the ledger is a no-op; a fill older than
\* the last event of its position, or a row the database refuses, raises.
ProjectFill(f) ==
  /\ account # None
  /\ f \notin ledger
  /\ FillOf[f].at >= Before(f).at
  /\ AccountValid(AccountAfter(f))
  /\ account' = AccountAfter(f)
  /\ position' = [position EXCEPT ![FillOf[f].instrument] = Filled(Before(f), FillOf[f])]
  /\ ledger' = ledger \cup {f}
  /\ UNCHANGED <<observed, loaded>>

\* mark: the unlocked read of the position ...
LoadMark(m) ==
  /\ loaded[m] = None
  /\ position[MarkOf[m].instrument] # None
  /\ loaded' = [loaded EXCEPT ![m] = position[MarkOf[m].instrument]]
  /\ UNCHANGED <<account, position, ledger, observed>>

\* Mutant: the flush writes the whole position that was loaded.
Marked_WholeRow(row, stale, price, at, unrealized) ==
  [stale EXCEPT !.mark = price, !.unrealized = Stored(unrealized), !.at = at]

\* The row after the flush: the columns that differ from what was loaded.
Marked(row, stale, price, at, unrealized) ==
  [row EXCEPT
     !.mark = IF price = stale.mark THEN @ ELSE price,
     !.unrealized = IF unrealized = Scale * stale.unrealized THEN @
                    ELSE Stored(unrealized),
     !.at = IF at = stale.at THEN @ ELSE at]

\* ... and the rest, under the locks, on the attributes loaded before.
PersistMark(m) ==
  LET mark == MarkOf[m]
      i == mark.instrument
      stale == loaded[m]
      unrealized == (mark.price - stale.average) * stale.net
      after == Updated(i, 0, 0, unrealized)
      row == Marked(position[i], stale, mark.price, mark.at, unrealized)
  IN /\ stale # None
     /\ account # None
     /\ stale.net # 0
     /\ <<i, mark.at>> \notin observed
     /\ mark.at >= stale.at
     /\ AccountValid(after)
     /\ PositionValid(row)
     /\ account' = after
     /\ position' = [position EXCEPT ![i] = row]
     /\ observed' = observed \cup {<<i, mark.at>>}
     /\ loaded' = [loaded EXCEPT ![m] = None]
     /\ UNCHANGED ledger

\* A mark that is refused, fails or loses its process leaves nothing behind.
EndMark(m) ==
  /\ loaded[m] # None
  /\ loaded' = [loaded EXCEPT ![m] = None]
  /\ UNCHANGED <<account, position, ledger, observed>>

-----------------------------------------------------------------------------

Next ==
  \/ Initialize
  \/ \E f \in Fills : ProjectFill(f)
  \/ \E m \in Marks : LoadMark(m) \/ PersistMark(m) \/ EndMark(m)

Spec == Init /\ [][Next]_vars

-----------------------------------------------------------------------------

LedgerOf(i) == {f \in ledger : FillOf[f].instrument = i}

\* What a fill adds to the net quantity, to the quantity traded, to the money
\* paid, and to the fees.
Quantity == [f \in Fills |-> FillOf[f].quantity]
Traded == [f \in Fills |-> Abs(FillOf[f].quantity)]
Paid == [f \in Fills |-> FillOf[f].quantity * FillOf[f].price]
Commission == [f \in Fills |-> FillOf[f].commission]

Near(x, y, tolerance) == Abs(x - y) <= tolerance

\* Every fill counts once: quantity and fees of a position, and the fees of
\* the account, are the sums over the ledger, whatever is replayed or marked
\* concurrently.
LedgerExplainsPositions ==
  /\ \A i \in Held :
       /\ position[i].net = SumFunctionOnSet(Quantity, LedgerOf(i))
       /\ position[i].fees = SumFunctionOnSet(Commission, LedgerOf(i))
  /\ account # None => account.fees = SumFunctionOnSet(Commission, ledger)

\* What the fills of an instrument may cost in rounding: one rounding of the
\* average, over at most all that was traded, or one of the realized P&L for
\* each, in half units.
RoundingOf(i) ==
  Cardinality(LedgerOf(i)) * Greater(SumFunctionOnSet(Traded, LedgerOf(i)), Scale)

\* Average-cost accounting conserves money through adding, reducing, closing
\* and reversing: what was paid and realized is what the position cost, up to
\* the roundings.
CostIsConserved ==
  \A i \in Held :
    Near(2 * (SumFunctionOnSet(Paid, LedgerOf(i)) + Scale * position[i].realized),
         2 * position[i].net * position[i].average,
         RoundingOf(i))

\* The account is the sum of its positions and adds up in itself; each stored
\* figure is rounded on its own.
AccountAddsUp ==
  account # None =>
    /\ Near(account.realized,
            SumFunction([i \in Held |-> position[i].realized]),
            Cardinality(ledger))
    /\ Near(account.cash, Initial + account.realized - account.fees, 1)
    /\ Near(account.equity, account.cash + account.unrealized, 1)

-----------------------------------------------------------------------------
(* What the sources say and the code does not do *)

\* project_fill: "PAPER fills must be projected in event-time order".
FillsAreProjectedInOrder ==
  [][\A f \in ledger' \ ledger, g \in ledger :
       FillOf[g].instrument = FillOf[f].instrument => FillOf[g].at <= FillOf[f].at]_vars

\* CHECK drawdown_valid: "equity_peak >= equity AND drawdown = equity_peak -
\* equity".  The row a projection computes, as the database rounds it, is one
\* the database accepts, so that a fill in order can be projected.
ProjectionIsAccepted ==
  account # None =>
    \A f \in Fills \ ledger :
      FillOf[f].at >= Before(f).at => AccountValid(AccountAfter(f))
=============================================================================
