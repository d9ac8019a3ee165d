--------------------------- MODULE PaperOperations ---------------------------
(***************************************************************************)
(* The PAPER trading cycle: PaperCycleRunner draws approved intents and    *)
(* passes them to PaperRuntime.run_once, which submits the order and       *)
(* projects what happened to the accounting ledger, the audit and the      *)
(* alerts (PaperEventProjector, NotificationService).  This is the         *)
(* composition of parts that have modules of their own: the submission is  *)
(* the contract of OneShotOrder with its claim made explicit, the durable  *)
(* order is a snapshot with a version, and the ledger is the set of fills  *)
(* PaperAccounting would project.                                          *)
(*                                                                         *)
(* Order, claim and ledger are durable; what a worker is doing and which   *)
(* alerts it has delivered are lost when it crashes.                       *)
(***************************************************************************)
EXTENDS Naturals, Sequences

CONSTANTS Workers,      \* processes that run cycles
          Keys,         \* idempotency keys of the approved intents
          FillCounts,   \* how many fills an order may have when the broker
                        \* answers (the adapter of the repository fills once)
          MaxMoves,     \* bound: how often other hosts move an order on
          MaxWorkload,  \* run_cycle's max_workload
          MaxChanges,   \* bound: how often readiness changes
          MaxFailures,  \* bound: crashes and failed writes
          None          \* no key, no order

ASSUME BoundAssumption ==
    /\ {MaxWorkload, MaxChanges, MaxFailures, MaxMoves} \subseteq Nat
    /\ FillCounts \subseteq Nat
ASSUME NoneAssumption ==
    None \notin Keys \cup
        [outcome : {"accepted", "rejected", "expired"}, fills : Nat, version : Nat]

VARIABLES
    ready,     \* dependencies ready, entries not blocked, market current
    changes,   \* how often ready has changed
    failures,  \* how many crashes and failed writes there have been
    claim,     \* the submission journal: per key "none", "in_flight", "completed"
    order,     \* the durable order of a key
    ledger,    \* the fills projected to accounting
    worker,    \* what each process is doing
    delivered, \* NotificationService._last_delivered: the alerts of each process
    filled,    \* the fills of a key's order when the broker answered
    heard,     \* the keys of which an alert was delivered
    unheard,   \* the keys whose alert failed in the provider, or that a
               \* process was working on when it died
    answered,  \* the keys whose order a run_once returned after placing it
    late       \* orders a process placed since ready became false

vars == <<ready, changes, failures, claim, order, ledger, worker,
          delivered, filled, heard, unheard, answered, late>>
durable == <<claim, order, ledger>>
ghosts  == <<filled, heard, unheard, answered, late>>

Idle == [pc |-> "idle", key |-> None, units |-> 0, snapshot |-> None,
         emits |-> <<>>, fill |-> 0]

Points == {"idle", "unit", "check", "claim", "place", "complete", "emit",
           "failed", "unprojected"}

(* What submit made of an order, its fills, and what happened to it since. *)
Outcomes == {"accepted", "rejected", "expired"}
Orders == [outcome : Outcomes, fills : Nat, version : Nat]
Codes  == {"projection", "submission"}
WorkerStates ==
    [pc : Points, key : Keys \cup {None}, units : 0..MaxWorkload,
     snapshot : Orders \cup {None}, emits : Seq({"accepted", "fill", "rejected"}),
     fill : Nat]

TypeOK ==
    /\ ready \in BOOLEAN
    /\ changes \in 0..MaxChanges /\ failures \in 0..MaxFailures
    /\ claim \in [Keys -> {"none", "in_flight", "completed"}]
    /\ order \in [Keys -> Orders \cup {None}]
    /\ ledger \subseteq Keys \X (Nat \ {0})
    /\ worker \in [Workers -> WorkerStates]
    /\ delivered \in [Workers -> SUBSET (Keys \X Codes)]
    /\ filled \in [Keys -> Nat]
    /\ heard \subseteq Keys /\ unheard \subseteq Keys
    /\ answered \subseteq Keys
    /\ late \in [Workers -> Nat]

Init ==
    /\ ready = TRUE
    /\ changes = 0
    /\ failures = 0
    /\ claim = [k \in Keys |-> "none"]
    /\ order = [k \in Keys |-> None]
    /\ ledger = {}
    /\ worker = [w \in Workers |-> Idle]
    /\ delivered = [w \in Workers |-> {}]
    /\ filled = [k \in Keys |-> 0]
    /\ heard = {} /\ unheard = {}
    /\ answered = {}
    /\ late = [w \in Workers |-> 0]

At(w, pc)     == worker[w].pc = pc
Goto(w, pc)   == worker' = [worker EXCEPT ![w].pc = pc]
MayFail       == failures < MaxFailures /\ failures' = failures + 1

-----------------------------------------------------------------------------
(* run_cycle *)

(* Mutant: the check is left out for the units after the first.            *)
AssertReady_OncePerPoll(w) == ready \/ worker[w].units > 0

(* _assert_ready.                                                          *)
AssertReady(w) == ready

StartCycle(w) ==
    /\ At(w, "idle")
    /\ AssertReady(w)
    /\ Goto(w, "unit")
    /\ UNCHANGED <<ready, changes, failures, durable, delivered, ghosts>>

(* _assert_ready, evaluated anew for every unit of work, and next_approved *)
(* once it passed.  The source of intents is not part of the repository;   *)
(* it may offer an intent again whose run did not return.                  *)
DrawIntent(w, k) ==
    /\ At(w, "unit")
    /\ worker[w].units < MaxWorkload
    /\ AssertReady(w)
    /\ worker' = [worker EXCEPT ![w].pc = "check", ![w].key = k]
    /\ UNCHANGED <<ready, changes, failures, durable, delivered, ghosts>>

(* The workload is done, there is no intent, or the process is not ready.  *)
EndCycle(w) ==
    /\ At(w, "unit")
    /\ worker' = [worker EXCEPT ![w] = Idle]
    /\ UNCHANGED <<ready, changes, failures, durable, delivered, ghosts>>

(* The check after the intent was drawn, right before run_once.            *)
CheckAgain(w) ==
    /\ At(w, "check")
    /\ IF AssertReady(w) THEN Goto(w, "claim") ELSE worker' = [worker EXCEPT ![w] = Idle]
    /\ UNCHANGED <<ready, changes, failures, durable, delivered, ghosts>>

-----------------------------------------------------------------------------
(* run_once: submission *)

(* A result leads to the next unit of the cycle.                           *)
NextUnit(w) ==
    worker' = [worker EXCEPT ![w] = [Idle EXCEPT !.pc = "unit", !.units = worker[w].units + 1]]

(* journal.claim: a fresh claim, or the replay of a completed outcome, for *)
(* which run_once emits nothing, or an outcome that is not known.          *)
Claim(w) ==
    LET k == worker[w].key
    IN  /\ At(w, "claim")
        /\ CASE claim[k] = "none" ->
                    /\ claim' = [claim EXCEPT ![k] = "in_flight"]
                    /\ Goto(w, "place")
             [] claim[k] = "completed" ->
                    /\ NextUnit(w)
                    /\ UNCHANGED claim
             [] claim[k] = "in_flight" ->
                    /\ Goto(w, "failed")
                    /\ UNCHANGED claim
        /\ UNCHANGED <<ready, changes, failures, order, ledger, delivered, ghosts>>

(* broker.submit stores the order with the fills it got at once, rejected, *)
(* or expired when its time has already passed, and answers with it.       *)
Place(w, outcome, fills) ==
    LET k == worker[w].key
    IN  /\ At(w, "place")
        /\ fills > 0 => outcome = "accepted"
        /\ order' = [order EXCEPT ![k] =
                        [outcome |-> outcome, fills |-> fills, version |-> 0]]
        /\ filled' = [filled EXCEPT ![k] = fills]
        /\ worker' = [worker EXCEPT ![w].pc = "complete", ![w].snapshot = order'[k]]
        /\ late' = [late EXCEPT ![w] = IF ready THEN @ ELSE @ + 1]
        /\ UNCHANGED <<ready, changes, failures, claim, ledger, delivered,
                       heard, unheard, answered>>

(* The kill switch blocks: the claim is abandoned.                         *)
Blocked(w) ==
    /\ At(w, "place")
    /\ ~ready
    /\ claim' = [claim EXCEPT ![worker[w].key] = "none"]
    /\ Goto(w, "failed")
    /\ UNCHANGED <<ready, changes, failures, order, ledger, delivered, ghosts>>

(* The broker or complete raises: the claim stays in flight.               *)
SubmitRaises(w) ==
    /\ At(w, "place") \/ At(w, "complete")
    /\ MayFail
    /\ Goto(w, "failed")
    /\ UNCHANGED <<ready, changes, durable, delivered, ghosts>>

(* complete, and the events _emit_order derives from the returned order.   *)
Emits(snapshot) ==
    (IF snapshot.outcome = "accepted" THEN <<"accepted">> ELSE <<>>)
    \o (IF snapshot.fills > 0 THEN <<"fill">> ELSE <<>>)
    \o (IF snapshot.outcome = "rejected" THEN <<"rejected">> ELSE <<>>)

Complete(w) ==
    /\ At(w, "complete")
    /\ claim' = [claim EXCEPT ![worker[w].key] = "completed"]
    /\ worker' = [worker EXCEPT ![w].pc = "emit",
                                ![w].emits = Emits(worker[w].snapshot)]
    /\ UNCHANGED <<ready, changes, failures, order, ledger, delivered, ghosts>>

-----------------------------------------------------------------------------
(* PaperEventProjector.emit *)

(* Mutant: the last fill of the snapshot is left out.                      *)
FillsLeft_SkipsLast(me) ==
    Head(me.emits) = "fill" /\ me.fill + 1 < me.snapshot.fills

(* The next event is a fill event with fills not yet projected.            *)
FillsLeft(me) == Head(me.emits) = "fill" /\ me.fill < me.snapshot.fills

(* The fills of the event are projected one transaction each.              *)
EmitFill(w) ==
    LET me == worker[w]
    IN  /\ At(w, "emit")
        /\ me.emits # <<>>
        /\ FillsLeft(me)
        /\ ledger' = ledger \cup {<<me.key, me.fill + 1>>}
        /\ worker' = [worker EXCEPT ![w].fill = @ + 1]
        /\ UNCHANGED <<ready, changes, failures, claim, order, delivered, ghosts>>

(* PersistedPaperOrderAudit.record compares the event with the durable     *)
(* order; a mismatch raises.  The alert that follows is best effort.       *)
Audit(w) ==
    LET me == worker[w]
    IN  /\ At(w, "emit")
        /\ me.emits # <<>>
        /\ ~FillsLeft(me)
        /\ IF order[me.key] = me.snapshot
           THEN worker' = [worker EXCEPT ![w].emits = Tail(me.emits)]
           ELSE Goto(w, "unprojected")
        /\ UNCHANGED <<ready, changes, failures, durable, delivered, ghosts>>

ProjectionRaises(w) ==
    /\ At(w, "emit") /\ worker[w].emits # <<>>
    /\ MayFail
    /\ Goto(w, "unprojected")
    /\ UNCHANGED <<ready, changes, durable, delivered, ghosts>>

(* run_once returns the fresh result.                                      *)
Return(w) ==
    /\ At(w, "emit")
    /\ worker[w].emits = <<>>
    /\ NextUnit(w)
    /\ answered' = answered \cup {worker[w].key}
    /\ UNCHANGED <<ready, changes, failures, durable, delivered, filled, heard,
                   unheard, late>>

-----------------------------------------------------------------------------
(* run_once: failures *)

(* Mutant: alerts about different intents count as the same alert.         *)
DedupKey_ByCode(k, code) == code

(* What makes two alerts the same, up to their cooldown.                   *)
DedupKey(k, code) == <<k, code>>

(* NotificationService.publish: suppressed when this process has delivered *)
(* the same alert (once the cooldown is over it may be delivered again,    *)
(* which tells nothing new), delivered otherwise, unless the provider      *)
(* fails: FAILED is returned, run_once drops it and nobody is told.        *)
Publish(w, k, code) ==
    IF DedupKey(k, code) \in delivered[w]
    THEN UNCHANGED <<delivered, heard, unheard, failures>>
    ELSE \/ /\ delivered' = [delivered EXCEPT ![w] = @ \cup {DedupKey(k, code)}]
            /\ heard' = heard \cup {k}
            /\ UNCHANGED <<unheard, failures>>
         \/ /\ MayFail
            /\ unheard' = unheard \cup {k}
            /\ UNCHANGED <<delivered, heard>>

(* The mandatory projection failed: alert, PaperRuntimeProjectionError.    *)
RaiseProjectionError(w) ==
    /\ At(w, "unprojected")
    /\ Publish(w, worker[w].key, "projection")
    /\ worker' = [worker EXCEPT ![w] = Idle]
    /\ UNCHANGED <<ready, changes, durable, filled, answered, late>>

(* The submission failed: alert (and a critical event, written if that     *)
(* works, which nothing here reads); the error ends the cycle.             *)
RaiseSubmissionError(w) ==
    /\ At(w, "failed")
    /\ Publish(w, worker[w].key, "submission")
    /\ worker' = [worker EXCEPT ![w] = Idle]
    /\ UNCHANGED <<ready, changes, durable, filled, answered, late>>

-----------------------------------------------------------------------------
(* The environment *)

(* The process dies: what it had in hand and had delivered is forgotten.   *)
Crash(w) ==
    /\ ~At(w, "idle")
    /\ MayFail
    /\ worker' = [worker EXCEPT ![w] = Idle]
    /\ delivered' = [delivered EXCEPT ![w] = {}]
    /\ unheard' = unheard \cup ({worker[w].key} \ {None})
    /\ UNCHANGED <<ready, changes, durable, filled, heard, answered, late>>

(* A dependency, the entry gate or the age of the market input changes.    *)
ReadinessChanges ==
    /\ changes < MaxChanges
    /\ changes' = changes + 1
    /\ ready' = ~ready
    /\ late' = [w \in Workers |-> 0]
    /\ UNCHANGED <<failures, durable, worker, delivered, filled, heard, unheard,
                   answered>>

(* Another host moves the durable order on, through a mutation of          *)
(* DurablePaper that no event here tells of: it cancels or expires it, or  *)
(* adds liquidity, which may fill it once more.  Which accepted orders are *)
(* still open is not modelled.                                             *)
OrderMoves(k) ==
    /\ order[k] # None
    /\ order[k].outcome = "accepted"
    /\ order[k].version < MaxMoves
    /\ \E more \in {0, 1} :
          order' = [order EXCEPT ![k].version = @ + 1, ![k].fills = @ + more]
    /\ UNCHANGED <<ready, changes, failures, claim, ledger, worker,
                   delivered, ghosts>>

RunCycle(w) ==
    StartCycle(w) \/ (\E k \in Keys : DrawIntent(w, k)) \/ EndCycle(w) \/ CheckAgain(w)

RunOnce(w) ==
    \/ Claim(w)
    \/ \E outcome \in Outcomes, n \in FillCounts : Place(w, outcome, n)
    \/ Blocked(w) \/ SubmitRaises(w) \/ Complete(w)
    \/ EmitFill(w) \/ Audit(w) \/ ProjectionRaises(w) \/ Return(w)
    \/ RaiseProjectionError(w) \/ RaiseSubmissionError(w)

Next ==
    \/ \E w \in Workers : RunCycle(w) \/ RunOnce(w) \/ Crash(w)
    \/ ReadinessChanges
    \/ \E k \in Keys : OrderMoves(k)

Spec == Init /\ [][Next]_vars

-----------------------------------------------------------------------------
(* The fills the order of a key had when the broker answered: those a      *)
(* run_once may see.                                                       *)
FillsOf(k)    == {k} \X (1..filled[k])
WorkedOn(k)   == \E w \in Workers : worker[w].key = k
Projected(k)  == FillsOf(k) \subseteq ledger

(* FreshResultIsProjected: a run_once that returns the order it has just   *)
(* placed has projected every fill of the order it returns, and the ledger *)
(* never holds a fill of an order whose submission is not recorded as      *)
(* completed, nor a fill whose predecessor it lacks, whatever the other    *)
(* process, other hosts, crashes and failed writes do meanwhile.  Fills    *)
(* other hosts add after the broker's answer are not part of the result.   *)
FreshResultIsProjected ==
    /\ \A k \in answered : Projected(k)
    /\ \A f \in ledger :
          /\ f \in FillsOf(f[1])
          /\ claim[f[1]] = "completed"
          /\ f[2] > 1 => <<f[1], f[2] - 1>> \in ledger

(* NoSilentLoss: when nobody is working on a key for which the broker      *)
(* answered with a fill the ledger lacks, an alert about that key has been *)
(* delivered, unless the provider failed while it was published or a       *)
(* process died while it worked on the key.  In particular an alert about  *)
(* one key does not suppress that of another.                              *)
NoSilentLoss ==
    \A k \in Keys : Projected(k) \/ WorkedOn(k) \/ k \in heard \/ k \in unheard

(* OneOrderPastTheGate: after the dependencies stop being ready, or        *)
(* entries are blocked, a process places at most the one order whose unit  *)
(* was past its last check, however much workload its cycle has left.      *)
OneOrderPastTheGate == \A w \in Workers : late[w] <= 1

(* ResultIsProjected: paper_operations.py says of accounting and audit     *)
(* that they are, other than alerts, not best-effort.  So when run_once    *)
(* returns a result, fresh or replayed, for a key nobody else is working   *)
(* on, the fills of that submission should be projected.  It does not      *)
(* hold: the replay of a completed submission returns normally without     *)
(* emitting anything, so a fill that a crash or a failed write left out is *)
(* never projected.                                                        *)
ResultIsProjected ==
    [][\A w \in Workers : (Claim(w) \/ Return(w)) /\ NextUnit(w) =>
          \/ Projected(worker[w].key)
          \/ \E v \in Workers \ {w} : worker[v].key = worker[w].key]_vars

(* NoFillIsForgotten: the same promise for every fill on record, those     *)
(* other hosts add to the order later included.  It does not hold: only a  *)
(* run_once that placed the order projects fills, those of its snapshot.   *)
NoFillIsForgotten ==
    \A k \in Keys : order[k] # None =>
        \/ {k} \X (1..order[k].fills) \subseteq ledger
        \/ WorkedOn(k) \/ k \in heard \/ k \in unheard
=============================================================================
