------------------------ MODULE PaperOperationsProofs ------------------------
(***************************************************************************)
(* The PAPER trading cycle loses no fill in silence, for any number of     *)
(* workers, intents, fills, crashes and failed writes.                     *)
(*                                                                         *)
(* The argument: a claim makes one worker the only one that is ever on the *)
(* way from placing the order of a key to projecting its fills.  Its       *)
(* snapshot shows the fills the broker answered with, however other hosts  *)
(* move the order on, and of those the ledger holds exactly the ones that  *)
(* worker has projected.  Every way off that path but the normal return    *)
(* raises an alert, or is the death of the process.                        *)
(***************************************************************************)
EXTENDS PaperOperations, SequenceTheorems, TLAPS

(* Points of run_cycle and run_once with an intent in hand.                *)
Working == Points \ {"idle", "unit"}

(* Points between winning the claim of a key and its normal return.        *)
Holding == {"place", "complete", "emit"}

(* Points of a run_once that may owe an alert or a projection.             *)
Engaged == {"complete", "emit", "failed", "unprojected"}

(* A worker has an intent exactly while it works, within its workload.     *)
IntentInHand ==
    \A w \in Workers :
        IF worker[w].pc \in Working
        THEN worker[w].key \in Keys /\ worker[w].units < MaxWorkload
        ELSE worker[w].key = None

(* At most one worker is past the claim of a key.                          *)
HolderIsAlone ==
    \A v, w \in Workers :
        /\ worker[v].pc \in Holding /\ worker[w].pc \in Holding
        /\ worker[v].key = worker[w].key
        => v = w

(* What the claim says of the order and the ledger.                        *)
ClaimTells ==
    /\ \A k \in Keys : /\ claim[k] = "none" => order[k] = None
                       /\ claim[k] = "completed" => order[k] # None
    /\ \A k \in answered : claim[k] = "completed"

(* The snapshot of a worker shows what the broker answered.  The durable   *)
(* order still has the outcome and every fill of it, whatever other hosts  *)
(* have made of it since.                                                  *)
SnapshotIsOrder(me) ==
    /\ order[me.key] \in Orders /\ me.snapshot \in Orders
    /\ filled[me.key] = me.snapshot.fills
    /\ order[me.key].fills >= me.snapshot.fills
    /\ order[me.key].outcome = me.snapshot.outcome
    /\ me.snapshot.fills > 0 => me.snapshot.outcome = "accepted"

(* The events a worker has left: once no fill event is among them, every   *)
(* fill of the snapshot is projected.                                      *)
EventsLeft(me) ==
    /\ me.emits \in {<<"accepted", "fill">>, <<"fill">>, <<"accepted">>,
                     <<"rejected">>, <<>>}
    /\ me.fill <= me.snapshot.fills
    /\ me.emits \in {<<"accepted">>, <<"rejected">>, <<>>} =>
          me.fill = me.snapshot.fills

(* Where a worker stands between the claim of its key and its return.      *)
Stands(w) ==
    LET me == worker[w]
    IN  /\ me.pc \in {"idle", "unit", "check", "claim", "place", "complete"} =>
              me.fill = 0
        /\ me.pc = "place" => claim[me.key] = "in_flight" /\ order[me.key] = None
        /\ me.pc = "complete" => claim[me.key] = "in_flight" /\ SnapshotIsOrder(me)
        /\ me.pc = "emit" =>
              /\ claim[me.key] = "completed"
              /\ SnapshotIsOrder(me)
              /\ EventsLeft(me)
              /\ \A n \in 1..me.snapshot.fills :
                    <<me.key, n>> \in ledger <=> n <= me.fill

HolderStands == \A w \in Workers : Stands(w)

(* Every fill of an answer the ledger lacks was alerted, fell to a failing *)
(* provider or a dying process, or is some worker's business.              *)
LossIsNoticed ==
    \A k \in Keys :
        \/ Projected(k)
        \/ k \in heard \/ k \in unheard
        \/ \E w \in Workers : worker[w].key = k /\ worker[w].pc \in Engaged

(* What a process counts as delivered was delivered.                       *)
DeliveredIsHeard == \A w \in Workers : \A d \in delivered[w] : d[1] \in heard

(* A worker that has placed its late order draws no other.                 *)
LateIsLast ==
    \A w \in Workers :
        /\ late[w] <= 1
        /\ late[w] = 1 => ~ready /\ worker[w].pc \notin {"check", "claim", "place"}

(* The inductive invariant.                                                *)
IInv ==
    /\ TypeOK
    /\ IntentInHand
    /\ HolderIsAlone
    /\ ClaimTells
    /\ HolderStands
    /\ FreshResultIsProjected
    /\ LossIsNoticed
    /\ DeliveredIsHeard
    /\ LateIsLast

-----------------------------------------------------------------------------
(* Lemmas about the operators of the model *)

(* Two events in a row.                                                    *)
LEMMA ConcatOfTwo ==
  ASSUME NEW a, NEW b
  PROVE  <<a>> \o <<b>> = <<a, b>>
<1>1. /\ <<a>> \in Seq({a, b}) /\ Len(<<a>>) = 1
      /\ <<b>> \in Seq({a, b}) /\ Len(<<b>>) = 1
      /\ <<a, b>> \in Seq({a, b}) /\ Len(<<a, b>>) = 2
  OBVIOUS
<1>2. /\ <<a>> \o <<b>> \in Seq({a, b})
      /\ Len(<<a>> \o <<b>>) = 2
      /\ (<<a>> \o <<b>>)[1] = a
      /\ (<<a>> \o <<b>>)[2] = b
  BY <1>1, ConcatProperties
<1>3. <<a, b>>[1] = a /\ <<a, b>>[2] = b
  OBVIOUS
<1>4. \A i \in 1..2 : (<<a>> \o <<b>>)[i] = <<a, b>>[i]
  BY <1>2, <1>3
<1>5. QED BY <1>1, <1>2, <1>4, SeqEqual

(* The events of an order are one of four sequences.                       *)
LEMMA EmitsOfOrder ==
  ASSUME NEW o \in Orders, o.fills > 0 => o.outcome = "accepted"
  PROVE  Emits(o) = IF o.outcome = "accepted"
                    THEN IF o.fills > 0 THEN <<"accepted", "fill">> ELSE <<"accepted">>
                    ELSE IF o.outcome = "rejected" THEN <<"rejected">> ELSE <<>>
<1>0. o.outcome \in {"accepted", "rejected", "expired"}
  BY DEF Orders, Outcomes
<1>1. CASE o.outcome = "accepted" /\ o.fills > 0
  <2>1. Emits(o) = (<<"accepted">> \o <<"fill">>) \o <<>>
    BY <1>1 DEF Emits
  <2>2. Emits(o) = <<"accepted", "fill">> \o <<>>
    BY <2>1, ConcatOfTwo
  <2>3. QED BY <1>1, <2>2
<1>2. CASE o.outcome = "accepted" /\ ~(o.fills > 0)
  <2>1. Emits(o) = (<<"accepted">> \o <<>>) \o <<>>
    BY <1>2 DEF Emits
  <2>2. QED BY <1>2, <2>1
<1>3. CASE o.outcome = "rejected"
  <2>1. Emits(o) = (<<>> \o <<>>) \o <<"rejected">>
    BY <1>3 DEF Emits
  <2>2. QED BY <1>3, <2>1
<1>4. CASE o.outcome = "expired"
  <2>1. Emits(o) = (<<>> \o <<>>) \o <<>>
    BY <1>4 DEF Emits
  <2>2. QED BY <1>4, <2>1
<1>5. QED BY <1>0, <1>1, <1>2, <1>3, <1>4

(* Sequences of events that are told apart by their lengths and heads.     *)
LEMMA DistinctEvents ==
  \A s \in {<<"accepted", "fill">>, <<"fill">>} :
     s \notin {<<"accepted">>, <<"rejected">>, <<>>}
<1>1. /\ Len(<<"accepted", "fill">>) = 2 /\ Len(<<"accepted">>) = 1
      /\ Len(<<"rejected">>) = 1 /\ Len(<<>>) = 0 /\ Len(<<"fill">>) = 1
  OBVIOUS
<1>2. <<"fill">>[1] = "fill" /\ <<"accepted">>[1] = "accepted" /\ <<"rejected">>[1] = "rejected"
  OBVIOUS
<1>3. QED BY <1>1, <1>2

(* What is left when the next event is done.                               *)
LEMMA TailOfEvents ==
  /\ Tail(<<"accepted", "fill">>) = <<"fill">>
  /\ Tail(<<"fill">>) = <<>> /\ Tail(<<"accepted">>) = <<>>
  /\ Tail(<<"rejected">>) = <<>>
  OBVIOUS

-----------------------------------------------------------------------------
(* Type correctness *)

(* The initial state satisfies the invariant: no worker has an intent.     *)
LEMMA InitInvariant == Init => IInv
<1> SUFFICES ASSUME Init PROVE IInv
  OBVIOUS
<1> USE BoundAssumption, NoneAssumption DEF Init
<1>1. \A w \in Workers : worker[w] = Idle
  OBVIOUS
<1>2. TypeOK
  BY DEF TypeOK, WorkerStates, Idle, Points
<1>3. IntentInHand /\ HolderIsAlone /\ HolderStands /\ LateIsLast
  BY <1>1 DEF IntentInHand, HolderIsAlone, HolderStands, Stands, LateIsLast,
     Working, Points, Holding, Idle
<1>4. ClaimTells /\ DeliveredIsHeard
  BY DEF ClaimTells, DeliveredIsHeard
<1>5. \A k \in Keys : FillsOf(k) = {}
  BY DEF FillsOf
<1>6. FreshResultIsProjected /\ LossIsNoticed
  BY <1>5 DEF FreshResultIsProjected, LossIsNoticed, Projected
<1>7. QED BY <1>2, <1>3, <1>4, <1>6 DEF IInv


(* Moving one worker leaves the others where they are.                     *)
LEMMA GotoMoves ==
  ASSUME TypeOK, NEW w \in Workers, NEW point \in Points, Goto(w, point)
  PROVE  /\ worker' \in [Workers -> WorkerStates]
         /\ \A v \in Workers : v # w => worker'[v] = worker[v]
         /\ worker'[w].pc = point
         /\ worker'[w].key = worker[w].key /\ worker'[w].units = worker[w].units
         /\ worker'[w].snapshot = worker[w].snapshot
         /\ worker'[w].emits = worker[w].emits /\ worker'[w].fill = worker[w].fill
  BY DEF TypeOK, Goto, WorkerStates

(* A worker that goes idle has nothing in hand.                            *)
LEMMA IdleMoves ==
  ASSUME TypeOK, NEW w \in Workers, worker' = [worker EXCEPT ![w] = Idle]
  PROVE  /\ worker' \in [Workers -> WorkerStates]
         /\ \A v \in Workers : v # w => worker'[v] = worker[v]
         /\ worker'[w].pc = "idle" /\ worker'[w].key = None
         /\ worker'[w].fill = 0
  BY BoundAssumption DEF TypeOK, WorkerStates, Idle, Points

(* A worker that got its result has one unit more behind it.               *)
LEMMA NextUnitMoves ==
  ASSUME TypeOK, IntentInHand, NEW w \in Workers, worker[w].pc \in Working,
         NextUnit(w)
  PROVE  /\ worker' \in [Workers -> WorkerStates]
         /\ \A v \in Workers : v # w => worker'[v] = worker[v]
         /\ worker'[w].pc = "unit" /\ worker'[w].key = None
         /\ worker'[w].fill = 0
<1> DEFINE new == [Idle EXCEPT !.pc = "unit", !.units = worker[w].units + 1]
<1>1. worker[w].units \in Nat /\ worker[w].units < MaxWorkload
  BY BoundAssumption DEF IntentInHand, TypeOK, WorkerStates
<1>2. worker[w].units + 1 \in 0..MaxWorkload
  BY <1>1, BoundAssumption
<1>3. Idle \in WorkerStates /\ Idle.key = None /\ Idle.fill = 0
  BY BoundAssumption DEF WorkerStates, Idle, Points
<1>4. new \in WorkerStates /\ new.pc = "unit" /\ new.key = None /\ new.fill = 0
  BY <1>2, <1>3 DEF WorkerStates, Points
<1>5. worker' = [worker EXCEPT ![w] = new]
  BY DEF NextUnit
<1>6. QED BY <1>4, <1>5 DEF TypeOK

(* The worker that placed an order holds a snapshot of it.                 *)
LEMMA PlaceMoves ==
  ASSUME TypeOK, NEW w \in Workers, NEW outcome \in Outcomes, NEW n \in FillCounts,
         worker[w].key \in Keys, Place(w, outcome, n),
         NEW o, o = [outcome |-> outcome, fills |-> n, version |-> 0]
  PROVE  /\ o \in Orders
         /\ order' = [order EXCEPT ![worker[w].key] = o]
         /\ worker' \in [Workers -> WorkerStates]
         /\ \A v \in Workers : v # w => worker'[v] = worker[v]
         /\ worker'[w].pc = "complete" /\ worker'[w].key = worker[w].key
         /\ worker'[w].units = worker[w].units
         /\ worker'[w].snapshot = o
         /\ worker'[w].fill = worker[w].fill
<1>1. o \in Orders
  BY BoundAssumption DEF Orders
<1>2. order' = [order EXCEPT ![worker[w].key] = o]
  BY DEF Place
<1>3. order'[worker[w].key] = o
  BY <1>2 DEF TypeOK
<1>4. worker' = [worker EXCEPT ![w].pc = "complete", ![w].snapshot = o]
  BY <1>3 DEF Place
<1> DEFINE new == [worker[w] EXCEPT !.pc = "complete", !.snapshot = o]
<1>5. worker' = [worker EXCEPT ![w] = new]
  BY <1>4
<1>6. /\ new \in WorkerStates
      /\ new.pc = "complete" /\ new.snapshot = o
      /\ new.key = worker[w].key /\ new.units = worker[w].units
      /\ new.fill = worker[w].fill
  BY <1>1 DEF TypeOK, WorkerStates, Points
<1>7. QED BY <1>1, <1>2, <1>5, <1>6 DEF TypeOK

(* A step of a worker that is not, or no longer, on the path from the      *)
(* claim of a key to its return, and that leaves the durable state alone.  *)
LEMMA StepAside ==
  ASSUME IInv, NEW w \in Workers,
         UNCHANGED <<ready, claim, order, ledger, filled, answered, late>>,
         heard \subseteq heard', unheard \subseteq unheard',
         \A v \in Workers : v # w => worker'[v] = worker[v],
         worker'[w].pc \in Points \ Holding,
         IF worker'[w].pc \in Working
         THEN worker'[w].key \in Keys /\ worker'[w].units < MaxWorkload
         ELSE worker'[w].key = None,
         worker'[w].pc \in {"idle", "unit", "check", "claim"} => worker'[w].fill = 0,
         worker'[w].pc \in {"check", "claim"} => ready,
         worker[w].pc \in Engaged =>
            \/ worker[w].key \in heard' \/ worker[w].key \in unheard'
            \/ worker'[w].pc \in Engaged /\ worker'[w].key = worker[w].key,
         \A v \in Workers : \A d \in delivered'[v] : d[1] \in heard'
  PROVE  /\ IntentInHand' /\ HolderIsAlone' /\ ClaimTells' /\ HolderStands'
         /\ FreshResultIsProjected' /\ LossIsNoticed' /\ DeliveredIsHeard'
         /\ LateIsLast'
<1> USE DEF IInv
<1>1. \A k : /\ FillsOf(k)' = FillsOf(k) /\ Projected(k)' = Projected(k)
  BY DEF FillsOf, Projected
<1>2. IntentInHand'
  BY DEF IntentInHand
<1>3. HolderIsAlone'
  BY DEF HolderIsAlone
<1>4. ClaimTells'
  BY DEF ClaimTells
<1>5. HolderStands'
  <2>1. Stands(w)'
    BY DEF Stands, Holding, Points
  <2>2. ASSUME NEW v \in Workers, v # w PROVE Stands(v)'
    BY <2>2 DEF HolderStands, Stands, SnapshotIsOrder, EventsLeft
  <2>3. QED BY <2>1, <2>2 DEF HolderStands
<1>6. FreshResultIsProjected'
  BY <1>1 DEF FreshResultIsProjected
<1>7. LossIsNoticed'
  BY <1>1 DEF LossIsNoticed
<1>8. DeliveredIsHeard'
  BY DEF DeliveredIsHeard
<1>9. LateIsLast'
  BY DEF LateIsLast, Holding, Points
<1>10. QED BY <1>2, <1>3, <1>4, <1>5, <1>6, <1>7, <1>8, <1>9

(* A step on that path leaves the workers with other keys where they stand. *)
LEMMA OthersStand ==
  ASSUME IInv, NEW w \in Workers, NEW k \in Keys, worker[w].key = k,
         worker[w].pc \in Holding \/ claim[k] = "none",
         \A v \in Workers : v # w => worker'[v] = worker[v],
         worker'[w].pc \in Holding => worker'[w].key = k,
         \A j \in Keys : j # k =>
            claim'[j] = claim[j] /\ order'[j] = order[j] /\ filled'[j] = filled[j],
         \A j \in Keys, n \in Nat : j # k => (<<j, n>> \in ledger' <=> <<j, n>> \in ledger)
  PROVE  /\ HolderIsAlone'
         /\ \A v \in Workers : v # w => Stands(v)'
         /\ \A j \in Keys : j # k =>
               FillsOf(j)' = FillsOf(j) /\ Projected(j)' = Projected(j)
<1> USE DEF IInv
<1>1. \A v \in Workers : worker[v].pc \in Holding =>
         worker[v].key \in Keys /\ (v # w => worker[v].key # k)
  <2>1. CASE worker[w].pc \in Holding
    BY <2>1 DEF HolderIsAlone, IntentInHand, Working, Points, Holding
  <2>2. CASE claim[k] = "none"
    BY <2>2 DEF HolderStands, Stands, IntentInHand, Working, Points, Holding
  <2>3. QED BY <2>1, <2>2
<1>2. HolderIsAlone'
  BY <1>1 DEF HolderIsAlone
<1>3. ASSUME NEW v \in Workers, v # w PROVE Stands(v)'
  <2>1. worker'[v] = worker[v] /\ Stands(v)
    BY <1>3 DEF HolderStands
  <2>2. CASE worker[v].pc \in Holding
    <3>1. worker[v].key \in Keys /\ worker[v].key # k
      BY <1>1, <1>3, <2>2
    <3>2. \A n \in 1..worker[v].snapshot.fills : n \in Nat
      OBVIOUS
    <3>3. QED BY <2>1, <3>1, <3>2 DEF Stands, SnapshotIsOrder, EventsLeft
  <2>3. CASE worker[v].pc \notin Holding
    BY <2>1, <2>3 DEF Stands, Holding
  <2>4. QED BY <2>2, <2>3
<1>4. ASSUME NEW j \in Keys, j # k
      PROVE  FillsOf(j)' = FillsOf(j) /\ Projected(j)' = Projected(j)
  <2>1. FillsOf(j)' = FillsOf(j)
    BY <1>4 DEF FillsOf
  <2>2. \A f \in FillsOf(j) : \E n \in Nat : f = <<j, n>>
    BY DEF FillsOf
  <2>3. QED BY <1>4, <2>1, <2>2 DEF Projected
<1>5. QED BY <1>2, <1>3, <1>4

-----------------------------------------------------------------------------
(* Steps off the path *)

(* run_cycle: an intent is drawn only while the process is ready.          *)
LEMMA RunCycleStep ==
  ASSUME IInv, NEW w \in Workers, RunCycle(w)
  PROVE  IInv'
<1> USE DEF durable, ghosts, AssertReady, At
<1>0. TypeOK /\ IntentInHand /\ HolderStands /\ LateIsLast /\ DeliveredIsHeard
      /\ Stands(w)
  BY DEF IInv, HolderStands
<1>1. CASE StartCycle(w)
  <2>1. Goto(w, "unit") /\ "unit" \in Points
    BY <1>1 DEF StartCycle, Points
  <2>2. TypeOK'
    BY <1>0, <1>1, <2>1, GotoMoves DEF StartCycle, TypeOK
  <2>3. QED
    BY <1>0, <1>1, <2>1, <2>2, GotoMoves, StepAside
    DEF StartCycle, IInv, Working, Holding, Engaged, Points, IntentInHand, Stands,
        DeliveredIsHeard
<1>2. ASSUME NEW k \in Keys, DrawIntent(w, k) PROVE IInv'
  <2>1. /\ worker' \in [Workers -> WorkerStates]
        /\ \A v \in Workers : v # w => worker'[v] = worker[v]
        /\ worker'[w].pc = "check" /\ worker'[w].key = k
        /\ worker'[w].units = worker[w].units
        /\ worker'[w].fill = worker[w].fill
    BY <1>0, <1>2 DEF TypeOK, WorkerStates, DrawIntent, Points
  <2>2. TypeOK'
    BY <1>0, <1>2, <2>1 DEF DrawIntent, TypeOK
  <2>3. QED
    BY <1>0, <1>2, <2>1, <2>2, StepAside
    DEF DrawIntent, IInv, Working, Holding, Engaged, Points, IntentInHand, Stands,
        DeliveredIsHeard
<1>3. CASE /\ worker[w].pc \in {"unit", "check"}
           /\ worker' = [worker EXCEPT ![w] = Idle]
           /\ UNCHANGED <<ready, changes, failures, durable, delivered, ghosts>>
  <2>1. TypeOK'
    BY <1>0, <1>3, IdleMoves DEF TypeOK
  <2>2. QED
    BY <1>0, <1>3, <2>1, IdleMoves, StepAside
    DEF IInv, Working, Holding, Engaged, Points, DeliveredIsHeard
<1>4. CASE CheckAgain(w) /\ ready
  <2>1. Goto(w, "claim") /\ "claim" \in Points
    BY <1>4 DEF CheckAgain, Points
  <2>2. TypeOK'
    BY <1>0, <1>4, <2>1, GotoMoves DEF CheckAgain, TypeOK
  <2>3. QED
    BY <1>0, <1>4, <2>1, <2>2, GotoMoves, StepAside
    DEF CheckAgain, IInv, Working, Holding, Engaged, Points, IntentInHand, Stands,
        DeliveredIsHeard
<1>5. QED
  BY <1>1, <1>2, <1>3, <1>4 DEF RunCycle, EndCycle, CheckAgain

(* A claim that is held or completed by somebody.                          *)
LEMMA ClaimTakenStep ==
  ASSUME IInv, NEW w \in Workers, Claim(w), claim[worker[w].key] # "none"
  PROVE  IInv'
<1> USE DEF At
<1>0. TypeOK /\ IntentInHand /\ DeliveredIsHeard /\ LateIsLast
  BY DEF IInv
<1>1. worker[w].pc = "claim" /\ worker[w].pc \in Working /\ worker[w].key \in Keys
  BY <1>0 DEF Claim, Working, Points, IntentInHand
<1>2. CASE claim[worker[w].key] = "completed"
  <2>1. /\ NextUnit(w)
        /\ UNCHANGED <<ready, changes, failures, claim, order, ledger, delivered,
                       filled, heard, unheard, late, answered>>
    BY <1>2 DEF Claim, ghosts
  <2>2. TypeOK'
    BY <1>0, <1>1, <2>1, NextUnitMoves DEF TypeOK
  <2>3. QED
    BY <1>0, <1>1, <2>1, <2>2, NextUnitMoves, StepAside
    DEF IInv, Working, Holding, Engaged, Points, DeliveredIsHeard
<1>3. CASE claim[worker[w].key] = "in_flight"
  <2>1. /\ Goto(w, "failed") /\ "failed" \in Points
        /\ UNCHANGED <<ready, changes, failures, claim, order, ledger, delivered,
                       filled, heard, unheard, late, answered>>
    BY <1>3 DEF Claim, Points, ghosts
  <2>2. TypeOK'
    BY <1>0, <2>1, GotoMoves DEF TypeOK
  <2>3. QED
    BY <1>0, <1>1, <2>1, <2>2, GotoMoves, StepAside
    DEF IInv, Working, Holding, Engaged, Points, IntentInHand, DeliveredIsHeard
<1>4. claim[worker[w].key] \in {"none", "in_flight", "completed"}
  BY <1>0, <1>1 DEF TypeOK
<1>5. QED BY <1>2, <1>3, <1>4

(* Whatever raises leads to an alert, and keeps the durable state.         *)
LEMMA RaisesStep ==
  ASSUME IInv, NEW w \in Workers, SubmitRaises(w) \/ ProjectionRaises(w)
  PROVE  IInv'
<1> USE DEF At, MayFail, durable, ghosts
<1>0. TypeOK /\ IntentInHand /\ DeliveredIsHeard
  BY DEF IInv
<1>1. PICK point \in {"failed", "unprojected"} : Goto(w, point)
  BY DEF SubmitRaises, ProjectionRaises
<1>2. /\ worker[w].pc \in {"place", "complete", "emit"}
      /\ UNCHANGED <<ready, changes, claim, order, ledger, delivered, filled, heard,
                     unheard, answered, late>>
      /\ failures' \in 0..MaxFailures
      /\ point \in Points
  BY <1>0, BoundAssumption DEF SubmitRaises, ProjectionRaises, TypeOK, Points
<1>3. TypeOK'
  BY <1>0, <1>1, <1>2, GotoMoves DEF TypeOK
<1>4. QED
  BY <1>0, <1>1, <1>2, <1>3, GotoMoves, StepAside
  DEF IInv, Working, Holding, Engaged, Points, IntentInHand, DeliveredIsHeard

(* An alert leaves its key heard, now or when it was delivered before, or  *)
(* unheard when the provider fails.                                        *)
LEMMA PublishTells ==
  ASSUME TypeOK, DeliveredIsHeard, NEW w \in Workers, NEW k \in Keys,
         NEW code \in Codes, Publish(w, k, code)
  PROVE  /\ heard \subseteq heard' /\ heard' \subseteq heard \cup {k}
         /\ unheard \subseteq unheard' /\ unheard' \subseteq unheard \cup {k}
         /\ k \in heard' \/ k \in unheard'
         /\ delivered' \in [Workers -> SUBSET (Keys \X Codes)]
         /\ failures' \in 0..MaxFailures
         /\ \A v \in Workers : \A d \in delivered'[v] : d[1] \in heard'
<1> USE DEF DedupKey, MayFail
<1>1. CASE <<k, code>> \in delivered[w]
  <2>1. UNCHANGED <<delivered, heard, unheard, failures>> /\ k \in heard
    BY <1>1 DEF Publish, DeliveredIsHeard
  <2>2. QED BY <2>1 DEF TypeOK, DeliveredIsHeard
<1>2. CASE /\ <<k, code>> \notin delivered[w]
           /\ delivered' = [delivered EXCEPT ![w] = @ \cup {<<k, code>>}]
           /\ heard' = heard \cup {k}
           /\ UNCHANGED <<unheard, failures>>
  <2>1. \A v \in Workers : delivered'[v] \in SUBSET (delivered[v] \cup {<<k, code>>})
    BY <1>2 DEF TypeOK
  <2>2. delivered' \in [Workers -> SUBSET (Keys \X Codes)]
    BY <1>2 DEF TypeOK
  <2>3. QED BY <1>2, <2>1, <2>2 DEF TypeOK, DeliveredIsHeard
<1>3. CASE /\ <<k, code>> \notin delivered[w]
           /\ failures < MaxFailures /\ failures' = failures + 1
           /\ unheard' = unheard \cup {k}
           /\ UNCHANGED <<delivered, heard>>
  <2>1. failures' \in 0..MaxFailures
    BY <1>3, BoundAssumption DEF TypeOK
  <2>2. QED BY <1>3, <2>1 DEF TypeOK, DeliveredIsHeard
<1>4. QED BY <1>1, <1>2, <1>3 DEF Publish

(* run_once ends with an alert for its key.                                *)
LEMMA AlertStep ==
  ASSUME IInv, NEW w \in Workers, RaiseProjectionError(w) \/ RaiseSubmissionError(w)
  PROVE  IInv'
<1> USE DEF At, durable
<1>0. TypeOK /\ IntentInHand /\ DeliveredIsHeard
  BY DEF IInv
<1>1. PICK code \in Codes : Publish(w, worker[w].key, code)
  BY DEF RaiseProjectionError, RaiseSubmissionError, Codes
<1>2. /\ worker[w].pc \in {"failed", "unprojected"}
      /\ worker' = [worker EXCEPT ![w] = Idle]
      /\ UNCHANGED <<ready, changes, claim, order, ledger, filled, answered, late>>
  BY DEF RaiseProjectionError, RaiseSubmissionError
<1>3. worker[w].key \in Keys
  BY <1>0, <1>2 DEF IntentInHand, Working, Points
<1>4. /\ heard \subseteq heard' /\ heard' \subseteq heard \cup {worker[w].key}
      /\ unheard \subseteq unheard' /\ unheard' \subseteq unheard \cup {worker[w].key}
      /\ worker[w].key \in heard' \/ worker[w].key \in unheard'
      /\ delivered' \in [Workers -> SUBSET (Keys \X Codes)]
      /\ failures' \in 0..MaxFailures
      /\ \A v \in Workers : \A d \in delivered'[v] : d[1] \in heard'
  BY <1>0, <1>1, <1>3, PublishTells
<1>5. TypeOK'
  BY <1>0, <1>2, <1>3, <1>4, IdleMoves DEF TypeOK
<1>6. QED
  BY <1>0, <1>2, <1>3, <1>4, <1>5, IdleMoves, StepAside
  DEF IInv, Working, Holding, Engaged, Points

(* A process that dies leaves its key unheard.                             *)
LEMMA CrashStep ==
  ASSUME IInv, NEW w \in Workers, Crash(w)
  PROVE  IInv'
<1> USE DEF durable, MayFail
<1>0. TypeOK /\ IntentInHand /\ DeliveredIsHeard
  BY DEF IInv
<1>1. /\ worker' = [worker EXCEPT ![w] = Idle]
      /\ delivered' = [delivered EXCEPT ![w] = {}]
      /\ unheard' = unheard \cup ({worker[w].key} \ {None})
      /\ UNCHANGED <<ready, changes, claim, order, ledger, filled, heard, answered,
                     late>>
      /\ failures' \in 0..MaxFailures
  BY <1>0, BoundAssumption DEF Crash, TypeOK
<1>2. worker[w].key \in Keys \cup {None}
  BY <1>0 DEF TypeOK, WorkerStates
<1>3. worker[w].pc \in Engaged => worker[w].key \in unheard'
  BY <1>0, <1>1, NoneAssumption DEF IntentInHand, Engaged, Working, Points
<1>4. /\ delivered' \in [Workers -> SUBSET (Keys \X Codes)]
      /\ \A v \in Workers : delivered'[v] \subseteq delivered[v]
  BY <1>0, <1>1 DEF TypeOK
<1>5. TypeOK'
  BY <1>0, <1>1, <1>2, <1>4, IdleMoves DEF TypeOK
<1>6. QED
  BY <1>0, <1>1, <1>3, <1>4, <1>5, IdleMoves, StepAside
  DEF IInv, Working, Holding, Points, DeliveredIsHeard

-----------------------------------------------------------------------------
(* Steps on the path *)

(* A fresh claim: the key has no order, and nobody else is past its claim. *)
LEMMA FreshClaimStep ==
  ASSUME IInv, NEW w \in Workers, Claim(w), claim[worker[w].key] = "none"
  PROVE  IInv'
<1> DEFINE k == worker[w].key
<1>0. /\ TypeOK /\ IntentInHand /\ HolderStands /\ ClaimTells /\ LateIsLast
      /\ FreshResultIsProjected /\ LossIsNoticed /\ DeliveredIsHeard /\ Stands(w)
  BY DEF IInv, HolderStands
<1>1. worker[w].pc = "claim" /\ k \in Keys /\ worker[w].units < MaxWorkload
  BY <1>0 DEF Claim, At, Working, Points, IntentInHand
<1>2. /\ claim' = [claim EXCEPT ![k] = "in_flight"]
      /\ Goto(w, "place") /\ "place" \in Points
      /\ UNCHANGED <<ready, changes, failures, order, ledger, delivered, filled,
                     heard, unheard, late, answered>>
  BY DEF Claim, Points, ghosts
<1>3. /\ worker' \in [Workers -> WorkerStates]
      /\ \A v \in Workers : v # w => worker'[v] = worker[v]
      /\ worker'[w].pc = "place" /\ worker'[w].key = k
      /\ worker'[w].units = worker[w].units /\ worker'[w].fill = worker[w].fill
  BY <1>0, <1>2, GotoMoves
<1>4. TypeOK'
  BY <1>0, <1>1, <1>2, <1>3 DEF TypeOK
<1>5. claim'[k] = "in_flight" /\ \A j \in Keys : j # k => claim'[j] = claim[j]
  BY <1>0, <1>1, <1>2 DEF TypeOK
<1>6. HolderIsAlone' /\ \A v \in Workers : v # w => Stands(v)'
  BY <1>1, <1>2, <1>3, <1>5, OthersStand
<1>7. Stands(w)'
  BY <1>0, <1>1, <1>2, <1>3, <1>5 DEF Stands, ClaimTells
<1>8. IntentInHand'
  BY <1>0, <1>1, <1>3 DEF IntentInHand, Working, Points
<1>9. ClaimTells'
  BY <1>0, <1>1, <1>2, <1>5 DEF ClaimTells, TypeOK
<1>10. \A j : FillsOf(j)' = FillsOf(j) /\ Projected(j)' = Projected(j)
  BY <1>2 DEF FillsOf, Projected
<1>11. FreshResultIsProjected'
  BY <1>0, <1>1, <1>2, <1>5, <1>10 DEF FreshResultIsProjected, TypeOK
<1>12. LossIsNoticed'
  BY <1>0, <1>1, <1>2, <1>3, <1>10 DEF LossIsNoticed, Engaged
<1>13. DeliveredIsHeard' /\ LateIsLast'
  BY <1>0, <1>1, <1>2, <1>3 DEF DeliveredIsHeard, LateIsLast
<1>14. QED
  BY <1>4, <1>6, <1>7, <1>8, <1>9, <1>11, <1>12, <1>13 DEF IInv, HolderStands

(* The order of a key is placed once, so nothing of it is in the ledger.   *)
LEMMA PlaceStep ==
  ASSUME IInv, NEW w \in Workers, NEW outcome \in Outcomes, NEW n \in FillCounts,
         Place(w, outcome, n)
  PROVE  IInv'
<1> DEFINE k == worker[w].key
           o == [outcome |-> outcome, fills |-> n, version |-> 0]
<1>0. /\ TypeOK /\ IntentInHand /\ HolderStands /\ ClaimTells /\ LateIsLast
      /\ FreshResultIsProjected /\ LossIsNoticed /\ DeliveredIsHeard /\ Stands(w)
  BY DEF IInv, HolderStands
<1>1. /\ worker[w].pc = "place" /\ k \in Keys /\ worker[w].units < MaxWorkload
      /\ claim[k] = "in_flight" /\ order[k] = None /\ worker[w].fill = 0
  BY <1>0 DEF Place, At, Working, Points, IntentInHand, Stands
<1>2. /\ n > 0 => outcome = "accepted"
      /\ filled' = [filled EXCEPT ![k] = n]
      /\ late' = [late EXCEPT ![w] = IF ready THEN @ ELSE @ + 1]
      /\ UNCHANGED <<ready, changes, failures, claim, ledger, delivered, heard,
                     unheard, answered>>
  BY DEF Place
<1>3. /\ o \in Orders
      /\ order' = [order EXCEPT ![k] = o]
      /\ worker' \in [Workers -> WorkerStates]
      /\ \A v \in Workers : v # w => worker'[v] = worker[v]
      /\ worker'[w].pc = "complete" /\ worker'[w].key = k
      /\ worker'[w].units = worker[w].units
      /\ worker'[w].snapshot = o /\ worker'[w].fill = worker[w].fill
  BY <1>0, <1>1, PlaceMoves
<1>4. /\ o.fills = n /\ o.outcome = outcome /\ o # None /\ n \in Nat
      /\ order'[k] = o /\ \A j \in Keys : j # k => order'[j] = order[j]
      /\ filled'[k] = n /\ \A j \in Keys : j # k => filled'[j] = filled[j]
      /\ filled' \in [Keys -> Nat]
  <2>1. o.fills = n /\ o.outcome = outcome /\ o # None /\ n \in Nat
    BY <1>3, NoneAssumption, BoundAssumption DEF Orders, Outcomes
  <2>2. QED BY <1>0, <1>1, <1>2, <1>3, <2>1 DEF TypeOK
<1>5. TypeOK'
  <2>1. late' \in [Workers -> Nat]
    BY <1>0, <1>2 DEF TypeOK
  <2>2. order' \in [Keys -> Orders \cup {None}]
    BY <1>0, <1>1, <1>3 DEF TypeOK
  <2>3. QED BY <1>0, <1>2, <1>3, <1>4, <2>1, <2>2 DEF TypeOK
<1>6. /\ HolderIsAlone' /\ \A v \in Workers : v # w => Stands(v)'
      /\ \A j \in Keys : j # k => FillsOf(j)' = FillsOf(j) /\ Projected(j)' = Projected(j)
  <2>1. worker[w].pc \in Holding
    BY <1>1 DEF Holding
  <2>2. QED BY <1>1, <1>2, <1>3, <1>4, <2>1, OthersStand
<1>7. Stands(w)'
  <2>1. SnapshotIsOrder(worker[w])'
    BY <1>2, <1>3, <1>4 DEF SnapshotIsOrder
  <2>2. QED BY <1>1, <1>2, <1>3, <2>1 DEF Stands
<1>8. IntentInHand'
  BY <1>0, <1>1, <1>3 DEF IntentInHand, Working, Points
<1>9. ClaimTells'
  BY <1>0, <1>1, <1>2, <1>4 DEF ClaimTells
<1>10. FreshResultIsProjected'
  <2>1. \A j \in answered : j \in Keys /\ j # k
    BY <1>0, <1>1 DEF ClaimTells, TypeOK
  <2>2. \A f \in ledger : f[1] \in Keys /\ f[1] # k
    BY <1>0, <1>1 DEF FreshResultIsProjected, TypeOK
  <2>3. QED BY <1>0, <1>2, <1>6, <2>1, <2>2 DEF FreshResultIsProjected
<1>11. LossIsNoticed'
  BY <1>0, <1>1, <1>2, <1>3, <1>6 DEF LossIsNoticed, Engaged
<1>12. LateIsLast'
  <2>1. late[w] = 0
    BY <1>0, <1>1 DEF LateIsLast, TypeOK
  <2>2. /\ late'[w] = IF ready THEN 0 ELSE 1
        /\ \A v \in Workers : v # w => late'[v] = late[v]
    BY <1>0, <1>2, <2>1 DEF TypeOK
  <2>3. QED BY <1>0, <1>2, <1>3, <2>2 DEF LateIsLast
<1>13. DeliveredIsHeard'
  BY <1>0, <1>2 DEF DeliveredIsHeard
<1>14. QED
  BY <1>5, <1>6, <1>7, <1>8, <1>9, <1>10, <1>11, <1>12, <1>13
  DEF IInv, HolderStands

(* A blocked submission gives its claim back before there is an order.     *)
LEMMA BlockedStep ==
  ASSUME IInv, NEW w \in Workers, Blocked(w)
  PROVE  IInv'
<1> DEFINE k == worker[w].key
<1>0. /\ TypeOK /\ IntentInHand /\ HolderStands /\ ClaimTells /\ LateIsLast
      /\ FreshResultIsProjected /\ LossIsNoticed /\ DeliveredIsHeard /\ Stands(w)
  BY DEF IInv, HolderStands
<1>1. /\ worker[w].pc = "place" /\ k \in Keys /\ worker[w].units < MaxWorkload
      /\ claim[k] = "in_flight" /\ order[k] = None
  BY <1>0 DEF Blocked, At, Working, Points, IntentInHand, Stands
<1>2. /\ claim' = [claim EXCEPT ![k] = "none"]
      /\ Goto(w, "failed") /\ "failed" \in Points
      /\ UNCHANGED <<ready, changes, failures, order, ledger, delivered, filled,
                     heard, unheard, late, answered>>
  BY DEF Blocked, ghosts, Points
<1>3. /\ worker' \in [Workers -> WorkerStates]
      /\ \A v \in Workers : v # w => worker'[v] = worker[v]
      /\ worker'[w].pc = "failed" /\ worker'[w].key = k
      /\ worker'[w].units = worker[w].units
  BY <1>0, <1>2, GotoMoves
<1>4. TypeOK'
  BY <1>0, <1>1, <1>2, <1>3 DEF TypeOK
<1>5. claim'[k] = "none" /\ \A j \in Keys : j # k => claim'[j] = claim[j]
  BY <1>0, <1>1, <1>2 DEF TypeOK
<1>6. HolderIsAlone' /\ \A v \in Workers : v # w => Stands(v)'
  <2>1. worker[w].pc \in Holding
    BY <1>1 DEF Holding
  <2>2. QED BY <1>1, <1>2, <1>3, <1>5, <2>1, OthersStand
<1>7. Stands(w)' /\ IntentInHand'
  BY <1>0, <1>1, <1>3 DEF Stands, IntentInHand, Working, Points
<1>8. ClaimTells'
  BY <1>0, <1>1, <1>2, <1>5 DEF ClaimTells, TypeOK
<1>9. \A j : FillsOf(j)' = FillsOf(j) /\ Projected(j)' = Projected(j)
  BY <1>2 DEF FillsOf, Projected
<1>10. FreshResultIsProjected'
  BY <1>0, <1>1, <1>2, <1>5, <1>9 DEF FreshResultIsProjected, TypeOK
<1>11. LossIsNoticed'
  BY <1>0, <1>1, <1>2, <1>3, <1>9 DEF LossIsNoticed, Engaged
<1>12. DeliveredIsHeard' /\ LateIsLast'
  BY <1>0, <1>1, <1>2, <1>3 DEF DeliveredIsHeard, LateIsLast
<1>13. QED
  BY <1>4, <1>6, <1>7, <1>8, <1>10, <1>11, <1>12 DEF IInv, HolderStands

(* complete: from here on the order's events are this worker's to emit.    *)
LEMMA CompleteStep ==
  ASSUME IInv, NEW w \in Workers, Complete(w)
  PROVE  IInv'
<1> DEFINE k == worker[w].key
           o == worker[w].snapshot
           new == [worker[w] EXCEPT !.pc = "emit", !.emits = Emits(o)]
<1>0. /\ TypeOK /\ IntentInHand /\ HolderStands /\ ClaimTells /\ LateIsLast
      /\ FreshResultIsProjected /\ LossIsNoticed /\ DeliveredIsHeard /\ Stands(w)
  BY DEF IInv, HolderStands
<1>1. /\ worker[w].pc = "complete" /\ k \in Keys /\ worker[w].units < MaxWorkload
      /\ claim[k] = "in_flight" /\ worker[w].fill = 0 /\ SnapshotIsOrder(worker[w])
  BY <1>0 DEF Complete, At, Working, Points, IntentInHand, Stands
<1>2. /\ claim' = [claim EXCEPT ![k] = "completed"]
      /\ worker' = [worker EXCEPT ![w] = new]
      /\ UNCHANGED <<ready, changes, failures, order, ledger, delivered, filled,
                     heard, unheard, late, answered>>
  BY DEF Complete, ghosts
<1>3. /\ o \in Orders /\ o.fills \in Nat /\ order[k] # None
      /\ Emits(o) \in {<<"accepted", "fill">>, <<"accepted">>, <<"rejected">>, <<>>}
      /\ Emits(o) # <<"accepted", "fill">> => o.fills = 0
      /\ Emits(o) \in Seq({"accepted", "fill", "rejected"})
  <2>1. o \in Orders /\ (o.fills > 0 => o.outcome = "accepted") /\ order[k] \in Orders
    BY <1>1 DEF SnapshotIsOrder
  <2>2. o.fills \in Nat /\ order[k] # None
    BY <2>1, NoneAssumption DEF Orders, Outcomes
  <2>3. CASE o.fills > 0
    <3>1. Emits(o) = <<"accepted", "fill">>
      BY <2>1, <2>3, EmitsOfOrder
    <3>2. QED BY <2>1, <2>2, <3>1
  <2>4. CASE ~(o.fills > 0)
    <3>1. Emits(o) = <<"accepted">> \/ Emits(o) = <<"rejected">> \/ Emits(o) = <<>>
      BY <2>1, <2>4, EmitsOfOrder
    <3>2. o.fills = 0
      BY <2>2, <2>4
    <3>3. <<"accepted">> \in Seq({"accepted", "fill", "rejected"})
          /\ <<"rejected">> \in Seq({"accepted", "fill", "rejected"})
          /\ <<>> \in Seq({"accepted", "fill", "rejected"})
      OBVIOUS
    <3>4. QED BY <2>1, <2>2, <3>1, <3>2, <3>3
  <2>5. QED BY <2>3, <2>4
<1>4. /\ worker' \in [Workers -> WorkerStates]
      /\ \A v \in Workers : v # w => worker'[v] = worker[v]
      /\ worker'[w].pc = "emit" /\ worker'[w].key = k
      /\ worker'[w].units = worker[w].units
      /\ worker'[w].snapshot = o /\ worker'[w].fill = 0
      /\ worker'[w].emits = Emits(o)
  <2>1. /\ new \in WorkerStates
        /\ new.pc = "emit" /\ new.key = k /\ new.units = worker[w].units
        /\ new.snapshot = o /\ new.fill = worker[w].fill /\ new.emits = Emits(o)
    BY <1>0, <1>3 DEF TypeOK, WorkerStates, Points
  <2>2. QED BY <1>0, <1>1, <1>2, <2>1 DEF TypeOK
<1>5. TypeOK'
  BY <1>0, <1>1, <1>2, <1>4 DEF TypeOK
<1>6. claim'[k] = "completed" /\ \A j \in Keys : j # k => claim'[j] = claim[j]
  BY <1>0, <1>1, <1>2 DEF TypeOK
<1>7. HolderIsAlone' /\ \A v \in Workers : v # w => Stands(v)'
  <2>1. worker[w].pc \in Holding
    BY <1>1 DEF Holding
  <2>2. QED BY <1>1, <1>2, <1>4, <1>6, <2>1, OthersStand
<1>8. Stands(w)'
  <2>1. SnapshotIsOrder(worker[w])'
    BY <1>1, <1>2, <1>4 DEF SnapshotIsOrder
  <2>2. EventsLeft(worker[w])'
    <3>1. CASE Emits(o) = <<"accepted", "fill">>
      BY <1>3, <1>4, <3>1, DistinctEvents DEF EventsLeft
    <3>2. CASE Emits(o) # <<"accepted", "fill">>
      BY <1>3, <1>4, <3>2 DEF EventsLeft
    <3>3. QED BY <3>1, <3>2
  <2>3. \A n : <<k, n>> \notin ledger
    BY <1>0, <1>1 DEF FreshResultIsProjected
  <2>4. QED BY <1>2, <1>4, <1>6, <2>1, <2>2, <2>3 DEF Stands
<1>9. IntentInHand'
  BY <1>0, <1>1, <1>4 DEF IntentInHand, Working, Points
<1>10. ClaimTells'
  BY <1>0, <1>1, <1>2, <1>3, <1>6 DEF ClaimTells, TypeOK
<1>11. \A j : FillsOf(j)' = FillsOf(j) /\ Projected(j)' = Projected(j)
  BY <1>2 DEF FillsOf, Projected
<1>12. FreshResultIsProjected'
  BY <1>0, <1>1, <1>2, <1>6, <1>11 DEF FreshResultIsProjected, TypeOK
<1>13. LossIsNoticed'
  BY <1>0, <1>1, <1>2, <1>4, <1>11 DEF LossIsNoticed, Engaged
<1>14. DeliveredIsHeard' /\ LateIsLast'
  BY <1>0, <1>1, <1>2, <1>4 DEF DeliveredIsHeard, LateIsLast
<1>15. QED
  BY <1>5, <1>7, <1>8, <1>9, <1>10, <1>12, <1>13, <1>14 DEF IInv, HolderStands

(* What the invariant says of a worker that emits the events of its order. *)
LEMMA EmitterStands ==
  ASSUME IInv, NEW w \in Workers, worker[w].pc = "emit",
         NEW k, k = worker[w].key, NEW o, o = worker[w].snapshot
  PROVE  /\ k \in Keys /\ worker[w].units < MaxWorkload
         /\ worker[w].pc \in Holding
         /\ claim[k] = "completed" /\ SnapshotIsOrder(worker[w]) /\ EventsLeft(worker[w])
         /\ o.fills \in Nat /\ order[k] # None /\ filled[k] = o.fills
         /\ worker[w].fill \in Nat /\ worker[w].fill <= o.fills
         /\ FillsOf(k) = {k} \X (1..o.fills)
         /\ \A n \in 1..o.fills : <<k, n>> \in ledger <=> n <= worker[w].fill
<1>1. IntentInHand /\ Stands(w) /\ TypeOK
  BY DEF IInv, HolderStands
<1>2. /\ k \in Keys /\ worker[w].units < MaxWorkload
      /\ worker[w].pc \in Holding
      /\ claim[k] = "completed" /\ SnapshotIsOrder(worker[w]) /\ EventsLeft(worker[w])
      /\ \A n \in 1..o.fills : <<k, n>> \in ledger <=> n <= worker[w].fill
  BY <1>1 DEF IntentInHand, Stands, Working, Points, Holding
<1>3. o.fills \in Nat /\ order[k] # None /\ filled[k] = o.fills
  BY <1>2, NoneAssumption DEF SnapshotIsOrder, Orders, Outcomes
<1>4. worker[w].fill \in Nat /\ worker[w].fill <= o.fills
  BY <1>1, <1>2 DEF TypeOK, WorkerStates, EventsLeft
<1>5. FillsOf(k) = {k} \X (1..o.fills)
  BY <1>3 DEF FillsOf
<1>6. QED BY <1>2, <1>3, <1>4, <1>5

(* The next fill of the event is projected.                                *)
LEMMA EmitFillStep ==
  ASSUME IInv, NEW w \in Workers, EmitFill(w)
  PROVE  IInv'
<1> DEFINE k == worker[w].key
           o == worker[w].snapshot
           n == worker[w].fill + 1
           new == [worker[w] EXCEPT !.fill = @ + 1]
<1>0. /\ TypeOK /\ IntentInHand /\ HolderStands /\ ClaimTells /\ LateIsLast
      /\ FreshResultIsProjected /\ LossIsNoticed /\ DeliveredIsHeard /\ Stands(w)
  BY DEF IInv, HolderStands
<1>1. /\ worker[w].pc = "emit"
      /\ worker[w].emits # <<>> /\ FillsLeft(worker[w])
      /\ ledger' = ledger \cup {<<k, n>>}
      /\ worker' = [worker EXCEPT ![w] = new]
      /\ UNCHANGED <<ready, changes, failures, claim, order, delivered, filled,
                     heard, unheard, late, answered>>
  BY DEF EmitFill, At, ghosts
<1>2. /\ k \in Keys /\ worker[w].units < MaxWorkload
      /\ worker[w].pc \in Holding
      /\ claim[k] = "completed" /\ SnapshotIsOrder(worker[w]) /\ EventsLeft(worker[w])
      /\ o.fills \in Nat /\ order[k] # None /\ filled[k] = o.fills
      /\ worker[w].fill \in Nat /\ worker[w].fill <= o.fills
      /\ FillsOf(k) = {k} \X (1..o.fills)
      /\ \A i \in 1..o.fills : <<k, i>> \in ledger <=> i <= worker[w].fill
  BY <1>1, EmitterStands
<1>3. n \in 1..o.fills /\ n \in Nat \ {0} /\ worker[w].emits \in {<<"accepted", "fill">>, <<"fill">>}
  <2>1. worker[w].fill < o.fills
    BY <1>1 DEF FillsLeft
  <2>2. QED BY <1>2, <2>1 DEF EventsLeft
<1>4. /\ worker' \in [Workers -> WorkerStates]
      /\ \A v \in Workers : v # w => worker'[v] = worker[v]
      /\ worker'[w].pc = "emit" /\ worker'[w].key = k
      /\ worker'[w].units = worker[w].units
      /\ worker'[w].snapshot = o /\ worker'[w].fill = n
      /\ worker'[w].emits = worker[w].emits
  <2>1. /\ new \in WorkerStates
        /\ new.pc = worker[w].pc /\ new.key = k /\ new.units = worker[w].units
        /\ new.snapshot = o /\ new.fill = n /\ new.emits = worker[w].emits
    BY <1>0, <1>2, <1>3 DEF TypeOK, WorkerStates
  <2>2. QED BY <1>0, <1>1, <2>1 DEF TypeOK
<1>5. TypeOK'
  BY <1>0, <1>1, <1>2, <1>3, <1>4 DEF TypeOK
<1>6. /\ HolderIsAlone' /\ \A v \in Workers : v # w => Stands(v)'
      /\ \A j \in Keys : j # k => FillsOf(j)' = FillsOf(j) /\ Projected(j)' = Projected(j)
  <2>1. \A j \in Keys, i \in Nat : j # k => (<<j, i>> \in ledger' <=> <<j, i>> \in ledger)
    BY <1>1
  <2>2. QED BY <1>1, <1>2, <1>4, <2>1, OthersStand
<1>7. Stands(w)'
  <2>1. SnapshotIsOrder(worker[w])'
    BY <1>1, <1>2, <1>4 DEF SnapshotIsOrder
  <2>2. EventsLeft(worker[w])'
    BY <1>2, <1>3, <1>4, DistinctEvents DEF EventsLeft
  <2>3. \A i \in 1..o.fills : <<k, i>> \in ledger' <=> i <= n
    BY <1>1, <1>2, <1>3
  <2>4. QED BY <1>1, <1>2, <1>4, <2>1, <2>2, <2>3 DEF Stands
<1>8. IntentInHand' /\ ClaimTells'
  BY <1>0, <1>1, <1>2, <1>4 DEF IntentInHand, ClaimTells, Working, Points
<1>9. \A j : FillsOf(j)' = FillsOf(j)
  BY <1>1 DEF FillsOf
<1>10. FreshResultIsProjected'
  <2>1. \A j \in answered' : Projected(j)'
    BY <1>0, <1>1, <1>9 DEF FreshResultIsProjected, Projected
  <2>2. <<k, n>> \in FillsOf(k) /\ (n > 1 => <<k, n - 1>> \in ledger)
    BY <1>2, <1>3
  <2>3. ASSUME NEW f \in ledger'
        PROVE  /\ f \in FillsOf(f[1])' /\ claim'[f[1]] = "completed"
               /\ f[2] > 1 => <<f[1], f[2] - 1>> \in ledger'
    <3>1. CASE f \in ledger
      BY <1>0, <1>1, <1>9, <3>1 DEF FreshResultIsProjected
    <3>2. CASE f = <<k, n>>
      <4>1. f[1] = k /\ f[2] = n
        BY <3>2
      <4>2. QED BY <1>1, <1>2, <1>9, <2>2, <3>2, <4>1
    <3>3. QED BY <1>1, <3>1, <3>2
  <2>4. QED BY <2>1, <2>3 DEF FreshResultIsProjected
<1>11. LossIsNoticed'
  BY <1>0, <1>1, <1>4, <1>9 DEF LossIsNoticed, Engaged, Projected
<1>12. DeliveredIsHeard' /\ LateIsLast'
  BY <1>0, <1>1, <1>4 DEF DeliveredIsHeard, LateIsLast
<1>13. QED
  BY <1>5, <1>6, <1>7, <1>8, <1>10, <1>11, <1>12 DEF IInv, HolderStands

(* The audit of an event passes, or run_once turns to its alert.           *)
LEMMA AuditStep ==
  ASSUME IInv, NEW w \in Workers, Audit(w)
  PROVE  IInv'
<1> DEFINE k == worker[w].key
           o == worker[w].snapshot
           new == [worker[w] EXCEPT !.emits = Tail(worker[w].emits)]
<1>0. /\ TypeOK /\ IntentInHand /\ HolderStands /\ ClaimTells /\ LateIsLast
      /\ FreshResultIsProjected /\ LossIsNoticed /\ DeliveredIsHeard /\ Stands(w)
  BY DEF IInv, HolderStands
<1>1. /\ worker[w].pc = "emit"
      /\ worker[w].emits # <<>> /\ ~FillsLeft(worker[w])
      /\ UNCHANGED <<ready, changes, failures, claim, order, ledger, delivered, filled,
                     heard, unheard, late, answered>>
  BY DEF Audit, At, durable, ghosts
<1>2. /\ k \in Keys /\ worker[w].units < MaxWorkload
      /\ worker[w].pc \in Holding
      /\ claim[k] = "completed" /\ SnapshotIsOrder(worker[w]) /\ EventsLeft(worker[w])
      /\ o.fills \in Nat /\ order[k] # None /\ filled[k] = o.fills
      /\ worker[w].fill \in Nat /\ worker[w].fill <= o.fills
      /\ FillsOf(k) = {k} \X (1..o.fills)
      /\ \A i \in 1..o.fills : <<k, i>> \in ledger <=> i <= worker[w].fill
  BY <1>1, EmitterStands
<1>3. CASE order[k] # o
  <2>1. Goto(w, "unprojected") /\ "unprojected" \in Points
    BY <1>3 DEF Audit, Points
  <2>2. TypeOK'
    BY <1>0, <1>1, <2>1, GotoMoves DEF TypeOK
  <2>3. QED
    BY <1>0, <1>1, <1>2, <2>1, <2>2, GotoMoves, StepAside
    DEF IInv, Working, Holding, Engaged, Points, DeliveredIsHeard
<1>4. CASE order[k] = o
  <2>1. worker' = [worker EXCEPT ![w] = new]
    BY <1>4 DEF Audit
  <2>2. /\ new.emits \in {<<"accepted", "fill">>, <<"fill">>, <<"accepted">>,
                         <<"rejected">>, <<>>}
        /\ new.emits \in {<<"accepted">>, <<"rejected">>, <<>>} => worker[w].fill = o.fills
        /\ new.emits \in Seq({"accepted", "fill", "rejected"})
        /\ new.emits = Tail(worker[w].emits)
    <3>1. new.emits = Tail(worker[w].emits)
      BY <1>0 DEF TypeOK, WorkerStates
    <3>2. <<"fill">> \in Seq({"accepted", "fill", "rejected"})
          /\ <<>> \in Seq({"accepted", "fill", "rejected"})
      OBVIOUS
    <3>3. CASE worker[w].emits = <<"accepted", "fill">>
      BY <3>1, <3>2, <3>3, TailOfEvents, DistinctEvents
    <3>4. CASE worker[w].emits = <<"fill">>
      <4>1. Head(worker[w].emits) = "fill"
        BY <3>4
      <4>2. worker[w].fill = o.fills
        BY <1>1, <1>2, <4>1 DEF FillsLeft
      <4>3. QED BY <3>1, <3>2, <3>4, <4>2, TailOfEvents
    <3>5. CASE worker[w].emits \in {<<"accepted">>, <<"rejected">>}
      <4>1. worker[w].fill = o.fills
        BY <1>2, <3>5 DEF EventsLeft
      <4>2. QED BY <3>1, <3>2, <3>5, <4>1, TailOfEvents
    <3>6. QED BY <1>1, <1>2, <3>3, <3>4, <3>5 DEF EventsLeft
  <2>3. /\ worker' \in [Workers -> WorkerStates]
        /\ \A v \in Workers : v # w => worker'[v] = worker[v]
        /\ worker'[w].pc = "emit" /\ worker'[w].key = k
        /\ worker'[w].units = worker[w].units
        /\ worker'[w].snapshot = o /\ worker'[w].fill = worker[w].fill
        /\ worker'[w].emits = new.emits
    <3>1. /\ new \in WorkerStates
          /\ new.pc = worker[w].pc /\ new.key = k /\ new.units = worker[w].units
          /\ new.snapshot = o /\ new.fill = worker[w].fill
      BY <1>0, <2>2 DEF TypeOK, WorkerStates
    <3>2. QED BY <1>0, <1>1, <2>1, <3>1 DEF TypeOK
  <2>4. TypeOK'
    BY <1>0, <1>1, <2>3 DEF TypeOK
  <2>5. HolderIsAlone' /\ \A v \in Workers : v # w => Stands(v)'
    BY <1>1, <1>2, <2>3, OthersStand
  <2>6. Stands(w)'
    <3>1. SnapshotIsOrder(worker[w])'
      BY <1>1, <1>2, <2>3 DEF SnapshotIsOrder
    <3>2. EventsLeft(worker[w])'
      BY <1>2, <2>2, <2>3 DEF EventsLeft
    <3>3. QED BY <1>1, <1>2, <2>3, <3>1, <3>2 DEF Stands
  <2>7. IntentInHand' /\ ClaimTells'
    BY <1>0, <1>1, <1>2, <2>3 DEF IntentInHand, ClaimTells, Working, Points
  <2>8. \A j : FillsOf(j)' = FillsOf(j) /\ Projected(j)' = Projected(j)
    BY <1>1 DEF FillsOf, Projected
  <2>9. FreshResultIsProjected' /\ LossIsNoticed'
    BY <1>0, <1>1, <2>3, <2>8 DEF FreshResultIsProjected, LossIsNoticed, Engaged
  <2>10. DeliveredIsHeard' /\ LateIsLast'
    BY <1>0, <1>1, <2>3 DEF DeliveredIsHeard, LateIsLast
  <2>11. QED
    BY <2>4, <2>5, <2>6, <2>7, <2>9, <2>10 DEF IInv, HolderStands
<1>5. QED BY <1>3, <1>4

(* run_once returns once every event is out: the order is projected.       *)
LEMMA ReturnStep ==
  ASSUME IInv, NEW w \in Workers, Return(w)
  PROVE  IInv'
<1> DEFINE k == worker[w].key
           o == worker[w].snapshot
<1>0. /\ TypeOK /\ IntentInHand /\ HolderStands /\ ClaimTells /\ LateIsLast
      /\ FreshResultIsProjected /\ LossIsNoticed /\ DeliveredIsHeard
  BY DEF IInv
<1>1. /\ worker[w].pc = "emit" /\ worker[w].emits = <<>>
      /\ NextUnit(w)
      /\ answered' = answered \cup {k}
      /\ UNCHANGED <<ready, changes, failures, claim, order, ledger, delivered, filled,
                     heard, unheard, late>>
  BY DEF Return, At, durable
<1>2. /\ k \in Keys /\ worker[w].units < MaxWorkload
      /\ worker[w].pc \in Holding
      /\ claim[k] = "completed" /\ EventsLeft(worker[w])
      /\ o.fills \in Nat
      /\ FillsOf(k) = {k} \X (1..o.fills)
      /\ \A i \in 1..o.fills : <<k, i>> \in ledger <=> i <= worker[w].fill
  BY <1>1, EmitterStands
<1>3. /\ worker' \in [Workers -> WorkerStates]
      /\ \A v \in Workers : v # w => worker'[v] = worker[v]
      /\ worker'[w].pc = "unit" /\ worker'[w].key = None
      /\ worker'[w].fill = 0
  <2>1. worker[w].pc \in Working
    BY <1>1 DEF Working, Points
  <2>2. QED BY <1>0, <1>1, <2>1, NextUnitMoves
<1>4. Projected(k)
  <2>1. worker[w].fill = o.fills
    BY <1>1, <1>2 DEF EventsLeft
  <2>2. QED BY <1>2, <2>1 DEF Projected
<1>5. answered' \subseteq Keys
  BY <1>0, <1>1, <1>2 DEF TypeOK
<1>6. TypeOK'
  BY <1>0, <1>1, <1>3, <1>5 DEF TypeOK
<1>7. HolderIsAlone' /\ \A v \in Workers : v # w => Stands(v)'
  <2>1. worker'[w].pc \notin Holding
    BY <1>3 DEF Holding
  <2>2. QED BY <1>1, <1>2, <1>3, <2>1, OthersStand
<1>8. Stands(w)' /\ IntentInHand'
  BY <1>0, <1>3 DEF Stands, IntentInHand, Working, Points
<1>9. ClaimTells'
  BY <1>0, <1>1, <1>2, <1>5 DEF ClaimTells
<1>10. \A j : FillsOf(j)' = FillsOf(j) /\ Projected(j)' = Projected(j)
  BY <1>1 DEF FillsOf, Projected
<1>11. FreshResultIsProjected'
  BY <1>0, <1>1, <1>4, <1>5, <1>10 DEF FreshResultIsProjected
<1>12. LossIsNoticed'
  BY <1>0, <1>1, <1>3, <1>4, <1>10 DEF LossIsNoticed
<1>13. DeliveredIsHeard' /\ LateIsLast'
  BY <1>0, <1>1, <1>3 DEF DeliveredIsHeard, LateIsLast
<1>14. QED
  BY <1>6, <1>7, <1>8, <1>9, <1>11, <1>12, <1>13 DEF IInv, HolderStands

-----------------------------------------------------------------------------
(* Steps of the environment *)

(* Each change of readiness starts the count of late orders anew.          *)
LEMMA ReadinessStep ==
  ASSUME IInv, ReadinessChanges
  PROVE  IInv'
<1> USE DEF durable
<1>0. /\ TypeOK /\ IntentInHand /\ HolderStands /\ ClaimTells /\ LateIsLast
      /\ FreshResultIsProjected /\ LossIsNoticed /\ DeliveredIsHeard
  BY DEF IInv
<1>1. /\ changes' \in 0..MaxChanges /\ ready' = ~ready
      /\ late' = [w \in Workers |-> 0]
      /\ UNCHANGED <<failures, claim, order, ledger, worker, delivered, filled,
                     heard, unheard, answered>>
  BY <1>0, BoundAssumption DEF ReadinessChanges, TypeOK
<1>2. TypeOK'
  BY <1>0, <1>1 DEF TypeOK
<1>3. \A j : FillsOf(j)' = FillsOf(j) /\ Projected(j)' = Projected(j)
  BY <1>1 DEF FillsOf, Projected
<1>4. HolderStands'
  BY <1>0, <1>1 DEF HolderStands, Stands, SnapshotIsOrder, EventsLeft
<1>5. IntentInHand' /\ HolderIsAlone' /\ ClaimTells' /\ DeliveredIsHeard'
  BY <1>1 DEF IInv, IntentInHand, HolderIsAlone, ClaimTells, DeliveredIsHeard
<1>6. FreshResultIsProjected' /\ LossIsNoticed'
  BY <1>0, <1>1, <1>3 DEF FreshResultIsProjected, LossIsNoticed
<1>7. LateIsLast'
  BY <1>1 DEF LateIsLast
<1>8. QED BY <1>2, <1>4, <1>5, <1>6, <1>7 DEF IInv

(* Another host moves the order on: the fills of the answer stay on it.    *)
LEMMA OrderMovesStep ==
  ASSUME IInv, NEW k \in Keys, OrderMoves(k)
  PROVE  IInv'
<1> USE DEF ghosts
<1>0. /\ TypeOK /\ IntentInHand /\ HolderStands /\ ClaimTells /\ LateIsLast
      /\ FreshResultIsProjected /\ LossIsNoticed /\ DeliveredIsHeard
  BY DEF IInv
<1> PICK more \in {0, 1} :
       order' = [order EXCEPT ![k].version = @ + 1, ![k].fills = @ + more]
  BY DEF OrderMoves
<1> DEFINE new == [order[k] EXCEPT !.version = @ + 1, !.fills = @ + more]
<1>1. /\ order[k] # None
      /\ UNCHANGED <<ready, changes, failures, claim, ledger, worker, delivered,
                     filled, heard, unheard, answered, late>>
  BY DEF OrderMoves
<1>2. /\ order' = [order EXCEPT ![k] = new]
      /\ new \in Orders /\ new # None
      /\ new.fills >= order[k].fills /\ new.outcome = order[k].outcome
  <2>1. /\ order[k] \in Orders
        /\ order[k].fills \in Nat /\ order[k].version \in Nat
    BY <1>0, <1>1 DEF TypeOK, Orders
  <2> DEFINE fills == order[k].fills + more
             version == order[k].version + 1
  <2>a. fills \in Nat /\ version \in Nat /\ fills >= order[k].fills
    BY <2>1
  <2>b. new = [order[k] EXCEPT !.version = version, !.fills = fills]
    OBVIOUS
  <2> HIDE DEF fills, version
  <2>2. new \in Orders /\ new.fills = fills /\ new.outcome = order[k].outcome
    BY <2>1, <2>a, <2>b DEF Orders
  <2>3. new # None
    BY <2>2, NoneAssumption DEF Orders, Outcomes
  <2>4. order' = [order EXCEPT ![k] = new]
    BY <1>0 DEF TypeOK
  <2>5. QED BY <2>2, <2>3, <2>4, <2>a
<1>3. order'[k] = new /\ \A j \in Keys : j # k => order'[j] = order[j]
  BY <1>0, <1>2 DEF TypeOK
<1>4. TypeOK'
  BY <1>0, <1>1, <1>2 DEF TypeOK
<1>5. \A j : FillsOf(j)' = FillsOf(j) /\ Projected(j)' = Projected(j)
  BY <1>1 DEF FillsOf, Projected
<1>6. HolderStands'
  <2> SUFFICES ASSUME NEW w \in Workers PROVE Stands(w)'
    BY DEF HolderStands
  <2>1. worker[w].pc \in Holding => worker[w].key \in Keys
    BY <1>0 DEF IntentInHand, Working, Points, Holding
  <2>2. worker[w].pc = "place" => worker[w].key # k
    BY <1>0, <1>1 DEF HolderStands, Stands
  <2>3. worker[w].pc \in Holding /\ SnapshotIsOrder(worker[w]) => SnapshotIsOrder(worker[w])'
    <3> SUFFICES ASSUME worker[w].pc \in Holding, SnapshotIsOrder(worker[w])
                 PROVE  SnapshotIsOrder(worker[w])'
      OBVIOUS
    <3>1. CASE worker[w].key # k
      BY <1>1, <1>3, <2>1, <3>1 DEF SnapshotIsOrder
    <3>2. CASE worker[w].key = k
      <4>1. \A a \in Orders : a.fills \in Nat
        BY DEF Orders
      <4> HIDE DEF new
      <4>2. order'[k] = new /\ worker' = worker /\ filled' = filled
        BY <1>1, <1>3
      <4>3. /\ order[k] \in Orders /\ worker[w].snapshot \in Orders
            /\ order[k].fills >= worker[w].snapshot.fills
        BY <3>2 DEF SnapshotIsOrder
      <4>4. new.fills >= worker[w].snapshot.fills
        BY <1>2, <4>1, <4>3
      <4>5. QED BY <1>2, <3>2, <4>2, <4>4 DEF SnapshotIsOrder
    <3>3. QED BY <3>1, <3>2
  <2>4. EventsLeft(worker[w]) => EventsLeft(worker[w])'
    BY <1>1 DEF EventsLeft
  <2>5. QED BY <1>0, <1>1, <1>3, <2>1, <2>2, <2>3, <2>4 DEF HolderStands, Stands, Holding
<1>7. ClaimTells'
  BY <1>0, <1>1, <1>2, <1>3 DEF ClaimTells
<1>8. FreshResultIsProjected'
  <2>1. answered \subseteq Keys /\ \A f \in ledger : f[1] \in Keys
    BY <1>0 DEF TypeOK
  <2>2. QED BY <1>0, <1>1, <1>5, <2>1 DEF FreshResultIsProjected
<1>9. LossIsNoticed'
  BY <1>0, <1>1, <1>5 DEF LossIsNoticed
<1>10. IntentInHand' /\ HolderIsAlone' /\ DeliveredIsHeard' /\ LateIsLast'
  BY <1>1 DEF IInv, IntentInHand, HolderIsAlone, DeliveredIsHeard, LateIsLast
<1>11. QED BY <1>4, <1>6, <1>7, <1>8, <1>9, <1>10 DEF IInv

-----------------------------------------------------------------------------
(* The invariant and what follows from it *)

(* Every step keeps the invariant.                                         *)
LEMMA InvariantStep == IInv /\ [Next]_vars => IInv'
<1> SUFFICES ASSUME IInv, [Next]_vars PROVE IInv'
  OBVIOUS
<1>1. ASSUME NEW w \in Workers, RunOnce(w) PROVE IInv'
  <2>1. CASE Claim(w)
    BY <2>1, ClaimTakenStep, FreshClaimStep
  <2>2. CASE SubmitRaises(w) \/ ProjectionRaises(w)
    BY <2>2, RaisesStep
  <2>3. CASE RaiseProjectionError(w) \/ RaiseSubmissionError(w)
    BY <2>3, AlertStep
  <2>4. QED
    BY <1>1, <2>1, <2>2, <2>3, PlaceStep, BlockedStep, CompleteStep, EmitFillStep,
       AuditStep, ReturnStep
    DEF RunOnce
<1>2. CASE UNCHANGED vars
  <2>1. UNCHANGED <<ready, changes, failures, claim, order, ledger, worker,
                    delivered, filled, heard, unheard, answered, late>>
    BY <1>2 DEF vars
  <2>2. QED
    BY <2>1
    DEF IInv, TypeOK, IntentInHand, HolderIsAlone, ClaimTells, HolderStands, Stands,
        SnapshotIsOrder, EventsLeft, FreshResultIsProjected, LossIsNoticed, Projected,
        FillsOf, DeliveredIsHeard, LateIsLast
<1>3. QED
  BY <1>1, <1>2, RunCycleStep, CrashStep, ReadinessStep, OrderMovesStep DEF Next

(* The inductive invariant holds of every reachable state.                 *)
THEOREM Invariant == Spec => []IInv
  BY InitInvariant, InvariantStep, PTL DEF Spec

(* Every state is well typed.                                              *)
THEOREM TypeCorrect == Spec => []TypeOK
  BY Invariant, PTL DEF IInv

(* A run_once that returns the order it placed has projected every fill    *)
(* the broker answered with, however other hosts have moved the order on,  *)
(* and the ledger holds only contiguous fills of completed orders.         *)
THEOREM FreshResultsAreProjected == Spec => []FreshResultIsProjected
  BY Invariant, PTL DEF IInv

(* A fill of a broker's answer that the ledger lacks is some worker's      *)
(* business, or an alert about its order was delivered, unless the         *)
(* provider failed at that or a process died over it.                      *)
THEOREM LossIsNeverSilent == Spec => []NoSilentLoss
<1>1. IInv => NoSilentLoss
  BY DEF IInv, LossIsNoticed, NoSilentLoss, WorkedOn
<1>2. QED BY Invariant, <1>1, PTL

(* Past the last check a process places at most the one order whose unit   *)
(* was already on its way.                                                 *)
THEOREM GateHoldsBackTheRest == Spec => []OneOrderPastTheGate
<1>1. IInv => OneOrderPastTheGate
  BY DEF IInv, LateIsLast, OneOrderPastTheGate
<1>2. QED BY Invariant, <1>1, PTL
=============================================================================
