---------------------------- MODULE DurablePaper ----------------------------
(***************************************************************************)
(* One PAPER order, kept in PostgreSQL and worked on by several hosts.     *)
(*                                                                         *)
(*   DurablePaperAdapter            execution/durable.py                   *)
(*   DeterministicPaperAdapter      execution/paper.py, lifecycle.py       *)
(*   PostgresPaperOrderRepository   infrastructure/database/               *)
(*                                  order_repository.py                    *)
(*                                                                         *)
(* Each host has one adapter with the order in memory and runs one call at *)
(* a time; every call carries the same request.  A read of the order takes *)
(* three statements, each with its own snapshot (READ COMMITTED); a write  *)
(* is one transaction under the row's lock.  Events and fills are marked   *)
(* with the call that made them, where the code has timestamps and prices. *)
(***************************************************************************)
EXTENDS Naturals, SequencesExt

CONSTANTS
  Hosts,     \* processes with a DurablePaperAdapter each
  Calls,     \* invocations of its methods
  HostOf,    \* the host a call runs on
  Volume,    \* the requested volume, in lots
  NoOrder    \* no row, nothing in memory, nothing read

ASSUME PaperAssumption ==
  /\ HostOf \in [Calls -> Hosts]
  /\ Volume \in Nat \ {0}

VARIABLES
  order,     \* the row with its events and fills, or NoOrder
  memory,    \* DeterministicPaperAdapter._orders of each host
  pc,        \* where each call stands
  op,        \* what it was asked for
  work,      \* the order it has read, or made and wants to persist
  expected,  \* expected_sequence
  tries,     \* how often it has gone back to the repository
  late       \* the order's expires_at has passed

vars == <<order, memory, pc, op, work, expected, tries, late>>

Mutations == {"add_liquidity", "cancel", "expire"}
Kinds == Mutations \cup {"submit", "get"}

Statuses == {"created", "accepted", "partial", "filled", "cancel_pending",
             "cancelled", "rejected", "expired"}

Order == [status : Statuses, filled : 0..Volume,
          events : Seq([status : Statuses, by : Calls]),
          fills : Seq([volume : 1..Volume, by : Calls])]

ASSUME NoOrderAssumption == NoOrder \notin Order

Busy == {"header", "events", "fills", "loaded", "persist", "insert", "committed"}

TypeOK ==
  /\ order \in Order \cup {NoOrder}
  /\ memory \in [Hosts -> Order \cup {NoOrder}]
  /\ pc \in [Calls -> {"idle", "returned", "failed", "conflict", "unresolved",
                       "crashed"} \cup Busy]
  /\ op \in [Calls -> [kind : Kinds, available : 0..Volume]]
  /\ work \in [Calls -> Order \cup {NoOrder}]
  /\ expected \in [Calls -> Nat]
  /\ tries \in [Calls -> {0, 1}]
  /\ late \in BOOLEAN

Init ==
  /\ order = NoOrder
  /\ memory = [h \in Hosts |-> NoOrder]
  /\ pc = [c \in Calls |-> "idle"]
  /\ op = [c \in Calls |-> [kind |-> "get", available |-> 0]]
  /\ work = [c \in Calls |-> NoOrder]
  /\ expected = [c \in Calls |-> 0]
  /\ tries = [c \in Calls |-> 0]
  /\ late = FALSE

Goto(c, point) == pc' = [pc EXCEPT ![c] = point]

-----------------------------------------------------------------------------
(* The lifecycle rules and the operations of DeterministicPaperAdapter *)

\* Mutant: a filled order can still be cancelled.
Transitions_CancelFilled ==
  [s \in Statuses |->
     CASE s = "created" -> {"accepted", "rejected", "expired"}
       [] s \in {"accepted", "partial"} ->
            {"partial", "filled", "cancel_pending", "expired"}
       [] s = "filled" -> {"cancel_pending"}
       [] s = "cancel_pending" -> {"cancelled"}
       [] OTHER -> {}]

\* ORDER_TRANSITIONS.
Transitions ==
  [s \in Statuses |->
     CASE s = "created" -> {"accepted", "rejected", "expired"}
       [] s \in {"accepted", "partial"} ->
            {"partial", "filled", "cancel_pending", "expired"}
       [] s = "cancel_pending" -> {"cancelled"}
       [] OTHER -> {}]

\* _transition, once require_transition has let it pass.
Advance(o, target, c) ==
  [o EXCEPT !.status = target, !.events = Append(@, [status |-> target, by |-> c])]

\* _fill: the smaller of what remains and what the quote offers.
Fill(o, available, c) ==
  LET left == Volume - o.filled
      volume == IF left < available THEN left ELSE available
  IN IF volume = 0 THEN o
     ELSE [Advance(o, IF volume = left THEN "filled" ELSE "partial", c)
             EXCEPT !.filled = @ + volume,
                    !.fills = Append(@, [volume |-> volume, by |-> c])]

\* What submit can return on a host: the order in memory, or a new one that is
\* expired, rejected for its quote, or accepted and filled.
Submitted(c) ==
  LET new == [status |-> "created", filled |-> 0, fills |-> <<>>,
              events |-> <<[status |-> "created", by |-> c]>>]
  IN IF memory[HostOf[c]] # NoOrder THEN {memory[HostOf[c]]}
     ELSE IF late THEN {Advance(new, "expired", c)}
     ELSE {Advance(new, "rejected", c),
           Fill(Advance(new, "accepted", c), op[c].available, c)}

\* What a mutation can make of an order; empty when it always raises.
Mutated(o, c) ==
  CASE op[c].kind = "add_liquidity" /\ ~late ->
         IF o.status \in {"accepted", "partial"}
           THEN {Fill(o, op[c].available, c)} ELSE {}
    [] op[c].kind = "cancel" ->
         IF "cancel_pending" \in Transitions[o.status]
           THEN {Advance(Advance(o, "cancel_pending", c), "cancelled", c)} ELSE {}
    [] op[c].kind \in {"add_liquidity", "expire"} /\ late ->
         IF "expired" \in Transitions[o.status]
           THEN {Advance(o, "expired", c)} ELSE {}
    [] OTHER -> {}

-----------------------------------------------------------------------------
(* What PostgresPaperOrderRepository checks, and the database's triggers   *)
(* check again                                                             *)

Total(fills) == SumFunction([i \in DOMAIN fills |-> fills[i].volume])

\* Mutant: the fills are not added up.
Consistent_IgnoresTotal(o) ==
  /\ o.events # <<>>
  /\ o.events[1].status = "created"
  /\ Last(o.events).status = o.status
  /\ \A i \in 2..Len(o.events) :
       o.events[i].status \in Transitions[o.events[i - 1].status]

\* _validate: events, fills, status and filled volume tell one story.
Consistent(o) ==
  /\ o.events # <<>>
  /\ o.events[1].status = "created"
  /\ Last(o.events).status = o.status
  /\ \A i \in 2..Len(o.events) :
       o.events[i].status \in Transitions[o.events[i - 1].status]
  /\ Total(o.fills) = o.filled
  /\ o.filled <= Volume

\* Mutant: only the length of the new snapshot is looked at.
Replaces_IfLonger(new, old, sequence) == Len(new.events) > Len(old.events)

\* The sequence is the one the caller read, and nothing on record changes.
Replaces(new, old, sequence) ==
  /\ sequence = Len(old.events)
  /\ Len(new.events) > Len(old.events)
  /\ IsPrefix(old.events, new.events)
  /\ IsPrefix(old.fills, new.fills)

-----------------------------------------------------------------------------
(* DurablePaperAdapter *)

Start(c) ==
  /\ pc[c] = "idle"
  /\ \A d \in Calls : HostOf[d] = HostOf[c] => pc[d] \notin Busy
  /\ \E kind \in Kinds, available \in 0..Volume :
       /\ kind \notin {"submit", "add_liquidity"} => available = 0
       /\ op' = [op EXCEPT ![c] = [kind |-> kind, available |-> available]]
  /\ Goto(c, "header")
  /\ UNCHANGED <<order, memory, work, expected, tries, late>>

\* repository.get: the row.  Without one, submit makes the order in memory and
\* persists it; everything else raises.
ReadHeader(c) ==
  /\ pc[c] = "header"
  /\ \/ /\ order # NoOrder
        /\ work' = [work EXCEPT ![c] = [order EXCEPT !.events = <<>>, !.fills = <<>>]]
        /\ Goto(c, "events")
        /\ UNCHANGED <<memory, expected>>
     \/ /\ order = NoOrder
        /\ op[c].kind = "submit"
        /\ \E o \in Submitted(c) :
             /\ memory' = [memory EXCEPT ![HostOf[c]] = o]
             /\ work' = [work EXCEPT ![c] = o]
        /\ expected' = [expected EXCEPT ![c] = 0]
        /\ Goto(c, "persist")
     \/ /\ order = NoOrder
        /\ op[c].kind # "submit"
        /\ Goto(c, "failed")
        /\ UNCHANGED <<memory, work, expected>>
  /\ UNCHANGED <<order, op, tries, late>>

\* ... its events, in a second statement ...
ReadEvents(c) ==
  /\ pc[c] = "events"
  /\ work' = [work EXCEPT ![c].events = order.events]
  /\ Goto(c, "fills")
  /\ UNCHANGED <<order, memory, op, expected, tries, late>>

\* ... and its fills, in a third.
ReadFills(c) ==
  /\ pc[c] = "fills"
  /\ work' = [work EXCEPT ![c].fills = order.fills]
  /\ Goto(c, "loaded")
  /\ UNCHANGED <<order, memory, op, expected, tries, late>>

\* submit and get hydrate the memory, unless it holds something else.
Restore(c) ==
  LET h == HostOf[c] IN
  /\ pc[c] = "loaded"
  /\ op[c].kind \in {"submit", "get"}
  /\ IF memory[h] \in {NoOrder, work[c]}
       THEN memory' = [memory EXCEPT ![h] = work[c]] /\ Goto(c, "returned")
       ELSE UNCHANGED memory /\ Goto(c, "conflict")
  /\ UNCHANGED <<order, op, work, expected, tries, late>>

\* _mutate: replace the memory by what was read, run the action on it, and
\* validate the result.
Mutate(c) ==
  LET h == HostOf[c] IN
  /\ pc[c] = "loaded"
  /\ op[c].kind \in Mutations
  /\ expected' = [expected EXCEPT ![c] = Len(work[c].events)]
  /\ \/ \E o \in Mutated(work[c], c) :
          /\ memory' = [memory EXCEPT ![h] = o]
          /\ work' = [work EXCEPT ![c] = o]
          /\ Goto(c, IF Consistent(o) THEN "persist" ELSE "failed")
     \/ /\ Mutated(work[c], c) = {} \/ op[c].kind = "add_liquidity"
        /\ memory' = [memory EXCEPT ![h] = work[c]]
        /\ Goto(c, "failed")
        /\ UNCHANGED work
  /\ UNCHANGED <<order, op, tries, late>>

\* Mutant: a stale sequence is taken for success.
Stale_Succeeds(c) ==
  /\ Goto(c, "returned")
  /\ UNCHANGED tries

\* ConcurrentPaperOrderUpdate: a mutation reloads once, a submit fails.
Stale(c) ==
  \/ /\ op[c].kind = "submit"
     /\ Goto(c, "failed")
     /\ UNCHANGED tries
  \/ /\ op[c].kind # "submit"
     /\ tries[c] = 0
     /\ tries' = [tries EXCEPT ![c] = 1]
     /\ Goto(c, "header")
  \/ /\ op[c].kind # "submit"
     /\ tries[c] = 1
     /\ Goto(c, "unresolved")
     /\ UNCHANGED tries

\* persist: SELECT ... FOR UPDATE, and the append if the row is there.
Persist(c) ==
  /\ pc[c] = "persist"
  /\ \/ /\ order = NoOrder
        /\ Goto(c, "insert")
        /\ UNCHANGED <<order, tries>>
     \/ /\ order = work[c]
        /\ Goto(c, "returned")
        /\ UNCHANGED <<order, tries>>
     \/ /\ order \notin {NoOrder, work[c]}
        /\ Replaces(work[c], order, expected[c])
        /\ order' = work[c]
        /\ Goto(c, "committed")
        /\ UNCHANGED tries
     \/ /\ order \notin {NoOrder, work[c]}
        /\ ~Replaces(work[c], order, expected[c])
        /\ Stale(c)
        /\ UNCHANGED order
  /\ UNCHANGED <<memory, op, work, expected, late>>

\* INSERT of the row; a row inserted meanwhile is an IdempotencyConflict, and
\* submit reads the winner.
Insert(c) ==
  /\ pc[c] = "insert"
  /\ \/ /\ order = NoOrder
        /\ order' = work[c]
        /\ Goto(c, "committed")
        /\ UNCHANGED tries
     \/ /\ order # NoOrder
        /\ tries' = [tries EXCEPT ![c] = 1]
        /\ Goto(c, "header")
        /\ UNCHANGED order
  /\ UNCHANGED <<memory, op, work, expected, late>>

Return(c) ==
  /\ pc[c] = "committed"
  /\ Goto(c, "returned")
  /\ UNCHANGED <<order, memory, op, work, expected, tries, late>>

\* Mutant: a mutation is tried again after any error of the repository.
Raise_Retries(c) ==
  /\ pc[c] \in Busy \ {"loaded"}
  /\ IF op[c].kind \in Mutations /\ tries[c] = 0
       THEN Goto(c, "header") /\ tries' = [tries EXCEPT ![c] = 1]
       ELSE Goto(c, "failed") /\ UNCHANGED tries
  /\ UNCHANGED <<order, memory, op, work, expected, late>>

\* A statement or the answer to a commit is lost.  The memory stays as it is.
Raise(c) ==
  /\ pc[c] \in Busy \ {"loaded"}
  /\ Goto(c, "failed")
  /\ UNCHANGED <<order, memory, op, work, expected, tries, late>>

-----------------------------------------------------------------------------

Crash(h) ==
  /\ memory[h] # NoOrder \/ \E c \in Calls : HostOf[c] = h /\ pc[c] \in Busy
  /\ memory' = [memory EXCEPT ![h] = NoOrder]
  /\ pc' = [c \in Calls |->
              IF HostOf[c] = h /\ pc[c] \in Busy THEN "crashed" ELSE pc[c]]
  /\ UNCHANGED <<order, op, work, expected, tries, late>>

Expires ==
  /\ ~late
  /\ late' = TRUE
  /\ UNCHANGED <<order, memory, pc, op, work, expected, tries>>

Step(c) ==
  \/ Start(c) \/ ReadHeader(c) \/ ReadEvents(c) \/ ReadFills(c) \/ Restore(c)
  \/ Mutate(c) \/ Persist(c) \/ Insert(c) \/ Return(c) \/ Raise(c)

Next ==
  \/ \E c \in Calls : Step(c)
  \/ \E h \in Hosts : Crash(h)
  \/ Expires

Spec == Init /\ [][Next]_vars

-----------------------------------------------------------------------------

\* The order on record tells one story, although it is written from reads that
\* may mix two versions: fills add up, events follow the lifecycle and end in
\* the status, and the order is filled exactly when its volume is.
RecordIsConsistent ==
  order # NoOrder =>
    /\ Last(order.events).status = order.status
    /\ Total(order.fills) = order.filled
    /\ order.filled = Volume <=> order.status = "filled"
    /\ \A i \in 2..Len(order.events) :
         order.events[i].status \in Transitions[order.events[i - 1].status]

\* An order handed to a caller, also by get, is part of the record for good.
ReportedIsDurable ==
  \A c \in Calls : pc[c] = "returned" =>
    /\ order # NoOrder
    /\ IsPrefix(work[c].events, order.events)
    /\ IsPrefix(work[c].fills, order.fills)

\* No call fills twice, whether it was retried, raced or lost its answer.
OneFillPerCall ==
  order # NoOrder =>
    \A i, j \in 1..Len(order.fills) :
      order.fills[i].by = order.fills[j].by => i = j

\* Nothing on record is ever lost or rewritten by a host with an older copy.
RecordOnlyGrows ==
  [][order # NoOrder =>
       /\ IsPrefix(order.events, order'.events)
       /\ IsPrefix(order.fills, order'.fills)]_vars

Lifecycle ==
  INSTANCE PaperOrderLifecycle
    WITH status <- IF order = NoOrder THEN "none" ELSE order.status,
         filled <- IF order = NoOrder THEN 0 ELSE order.filled

\* All hosts together work the order as one adapter without concurrency would.
ImplementsLifecycle == Lifecycle!Spec

-----------------------------------------------------------------------------
(* What the sources say and the code does not do *)

\* tests/unit/test_durable_paper_adapter.py,
\* test_submit_race_replays_matching_winner...: a submit that loses the race
\* to another one with the same request replays the winner.
SubmitRaceReplaysWinner ==
  \A c \in Calls : op[c].kind = "submit" => pc[c] # "conflict"
=============================================================================
