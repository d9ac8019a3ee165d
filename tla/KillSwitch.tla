----------------------------- MODULE KillSwitch -----------------------------
(***************************************************************************)
(* The kill switch: audited transitions asked for by operators, and the    *)
(* guard that order submission holds over its final check and the broker   *)
(* call.                                                                   *)
(*                                                                         *)
(*   KillSwitchService               risk/kill_switch.py                   *)
(*   PostgresKillSwitchRepository    infrastructure/database/              *)
(*                                   kill_switch_repository.py             *)
(*                                                                         *)
(* A transition reads the current state in one transaction and persists in *)
(* a second one, under the advisory lock of its scope.  A guard takes the  *)
(* locks of all its scopes one statement at a time, on a session of its    *)
(* own: is_blocked and the broker work on others and do not notice when it *)
(* is gone.  Operators supply the time of a transition themselves; their   *)
(* clocks need not agree.                                                  *)
(***************************************************************************)
EXTENDS Naturals

CONSTANTS
  Operators,    \* threads that call activate and deactivate, again and again
  Submitters,   \* threads that submit orders under submission_guard
  Scopes,       \* kill-switch scopes
  Rank,         \* the order of the scopes' keys, as sorted() puts them
  ScopesOf,     \* the scopes that match a submitter's KillSwitchQuery
  References,   \* actor, reason and incident reference of a transition
  MaxTime,      \* bound: occurred_at of a transition is in 1..MaxTime
  Free          \* nobody holds the advisory lock

Processes == Operators \cup Submitters
Times == 1..MaxTime
Actions == {"activate", "deactivate"}
Events == [action : Actions, scope : Scopes, at : Times, ref : References]

ASSUME KillSwitchAssumption ==
  /\ Operators \cap Submitters = {}
  /\ Free \notin Processes
  /\ Rank \in [Scopes -> Nat]
  /\ \A s, t \in Scopes : Rank[s] = Rank[t] => s = t
  /\ ScopesOf \in [Submitters -> (SUBSET Scopes) \ {{}}]
  /\ MaxTime \in Nat

VARIABLES
  row,      \* kill_switch_states: by scope, active and last_transition_at
            \* (0 before the first transition)
  events,   \* kill_switch_events, append-only
  lock,     \* holder of each scope's advisory lock
  pc,       \* where each process stands
  request   \* the event an operator built from the state it read

vars == <<row, events, lock, pc, request>>

TypeOK ==
  /\ row \in [Scopes -> [active : BOOLEAN, at : 0..MaxTime]]
  /\ events \subseteq Events
  /\ lock \in [Scopes -> Processes \cup {Free}]
  /\ pc \in [Processes -> {"idle", "read", "locked", "locking", "guarded",
                           "calling"}]
  /\ request \in [Operators -> Events \cup {Free}]

Init ==
  /\ row = [s \in Scopes |-> [active |-> FALSE, at |-> 0]]
  /\ events = {}
  /\ lock = [s \in Scopes |-> Free]
  /\ pc = [p \in Processes |-> "idle"]
  /\ request = [o \in Operators |-> Free]

\* A session ends: its advisory locks go with it.
Released(p) == [s \in Scopes |-> IF lock[s] = p THEN Free ELSE lock[s]]

-----------------------------------------------------------------------------
(* activate and deactivate *)

\* The unlocked read and the checks on what it returned.  Activating an active
\* scope returns the current state, and every refusal raises: nothing changes.
Read(o) ==
  /\ pc[o] = "idle"
  /\ \E e \in Events :
       /\ row[e.scope].active = (e.action = "deactivate")
       /\ e.at > row[e.scope].at
       /\ request' = [request EXCEPT ![o] = e]
  /\ pc' = [pc EXCEPT ![o] = "read"]
  /\ UNCHANGED <<row, events, lock>>

\* Mutant: a transition does not take the advisory lock of its scope.
LockScope_Skipped(o) ==
  /\ pc[o] = "read"
  /\ pc' = [pc EXCEPT ![o] = "locked"]
  /\ UNCHANGED <<row, events, lock, request>>

\* persist_transition: pg_advisory_xact_lock of the scope ...
LockScope(o) ==
  /\ pc[o] = "read"
  /\ lock[request[o].scope] = Free
  /\ lock' = [lock EXCEPT ![request[o].scope] = o]
  /\ pc' = [pc EXCEPT ![o] = "locked"]
  /\ UNCHANGED <<row, events, request>>

\* Mutant: the time is not compared again under the lock.
Persist_TrustsTheRead(o) ==
  LET e == request[o] IN
  /\ pc[o] = "locked"
  /\ events' = events \cup {e}
  /\ row' = [row EXCEPT ![e.scope] =
       [active |-> e.action = "activate", at |-> e.at]]
  /\ lock' = Released(o)
  /\ pc' = [pc EXCEPT ![o] = "idle"]
  /\ request' = [request EXCEPT ![o] = Free]

\* ... and the rest of its transaction: a known event is a no-op, a time that
\* does not move forward raises, anything else appends the event and updates
\* the state together.  The action is not compared with the current state.
Persist(o) ==
  LET e == request[o] IN
  /\ pc[o] = "locked"
  /\ IF e \notin events /\ e.at > row[e.scope].at
       THEN /\ events' = events \cup {e}
            /\ row' = [row EXCEPT ![e.scope] =
                 [active |-> e.action = "activate", at |-> e.at]]
       ELSE UNCHANGED <<row, events>>
  /\ lock' = Released(o)
  /\ pc' = [pc EXCEPT ![o] = "idle"]
  /\ request' = [request EXCEPT ![o] = Free]

-----------------------------------------------------------------------------
(* submission_guard around is_blocked and broker.submit *)

\* The scopes a guard has still to lock.
Pending(q) == {s \in ScopesOf[q] : lock[s] # q}

StartGuard(q) ==
  /\ pc[q] = "idle"
  /\ pc' = [pc EXCEPT ![q] = "locking"]
  /\ UNCHANGED <<row, events, lock, request>>

\* Mutant: the scopes are locked in any order.
LockNext_Unsorted(q) ==
  /\ pc[q] = "locking"
  /\ \E s \in Pending(q) :
       /\ lock[s] = Free
       /\ lock' = [lock EXCEPT ![s] = q]
       /\ pc' = [pc EXCEPT ![q] = IF Pending(q) = {s} THEN "guarded" ELSE "locking"]
  /\ UNCHANGED <<row, events, request>>

\* One pg_advisory_xact_lock statement: the least scope key not yet held.
LockNext(q) ==
  /\ pc[q] = "locking"
  /\ \E s \in Pending(q) :
       /\ \A t \in Pending(q) : Rank[s] <= Rank[t]
       /\ lock[s] = Free
       /\ lock' = [lock EXCEPT ![s] = q]
       /\ pc' = [pc EXCEPT ![q] = IF Pending(q) = {s} THEN "guarded" ELSE "locking"]
  /\ UNCHANGED <<row, events, request>>

\* is_blocked finds no active scope that matches the query.
CheckClear(q) ==
  /\ pc[q] = "guarded"
  /\ \A s \in ScopesOf[q] : ~row[s].active
  /\ pc' = [pc EXCEPT ![q] = "calling"]
  /\ UNCHANGED <<row, events, lock, request>>

\* An active scope, or a failure of the read: the with statement is left.
CheckBlocked(q) ==
  /\ pc[q] = "guarded"
  /\ pc' = [pc EXCEPT ![q] = "idle"]
  /\ lock' = Released(q)
  /\ UNCHANGED <<row, events, request>>

\* broker.submit has returned or raised, and the with statement is left.
EndCall(q) ==
  /\ pc[q] = "calling"
  /\ pc' = [pc EXCEPT ![q] = "idle"]
  /\ lock' = Released(q)
  /\ UNCHANGED <<row, events, request>>

-----------------------------------------------------------------------------

\* The process dies, or the session of the statement it is in: the transition or
\* the collection of locks raises.  A guard that has all its locks runs no
\* statement of its session, so there only the death of the process ends it.
Crash(p) ==
  /\ pc[p] # "idle"
  /\ pc' = [pc EXCEPT ![p] = "idle"]
  /\ lock' = Released(p)
  /\ request' = IF p \in Operators THEN [request EXCEPT ![p] = Free] ELSE request
  /\ UNCHANGED <<row, events>>

\* The session of a guard dies around is_blocked and broker.submit, which go on:
\* PostgreSQL releases the locks, and nobody notices before the with statement
\* is left and its commit raises.
SessionLost(q) ==
  /\ pc[q] \in {"guarded", "calling"}
  /\ lock' = Released(q)
  /\ UNCHANGED <<row, events, pc, request>>

Transition(o) == Read(o) \/ LockScope(o) \/ Persist(o)

Guard(q) ==
  StartGuard(q) \/ LockNext(q) \/ CheckClear(q) \/ CheckBlocked(q) \/ EndCall(q)

Next ==
  \/ \E o \in Operators : Transition(o)
  \/ \E q \in Submitters : Guard(q) \/ SessionLost(q)
  \/ \E p \in Processes : Crash(p)

\* PostgreSQL grants a lock in the order of its waiters, so a lock that is free
\* again and again is granted: strong fairness on the two lock statements.
\* Nothing makes an operator ask or a submitter start.
Fairness ==
  /\ \A o \in Operators : SF_vars(LockScope(o)) /\ WF_vars(Persist(o))
  /\ \A q \in Submitters :
       /\ SF_vars(LockNext(q))
       /\ WF_vars(CheckClear(q) \/ CheckBlocked(q))
       /\ WF_vars(EndCall(q))

Spec == Init /\ [][Next]_vars /\ Fairness

-----------------------------------------------------------------------------

\* The session of a guard is alive: it holds every lock it took.
Guarded(q) == \A s \in ScopesOf[q] : lock[s] = q

\* While a submitter is inside broker.submit and the session of its guard lives,
\* no scope that matches its query is active, whatever transitions were read,
\* waiting or committed around its check.
CallIsClear ==
  \A q \in Submitters : pc[q] = "calling" /\ Guarded(q) =>
    \A s \in ScopesOf[q] : ~row[s].active

\* A submitter only ever waits for a scope above all those it holds, so that no
\* circle of submitters, each waiting for the next, can close.
WaitsUpward ==
  \A q \in Submitters : \A s \in Scopes, t \in Pending(q) :
    lock[s] = q => Rank[s] < Rank[t]

\* The state row is what the newest audit event of the scope says, so that the
\* audit alone explains why a scope is active.
StateFollowsAudit ==
  \A s \in Scopes :
    \/ ~row[s].active /\ \A e \in events : e.scope # s
    \/ \E e \in events :
         /\ e.scope = s
         /\ row[s].at = e.at
         /\ row[s].active <=> e.action = "activate"
         /\ \A f \in events : f.scope = s => f.at <= e.at

\* The audit of a scope is strictly ordered by time, although operators read
\* without a lock and use their own clocks.
AuditIsStrictlyOrdered ==
  \A e, f \in events : e.scope = f.scope /\ e.at = f.at => e = f

\* A submitter that starts its guard gets through it: guards that overlap and
\* transitions on any scope never wait for each other in a circle.
EveryGuardEnds ==
  \A q \in Submitters : pc[q] = "locking" ~> pc[q] = "idle"

-----------------------------------------------------------------------------
(* What the sources say and the code does not do *)

\* submission_guard: "Hold all applicable scope locks across final check and
\* submission"; so no matching scope is active during any call of the broker.
EveryCallIsClear ==
  \A q \in Submitters : pc[q] = "calling" =>
    \A s \in ScopesOf[q] : ~row[s].active

\* deactivate: "kill switch is not active for this scope" refuses a scope that
\* is not active; so a deactivation is recorded only for the activation the
\* operator saw, the one in force.
DeactivationSeesItsActivation ==
  [][\A o \in Operators :
       Persist(o) /\ request[o].action = "deactivate" /\ request[o] \in events' \ events
         => row[request[o].scope].active]_vars
=============================================================================
