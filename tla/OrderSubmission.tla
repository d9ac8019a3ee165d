-------------------------- MODULE OrderSubmission --------------------------
(***************************************************************************)
(* The fail-closed path from an approved order intent to the PAPER broker: *)
(*                                                                         *)
(*   OrderSubmissionService.submit        risk/submission.py               *)
(*   PostgresSubmissionJournal            infrastructure/database/         *)
(*                                        submission_repository.py         *)
(*   the kill-switch submission guard     kill_switch_repository.py        *)
(*   PaperBrokerPort.submit and lookup    execution/service.py             *)
(*                                                                         *)
(* Several hosts run submit and recover_expired at the same time on one    *)
(* database.  Every invocation is a process with its own program counter;  *)
(* one action is one database transaction, one lock operation or one step  *)
(* of the broker.  A uuid4 owner is drawn once per claim and once per      *)
(* recovery, so the invocation itself stands for the owner it draws.       *)
(*                                                                         *)
(* The database session of a guard is taken to outlive broker.submit, but  *)
(* for the death of its host; the loss of a session alone is in KillSwitch. *)
(***************************************************************************)

CONSTANTS
  Hosts,        \* operating-system processes, one journal instance each
  Keys,         \* idempotency keys
  Hashes,       \* submission_request_hash values
  Scopes,       \* kill-switch scopes
  Calls,        \* invocations of OrderSubmissionService.submit
  Recoveries,   \* invocations of PostgresSubmissionJournal.recover_expired
  HostOf,       \* the host an invocation runs on
  KeyOf,        \* the idempotency key an invocation is about
  HashOf,       \* the request hash an invocation carries
  ScopesOf,     \* the scopes that match the KillSwitchQuery of a key
  NoRow,        \* no journal row
  NoOwner       \* no entry in a journal instance's _owners

Invocations == Calls \cup Recoveries

RowStates == {"in_flight", "unknown", "completed"}

\* A row of quantora.submission_journal.  The lease's deadline is a flag:
\* nothing bounds how soon it passes.
Row == [hash : Hashes, owner : Invocations, lease : {"live", "expired"},
        state : RowStates]

ASSUME SubmissionAssumption ==
  /\ Calls \cap Recoveries = {}
  /\ HostOf \in [Invocations -> Hosts]
  /\ KeyOf \in [Invocations -> Keys]
  /\ HashOf \in [Invocations -> Hashes]
  /\ ScopesOf \in [Keys -> SUBSET Scopes]
  /\ NoRow \notin Row
  /\ NoOwner \notin Invocations

VARIABLES
  pc,        \* where each invocation stands
  journal,   \* the submission_journal table, by key
  owners,    \* PostgresSubmissionJournal._owners of each host
  active,    \* kill-switch scopes that are active
  expired,   \* keys whose decision is past its expires_at
  placed     \* calls whose broker.submit placed a PAPER order

vars == <<pc, journal, owners, active, expired, placed>>

\* Program counters of submit, in the order of its statements.
InGuard == {"guarded", "blocked", "calling", "placed"}
PastClaim == {"acquired", "returned"} \cup InGuard
CallEnd == {"rejected", "refused", "replayed", "abandoned", "done", "failed",
            "crashed"}
CallPoints == {"idle", "admitted", "conflict"} \cup PastClaim \cup CallEnd

\* Program counters of recover_expired.
Recovering == {"fenced", "adopted", "found", "missing"}
RecoveryPoints == {"idle", "settled", "failed", "crashed"} \cup Recovering

TypeOK ==
  /\ pc \in [Invocations -> CallPoints \cup RecoveryPoints]
  /\ \A c \in Calls : pc[c] \in CallPoints
  /\ \A r \in Recoveries : pc[r] \in RecoveryPoints
  /\ journal \in [Keys -> Row \cup {NoRow}]
  /\ owners \in [Hosts -> [Keys -> Invocations \cup {NoOwner}]]
  /\ active \subseteq Scopes
  /\ expired \subseteq Keys
  /\ placed \subseteq Calls

Init ==
  /\ pc = [i \in Invocations |-> "idle"]
  /\ journal = [k \in Keys |-> NoRow]
  /\ owners = [h \in Hosts |-> [k \in Keys |-> NoOwner]]
  /\ active = {}
  /\ expired = {}
  /\ placed = {}

-----------------------------------------------------------------------------
(* Helpers *)

Goto(i, point) == pc' = [pc EXCEPT ![i] = point]

HasOrder(k) == \E c \in placed : KeyOf[c] = k

\* The row _locked(key) finds and its owner check: the claim is in flight,
\* its lease is live and it belongs to the owner this host remembers for the
\* key -- whichever invocation drew that owner.
HoldsClaim(h, k) ==
  /\ owners[h][k] # NoOwner
  /\ journal[k] # NoRow
  /\ journal[k].state = "in_flight"
  /\ journal[k].owner = owners[h][k]
  /\ journal[k].lease = "live"

Forget(h, k) == owners' = [owners EXCEPT ![h][k] = NoOwner]

\* complete and mark_unknown: a ValueError unless this host holds the claim.
Resolve(i, state, success) ==
  LET h == HostOf[i]
      k == KeyOf[i]
  IN \/ /\ HoldsClaim(h, k)
        /\ journal' = [journal EXCEPT ![k].state = state]
        /\ Forget(h, k)
        /\ Goto(i, success)
     \/ /\ ~HoldsClaim(h, k)
        /\ Goto(i, "failed")
        /\ UNCHANGED <<journal, owners>>

\* The advisory locks of two queries overlap when they share a scope.
LocksFree(scopes) ==
  \A c \in Calls : pc[c] \in InGuard => ScopesOf[KeyOf[c]] \cap scopes = {}

Halted(k) == active \cap ScopesOf[k] # {}

-----------------------------------------------------------------------------
(* OrderSubmissionService.submit *)

\* Everything before the claim: mode and evidence checks, and the one place
\* where the decision's expires_at is compared with the clock.
CheckEvidence(c) ==
  /\ pc[c] = "idle"
  /\ Goto(c, IF KeyOf[c] \in expired THEN "rejected" ELSE "admitted")
  /\ UNCHANGED <<journal, owners, active, expired, placed>>

\* Mutant: an in-flight claim whose lease has expired is claimed again.
ClaimInsert_TakesOverExpired(c) ==
  LET k == KeyOf[c] IN
  /\ pc[c] = "admitted"
  /\ IF journal[k] = NoRow \/ journal[k].lease = "expired"
       THEN /\ journal' = [journal EXCEPT ![k] =
                 [hash |-> HashOf[c], owner |-> c, lease |-> "live",
                  state |-> "in_flight"]]
            /\ owners' = [owners EXCEPT ![HostOf[c]][k] = c]
            /\ Goto(c, "acquired")
       ELSE /\ Goto(c, "conflict")
            /\ UNCHANGED <<journal, owners>>
  /\ UNCHANGED <<active, expired, placed>>

\* INSERT ... ON CONFLICT DO NOTHING: a new row is this call's claim.
ClaimInsert(c) ==
  LET k == KeyOf[c] IN
  /\ pc[c] = "admitted"
  /\ IF journal[k] = NoRow
       THEN /\ journal' = [journal EXCEPT ![k] =
                 [hash |-> HashOf[c], owner |-> c, lease |-> "live",
                  state |-> "in_flight"]]
            /\ owners' = [owners EXCEPT ![HostOf[c]][k] = c]
            /\ Goto(c, "acquired")
       ELSE /\ Goto(c, "conflict")
            /\ UNCHANGED <<journal, owners>>
  /\ UNCHANGED <<active, expired, placed>>

\* Mutant: a claim that is not completed is submitted again.
ClaimRead_Resubmits(c) ==
  LET row == journal[KeyOf[c]] IN
  /\ pc[c] = "conflict"
  /\ Goto(c, IF row = NoRow THEN "refused"
             ELSE IF row.state = "completed" THEN "replayed" ELSE "acquired")
  /\ UNCHANGED <<journal, owners, active, expired, placed>>

\* Mutant: any claim of the same request answers.
ClaimRead_AnswersUnknown(c) ==
  LET row == journal[KeyOf[c]] IN
  /\ pc[c] = "conflict"
  /\ Goto(c, IF row # NoRow /\ row.hash = HashOf[c] /\ row.state # "in_flight"
             THEN "replayed" ELSE "refused")
  /\ UNCHANGED <<journal, owners, active, expired, placed>>

\* SELECT ... FOR UPDATE after a conflict: only a completed claim of the same
\* request answers; a missing row, another hash, in_flight and unknown raise.
ClaimRead(c) ==
  LET row == journal[KeyOf[c]] IN
  /\ pc[c] = "conflict"
  /\ Goto(c, IF /\ row # NoRow
                /\ row.hash = HashOf[c]
                /\ row.state = "completed"
             THEN "replayed" ELSE "refused")
  /\ UNCHANGED <<journal, owners, active, expired, placed>>

\* submission_guard: every scope key's advisory lock, held to the with's end.
EnterGuard(c) ==
  /\ pc[c] = "acquired"
  /\ LocksFree(ScopesOf[KeyOf[c]])
  /\ Goto(c, "guarded")
  /\ UNCHANGED <<journal, owners, active, expired, placed>>

\* is_blocked: an active scope, or a repository failure (fail closed).
SwitchBlocks(c) ==
  /\ pc[c] = "guarded"
  /\ Goto(c, "blocked")
  /\ UNCHANGED <<journal, owners, active, expired, placed>>

SwitchClear(c) ==
  /\ pc[c] = "guarded"
  /\ ~Halted(KeyOf[c])
  /\ Goto(c, "calling")
  /\ UNCHANGED <<journal, owners, active, expired, placed>>

\* abandon: delete the claim this host holds, then raise PermissionError.
Abandon(c) ==
  LET h == HostOf[c]
      k == KeyOf[c]
  IN /\ pc[c] = "blocked"
     /\ \/ /\ HoldsClaim(h, k)
           /\ journal' = [journal EXCEPT ![k] = NoRow]
           /\ Forget(h, k)
           /\ Goto(c, "abandoned")
        \/ /\ ~HoldsClaim(h, k)
           /\ Goto(c, "failed")
           /\ UNCHANGED <<journal, owners>>
     /\ UNCHANGED <<active, expired, placed>>

\* broker.submit stores the PAPER order somewhere inside the call ...
BrokerPlaces(c) ==
  /\ pc[c] = "calling"
  /\ placed' = placed \cup {c}
  /\ Goto(c, "placed")
  /\ UNCHANGED <<journal, owners, active, expired>>

\* ... and returns; leaving the with statement releases the locks.
BrokerReturns(c) ==
  /\ pc[c] = "placed"
  /\ Goto(c, "returned")
  /\ UNCHANGED <<journal, owners, active, expired, placed>>

Complete(c) ==
  /\ pc[c] = "returned"
  /\ Resolve(c, "completed", "done")
  /\ UNCHANGED <<active, expired, placed>>

\* Mutant: an exception abandons the claim, whatever the broker did.
Raise_Abandons(c) ==
  /\ pc[c] \in PastClaim
  /\ Goto(c, "failed")
  /\ journal' = IF HoldsClaim(HostOf[c], KeyOf[c])
                  THEN [journal EXCEPT ![KeyOf[c]] = NoRow] ELSE journal
  /\ UNCHANGED <<owners, active, expired, placed>>

\* The guard, the broker (before or after it stored the order) or the database
\* raises: the claim is retained.
Raise(c) ==
  /\ pc[c] \in PastClaim
  /\ Goto(c, "failed")
  /\ UNCHANGED <<journal, owners, active, expired, placed>>

-----------------------------------------------------------------------------
(* PostgresSubmissionJournal.recover_expired *)

\* Mutant: a claim marked unknown is put back in flight.
Fence_ReopensUnknown(r) ==
  LET k == KeyOf[r]
      row == journal[k]
  IN /\ pc[r] = "idle"
     /\ row # NoRow
     /\ row.state = "unknown" \/ row.lease = "expired"
     /\ journal' = [journal EXCEPT ![k] =
          [row EXCEPT !.owner = r, !.lease = "live", !.state = "in_flight"]]
     /\ Goto(r, "fenced")
     /\ UNCHANGED <<owners, active, expired, placed>>

\* The first transaction: take over an expired in-flight claim, or return.
Fence(r) ==
  LET k == KeyOf[r]
      row == journal[k]
  IN /\ pc[r] = "idle"
     /\ IF /\ row # NoRow
           /\ row.hash = HashOf[r]
           /\ row.state = "in_flight"
           /\ row.lease = "expired"
          THEN /\ journal' = [journal EXCEPT ![k] =
                    [row EXCEPT !.owner = r, !.lease = "live"]]
               /\ Goto(r, "fenced")
          ELSE /\ Goto(r, "settled")
               /\ UNCHANGED journal
     /\ UNCHANGED <<owners, active, expired, placed>>

\* After the commit, this host's memory of the owner is replaced.
Adopt(r) ==
  /\ pc[r] = "fenced"
  /\ owners' = [owners EXCEPT ![HostOf[r]][KeyOf[r]] = r]
  /\ Goto(r, "adopted")
  /\ UNCHANGED <<journal, active, expired, placed>>

\* lookup.lookup, outside any transaction: it reads and never submits.
Lookup(r) ==
  /\ pc[r] = "adopted"
  /\ Goto(r, IF HasOrder(KeyOf[r]) THEN "found" ELSE "missing")
  /\ UNCHANGED <<journal, owners, active, expired, placed>>

LookupRaises(r) ==
  /\ pc[r] = "adopted"
  /\ Goto(r, "failed")
  /\ UNCHANGED <<journal, owners, active, expired, placed>>

\* Mutant: a recovery completes the claim without an answer from the broker.
Settle_CompletesMissing(r) ==
  /\ pc[r] \in {"found", "missing"}
  /\ Resolve(r, "completed", "settled")
  /\ UNCHANGED <<active, expired, placed>>

Settle(r) ==
  /\ \/ pc[r] = "found" /\ Resolve(r, "completed", "settled")
     \/ pc[r] = "missing" /\ Resolve(r, "unknown", "settled")
  /\ UNCHANGED <<active, expired, placed>>

-----------------------------------------------------------------------------
(* Operator, clock and failures *)

\* reconcile_completed, by an operator who has seen the order at the broker.
ReconcileCompleted(k) ==
  /\ journal[k] # NoRow
  /\ journal[k].state = "unknown"
  /\ HasOrder(k)
  /\ journal' = [journal EXCEPT ![k].state = "completed"]
  /\ UNCHANGED <<pc, owners, active, expired, placed>>

LeaseExpires(k) ==
  /\ journal[k] # NoRow
  /\ journal[k].state = "in_flight"
  /\ journal[k].lease = "live"
  /\ journal' = [journal EXCEPT ![k].lease = "expired"]
  /\ UNCHANGED <<pc, owners, active, expired, placed>>

DecisionExpires(k) ==
  /\ k \notin expired
  /\ expired' = expired \cup {k}
  /\ UNCHANGED <<pc, journal, owners, active, placed>>

\* Mutant: an activation does not wait for the guards of its scope.
Activate_WithoutLock(s) ==
  /\ s \notin active
  /\ active' = active \cup {s}
  /\ UNCHANGED <<pc, journal, owners, expired, placed>>

\* persist_transition takes the scope's advisory lock, so it waits for every
\* guard that covers the scope.
Activate(s) ==
  /\ s \notin active
  /\ LocksFree({s})
  /\ active' = active \cup {s}
  /\ UNCHANGED <<pc, journal, owners, expired, placed>>

Deactivate(s) ==
  /\ s \in active
  /\ LocksFree({s})
  /\ active' = active \ {s}
  /\ UNCHANGED <<pc, journal, owners, expired, placed>>

Running(i) ==
  pc[i] \in {"admitted", "conflict"} \cup PastClaim \cup Recovering

\* A host dies: its invocations stop where they are, its database sessions
\* (and with them the advisory locks) end, its memory of owners is lost.
Crash(h) ==
  /\ \E i \in Invocations : HostOf[i] = h /\ Running(i)
  /\ pc' = [i \in Invocations |->
              IF HostOf[i] = h /\ Running(i) THEN "crashed" ELSE pc[i]]
  /\ owners' = [owners EXCEPT ![h] = [k \in Keys |-> NoOwner]]
  /\ UNCHANGED <<journal, active, expired, placed>>

-----------------------------------------------------------------------------

Submit(c) ==
  \/ CheckEvidence(c) \/ ClaimInsert(c) \/ ClaimRead(c) \/ EnterGuard(c)
  \/ SwitchBlocks(c) \/ SwitchClear(c) \/ Abandon(c)
  \/ BrokerPlaces(c) \/ BrokerReturns(c) \/ Complete(c) \/ Raise(c)

RecoverExpired(r) ==
  Fence(r) \/ Adopt(r) \/ Lookup(r) \/ LookupRaises(r) \/ Settle(r)

Environment ==
  \/ \E k \in Keys : ReconcileCompleted(k) \/ LeaseExpires(k) \/ DecisionExpires(k)
  \/ \E s \in Scopes : Activate(s) \/ Deactivate(s)
  \/ \E h \in Hosts : Crash(h)

Next ==
  \/ \E c \in Calls : Submit(c)
  \/ \E r \in Recoveries : RecoverExpired(r)
  \/ Environment

Spec == Init /\ [][Next]_vars

-----------------------------------------------------------------------------
(* Safety *)

\* At most one call per idempotency key ever makes the broker place an order,
\* over every interleaving of calls, recoveries, lease expiries and crashes
\* (SubmissionJournal: "Durable claims prevent concurrent and crash-recovery
\* double submission").
AtMostOneOrder ==
  \A c, d \in placed : KeyOf[c] = KeyOf[d] => c = d

\* Between its claim and the end of submit a call is alone on its key, and the
\* journal row that stands for the claim is there and bound to its request --
\* even when the lease has expired and a recovery has fenced the call.
SoleSubmitter ==
  \A c \in Calls : pc[c] \in PastClaim =>
    /\ journal[KeyOf[c]] # NoRow
    /\ journal[KeyOf[c]].hash = HashOf[c]
    /\ \A d \in Calls :
         pc[d] \in PastClaim /\ KeyOf[d] = KeyOf[c] => d = c

\* An order at the broker is never without its journal row: no abandon, of any
\* call or with any owner, removes the claim a later retry has to find.
OrderKeepsItsClaim ==
  \A c \in placed :
    /\ journal[KeyOf[c]] # NoRow
    /\ journal[KeyOf[c]].hash = HashOf[c]

\* Whoever resolves a claim -- the caller, a recovery, the operator -- records
\* "completed" only for an order that exists.
CompletedHasOrder ==
  \A k \in Keys :
    journal[k] # NoRow /\ journal[k].state = "completed" => HasOrder(k)

\* A result handed to a caller, fresh or replayed, is on record for good.
ReportedIsRecorded ==
  \A c \in Calls : pc[c] \in {"done", "replayed"} =>
    /\ journal[KeyOf[c]] # NoRow
    /\ journal[KeyOf[c]].state = "completed"

\* No order is placed while a kill switch that matches its query is active,
\* however activations interleave with the check and the broker call, as long as
\* the session of the guard lives.
NoOrderWhileHalted ==
  [][\A c \in Calls : c \in placed' \ placed => ~Halted(KeyOf[c])]_vars

\* What the journal shows of a key is the abstract outcome of the key.
Outcome ==
  [k \in Keys |->
     IF journal[k] = NoRow THEN "none"
     ELSE IF journal[k].state = "in_flight" THEN "none"
     ELSE journal[k].state]

Promise == INSTANCE OneShotOrder WITH outcome <- Outcome

\* Submission, recovery and reconciliation together implement the one-shot
\* contract of module OneShotOrder.
ImplementsOneShotOrder == Promise!Spec

-----------------------------------------------------------------------------
(* What the sources say and the code does not do *)

\* recover_expired: "Fence an expired owner, then reconcile by lookup without
\* resubmission".  A call whose claim was taken over is fenced: it reaches the
\* broker no more.
FencedOwnerNeverPlaces ==
  [][\A c \in Calls : c \in placed' \ placed =>
       journal[KeyOf[c]].owner = c]_vars
=============================================================================
