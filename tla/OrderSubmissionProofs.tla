----------------------- MODULE OrderSubmissionProofs -----------------------
(***************************************************************************)
(* From a trade's approval to its order.  Order submission places at most  *)
(* one order per idempotency key, for any number of hosts, keys, calls and *)
(* recoveries; and the intent that is submitted, whatever the policy, the  *)
(* instrument and the account, risks no more than was granted.             *)
(***************************************************************************)
EXTENDS OrderSubmission, Reference, Sums, SequenceTheorems, TLAPS

\* Points of a call that holds its claim and has not reached the broker.
BeforeOrder == {"acquired", "guarded", "blocked", "calling"}

\* A call that may still place an order, or still abandon its claim, is on a
\* key without an order.
NoEarlierOrder ==
  \A c \in Calls : pc[c] \in BeforeOrder => ~HasOrder(KeyOf[c])

\* Where the code has seen the broker's answer, the order exists.
AnswerIsReal ==
  /\ \A c \in Calls : pc[c] \in {"placed", "returned"} => c \in placed
  /\ \A r \in Recoveries : pc[r] = "found" => HasOrder(KeyOf[r])

\* The switch a call found clear stays clear while the call is in its guard.
ClearStaysClear ==
  \A c \in Calls : pc[c] = "calling" => ~Halted(KeyOf[c])

\* The inductive invariant.
IInv ==
  /\ TypeOK
  /\ SoleSubmitter
  /\ OrderKeepsItsClaim
  /\ NoEarlierOrder
  /\ AtMostOneOrder
  /\ AnswerIsReal
  /\ CompletedHasOrder
  /\ ReportedIsRecorded
  /\ ClearStaysClear

-----------------------------------------------------------------------------
(* Type correctness *)

\* The initial state is well typed: no row, no owner, every process idle.
LEMMA InitTyped == Init => TypeOK
  BY SubmissionAssumption DEF Init, TypeOK, CallPoints, RecoveryPoints,
     Invocations

\* Moving one process to a legal point keeps pc well typed.
LEMMA GotoCall ==
  ASSUME TypeOK, NEW c \in Calls, NEW point \in CallPoints, Goto(c, point)
  PROVE  /\ pc' \in [Invocations -> CallPoints \cup RecoveryPoints]
         /\ \A d \in Calls : pc'[d] \in CallPoints
         /\ \A r \in Recoveries : pc'[r] \in RecoveryPoints
  BY SubmissionAssumption DEF TypeOK, Goto, Invocations

\* The same for a recovery.
LEMMA GotoRecovery ==
  ASSUME TypeOK, NEW r \in Recoveries, NEW point \in RecoveryPoints,
         Goto(r, point)
  PROVE  /\ pc' \in [Invocations -> CallPoints \cup RecoveryPoints]
         /\ \A d \in Calls : pc'[d] \in CallPoints
         /\ \A q \in Recoveries : pc'[q] \in RecoveryPoints
  BY SubmissionAssumption DEF TypeOK, Goto, Invocations

\* Resolving a claim keeps the journal and the owners well typed.
LEMMA ResolveTyped ==
  ASSUME TypeOK, NEW i \in Invocations, NEW state \in RowStates,
         NEW success, Resolve(i, state, success)
  PROVE  /\ journal' \in [Keys -> Row \cup {NoRow}]
         /\ owners' \in [Hosts -> [Keys -> Invocations \cup {NoOwner}]]
<1>1. HostOf[i] \in Hosts /\ KeyOf[i] \in Keys
  BY SubmissionAssumption
<1>2. CASE /\ HoldsClaim(HostOf[i], KeyOf[i])
           /\ journal' = [journal EXCEPT ![KeyOf[i]].state = state]
           /\ Forget(HostOf[i], KeyOf[i])
  <2>1. journal[KeyOf[i]] \in Row
    BY <1>1, <1>2 DEF HoldsClaim, TypeOK
  <2>2. [journal[KeyOf[i]] EXCEPT !.state = state] \in Row
    BY <2>1 DEF Row
  <2>3. journal' \in [Keys -> Row \cup {NoRow}]
    BY <1>1, <1>2, <2>2 DEF TypeOK
  <2>4. QED BY <1>1, <1>2, <2>3 DEF Forget, TypeOK
<1>3. CASE UNCHANGED <<journal, owners>>
  BY <1>3 DEF TypeOK
<1>4. QED BY <1>2, <1>3 DEF Resolve

\* Every step of every process and of the environment keeps the types.
LEMMA TypeStep == TypeOK /\ [Next]_vars => TypeOK'
<1> SUFFICES ASSUME TypeOK, [Next]_vars PROVE TypeOK'
  OBVIOUS
<1> USE SubmissionAssumption
<1>1. ASSUME NEW c \in Calls, Submit(c) PROVE TypeOK'
  <2>0. /\ c \in Invocations /\ HostOf[c] \in Hosts /\ KeyOf[c] \in Keys
        /\ HashOf[c] \in Hashes
    BY DEF Invocations
  <2>1. CASE CheckEvidence(c)
    <3>1. PICK p \in CallPoints : Goto(c, p)
      BY <2>1 DEF CheckEvidence, CallPoints, CallEnd
    <3>2. QED BY <2>1, <3>1, GotoCall DEF CheckEvidence, TypeOK
  <2>2. CASE ClaimInsert(c)
    <3>1. PICK p \in CallPoints : Goto(c, p)
      BY <2>2 DEF ClaimInsert, CallPoints, PastClaim
    <3>2. [hash |-> HashOf[c], owner |-> c, lease |-> "live",
           state |-> "in_flight"] \in Row
      BY <2>0 DEF Row, RowStates
    <3>3. journal' \in [Keys -> Row \cup {NoRow}]
      BY <2>0, <2>2, <3>2 DEF ClaimInsert, TypeOK
    <3>4. owners' \in [Hosts -> [Keys -> Invocations \cup {NoOwner}]]
      BY <2>0, <2>2 DEF ClaimInsert, TypeOK
    <3>5. QED BY <2>2, <3>1, <3>3, <3>4, GotoCall DEF ClaimInsert, TypeOK
  <2>3. CASE ClaimRead(c)
    <3>1. PICK p \in CallPoints : Goto(c, p)
      BY <2>3 DEF ClaimRead, CallPoints, CallEnd
    <3>2. QED BY <2>3, <3>1, GotoCall DEF ClaimRead, TypeOK
  <2>4. CASE EnterGuard(c) \/ SwitchBlocks(c) \/ SwitchClear(c) \/ BrokerReturns(c)
    <3>1. PICK p \in CallPoints : Goto(c, p)
      BY <2>4 DEF EnterGuard, SwitchBlocks, SwitchClear, BrokerReturns, CallPoints,
         PastClaim, InGuard
    <3>2. QED
      BY <2>4, <3>1, GotoCall
      DEF EnterGuard, SwitchBlocks, SwitchClear, BrokerReturns, TypeOK
  <2>5. CASE Abandon(c)
    <3>1. PICK p \in CallPoints : Goto(c, p)
      BY <2>5 DEF Abandon, CallPoints, CallEnd
    <3>2. journal' \in [Keys -> Row \cup {NoRow}]
      BY <2>5 DEF Abandon, TypeOK
    <3>3. CASE Forget(HostOf[c], KeyOf[c])
      <4>1. owners' \in [Hosts -> [Keys -> Invocations \cup {NoOwner}]]
        BY <2>0, <3>3 DEF Forget, TypeOK
      <4>2. QED BY <2>5, <3>1, <3>2, <4>1, GotoCall DEF Abandon, TypeOK
    <3>4. CASE UNCHANGED owners
      BY <2>5, <3>1, <3>2, <3>4, GotoCall DEF Abandon, TypeOK
    <3>5. QED BY <2>5, <3>3, <3>4 DEF Abandon
  <2>6. CASE BrokerPlaces(c)
    <3>1. PICK p \in CallPoints : Goto(c, p)
      BY <2>6 DEF BrokerPlaces, CallPoints, PastClaim, InGuard
    <3>2. QED BY <2>6, <3>1, GotoCall DEF BrokerPlaces, TypeOK
  <2>7. CASE Complete(c)
    <3>1. PICK p \in CallPoints : Goto(c, p)
      BY <2>7 DEF Complete, Resolve, CallPoints, CallEnd
    <3>2. /\ journal' \in [Keys -> Row \cup {NoRow}]
          /\ owners' \in [Hosts -> [Keys -> Invocations \cup {NoOwner}]]
      BY <2>0, <2>7, ResolveTyped DEF Complete, RowStates
    <3>3. QED BY <2>7, <3>1, <3>2, GotoCall DEF Complete, TypeOK
  <2>8. CASE Raise(c)
    <3>1. PICK p \in CallPoints : Goto(c, p)
      BY <2>8 DEF Raise, CallPoints, CallEnd
    <3>2. QED BY <2>8, <3>1, GotoCall DEF Raise, TypeOK
  <2>9. QED
    BY <1>1, <2>1, <2>2, <2>3, <2>4, <2>5, <2>6, <2>7, <2>8 DEF Submit
<1>2. ASSUME NEW r \in Recoveries, RecoverExpired(r) PROVE TypeOK'
  <2>0. /\ r \in Invocations /\ HostOf[r] \in Hosts /\ KeyOf[r] \in Keys
    BY DEF Invocations
  <2>1. CASE Fence(r)
    <3>1. PICK p \in RecoveryPoints : Goto(r, p)
      BY <2>1 DEF Fence, RecoveryPoints, Recovering
    <3>2. journal[KeyOf[r]] # NoRow =>
            [journal[KeyOf[r]] EXCEPT !.owner = r, !.lease = "live"] \in Row
      BY <2>0 DEF TypeOK, Row
    <3>3. journal' \in [Keys -> Row \cup {NoRow}]
      BY <2>0, <2>1, <3>2 DEF Fence, TypeOK
    <3>4. QED BY <2>1, <3>1, <3>3, GotoRecovery DEF Fence, TypeOK
  <2>2. CASE Adopt(r)
    <3>1. PICK p \in RecoveryPoints : Goto(r, p)
      BY <2>2 DEF Adopt, RecoveryPoints, Recovering
    <3>2. owners' \in [Hosts -> [Keys -> Invocations \cup {NoOwner}]]
      BY <2>0, <2>2 DEF Adopt, TypeOK
    <3>3. QED BY <2>2, <3>1, <3>2, GotoRecovery DEF Adopt, TypeOK
  <2>3. CASE Lookup(r) \/ LookupRaises(r)
    <3>1. PICK p \in RecoveryPoints : Goto(r, p)
      BY <2>3 DEF Lookup, LookupRaises, RecoveryPoints, Recovering
    <3>2. QED BY <2>3, <3>1, GotoRecovery DEF Lookup, LookupRaises, TypeOK
  <2>4. CASE Settle(r)
    <3>1. PICK state \in RowStates : Resolve(r, state, "settled")
      BY <2>4 DEF Settle, RowStates
    <3>2. PICK p \in RecoveryPoints : Goto(r, p)
      BY <3>1 DEF Resolve, RecoveryPoints
    <3>3. /\ journal' \in [Keys -> Row \cup {NoRow}]
          /\ owners' \in [Hosts -> [Keys -> Invocations \cup {NoOwner}]]
      BY <2>0, <3>1, ResolveTyped
    <3>4. QED BY <2>4, <3>2, <3>3, GotoRecovery DEF Settle, TypeOK
  <2>5. QED BY <1>2, <2>1, <2>2, <2>3, <2>4 DEF RecoverExpired
<1>3. ASSUME Environment PROVE TypeOK'
  <2>1. ASSUME NEW k \in Keys, ReconcileCompleted(k) \/ LeaseExpires(k)
        PROVE TypeOK'
    <3>1. journal[k] # NoRow =>
            /\ [journal[k] EXCEPT !.state = "completed"] \in Row
            /\ [journal[k] EXCEPT !.lease = "expired"] \in Row
      BY DEF TypeOK, Row, RowStates
    <3>2. journal' \in [Keys -> Row \cup {NoRow}]
      BY <2>1, <3>1 DEF ReconcileCompleted, LeaseExpires, TypeOK
    <3>3. QED BY <2>1, <3>2 DEF ReconcileCompleted, LeaseExpires, TypeOK
  <2>2. ASSUME NEW k \in Keys, DecisionExpires(k) PROVE TypeOK'
    BY <2>2 DEF DecisionExpires, TypeOK
  <2>3. ASSUME NEW s \in Scopes, Activate(s) \/ Deactivate(s) PROVE TypeOK'
    BY <2>3 DEF Activate, Deactivate, TypeOK
  <2>4. ASSUME NEW h \in Hosts, Crash(h) PROVE TypeOK'
    <3>1. "crashed" \in CallPoints /\ "crashed" \in RecoveryPoints
      BY DEF CallPoints, CallEnd, RecoveryPoints
    <3>2. /\ pc' \in [Invocations -> CallPoints \cup RecoveryPoints]
          /\ \A c \in Calls : pc'[c] \in CallPoints
          /\ \A r \in Recoveries : pc'[r] \in RecoveryPoints
      BY <2>4, <3>1 DEF Crash, TypeOK, Invocations
    <3>3. owners' \in [Hosts -> [Keys -> Invocations \cup {NoOwner}]]
      BY <2>4 DEF Crash, TypeOK
    <3>4. QED BY <2>4, <3>2, <3>3 DEF Crash, TypeOK
  <2>5. QED BY <1>3, <2>1, <2>2, <2>3, <2>4 DEF Environment
<1>4. CASE UNCHANGED vars
  BY <1>4 DEF vars, TypeOK
<1>5. QED BY <1>1, <1>2, <1>3, <1>4 DEF Next

\* Every variable keeps its type in every behaviour.
THEOREM TypeCorrect == Spec => []TypeOK
  BY InitTyped, TypeStep, PTL DEF Spec

-----------------------------------------------------------------------------
(* What a step does to the rows, the orders and the processes *)

\* A row outlives every step but an abandon of its key; it stays bound to its
\* request, completed is final and unknown only becomes completed.
LEMMA RowsKept ==
  ASSUME TypeOK, [Next]_vars, NEW k \in Keys, journal[k] # NoRow,
         \A c \in Calls : Abandon(c) => KeyOf[c] # k
  PROVE  /\ journal'[k] # NoRow
         /\ journal'[k].hash = journal[k].hash
         /\ journal[k].state = "completed" => journal'[k].state = "completed"
         /\ journal[k].state = "unknown" =>
              journal'[k].state \in {"unknown", "completed"}
<1> DEFINE Kept ==
      /\ journal'[k] # NoRow
      /\ journal'[k].hash = journal[k].hash
      /\ journal[k].state = "completed" => journal'[k].state = "completed"
      /\ journal[k].state = "unknown" =>
           journal'[k].state \in {"unknown", "completed"}
<1> USE SubmissionAssumption
<1>0. journal[k] \in Row /\ NoRow \notin Row
  BY DEF TypeOK
<1>1. ASSUME NEW i \in Invocations, NEW state \in RowStates, NEW success,
             Resolve(i, state, success)
      PROVE  Kept
  <2>1. CASE journal' = journal
    BY <2>1
  <2>2. CASE /\ HoldsClaim(HostOf[i], KeyOf[i])
             /\ journal' = [journal EXCEPT ![KeyOf[i]].state = state]
    <3>1. [journal[k] EXCEPT !.state = state] \in Row
      BY <1>0 DEF Row
    <3>2. QED BY <1>0, <2>2, <3>1 DEF HoldsClaim, TypeOK, Row
  <2>3. QED BY <1>1, <2>1, <2>2 DEF Resolve
<1>2. CASE journal' = journal
  BY <1>2
<1>3. ASSUME NEW c \in Calls, Submit(c) PROVE Kept
  <2>1. c \in Invocations
    BY DEF Invocations
  <2>2. CASE journal' = journal
    BY <2>2
  <2>3. CASE ClaimInsert(c)
    BY <2>3 DEF ClaimInsert, TypeOK
  <2>4. CASE Abandon(c)
    BY <2>4 DEF Abandon, TypeOK
  <2>5. CASE Complete(c)
    BY <1>1, <2>1, <2>5 DEF Complete, RowStates
  <2>6. QED
    BY <1>3, <2>2, <2>3, <2>4, <2>5
    DEF Submit, CheckEvidence, ClaimRead, EnterGuard, SwitchBlocks, SwitchClear,
        BrokerPlaces, BrokerReturns, Raise
<1>4. ASSUME NEW r \in Recoveries, RecoverExpired(r) PROVE Kept
  <2>1. r \in Invocations
    BY DEF Invocations
  <2>2. CASE journal' = journal
    BY <2>2
  <2>3. CASE Fence(r)
    <3>1. /\ [journal[k] EXCEPT !.owner = r, !.lease = "live"] \in Row
          /\ [journal[k] EXCEPT !.owner = r, !.lease = "live"].hash
               = journal[k].hash
          /\ [journal[k] EXCEPT !.owner = r, !.lease = "live"].state
               = journal[k].state
      BY <1>0, <2>1 DEF Row
    <3>2. \/ journal'[k] = journal[k]
          \/ journal'[k] = [journal[k] EXCEPT !.owner = r, !.lease = "live"]
      BY <2>3 DEF Fence, TypeOK
    <3>3. QED BY <1>0, <3>1, <3>2
  <2>4. CASE Settle(r)
    BY <1>1, <2>1, <2>4 DEF Settle, RowStates
  <2>5. QED
    BY <1>4, <2>2, <2>3, <2>4
    DEF RecoverExpired, Adopt, Lookup, LookupRaises
<1>5. ASSUME Environment PROVE Kept
  <2>1. ASSUME NEW q \in Keys, ReconcileCompleted(q) \/ LeaseExpires(q)
        PROVE  Kept
    <3>1. CASE ReconcileCompleted(q)
      <4>1. /\ [journal[k] EXCEPT !.state = "completed"] \in Row
            /\ [journal[k] EXCEPT !.state = "completed"].hash = journal[k].hash
            /\ [journal[k] EXCEPT !.state = "completed"].state = "completed"
        BY <1>0 DEF Row, RowStates
      <4>2. \/ journal'[k] = journal[k]
            \/ journal'[k] = [journal[k] EXCEPT !.state = "completed"]
        BY <3>1 DEF ReconcileCompleted, TypeOK
      <4>3. QED BY <1>0, <4>1, <4>2
    <3>2. CASE LeaseExpires(q)
      <4>1. /\ [journal[k] EXCEPT !.lease = "expired"] \in Row
            /\ [journal[k] EXCEPT !.lease = "expired"].hash = journal[k].hash
            /\ [journal[k] EXCEPT !.lease = "expired"].state = journal[k].state
        BY <1>0 DEF Row, RowStates
      <4>2. \/ journal'[k] = journal[k]
            \/ journal'[k] = [journal[k] EXCEPT !.lease = "expired"]
        BY <3>2 DEF LeaseExpires, TypeOK
      <4>3. QED BY <1>0, <4>1, <4>2
    <3>3. QED BY <2>1, <3>1, <3>2
  <2>2. QED
    BY <1>2, <1>5, <2>1
    DEF Environment, DecisionExpires, Activate, Deactivate, Crash
<1>6. QED BY <1>2, <1>3, <1>4, <1>5 DEF Next, vars

\* A step writes at most one row.
LEMMA OneRowPerStep ==
  ASSUME TypeOK, [Next]_vars, NEW k \in Keys, journal'[k] # journal[k],
         NEW q \in Keys, q # k
  PROVE  journal'[q] = journal[q]
<1>1. ASSUME NEW c \in Calls, Submit(c) PROVE journal'[q] = journal[q]
  BY <1>1
  DEF Submit, CheckEvidence, ClaimInsert, ClaimRead, EnterGuard, SwitchBlocks,
      SwitchClear, Abandon, BrokerPlaces, BrokerReturns, Complete, Resolve,
      Raise, TypeOK
<1>2. ASSUME NEW r \in Recoveries, RecoverExpired(r)
      PROVE  journal'[q] = journal[q]
  BY <1>2
  DEF RecoverExpired, Fence, Adopt, Lookup, LookupRaises, Settle, Resolve, TypeOK
<1>3. ASSUME Environment PROVE journal'[q] = journal[q]
  BY <1>3
  DEF Environment, ReconcileCompleted, LeaseExpires, DecisionExpires, Activate,
      Deactivate, Crash, TypeOK
<1>4. QED BY <1>1, <1>2, <1>3 DEF Next, vars

\* A call moves by its own submit, or its host dies.
LEMMA CallMoves ==
  ASSUME TypeOK, [Next]_vars, NEW c \in Calls
  PROVE  pc'[c] = pc[c] \/ pc'[c] = "crashed" \/ Submit(c)
<1> USE SubmissionAssumption
<1>0. c \in Invocations /\ \A r \in Recoveries : r # c
  BY DEF Invocations
<1>1. ASSUME NEW d \in Calls, Submit(d), d # c PROVE pc'[c] = pc[c]
  BY <1>0, <1>1
  DEF Submit, CheckEvidence, ClaimInsert, ClaimRead, EnterGuard, SwitchBlocks,
      SwitchClear, Abandon, BrokerPlaces, BrokerReturns, Complete, Resolve,
      Raise, Goto, TypeOK
<1>2. ASSUME NEW r \in Recoveries, RecoverExpired(r) PROVE pc'[c] = pc[c]
  BY <1>0, <1>2
  DEF RecoverExpired, Fence, Adopt, Lookup, LookupRaises, Settle, Resolve,
      Goto, TypeOK
<1>3. ASSUME Environment PROVE pc'[c] = pc[c] \/ pc'[c] = "crashed"
  BY <1>0, <1>3
  DEF Environment, ReconcileCompleted, LeaseExpires, DecisionExpires, Activate,
      Deactivate, Crash
<1>4. QED BY <1>1, <1>2, <1>3 DEF Next, vars

\* Only the broker step of a call adds an order, and none is ever removed.
LEMMA OrdersGrow ==
  ASSUME TypeOK, [Next]_vars
  PROVE  placed' = placed \/ \E c \in Calls : BrokerPlaces(c)
  BY DEF Next, Submit, CheckEvidence, ClaimInsert, ClaimRead, EnterGuard,
     SwitchBlocks, SwitchClear, Abandon, BrokerReturns, Complete, Raise,
     RecoverExpired, Fence, Adopt, Lookup, LookupRaises, Settle, Environment,
     ReconcileCompleted, LeaseExpires, DecisionExpires, Activate, Deactivate,
     Crash, vars

\* What is known of a call after its own step.
LEMMA SubmitStep ==
  ASSUME TypeOK, NEW c \in Calls, Submit(c)
  PROVE  /\ pc'[c] \in PastClaim =>
              \/ pc[c] \in PastClaim
              \/ /\ ClaimInsert(c)
                 /\ journal[KeyOf[c]] = NoRow
                 /\ journal'[KeyOf[c]] # NoRow
                 /\ journal'[KeyOf[c]].hash = HashOf[c]
         /\ pc'[c] \in BeforeOrder => pc[c] \in BeforeOrder \/ ClaimInsert(c)
         /\ pc'[c] = "calling" => SwitchClear(c)
         /\ pc'[c] = "placed" => BrokerPlaces(c)
         /\ pc'[c] = "returned" => pc[c] = "placed"
         /\ pc'[c] = "done" => Complete(c)
         /\ pc'[c] = "replayed" => ClaimRead(c)
         /\ Abandon(c) => pc[c] = "blocked" /\ pc'[c] \in {"abandoned", "failed"}
<1> USE SubmissionAssumption
<1>0. c \in Invocations /\ KeyOf[c] \in Keys /\ HashOf[c] \in Hashes
  BY DEF Invocations
<1>1. ASSUME NEW p, Goto(c, p) PROVE pc'[c] = p
  BY <1>0, <1>1 DEF Goto, TypeOK
<1>2. CASE CheckEvidence(c)
  BY <1>1, <1>2 DEF CheckEvidence, PastClaim, InGuard, BeforeOrder, Abandon
<1>3. CASE ClaimInsert(c)
  <2>1. [hash |-> HashOf[c], owner |-> c, lease |-> "live",
         state |-> "in_flight"] \in Row
    BY <1>0 DEF Row, RowStates
  <2>2. CASE journal[KeyOf[c]] = NoRow
    <3>1. journal'[KeyOf[c]] = [hash |-> HashOf[c], owner |-> c,
                                lease |-> "live", state |-> "in_flight"]
      BY <1>0, <1>3, <2>2 DEF ClaimInsert, TypeOK
    <3>2. pc'[c] = "acquired"
      BY <1>1, <1>3, <2>2 DEF ClaimInsert
    <3>3. QED
      BY <1>3, <2>1, <2>2, <3>1, <3>2
      DEF ClaimInsert, PastClaim, InGuard, BeforeOrder, Abandon
  <2>3. CASE journal[KeyOf[c]] # NoRow
    BY <1>1, <1>3, <2>3
    DEF ClaimInsert, PastClaim, InGuard, BeforeOrder, Abandon
  <2>4. QED BY <2>2, <2>3
<1>4. CASE ClaimRead(c)
  BY <1>1, <1>4 DEF ClaimRead, PastClaim, InGuard, BeforeOrder, Abandon
<1>5. CASE EnterGuard(c) \/ SwitchBlocks(c) \/ SwitchClear(c)
  BY <1>1, <1>5
  DEF EnterGuard, SwitchBlocks, SwitchClear, PastClaim, InGuard, BeforeOrder,
      Abandon
<1>6. CASE Abandon(c)
  BY <1>1, <1>6 DEF Abandon, PastClaim, InGuard, BeforeOrder
<1>7. CASE BrokerPlaces(c) \/ BrokerReturns(c)
  BY <1>1, <1>7
  DEF BrokerPlaces, BrokerReturns, PastClaim, InGuard, BeforeOrder, Abandon
<1>8. CASE Complete(c)
  BY <1>1, <1>8 DEF Complete, Resolve, PastClaim, InGuard, BeforeOrder, Abandon
<1>9. CASE Raise(c)
  <2>1. pc'[c] = "failed" /\ pc[c] \in PastClaim
    BY <1>1, <1>9 DEF Raise
  <2>2. QED BY <2>1 DEF PastClaim, InGuard, BeforeOrder, Abandon
<1>10. QED
  BY <1>2, <1>3, <1>4, <1>5, <1>6, <1>7, <1>8, <1>9 DEF Submit

\* What is known of a recovery, and of a row that becomes completed.
LEMMA FoundByLookup ==
  ASSUME TypeOK, [Next]_vars, NEW r \in Recoveries, pc'[r] = "found"
  PROVE  pc[r] = "found" \/ HasOrder(KeyOf[r])
<1> USE SubmissionAssumption
<1>0. r \in Invocations /\ \A c \in Calls : r # c
  BY DEF Invocations
<1>1. ASSUME NEW c \in Calls, Submit(c) PROVE pc'[r] = pc[r]
  BY <1>0, <1>1
  DEF Submit, CheckEvidence, ClaimInsert, ClaimRead, EnterGuard, SwitchBlocks,
      SwitchClear, Abandon, BrokerPlaces, BrokerReturns, Complete, Resolve,
      Raise, Goto, TypeOK
<1>2. ASSUME NEW q \in Recoveries, RecoverExpired(q), q # r PROVE pc'[r] = pc[r]
  BY <1>0, <1>2
  DEF RecoverExpired, Fence, Adopt, Lookup, LookupRaises, Settle, Resolve,
      Goto, TypeOK
<1>3. ASSUME RecoverExpired(r) PROVE HasOrder(KeyOf[r])
  BY <1>0, <1>3
  DEF RecoverExpired, Fence, Adopt, Lookup, LookupRaises, Settle, Resolve,
      Goto, TypeOK
<1>4. ASSUME Environment PROVE pc'[r] = pc[r] \/ pc'[r] = "crashed"
  BY <1>0, <1>4
  DEF Environment, ReconcileCompleted, LeaseExpires, DecisionExpires, Activate,
      Deactivate, Crash
<1>5. QED BY <1>1, <1>2, <1>3, <1>4 DEF Next, vars

\* A row becomes completed by its caller, by a recovery that found the order or
\* by the operator: each time the order is there.
LEMMA BecomesCompleted ==
  ASSUME TypeOK, [Next]_vars, NEW k \in Keys,
         journal'[k] # NoRow, journal'[k].state = "completed",
         ~(journal[k] # NoRow /\ journal[k].state = "completed")
  PROVE  \/ \E c \in Calls : KeyOf[c] = k /\ pc[c] = "returned"
         \/ \E r \in Recoveries : KeyOf[r] = k /\ pc[r] = "found"
         \/ HasOrder(k)
<1> DEFINE Reason == \/ \E c \in Calls : KeyOf[c] = k /\ pc[c] = "returned"
                     \/ \E r \in Recoveries : KeyOf[r] = k /\ pc[r] = "found"
                     \/ HasOrder(k)
<1> USE SubmissionAssumption
<1>1. journal'[k] # journal[k]
  OBVIOUS
<1>2. ASSUME NEW c \in Calls, Submit(c) PROVE Reason
  <2>0. c \in Invocations /\ HashOf[c] \in Hashes
    BY DEF Invocations
  <2>1. CASE ClaimInsert(c)
    <3>1. journal'[k] = [hash |-> HashOf[c], owner |-> c, lease |-> "live",
                         state |-> "in_flight"]
      BY <1>1, <2>1 DEF ClaimInsert, TypeOK
    <3>2. QED BY <3>1
  <2>2. CASE Abandon(c)
    BY <1>1, <2>2 DEF Abandon, TypeOK
  <2>3. CASE Complete(c)
    BY <1>1, <2>3 DEF Complete, Resolve, TypeOK
  <2>4. QED
    BY <1>1, <1>2, <2>1, <2>2, <2>3
    DEF Submit, CheckEvidence, ClaimRead, EnterGuard, SwitchBlocks, SwitchClear,
        BrokerPlaces, BrokerReturns, Raise
<1>3. ASSUME NEW r \in Recoveries, RecoverExpired(r) PROVE Reason
  <2>1. CASE Fence(r)
    <3>1. journal'[k] = [journal[k] EXCEPT !.owner = r, !.lease = "live"]
      BY <1>1, <2>1 DEF Fence, TypeOK
    <3>2. journal[k] \in Row
      BY <1>1, <2>1 DEF Fence, TypeOK
    <3>3. QED BY <3>1, <3>2 DEF Row
  <2>2. CASE Settle(r)
    <3>1. CASE pc[r] = "found"
      BY <1>1, <2>2, <3>1 DEF Settle, Resolve, TypeOK
    <3>2. CASE pc[r] = "missing"
      <4>1. /\ KeyOf[r] = k
            /\ journal[k] # NoRow
            /\ journal'[k] = [journal[k] EXCEPT !.state = "unknown"]
        BY <1>1, <2>2, <3>2 DEF Settle, Resolve, HoldsClaim, TypeOK
      <4>2. journal[k] \in Row
        BY <4>1 DEF TypeOK
      <4>3. QED BY <4>1, <4>2 DEF Row
    <3>3. QED BY <2>2, <3>1, <3>2 DEF Settle
  <2>3. QED
    BY <1>1, <1>3, <2>1, <2>2 DEF RecoverExpired, Adopt, Lookup, LookupRaises
<1>4. ASSUME Environment PROVE Reason
  <2>1. ASSUME NEW q \in Keys, LeaseExpires(q) PROVE Reason
    <3>1. /\ journal[k] # NoRow
          /\ journal'[k] = [journal[k] EXCEPT !.lease = "expired"]
      BY <1>1, <2>1 DEF LeaseExpires, TypeOK
    <3>2. journal[k] \in Row
      BY <3>1 DEF TypeOK
    <3>3. QED BY <3>1, <3>2 DEF Row
  <2>2. ASSUME NEW q \in Keys, ReconcileCompleted(q) PROVE Reason
    BY <1>1, <2>2 DEF ReconcileCompleted, TypeOK
  <2>3. QED
    BY <1>1, <1>4, <2>1, <2>2
    DEF Environment, DecisionExpires, Activate, Deactivate, Crash
<1>5. QED BY <1>1, <1>2, <1>3, <1>4 DEF Next, vars

-----------------------------------------------------------------------------
(* The inductive invariant *)

\* Nothing is claimed and nothing is placed at the start.
LEMMA InitInvariant == Init => IInv
<1> SUFFICES ASSUME Init PROVE IInv
  OBVIOUS
<1>1. /\ \A i \in Invocations : pc[i] = "idle"
      /\ \A k \in Keys : journal[k] = NoRow
      /\ placed = {}
  BY DEF Init
<1>2. Calls \subseteq Invocations /\ Recoveries \subseteq Invocations
  BY DEF Invocations
<1>3. QED
  BY <1>1, <1>2, InitTyped
  DEF IInv, SoleSubmitter, OrderKeepsItsClaim, NoEarlierOrder, AtMostOneOrder,
      AnswerIsReal, CompletedHasOrder, ReportedIsRecorded, ClearStaysClear,
      PastClaim, InGuard, BeforeOrder

\* Every step keeps every part of the invariant.
LEMMA InvariantStep == IInv /\ [Next]_vars => IInv'
<1> SUFFICES ASSUME IInv, [Next]_vars PROVE IInv'
  OBVIOUS
<1> USE SubmissionAssumption
<1>0. /\ TypeOK
      /\ \A c \in Calls : c \in Invocations /\ KeyOf[c] \in Keys
      /\ BeforeOrder \subseteq PastClaim
      /\ "crashed" \notin PastClaim
      /\ placed \subseteq placed'
  BY OrdersGrow
  DEF IInv, Invocations, BeforeOrder, PastClaim, InGuard, BrokerPlaces
<1>1. TypeOK'
  BY <1>0, TypeStep
<1>2. SoleSubmitter'
  <2> SUFFICES ASSUME NEW c \in Calls, pc'[c] \in PastClaim
               PROVE  /\ journal'[KeyOf[c]] # NoRow
                      /\ journal'[KeyOf[c]].hash = HashOf[c]
                      /\ \A d \in Calls :
                           pc'[d] \in PastClaim /\ KeyOf[d] = KeyOf[c] => d = c
    BY DEF SoleSubmitter
  <2>1. ASSUME NEW d \in Calls, pc'[d] \in PastClaim
        PROVE  \/ pc[d] \in PastClaim
               \/ /\ ClaimInsert(d)
                  /\ journal[KeyOf[d]] = NoRow
                  /\ journal'[KeyOf[d]] # NoRow
                  /\ journal'[KeyOf[d]].hash = HashOf[d]
    BY <1>0, <2>1, CallMoves, SubmitStep
  <2>2. CASE pc[c] \in PastClaim
    <3>1. /\ journal[KeyOf[c]] # NoRow
          /\ journal[KeyOf[c]].hash = HashOf[c]
      BY <2>2 DEF IInv, SoleSubmitter
    <3>2. \A d \in Calls : Abandon(d) => KeyOf[d] # KeyOf[c]
      <4> SUFFICES ASSUME NEW d \in Calls, Abandon(d), KeyOf[d] = KeyOf[c]
                   PROVE  FALSE
        OBVIOUS
      <4>1. pc[d] = "blocked" /\ pc'[d] \in {"abandoned", "failed"}
        BY <1>0, SubmitStep DEF Submit
      <4>2. d = c
        BY <2>2, <4>1 DEF IInv, SoleSubmitter, PastClaim, InGuard
      <4>3. QED BY <4>1, <4>2 DEF PastClaim, InGuard
    <3>3. /\ journal'[KeyOf[c]] # NoRow
          /\ journal'[KeyOf[c]].hash = HashOf[c]
      BY <1>0, <3>1, <3>2, RowsKept
    <3>4. ASSUME NEW d \in Calls, pc'[d] \in PastClaim, KeyOf[d] = KeyOf[c]
          PROVE  d = c
      BY <2>1, <2>2, <3>1, <3>4 DEF IInv, SoleSubmitter
    <3>5. QED BY <3>3, <3>4
  <2>3. CASE /\ ClaimInsert(c)
             /\ journal[KeyOf[c]] = NoRow
             /\ journal'[KeyOf[c]] # NoRow
             /\ journal'[KeyOf[c]].hash = HashOf[c]
    <3>1. ASSUME NEW d \in Calls, pc'[d] \in PastClaim, KeyOf[d] = KeyOf[c]
          PROVE  d = c
      <4>1. pc[d] \notin PastClaim
        BY <2>3, <3>1 DEF IInv, SoleSubmitter
      <4>2. ClaimInsert(d)
        BY <2>1, <3>1, <4>1
      <4>3. pc' = [pc EXCEPT ![c] = "acquired"] /\ pc[d] = "admitted"
        BY <2>3, <4>2 DEF ClaimInsert, Goto
      <4>4. d # c => pc'[d] = "admitted"
        BY <1>0, <4>3 DEF TypeOK
      <4>5. QED BY <3>1, <4>4 DEF PastClaim, InGuard
    <3>2. QED BY <2>3, <3>1
  <2>4. QED BY <2>1, <2>2, <2>3
<1>3. OrderKeepsItsClaim'
  <2> SUFFICES ASSUME NEW c \in placed'
               PROVE  /\ journal'[KeyOf[c]] # NoRow
                      /\ journal'[KeyOf[c]].hash = HashOf[c]
    BY DEF OrderKeepsItsClaim
  <2>1. CASE c \in placed
    <3>0. c \in Calls
      BY <1>0, <2>1 DEF TypeOK
    <3>1. /\ journal[KeyOf[c]] # NoRow
          /\ journal[KeyOf[c]].hash = HashOf[c]
      BY <2>1 DEF IInv, OrderKeepsItsClaim
    <3>2. \A d \in Calls : Abandon(d) => KeyOf[d] # KeyOf[c]
      <4> SUFFICES ASSUME NEW d \in Calls, Abandon(d), KeyOf[d] = KeyOf[c]
                   PROVE  FALSE
        OBVIOUS
      <4>1. ~HasOrder(KeyOf[d])
        BY DEF IInv, NoEarlierOrder, BeforeOrder, Abandon
      <4>2. QED BY <2>1, <4>1 DEF HasOrder
    <3>3. QED BY <1>0, <3>0, <3>1, <3>2, RowsKept
  <2>2. CASE c \notin placed
    <3>1. BrokerPlaces(c)
      BY <2>2, <1>0, OrdersGrow DEF BrokerPlaces
    <3>2. c \in Calls /\ journal' = journal /\ pc[c] = "calling"
      BY <1>1, <3>1 DEF BrokerPlaces, TypeOK
    <3>3. QED BY <3>2 DEF IInv, SoleSubmitter, PastClaim, InGuard
  <2>3. QED BY <2>1, <2>2
<1>4. NoEarlierOrder'
  <2> SUFFICES ASSUME NEW c \in Calls, pc'[c] \in BeforeOrder,
                      NEW d \in placed', KeyOf[d] = KeyOf[c]
               PROVE  FALSE
    BY DEF NoEarlierOrder, HasOrder
  <2>1. pc[c] \in BeforeOrder \/ ClaimInsert(c)
    BY <1>0, CallMoves, SubmitStep DEF BeforeOrder
  <2>2. CASE pc[c] \in BeforeOrder
    <3>1. d \notin placed
      BY <2>2 DEF IInv, NoEarlierOrder, HasOrder
    <3>2. BrokerPlaces(d) /\ d \in Calls
      BY <1>1, <3>1, OrdersGrow, <1>0 DEF BrokerPlaces, TypeOK
    <3>3. pc[d] = "calling" /\ pc'[d] = "placed"
      BY <1>0, <3>2 DEF BrokerPlaces, Goto, TypeOK
    <3>4. d = c
      BY <1>0, <2>2, <3>2, <3>3
      DEF IInv, SoleSubmitter, PastClaim, InGuard
    <3>5. QED BY <3>3, <3>4 DEF BeforeOrder
  <2>3. CASE ClaimInsert(c) /\ pc[c] \notin BeforeOrder
    <3>1. placed' = placed
      BY <2>3 DEF ClaimInsert
    <3>2. journal[KeyOf[c]] # NoRow
      BY <3>1 DEF IInv, OrderKeepsItsClaim
    <3>3. pc' = [pc EXCEPT ![c] = "conflict"]
      BY <2>3, <3>2 DEF ClaimInsert, Goto
    <3>4. QED BY <1>0, <3>3 DEF TypeOK, BeforeOrder
  <2>4. QED BY <2>1, <2>2, <2>3
<1>5. AtMostOneOrder'
  <2>1. CASE placed' = placed
    BY <2>1 DEF IInv, AtMostOneOrder
  <2>2. ASSUME NEW c \in Calls, BrokerPlaces(c) PROVE AtMostOneOrder'
    <3>1. placed' = placed \cup {c} /\ ~HasOrder(KeyOf[c])
      BY <2>2 DEF BrokerPlaces, IInv, NoEarlierOrder, BeforeOrder
    <3>2. QED BY <3>1 DEF IInv, AtMostOneOrder, HasOrder
  <2>3. QED BY <1>0, <2>1, <2>2, OrdersGrow
<1>6. AnswerIsReal'
  <2>1. ASSUME NEW c \in Calls, pc'[c] \in {"placed", "returned"}
        PROVE  c \in placed'
    <3>1. pc[c] \in {"placed", "returned"} \/ BrokerPlaces(c)
      BY <1>0, <2>1, CallMoves, SubmitStep
    <3>2. CASE pc[c] \in {"placed", "returned"}
      BY <1>0, <3>2 DEF IInv, AnswerIsReal
    <3>3. CASE BrokerPlaces(c)
      BY <3>3 DEF BrokerPlaces
    <3>4. QED BY <3>1, <3>2, <3>3
  <2>2. ASSUME NEW r \in Recoveries, pc'[r] = "found"
        PROVE  HasOrder(KeyOf[r])'
    <3>1. HasOrder(KeyOf[r])
      BY <1>0, <2>2, FoundByLookup DEF IInv, AnswerIsReal
    <3>2. QED BY <1>0, <3>1 DEF HasOrder
  <2>3. QED BY <2>1, <2>2 DEF AnswerIsReal
<1>7. CompletedHasOrder'
  <2> SUFFICES ASSUME NEW k \in Keys,
                      journal'[k] # NoRow, journal'[k].state = "completed"
               PROVE  HasOrder(k)'
    BY DEF CompletedHasOrder
  <2>1. HasOrder(k)
    BY <1>0, BecomesCompleted
    DEF IInv, CompletedHasOrder, AnswerIsReal, HasOrder
  <2>2. QED BY <1>0, <2>1 DEF HasOrder
<1>8. ReportedIsRecorded'
  <2> SUFFICES ASSUME NEW c \in Calls, pc'[c] \in {"done", "replayed"}
               PROVE  /\ journal'[KeyOf[c]] # NoRow
                      /\ journal'[KeyOf[c]].state = "completed"
    BY DEF ReportedIsRecorded
  <2>1. pc[c] \in {"done", "replayed"} \/ Complete(c) \/ ClaimRead(c)
    BY <1>0, CallMoves, SubmitStep
  <2>2. CASE pc[c] \in {"done", "replayed"}
    <3>1. /\ journal[KeyOf[c]] # NoRow
          /\ journal[KeyOf[c]].state = "completed"
      BY <2>2 DEF IInv, ReportedIsRecorded
    <3>2. ASSUME NEW d \in Calls, Abandon(d), KeyOf[d] = KeyOf[c]
          PROVE  journal' = journal
      BY <3>1, <3>2 DEF Abandon, HoldsClaim
    <3>3. QED BY <1>0, <3>1, <3>2, RowsKept
  <2>3. CASE Complete(c) /\ pc[c] \notin {"done", "replayed"}
    <3>1. CASE ~HoldsClaim(HostOf[c], KeyOf[c])
      BY <1>0, <2>3, <3>1 DEF Complete, Resolve, Goto, TypeOK
    <3>2. CASE HoldsClaim(HostOf[c], KeyOf[c])
      <4>1. /\ journal[KeyOf[c]] \in Row
            /\ journal'[KeyOf[c]] =
                 [journal[KeyOf[c]] EXCEPT !.state = "completed"]
        BY <1>0, <2>3, <3>2 DEF Complete, Resolve, HoldsClaim, TypeOK
      <4>2. [journal[KeyOf[c]] EXCEPT !.state = "completed"] \in Row
        BY <4>1 DEF Row, RowStates
      <4>3. QED BY <4>1, <4>2 DEF Row
    <3>3. QED BY <3>1, <3>2
  <2>4. CASE ClaimRead(c)
    BY <1>0, <2>4 DEF ClaimRead, Goto, TypeOK
  <2>5. QED BY <2>1, <2>2, <2>3, <2>4
<1>9. ClearStaysClear'
  <2> SUFFICES ASSUME NEW c \in Calls, pc'[c] = "calling"
               PROVE  ~Halted(KeyOf[c])'
    BY DEF ClearStaysClear
  <2>1. pc[c] = "calling" \/ SwitchClear(c)
    BY <1>0, CallMoves, SubmitStep
  <2>2. CASE SwitchClear(c)
    BY <2>2 DEF SwitchClear, Halted
  <2>3. CASE pc[c] = "calling"
    <3>1. ~Halted(KeyOf[c])
      BY <2>3 DEF IInv, ClearStaysClear
    <3>2. ASSUME NEW s \in Scopes, Activate(s) PROVE ~Halted(KeyOf[c])'
      BY <2>3, <3>1, <3>2 DEF Activate, LocksFree, InGuard, Halted
    <3>3. ASSUME NEW s \in Scopes, Deactivate(s) PROVE ~Halted(KeyOf[c])'
      BY <3>1, <3>3 DEF Deactivate, Halted
    <3>4. CASE UNCHANGED active
      BY <3>1, <3>4 DEF Halted
    <3>5. QED
      BY <3>2, <3>3, <3>4
      DEF Next, Submit, CheckEvidence, ClaimInsert, ClaimRead, EnterGuard,
          SwitchBlocks, SwitchClear, Abandon, BrokerPlaces, BrokerReturns,
          Complete, Raise, RecoverExpired, Fence, Adopt, Lookup, LookupRaises,
          Settle, Environment, ReconcileCompleted, LeaseExpires,
          DecisionExpires, Crash, vars
  <2>4. QED BY <2>1, <2>2, <2>3
<1>10. QED
  BY <1>1, <1>2, <1>3, <1>4, <1>5, <1>6, <1>7, <1>8, <1>9 DEF IInv

\* The inductive invariant holds of every reachable state.
THEOREM Invariant == Spec => []IInv
  BY InitInvariant, InvariantStep, PTL DEF Spec

-----------------------------------------------------------------------------
(* The theorems *)

\* However calls, recoveries, lease expiries and crashes interleave, no
\* idempotency key ever gets a second order from the broker.
THEOREM OneOrderPerKey == Spec => []AtMostOneOrder
  BY Invariant, PTL DEF IInv

\* A call past its claim is alone on its key and its journal row is there.
THEOREM SubmitterIsAlone == Spec => []SoleSubmitter
  BY Invariant, PTL DEF IInv

\* No abandon removes the claim of an order that exists.
THEOREM ClaimOutlivesOrder == Spec => []OrderKeepsItsClaim
  BY Invariant, PTL DEF IInv

\* Whoever resolves a claim records "completed" only for an order that exists.
THEOREM RecordsAreTrue == Spec => []CompletedHasOrder
  BY Invariant, PTL DEF IInv

\* A result handed to a caller, fresh or replayed, is on record for good.
THEOREM ReportsAreRecorded == Spec => []ReportedIsRecorded
  BY Invariant, PTL DEF IInv

\* No order is placed while a kill switch matching its query is active, the
\* session of the guard outliving the broker call as the module assumes.
THEOREM HaltStopsOrders == Spec => NoOrderWhileHalted
<1>1. IInv /\ [Next]_vars =>
        [\A c \in Calls : c \in placed' \ placed => ~Halted(KeyOf[c])]_vars
  <2> SUFFICES ASSUME IInv, [Next]_vars,
                      NEW c \in Calls, c \in placed' \ placed
               PROVE  ~Halted(KeyOf[c])
    OBVIOUS
  <2>1. BrokerPlaces(c)
    BY OrdersGrow DEF IInv, BrokerPlaces
  <2>2. QED BY <2>1 DEF BrokerPlaces, IInv, ClearStaysClear
<1>2. QED BY <1>1, Invariant, PTL DEF Spec, NoOrderWhileHalted

\* Submission implements the one-shot contract: each step places the key's
\* only order, confirms it, doubts it, or changes nothing the contract shows.
THEOREM Implementation == Spec => ImplementsOneShotOrder
<1> USE SubmissionAssumption
<1>1. Init => Promise!Init
  BY DEF Init, Promise!Init, Outcome
<1>2. IInv /\ IInv' /\ [Next]_vars => [Promise!Next]_(Promise!vars)
  <2> SUFFICES ASSUME IInv, IInv', [Next]_vars
               PROVE  [Promise!Next]_(Promise!vars)
    OBVIOUS
  <2>0. TypeOK /\ TypeOK'
    BY DEF IInv
  <2>1. ASSUME NEW c \in Calls, BrokerPlaces(c) PROVE Promise!Next
    <3>1. /\ pc[c] = "calling"
          /\ placed' = placed \cup {c}
          /\ Outcome' = Outcome
      BY <2>1 DEF BrokerPlaces, Outcome
    <3>2. ~HasOrder(KeyOf[c]) /\ KeyOf[c] \in Keys
      BY <3>1 DEF IInv, NoEarlierOrder, BeforeOrder, Invocations
    <3>3. Outcome[KeyOf[c]] # "completed"
      BY <3>2 DEF Outcome, IInv, CompletedHasOrder
    <3>4. Promise!Place(c)
      BY <3>1, <3>2, <3>3 DEF Promise!Place, Promise!HasOrder, HasOrder
    <3>5. QED BY <3>4 DEF Promise!Next
  <2>2. CASE placed' = placed
    <3>1. ASSUME NEW k \in Keys
          PROVE  Outcome[k] = "completed" => Outcome'[k] = "completed"
      <4> SUFFICES ASSUME Outcome[k] = "completed"
                   PROVE  Outcome'[k] = "completed"
        OBVIOUS
      <4>1. journal[k] # NoRow /\ journal[k].state = "completed"
        BY DEF Outcome
      <4>2. ASSUME NEW c \in Calls, Abandon(c), KeyOf[c] = k
            PROVE  journal' = journal
        BY <4>1, <4>2 DEF Abandon, HoldsClaim
      <4>3. journal'[k] # NoRow /\ journal'[k].state = "completed"
        BY <2>0, <4>1, <4>2, RowsKept
      <4>4. QED BY <4>3 DEF Outcome
    <3>2. ASSUME NEW k \in Keys
          PROVE  Outcome[k] = "unknown" => Outcome'[k] \in {"unknown", "completed"}
      <4> SUFFICES ASSUME Outcome[k] = "unknown"
                   PROVE  Outcome'[k] \in {"unknown", "completed"}
        OBVIOUS
      <4>1. journal[k] # NoRow /\ journal[k].state = "unknown"
        BY DEF Outcome
      <4>2. ASSUME NEW c \in Calls, Abandon(c), KeyOf[c] = k
            PROVE  journal' = journal
        BY <4>1, <4>2 DEF Abandon, HoldsClaim
      <4>3. journal'[k] # NoRow /\ journal'[k].state \in {"unknown", "completed"}
        BY <2>0, <4>1, <4>2, RowsKept
      <4>4. QED BY <4>3 DEF Outcome
    <3>3. ASSUME NEW k \in Keys
          PROVE  /\ Outcome[k] \in {"none", "unknown", "completed"}
                 /\ Outcome'[k] \in {"none", "unknown", "completed"}
      BY <2>0 DEF Outcome, TypeOK, Row, RowStates
    <3>4. CASE Outcome' = Outcome
      BY <2>2, <3>4 DEF Promise!vars
    <3>5. CASE Outcome' # Outcome
      <4>1. PICK k \in Keys : Outcome'[k] # Outcome[k]
        BY <3>5 DEF Outcome
      <4>2. \A q \in Keys : q # k => journal'[q] = journal[q]
        BY <2>0, <4>1, OneRowPerStep DEF Outcome
      <4>3. Outcome' = [Outcome EXCEPT ![k] = Outcome'[k]]
        BY <4>2 DEF Outcome
      <4>4. CASE Outcome'[k] = "completed"
        <5>1. Outcome[k] # "completed"
          BY <4>1, <4>4
        <5>2. HasOrder(k)
          BY <2>2, <4>4 DEF Outcome, IInv, CompletedHasOrder, HasOrder
        <5>3. Promise!Confirm(k)
          BY <2>2, <4>3, <4>4, <5>1, <5>2
          DEF Promise!Confirm, Promise!HasOrder, HasOrder
        <5>4. QED BY <5>3 DEF Promise!Next
      <4>5. CASE Outcome'[k] # "completed"
        <5>1. Outcome[k] = "none" /\ Outcome'[k] = "unknown"
          BY <3>1, <3>2, <3>3, <4>1, <4>5
        <5>2. Promise!Doubt(k)
          BY <2>2, <4>3, <5>1 DEF Promise!Doubt
        <5>3. QED BY <5>2 DEF Promise!Next
      <4>6. QED BY <4>4, <4>5
    <3>6. QED BY <3>4, <3>5
  <2>3. QED BY <2>0, <2>1, <2>2, OrdersGrow
<1>3. QED BY <1>1, <1>2, Invariant, PTL DEF Spec, ImplementsOneShotOrder, Promise!Spec

-----------------------------------------------------------------------------
(* The exposure of a portfolio *)

\* Records that agree in everything exposure looks at.
Alike(c, d) ==
  \A f \in {"symbol", "strategy", "asset_class", "action", "volume", "contract_size",
              "price"} : c[f] = d[f]

\* What exposure looks at.
Measured(e) == {e.volume, e.contract_size, e.price} \subseteq Nat

\* The amount of a record is a number once its quote currency has a rate.
LEMMA AmountsAreNumbers ==
  ASSUME NEW e, Measured(e)
  PROVE  /\ Convertible(e) => Converted(e) \in Int
         /\ \A currency : CurrencyUnits(e, currency) \in Int
<1>1. e.contract_size \in Nat
  BY DEF Measured
<1>2. e.volume * e.contract_size \in Int
  BY <1>1 DEF Measured
<1>3. SignedNotional(e) \in Int
  <2>1. \A s \in {1, -1} : s * e.volume \in Int
    BY DEF Measured
  <2>2. \A s \in {1, -1} : s * e.volume * e.contract_size \in Int
    BY <1>1, <2>1
  <2>3. \A s \in {1, -1} : s * e.volume * e.contract_size * e.price \in Int
    BY <2>2 DEF Measured
  <2>4. QED BY <2>3 DEF SignedNotional
<1>4. Magnitude(SignedNotional(e)) \in Int
  BY <1>3 DEF Magnitude
<1>5. Convertible(e) => Rate(e) \in Int
  BY CurrencyAssumption, SizingAssumption DEF Convertible, Rate
<1>6. Convertible(e) => Converted(e) \in Int
  BY <1>4, <1>5 DEF Converted
<1>7. \A currency : CurrencyUnits(e, currency) \in Int
  BY <1>2, <1>4 DEF CurrencyUnits
<1>8. QED BY <1>6, <1>7

\* Records that are alike have the same amounts.
LEMMA AlikeCountAlike ==
  ASSUME NEW c, NEW d, Alike(c, d)
  PROVE  /\ Measured(c) <=> Measured(d)
         /\ Convertible(c) <=> Convertible(d)
         /\ Converted(c) = Converted(d)
         /\ \A currency : CurrencyUnits(c, currency) = CurrencyUnits(d, currency)
<1>1. /\ c.symbol = d.symbol /\ c.strategy = d.strategy /\ c.asset_class = d.asset_class
      /\ c.action = d.action /\ c.volume = d.volume /\ c.price = d.price
      /\ c.contract_size = d.contract_size
  BY DEF Alike
<1>2. SignedNotional(c) = SignedNotional(d)
  BY <1>1 DEF SignedNotional
<1>3. QED BY <1>1, <1>2 DEF Measured, Convertible, Converted, Rate, CurrencyUnits

\* A record in front of others amounts to one like it behind them.
LEMMA PlaceDoesNotMatter ==
  ASSUME NEW s \in Seq(ExposureRecord), NEW c, NEW d, Alike(c, d), Measured(c)
  PROVE  LimitBreaches(<<d>> \o s) = LimitBreaches(Append(s, c))
<1> DEFINE n == Len(s)
           first == <<d>> \o s
           final == Append(s, c)
<1>0. /\ n \in Nat /\ DOMAIN first = 1..(n + 1) /\ DOMAIN final = 1..(n + 1)
      /\ first[1] = d /\ final[n + 1] = c
      /\ \A i \in 1..n : first[i + 1] = s[i] /\ final[i] = s[i]
      /\ \A i \in 1..n : s[i] \in ExposureRecord
  <2> DEFINE S == ExposureRecord \cup {c, d}
  <2>1. s \in Seq(S) /\ <<d>> \in Seq(S) /\ c \in S /\ Len(<<d>>) = 1 /\ n \in Nat
        /\ \A i \in 1..n : s[i] \in ExposureRecord
    OBVIOUS
  <2> HIDE DEF S
  <2>2. first \in Seq(S) /\ Len(first) = n + 1 /\ first[1] = d
        /\ \A i \in 1..n : first[i + 1] = s[i]
    BY <2>1, ConcatProperties
  <2>3. final \in Seq(S) /\ Len(final) = n + 1 /\ final[n + 1] = c
        /\ \A i \in 1..n : final[i] = s[i]
    BY <2>1, AppendProperties
  <2>4. QED BY <2>1, <2>2, <2>3
<1> HIDE DEF first, final, n
<1>1. \A i \in 1..(n + 1) : Measured(first[i]) /\ Measured(final[i])
  <2>1. \A e \in ExposureRecord : Measured(e)
    BY DEF ExposureRecord, Measured
  <2>2. Measured(d)
    BY AlikeCountAlike
  <2>3. \A i \in 1..(n + 1) : i = 1 \/ (i - 1 \in 1..n /\ i = (i - 1) + 1)
    BY <1>0
  <2>4. \A i \in 1..(n + 1) : i = n + 1 \/ i \in 1..n
    BY <1>0
  <2>5. QED BY <1>0, <2>1, <2>2, <2>3, <2>4
<1>2. (\E i \in 1..(n + 1) : ~Convertible(first[i]))
        <=> (\E i \in 1..(n + 1) : ~Convertible(final[i]))
  <2>1. Convertible(c) <=> Convertible(d)
    BY AlikeCountAlike
  <2>2. (\E i \in 1..(n + 1) : ~Convertible(first[i]))
          <=> ~Convertible(d) \/ \E i \in 1..n : ~Convertible(s[i])
    <3>1. \A i \in 1..(n + 1) : i = 1 \/ (i - 1 \in 1..n /\ i = (i - 1) + 1)
      BY <1>0
    <3>2. 1 \in 1..(n + 1) /\ \A i \in 1..n : i + 1 \in 1..(n + 1)
      BY <1>0
    <3>3. ASSUME NEW i \in 1..(n + 1), ~Convertible(first[i])
          PROVE  ~Convertible(d) \/ \E j \in 1..n : ~Convertible(s[j])
      <4>1. CASE i = 1
        BY <1>0, <3>3, <4>1
      <4>2. CASE i - 1 \in 1..n /\ i = (i - 1) + 1
        <5>1. first[i] = s[i - 1]
          BY <1>0, <4>2
        <5>2. QED BY <3>3, <4>2, <5>1
      <4>3. QED BY <3>1, <4>1, <4>2
    <3>4. ASSUME NEW j \in 1..n, ~Convertible(s[j])
          PROVE  \E i \in 1..(n + 1) : ~Convertible(first[i])
      <4>1. first[j + 1] = s[j] /\ j + 1 \in 1..(n + 1)
        BY <1>0, <3>2
      <4>2. QED BY <3>4, <4>1
    <3>5. QED BY <1>0, <3>2, <3>3, <3>4
  <2>3. (\E i \in 1..(n + 1) : ~Convertible(final[i]))
          <=> ~Convertible(c) \/ \E i \in 1..n : ~Convertible(s[i])
    <3>1. \A i \in 1..(n + 1) : i = n + 1 \/ i \in 1..n
      BY <1>0
    <3>2. n + 1 \in 1..(n + 1) /\ \A i \in 1..n : i \in 1..(n + 1)
      BY <1>0
    <3>3. QED BY <1>0, <3>1, <3>2
  <2>4. QED BY <2>1, <2>2, <2>3
<1>3. CASE \E i \in 1..(n + 1) : ~Convertible(final[i])
  BY <1>0, <1>2, <1>3 DEF LimitBreaches, first, final
<1>4. CASE \A i \in 1..(n + 1) : Convertible(final[i])
  <2>1. \A i \in 1..(n + 1) : Convertible(first[i]) /\ Convertible(final[i])
    BY <1>2, <1>4
  <2>2. \A i \in 1..(n + 1) : Converted(first[i]) \in Int /\ Converted(final[i]) \in Int
    BY <1>1, <2>1, AmountsAreNumbers
  <2>3. Gross(first) = Gross(final)
    <3> DEFINE v == [i \in DOMAIN final |-> Converted(final[i])]
               w == [i \in DOMAIN first |-> Converted(first[i])]
    <3>1. DOMAIN v = 1..(n + 1) /\ DOMAIN w = 1..(n + 1)
      BY <1>0
    <3>2. \A i \in 1..(n + 1) : v[i] = Converted(final[i]) /\ w[i] = Converted(first[i])
      BY <1>0
    <3>3. Gross(first) = SumFunction(w) /\ Gross(final) = SumFunction(v)
      BY DEF Gross, Sum
    <3> HIDE DEF v, w
    <3>4. \A i \in 1..(n + 1) : v[i] \in Int
      BY <2>2, <3>2
    <3>5. w[1] = v[n + 1]
      <4>1. Converted(c) = Converted(d) /\ 1 \in 1..(n + 1) /\ n + 1 \in 1..(n + 1)
        BY <1>0, AlikeCountAlike
      <4>2. QED BY <1>0, <3>2, <4>1
    <3>6. \A i \in 1..n : w[i + 1] = v[i]
      BY <1>0, <3>2
    <3>7. SumFunction(w) = SumFunction(v)
      <4>1. n \in Nat
        BY <1>0
      <4>2. QED BY ONLY <4>1, <3>1, <3>4, <3>5, <3>6, SumMovedToFront
    <3>8. QED BY <3>3, <3>7
  <2>4. ASSUME NEW f \in {"symbol", "strategy", "asset_class"}, NEW key
        PROVE  Held(first, f, key) = Held(final, f, key)
    <3> DEFINE v == [i \in DOMAIN final |-> IF final[i][f] = key THEN Converted(final[i]) ELSE 0]
               w == [i \in DOMAIN first |-> IF first[i][f] = key THEN Converted(first[i]) ELSE 0]
    <3>1. DOMAIN v = 1..(n + 1) /\ DOMAIN w = 1..(n + 1)
      BY <1>0
    <3>2. \A i \in 1..(n + 1) :
            /\ v[i] = IF final[i][f] = key THEN Converted(final[i]) ELSE 0
            /\ w[i] = IF first[i][f] = key THEN Converted(first[i]) ELSE 0
      BY <1>0
    <3>3. Held(first, f, key) = SumFunction(w) /\ Held(final, f, key) = SumFunction(v)
      BY DEF Held, Sum
    <3> HIDE DEF v, w
    <3>4. \A i \in 1..(n + 1) : v[i] \in Int
      BY <2>2, <3>2
    <3>5. w[1] = v[n + 1]
      <4>1. Converted(c) = Converted(d) /\ 1 \in 1..(n + 1) /\ n + 1 \in 1..(n + 1)
        BY <1>0, AlikeCountAlike
      <4>2. c[f] = d[f]
        BY <2>4 DEF Alike
      <4>3. QED BY <1>0, <3>2, <4>1, <4>2
    <3>6. \A i \in 1..n : w[i + 1] = v[i]
      BY <1>0, <3>2
    <3>7. SumFunction(w) = SumFunction(v)
      <4>1. n \in Nat
        BY <1>0
      <4>2. QED BY ONLY <4>1, <3>1, <3>4, <3>5, <3>6, SumMovedToFront
    <3>8. QED BY <3>3, <3>7
  <2>5. ASSUME NEW currency PROVE Moved(first, currency) = Moved(final, currency)
    <3> DEFINE v == [i \in DOMAIN final |-> CurrencyUnits(final[i], currency)]
               w == [i \in DOMAIN first |-> CurrencyUnits(first[i], currency)]
    <3>1. DOMAIN v = 1..(n + 1) /\ DOMAIN w = 1..(n + 1)
      BY <1>0
    <3>2. \A i \in 1..(n + 1) : /\ v[i] = CurrencyUnits(final[i], currency)
                                /\ w[i] = CurrencyUnits(first[i], currency)
      BY <1>0
    <3>3. Moved(first, currency) = SumFunction(w) /\ Moved(final, currency) = SumFunction(v)
      BY DEF Moved, Sum
    <3> HIDE DEF v, w
    <3>4. \A i \in 1..(n + 1) : v[i] \in Int
      BY <1>1, <3>2, AmountsAreNumbers
    <3>5. w[1] = v[n + 1]
      <4>1. CurrencyUnits(c, currency) = CurrencyUnits(d, currency)
            /\ 1 \in 1..(n + 1) /\ n + 1 \in 1..(n + 1)
        BY <1>0, AlikeCountAlike
      <4>2. QED BY <1>0, <3>2, <4>1
    <3>6. \A i \in 1..n : w[i + 1] = v[i]
      BY <1>0, <3>2
    <3>7. SumFunction(w) = SumFunction(v)
      <4>1. n \in Nat
        BY <1>0
      <4>2. QED BY ONLY <4>1, <3>1, <3>4, <3>5, <3>6, SumMovedToFront
    <3>8. QED BY <3>3, <3>7
  <2>6. LimitBreaches(first) = LimitBreaches(final)
    <3>1. ~(\E i \in DOMAIN first : ~Convertible(first[i]))
          /\ ~(\E i \in DOMAIN final : ~Convertible(final[i]))
      BY <1>0, <2>1
    <3>2. QED BY <2>3, <2>4, <2>5, <3>1 DEF LimitBreaches, Code
  <2>7. QED BY <2>6 DEF first, final
<1>5. QED BY <1>3, <1>4

-----------------------------------------------------------------------------
(* The size of a trade *)

\* The amount rounded down to a grid of steps, priced, is within the budget,
\* and one step more is not.
LEMMA RoundedDown ==
  ASSUME NEW b \in Nat, NEW w \in Nat \ {0}, NEW l \in Nat \ {0}, NEW s \in Nat \ {0}
  PROVE  LET r == (b \div (w * l * s)) * s
         IN  r \in Nat /\ w * (r * l) <= b /\ b < w * ((r + s) * l)
<1> DEFINE m == w * l * s
           k == b \div m
<1>0. \A p, q \in Nat \ {0} : p * q \in Nat \ {0}
  OBVIOUS
<1>1. m \in Nat \ {0}
  <2>1. w * l \in Nat \ {0}
    BY <1>0
  <2>2. (w * l) * s \in Nat \ {0}
    BY <1>0, <2>1
  <2>3. QED BY <2>2 DEF m
<1>2. k \in Nat /\ m * k <= b /\ b < m * (k + 1)
  <2> HIDE DEF m
  <2>1. ASSUME NEW d \in Nat \ {0}
        PROVE  b \div d \in Nat /\ d * (b \div d) <= b /\ b < d * ((b \div d) + 1)
    OBVIOUS
  <2>2. QED BY <1>1, <2>1
<1> HIDE DEF k
<1>3. k * s \in Nat /\ w * ((k * s) * l) = m * k /\ w * ((k * s + s) * l) = m * (k + 1)
  BY <1>2 DEF m
<1>4. QED BY <1>2, <1>3 DEF k

\* The numbers of a trade.
LEMMA TradesAreMeasured ==
  ASSUME NEW trade \in Proposal
  PROVE  /\ StopSize(trade) \in Nat /\ RoundTripCost(trade) \in Nat
         /\ LossPerLot(trade) \in Nat /\ StopDistance(trade) \in Int
         /\ TradeBudget(trade) \in Nat /\ PortfolioLeft(trade) \in Int
         /\ RiskBudget(trade) \in Nat
<1>1. /\ trade.entry \in Nat /\ trade.stop \in Nat
      /\ {trade.spread, trade.slippage, trade.commission, trade.swap} \subseteq Nat
      /\ trade.account.equity \in Nat /\ trade.account.open_risk \in Nat
  BY DEF Proposal, AccountRiskSnapshot
<1>2. /\ Instrument.tick_value \in Nat \ {0} /\ Instrument.point \in Nat
      /\ Whole \in Nat
      /\ RiskPolicy.risk_per_trade \in Nat /\ RiskPolicy.max_open_risk \in Nat
  BY SizingAssumption
<1>3. StopSize(trade) \in Nat
  BY <1>1 DEF StopSize, Magnitude
<1>4. RoundTripCost(trade) \in Nat
  <2>1. \A p, q, c, s, x \in Nat : (p + q) * x + c + s \in Nat
    OBVIOUS
  <2>2. QED BY <1>1, <1>2, <2>1 DEF RoundTripCost
<1>5. LossPerLot(trade) \in Nat
  BY <1>2, <1>3, <1>4 DEF LossPerLot
<1>6. StopDistance(trade) \in Int
  BY <1>1 DEF StopDistance, Toward
<1>7. TradeBudget(trade) \in Nat /\ PortfolioLeft(trade) \in Int
  BY <1>1, <1>2 DEF TradeBudget, PortfolioLeft
<1>8. RiskBudget(trade) \in Nat
  BY <1>7 DEF RiskBudget, Minimum
<1>9. QED BY <1>3, <1>4, <1>5, <1>6, <1>7, <1>8

\* A budget that is there is what both limits leave.
LEMMA BudgetMeetsBothLimits ==
  ASSUME NEW trade \in Proposal, RiskBudget(trade) > 0, NEW amount \in Int
  PROVE  LET tick == Instrument.tick_size
         IN  amount <= RiskBudget(trade) * tick
               <=> amount <= TradeBudget(trade) * tick /\ amount <= PortfolioLeft(trade) * tick
<1> DEFINE tick == Instrument.tick_size
           budget == TradeBudget(trade)
           left == PortfolioLeft(trade)
<1>1. budget \in Nat /\ left \in Int /\ tick \in Nat
  BY TradesAreMeasured, SizingAssumption
<1>2. /\ RiskBudget(trade) \in {budget, left}
      /\ RiskBudget(trade) <= budget /\ RiskBudget(trade) <= left
  BY <1>1 DEF RiskBudget, Minimum
<1>3. ASSUME NEW a \in Int, NEW b \in Int, a <= b PROVE a * tick <= b * tick
  <2>1. \A p, q \in Nat : p * q \in Nat
    OBVIOUS
  <2>2. (b - a) * tick \in Nat
    BY <1>1, <1>3, <2>1
  <2>3. \A p, q, n \in Int : (q - p) * n = q * n - p * n /\ p * n \in Int /\ q * n \in Int
    OBVIOUS
  <2>4. b * tick - a * tick \in Nat /\ a * tick \in Int /\ b * tick \in Int
    BY <1>1, <2>2, <2>3
  <2> HIDE DEF tick
  <2>5. QED BY <2>4
<1>4. /\ RiskBudget(trade) * tick <= budget * tick /\ RiskBudget(trade) * tick <= left * tick
      /\ RiskBudget(trade) * tick \in {budget * tick, left * tick}
      /\ budget * tick \in Int /\ left * tick \in Int
  <2>1. RiskBudget(trade) \in Int
    BY TradesAreMeasured
  <2>2. RiskBudget(trade) * tick <= budget * tick /\ RiskBudget(trade) * tick <= left * tick
    BY <1>1, <1>2, <1>3, <2>1
  <2>3. \A a \in Int : a * tick \in Int
    BY <1>1
  <2>4. budget * tick \in Int /\ left * tick \in Int
    BY <1>1, <2>3
  <2>5. QED BY <1>2, <2>2, <2>4
<1> HIDE DEF budget, left, tick
<1>5. amount <= RiskBudget(trade) * tick <=> amount <= budget * tick /\ amount <= left * tick
  BY <1>4
<1>6. QED BY <1>5 DEF budget, left, tick

\* The volume loses no more than the budget, and no larger one on the grid
\* that the instrument takes does.
LEMMA VolumeUsesBudget ==
  ASSUME NEW trade \in Proposal, LossPerLot(trade) > 0
  PROVE  /\ Volume(trade) \in Nat
         /\ Whole * (Volume(trade) * LossPerLot(trade))
              <= RiskBudget(trade) * Instrument.tick_size
         /\ Volume(trade) + Instrument.volume_step <= Instrument.volume_max =>
              RiskBudget(trade) * Instrument.tick_size
                < Whole * ((Volume(trade) + Instrument.volume_step) * LossPerLot(trade))
<1> DEFINE b == RiskBudget(trade) * Instrument.tick_size
           w == Whole
           l == LossPerLot(trade)
           s == Instrument.volume_step
           r == (b \div (w * l * s)) * s
           x == Instrument.volume_max
<1>1. /\ b \in Nat /\ w \in Nat \ {0} /\ l \in Nat \ {0}
      /\ s \in Nat \ {0} /\ x \in Nat \ {0}
  <2>1. \A p, q \in Nat : p * q \in Nat
    OBVIOUS
  <2>2. QED BY <2>1, TradesAreMeasured, SizingAssumption
<1>2. Volume(trade) = IF r <= x THEN r ELSE x
  BY DEF Volume, Minimum
<1>3. r \in Nat /\ w * (r * l) <= b /\ b < w * ((r + s) * l)
  <2> HIDE DEF b, w, l, s
  <2>1. QED BY <1>1, RoundedDown
<1> HIDE DEF b, w, l, s, r, x
<1>4. CASE r <= x
  BY <1>1, <1>2, <1>3, <1>4 DEF b, w, l, s, x
<1>5. CASE x < r
  <2>1. Volume(trade) = x /\ ~(x + s <= x)
    BY <1>1, <1>2, <1>3, <1>5
  <2>2. w * (x * l) <= w * (r * l)
    <3>1. ASSUME NEW p \in Nat, NEW q \in Nat, NEW m \in Nat, p <= q
          PROVE  p * m \in Nat /\ q * m \in Nat /\ p * m <= q * m
      <4>1. (q - p) * m >= 0 /\ q * m = p * m + (q - p) * m
            /\ p * m \in Nat /\ q * m \in Nat
        BY <3>1
      <4>2. QED BY <4>1
    <3>2. x * l \in Nat /\ r * l \in Nat /\ x * l <= r * l
      BY <1>1, <1>3, <1>5, <3>1
    <3>3. (x * l) * w <= (r * l) * w
      BY <1>1, <3>1, <3>2
    <3>4. \A p \in Nat : p * w = w * p
      BY <1>1
    <3>5. QED BY <3>2, <3>3, <3>4
  <2>3. w * (x * l) <= b
    <3>1. w * (x * l) \in Int /\ w * (r * l) \in Int
      BY <1>1, <1>3
    <3>2. QED BY <1>1, <1>3, <2>2, <3>1
  <2>4. QED BY <1>1, <2>1, <2>3 DEF b, w, l, s, x
<1>6. QED BY <1>1, <1>3, <1>4, <1>5

-----------------------------------------------------------------------------
(* An intent is safe *)

\* What approval means, gate by gate.
LEMMA ApprovalMeans ==
  ASSUME NEW trade \in Proposal, Approved(trade), Decide(trade).action # "HOLD"
  PROVE  /\ Decide(trade).symbol = Instrument.symbol
         /\ Sum(LAMBDA e : e.monetary_risk, trade.existing) = trade.account.open_risk
         /\ StopDistance(trade) > 0
         /\ trade.target # 0 =>
              LET reward == (trade.target - trade.entry) * Toward(trade) - RoundTripCost(trade)
              IN  /\ ~(reward <= 0)
                  /\ ~(Whole * reward < RiskPolicy.min_reward_risk
                                  * (StopSize(trade) + RoundTripCost(trade)))
         /\ RiskBudget(trade) > 0
         /\ Volume(trade) >= Instrument.volume_min
         /\ ~(Whole * trade.margin_per_lot * Volume(trade)
                > trade.account.free_margin * (Whole - RiskPolicy.margin_buffer))
         /\ trade.symbol \in DOMAIN Base
         /\ LimitBreaches(Append(trade.existing, Candidate(trade))) = {}
<1>1. /\ GateCodes(trade) = {} /\ LevelCodes(trade) = {} /\ SizeCodes(trade) = {}
      /\ ~AssessRaises(trade)
  BY DEF Approved, RejectionCodes
<1>2. /\ Decide(trade).symbol = Instrument.symbol
      /\ Sum(LAMBDA e : e.monetary_risk, trade.existing) = trade.account.open_risk
  BY <1>1 DEF GateCodes, Code
<1>3. ~(StopDistance(trade) <= 0)
  BY <1>1 DEF LevelCodes, Code
<1>4. StopDistance(trade) > 0
  BY <1>3, TradesAreMeasured
<1>5. ASSUME trade.target # 0
      PROVE  LET reward == (trade.target - trade.entry) * Toward(trade) - RoundTripCost(trade)
             IN  /\ ~(reward <= 0)
                 /\ ~(Whole * reward < RiskPolicy.min_reward_risk
                                 * (StopSize(trade) + RoundTripCost(trade)))
  BY <1>1, <1>4, <1>5 DEF LevelCodes, Code
<1>6. ~(RiskBudget(trade) <= 0) /\ ~(Volume(trade) < Instrument.volume_min)
      /\ ~(Whole * trade.margin_per_lot * Volume(trade)
             > trade.account.free_margin * (Whole - RiskPolicy.margin_buffer))
  BY <1>1 DEF SizeCodes, Code
<1>7. RiskBudget(trade) > 0
  BY <1>6, TradesAreMeasured
<1>8. LossPerLot(trade) > 0
  <2>1. StopSize(trade) > 0
    <3>1. trade.entry \in Nat /\ trade.stop \in Nat
      BY DEF Proposal
    <3>2. QED BY <1>4, <3>1 DEF StopDistance, StopSize, Magnitude, Toward
  <2>2. Instrument.tick_value \in Nat \ {0}
    BY SizingAssumption
  <2>3. StopSize(trade) + RoundTripCost(trade) \in Nat \ {0}
    BY <2>1, TradesAreMeasured
  <2>4. \A a, c \in Nat \ {0} : a * c > 0
    OBVIOUS
  <2>5. QED BY <2>2, <2>3, <2>4 DEF LossPerLot
<1>9. Volume(trade) >= Instrument.volume_min
  <2>1. Volume(trade) \in Nat /\ Instrument.volume_min \in Nat
    BY <1>8, VolumeUsesBudget, SizingAssumption
  <2>2. QED BY <1>6, <2>1
<1>10. HasCandidate(trade)
  BY <1>9 DEF HasCandidate
<1>11. trade.symbol \in DOMAIN Base
  BY <1>1, <1>10 DEF AssessRaises
<1>12. LimitBreaches(Append(trade.existing, Candidate(trade))) = {}
  BY <1>1, <1>10 DEF SizeCodes
<1>13. QED BY <1>2, <1>4, <1>5, <1>6, <1>7, <1>9, <1>11, <1>12

\* A volume that stays within both limits, reckoned from the levels of a trade.
LEMMA LossOfVolume ==
  ASSUME NEW trade \in Proposal, StopDistance(trade) > 0, NEW v \in Nat
  PROVE  v * (StopDistance(trade) + RoundTripCost(trade)) * Instrument.tick_value
           = v * LossPerLot(trade)
<1>1. StopSize(trade) = StopDistance(trade)
  <2>1. trade.entry \in Nat /\ trade.stop \in Nat
    BY DEF Proposal
  <2>2. QED BY <2>1 DEF StopDistance, StopSize, Magnitude, Toward
<1>2. StopSize(trade) + RoundTripCost(trade) \in Nat /\ Instrument.tick_value \in Nat
  BY TradesAreMeasured, SizingAssumption
<1>3. \A a, b, c \in Nat : a * b * c = a * (b * c)
  OBVIOUS
<1>4. QED BY <1>1, <1>2, <1>3 DEF LossPerLot

\* The volume of an approved trade stays within its budget and within what the
\* portfolio has left, and no larger one does.
LEMMA ApprovedVolumeFits ==
  ASSUME NEW trade \in Proposal, Approved(trade), Decide(trade).action # "HOLD"
  PROVE  LET Lost(volume) == volume * (StopDistance(trade) + RoundTripCost(trade))
                                * Instrument.tick_value
             Fits(volume) ==
               /\ Whole * Lost(volume)
                    <= trade.account.equity * RiskPolicy.risk_per_trade * Instrument.tick_size
               /\ Whole * (Lost(volume) + Sum(LAMBDA e : e.monetary_risk, trade.existing)
                                             * Instrument.tick_size)
                    <= trade.account.equity * RiskPolicy.max_open_risk * Instrument.tick_size
             larger == Volume(trade) + Instrument.volume_step
         IN  Fits(Volume(trade)) /\ (larger <= Instrument.volume_max => ~Fits(larger))
<1> DEFINE Loss(volume) == volume * LossPerLot(trade)
           v == Volume(trade)
           larger == v + Instrument.volume_step
           open == trade.account.open_risk
           tick == Instrument.tick_size
           granted == RiskBudget(trade) * tick
           own == trade.account.equity * RiskPolicy.risk_per_trade * tick
           all == trade.account.equity * RiskPolicy.max_open_risk * tick
<1>1. StopDistance(trade) > 0 /\ RiskBudget(trade) > 0 /\ v >= Instrument.volume_min
      /\ Sum(LAMBDA e : e.monetary_risk, trade.existing) = open
  BY ApprovalMeans
<1>2. LossPerLot(trade) > 0
  <2>1. LossPerLot(trade) \in Nat
    BY TradesAreMeasured
  <2>2. Instrument.volume_min \in Nat \ {0} /\ Instrument.volume_max \in Nat \ {0}
    BY SizingAssumption
  <2>3. LossPerLot(trade) = 0 => v = 0
    BY <2>1, <2>2 DEF Volume, Minimum
  <2>4. QED BY <1>1, <2>1, <2>2, <2>3
<1>3. /\ v \in Nat /\ larger \in Nat /\ Whole * Loss(v) <= granted
      /\ larger <= Instrument.volume_max => granted < Whole * Loss(larger)
  BY <1>2, VolumeUsesBudget, SizingAssumption
<1>4. /\ open \in Nat /\ LossPerLot(trade) \in Nat /\ tick \in Nat /\ Whole \in Nat
      /\ trade.account.equity * RiskPolicy.risk_per_trade \in Int
      /\ trade.account.equity * RiskPolicy.max_open_risk \in Int
      /\ granted \in Int
  <2>1. trade.account.equity \in Nat /\ open \in Nat
    BY DEF Proposal, AccountRiskSnapshot
  <2>2. /\ RiskPolicy.risk_per_trade \in Nat /\ RiskPolicy.max_open_risk \in Nat
        /\ tick \in Nat /\ Whole \in Nat
    BY SizingAssumption
  <2>3. LossPerLot(trade) \in Nat /\ RiskBudget(trade) \in Nat
    BY TradesAreMeasured
  <2> HIDE DEF open, tick
  <2>4. \A p, q \in Nat : p * q \in Int
    OBVIOUS
  <2>5. QED BY <2>1, <2>2, <2>3, <2>4
<1>5. ASSUME NEW x \in Nat
      PROVE  Whole * Loss(x) <= granted
               <=> Whole * Loss(x) <= own /\ Whole * (Loss(x) + open * tick) <= all
  <2>1. Loss(x) \in Nat
    BY <1>4
  <2> HIDE DEF Loss, open, tick
  <2>2. Whole * Loss(x) \in Int
    BY <1>4, <2>1
  <2>3. Whole * Loss(x) <= granted
          <=> /\ Whole * Loss(x) <= TradeBudget(trade) * tick
              /\ Whole * Loss(x) <= PortfolioLeft(trade) * tick
    BY <1>1, <2>2, BudgetMeetsBothLimits DEF tick
  <2>4. Whole * Loss(x) <= PortfolioLeft(trade) * tick
          <=> Whole * (Loss(x) + open * tick) <= all
    <3>1. ASSUME NEW w \in Nat, NEW l \in Nat, NEW o \in Nat, NEW k \in Nat, NEW g \in Int
          PROVE  w * l <= (g - w * o) * k <=> w * (l + o * k) <= g * k
      <4>1. (g - w * o) * k = g * k - w * o * k /\ w * (l + o * k) = w * l + w * o * k
        OBVIOUS
      <4>2. w * l \in Int /\ w * o * k \in Int /\ g * k \in Int
        OBVIOUS
      <4>3. QED BY <4>1, <4>2
    <3>2. PortfolioLeft(trade)
            = trade.account.equity * RiskPolicy.max_open_risk - Whole * open
      BY DEF PortfolioLeft, open
    <3>3. QED BY <1>4, <2>1, <3>1, <3>2
  <2>5. QED BY <2>3, <2>4 DEF TradeBudget
<1>6. ~(granted < Whole * Loss(larger) /\ Whole * Loss(larger) <= granted)
  <2>1. \A p, q \in Nat : p * q \in Nat
    OBVIOUS
  <2>2. Whole * Loss(larger) \in Int
    BY <1>3, <1>4, <2>1
  <2> HIDE DEF Loss, larger, granted
  <2>3. QED BY <1>4, <2>2
<1>7. ASSUME NEW x \in Nat
      PROVE  x * (StopDistance(trade) + RoundTripCost(trade)) * Instrument.tick_value = Loss(x)
  BY <1>1, LossOfVolume
<1> HIDE DEF Loss, v, larger, open, tick, granted, own, all
<1>8. QED BY <1>1, <1>3, <1>5, <1>6, <1>7 DEF v, larger, tick, own, all

\* An intent is safe.
LEMMA IntentIsSafe ==
  ASSUME NEW trade \in Proposal, NEW intent \in Intents(trade)
  PROVE  SafeIntent(trade, intent)
<1> DEFINE side == IF intent.side = "BUY" THEN 1 ELSE -1
           cost == trade.spread * Instrument.point + trade.slippage * Instrument.point
                     + trade.commission + trade.swap
<1>1. /\ Approved(trade) /\ Decide(trade).action # "HOLD"
      /\ intent = [side |-> Decide(trade).action, symbol |-> Decide(trade).symbol,
                    volume |-> Volume(trade), stop |-> trade.stop, target |-> trade.target,
                    created_at |-> trade.created_at]
      /\ trade.created_at < Decide(trade).expires_at
  BY DEF Intents
<1>a. cost = RoundTripCost(trade)
  <2>1. /\ {trade.spread, trade.slippage, trade.commission, trade.swap} \subseteq Nat
        /\ Instrument.point \in Nat
    BY SizingAssumption DEF Proposal
  <2>2. \A p, q, x \in Nat : (p + q) * x = p * x + q * x
    OBVIOUS
  <2>3. QED BY <2>1, <2>2 DEF RoundTripCost
<1>2. /\ side = Toward(trade) /\ cost = RoundTripCost(trade)
      /\ (trade.entry - intent.stop) * side = StopDistance(trade)
      /\ Magnitude(trade.entry - intent.stop) = StopSize(trade)
      /\ intent.volume = Volume(trade) /\ intent.target = trade.target
  BY <1>1, <1>a DEF Toward, StopDistance, StopSize
<1>3. /\ intent.symbol = trade.symbol /\ intent.side = Decide(trade).action
      /\ intent.side = trade.proposed
      /\ intent.created_at
           < trade.observed_at + BarDuration * Parameters[intent.symbol].ttl_bars
  BY <1>1 DEF Decide, Signal
<1> DEFINE Lost(volume) == volume * (StopDistance(trade) + cost) * Instrument.tick_value
           Fits(volume) ==
             /\ Whole * Lost(volume)
                  <= trade.account.equity * RiskPolicy.risk_per_trade * Instrument.tick_size
             /\ Whole * (Lost(volume) + Sum(LAMBDA e : e.monetary_risk, trade.existing)
                                           * Instrument.tick_size)
                  <= trade.account.equity * RiskPolicy.max_open_risk * Instrument.tick_size
           larger == intent.volume + Instrument.volume_step
           reward == (intent.target - trade.entry) * side - cost
           entered == [symbol |-> intent.symbol, strategy |-> trade.strategy,
                       asset_class |-> Instrument.asset_class, action |-> intent.side,
                       volume |-> intent.volume, contract_size |-> Instrument.contract_size,
                       price |-> trade.entry]
<1>4. Fits(intent.volume) /\ (larger <= Instrument.volume_max => ~Fits(larger))
  BY <1>1, <1>2, ApprovedVolumeFits
<1>5. StopDistance(trade) > 0 /\ Volume(trade) \in Nat /\ Volume(trade) > 0
  <2>1. LossPerLot(trade) > 0 => Volume(trade) \in Nat
    BY VolumeUsesBudget
  <2>2. LossPerLot(trade) = 0 => Volume(trade) = 0
    BY SizingAssumption DEF Volume, Minimum
  <2>3. StopDistance(trade) > 0 /\ Volume(trade) >= Instrument.volume_min
    BY <1>1, ApprovalMeans
  <2>4. LossPerLot(trade) \in Nat /\ Instrument.volume_min \in Nat \ {0}
    BY TradesAreMeasured, SizingAssumption
  <2>5. QED BY <2>1, <2>2, <2>3, <2>4
<1>6. Whole * (trade.account.free_margin - intent.volume * trade.margin_per_lot)
        >= trade.account.free_margin * RiskPolicy.margin_buffer
  <2>1. ~(Whole * trade.margin_per_lot * Volume(trade)
            > trade.account.free_margin * (Whole - RiskPolicy.margin_buffer))
    BY <1>1, ApprovalMeans
  <2>2. /\ trade.account.free_margin \in Nat /\ trade.margin_per_lot \in Nat
        /\ RiskPolicy.margin_buffer \in Nat /\ Whole \in Nat
    <3>1. RiskPolicy.margin_buffer \in Nat /\ Whole \in Nat
      BY SizingAssumption
    <3>2. QED BY <3>1 DEF Proposal, AccountRiskSnapshot
  <2>3. ASSUME NEW w \in Nat, NEW f \in Nat, NEW p \in Nat, NEW b \in Nat, NEW v \in Nat,
               ~(w * p * v > f * (w - b))
        PROVE  w * (f - v * p) >= f * b
    <3>1. /\ w * (f - v * p) = w * f - w * p * v /\ f * (w - b) = w * f - f * b
          /\ w * f \in Int /\ w * p * v \in Int /\ f * b \in Int
      OBVIOUS
    <3>2. QED BY <2>3, <3>1
  <2>4. QED BY <1>2, <1>5, <2>1, <2>2, <2>3
<1>7. LimitBreaches(<<entered>> \o trade.existing) = {}
  <2>1. Alike(Candidate(trade), entered)
    BY <1>2, <1>3 DEF Alike, Candidate
  <2>2. Measured(Candidate(trade))
    <3>1. Instrument.contract_size \in Nat
      BY SizingAssumption
    <3>2. QED BY <1>5, <3>1 DEF Measured, Candidate, Proposal
  <2>3. trade.existing \in Seq(ExposureRecord)
    BY DEF Proposal
  <2>4. LimitBreaches(Append(trade.existing, Candidate(trade))) = {}
    BY <1>1, ApprovalMeans
  <2> HIDE DEF entered
  <2>5. QED BY <2>1, <2>2, <2>3, <2>4, PlaceDoesNotMatter
<1>8. intent.target # 0 =>
        reward > 0 /\ Whole * reward >= RiskPolicy.min_reward_risk
                                  * (Magnitude(trade.entry - intent.stop) + cost)
  <2> SUFFICES ASSUME trade.target # 0
               PROVE  reward > 0 /\ Whole * reward >= RiskPolicy.min_reward_risk
                                                * (StopSize(trade) + RoundTripCost(trade))
    BY <1>2
  <2>1. reward = (trade.target - trade.entry) * Toward(trade) - RoundTripCost(trade)
    BY <1>2
  <2>2. ~(reward <= 0) /\ ~(Whole * reward < RiskPolicy.min_reward_risk
                                       * (StopSize(trade) + RoundTripCost(trade)))
    BY <1>1, <2>1, ApprovalMeans
  <2>3. reward \in Int
    <3>1. trade.target \in Nat /\ trade.entry \in Nat /\ Toward(trade) \in Int
      BY DEF Proposal, Toward
    <3>2. QED BY <2>1, <3>1, TradesAreMeasured
  <2>4. /\ RiskPolicy.min_reward_risk * (StopSize(trade) + RoundTripCost(trade)) \in Int
        /\ Whole \in Nat
    <3>1. \A p, q, c \in Nat : p * (q + c) \in Int
      OBVIOUS
    <3>2. QED BY <3>1, TradesAreMeasured, SizingAssumption
  <2> HIDE DEF reward
  <2>5. QED BY <2>2, <2>3, <2>4
<1>9. (trade.entry - intent.stop) * side > 0
  BY <1>2, <1>5
<1>10. SafeIntent(trade, intent)
  BY <1>2, <1>3, <1>4, <1>6, <1>7, <1>8, <1>9 DEF SafeIntent
<1>11. QED BY <1>10

\* Every intent is safe, reckoned from the intent alone, whatever the policy,
\* the instrument, the limits and the trade: its loss with all its costs stays
\* within the budget of the trade and of the portfolio, no larger volume on
\* the grid would, the margin buffer is left, every exposure limit holds with
\* it in the portfolio, and it keeps the direction, the stop and the time its
\* signal gave it.
THEOREM IntentsAreSafe == Inputs => []ApprovedIntentIsSafe
<1> DEFINE Safe == kind = "trade" => input \in Proposal
<1>1. Safe => ApprovedIntentIsSafe
  BY IntentIsSafe DEF ApprovedIntentIsSafe
<1>2. NoInput => Safe
  BY DEF NoInput
<1>3. Safe /\ [TakeInput]_choice => Safe'
  BY ProposalsAssumption DEF Safe, TakeInput, Take, choice, LoadBatch, ObserveHistory,
     EvaluateStudy, ProposeTrade
<1> HIDE DEF Safe
<1>4. QED BY <1>1, <1>2, <1>3, PTL DEF Inputs
=============================================================================
