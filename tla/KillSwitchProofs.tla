-------------------------- MODULE KillSwitchProofs --------------------------
(***************************************************************************)
(* The guard and the audit of the kill switch, for any number of operators *)
(* and submitters, any scopes and any bound on time.                       *)
(***************************************************************************)
EXTENDS KillSwitch, TLAPS

\* An operator that has read carries an event; under its lock it is alone on
\* the scope.
RequestIsReal ==
  \A o \in Operators :
    /\ pc[o] \in {"read", "locked"} => request[o] \in Events
    /\ pc[o] = "locked" => lock[request[o].scope] = o

\* A submitter past its locks holds those of every scope of its query, or none
\* since the session of its guard died.
GuardHoldsAllOrNone ==
  \A q \in Submitters : pc[q] \in {"guarded", "calling"} =>
    Guarded(q) \/ \A s \in Scopes : lock[s] # q

\* A submitter that starts its guard holds nothing, and it never holds the
\* lock of a scope outside its query.
LocksAreOwn ==
  \A q \in Submitters : \A s \in Scopes :
    lock[s] = q => pc[q] # "idle" /\ s \in ScopesOf[q]

\* The inductive invariant.
IInv ==
  /\ TypeOK
  /\ RequestIsReal
  /\ GuardHoldsAllOrNone
  /\ LocksAreOwn
  /\ WaitsUpward
  /\ CallIsClear
  /\ StateFollowsAudit
  /\ AuditIsStrictlyOrdered

\* No lock is held and no event is on record at the start.
LEMMA InitInvariant == Init => IInv
  BY KillSwitchAssumption
  DEF Init, IInv, TypeOK, Processes, Times, RequestIsReal, GuardHoldsAllOrNone,
      LocksAreOwn, WaitsUpward, CallIsClear, StateFollowsAudit,
      AuditIsStrictlyOrdered

\* Every step keeps the types.
LEMMA TypeStep == IInv /\ [Next]_vars => TypeOK'
<1> SUFFICES ASSUME IInv, [Next]_vars PROVE TypeOK'
  OBVIOUS
<1> USE KillSwitchAssumption
<1>0. TypeOK /\ RequestIsReal /\ Operators \cup Submitters = Processes
  BY DEF IInv, Processes
<1>1. ASSUME NEW p \in Processes
      PROVE  Released(p) \in [Scopes -> Processes \cup {Free}]
  BY <1>0 DEF Released, TypeOK
<1>2. ASSUME NEW o \in Operators, Read(o) PROVE TypeOK'
  <2>1. PICK e \in Events : request' = [request EXCEPT ![o] = e]
    BY <1>2 DEF Read
  <2>2. QED BY <1>0, <1>2, <2>1 DEF Read, TypeOK
<1>3. ASSUME NEW o \in Operators, LockScope(o) PROVE TypeOK'
  BY <1>0, <1>3 DEF LockScope, TypeOK
<1>4. ASSUME NEW o \in Operators, Persist(o) PROVE TypeOK'
  <2>1. request[o] \in Events
    BY <1>0, <1>4 DEF Persist, RequestIsReal
  <2>2. [active |-> request[o].action = "activate", at |-> request[o].at]
          \in [active : BOOLEAN, at : 0..MaxTime]
    <3>1. request[o].at \in 0..MaxTime
      BY <2>1 DEF Events, Times
    <3>2. (request[o].action = "activate") \in BOOLEAN
      OBVIOUS
    <3>3. QED BY <3>1, <3>2
  <2>3. row' \in [Scopes -> [active : BOOLEAN, at : 0..MaxTime]]
    BY <1>0, <1>4, <2>1, <2>2 DEF Persist, TypeOK, Events
  <2>4. events' \subseteq Events
    BY <1>0, <1>4, <2>1 DEF Persist, TypeOK
  <2>5. QED BY <1>0, <1>1, <1>4, <2>3, <2>4 DEF Persist, TypeOK
<1>5. ASSUME NEW q \in Submitters, Guard(q) PROVE TypeOK'
  <2>1. CASE LockNext(q)
    BY <1>0, <2>1 DEF LockNext, Pending, TypeOK
  <2>2. CASE StartGuard(q) \/ CheckClear(q)
    BY <1>0, <2>2 DEF StartGuard, CheckClear, TypeOK
  <2>3. CASE CheckBlocked(q) \/ EndCall(q)
    <3>1. /\ row' = row /\ events' = events /\ request' = request
          /\ lock' = Released(q) /\ pc' = [pc EXCEPT ![q] = "idle"]
      BY <2>3 DEF CheckBlocked, EndCall
    <3>2. lock' \in [Scopes -> Processes \cup {Free}]
      BY <1>0, <1>1, <3>1
    <3>3. QED BY <1>0, <3>1, <3>2 DEF TypeOK
  <2>4. QED BY <1>5, <2>1, <2>2, <2>3 DEF Guard
<1>6. ASSUME NEW p \in Processes, Crash(p) PROVE TypeOK'
  <2>1. request' \in [Operators -> Events \cup {Free}]
    BY <1>0, <1>6 DEF Crash, TypeOK
  <2>2. /\ row' = row /\ events' = events /\ lock' = Released(p)
        /\ pc' = [pc EXCEPT ![p] = "idle"]
    BY <1>6 DEF Crash
  <2>3. pc' \in [Processes -> {"idle", "read", "locked", "locking", "guarded",
                               "calling"}]
    BY <1>0, <2>2 DEF TypeOK
  <2>4. QED BY <1>0, <1>1, <2>1, <2>2, <2>3 DEF TypeOK
<1>7. CASE UNCHANGED vars
  BY <1>0, <1>7 DEF vars, TypeOK
<1>8. ASSUME NEW q \in Submitters, SessionLost(q) PROVE TypeOK'
  <2>1. q \in Processes
    BY DEF Processes
  <2>2. lock' \in [Scopes -> Processes \cup {Free}]
    BY <1>1, <1>8, <2>1 DEF SessionLost
  <2>3. QED BY <1>0, <1>8, <2>2 DEF SessionLost, TypeOK
<1>9. QED
  BY <1>2, <1>3, <1>4, <1>5, <1>6, <1>7, <1>8 DEF Next, Transition

\* Locks: who holds what at each point of a guard and of a transition.
LEMMA LockStep ==
  IInv /\ [Next]_vars =>
    (RequestIsReal /\ GuardHoldsAllOrNone /\ LocksAreOwn /\ WaitsUpward)'
<1> DEFINE Locks == RequestIsReal /\ GuardHoldsAllOrNone /\ LocksAreOwn /\ WaitsUpward
<1> SUFFICES ASSUME IInv, [Next]_vars PROVE Locks'
  OBVIOUS
<1> USE KillSwitchAssumption
<1>0. /\ TypeOK /\ Locks
      /\ Operators \subseteq Processes /\ Submitters \subseteq Processes
      /\ \A q \in Submitters : ScopesOf[q] \subseteq Scopes
  BY DEF IInv, Processes
<1>1. ASSUME NEW p \in Processes, lock' = Released(p), pc[p] # "idle",
             pc' = [pc EXCEPT ![p] = "idle"],
             \A o \in Operators : o # p => request'[o] = request[o]
      PROVE  Locks'
  <2>1. \A s \in Scopes : lock'[s] = IF lock[s] = p THEN Free ELSE lock[s]
    BY <1>1 DEF Released
  <2>2. pc'[p] = "idle" /\ \A r \in Processes : r # p => pc'[r] = pc[r]
    BY <1>0, <1>1 DEF TypeOK
  <2>3. RequestIsReal'
    BY <1>0, <1>1, <2>1, <2>2 DEF RequestIsReal, Events
  <2>4. GuardHoldsAllOrNone' /\ LocksAreOwn'
    BY <1>0, <2>1, <2>2
    DEF GuardHoldsAllOrNone, Guarded, LocksAreOwn, Processes
  <2>5. WaitsUpward'
    <3> SUFFICES ASSUME NEW q \in Submitters, NEW s \in Scopes,
                        NEW t \in Pending(q)', lock'[s] = q
                 PROVE  Rank[s] < Rank[t]
      BY DEF WaitsUpward
    <3>1. q # p /\ lock[s] = q
      BY <2>1 DEF Processes
    <3>2. t \in Pending(q)
      BY <1>0, <2>1, <3>1 DEF Pending
    <3>3. QED BY <1>0, <3>1, <3>2 DEF WaitsUpward
  <2>6. QED BY <2>3, <2>4, <2>5
<1>2. ASSUME NEW o \in Operators, Read(o) PROVE Locks'
  <2>1. PICK e \in Events : request' = [request EXCEPT ![o] = e]
    BY <1>2 DEF Read
  <2>2. QED
    BY <1>0, <1>2, <2>1
    DEF Read, TypeOK, RequestIsReal, GuardHoldsAllOrNone, Guarded, LocksAreOwn,
        WaitsUpward, Pending
<1>3. ASSUME NEW o \in Operators, LockScope(o) PROVE Locks'
  <2>1. /\ request[o] \in Events /\ request' = request
        /\ lock' = [lock EXCEPT ![request[o].scope] = o]
        /\ lock[request[o].scope] = Free
        /\ pc' = [pc EXCEPT ![o] = "locked"]
    BY <1>0, <1>3 DEF LockScope, RequestIsReal
  <2>2. request[o].scope \in Scopes
    BY <2>1 DEF Events
  <2>3. RequestIsReal'
    BY <1>0, <2>1, <2>2 DEF RequestIsReal, TypeOK, Events, Processes
  <2>4. GuardHoldsAllOrNone' /\ LocksAreOwn'
    BY <1>0, <2>1, <2>2
    DEF GuardHoldsAllOrNone, Guarded, LocksAreOwn, TypeOK, Processes
  <2>5. WaitsUpward'
    BY <1>0, <2>1, <2>2 DEF WaitsUpward, Pending, TypeOK, Processes
  <2>6. QED BY <2>3, <2>4, <2>5
<1>4. ASSUME NEW o \in Operators, Persist(o) PROVE Locks'
  <2>1. \A p \in Operators : p # o => request'[p] = request[p]
    BY <1>0, <1>4 DEF Persist, TypeOK
  <2>2. QED BY <1>0, <1>1, <1>4, <2>1 DEF Persist
<1>5. ASSUME NEW q \in Submitters, Guard(q) PROVE Locks'
  <2>1. CASE StartGuard(q) \/ CheckClear(q)
    BY <1>0, <2>1
    DEF StartGuard, CheckClear, TypeOK, RequestIsReal, GuardHoldsAllOrNone,
        Guarded, LocksAreOwn, WaitsUpward, Pending
  <2>2. CASE LockNext(q)
    <3>1. PICK s \in Pending(q) :
            /\ \A t \in Pending(q) : Rank[s] <= Rank[t]
            /\ lock[s] = Free
            /\ lock' = [lock EXCEPT ![s] = q]
            /\ pc' = [pc EXCEPT ![q] =
                 IF Pending(q) = {s} THEN "guarded" ELSE "locking"]
            /\ request' = request
            /\ pc[q] = "locking"
      BY <2>2 DEF LockNext
    <3>2. s \in Scopes /\ s \in ScopesOf[q]
      BY <1>0, <3>1 DEF Pending
    <3>3. RequestIsReal'
      BY <1>0, <3>1, <3>2 DEF RequestIsReal, TypeOK, Events, Processes
    <3>4. GuardHoldsAllOrNone'
      <4> SUFFICES ASSUME NEW r \in Submitters, pc'[r] \in {"guarded", "calling"}
                   PROVE  Guarded(r)' \/ \A t \in Scopes : lock'[t] # r
        BY DEF GuardHoldsAllOrNone
      <4>1. \A t \in Scopes : lock'[t] = IF t = s THEN q ELSE lock[t]
        BY <1>0, <3>1, <3>2 DEF TypeOK
      <4>2. CASE r = q
        <5>1. Pending(q) = {s}
          BY <1>0, <3>1, <4>2 DEF TypeOK
        <5>2. QED BY <1>0, <4>1, <4>2, <5>1 DEF Guarded, Pending
      <4>3. CASE r # q
        <5>1. pc[r] = pc'[r]
          BY <1>0, <3>1, <4>3 DEF TypeOK
        <5>2. QED
          BY <1>0, <3>1, <3>2, <4>1, <4>3, <5>1
          DEF GuardHoldsAllOrNone, Guarded, Processes
      <4>4. QED BY <4>2, <4>3
    <3>5. LocksAreOwn'
      BY <1>0, <3>1, <3>2 DEF LocksAreOwn, TypeOK
    <3>6. WaitsUpward'
      <4> SUFFICES ASSUME NEW r \in Submitters, NEW u \in Scopes,
                          NEW t \in Pending(r)', lock'[u] = r
                   PROVE  Rank[u] < Rank[t]
        BY DEF WaitsUpward
      <4>1. t \in Scopes /\ t \in Pending(r) /\ (r = q => t # s)
        BY <1>0, <3>1, <3>2 DEF Pending, TypeOK, Processes
      <4>2. CASE lock[u] = r
        BY <1>0, <4>1, <4>2 DEF WaitsUpward
      <4>3. CASE lock[u] # r
        <5>1. u = s /\ r = q
          BY <1>0, <3>1, <4>3 DEF TypeOK
        <5>2. Rank[s] <= Rank[t] /\ Rank[s] # Rank[t]
          BY <3>1, <3>2, <4>1, <5>1
        <5>3. QED BY <3>2, <4>1, <5>1, <5>2
      <4>4. QED BY <4>2, <4>3
    <3>7. QED BY <3>3, <3>4, <3>5, <3>6
  <2>3. CASE CheckBlocked(q) \/ EndCall(q)
    <3>1. /\ lock' = Released(q) /\ pc[q] # "idle" /\ request' = request
          /\ pc' = [pc EXCEPT ![q] = "idle"]
      BY <2>3 DEF CheckBlocked, EndCall
    <3>2. QED BY <1>0, <1>1, <3>1
  <2>4. QED BY <1>5, <2>1, <2>2, <2>3 DEF Guard
<1>6. ASSUME NEW p \in Processes, Crash(p) PROVE Locks'
  <2>1. \A o \in Operators : o # p => request'[o] = request[o]
    BY <1>0, <1>6 DEF Crash, TypeOK
  <2>2. QED BY <1>1, <1>6, <2>1 DEF Crash
<1>7. CASE UNCHANGED vars
  BY <1>0, <1>7
  DEF vars, RequestIsReal, GuardHoldsAllOrNone, Guarded, LocksAreOwn, WaitsUpward,
      Pending
<1>8. ASSUME NEW q \in Submitters, SessionLost(q) PROVE Locks'
  <2>1. /\ pc' = pc /\ request' = request
        /\ \A s \in Scopes : lock'[s] = IF lock[s] = q THEN Free ELSE lock[s]
    BY <1>8 DEF SessionLost, Released
  <2>2. RequestIsReal'
    BY <1>0, <2>1 DEF RequestIsReal, Events
  <2>3. GuardHoldsAllOrNone' /\ LocksAreOwn'
    BY <1>0, <2>1 DEF GuardHoldsAllOrNone, Guarded, LocksAreOwn, Processes
  <2>4. WaitsUpward'
    <3> SUFFICES ASSUME NEW r \in Submitters, NEW s \in Scopes,
                        NEW t \in Pending(r)', lock'[s] = r
                 PROVE  Rank[s] < Rank[t]
      BY DEF WaitsUpward
    <3>1. r # q /\ lock[s] = r
      BY <2>1 DEF Processes
    <3>2. t \in Pending(r)
      BY <1>0, <2>1, <3>1 DEF Pending
    <3>3. QED BY <1>0, <3>1, <3>2 DEF WaitsUpward
  <2>5. QED BY <2>2, <2>3, <2>4
<1>9. QED
  BY <1>2, <1>3, <1>4, <1>5, <1>6, <1>7, <1>8 DEF Next, Transition

\* The audit and the calls: what a committed transition may change.
LEMMA AuditStep ==
  IInv /\ [Next]_vars =>
    (CallIsClear /\ StateFollowsAudit /\ AuditIsStrictlyOrdered)'
<1> DEFINE Audit == CallIsClear /\ StateFollowsAudit /\ AuditIsStrictlyOrdered
<1> SUFFICES ASSUME IInv, [Next]_vars PROVE Audit'
  OBVIOUS
<1> USE KillSwitchAssumption
<1>0. /\ TypeOK /\ RequestIsReal /\ GuardHoldsAllOrNone /\ Audit
      /\ Operators \subseteq Processes /\ Submitters \subseteq Processes
  BY DEF IInv, Processes
<1>1. ASSUME UNCHANGED <<row, events>>,
             \A q \in Submitters : pc'[q] = "calling" =>
               \/ pc[q] = "calling" /\ \A s \in Scopes : lock'[s] = q => lock[s] = q
               \/ CheckClear(q)
      PROVE  Audit'
  <2>1. CallIsClear'
    <3> SUFFICES ASSUME NEW q \in Submitters, pc'[q] = "calling", Guarded(q)',
                        NEW s \in ScopesOf[q]
                 PROVE  ~row'[s].active
      BY DEF CallIsClear
    <3>1. CASE CheckClear(q)
      BY <1>1, <3>1 DEF CheckClear
    <3>2. CASE pc[q] = "calling" /\ \A t \in Scopes : lock'[t] = q => lock[t] = q
      <4>1. Guarded(q)
        BY <3>2 DEF Guarded
      <4>2. QED BY <1>0, <1>1, <3>2, <4>1 DEF CallIsClear
    <3>3. QED BY <1>1, <3>1, <3>2
  <2>2. QED
    BY <1>0, <1>1, <2>1 DEF StateFollowsAudit, AuditIsStrictlyOrdered
<1>2. ASSUME NEW o \in Operators, Persist(o), ~UNCHANGED <<row, events>>
      PROVE  Audit'
  <2> DEFINE e == request[o]
             new == [active |-> e.action = "activate", at |-> e.at]
  <2>1. /\ e \in Events /\ e.scope \in Scopes /\ e.at \in Nat
        /\ lock[e.scope] = o
        /\ e.at > row[e.scope].at
        /\ events' = events \cup {e}
        /\ row' = [row EXCEPT ![e.scope] = new]
        /\ pc' = [pc EXCEPT ![o] = "idle"]
    BY <1>0, <1>2 DEF Persist, RequestIsReal, Events, Times
  <2>2. \A s \in Scopes : row'[s] = IF s = e.scope THEN new ELSE row[s]
    BY <1>0, <2>1 DEF TypeOK
  <2>3. \A f \in events : f \in Events /\ f.at \in Nat
    BY <1>0 DEF TypeOK, Events, Times
  <2>4. \A f \in events : f.scope = e.scope => f.at < e.at
    <3> SUFFICES ASSUME NEW f \in events, f.scope = e.scope PROVE f.at < e.at
      OBVIOUS
    <3>1. PICK g \in events :
            /\ row[e.scope].at = g.at
            /\ \A h \in events : h.scope = e.scope => h.at <= g.at
      BY <1>0, <2>1 DEF StateFollowsAudit
    <3>2. row[e.scope].at = g.at
      BY <3>1
    <3>3. f.at <= g.at
      BY <3>1
    <3>4. e.at > g.at /\ e.at \in Nat /\ f.at \in Nat /\ g.at \in Nat
      BY <2>1, <2>3, <3>2
    <3>5. QED BY <3>3, <3>4
  <2>5. CallIsClear'
    <3> SUFFICES ASSUME NEW q \in Submitters, pc'[q] = "calling", Guarded(q)',
                        NEW s \in ScopesOf[q]
                 PROVE  ~row'[s].active
      BY DEF CallIsClear
    <3>1. pc[q] = "calling" /\ q # o /\ q # Free /\ s \in Scopes
      BY <1>0, <2>1 DEF TypeOK, Processes
    <3>2. \A t \in Scopes : lock'[t] = q => lock[t] = q
      BY <1>2, <3>1 DEF Persist, Released
    <3>3. Guarded(q)
      BY <3>2 DEF Guarded
    <3>4. s # e.scope
      BY <2>1, <3>1, <3>3 DEF Guarded
    <3>5. ~row[s].active
      BY <1>0, <3>1, <3>3 DEF CallIsClear
    <3>6. QED BY <2>2, <3>1, <3>4, <3>5
  <2>6. StateFollowsAudit'
    <3> SUFFICES ASSUME NEW s \in Scopes
                 PROVE  \/ /\ ~row'[s].active
                           /\ \A g \in events' : g.scope # s
                        \/ \E g \in events' :
                             /\ g.scope = s
                             /\ row'[s].at = g.at
                             /\ row'[s].active <=> g.action = "activate"
                             /\ \A f \in events' : f.scope = s => f.at <= g.at
      BY DEF StateFollowsAudit
    <3>1. CASE s = e.scope
      <4>1. row'[s] = new /\ e \in events'
        BY <2>1, <2>2, <3>1
      <4>2. \A f \in events' : f.scope = s => f.at <= e.at
        BY <2>1, <2>3, <2>4, <3>1
      <4>3. new.at = e.at /\ (new.active <=> e.action = "activate")
        OBVIOUS
      <4>4. row'[s].at = e.at /\ (row'[s].active <=> e.action = "activate")
        BY <4>1, <4>3
      <4>5. QED BY <3>1, <4>1, <4>2, <4>4
    <3>2. CASE s # e.scope
      <4>1. row'[s] = row[s] /\ \A g \in events' : g.scope = s => g \in events
        BY <2>1, <2>2, <3>2
      <4>2. QED BY <1>0, <2>1, <4>1 DEF StateFollowsAudit
    <3>3. QED BY <3>1, <3>2
  <2>7. AuditIsStrictlyOrdered'
    <3> SUFFICES ASSUME NEW f \in events', NEW g \in events',
                        f.scope = g.scope, f.at = g.at
                 PROVE  f = g
      BY DEF AuditIsStrictlyOrdered
    <3>1. CASE f \in events /\ g \in events
      BY <1>0, <3>1 DEF AuditIsStrictlyOrdered
    <3>2. CASE f = e /\ g \in events
      BY <2>1, <2>3, <2>4, <3>2
    <3>3. CASE g = e /\ f \in events
      BY <2>1, <2>3, <2>4, <3>3
    <3>4. QED BY <2>1, <3>1, <3>2, <3>3
  <2>8. QED BY <2>5, <2>6, <2>7
<1>3. ASSUME NEW o \in Operators, Transition(o), UNCHANGED <<row, events>>
      PROVE  Audit'
  <2>1. \A q \in Submitters : pc'[q] = pc[q] /\ q # o /\ q # Free
    BY <1>0, <1>3 DEF Transition, Read, LockScope, Persist, TypeOK, Processes
  <2>2. \A q \in Submitters : \A s \in Scopes : lock'[s] = q => lock[s] = q
    BY <1>0, <1>3, <2>1
    DEF Transition, Read, LockScope, Persist, Released, TypeOK
  <2>3. QED BY <1>1, <1>3, <2>1, <2>2
<1>4. ASSUME NEW q \in Submitters, Guard(q) PROVE Audit'
  <2>1. /\ UNCHANGED <<row, events>>
        /\ \A r \in Submitters : r # q => pc'[r] = pc[r]
    BY <1>0, <1>4
    DEF Guard, StartGuard, LockNext, CheckClear, CheckBlocked, EndCall, TypeOK
  <2>2. \A r \in Submitters : r # q =>
          \A s \in Scopes : lock'[s] = r => lock[s] = r
    BY <1>0, <1>4
    DEF Guard, StartGuard, LockNext, CheckClear, CheckBlocked, EndCall, Released,
        TypeOK, Processes
  <2>3. pc'[q] = "calling" => CheckClear(q)
    BY <1>0, <1>4
    DEF Guard, StartGuard, LockNext, CheckBlocked, EndCall, TypeOK
  <2>4. QED BY <1>1, <2>1, <2>2, <2>3
<1>5. ASSUME NEW p \in Processes, Crash(p) PROVE Audit'
  <2>1. /\ UNCHANGED <<row, events>>
        /\ \A q \in Submitters : pc'[q] = "calling" => pc[q] = "calling"
        /\ \A q \in Submitters : \A s \in Scopes : lock'[s] = q => lock[s] = q
    BY <1>0, <1>5 DEF Crash, Released, TypeOK, Processes
  <2>2. QED BY <1>1, <2>1
<1>6. CASE UNCHANGED vars
  BY <1>1, <1>6 DEF vars
<1>7. ASSUME NEW q \in Submitters, SessionLost(q) PROVE Audit'
  <2>1. \A r \in Submitters : \A s \in Scopes : lock'[s] = r => lock[s] = r
    BY <1>7 DEF SessionLost, Released, Processes
  <2>2. QED BY <1>1, <1>7, <2>1 DEF SessionLost
<1>8. QED
  BY <1>2, <1>3, <1>4, <1>5, <1>6, <1>7 DEF Next, Transition, Read, LockScope

\* Every step keeps every part of the invariant.
LEMMA InvariantStep == IInv /\ [Next]_vars => IInv'
  BY TypeStep, LockStep, AuditStep DEF IInv

\* The inductive invariant holds of every reachable state.
THEOREM Invariant == Spec => []IInv
  BY InitInvariant, InvariantStep, PTL DEF Spec

\* No matching scope is active while an order is at the broker under a guard
\* whose session lives, whatever sessions and processes die around it.
THEOREM CallsAreClear == Spec => []CallIsClear
  BY Invariant, PTL DEF IInv

\* Sorting the scope keys rules out every circle of waiting guards.
THEOREM NoCircularWait == Spec => []WaitsUpward
  BY Invariant, PTL DEF IInv

\* The state is the newest event and the audit of a scope is strictly ordered.
THEOREM AuditExplainsState ==
  Spec => [](StateFollowsAudit /\ AuditIsStrictlyOrdered)
  BY Invariant, PTL DEF IInv

=============================================================================
