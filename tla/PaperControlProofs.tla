------------------------- MODULE PaperControlProofs -------------------------
(***************************************************************************)
(* Commands start and stop the PAPER worker one at a time and a stopped    *)
(* worker stays quiet, for any number of worker processes, worker ids,     *)
(* commands and API threads, through takeovers, lease expiries, failures,  *)
(* crashes and commits that are out of order.                              *)
(*                                                                         *)
(* The argument rests on two facts about a consumer that was fenced.  It   *)
(* may still record a transition and even acquire the workload lease, but  *)
(* its acknowledge or fail raises, so it never gets back to its loop: its  *)
(* lease is doomed.  And a STOP records "stopped" after it has released    *)
(* the one lease that was not doomed, in the cycle of the worker's status  *)
(* in which it recorded "stop": every earlier STOP has had its "stopped".  *)
(* Neither needs the order of the queue: the worker's own status lets only *)
(* one START begin and only one STOP be outstanding at a time.             *)
(*                                                                         *)
(* The last part is about the soak run that drives the worker through the  *)
(* control API, for every duration, cadence, page and number of faults:    *)
(* the evaluator accepts the evidence it leaves, passes a run that was on  *)
(* time, and passes none that left the worker working.  The argument is    *)
(* that no sample follows an incident, so that every incident of a run     *)
(* bears the time of its last sample, that what the runner has seen only   *)
(* grows, and that a run without incident has all its samples.             *)
(***************************************************************************)
EXTENDS PaperControl, PaperSoak, FiniteSetTheorems, SequenceTheorems, TLAPS

-----------------------------------------------------------------------------
(* Paths, effects and generations *)

Done(c)    == command[c].status \in {"succeeded", "failed"}
Claimed(c) == command[c].status = "processing" \/ Done(c)

\* Points at which a process executes the command it has claimed last.
Executing == {"claimed", "acquire", "release", "acknowledge", "fail"} \cup Steps

\* Points at which a process may hold the lease of the START it executes.
Starting == {"started", "acknowledge", "fail"}

\* A process executes a command that was claimed, along the path of its
\* action, and has the effects that path has had so far on record.
OnItsPath(p) ==
  pc[p] \in Executing =>
    /\ claim[p] \in Commands /\ Claimed(claim[p])
    /\ pc[p] \in {"start", "acquire", "started"} => ActionOf[claim[p]] = "start"
    /\ pc[p] \in {"stop", "release", "stopped"} => ActionOf[claim[p]] = "stop"
    /\ pc[p] \in {"acquire", "started"} => <<claim[p], "start">> \in applied
    /\ pc[p] \in {"release", "stopped"} => <<claim[p], "stop">> \in applied
    /\ pc[p] = "acknowledge" =>
         <<claim[p], IF ActionOf[claim[p]] = "start" THEN "started" ELSE "stopped">>
           \in applied

\* Only a command that was claimed has effects.
EffectsAreClaimed ==
  \A c \in Commands, s \in Steps : <<c, s>> \in applied => Claimed(c)

\* A process holds the generation of a START that is done, or of the one it
\* is executing; a process that polls holds one.
HoldsAnswered(p) ==
  /\ held[p] # None =>
       /\ Running(p)
       /\ ActionOf[held[p]] = "start"
       /\ Done(held[p]) \/ (pc[p] \in Starting /\ held[p] = claim[p])
  /\ pc[p] \in {"renew", "cycle"} => held[p] # None

\* The state a transition was decided on is a past one, or the present one.
SeenIsPast(p) ==
  seen[p] # None =>
    /\ pc[p] \in Steps
    /\ seen[p] <= worker.revision
    /\ seen[p] = worker.revision => worker.status \in Allowed[pc[p]]

\* Of the processes with one worker id at most one is running.
IdsAreUnique ==
  \A p, q \in Processes : Running(p) /\ Running(q) /\ IdOf[p] = IdOf[q] => p = q

BInv ==
  /\ TypeOK
  /\ EffectsAreClaimed
  /\ SuccessIsEffective
  /\ IdsAreUnique
  /\ \A p \in Processes : OnItsPath(p) /\ HoldsAnswered(p) /\ SeenIsPast(p)

-----------------------------------------------------------------------------
(* The order of the queue, and a stopped worker *)

\* A command is claimed when those before it are finished, not visible yet, or
\* have become visible since.
QueueIsOrdered ==
  \A c, d \in Commands : c < d /\ Claimed(d) =>
    Done(c) \/ command[c].status \in {"absent", "inserted"} \/ c \in late

\* A process that holds the lease of a START it no longer owns.
Doomed(p) == pc[p] \in Starting /\ held[p] = claim[p] /\ ~Owns(p)

\* Nobody but doomed processes can renew the workload lease.
Quiet == \A p \in Processes : CanRenew(p) => Doomed(p)

\* A START in processing with its first transition on record.
Begun(c) == command[c].status = "processing" /\ <<c, "start">> \in applied

\* At most one START is in progress.
OneBegun == \A c, d \in Commands : Begun(c) /\ Begun(d) => c = d

\* A STOP that has recorded "stop" and not "stopped".
Outstanding(c) == <<c, "stop">> \in applied /\ <<c, "stopped">> \notin applied

\* At most one STOP is outstanding, and the worker's status shows it.
OneOutstanding ==
  /\ \A c \in Commands : Outstanding(c) => worker.status \in {"stopping", "halted"}
  /\ \A c, d \in Commands : Outstanding(c) /\ Outstanding(d) => c = d

\* While a START is in progress only its own lease can be renewed for good.
BegunHoldsLease ==
  \A c \in Commands : Begun(c) =>
    \A p \in Processes : CanRenew(p) => held[p] = c \/ Doomed(p)

\* A STOP that has released the lease, and a stopped worker, leave no lease
\* and no START in progress that could acquire one.
StopIsFinal ==
  (\/ worker.status = "stopped"
   \/ \E p \in Processes : pc[p] = "stopped" /\ Outstanding(claim[p]))
  => Quiet /\ \A c \in Commands : ~Begun(c)

QInv ==
  /\ OneBegun
  /\ OneOutstanding
  /\ BegunHoldsLease
  /\ StopIsFinal

-----------------------------------------------------------------------------
(* Lemmas about the tables of PaperWorkerControl and the helpers *)

\* The transitions, the statuses they set, and what _execute does after them.
LEMMA Tables ==
  /\ Steps = {"start", "started", "degrade", "stop", "stopped", "halt"}
  /\ \A s \in Steps : Target[s] \in Statuses
  /\ Target["start"] = "starting" /\ Target["started"] = "running"
  /\ Target["degrade"] = "degraded" /\ Target["stop"] = "stopping"
  /\ Target["stopped"] = "stopped" /\ Target["halt"] = "halted"
  /\ AfterStep["start"] = "acquire" /\ AfterStep["started"] = "acknowledge"
  /\ AfterStep["degrade"] = "fail" /\ AfterStep["stop"] = "release"
  /\ AfterStep["stopped"] = "acknowledge" /\ AfterStep["halt"] = "fail"
  /\ Allowed["start"] = {"stopped"} /\ Allowed["started"] = {"starting"}
  /\ Allowed["degrade"] = {"starting", "running"}
  /\ Allowed["stop"] = {"starting", "running", "degraded"}
  /\ Allowed["stopped"] = {"stopping"}
  /\ Allowed["halt"] = Statuses \ {"halted"}
  BY DEF Steps, Target, Statuses, AfterStep, Allowed

\* Moving one process leaves the others where they are.
LEMMA GotoMoves ==
  ASSUME TypeOK, NEW p \in Processes, NEW point \in Points, Goto(p, point)
  PROVE  /\ pc' \in [Processes -> Points]
         /\ pc'[p] = point
         /\ \A q \in Processes : q # p => pc'[q] = pc[q]
  BY DEF TypeOK, Goto

\* An exception ends the process, or leads to a step of _execute that reports.
LEMMA RaisesMoves ==
  ASSUME TypeOK, NEW p \in Processes, Raises(p)
  PROVE  /\ pc' \in [Processes -> Points]
         /\ \A q \in Processes : q # p =>
               pc'[q] = pc[q] /\ seen'[q] = seen[q] /\ held'[q] = held[q]
         /\ seen' \in [Processes -> Nat \cup {None}]
         /\ held' \in [Processes -> Commands \cup {None}]
         /\ UNCHANGED <<command, worker, applied, lease, claim, late>>
         /\ seen'[p] = None
         /\ \/ pc[p] = "acquire" /\ pc'[p] = "degrade" /\ held'[p] = held[p]
            \/ pc[p] = "release" /\ pc'[p] = "halt" /\ held'[p] = held[p]
            \/ pc[p] \in Steps \cup {"claimed"} /\ pc'[p] = "fail" /\ held'[p] = held[p]
            \/ pc'[p] = "dead" /\ held'[p] = None
<1> DEFINE next == OnError(pc[p])
<1>1. /\ next \in Points
      /\ \/ pc[p] = "acquire" /\ next = "degrade"
         \/ pc[p] = "release" /\ next = "halt"
         \/ pc[p] \in Steps \cup {"claimed"} /\ next = "fail"
         \/ next = "dead"
  BY Tables DEF OnError, Points
<1>2. /\ Goto(p, next)
      /\ seen' = [seen EXCEPT ![p] = None]
      /\ held' = IF next = "dead" THEN [held EXCEPT ![p] = None] ELSE held
      /\ UNCHANGED <<command, worker, applied, lease, claim, late>>
  BY DEF Raises
<1>3. pc'[p] = next /\ pc' \in [Processes -> Points]
      /\ \A q \in Processes : q # p => pc'[q] = pc[q]
  BY <1>1, <1>2, GotoMoves
<1>4. QED BY <1>1, <1>2, <1>3 DEF TypeOK

\* A process whose own variables do not change stays sound, when commands
\* only advance, transitions are only added and the revision only grows.
LEMMA OthersStaySound ==
  ASSUME TypeOK, TypeOK', NEW q \in Processes,
         OnItsPath(q), HoldsAnswered(q), SeenIsPast(q),
         pc'[q] = pc[q], claim'[q] = claim[q], seen'[q] = seen[q], held'[q] = held[q],
         \A c \in Commands : (Claimed(c) => Claimed(c)') /\ (Done(c) => Done(c)'),
         applied \subseteq applied',
         worker' = worker \/ worker'.revision > worker.revision
  PROVE  OnItsPath(q)' /\ HoldsAnswered(q)' /\ SeenIsPast(q)'
<1>1. OnItsPath(q)'
  BY DEF OnItsPath
<1>2. HoldsAnswered(q)'
  BY DEF HoldsAnswered, Running, TypeOK
<1>3. SeenIsPast(q)'
  <2>1. CASE seen[q] # None
    <3>1. seen[q] \in Nat /\ worker.revision \in Nat /\ worker'.revision \in Nat
      BY <2>1 DEF TypeOK
    <3>2. QED BY <2>1, <3>1 DEF SeenIsPast
  <2>2. CASE seen[q] = None
    BY <2>2 DEF SeenIsPast
  <2>3. QED BY <2>1, <2>2
<1>4. QED BY <1>1, <1>2, <1>3

\* The initial state: nothing is enqueued and no process runs.
LEMMA InitBase == Init => BInv
<1> SUFFICES ASSUME Init PROVE BInv
  OBVIOUS
<1> USE ControlAssumption, Tables DEF Init
<1>1. TypeOK
  BY DEF TypeOK, Statuses, Points
<1>2. EffectsAreClaimed /\ SuccessIsEffective /\ IdsAreUnique
  BY DEF EffectsAreClaimed, SuccessIsEffective, IdsAreUnique, Running
<1>3. \A p \in Processes : OnItsPath(p) /\ HoldsAnswered(p) /\ SeenIsPast(p)
  BY DEF OnItsPath, HoldsAnswered, SeenIsPast, Executing
<1>4. QED BY <1>1, <1>2, <1>3 DEF BInv

-----------------------------------------------------------------------------
(* Steps that keep the base invariant *)

\* Where a process stands changes, and neither queue nor status does.
LEMMA LocalStep ==
  ASSUME BInv, TypeOK', NEW p \in Processes,
         UNCHANGED <<command, worker, applied>>,
         \A q \in Processes : q # p =>
           /\ pc'[q] = pc[q] /\ claim'[q] = claim[q]
           /\ seen'[q] = seen[q] /\ held'[q] = held[q],
         Running(p) \/ \A q \in Processes : IdOf[q] = IdOf[p] => ~Running(q),
         OnItsPath(p)', HoldsAnswered(p)', SeenIsPast(p)'
  PROVE  BInv'
<1>1. \A c \in Commands : Done(c)' = Done(c) /\ Claimed(c)' = Claimed(c)
  BY DEF Done, Claimed
<1>2. EffectsAreClaimed' /\ SuccessIsEffective'
  BY <1>1 DEF BInv, EffectsAreClaimed, SuccessIsEffective
<1>3. IdsAreUnique'
  BY DEF BInv, IdsAreUnique, Running
<1>4. ASSUME NEW q \in Processes, q # p
      PROVE  OnItsPath(q)' /\ HoldsAnswered(q)' /\ SeenIsPast(q)'
  BY <1>1, <1>4, OthersStaySound DEF BInv
<1>5. QED BY <1>2, <1>3, <1>4 DEF BInv

\* An exception leaves nothing behind but the failure it is turned into.
LEMMA RaisesBase ==
  ASSUME BInv, NEW p \in Processes, Running(p), Raises(p)
  PROVE  BInv'
<1>0. TypeOK /\ OnItsPath(p) /\ HoldsAnswered(p)
  BY DEF BInv
<1>1. /\ pc' \in [Processes -> Points]
      /\ \A q \in Processes : q # p =>
            pc'[q] = pc[q] /\ seen'[q] = seen[q] /\ held'[q] = held[q]
      /\ seen' \in [Processes -> Nat \cup {None}]
      /\ held' \in [Processes -> Commands \cup {None}]
      /\ UNCHANGED <<command, worker, applied, lease, claim, late>>
      /\ seen'[p] = None
      /\ \/ pc[p] = "acquire" /\ pc'[p] = "degrade" /\ held'[p] = held[p]
         \/ pc[p] = "release" /\ pc'[p] = "halt" /\ held'[p] = held[p]
         \/ pc[p] \in Steps \cup {"claimed"} /\ pc'[p] = "fail" /\ held'[p] = held[p]
         \/ pc'[p] = "dead" /\ held'[p] = None
  BY <1>0, RaisesMoves
<1>2. TypeOK'
  BY <1>0, <1>1 DEF TypeOK
<1>3. SeenIsPast(p)'
  BY <1>1 DEF SeenIsPast
<1>4. OnItsPath(p)'
  <2>1. pc'[p] \in {"degrade", "halt", "fail", "dead"}
    BY <1>1
  <2>2. pc'[p] # "dead" => pc[p] \in Executing
    BY <1>1 DEF Executing
  <2>3. "dead" \notin Executing
    BY Tables DEF Executing
  <2>4. QED
    BY <1>0, <1>1, <2>1, <2>2, <2>3 DEF OnItsPath, Claimed, Done
<1>5. HoldsAnswered(p)'
  <2>1. CASE pc'[p] = "dead"
    BY <1>1, <2>1 DEF HoldsAnswered
  <2>2. CASE pc'[p] # "dead"
    BY <1>0, <1>1, <2>2, Tables DEF HoldsAnswered, Running, Starting, Done
  <2>3. QED BY <2>1, <2>2
<1>6. QED BY <1>1, <1>2, <1>3, <1>4, <1>5, LocalStep

\* A process turns to something else and nothing is written.
LEMMA TurnBase ==
  ASSUME BInv, NEW p \in Processes, NEW point \in Points \ {"dead"}, Goto(p, point),
         UNCHANGED <<command, worker, applied, lease, claim, seen, held, late>>,
         Running(p) \/ \A q \in Processes : IdOf[q] = IdOf[p] => ~Running(q),
         seen[p] = None,
         OnItsPath(p)',
         held[p] # None /\ pc[p] \in Starting => point \in Starting,
         point \in {"renew", "cycle"} => held[p] # None,
         point = "off" => held[p] = None
  PROVE  BInv'
<1>0. TypeOK /\ HoldsAnswered(p)
  BY DEF BInv
<1>1. /\ pc' \in [Processes -> Points] /\ pc'[p] = point
      /\ \A q \in Processes : q # p => pc'[q] = pc[q]
  BY <1>0, GotoMoves
<1>2. TypeOK'
  BY <1>0, <1>1 DEF TypeOK
<1>3. SeenIsPast(p)'
  BY DEF SeenIsPast
<1>4. HoldsAnswered(p)'
  BY <1>0, <1>1 DEF HoldsAnswered, Running, Done
<1>5. QED BY <1>1, <1>2, <1>3, <1>4, LocalStep

\* A step that only touches commands, which it only moves forward.
LEMMA CommandStep ==
  ASSUME BInv, TypeOK', UNCHANGED <<worker, applied, seen, held>>,
         \A c \in Commands : (Claimed(c) => Claimed(c)') /\ (Done(c) => Done(c)'),
         \A c \in Commands : command'[c].status = "succeeded" =>
            \/ command[c].status = "succeeded"
            \/ <<c, IF ActionOf[c] = "start" THEN "started" ELSE "stopped">> \in applied,
         \A q \in Processes : Running(q)' => Running(q),
         \A q \in Processes :
            \/ pc'[q] = pc[q] /\ claim'[q] = claim[q]
            \/ OnItsPath(q)' /\ HoldsAnswered(q)' /\ SeenIsPast(q)'
  PROVE  BInv'
<1>1. EffectsAreClaimed' /\ SuccessIsEffective'
  BY DEF BInv, EffectsAreClaimed, SuccessIsEffective
<1>2. IdsAreUnique'
  BY DEF BInv, IdsAreUnique
<1>3. ASSUME NEW q \in Processes
      PROVE  OnItsPath(q)' /\ HoldsAnswered(q)' /\ SeenIsPast(q)'
  BY OthersStaySound DEF BInv
<1>4. QED BY <1>1, <1>2, <1>3 DEF BInv

\* The API and the clock.
LEMMA QueueBase ==
  ASSUME BInv, NEW c \in Commands, Insert(c) \/ Commit(c) \/ CommandLeaseExpires(c)
  PROVE  BInv'
<1>0. TypeOK
  BY DEF BInv
<1>1. PICK new \in [status : {"absent", "inserted", "queued", "processing", "succeeded",
                             "failed"},
                   token : Processes \cup {None}, live : BOOLEAN] :
        /\ command' = [command EXCEPT ![c] = new]
        /\ \/ command[c].status \in {"absent", "inserted"} /\ new.status \in {"inserted", "queued"}
           \/ command[c].status = "processing" /\ new.status = "processing"
        /\ UNCHANGED <<worker, applied, lease, pc, claim, seen, held>>
        /\ late' \subseteq Commands
  <2>1. CASE Insert(c)
    <3>1. [command[c] EXCEPT !.status = "inserted"].status = "inserted"
      BY <1>0 DEF TypeOK
    <3>2. QED BY <1>0, <2>1, <3>1 DEF Insert, TypeOK
  <2>2. CASE Commit(c)
    <3>1. [command[c] EXCEPT !.status = "queued"].status = "queued"
      BY <1>0 DEF TypeOK
    <3>2. QED BY <1>0, <2>2, <3>1 DEF Commit, TypeOK
  <2>3. CASE CommandLeaseExpires(c)
    <3>1. [command[c] EXCEPT !.live = FALSE].status = command[c].status
      BY <1>0 DEF TypeOK
    <3>2. QED BY <1>0, <2>3, <3>1 DEF CommandLeaseExpires, Busy, TypeOK
  <2>4. QED BY <2>1, <2>2, <2>3
<1>2. /\ command'[c] = new /\ \A d \in Commands : d # c => command'[d] = command[d]
      /\ TypeOK'
  BY <1>0, <1>1 DEF TypeOK
<1>3. \A d \in Commands : (Claimed(d) => Claimed(d)') /\ (Done(d) => Done(d)')
  BY <1>1, <1>2 DEF Claimed, Done
<1>4. \A q \in Processes : Running(q)' => Running(q)
  BY <1>1 DEF Running
<1>5. \A d \in Commands : command'[d].status = "succeeded" => command[d].status = "succeeded"
  BY <1>1, <1>2
<1>6. QED BY <1>1, <1>2, <1>3, <1>4, <1>5, CommandStep

\* A consumer claims the oldest command, new or left behind.
LEMMA ClaimBase ==
  ASSUME BInv, NEW p \in Processes, Claim(p)
  PROVE  BInv'
<1>0. TypeOK /\ HoldsAnswered(p) /\ SeenIsPast(p)
  BY DEF BInv
<1>1. PICK c \in Commands :
        /\ Oldest(c)
        /\ command' = [command EXCEPT ![c] =
             [status |-> "processing", token |-> p, live |-> TRUE]]
        /\ claim' = [claim EXCEPT ![p] = c]
  BY DEF Claim
<1>2. /\ pc[p] = "loop" /\ Goto(p, "claimed")
      /\ UNCHANGED <<worker, applied, lease, seen, held, late>>
  BY DEF Claim
<1>3. pc' \in [Processes -> Points] /\ pc'[p] = "claimed"
      /\ \A q \in Processes : q # p => pc'[q] = pc[q]
  BY <1>0, <1>2, GotoMoves DEF Points
<1>4. /\ command' \in [Commands ->
           [status : {"absent", "inserted", "queued", "processing", "succeeded", "failed"},
            token : Processes \cup {None}, live : BOOLEAN]]
      /\ command'[c].status = "processing"
      /\ \A d \in Commands : d # c => command'[d] = command[d]
      /\ command[c].status \in {"queued", "processing"}
  BY <1>0, <1>1 DEF TypeOK, Oldest
<1>5. claim' \in [Processes -> Commands \cup {None}] /\ claim'[p] = c
      /\ \A q \in Processes : q # p => claim'[q] = claim[q]
  BY <1>0, <1>1 DEF TypeOK
<1>6. TypeOK'
  BY <1>0, <1>2, <1>3, <1>4, <1>5 DEF TypeOK
<1>7. /\ \A d \in Commands : (Claimed(d) => Claimed(d)') /\ (Done(d) => Done(d)')
      /\ Claimed(c)'
  BY <1>4 DEF Claimed, Done
<1>8. \A q \in Processes : Running(q)' => Running(q)
  BY <1>2, <1>3 DEF Running
<1>9. OnItsPath(p)'
  BY <1>3, <1>5, <1>7 DEF OnItsPath
<1>10. HoldsAnswered(p)' /\ SeenIsPast(p)'
  <2>1. seen[p] = None
    BY <1>0, <1>2, Tables DEF SeenIsPast
  <2>2. held[p] # None => Done(held[p]) /\ ActionOf[held[p]] = "start" /\ held[p] \in Commands
    BY <1>0, <1>2 DEF HoldsAnswered, Starting, TypeOK
  <2>3. QED BY <1>2, <1>3, <1>7, <2>1, <2>2 DEF HoldsAnswered, SeenIsPast, Running
<1>11. QED
  BY <1>2, <1>3, <1>4, <1>5, <1>6, <1>7, <1>8, <1>9, <1>10, CommandStep

\* The end of a command that is still owned.
LEMMA FinishBase ==
  ASSUME BInv, NEW p \in Processes, Finish(p), Owns(p)
  PROVE  BInv'
<1> DEFINE c == claim[p]
           point == AfterRun(p)
<1>0. TypeOK /\ OnItsPath(p) /\ HoldsAnswered(p) /\ SeenIsPast(p)
  BY DEF BInv
<1>1. /\ pc[p] \in {"acknowledge", "fail"} /\ pc[p] \in Executing
      /\ command' = [command EXCEPT ![c].status =
           IF pc[p] = "acknowledge" THEN "succeeded" ELSE "failed"]
      /\ Goto(p, point)
      /\ UNCHANGED <<worker, applied, lease, claim, seen, held, late>>
  BY DEF Finish, Executing
<1>2. c \in Commands /\ command[c].status = "processing"
  BY <1>0, <1>1 DEF OnItsPath, Owns
<1>3. /\ point \in {"loop", "renew"} /\ point \in Points
      /\ point = "renew" => held[p] # None
  BY DEF AfterRun, Points
<1>4. pc' \in [Processes -> Points] /\ pc'[p] = point
      /\ \A q \in Processes : q # p => pc'[q] = pc[q]
  BY <1>0, <1>1, <1>3, GotoMoves
<1>5. /\ command' \in [Commands ->
           [status : {"absent", "inserted", "queued", "processing", "succeeded", "failed"},
            token : Processes \cup {None}, live : BOOLEAN]]
      /\ command'[c].status = IF pc[p] = "acknowledge" THEN "succeeded" ELSE "failed"
      /\ \A d \in Commands : d # c => command'[d] = command[d]
  BY <1>0, <1>1, <1>2 DEF TypeOK
<1>6. TypeOK'
  BY <1>0, <1>1, <1>4, <1>5 DEF TypeOK
<1>7. /\ \A d \in Commands : (Claimed(d) => Claimed(d)') /\ (Done(d) => Done(d)')
      /\ Done(c)'
  BY <1>1, <1>2, <1>5 DEF Claimed, Done
<1>8. \A q \in Processes : Running(q)' => Running(q)
  BY <1>1, <1>4 DEF Running
<1>9. \A d \in Commands : command'[d].status = "succeeded" =>
        \/ command[d].status = "succeeded"
        \/ <<d, IF ActionOf[d] = "start" THEN "started" ELSE "stopped">> \in applied
  BY <1>0, <1>1, <1>5 DEF OnItsPath
<1>10. OnItsPath(p)'
  BY <1>3, <1>4, Tables DEF OnItsPath, Executing
<1>11. HoldsAnswered(p)' /\ SeenIsPast(p)'
  <2>1. seen[p] = None
    BY <1>0, <1>1, Tables DEF SeenIsPast
  <2>2. held[p] # None => Done(held[p])' /\ ActionOf[held[p]] = "start"
    BY <1>0, <1>1, <1>2, <1>7 DEF HoldsAnswered, TypeOK, Done
  <2>3. QED BY <1>1, <1>3, <1>4, <2>1, <2>2 DEF HoldsAnswered, SeenIsPast, Running
<1>12. QED
  BY <1>1, <1>4, <1>6, <1>7, <1>8, <1>9, <1>10, <1>11, CommandStep

\* What persist writes when it records a transition.
LEMMA PersistWrites ==
  ASSUME BInv, NEW p \in Processes, PersistWorker(p),
         <<claim[p], pc[p]>> \notin applied, worker.revision = seen[p]
  PROVE  /\ pc[p] \in Steps /\ claim[p] \in Commands /\ Claimed(claim[p])
         /\ worker.status \in Allowed[pc[p]]
         /\ applied' = applied \cup {<<claim[p], pc[p]>>}
         /\ worker' = [status |-> Target[pc[p]], revision |-> worker.revision + 1]
         /\ seen' = [seen EXCEPT ![p] = None]
         /\ Goto(p, AfterStep[pc[p]])
         /\ UNCHANGED <<command, lease, claim, held, late>>
<1>1. pc[p] \in Steps /\ seen[p] # None
  BY DEF PersistWorker
<1>2. claim[p] \in Commands /\ Claimed(claim[p])
  BY <1>1 DEF BInv, OnItsPath, Executing
<1>3. worker.status \in Allowed[pc[p]]
  BY <1>1 DEF BInv, SeenIsPast
<1>4. QED BY <1>1, <1>2, <1>3 DEF PersistWorker

\* A transition is recorded on the state it was decided on.
LEMMA PersistBase ==
  ASSUME BInv, NEW p \in Processes, PersistWorker(p),
         <<claim[p], pc[p]>> \notin applied, worker.revision = seen[p]
  PROVE  BInv'
<1> DEFINE step == pc[p]
<1>0. TypeOK /\ OnItsPath(p) /\ HoldsAnswered(p)
  BY DEF BInv
<1>1. /\ step \in Steps /\ claim[p] \in Commands /\ Claimed(claim[p])
      /\ applied' = applied \cup {<<claim[p], step>>}
      /\ worker' = [status |-> Target[step], revision |-> worker.revision + 1]
      /\ seen' = [seen EXCEPT ![p] = None]
      /\ Goto(p, AfterStep[step])
      /\ UNCHANGED <<command, lease, claim, held, late>>
  BY PersistWrites
<1>2. AfterStep[step] \in Points
  BY <1>1, Tables DEF Points
<1>3. /\ pc' \in [Processes -> Points] /\ pc'[p] = AfterStep[step]
      /\ \A q \in Processes : q # p => pc'[q] = pc[q]
  BY <1>0, <1>1, <1>2, GotoMoves
<1>4. /\ seen' \in [Processes -> Nat \cup {None}] /\ seen'[p] = None
      /\ \A q \in Processes : q # p => seen'[q] = seen[q]
  BY <1>0, <1>1 DEF TypeOK
<1>5. worker' \in [status : Statuses, revision : Nat] /\ worker'.revision > worker.revision
  BY <1>0, <1>1, Tables DEF TypeOK
<1>6. TypeOK'
  BY <1>0, <1>1, <1>3, <1>4, <1>5 DEF TypeOK
<1>7. \A c \in Commands : Done(c)' = Done(c) /\ Claimed(c)' = Claimed(c)
  BY <1>1 DEF Done, Claimed
<1>8. EffectsAreClaimed' /\ SuccessIsEffective'
  BY <1>1, <1>7 DEF BInv, EffectsAreClaimed, SuccessIsEffective
<1>9. step \notin {"off", "dead"} /\ AfterStep[step] \notin {"off", "dead", "renew", "cycle"}
  BY <1>1, Tables
<1>10. IdsAreUnique'
  BY <1>3, <1>9 DEF BInv, IdsAreUnique, Running
<1>11. OnItsPath(p)'
  BY <1>0, <1>1, <1>3, <1>7, Tables DEF OnItsPath, Executing
<1>12. SeenIsPast(p)'
  BY <1>4 DEF SeenIsPast
<1>13. HoldsAnswered(p)'
  BY <1>0, <1>1, <1>3, <1>7, <1>9, Tables DEF HoldsAnswered, Running, Starting, TypeOK
<1>14. ASSUME NEW q \in Processes, q # p
       PROVE  OnItsPath(q)' /\ HoldsAnswered(q)' /\ SeenIsPast(q)'
  BY <1>0, <1>1, <1>3, <1>4, <1>5, <1>6, <1>7, <1>14, OthersStaySound DEF BInv
<1>15. QED
  BY <1>6, <1>8, <1>10, <1>11, <1>12, <1>13, <1>14 DEF BInv

\* A transition that is on record is replayed, before or after the read.
LEMMA ReplayBase ==
  ASSUME BInv, NEW p \in Processes, pc[p] \in Steps,
         <<claim[p], pc[p]>> \in applied,
         seen' = [seen EXCEPT ![p] = None],
         Goto(p, AfterStep[pc[p]]),
         UNCHANGED <<command, worker, applied, lease, claim, held, late>>
  PROVE  BInv'
<1>0. TypeOK /\ OnItsPath(p) /\ HoldsAnswered(p)
  BY DEF BInv
<1>1. AfterStep[pc[p]] \in Points
  BY Tables DEF Points
<1>2. /\ pc' \in [Processes -> Points] /\ pc'[p] = AfterStep[pc[p]]
      /\ \A q \in Processes : q # p => pc'[q] = pc[q]
  BY <1>0, <1>1, GotoMoves
<1>3. /\ seen' \in [Processes -> Nat \cup {None}] /\ seen'[p] = None
      /\ \A q \in Processes : q # p => seen'[q] = seen[q]
  BY <1>0 DEF TypeOK
<1>4. TypeOK'
  BY <1>0, <1>2, <1>3 DEF TypeOK
<1>5. OnItsPath(p)'
  BY <1>0, <1>2, Tables DEF OnItsPath, Executing, Claimed, Done
<1>6. SeenIsPast(p)'
  BY <1>3 DEF SeenIsPast
<1>7. HoldsAnswered(p)' /\ Running(p)
  BY <1>0, <1>2, Tables DEF HoldsAnswered, Running, Starting, Done
<1>8. QED BY <1>2, <1>3, <1>4, <1>5, <1>6, <1>7, LocalStep

\* The state a transition is decided on is read.
LEMMA ReadBase ==
  ASSUME BInv, NEW p \in Processes, pc[p] \in Steps,
         worker.status \in Allowed[pc[p]],
         seen' = [seen EXCEPT ![p] = worker.revision],
         UNCHANGED <<command, worker, applied, lease, pc, claim, held, late>>
  PROVE  BInv'
<1>0. TypeOK /\ OnItsPath(p) /\ HoldsAnswered(p)
  BY DEF BInv
<1>1. /\ seen' \in [Processes -> Nat \cup {None}] /\ seen'[p] = worker.revision
      /\ worker.revision \in Nat
      /\ \A q \in Processes : q # p => seen'[q] = seen[q]
  BY <1>0 DEF TypeOK
<1>2. TypeOK'
  BY <1>0, <1>1 DEF TypeOK
<1>3. OnItsPath(p)' /\ HoldsAnswered(p)'
  BY <1>0 DEF OnItsPath, HoldsAnswered, Claimed, Done, Running
<1>4. SeenIsPast(p)'
  BY <1>1 DEF SeenIsPast
<1>5. Running(p)
  BY Tables DEF Running
<1>6. QED BY <1>1, <1>2, <1>3, <1>4, <1>5, LocalStep

\* The workload lease is acquired for the START in hand, or released.
LEMMA LeaseBase ==
  ASSUME BInv, NEW p \in Processes,
         \/ Acquire(p) /\ held[p] = None /\ CanAcquire(p, claim[p])
         \/ Release(p) /\ CanRenew(p)
  PROVE  BInv'
<1>0. TypeOK /\ OnItsPath(p) /\ HoldsAnswered(p) /\ SeenIsPast(p)
  BY DEF BInv
<1>1. CASE Acquire(p) /\ held[p] = None /\ CanAcquire(p, claim[p])
  <2>1. /\ pc[p] = "acquire"
        /\ lease' = [generation |-> claim[p], owner |-> IdOf[p], live |-> TRUE]
        /\ held' = [held EXCEPT ![p] = claim[p]]
        /\ Goto(p, "started") /\ "started" \in Points
        /\ UNCHANGED <<command, worker, applied, claim, seen, late>>
    BY <1>1, Tables DEF Acquire, Points
  <2>2. /\ claim[p] \in Commands /\ Claimed(claim[p]) /\ ActionOf[claim[p]] = "start"
        /\ <<claim[p], "start">> \in applied
    BY <1>0, <2>1 DEF OnItsPath, Executing
  <2>3. /\ pc' \in [Processes -> Points] /\ pc'[p] = "started"
        /\ \A q \in Processes : q # p => pc'[q] = pc[q]
    BY <1>0, <2>1, GotoMoves
  <2>4. /\ held' \in [Processes -> Commands \cup {None}] /\ held'[p] = claim[p]
        /\ \A q \in Processes : q # p => held'[q] = held[q]
    BY <1>0, <2>1, <2>2 DEF TypeOK
  <2>5. TypeOK'
    BY <1>0, <2>1, <2>2, <2>3, <2>4, ControlAssumption DEF TypeOK
  <2>6. OnItsPath(p)' /\ SeenIsPast(p)'
    BY <1>0, <2>1, <2>2, <2>3, Tables DEF OnItsPath, SeenIsPast, Claimed, Done
  <2>7. HoldsAnswered(p)' /\ Running(p)
    BY <2>1, <2>2, <2>3, <2>4 DEF HoldsAnswered, Running, Starting
  <2>8. QED BY <2>1, <2>3, <2>4, <2>5, <2>6, <2>7, LocalStep
<1>2. CASE Release(p) /\ CanRenew(p)
  <2>1. /\ pc[p] = "release"
        /\ lease' = [generation |-> None, owner |-> None, live |-> FALSE]
        /\ held' = [held EXCEPT ![p] = None]
        /\ Goto(p, "stopped") /\ "stopped" \in Points
        /\ UNCHANGED <<command, worker, applied, claim, seen, late>>
    BY <1>2, Tables DEF Release, Points
  <2>2. /\ pc' \in [Processes -> Points] /\ pc'[p] = "stopped"
        /\ \A q \in Processes : q # p => pc'[q] = pc[q]
    BY <1>0, <2>1, GotoMoves
  <2>3. /\ held' \in [Processes -> Commands \cup {None}] /\ held'[p] = None
        /\ \A q \in Processes : q # p => held'[q] = held[q]
    BY <1>0, <2>1 DEF TypeOK
  <2>4. TypeOK'
    BY <1>0, <2>1, <2>2, <2>3 DEF TypeOK
  <2>5. OnItsPath(p)' /\ SeenIsPast(p)'
    BY <1>0, <2>1, <2>2, Tables DEF OnItsPath, Executing, SeenIsPast, Claimed, Done
  <2>6. HoldsAnswered(p)' /\ Running(p)
    BY <2>1, <2>2, <2>3 DEF HoldsAnswered, Running
  <2>7. QED BY <2>1, <2>2, <2>3, <2>4, <2>5, <2>6, LocalStep
<1>3. QED BY <1>1, <1>2

\* A process dies.
LEMMA CrashBase ==
  ASSUME BInv, NEW p \in Processes, Crash(p)
  PROVE  BInv'
<1>0. TypeOK
  BY DEF BInv
<1>1. /\ Goto(p, "dead") /\ "dead" \in Points /\ Running(p)
      /\ held' = [held EXCEPT ![p] = None] /\ seen' = [seen EXCEPT ![p] = None]
      /\ UNCHANGED <<command, worker, applied, lease, claim, late>>
  BY DEF Crash, Points
<1>2. /\ pc' \in [Processes -> Points] /\ pc'[p] = "dead"
      /\ \A q \in Processes : q # p => pc'[q] = pc[q]
  BY <1>0, <1>1, GotoMoves
<1>3. /\ held' \in [Processes -> Commands \cup {None}] /\ held'[p] = None
      /\ seen' \in [Processes -> Nat \cup {None}] /\ seen'[p] = None
      /\ \A q \in Processes : q # p => held'[q] = held[q] /\ seen'[q] = seen[q]
  BY <1>0, <1>1 DEF TypeOK
<1>4. TypeOK'
  BY <1>0, <1>1, <1>2, <1>3 DEF TypeOK
<1>5. OnItsPath(p)' /\ HoldsAnswered(p)' /\ SeenIsPast(p)'
  BY <1>2, <1>3, Tables DEF OnItsPath, Executing, HoldsAnswered, SeenIsPast
<1>6. QED BY <1>1, <1>2, <1>3, <1>4, <1>5, LocalStep

\* The workload lease expires, or nothing happens.
LEMMA IdleBase ==
  ASSUME BInv, TypeOK', UNCHANGED <<command, worker, applied, pc, claim, seen, held>>
  PROVE  BInv'
<1>1. \A c \in Commands : Done(c)' = Done(c) /\ Claimed(c)' = Claimed(c)
  BY DEF Done, Claimed
<1>2. \A q \in Processes : Running(q)' => Running(q)
  BY DEF Running
<1>3. /\ \A c \in Commands : command'[c] = command[c]
      /\ \A q \in Processes : pc'[q] = pc[q] /\ claim'[q] = claim[q]
  OBVIOUS
<1>4. QED BY <1>1, <1>2, <1>3, CommandStep

\* Every step keeps the base invariant.
LEMMA BaseStep == BInv /\ [Next]_vars => BInv'
<1> SUFFICES ASSUME BInv, [Next]_vars PROVE BInv'
  OBVIOUS
<1>0. TypeOK
  BY DEF BInv
<1>1. ASSUME NEW p \in Processes, Work(p), ~Raises(p) PROVE BInv'
  <2>0. OnItsPath(p) /\ HoldsAnswered(p) /\ SeenIsPast(p)
    BY DEF BInv
  <2>1. CASE ClaimNothing(p)
    <3>1. /\ pc[p] = "loop" /\ Goto(p, "renew") /\ held[p] # None
          /\ UNCHANGED <<command, worker, applied, lease, claim, seen, held, late>>
          /\ "renew" \in Points \ {"dead"}
      BY <2>1 DEF ClaimNothing, Points
    <3>2. pc'[p] = "renew"
      BY <1>0, <3>1, GotoMoves
    <3>3. OnItsPath(p)' /\ seen[p] = None /\ Running(p) /\ pc[p] \notin Starting
      BY <2>0, <3>1, <3>2, Tables
      DEF OnItsPath, Executing, SeenIsPast, Running, Starting
    <3>4. QED BY <3>1, <3>3, TurnBase
  <2>2. CASE Heartbeat(p)
    <3>1. /\ pc[p] = "claimed" /\ Goto(p, ActionOf[claim[p]])
          /\ UNCHANGED <<command, worker, applied, lease, claim, seen, held, late>>
      BY <1>1, <2>2 DEF Heartbeat
    <3>2. claim[p] \in Commands /\ Claimed(claim[p]) /\ seen[p] = None
      BY <2>0, <3>1, Tables DEF OnItsPath, Executing, SeenIsPast
    <3>3. ActionOf[claim[p]] \in {"start", "stop"} /\ {"start", "stop"} \subseteq Points
      BY <3>2, ControlAssumption, Tables DEF Points
    <3>4. pc'[p] = ActionOf[claim[p]]
      BY <1>0, <3>1, <3>3, GotoMoves
    <3>5. OnItsPath(p)'
      BY <3>1, <3>2, <3>3, <3>4 DEF OnItsPath, Claimed, Done
    <3>6. Running(p) /\ pc[p] \notin Starting
      BY <3>1 DEF Running, Starting
    <3>7. QED BY <3>1, <3>2, <3>3, <3>5, <3>6, TurnBase
  <2>3. CASE Renew(p) \/ RunCycle(p)
    <3>1. PICK point \in {"cycle", "renew", "loop"} : Goto(p, point)
      BY <1>1, <2>3 DEF Renew, RunCycle
    <3>2. /\ pc[p] \in {"renew", "cycle"}
          /\ UNCHANGED <<command, worker, applied, lease, claim, seen, held, late>>
      BY <1>1, <2>3 DEF Renew, RunCycle
    <3>3. point \in Points \ {"dead"} /\ pc'[p] = point
      BY <1>0, <3>1, GotoMoves DEF Points
    <3>4. OnItsPath(p)' /\ seen[p] = None /\ Running(p) /\ held[p] # None
          /\ pc[p] \notin Starting
      BY <2>0, <3>2, <3>3, Tables
      DEF OnItsPath, Executing, SeenIsPast, Running, HoldsAnswered, Starting
    <3>5. QED BY <3>1, <3>2, <3>3, <3>4, TurnBase
  <2>4. CASE ReadWorker(p)
    <3>1. CASE <<claim[p], pc[p]>> \in applied
      <4>1. /\ pc[p] \in Steps /\ seen[p] = None /\ Goto(p, AfterStep[pc[p]])
            /\ UNCHANGED <<command, worker, applied, lease, claim, seen, held, late>>
        BY <2>4, <3>1 DEF ReadWorker
      <4>2. seen' = [seen EXCEPT ![p] = None]
        BY <1>0, <4>1 DEF TypeOK
      <4>3. QED BY <3>1, <4>1, <4>2, ReplayBase
    <3>2. CASE <<claim[p], pc[p]>> \notin applied
      BY <1>1, <2>4, <3>2, ReadBase DEF ReadWorker
    <3>3. QED BY <3>1, <3>2
  <2>5. CASE PersistWorker(p)
    BY <1>1, <2>5, PersistBase, ReplayBase DEF PersistWorker
  <2>6. CASE Claim(p)
    BY <2>6, ClaimBase
  <2>7. CASE Finish(p)
    BY <1>1, <2>7, FinishBase DEF Finish
  <2>8. CASE Acquire(p) \/ Release(p)
    BY <1>1, <2>8, LeaseBase DEF Acquire, Release
  <2>9. QED BY <1>1, <2>1, <2>2, <2>3, <2>4, <2>5, <2>6, <2>7, <2>8 DEF Work
<1>2. ASSUME NEW p \in Processes, Work(p) \/ DatabaseFails(p), Raises(p) PROVE BInv'
  <2>1. Running(p)
    BY <1>2, Tables
    DEF Work, DatabaseFails, Running, Claim, ClaimNothing, Heartbeat, Finish, ReadWorker,
        PersistWorker, Acquire, Release, Renew, RunCycle
  <2>2. QED BY <1>2, <2>1, RaisesBase
<1>3. ASSUME NEW p \in Processes, Boot(p) PROVE BInv'
  <2>1. /\ pc[p] = "off" /\ Goto(p, "loop") /\ "loop" \in Points \ {"dead"}
        /\ \A q \in Processes : IdOf[q] = IdOf[p] => ~Running(q)
        /\ UNCHANGED <<command, worker, applied, lease, claim, seen, held, late>>
    BY <1>3 DEF Boot, Points
  <2>2. pc'[p] = "loop"
    BY <1>0, <2>1, GotoMoves
  <2>3. OnItsPath(p)' /\ seen[p] = None /\ pc[p] \notin Starting
    BY <2>1, <2>2, Tables DEF BInv, OnItsPath, Executing, SeenIsPast, Starting
  <2>4. QED BY <2>1, <2>3, TurnBase
<1>4. CASE WorkloadLeaseExpires \/ UNCHANGED vars
  <2>1. UNCHANGED <<command, worker, applied, pc, claim, seen, held>>
    BY <1>4 DEF WorkloadLeaseExpires, vars
  <2>2. TypeOK'
    BY <1>0, <1>4, <2>1 DEF WorkloadLeaseExpires, vars, TypeOK
  <2>3. QED BY <2>1, <2>2, IdleBase
<1>5. QED
  BY <1>1, <1>2, <1>3, <1>4, CrashBase, QueueBase DEF Next, DatabaseFails

\* The base invariant holds of every reachable state.
THEOREM BaseInvariant == Spec => []BInv
  BY InitBase, BaseStep, PTL DEF Spec

\* Only a recorded transition changes the worker or what is on record.
LEMMA WorkerMoves ==
  ASSUME BInv, [Next]_vars, ~UNCHANGED <<worker, applied>>
  PROVE  \E p \in Processes :
           PersistWorker(p) /\ <<claim[p], pc[p]>> \notin applied /\ worker.revision = seen[p]
  BY DEF Next, Work, Boot, DatabaseFails, Crash, Insert, Commit, CommandLeaseExpires,
     WorkloadLeaseExpires, Claim, ClaimNothing, Heartbeat, Finish, ReadWorker,
     PersistWorker, Acquire, Release, Renew, RunCycle, Raises, vars

-----------------------------------------------------------------------------
(* What the base invariant gives *)

\* Every state is well typed.
THEOREM TypeCorrect == Spec => []TypeOK
  BY BaseInvariant, PTL DEF BInv

\* A command that succeeded has had its effect.
THEOREM SuccessHasItsEffect == Spec => []SuccessIsEffective
  BY BaseInvariant, PTL DEF BInv

\* A process polls only a workload whose START has been answered.
THEOREM OnlyAnsweredStartsPoll == Spec => []PollsAreAnswered
<1>1. BInv => PollsAreAnswered
  <2> SUFFICES ASSUME BInv, NEW p \in Processes, pc[p] \in {"renew", "cycle"}
               PROVE  Done(held[p])
    BY DEF PollsAreAnswered, Done
  <2>1. HoldsAnswered(p) /\ pc[p] \notin Starting
    BY DEF BInv, Starting
  <2>2. QED BY <2>1 DEF HoldsAnswered
<1>2. QED BY <1>1, BaseInvariant, PTL

\* The worker's status moves only along the allowed transitions.
THEOREM StatusMovesOnlyLegally == Spec => StatusMovesLegally
<1>1. BInv /\ [Next]_vars =>
        [worker' # worker =>
           \E step \in Steps : /\ worker.status \in Allowed[step]
                               /\ worker'.status = Target[step]]_vars
  <2> SUFFICES ASSUME BInv, [Next]_vars, worker' # worker
               PROVE  \E step \in Steps : /\ worker.status \in Allowed[step]
                                          /\ worker'.status = Target[step]
    OBVIOUS
  <2>1. PICK p \in Processes :
          PersistWorker(p) /\ <<claim[p], pc[p]>> \notin applied /\ worker.revision = seen[p]
    BY WorkerMoves
  <2>2. /\ pc[p] \in Steps /\ worker.status \in Allowed[pc[p]]
        /\ worker' = [status |-> Target[pc[p]], revision |-> worker.revision + 1]
    BY <2>1, PersistWrites
  <2>3. QED BY <2>2
<1>2. QED BY <1>1, BaseInvariant, PTL DEF Spec, StatusMovesLegally

-----------------------------------------------------------------------------
(* What a step may do to the lease, the records and the queue *)

\* A lease that can be renewed could be renewed before, by the same process,
\* which stays doomed if it was; or it is the one just acquired.
LEMMA RenewersKept ==
  ASSUME BInv, BInv', [Next]_vars, NEW p \in Processes, CanRenew(p)'
  PROVE  \/ CanRenew(p) /\ held'[p] = held[p] /\ (Doomed(p) => Doomed(p)')
         \/ /\ pc[p] = "acquire" /\ pc'[p] = "started"
            /\ held'[p] = claim[p] /\ claim'[p] = claim[p]
            /\ UNCHANGED <<command, worker, applied>>
<1>0. TypeOK /\ TypeOK' /\ HoldsAnswered(p) /\ OnItsPath(p)
  BY DEF BInv
<1> DEFINE Kept == CanRenew(p) /\ held'[p] = held[p] /\ (Doomed(p) => Doomed(p)')
<1>1. ASSUME UNCHANGED <<lease, command>>, claim'[p] = claim[p], held'[p] = held[p],
             pc[p] \in Starting => pc'[p] \in Starting
      PROVE  Kept
  BY <1>1 DEF CanRenew, Doomed, Owns
<1>2. ASSUME NEW c \in Commands, Insert(c) \/ Commit(c) \/ CommandLeaseExpires(c)
      PROVE  Kept
  <2>1. /\ UNCHANGED <<lease, pc, claim, held>>
        /\ \A d \in Commands : d # c => command'[d] = command[d]
        /\ ~(command'[c].status = "processing" /\ command'[c].live)
    BY <1>0, <1>2 DEF Insert, Commit, CommandLeaseExpires, TypeOK
  <2>2. pc[p] \in Starting => claim[p] \in Commands
    BY <1>0 DEF OnItsPath, Starting, Executing, Steps, Target
  <2>3. QED BY <2>1, <2>2 DEF CanRenew, Doomed, Owns
<1>3. ASSUME NEW q \in Processes, Work(q) \/ DatabaseFails(q), Raises(q)
      PROVE  Kept
  <2>1. /\ q # p => pc'[p] = pc[p] /\ held'[p] = held[p]
        /\ UNCHANGED <<command, worker, applied, lease, claim>>
        /\ \/ pc[q] = "acquire" /\ pc'[q] = "degrade" /\ held'[q] = held[q]
           \/ pc[q] = "release" /\ pc'[q] = "halt" /\ held'[q] = held[q]
           \/ pc[q] \in Steps \cup {"claimed"} /\ pc'[q] = "fail" /\ held'[q] = held[q]
           \/ pc'[q] = "dead" /\ held'[q] = None
    BY <1>0, <1>3, RaisesMoves
  <2>2. held'[p] # None
    BY DEF CanRenew
  <2>3. QED BY <1>1, <2>1, <2>2 DEF Starting
<1>4. ASSUME NEW q \in Processes, Claim(q) PROVE Kept
  <2>1. PICK c \in Commands :
          /\ command' = [command EXCEPT ![c] =
               [status |-> "processing", token |-> q, live |-> TRUE]]
          /\ claim' = [claim EXCEPT ![q] = c]
    BY <1>4 DEF Claim
  <2>2. pc[q] = "loop" /\ Goto(q, "claimed") /\ UNCHANGED <<lease, held>>
    BY <1>4 DEF Claim
  <2>3. \A d \in Commands : command'[d] = command[d] \/ command'[d].token = q
    BY <1>0, <2>1 DEF TypeOK
  <2>4. p # q => pc'[p] = pc[p] /\ claim'[p] = claim[p]
    BY <1>0, <2>1, <2>2 DEF TypeOK, Goto
  <2>5. pc[p] \in Starting => claim[p] \in Commands /\ p # q
    BY <1>0, <2>2 DEF OnItsPath, Starting, Executing, Steps, Target
  <2>6. QED BY <2>2, <2>3, <2>4, <2>5 DEF CanRenew, Doomed, Owns
<1>5. ASSUME NEW q \in Processes, Finish(q), Owns(q), ~Raises(q) PROVE Kept
  <2>1. /\ pc[q] \in {"acknowledge", "fail"}
        /\ command' = [command EXCEPT ![claim[q]].status =
             IF pc[q] = "acknowledge" THEN "succeeded" ELSE "failed"]
        /\ Goto(q, AfterRun(q)) /\ UNCHANGED <<lease, claim, held>>
    BY <1>5 DEF Finish
  <2>2. claim[q] \in Commands
    BY <2>1 DEF BInv, OnItsPath, Executing
  <2>3. /\ \A d \in Commands : d # claim[q] => command'[d] = command[d]
        /\ command'[claim[q]].status # "processing"
    BY <1>0, <2>1, <2>2 DEF TypeOK
  <2>4. p # q => pc'[p] = pc[p]
    BY <1>0, <2>1 DEF TypeOK, Goto
  <2>5. pc[p] \in Starting => claim[p] \in Commands
    BY <1>0 DEF OnItsPath, Starting, Executing, Steps, Target
  <2>6. QED BY <1>5, <2>1, <2>3, <2>4, <2>5 DEF CanRenew, Doomed, Owns
<1>6. ASSUME NEW q \in Processes, ~Raises(q),
             \/ ReadWorker(q) \/ PersistWorker(q) \/ Heartbeat(q)
             \/ ClaimNothing(q) \/ Renew(q) \/ RunCycle(q) \/ Boot(q)
      PROVE  Kept
  <2>1. UNCHANGED <<lease, command, claim, held>>
    BY <1>6 DEF ReadWorker, PersistWorker, Heartbeat, ClaimNothing, Renew, RunCycle, Boot
  <2>2. p # q => pc'[p] = pc[p]
    BY <1>0, <1>6
    DEF TypeOK, Goto, ReadWorker, PersistWorker, Heartbeat, ClaimNothing, Renew, RunCycle,
        Boot
  <2>3. pc[q] \in Starting => pc[q] = "started" /\ pc'[q] \in {"started", "acknowledge"}
    BY <1>0, <1>6, Tables
    DEF TypeOK, Goto, ReadWorker, PersistWorker, Heartbeat, ClaimNothing, Renew, RunCycle,
        Boot, Starting
  <2>4. pc[p] \in Starting => pc'[p] \in Starting
    BY <2>2, <2>3 DEF Starting
  <2>5. QED BY <1>1, <2>1, <2>4
<1>7. ASSUME NEW q \in Processes, Crash(q) PROVE Kept
  <2>1. /\ UNCHANGED <<lease, command, claim>> /\ held'[q] = None
        /\ p # q => pc'[p] = pc[p] /\ held'[p] = held[p]
    BY <1>0, <1>7 DEF TypeOK, Crash, Goto
  <2>2. p # q
    BY <2>1 DEF CanRenew
  <2>3. QED BY <1>1, <2>1, <2>2
<1>8. ASSUME NEW q \in Processes, Acquire(q), ~Raises(q)
      PROVE  /\ pc[p] = "acquire" /\ pc'[p] = "started"
             /\ held'[p] = claim[p] /\ claim'[p] = claim[p]
             /\ UNCHANGED <<command, worker, applied>>
  <2>1. /\ pc[q] = "acquire" /\ Goto(q, "started")
        /\ lease' = [generation |-> claim[q], owner |-> IdOf[q], live |-> TRUE]
        /\ held' = [held EXCEPT ![q] = claim[q]]
        /\ UNCHANGED <<command, worker, applied, claim, seen>>
    BY <1>8 DEF Acquire
  <2>2. IdOf[p] = IdOf[q]
    BY <2>1 DEF CanRenew
  <2>3. Running(p)' /\ Running(q)'
    BY <1>0, <2>1 DEF CanRenew, BInv, HoldsAnswered, TypeOK, Goto, Running
  <2>4. p = q
    BY <2>2, <2>3 DEF BInv, IdsAreUnique
  <2>5. claim[q] \in Commands /\ pc'[q] = "started" /\ held'[q] = claim[q]
    BY <1>0, <2>1, <2>4 DEF OnItsPath, Executing, TypeOK, Goto
  <2>6. QED BY <2>1, <2>4, <2>5
<1>9. ASSUME NEW q \in Processes, Release(q), ~Raises(q) PROVE FALSE
  BY <1>9 DEF Release, CanRenew
<1>10. CASE WorkloadLeaseExpires
  BY <1>0, <1>10 DEF WorkloadLeaseExpires, CanRenew, TypeOK
<1>11. CASE UNCHANGED vars
  BY <1>1, <1>11 DEF vars
<1>12. ASSUME NEW q \in Processes,
              Work(q) \/ Boot(q) \/ DatabaseFails(q) \/ Crash(q), CanRenew(p)'
       PROVE  \/ Kept
              \/ /\ pc[p] = "acquire" /\ pc'[p] = "started"
                 /\ held'[p] = claim[p] /\ claim'[p] = claim[p]
                 /\ UNCHANGED <<command, worker, applied>>
  <2>1. CASE Raises(q) /\ (Work(q) \/ DatabaseFails(q))
    BY <1>3, <2>1
  <2>2. CASE ~Raises(q) /\ Work(q)
    <3>1. Finish(q) => Owns(q)
      BY <2>2 DEF Finish
    <3>2. QED BY <1>4, <1>5, <1>6, <1>8, <1>9, <2>2, <3>1 DEF Work
  <2>3. CASE Boot(q) \/ Crash(q)
    <3>1. Boot(q) => ~Raises(q)
      BY <1>0, Tables DEF Boot, Goto, Raises, OnError, TypeOK
    <3>2. QED BY <1>6, <1>7, <2>3, <3>1
  <2>4. QED BY <1>12, <2>1, <2>2, <2>3 DEF DatabaseFails
<1>13. QED BY <1>2, <1>10, <1>11, <1>12 DEF Next

\* Only the API, the clock, a claim and the end of a command touch the queue,
\* and none of them writes anything else that is on record.
LEMMA QueueMoves ==
  ASSUME BInv, [Next]_vars
  PROVE  \/ UNCHANGED command
         \/ /\ UNCHANGED <<worker, applied>>
            /\ \/ \E c \in Commands : Insert(c) \/ Commit(c) \/ CommandLeaseExpires(c)
               \/ \E p \in Processes : Claim(p)
               \/ \E p \in Processes : Finish(p) /\ Owns(p) /\ ~Raises(p)
  BY DEF Next, Work, Boot, DatabaseFails, Crash, Insert, Commit, CommandLeaseExpires,
     WorkloadLeaseExpires, Claim, ClaimNothing, Heartbeat, Finish, ReadWorker,
     PersistWorker, Acquire, Release, Renew, RunCycle, Raises, vars

\* Which rows of the queue a step writes, and how.
LEMMA QueueWrites ==
  ASSUME BInv, [Next]_vars, ~UNCHANGED command
  PROVE  \E c \in Commands :
           /\ \A d \in Commands : d # c => command'[d] = command[d]
           /\ \/ command[c].status = "absent" /\ command'[c].status = "inserted"
              \/ /\ command[c].status = "inserted" /\ command'[c].status = "queued"
                 /\ Overtaken(c) => c \in late'
              \/ Oldest(c) /\ command'[c].status = "processing"
              \/ command[c].status = "processing" /\ Done(c)'
              \/ command[c].status = "processing" /\ command'[c].status = "processing"
<1>0. TypeOK
  BY DEF BInv
<1>1. CASE \E c \in Commands : Insert(c) \/ Commit(c) \/ CommandLeaseExpires(c)
  BY <1>0, <1>1 DEF Insert, Commit, CommandLeaseExpires, Busy, TypeOK
<1>2. CASE \E p \in Processes : Claim(p)
  BY <1>0, <1>2 DEF Claim, TypeOK
<1>3. ASSUME NEW p \in Processes, Finish(p), Owns(p), ~Raises(p)
      PROVE  \E c \in Commands :
               /\ \A d \in Commands : d # c => command'[d] = command[d]
               /\ command[c].status = "processing" /\ Done(c)'
  <2>1. claim[p] \in Commands
    BY <1>3 DEF Finish, BInv, OnItsPath, Executing
  <2>2. QED BY <1>0, <1>3, <2>1 DEF Finish, Owns, Done, TypeOK
<1>4. QED BY <1>1, <1>2, <1>3, QueueMoves

\* Nothing is taken back from the commands that were late.
LEMMA LateGrows ==
  ASSUME [Next]_vars
  PROVE  late \subseteq late'
  BY DEF Next, Work, Boot, DatabaseFails, Crash, Insert, Commit, CommandLeaseExpires,
     WorkloadLeaseExpires, Claim, ClaimNothing, Heartbeat, Finish, ReadWorker,
     PersistWorker, Acquire, Release, Renew, RunCycle, Raises, vars

\* A START is begun, or is by now because its first transition was recorded
\* on a stopped worker, and then it is the only one.
LEMMA BegunKept ==
  ASSUME BInv, [Next]_vars, NEW c \in Commands, Begun(c)'
  PROVE  \/ Begun(c)
         \/ /\ worker.status = "stopped" /\ worker'.status = "starting"
            /\ \A d \in Commands : d # c => (Begun(d)' => Begun(d))
<1>1. CASE UNCHANGED command /\ UNCHANGED <<worker, applied>>
  BY <1>1 DEF Begun
<1>2. CASE UNCHANGED command /\ ~UNCHANGED <<worker, applied>>
  <2>1. PICK p \in Processes :
          PersistWorker(p) /\ <<claim[p], pc[p]>> \notin applied /\ worker.revision = seen[p]
    BY <1>2, WorkerMoves
  <2>2. /\ applied' = applied \cup {<<claim[p], pc[p]>>}
        /\ worker.status \in Allowed[pc[p]]
        /\ worker' = [status |-> Target[pc[p]], revision |-> worker.revision + 1]
    BY <2>1, PersistWrites
  <2>3. pc[p] = "start" \/ <<c, "start">> \in applied
    BY <2>2 DEF Begun
  <2>4. CASE Begun(c)
    BY <2>4
  <2>5. CASE ~Begun(c)
    <3>1. claim[p] = c /\ pc[p] = "start"
      BY <1>2, <2>2, <2>3, <2>5 DEF Begun
    <3>2. \A d \in Commands : d # c => (Begun(d)' => Begun(d))
      BY <1>2, <2>2, <3>1 DEF Begun
    <3>3. QED BY <2>2, <3>1, <3>2, Tables
  <2>6. QED BY <2>4, <2>5
<1>3. CASE ~UNCHANGED command
  <2>1. UNCHANGED <<worker, applied>>
    BY <1>3, QueueMoves
  <2>2. Claimed(c)
    BY <2>1, Tables DEF Begun, BInv, EffectsAreClaimed
  <2>3. ~Done(c)
    BY <1>3, QueueWrites DEF Begun, Done, Oldest
  <2>4. QED BY <2>1, <2>2, <2>3 DEF Begun, Claimed
<1>4. QED BY <1>1, <1>2, <1>3

\* A STOP is outstanding, or is by now because its first transition was
\* recorded on a worker that was up.
LEMMA OutstandingKept ==
  ASSUME BInv, [Next]_vars, NEW c \in Commands, Outstanding(c)'
  PROVE  \/ Outstanding(c)
         \/ /\ <<c, "stop">> \notin applied
            /\ \A d \in Commands : d # c => (Outstanding(d)' => Outstanding(d))
            /\ worker.status \in Allowed["stop"] /\ worker'.status = "stopping"
<1>1. CASE UNCHANGED <<worker, applied>>
  BY <1>1 DEF Outstanding
<1>2. CASE ~UNCHANGED <<worker, applied>>
  <2>1. PICK p \in Processes :
          PersistWorker(p) /\ <<claim[p], pc[p]>> \notin applied /\ worker.revision = seen[p]
    BY <1>2, WorkerMoves
  <2>2. /\ applied' = applied \cup {<<claim[p], pc[p]>>}
        /\ worker.status \in Allowed[pc[p]]
        /\ worker' = [status |-> Target[pc[p]], revision |-> worker.revision + 1]
    BY <2>1, PersistWrites
  <2>3. QED BY <2>2, Tables DEF Outstanding
<1>3. QED BY <1>1, <1>2

\* A process is about to record "stopped", or has just released the lease.
LEMMA StoppedKept ==
  ASSUME BInv, [Next]_vars, NEW q \in Processes, pc'[q] = "stopped"
  PROVE  \/ pc[q] = "stopped" /\ claim'[q] = claim[q]
         \/ Release(q) /\ CanRenew(q)
<1>0. TypeOK
  BY DEF BInv
<1>1. ASSUME NEW p \in Processes, Raises(p)
      PROVE  pc[q] = "stopped" /\ claim'[q] = claim[q]
  BY <1>0, <1>1, RaisesMoves
<1>2. ASSUME NEW p \in Processes, PersistWorker(p) \/ ReadWorker(p), ~Raises(p)
      PROVE  pc[q] = "stopped" /\ claim'[q] = claim[q]
  <2>1. /\ UNCHANGED claim /\ pc[p] \in Steps
        /\ UNCHANGED pc \/ Goto(p, AfterStep[pc[p]])
    BY <1>2 DEF PersistWorker, ReadWorker
  <2>2. AfterStep[pc[p]] \in Points \ {"stopped"}
    BY <2>1, Tables DEF Points
  <2>3. QED BY <1>0, <2>1, <2>2, GotoMoves
<1>3. ASSUME NEW p \in Processes, ~Raises(p), Heartbeat(p)
      PROVE  pc[q] = "stopped" /\ claim'[q] = claim[q]
  <2>1. claim[p] \in Commands
    BY <1>3 DEF Heartbeat, BInv, OnItsPath, Executing
  <2>2. ActionOf[claim[p]] # "stopped"
    BY <2>1, ControlAssumption
  <2>3. QED BY <1>0, <1>3, <2>2 DEF Heartbeat, Goto, TypeOK
<1>4. ASSUME NEW p \in Processes, ~Raises(p),
             Claim(p) \/ ClaimNothing(p) \/ Finish(p) \/ Acquire(p)
               \/ Renew(p) \/ RunCycle(p) \/ Boot(p) \/ Crash(p)
      PROVE  pc[q] = "stopped" /\ claim'[q] = claim[q]
  <2>1. CASE Claim(p)
    BY <1>0, <2>1 DEF Claim, Goto, TypeOK
  <2>2. CASE ~Claim(p)
    BY <1>0, <1>4, <2>2
    DEF Goto, TypeOK, ClaimNothing, Finish, AfterRun, Acquire, Renew, RunCycle, Boot, Crash
  <2>3. QED BY <2>1, <2>2
<1>5. ASSUME NEW p \in Processes, Release(p), ~Raises(p)
      PROVE  \/ pc[q] = "stopped" /\ claim'[q] = claim[q]
             \/ Release(q) /\ CanRenew(q)
  BY <1>0, <1>5 DEF Release, Goto, TypeOK
<1>6. CASE (\E c \in Commands : Insert(c) \/ Commit(c) \/ CommandLeaseExpires(c))
           \/ WorkloadLeaseExpires \/ UNCHANGED vars
  BY <1>6 DEF Insert, Commit, CommandLeaseExpires, WorkloadLeaseExpires, vars
<1>7. ASSUME NEW p \in Processes, Work(p) \/ Boot(p) \/ DatabaseFails(p) \/ Crash(p)
      PROVE  \/ pc[q] = "stopped" /\ claim'[q] = claim[q]
             \/ Release(q) /\ CanRenew(q)
  BY <1>1, <1>2, <1>3, <1>4, <1>5, <1>7 DEF Work, DatabaseFails
<1>8. QED BY <1>6, <1>7 DEF Next

-----------------------------------------------------------------------------
(* Steps that keep the order *)

\* The initial state: nothing is enqueued and nothing is on record.
LEMMA InitOrder == Init => QInv /\ QueueIsOrdered
  BY ControlAssumption
  DEF Init, QInv, QueueIsOrdered, OneBegun, OneOutstanding, BegunHoldsLease, StopIsFinal,
      Quiet, Claimed, Done, Outstanding, Begun, CanRenew

\* A claim takes the oldest visible command, and one that becomes visible after
\* a later one was claimed is late.
LEMMA QueueStaysOrdered ==
  ASSUME BInv, QueueIsOrdered, [Next]_vars
  PROVE  QueueIsOrdered'
<1> SUFFICES ASSUME NEW c \in Commands, NEW d \in Commands, c < d, Claimed(d)',
                    c \notin late'
             PROVE  Done(c)' \/ command'[c].status \in {"absent", "inserted"}
  BY DEF QueueIsOrdered
<1>0. /\ c \in Nat /\ d \in Nat /\ c # d /\ ~(d <= c)
      /\ c \notin late
      /\ command[c].status \in {"absent", "inserted", "queued", "processing", "succeeded",
                                "failed"}
  BY ControlAssumption, LateGrows DEF BInv, TypeOK
<1>1. Claimed(d) => Done(c) \/ command[c].status \in {"absent", "inserted"}
  BY <1>0 DEF QueueIsOrdered
<1>2. CASE UNCHANGED command
  BY <1>1, <1>2 DEF Claimed, Done
<1>3. CASE ~UNCHANGED command
  <2>1. PICK e \in Commands :
           /\ \A b \in Commands : b # e => command'[b] = command[b]
           /\ \/ command[e].status = "absent" /\ command'[e].status = "inserted"
              \/ /\ command[e].status = "inserted" /\ command'[e].status = "queued"
                 /\ Overtaken(e) => e \in late'
              \/ Oldest(e) /\ command'[e].status = "processing"
              \/ command[e].status = "processing" /\ Done(e)'
              \/ command[e].status = "processing" /\ command'[e].status = "processing"
    BY <1>3, QueueWrites
  <2>2. CASE e = c
    <3>1. Claimed(d) /\ Overtaken(c)
      BY <1>0, <2>1, <2>2 DEF Claimed, Done, Overtaken
    <3>2. Done(c) \/ command[c].status \in {"absent", "inserted"}
      BY <1>1, <3>1
    <3>3. QED BY <2>1, <2>2, <3>1, <3>2 DEF Oldest, Done
  <2>3. CASE e = d
    <3>1. command'[c] = command[c]
      BY <1>0, <2>1, <2>3
    <3>2. CASE Claimed(d)
      BY <1>1, <3>1, <3>2 DEF Done
    <3>3. CASE ~Claimed(d)
      <4>1. Oldest(d)
        BY <2>1, <2>3, <3>3 DEF Claimed, Done
      <4>2. command[c].status \notin {"queued", "processing"}
        BY <1>0, <4>1 DEF Oldest
      <4>3. QED BY <1>0, <3>1, <4>2 DEF Done
    <3>4. QED BY <3>2, <3>3
  <2>4. CASE e # c /\ e # d
    BY <1>1, <2>1, <2>4 DEF Claimed, Done
  <2>5. QED BY <2>2, <2>3, <2>4
<1>4. QED BY <1>2, <1>3

\* A START begins on a stopped worker, where none is in progress.
LEMMA OneStaysBegun ==
  ASSUME BInv, OneBegun, StopIsFinal, [Next]_vars
  PROVE  OneBegun'
<1> SUFFICES ASSUME NEW c \in Commands, NEW d \in Commands, Begun(c)', Begun(d)', c # d
             PROVE  FALSE
  BY DEF OneBegun
<1>1. CASE Begun(c) /\ Begun(d)
  BY <1>1 DEF OneBegun
<1>2. CASE worker.status = "stopped"
  <2>1. Begun(c) \/ Begun(d)
    BY BegunKept
  <2>2. QED BY <1>2, <2>1 DEF StopIsFinal
<1>3. QED BY <1>1, <1>2, BegunKept

\* A STOP records "stop" only when no other one is outstanding.
LEMMA OneStaysOutstanding ==
  ASSUME BInv, OneOutstanding, [Next]_vars
  PROVE  OneOutstanding'
<1>1. ASSUME NEW c \in Commands, Outstanding(c)'
      PROVE  worker'.status \in {"stopping", "halted"}
  <2>1. CASE Outstanding(c) /\ UNCHANGED <<worker, applied>>
    BY <2>1 DEF OneOutstanding
  <2>2. CASE Outstanding(c) /\ ~UNCHANGED <<worker, applied>>
    <3>1. PICK p \in Processes :
            PersistWorker(p) /\ <<claim[p], pc[p]>> \notin applied /\ worker.revision = seen[p]
      BY <2>2, WorkerMoves
    <3>2. /\ pc[p] \in Steps /\ claim[p] \in Commands
          /\ applied' = applied \cup {<<claim[p], pc[p]>>}
          /\ worker.status \in Allowed[pc[p]]
          /\ worker' = [status |-> Target[pc[p]], revision |-> worker.revision + 1]
      BY <3>1, PersistWrites
    <3>3. worker.status \in {"stopping", "halted"}
      BY <2>2 DEF OneOutstanding
    <3>4. pc[p] \in {"stopped", "halt"}
      BY <3>2, <3>3, Tables
    <3>5. pc[p] # "stopped"
      <4>1. SUFFICES ASSUME pc[p] = "stopped" PROVE FALSE
        OBVIOUS
      <4>2. Outstanding(claim[p])
        BY <3>1, <3>2, <4>1 DEF BInv, OnItsPath, Executing, Outstanding
      <4>3. claim[p] = c
        BY <2>2, <3>2, <4>2 DEF OneOutstanding
      <4>4. QED BY <1>1, <3>2, <4>1, <4>3 DEF Outstanding
    <3>6. QED BY <3>2, <3>4, <3>5, Tables
  <2>3. CASE ~Outstanding(c)
    BY <1>1, <2>3, OutstandingKept
  <2>4. QED BY <2>1, <2>2, <2>3
<1>2. ASSUME NEW c \in Commands, NEW d \in Commands, Outstanding(c)', Outstanding(d)', c # d
      PROVE  FALSE
  <2>1. CASE Outstanding(c) /\ Outstanding(d)
    BY <1>2, <2>1 DEF OneOutstanding
  <2>2. ASSUME NEW a \in Commands, NEW b \in Commands, a # b,
               Outstanding(a)', Outstanding(b)', ~Outstanding(a)
        PROVE  FALSE
    <3>1. Outstanding(b) /\ worker.status \in Allowed["stop"]
      BY <2>2, OutstandingKept
    <3>2. worker.status \in {"stopping", "halted"}
      BY <3>1 DEF OneOutstanding
    <3>3. QED BY <3>1, <3>2, Tables
  <2>3. QED BY <1>2, <2>1, <2>2
<1>3. QED BY <1>1, <1>2 DEF OneOutstanding

\* A START that has begun acquires the lease for itself; what another one
\* acquires meanwhile is doomed, because two are never in progress.
LEMMA BegunKeepsLease ==
  ASSUME BInv, BInv', QInv, [Next]_vars
  PROVE  BegunHoldsLease'
<1> SUFFICES ASSUME NEW c \in Commands, Begun(c)', NEW p \in Processes, CanRenew(p)'
             PROVE  held'[p] = c \/ Doomed(p)'
  BY DEF BegunHoldsLease
<1>1. CASE CanRenew(p) /\ held'[p] = held[p] /\ (Doomed(p) => Doomed(p)')
  <2>1. CASE Begun(c)
    BY <1>1, <2>1 DEF QInv, BegunHoldsLease
  <2>2. CASE worker.status = "stopped"
    BY <1>1, <2>2 DEF QInv, StopIsFinal, Quiet
  <2>3. QED BY <2>1, <2>2, BegunKept
<1>2. CASE /\ pc[p] = "acquire" /\ pc'[p] = "started"
           /\ held'[p] = claim[p] /\ claim'[p] = claim[p]
           /\ UNCHANGED <<command, worker, applied>>
  <2>1. Begun(c) /\ claim[p] \in Commands /\ <<claim[p], "start">> \in applied
    BY <1>2 DEF Begun, BInv, OnItsPath, Executing
  <2>2. Owns(p)' => claim[p] = c
    BY <1>2, <2>1 DEF Owns, Begun, QInv, OneBegun
  <2>3. QED BY <1>2, <2>2 DEF Doomed, Starting
<1>3. QED BY <1>1, <1>2, RenewersKept

\* A STOP that is about to record "stopped", and the stopped worker it
\* leaves, were final before or have become so by the release of the lease.
LEMMA FinalKept ==
  ASSUME BInv, [Next]_vars,
         \/ worker'.status = "stopped"
         \/ \E q \in Processes : pc'[q] = "stopped" /\ Outstanding(claim[q])'
                                 /\ claim'[q] = claim[q]
  PROVE  \/ worker.status = "stopped"
         \/ \E q \in Processes : pc[q] = "stopped" /\ Outstanding(claim[q])
         \/ \E q \in Processes : Release(q) /\ CanRenew(q)
<1>1. CASE worker'.status = "stopped" /\ UNCHANGED <<worker, applied>>
  BY <1>1
<1>2. CASE worker'.status = "stopped" /\ ~UNCHANGED <<worker, applied>>
  <2>1. PICK p \in Processes :
          PersistWorker(p) /\ <<claim[p], pc[p]>> \notin applied /\ worker.revision = seen[p]
    BY <1>2, WorkerMoves
  <2>2. /\ pc[p] \in Steps
        /\ worker' = [status |-> Target[pc[p]], revision |-> worker.revision + 1]
    BY <2>1, PersistWrites
  <2>3. pc[p] = "stopped"
    BY <1>2, <2>2, Tables
  <2>4. <<claim[p], "stop">> \in applied
    BY <2>3, Tables DEF BInv, OnItsPath, Executing
  <2>5. QED BY <2>1, <2>3, <2>4 DEF Outstanding
<1>3. ASSUME NEW q \in Processes, pc'[q] = "stopped", Outstanding(claim[q])',
             claim'[q] = claim[q], ~(Release(q) /\ CanRenew(q))
      PROVE  pc[q] = "stopped" /\ Outstanding(claim[q])
  <2>1. pc[q] = "stopped"
    BY <1>3, StoppedKept
  <2>2. claim[q] \in Commands /\ <<claim[q], "stop">> \in applied
    BY <2>1, Tables DEF BInv, OnItsPath, Executing
  <2>3. QED BY <1>3, <2>1, <2>2, OutstandingKept
<1>4. QED BY <1>1, <1>2, <1>3

\* A STOP stays final until the next START has begun.
LEMMA StopStaysFinal ==
  ASSUME BInv, BInv', QInv, [Next]_vars
  PROVE  StopIsFinal'
<1> DEFINE Final == \/ worker.status = "stopped"
                    \/ \E q \in Processes : pc[q] = "stopped" /\ Outstanding(claim[q])
<1> SUFFICES ASSUME Final' PROVE Quiet' /\ \A c \in Commands : ~Begun(c)'
  BY DEF StopIsFinal
<1>0. \A q \in Processes : pc'[q] = "stopped" => claim'[q] = claim[q] /\ claim[q] \in Commands
  <2> SUFFICES ASSUME NEW q \in Processes, pc'[q] = "stopped"
               PROVE  claim'[q] = claim[q] /\ claim[q] \in Commands
    OBVIOUS
  <2>1. claim'[q] = claim[q]
    BY StoppedKept DEF Release
  <2>2. claim'[q] \in Commands
    BY Tables DEF BInv, OnItsPath, Executing
  <2>3. QED BY <2>1, <2>2
<1>1. Final \/ \E q \in Processes : Release(q) /\ CanRenew(q)
  BY <1>0, FinalKept
<1>2. ASSUME NEW q \in Processes, Release(q), CanRenew(q)
      PROVE  Quiet' /\ \A c \in Commands : ~Begun(c)'
  <2>1. /\ pc[q] = "release" /\ UNCHANGED <<command, worker, applied>>
        /\ lease' = [generation |-> None, owner |-> None, live |-> FALSE]
    BY <1>2 DEF Release
  <2>2. Quiet'
    BY <2>1 DEF Quiet, CanRenew
  <2>3. ASSUME NEW c \in Commands, Begun(c) PROVE FALSE
    <3>1. held[q] = c /\ held[q] # None
      BY <1>2, <2>1, <2>3 DEF QInv, BegunHoldsLease, Doomed, Starting, Steps, Target, CanRenew
    <3>2. Done(c)
      BY <2>1, <3>1 DEF BInv, HoldsAnswered, Starting
    <3>3. QED BY <2>3, <3>2 DEF Begun, Done
  <2>4. \A c \in Commands : Begun(c)' => Begun(c)
    BY <2>1 DEF Begun
  <2>5. QED BY <2>2, <2>3, <2>4
<1>3. CASE Final
  <2>0. Quiet /\ \A c \in Commands : ~Begun(c)
    BY <1>3 DEF QInv, StopIsFinal
  <2>1. ASSUME NEW c \in Commands, Begun(c)' PROVE FALSE
    <3>1. worker.status = "stopped" /\ worker'.status = "starting"
      BY <2>0, <2>1, BegunKept
    <3>2. PICK q \in Processes : pc'[q] = "stopped" /\ Outstanding(claim[q])'
      BY <3>1
    <3>3. claim[q] \in Commands /\ claim'[q] = claim[q]
      BY <1>0, <3>2
    <3>4. Outstanding(claim[q])
      BY <3>1, <3>2, <3>3, OutstandingKept, Tables
    <3>5. QED BY <3>1, <3>3, <3>4 DEF QInv, OneOutstanding
  <2>2. ASSUME NEW p \in Processes, CanRenew(p)' PROVE Doomed(p)'
    <3>1. CASE CanRenew(p) /\ held'[p] = held[p] /\ (Doomed(p) => Doomed(p)')
      BY <2>0, <3>1 DEF Quiet
    <3>2. CASE /\ pc[p] = "acquire" /\ pc'[p] = "started"
               /\ held'[p] = claim[p] /\ claim'[p] = claim[p]
               /\ UNCHANGED <<command, worker, applied>>
      <4>1. claim[p] \in Commands /\ <<claim[p], "start">> \in applied
        BY <3>2 DEF BInv, OnItsPath, Executing
      <4>2. ~Owns(p)'
        BY <2>0, <3>2, <4>1 DEF Begun, Owns
      <4>3. QED BY <3>2, <4>2 DEF Doomed, Starting
    <3>3. QED BY <2>2, <3>1, <3>2, RenewersKept
  <2>3. QED BY <2>1, <2>2 DEF Quiet
<1>4. QED BY <1>1, <1>2, <1>3

\* One START in progress, one STOP outstanding, and no lease that could be
\* renewed under a stopped worker: in every reachable state.
THEOREM OrderInvariant == Spec => []QInv
<1>1. BInv /\ BInv' /\ QInv /\ [Next]_vars => QInv'
  BY OneStaysBegun, OneStaysOutstanding, BegunKeepsLease, StopStaysFinal DEF QInv
<1>2. QED BY <1>1, InitOrder, BaseInvariant, PTL DEF Spec

-----------------------------------------------------------------------------
(* What the order gives *)

\* Of two commands that are processed at once the earlier one was committed
\* after the later one had been claimed.
THEOREM CommandsRunOneAtATime == Spec => []OneCommandAtATime
<1>1. BInv /\ QueueIsOrdered /\ [Next]_vars => QueueIsOrdered'
  BY QueueStaysOrdered
<1>2. QueueIsOrdered => OneCommandAtATime
  BY DEF QueueIsOrdered, OneCommandAtATime, Claimed, Done
<1>3. QED BY <1>1, <1>2, InitOrder, BaseInvariant, PTL DEF Spec

\* A stopped worker is quiet: no process that is back in its loop passes the
\* fence, in whatever order commands became visible.
THEOREM StoppedWorkerIsQuiet == Spec => []StoppedIsQuiet
<1>1. QInv => StoppedIsQuiet
  BY Tables DEF QInv, StopIsFinal, Quiet, Doomed, Starting, StoppedIsQuiet
<1>2. QED BY <1>1, OrderInvariant, PTL

-----------------------------------------------------------------------------
(* The soak: evidence, the queue and where the runner stands *)

\* While it samples the runner has met no incident and takes samples to come.
Sampling == {"status", "orders", "fills", "events"}

\* When an incident of this evidence is dated.
Stamp(e) == IF e.samples = <<>> THEN e.started_at ELSE Last(e.samples).at

\* An evidence file of a run at any moment: samples ascend from the start,
\* cumulative counts never fall, nothing critical is ever counted, and no
\* sample follows an incident.
SoundEvidence(e) ==
  /\ e \in Evidence
  /\ Len(e.samples) <= SampleCount
  /\ \A i \in 1..Len(e.samples) :
       /\ e.samples[i].at >= e.started_at
       /\ e.samples[i].critical = 0
       /\ e.samples[i].audited = e.samples[i].orders
  /\ \A i \in 2..Len(e.samples) :
       /\ e.samples[i - 1].at < e.samples[i].at
       /\ e.samples[i - 1].orders <= e.samples[i].orders
       /\ e.samples[i - 1].unknown <= e.samples[i].unknown
  /\ \A i \in 1..Len(e.incidents) : e.incidents[i].at = Stamp(e)

\* What the runner counts on is not behind its last sample.
AheadOfSamples ==
  /\ runner.cursor <= Len(events)
  /\ evidence # Nothing /\ evidence.samples # <<>> =>
       /\ Last(evidence.samples).at <= now
       /\ Last(evidence.samples).orders <= Cardinality(runner.seen)
       /\ Last(evidence.samples).unknown <= Cardinality(runner.unknown)

\* The commands of a run id: a stop is sent only after a start was accepted,
\* and once it has succeeded nothing sets the worker to work again.
QueueIsSound ==
  /\ queue["stop"].status # "absent" => queue["start"].status # "absent"
  /\ queue["stop"].status \in {"succeeded", "failed"} =>
       queue["start"].status \in {"succeeded", "failed"}
  /\ queue["stop"].status = "succeeded" => ~plane.working

\* Where the runner stands and what its evidence and the file hold by then.
RunnerStands ==
  /\ runner.critical = 0
  /\ runner.pc \in {"idle", "killed"} <=> evidence = Nothing
  /\ runner.pc = "idle" => disk = Nothing
  /\ runner.pc \in {"start", "await start"} =>
       /\ disk = evidence /\ evidence.samples = <<>> /\ evidence.incidents = <<>>
       /\ evidence.started_at <= now
       /\ runner.index = 0
  /\ runner.pc \in {"await start", "stop", "await stop"} \cup Sampling =>
       queue["start"].status # "absent"
  /\ runner.pc \in Sampling =>
       /\ disk = evidence /\ evidence.incidents = <<>>
       /\ evidence.started_at = runner.base /\ runner.base <= now
       /\ Len(evidence.samples) = runner.index /\ runner.index < SampleCount
  /\ runner.pc \in {"stop", "await stop", "ended"} /\ evidence.incidents = <<>> =>
       /\ evidence.started_at = runner.base
       /\ Len(evidence.samples) = SampleCount
  /\ runner.pc = "ended" =>
       /\ disk = evidence
       /\ evidence.incidents = <<>> => queue["stop"].status = "succeeded"

SoakInvariant ==
  /\ SoakTypeOK
  /\ \A e \in {evidence, disk} : e # Nothing => SoundEvidence(e)
  /\ AheadOfSamples
  /\ QueueIsSound
  /\ RunnerStands

-----------------------------------------------------------------------------
(* The evidence of a soak *)

\* The number of samples of a run is a positive one.
LEMMA SamplesAreCounted == SampleCount \in Nat /\ SampleCount >= 2
<1>1. Duration \div Interval \in Nat /\ Duration \div Interval >= 1
  BY CadenceAssumption
<1>2. QED BY <1>1 DEF SampleCount

\* Evidence whose run begins is sound.
LEMMA NewEvidenceIsSound ==
  ASSUME NEW t \in Nat
  PROVE  SoundEvidence([started_at |-> t, duration |-> Duration, interval |-> Interval,
                        samples |-> <<>>, incidents |-> <<>>])
BY SamplesAreCounted DEF SoundEvidence, Evidence, Stamp

\* The clock of a run without samples and incidents may be set again.
LEMMA RestartedEvidenceIsSound ==
  ASSUME NEW e, SoundEvidence(e), e.samples = <<>>, e.incidents = <<>>, NEW t \in Nat
  PROVE  SoundEvidence([e EXCEPT !.started_at = t])
BY DEF SoundEvidence, Evidence, Stamp

\* An incident is dated like the ones before it.
LEMMA IncidentKeepsEvidenceSound ==
  ASSUME NEW e, SoundEvidence(e)
  PROVE  SoundEvidence([e EXCEPT !.incidents =
                          Append(e.incidents, [at |-> Stamp(e), severity |-> "critical"])])
<1> DEFINE i == [at |-> Stamp(e), severity |-> "critical"]
           f == [e EXCEPT !.incidents = Append(e.incidents, i)]
<1>1. e \in Evidence /\ e.samples \in Seq(Sample) /\ e.incidents \in Seq(Incident)
  BY DEF SoundEvidence, Evidence
<1>2. Stamp(e) \in Nat
  <2>1. CASE e.samples = <<>>
    BY <1>1, <2>1 DEF Stamp, Evidence
  <2>2. CASE e.samples # <<>>
    <3>1. e.samples[Len(e.samples)] \in Sample
      BY <1>1, <2>2
    <3>2. QED BY <2>2, <3>1 DEF Stamp, Last, Sample
  <2>3. QED BY <2>1, <2>2
<1>3. i \in Incident
  BY <1>2 DEF Incident
<1>4. f \in Evidence /\ f.samples = e.samples /\ f.started_at = e.started_at
      /\ f.incidents = Append(e.incidents, i)
  <2>1. Append(e.incidents, i) \in Seq(Incident)
    BY <1>1, <1>3
  <2> HIDE DEF i
  <2>2. QED BY <1>1, <2>1 DEF Evidence
<1>5. Stamp(f) = Stamp(e)
  BY <1>4 DEF Stamp
<1> HIDE DEF f
<1>6. \A k \in 1..Len(f.incidents) : f.incidents[k].at = Stamp(f)
  <2>1. \A k \in 1..Len(e.incidents) : e.incidents[k].at = Stamp(e)
    BY DEF SoundEvidence
  <2>2. i.at = Stamp(e)
    OBVIOUS
  <2> HIDE DEF i
  <2>3. QED BY <1>1, <1>3, <1>4, <1>5, <2>1, <2>2
<1>7. SoundEvidence(f)
  BY <1>4, <1>6 DEF SoundEvidence
<1>8. QED BY <1>7 DEF f

\* A sample that is later and counts no less extends evidence without
\* incidents.
LEMMA SampleKeepsEvidenceSound ==
  ASSUME NEW e, SoundEvidence(e), e.incidents = <<>>, Len(e.samples) < SampleCount,
         NEW s \in Sample, s.at >= e.started_at, s.critical = 0, s.audited = s.orders,
         e.samples # <<>> =>
           /\ Last(e.samples).at < s.at
           /\ Last(e.samples).orders <= s.orders
           /\ Last(e.samples).unknown <= s.unknown
  PROVE  SoundEvidence([e EXCEPT !.samples = Append(e.samples, s)])
<1> DEFINE f == [e EXCEPT !.samples = Append(e.samples, s)]
           n == Len(e.samples)
<1>1. e \in Evidence /\ e.samples \in Seq(Sample) /\ n \in Nat
  BY DEF SoundEvidence, Evidence
<1>2. f \in Evidence /\ f.samples = Append(e.samples, s) /\ f.started_at = e.started_at
      /\ f.incidents = <<>>
  <2>1. Append(e.samples, s) \in Seq(Sample)
    BY <1>1
  <2>2. QED BY <1>1, <2>1 DEF Evidence
<1> HIDE DEF f
<1>3. Len(f.samples) = n + 1 /\ f.samples[n + 1] = s
      /\ \A i \in 1..n : f.samples[i] = e.samples[i]
  BY <1>1, <1>2
<1>4. Len(f.samples) <= SampleCount
  BY <1>1, <1>3, SamplesAreCounted
<1>5. \A i \in 1..Len(f.samples) :
        /\ f.samples[i].at >= f.started_at
        /\ f.samples[i].critical = 0
        /\ f.samples[i].audited = f.samples[i].orders
  <2> SUFFICES ASSUME NEW i \in 1..Len(f.samples)
               PROVE  /\ f.samples[i].at >= f.started_at
                      /\ f.samples[i].critical = 0
                      /\ f.samples[i].audited = f.samples[i].orders
    OBVIOUS
  <2>1. CASE i \in 1..n
    BY <1>2, <1>3, <2>1 DEF SoundEvidence
  <2>2. CASE i = n + 1
    BY <1>2, <1>3, <2>2
  <2>3. QED BY <1>1, <1>3, <2>1, <2>2
<1>6. \A i \in 2..Len(f.samples) :
        /\ f.samples[i - 1].at < f.samples[i].at
        /\ f.samples[i - 1].orders <= f.samples[i].orders
        /\ f.samples[i - 1].unknown <= f.samples[i].unknown
  <2> SUFFICES ASSUME NEW i \in 2..Len(f.samples)
               PROVE  /\ f.samples[i - 1].at < f.samples[i].at
                      /\ f.samples[i - 1].orders <= f.samples[i].orders
                      /\ f.samples[i - 1].unknown <= f.samples[i].unknown
    OBVIOUS
  <2>1. CASE i \in 2..n
    <3>1. f.samples[i] = e.samples[i] /\ f.samples[i - 1] = e.samples[i - 1]
      BY <1>1, <1>3, <2>1
    <3>2. QED BY <2>1, <3>1 DEF SoundEvidence
  <2>2. CASE i = n + 1
    <3>1. e.samples # <<>> /\ f.samples[i] = s /\ f.samples[i - 1] = Last(e.samples)
      BY <1>1, <1>3, <2>2 DEF Last
    <3>2. QED BY <3>1
  <2>3. QED BY <1>1, <1>3, <2>1, <2>2
<1>7. SoundEvidence(f)
  BY <1>2, <1>4, <1>5, <1>6 DEF SoundEvidence
<1>8. QED BY <1>7 DEF f

-----------------------------------------------------------------------------
(* Requests, failures and the evidence they leave *)

\* An evidence, or a file, that is there is sound.
EvidencesAreSound == \A e \in {evidence, disk} : e # Nothing => SoundEvidence(e)

\* The clock and the orders count in natural numbers.
LEMMA SoakCounts == SoakTypeOK => {now, orders, CommandTimeout, MaxOrders} \subseteq Nat
BY BoundAssumption DEF SoakTypeOK

\* Sound evidence is evidence and not nothing.
LEMMA SoundIsThere == \A e : SoundEvidence(e) => e \in Evidence /\ e # Nothing
BY NothingAssumption DEF SoundEvidence

\* An accepted request leaves a command behind; no request changes one.
LEMMA RequestIsIdempotent ==
  ASSUME SoakTypeOK, NEW action \in {"start", "stop"}
  PROVE  /\ Enqueued(action) \in RunCommands
         /\ \A a \in {"start", "stop"} :
              \/ Enqueued(action)[a] = queue[a]
              \/ /\ a = action
                 /\ queue[a].status = "absent"
                 /\ Enqueued(action)[a].status = "queued"
         /\ Response(action) = 202 => Enqueued(action)[action].status # "absent"
<1>1. RequestHash(action) \in Hashes
  BY DEF SoakTypeOK, RequestHash, Hashes
<1>2. QED BY <1>1 DEF SoakTypeOK, RunCommands, Enqueued

\* A request keeps the order of the commands.
LEMMA RequestKeepsQueueSound ==
  ASSUME SoakTypeOK, QueueIsSound, NEW action \in {"start", "stop"},
         action = "stop" => queue["start"].status # "absent",
         queue' \in {queue, Enqueued(action)}, UNCHANGED plane
  PROVE  QueueIsSound'
BY RequestIsIdempotent DEF QueueIsSound, SoakTypeOK

\* What an incident adds leaves the evidence sound, and its samples as they
\* are.
LEMMA IncidentIsRecorded ==
  ASSUME evidence # Nothing, SoundEvidence(evidence),
         evidence' = [evidence EXCEPT !.incidents = RecordIncident]
  PROVE  /\ SoundEvidence(evidence') /\ evidence' \in Evidence /\ evidence' # Nothing
         /\ evidence'.samples = evidence.samples
         /\ evidence'.started_at = evidence.started_at
         /\ evidence'.incidents # <<>>
<1>1. RecordIncident =
        Append(evidence.incidents, [at |-> Stamp(evidence), severity |-> "critical"])
  BY DEF RecordIncident, Stamp
<1>2. SoundEvidence(evidence')
  BY <1>1, IncidentKeepsEvidenceSound
<1>3. evidence \in Evidence /\ evidence.incidents \in Seq(Incident)
  BY DEF SoundEvidence, Evidence
<1>4. evidence'.incidents = RecordIncident /\ evidence'.samples = evidence.samples
      /\ evidence'.started_at = evidence.started_at
  BY <1>3 DEF Evidence
<1>5. RecordIncident # <<>>
  BY <1>1, <1>3
<1>6. QED BY <1>2, <1>4, <1>5, SoundIsThere

-----------------------------------------------------------------------------
(* Every step of a soak keeps the invariant *)

\* The invariant holds at the beginning.
LEMMA SoakBegins == SoakInit => SoakInvariant
<1> SUFFICES ASSUME SoakInit PROVE SoakInvariant
  OBVIOUS
<1> USE DEF SoakInit
<1>1. SoakTypeOK
  <2>1. runner \in RunnerState
    BY DEF Fresh, SoakPoints, RunnerState
  <2>2. QED BY <2>1, BoundAssumption DEF SoakTypeOK, RunCommands, Hashes
<1>2. EvidencesAreSound
  BY DEF EvidencesAreSound
<1>3. AheadOfSamples /\ QueueIsSound
  BY DEF AheadOfSamples, QueueIsSound, Fresh
<1>4. RunnerStands
  BY DEF RunnerStands, Fresh, Sampling
<1>5. QED BY <1>1, <1>2, <1>3, <1>4 DEF SoakInvariant, EvidencesAreSound

\* A run begins with evidence of its own.
LEMMA BeginKeepsInvariant == SoakInvariant /\ Begin => SoakInvariant'
<1> SUFFICES ASSUME SoakInvariant, Begin PROVE SoakInvariant'
  OBVIOUS
<1>0. SoakTypeOK /\ now \in Nat /\ runner.pc = "idle"
  BY BoundAssumption DEF SoakInvariant, SoakTypeOK, Begin, At
<1>1. SoundEvidence(evidence') /\ evidence' \in Evidence /\ evidence' # Nothing
      /\ disk' = evidence' /\ evidence'.samples = <<>> /\ evidence'.incidents = <<>>
      /\ evidence'.started_at = now
  BY <1>0, NewEvidenceIsSound, SoundIsThere DEF Begin
<1>2. runner' = [Fresh EXCEPT !.pc = "start"]
  BY DEF Begin
<1>3. SoakTypeOK'
  <2>1. runner' \in RunnerState
    BY <1>2 DEF Fresh, SoakPoints, RunnerState
  <2>2. QED BY <1>0, <1>1, <2>1 DEF SoakTypeOK, Begin, trading
<1>4. EvidencesAreSound'
  BY <1>1 DEF EvidencesAreSound
<1>5. AheadOfSamples' /\ QueueIsSound'
  BY <1>0, <1>1, <1>2 DEF AheadOfSamples, QueueIsSound, Fresh, Begin, trading, SoakInvariant,
     SoakTypeOK
<1>6. RunnerStands'
  BY <1>0, <1>1, <1>2 DEF RunnerStands, Fresh, Sampling, Begin
<1>7. QED BY <1>3, <1>4, <1>5, <1>6 DEF SoakInvariant, EvidencesAreSound

\* A failure on the way is an incident of the evidence; what has been started
\* is stopped.
LEMMA FailureKeepsInvariant ==
  ASSUME SoakInvariant, SoakTypeOK', UNCHANGED <<now, events, plane>>, QueueIsSound',
         \A a \in {"start", "stop"} :
           queue'[a].status = "absent" => queue[a].status = "absent",
         NEW started \in BOOLEAN, Fails(started),
         runner.pc \in {"start", "await start"} \cup Sampling,
         started => runner.pc # "start"
  PROVE  SoakInvariant'
<1>1. runner.pc \notin {"idle", "killed", "stop", "await stop", "ended"}
  BY DEF Sampling
<1>2. evidence # Nothing /\ SoundEvidence(evidence)
  BY <1>1 DEF SoakInvariant, RunnerStands
<1>3. /\ SoundEvidence(evidence') /\ evidence' \in Evidence /\ evidence' # Nothing
      /\ evidence'.samples = evidence.samples
      /\ evidence'.started_at = evidence.started_at
      /\ evidence'.incidents # <<>>
  BY <1>2, IncidentIsRecorded DEF Fails
<1>4. disk = evidence
  BY <1>1 DEF SoakInvariant, RunnerStands
<1>5. EvidencesAreSound'
  BY <1>2, <1>3, <1>4 DEF EvidencesAreSound, Fails
<1>6. /\ runner' = [runner EXCEPT !.pc = IF started THEN "stop" ELSE "ended"]
      /\ ~started => disk' = evidence'
  BY DEF Fails
<1>7. AheadOfSamples'
  BY <1>2, <1>3, <1>6 DEF AheadOfSamples, SoakInvariant, SoakTypeOK, RunCommands, RunnerState
<1>8. RunnerStands'
  BY <1>1, <1>2, <1>3, <1>6 DEF RunnerStands, SoakInvariant, SoakTypeOK, RunCommands, RunnerState, Sampling
<1>9. QED BY <1>5, <1>7, <1>8 DEF SoakInvariant, EvidencesAreSound

\* A failure to stop is an incident with which the run ends.
LEMMA StopFailureKeepsInvariant ==
  ASSUME SoakInvariant, SoakTypeOK', UNCHANGED <<now, events, plane>>, QueueIsSound',
         StopFails, runner.pc \in {"stop", "await stop"}
  PROVE  SoakInvariant'
<1>2. evidence # Nothing /\ SoundEvidence(evidence)
  BY DEF SoakInvariant, RunnerStands
<1>3. /\ SoundEvidence(evidence') /\ evidence' \in Evidence /\ evidence' # Nothing
      /\ evidence'.samples = evidence.samples
      /\ evidence'.started_at = evidence.started_at
      /\ evidence'.incidents # <<>>
  BY <1>2, IncidentIsRecorded DEF StopFails
<1>5. EvidencesAreSound'
  BY <1>3 DEF EvidencesAreSound, StopFails
<1>6. runner' = [runner EXCEPT !.pc = "ended"] /\ disk' = evidence'
  BY DEF StopFails
<1>7. AheadOfSamples'
  BY <1>2, <1>3, <1>6 DEF AheadOfSamples, SoakInvariant, SoakTypeOK, RunCommands, RunnerState
<1>8. RunnerStands'
  BY <1>2, <1>3, <1>6 DEF RunnerStands, SoakInvariant, SoakTypeOK, RunCommands, RunnerState, Sampling
<1>9. QED BY <1>5, <1>7, <1>8 DEF SoakInvariant, EvidencesAreSound

\* The start is requested, or refused.
LEMMA PostStartKeepsInvariant == SoakInvariant /\ PostStart => SoakInvariant'
<1> SUFFICES ASSUME SoakInvariant, PostStart PROVE SoakInvariant'
  OBVIOUS
<1>0. /\ SoakTypeOK /\ now \in Nat /\ CommandTimeout \in Nat /\ runner.pc = "start"
      /\ queue' = Enqueued("start")
      /\ UNCHANGED <<now, budget, resolved, plane, orders, fills, events>>
  BY SoakCounts DEF SoakInvariant, PostStart, At, trading
<1>1. QueueIsSound'
  BY <1>0, RequestKeepsQueueSound DEF SoakInvariant
<1>2. CASE Response("start") = 202
  <2>1. /\ runner' = [runner EXCEPT !.pc = "await start", !.deadline = now + CommandTimeout,
                                    !.started = TRUE]
        /\ evidence' = evidence /\ disk' = disk
    BY <1>2 DEF PostStart, Await
  <2>2. queue'["start"].status # "absent"
    BY <1>0, <1>2, RequestIsIdempotent
  <2>3. SoakTypeOK'
    <3>1. queue' \in RunCommands
      BY <1>0, RequestIsIdempotent
    <3>2. now + CommandTimeout \in Nat
      BY <1>0
    <3>3. runner' \in RunnerState
      BY <1>0, <2>1, <3>2 DEF SoakTypeOK, RunnerState, SoakPoints
    <3>4. QED BY <1>0, <2>1, <3>1, <3>3 DEF SoakTypeOK
  <2>4. AheadOfSamples' /\ EvidencesAreSound'
    BY <1>0, <2>1 DEF SoakInvariant, AheadOfSamples, EvidencesAreSound, SoakTypeOK, RunCommands, RunnerState
  <2>5. RunnerStands'
    BY <1>0, <2>1, <2>2 DEF SoakInvariant, RunnerStands, SoakTypeOK, RunCommands, RunnerState, Sampling
  <2>6. QED BY <1>1, <2>3, <2>4, <2>5 DEF SoakInvariant, EvidencesAreSound
<1>3. CASE Response("start") # 202
  <2>1. Fails(FALSE)
    BY <1>3 DEF PostStart
  <2>2. SoakTypeOK'
    <3>1. evidence' \in Evidence /\ disk' = evidence'
          /\ runner' = [runner EXCEPT !.pc = "ended"]
      BY <1>0, <2>1, IncidentIsRecorded DEF Fails, SoakInvariant, RunnerStands
    <3>2. QED BY <1>0, <3>1, RequestIsIdempotent DEF SoakTypeOK, RunCommands, RunnerState, SoakPoints
  <2>3. QED BY <1>0, <1>1, <2>1, <2>2, RequestIsIdempotent, FailureKeepsInvariant
<1>4. QED BY <1>2, <1>3

\* The answer to the start request is lost.
LEMMA LostStartKeepsInvariant == SoakInvariant /\ StartIsLost => SoakInvariant'
<1> SUFFICES ASSUME SoakInvariant, StartIsLost PROVE SoakInvariant'
  OBVIOUS
<1>0. /\ SoakTypeOK /\ runner.pc = "start"
      /\ queue' \in {queue, Enqueued("start")}
      /\ UNCHANGED <<now, resolved, plane, orders, fills, events>>
      /\ Fails(FALSE)
  BY DEF SoakInvariant, StartIsLost, At, trading
<1>1. QueueIsSound'
  BY <1>0, RequestKeepsQueueSound DEF SoakInvariant
<1>2. SoakTypeOK'
  <2>1. evidence' \in Evidence /\ disk' = evidence'
        /\ runner' = [runner EXCEPT !.pc = "ended"]
    BY <1>0, IncidentIsRecorded DEF Fails, SoakInvariant, RunnerStands
  <2>2. QED BY <1>0, <2>1, RequestIsIdempotent DEF SoakTypeOK, RunCommands, RunnerState, SoakPoints
<1>3. QED BY <1>0, <1>1, <1>2, RequestIsIdempotent, FailureKeepsInvariant

\* The stop is requested.
LEMMA PostStopKeepsInvariant == SoakInvariant /\ PostStop => SoakInvariant'
<1> SUFFICES ASSUME SoakInvariant, PostStop PROVE SoakInvariant'
  OBVIOUS
<1>0. /\ SoakTypeOK /\ now \in Nat /\ CommandTimeout \in Nat /\ runner.pc = "stop"
      /\ queue' = Enqueued("stop")
      /\ UNCHANGED <<now, budget, resolved, plane, orders, fills, events, evidence, disk>>
      /\ runner' = [runner EXCEPT !.pc = "await stop", !.deadline = now + CommandTimeout,
                                  !.started = TRUE]
  BY SoakCounts DEF SoakInvariant, PostStop, At, trading, Await
<1>1. queue["start"].status # "absent"
  BY <1>0 DEF SoakInvariant, RunnerStands
<1>2. QueueIsSound'
  BY <1>0, <1>1, RequestKeepsQueueSound DEF SoakInvariant
<1>3. SoakTypeOK'
  <2>1. queue' \in RunCommands
    BY <1>0, RequestIsIdempotent
  <2>2. now + CommandTimeout \in Nat
    BY <1>0
  <2>3. runner' \in RunnerState
    BY <1>0, <2>2 DEF SoakTypeOK, RunnerState, SoakPoints
  <2>4. QED BY <1>0, <2>1, <2>3 DEF SoakTypeOK
<1>4. AheadOfSamples' /\ EvidencesAreSound'
  BY <1>0 DEF SoakInvariant, AheadOfSamples, EvidencesAreSound, SoakTypeOK, RunCommands, RunnerState
<1>5. RunnerStands'
  <2>1. queue'["start"].status # "absent"
    BY <1>0, <1>1, RequestIsIdempotent
  <2>2. QED BY <1>0, <2>1 DEF SoakInvariant, RunnerStands, SoakTypeOK, RunCommands, RunnerState, Sampling
<1>6. QED BY <1>2, <1>3, <1>4, <1>5 DEF SoakInvariant, EvidencesAreSound

\* The answer to the stop request is lost.
LEMMA LostStopKeepsInvariant == SoakInvariant /\ StopIsLost => SoakInvariant'
<1> SUFFICES ASSUME SoakInvariant, StopIsLost PROVE SoakInvariant'
  OBVIOUS
<1>0. /\ SoakTypeOK /\ runner.pc = "stop"
      /\ queue' \in {queue, Enqueued("stop")}
      /\ UNCHANGED <<now, resolved, plane, orders, fills, events>>
      /\ StopFails
  BY DEF SoakInvariant, StopIsLost, At, trading
<1>1. QueueIsSound'
  BY <1>0, RequestKeepsQueueSound DEF SoakInvariant, RunnerStands
<1>2. SoakTypeOK'
  <2>1. evidence' \in Evidence /\ disk' = evidence'
        /\ runner' = [runner EXCEPT !.pc = "ended"]
    BY <1>0, IncidentIsRecorded DEF StopFails, SoakInvariant, RunnerStands
  <2>2. QED BY <1>0, <2>1, RequestIsIdempotent DEF SoakTypeOK, RunCommands, RunnerState, SoakPoints
<1>3. QED BY <1>0, <1>1, <1>2, StopFailureKeepsInvariant

\* The start has succeeded: the clock of the evidence starts again.
LEMMA SucceededStartKeepsInvariant == SoakInvariant /\ StartSucceeded => SoakInvariant'
<1> SUFFICES ASSUME SoakInvariant, StartSucceeded PROVE SoakInvariant'
  OBVIOUS
<1>0. /\ SoakTypeOK /\ now \in Nat /\ runner.pc = "await start"
      /\ queue["start"].status = "succeeded"
      /\ UNCHANGED <<now, budget, resolved, queue, plane, orders, fills, events>>
      /\ runner' = [runner EXCEPT !.pc = "status", !.base = now]
      /\ evidence' = [evidence EXCEPT !.started_at = now] /\ disk' = evidence'
  BY SoakCounts DEF SoakInvariant, StartSucceeded, At, world
<1>1. evidence # Nothing /\ SoundEvidence(evidence) /\ evidence \in Evidence
      /\ evidence.samples = <<>> /\ evidence.incidents = <<>> /\ runner.index = 0
  BY <1>0, SoundIsThere DEF SoakInvariant, RunnerStands
<1>2. /\ SoundEvidence(evidence') /\ evidence' \in Evidence /\ evidence' # Nothing
      /\ evidence'.samples = <<>> /\ evidence'.incidents = <<>>
      /\ evidence'.started_at = now
  BY <1>0, <1>1, RestartedEvidenceIsSound, SoundIsThere DEF Evidence
<1>3. SoakTypeOK'
  BY <1>0, <1>2 DEF SoakTypeOK, RunCommands, RunnerState, SoakPoints
<1>4. AheadOfSamples' /\ EvidencesAreSound' /\ QueueIsSound'
  BY <1>0, <1>2 DEF SoakInvariant, AheadOfSamples, EvidencesAreSound, QueueIsSound, SoakTypeOK, RunCommands, RunnerState
<1>5. RunnerStands'
  <2>1. runner'.pc = "status" /\ runner'.index = 0 /\ runner'.base = now
        /\ runner'.critical = 0
    BY <1>0, <1>1 DEF SoakTypeOK, RunnerState, SoakInvariant, RunnerStands
  <2>2. Len(evidence'.samples) = 0
    BY <1>2
  <2>3. 0 < SampleCount
    BY SamplesAreCounted
  <2>4. now' = now /\ queue' = queue /\ disk' = evidence'
    BY <1>0
  <2>5. now <= now
    <3>1. now \in Nat
      BY <1>0
    <3>2. QED BY ONLY <3>1
  <2>6. QED BY <1>0, <1>2, <2>1, <2>2, <2>3, <2>4, <2>5 DEF RunnerStands, Sampling
<1>6. QED BY <1>3, <1>4, <1>5 DEF SoakInvariant, EvidencesAreSound

\* The success of the start is not seen: what may work is stopped.
LEMMA UnseenStartKeepsInvariant == SoakInvariant /\ StartNotSeen => SoakInvariant'
<1> SUFFICES ASSUME SoakInvariant, StartNotSeen PROVE SoakInvariant'
  OBVIOUS
<1>0. /\ SoakTypeOK /\ runner.pc = "await start"
      /\ UNCHANGED <<now, resolved, queue, plane, orders, fills, events>>
      /\ Fails(TRUE)
  BY DEF SoakInvariant, StartNotSeen, At, trading
<1>1. QueueIsSound'
  BY <1>0 DEF SoakInvariant, QueueIsSound
<1>2. SoakTypeOK'
  <2>1. evidence' \in Evidence /\ disk' = disk
        /\ runner' = [runner EXCEPT !.pc = "stop"]
    BY <1>0, IncidentIsRecorded DEF Fails, SoakInvariant, RunnerStands
  <2>2. QED BY <1>0, <2>1 DEF SoakTypeOK, RunCommands, RunnerState, SoakPoints
<1>3. QED BY <1>0, <1>1, <1>2, FailureKeepsInvariant

\* The stop has succeeded: the run ends, without an incident if it had none.
LEMMA SucceededStopKeepsInvariant == SoakInvariant /\ StopSucceeded => SoakInvariant'
<1> SUFFICES ASSUME SoakInvariant, StopSucceeded PROVE SoakInvariant'
  OBVIOUS
<1>0. /\ SoakTypeOK /\ runner.pc = "await stop"
      /\ queue["stop"].status = "succeeded"
      /\ UNCHANGED <<now, budget, resolved, queue, plane, orders, fills, events, evidence>>
      /\ runner' = [runner EXCEPT !.pc = "ended"] /\ disk' = evidence
  BY DEF SoakInvariant, StopSucceeded, At, world
<1>1. evidence # Nothing
  BY <1>0 DEF SoakInvariant, RunnerStands
<1>2. SoakTypeOK'
  BY <1>0, <1>1 DEF SoakTypeOK, RunCommands, RunnerState, SoakPoints
<1>3. AheadOfSamples' /\ EvidencesAreSound' /\ QueueIsSound'
  BY <1>0 DEF SoakInvariant, AheadOfSamples, EvidencesAreSound, QueueIsSound, SoakTypeOK, RunCommands, RunnerState
<1>4. RunnerStands'
  BY <1>0, <1>1 DEF SoakInvariant, RunnerStands, SoakTypeOK, RunCommands, RunnerState, Sampling
<1>5. QED BY <1>2, <1>3, <1>4 DEF SoakInvariant, EvidencesAreSound

\* The success of the stop is not seen.
LEMMA UnseenStopKeepsInvariant == SoakInvariant /\ StopNotSeen => SoakInvariant'
<1> SUFFICES ASSUME SoakInvariant, StopNotSeen PROVE SoakInvariant'
  OBVIOUS
<1>0. /\ SoakTypeOK /\ runner.pc = "await stop"
      /\ UNCHANGED <<now, resolved, queue, plane, orders, fills, events>>
      /\ StopFails
  BY DEF SoakInvariant, StopNotSeen, At, trading
<1>1. QueueIsSound'
  BY <1>0 DEF SoakInvariant, QueueIsSound
<1>2. SoakTypeOK'
  <2>1. evidence' \in Evidence /\ disk' = evidence'
        /\ runner' = [runner EXCEPT !.pc = "ended"]
    BY <1>0, IncidentIsRecorded DEF StopFails, SoakInvariant, RunnerStands
  <2>2. QED BY <1>0, <2>1 DEF SoakTypeOK, RunCommands, RunnerState, SoakPoints
<1>3. QED BY <1>0, <1>1, <1>2, StopFailureKeepsInvariant

\* The status is read.
LEMMA StatusKeepsInvariant == SoakInvariant /\ ReadStatus => SoakInvariant'
<1> SUFFICES ASSUME SoakInvariant, ReadStatus PROVE SoakInvariant'
  OBVIOUS
<1>0. /\ SoakTypeOK /\ runner.pc = "status"
      /\ UNCHANGED <<now, budget, resolved, queue, plane, orders, fills, events, evidence, disk>>
      /\ runner' = [runner EXCEPT !.pc = "orders", !.ready = plane.healthy]
  BY DEF SoakInvariant, ReadStatus, At, world
<1>1. runner' \in RunnerState
  BY <1>0 DEF SoakTypeOK, RunnerState, SoakPoints
<1>2. SoakTypeOK'
  BY <1>0, <1>1 DEF SoakTypeOK
<1>3. AheadOfSamples' /\ EvidencesAreSound' /\ QueueIsSound'
  BY <1>0 DEF SoakInvariant, AheadOfSamples, EvidencesAreSound, QueueIsSound, SoakTypeOK,
     RunnerState
<1>4. RunnerStands'
  BY <1>0 DEF SoakInvariant, RunnerStands, SoakTypeOK, RunnerState, Sampling
<1>5. QED BY <1>2, <1>3, <1>4 DEF SoakInvariant, EvidencesAreSound

\* The last of samples is one.
LEMMA LastIsSample ==
  ASSUME NEW e, SoundEvidence(e), e.samples # <<>>
  PROVE  Last(e.samples) \in Sample
<1>1. e.samples \in Seq(Sample)
  BY DEF SoundEvidence, Evidence
<1>2. QED BY <1>1 DEF Last

\* A larger set of orders has no fewer members.
LEMMA ObservedGrows ==
  ASSUME MaxOrders \in Nat, NEW S \in SUBSET (1..MaxOrders),
         NEW T \in SUBSET (1..MaxOrders), S \subseteq T
  PROVE  /\ Cardinality(S) \in Nat /\ Cardinality(T) \in Nat
         /\ Cardinality(S) <= Cardinality(T)
<1>1. IsFiniteSet(1..MaxOrders)
  BY FS_Interval
<1>2. IsFiniteSet(T) /\ IsFiniteSet(S)
  BY <1>1, FS_Subset
<1>3. QED BY <1>2, FS_Subset, FS_CardinalityType

\* What a sequence holds.
LEMMA SequenceHolds ==
  ASSUME NEW S, NEW seq \in Seq(S)
  PROVE  \A i \in 1..Len(seq) : seq[i] \in S
OBVIOUS

\* The newest of a number of things are among them.
LEMMA NewestAreThere == \A n \in Nat : Newest(n) \subseteq 1..n
BY BoundAssumption DEF Newest

\* The newest orders are read.
LEMMA OrdersKeepInvariant == SoakInvariant /\ ReadOrders => SoakInvariant'
<1> SUFFICES ASSUME SoakInvariant, ReadOrders PROVE SoakInvariant'
  OBVIOUS
<1>0. /\ SoakTypeOK /\ runner.pc = "orders" /\ MaxOrders \in Nat /\ orders \in Nat
      /\ UNCHANGED <<now, budget, resolved, queue, plane, orders, fills, events, evidence, disk>>
      /\ runner' = [runner EXCEPT !.pc = "fills",
                       !.ready = @ /\ plane.working /\ plane.healthy,
                       !.seen = @ \cup Newest(orders)]
  BY SoakCounts DEF SoakInvariant, ReadOrders, At, world
<1>1. Newest(orders) \subseteq 1..MaxOrders
  <2>1. orders <= MaxOrders
    BY <1>0 DEF SoakTypeOK
  <2>2. QED BY <1>0, <2>1, NewestAreThere
<1>2. /\ runner.seen \in SUBSET (1..MaxOrders) /\ runner.unknown \in SUBSET (1..MaxOrders)
      /\ runner' \in RunnerState
      /\ runner'.seen = runner.seen \cup Newest(orders)
      /\ runner'.unknown = runner.unknown /\ runner'.cursor = runner.cursor
  BY <1>0, <1>1 DEF SoakTypeOK, RunnerState, SoakPoints
<1>3. SoakTypeOK'
  BY <1>0, <1>2 DEF SoakTypeOK
<1>4. EvidencesAreSound' /\ QueueIsSound'
  BY <1>0 DEF SoakInvariant, EvidencesAreSound, QueueIsSound
<1>5. AheadOfSamples'
  <2>1. /\ Cardinality(runner.seen) \in Nat /\ Cardinality(runner'.seen) \in Nat
        /\ Cardinality(runner.seen) <= Cardinality(runner'.seen)
    BY <1>0, <1>1, <1>2, ObservedGrows
  <2>2. evidence # Nothing /\ evidence.samples # <<>> => Last(evidence.samples).orders \in Nat
    BY LastIsSample DEF SoakInvariant, Sample
  <2>3. QED BY <1>0, <1>2, <2>1, <2>2 DEF SoakInvariant, AheadOfSamples
<1>6. RunnerStands'
  BY <1>0 DEF SoakInvariant, RunnerStands, SoakTypeOK, RunnerState, Sampling
<1>7. QED BY <1>3, <1>4, <1>5, <1>6 DEF SoakInvariant, EvidencesAreSound

\* The newest fills are read.
LEMMA FillsKeepInvariant == SoakInvariant /\ ReadFills => SoakInvariant'
<1> SUFFICES ASSUME SoakInvariant, ReadFills PROVE SoakInvariant'
  OBVIOUS
<1> DEFINE found == {fills[i] : i \in Newest(Len(fills))} \ runner.seen
<1>0. /\ SoakTypeOK /\ runner.pc = "fills" /\ MaxOrders \in Nat
      /\ UNCHANGED <<now, budget, resolved, queue, plane, orders, fills, events, evidence, disk>>
      /\ runner' = [runner EXCEPT !.pc = "events", !.unknown = @ \cup found]
  BY SoakCounts DEF SoakInvariant, ReadFills, At, world
<1>1. found \subseteq 1..MaxOrders
  <2>1. fills \in Seq(1..MaxOrders) /\ Newest(Len(fills)) \subseteq 1..Len(fills)
    BY <1>0, NewestAreThere DEF SoakTypeOK
  <2>2. \A i \in 1..Len(fills) : fills[i] \in 1..MaxOrders
    BY <2>1, SequenceHolds
  <2>3. QED BY <2>1, <2>2
<1> HIDE DEF found
<1>2. /\ runner.seen \in SUBSET (1..MaxOrders) /\ runner.unknown \in SUBSET (1..MaxOrders)
      /\ runner' \in RunnerState
      /\ runner'.unknown = runner.unknown \cup found
      /\ runner'.seen = runner.seen /\ runner'.cursor = runner.cursor
  BY <1>0, <1>1 DEF SoakTypeOK, RunnerState, SoakPoints
<1>3. SoakTypeOK'
  BY <1>0, <1>2 DEF SoakTypeOK
<1>4. EvidencesAreSound' /\ QueueIsSound'
  BY <1>0 DEF SoakInvariant, EvidencesAreSound, QueueIsSound
<1>5. AheadOfSamples'
  <2>1. /\ Cardinality(runner.unknown) \in Nat /\ Cardinality(runner'.unknown) \in Nat
        /\ Cardinality(runner.unknown) <= Cardinality(runner'.unknown)
    BY <1>0, <1>1, <1>2, ObservedGrows
  <2>2. evidence # Nothing /\ evidence.samples # <<>> => Last(evidence.samples).unknown \in Nat
    BY LastIsSample DEF SoakInvariant, Sample
  <2>3. QED BY <1>0, <1>2, <2>1, <2>2 DEF SoakInvariant, AheadOfSamples
<1>6. RunnerStands'
  BY <1>0 DEF SoakInvariant, RunnerStands, SoakTypeOK, RunnerState, Sampling
<1>7. QED BY <1>3, <1>4, <1>5, <1>6 DEF SoakInvariant, EvidencesAreSound

\* A page of accounted fills has nothing critical on it.
LEMMA NothingCriticalOnPage ==
  ASSUME NEW page \in Seq({"PAPER_FILL_ACCOUNTED"})
  PROVE  Cardinality({i \in DOMAIN page : page[i] = "CRITICAL"}) = 0
<1>1. {i \in DOMAIN page : page[i] = "CRITICAL"} = {}
  OBVIOUS
<1>2. QED BY <1>1, FS_EmptySet

\* A sample is taken.
LEMMA SampleKeepsInvariant == SoakInvariant /\ TakeSample => SoakInvariant'
<1> SUFFICES ASSUME SoakInvariant, TakeSample PROVE SoakInvariant'
  OBVIOUS
<1> DEFINE end == IF runner.cursor + PageLimit < Len(events)
                  THEN runner.cursor + PageLimit ELSE Len(events)
           page == SubSeq(events, runner.cursor + 1, end)
           critical == runner.critical + Count(page, LAMBDA reason : reason = "CRITICAL")
           observed == Cardinality(runner.seen)
           sample == [at |-> now, ready |-> runner.ready, orders |-> observed,
                      audited |-> observed, duplicates |-> 0,
                      unknown |-> Cardinality(runner.unknown), critical |-> critical]
           next == IF runner.index + 1 = SampleCount THEN "stop" ELSE "status"
<1>0. /\ SoakTypeOK /\ now \in Nat /\ MaxOrders \in Nat /\ runner.pc = "events"
      /\ evidence.samples # <<>> => now > Last(evidence.samples).at
      /\ UNCHANGED <<now, budget, resolved, queue, plane, orders, fills, events>>
      /\ evidence' = [evidence EXCEPT !.samples = Append(evidence.samples, sample)]
      /\ disk' = evidence'
      /\ runner' = [runner EXCEPT !.pc = next, !.index = @ + 1, !.critical = critical,
                                  !.cursor = @ + Len(page)]
  BY SoakCounts DEF SoakInvariant, TakeSample, At, world
<1>1. runner \in RunnerState /\ runner.cursor \in Nat /\ events \in Seq({"PAPER_FILL_ACCOUNTED"})
      /\ runner.cursor <= Len(events) /\ PageLimit \in Nat /\ runner.critical = 0
      /\ runner.index \in Nat
  BY <1>0, BoundAssumption DEF SoakTypeOK, RunnerState, SoakInvariant, AheadOfSamples, RunnerStands
<1>2. /\ page \in Seq({"PAPER_FILL_ACCOUNTED"}) /\ Len(page) \in Nat
      /\ runner.cursor + Len(page) <= Len(events)
  <2>1. /\ end \in Nat /\ runner.cursor <= end /\ end <= Len(events)
    BY <1>1
  <2>2. /\ runner.cursor + 1 \in 1..(Len(events) + 1) /\ end \in runner.cursor..Len(events)
    BY <1>1, <2>1
  <2> HIDE DEF end
  <2>3. page \in Seq({"PAPER_FILL_ACCOUNTED"}) /\ Len(page) = end - runner.cursor
    BY <1>1, <2>1, <2>2
  <2>4. QED BY <1>1, <2>1, <2>3
<1>3. critical = 0
  <2> HIDE DEF page
  <2>1. Count(page, LAMBDA reason : reason = "CRITICAL") = 0
    BY <1>2, NothingCriticalOnPage DEF Count
  <2>2. QED BY <1>1, <2>1
<1> HIDE DEF page, critical
<1>4. observed \in Nat /\ Cardinality(runner.unknown) \in Nat
  <2>1. runner.seen \in SUBSET (1..MaxOrders) /\ runner.unknown \in SUBSET (1..MaxOrders)
    BY <1>1 DEF RunnerState
  <2>2. QED BY <1>0, <2>1, ObservedGrows
<1>5. sample \in Sample
  <2>1. runner.ready \in BOOLEAN
    BY <1>1 DEF RunnerState
  <2>2. QED BY <1>0, <1>3, <1>4, <2>1 DEF Sample
<1>6. /\ evidence # Nothing /\ SoundEvidence(evidence) /\ evidence \in Evidence
      /\ evidence.incidents = <<>> /\ Len(evidence.samples) = runner.index
      /\ runner.index < SampleCount /\ evidence.started_at = runner.base /\ runner.base <= now
      /\ queue["start"].status # "absent"
  BY <1>0, SoundIsThere DEF SoakInvariant, RunnerStands, Sampling
<1>7. SoundEvidence(evidence')
  <2>1. evidence.samples # <<>> =>
          /\ Last(evidence.samples).at < sample.at
          /\ Last(evidence.samples).orders <= sample.orders
          /\ Last(evidence.samples).unknown <= sample.unknown
    <3>1. evidence.samples # <<>> => Last(evidence.samples).at \in Nat
      BY <1>6, LastIsSample DEF Sample
    <3>2. QED BY <1>0, <1>6, <3>1 DEF SoakInvariant, AheadOfSamples
  <2>2. sample.at >= evidence.started_at /\ sample.critical = 0
        /\ sample.audited = sample.orders
    <3>1. evidence.started_at \in Nat
      BY <1>6 DEF Evidence
    <3>2. sample.at >= evidence.started_at
      BY <1>0, <1>6, <3>1
    <3>3. QED BY <1>3, <3>2
  <2> HIDE DEF sample
  <2>3. QED BY <1>0, <1>5, <1>6, <2>1, <2>2, SampleKeepsEvidenceSound
<1>8. /\ evidence' \in Evidence /\ evidence' # Nothing
      /\ evidence'.incidents = <<>> /\ evidence'.started_at = runner.base
      /\ Len(evidence'.samples) = runner.index + 1 /\ evidence'.samples # <<>>
      /\ Last(evidence'.samples) = sample
  <2>1. evidence.samples \in Seq(Sample) /\ evidence'.samples = Append(evidence.samples, sample)
        /\ evidence'.incidents = <<>> /\ evidence'.started_at = runner.base
    BY <1>0, <1>6 DEF Evidence
  <2> HIDE DEF sample
  <2>2. QED BY <1>5, <1>6, <1>7, <2>1, SoundIsThere DEF Last
<1>9. /\ runner' \in RunnerState /\ runner'.pc = next /\ runner'.index = runner.index + 1
      /\ runner'.critical = 0 /\ runner'.cursor = runner.cursor + Len(page)
      /\ runner'.base = runner.base /\ runner'.seen = runner.seen
      /\ runner'.unknown = runner.unknown
  <2>1. runner.cursor + Len(page) \in Nat /\ runner.index + 1 \in Nat /\ next \in SoakPoints
    BY <1>1, <1>2 DEF SoakPoints
  <2> HIDE DEF next
  <2>2. QED BY <1>0, <1>1, <1>3, <2>1 DEF RunnerState
<1>10. SoakTypeOK'
  BY <1>0, <1>8, <1>9 DEF SoakTypeOK
<1>11. EvidencesAreSound' /\ QueueIsSound'
  BY <1>0, <1>7 DEF SoakInvariant, EvidencesAreSound, QueueIsSound
<1>12. AheadOfSamples'
  <2>1. now' = now /\ events' = events /\ now <= now /\ observed <= observed
        /\ Cardinality(runner.unknown) <= Cardinality(runner.unknown)
    BY <1>0, <1>4
  <2>2. sample.at = now /\ sample.orders = observed
        /\ sample.unknown = Cardinality(runner.unknown)
    OBVIOUS
  <2> HIDE DEF sample
  <2>3. QED BY <1>2, <1>8, <1>9, <2>1, <2>2 DEF AheadOfSamples
<1>13. RunnerStands'
  <2>1. runner.index + 1 < SampleCount \/ runner.index + 1 = SampleCount
    BY <1>1, <1>6, SamplesAreCounted
  <2>2. UNCHANGED <<now, queue>> /\ disk' = evidence'
    BY <1>0
  <2>3. QED BY <1>6, <1>8, <1>9, <2>1, <2>2 DEF RunnerStands, Sampling
<1>14. QED BY <1>10, <1>11, <1>12, <1>13 DEF SoakInvariant, EvidencesAreSound

\* A sample fails.
LEMMA FailedSampleKeepsInvariant == SoakInvariant /\ SampleFails => SoakInvariant'
<1> SUFFICES ASSUME SoakInvariant, SampleFails PROVE SoakInvariant'
  OBVIOUS
<1>0. /\ SoakTypeOK /\ runner.pc \in Sampling
      /\ UNCHANGED <<now, resolved, queue, plane, orders, fills, events>>
      /\ Fails(TRUE)
  BY DEF SoakInvariant, SampleFails, At, trading, Sampling
<1>1. QueueIsSound'
  BY <1>0 DEF SoakInvariant, QueueIsSound
<1>2. SoakTypeOK'
  <2>1. evidence # Nothing
    BY <1>0 DEF SoakInvariant, RunnerStands, Sampling
  <2>2. evidence' \in Evidence /\ disk' = disk
        /\ runner' = [runner EXCEPT !.pc = "stop"]
    BY <1>0, <2>1, IncidentIsRecorded DEF Fails, SoakInvariant
  <2>3. QED BY <1>0, <2>2 DEF SoakTypeOK, RunnerState, SoakPoints
<1>3. QED BY <1>0, <1>1, <1>2, FailureKeepsInvariant DEF Sampling

\* The runner is killed; the file stays.
LEMMA KillKeepsInvariant == SoakInvariant /\ Kill => SoakInvariant'
<1> SUFFICES ASSUME SoakInvariant, Kill PROVE SoakInvariant'
  OBVIOUS
<1>0. /\ SoakTypeOK /\ UNCHANGED <<now, resolved, queue, plane, orders, fills, events, disk>>
      /\ evidence' = Nothing
      /\ runner' = [Fresh EXCEPT !.pc = "killed"]
  BY DEF SoakInvariant, Kill, trading
<1>1. runner' \in RunnerState /\ runner'.pc = "killed" /\ runner'.critical = 0
      /\ runner'.cursor = 0
  BY <1>0 DEF RunnerState, SoakPoints, Fresh
<1>2. SoakTypeOK'
  BY <1>0, <1>1 DEF SoakTypeOK
<1>3. EvidencesAreSound' /\ QueueIsSound'
  BY <1>0 DEF SoakInvariant, EvidencesAreSound, QueueIsSound
<1>4. AheadOfSamples'
  BY <1>0, <1>1 DEF SoakTypeOK, AheadOfSamples
<1>5. RunnerStands'
  BY <1>0, <1>1 DEF RunnerStands, Sampling
<1>6. QED BY <1>2, <1>3, <1>4, <1>5 DEF SoakInvariant, EvidencesAreSound

\* The operator prepares another run.
LEMMA AgainKeepsInvariant == SoakInvariant /\ Again => SoakInvariant'
<1> SUFFICES ASSUME SoakInvariant, Again PROVE SoakInvariant'
  OBVIOUS
<1>0. /\ SoakTypeOK /\ UNCHANGED <<resolved, queue, plane, orders, fills, events>>
      /\ evidence' = Nothing /\ disk' = Nothing /\ now' = 0 /\ runner' = Fresh
  BY DEF SoakInvariant, Again, trading
<1>1. runner' \in RunnerState /\ runner'.pc = "idle" /\ runner'.critical = 0
      /\ runner'.cursor = 0
  BY <1>0 DEF RunnerState, SoakPoints, Fresh
<1>2. SoakTypeOK'
  BY <1>0, <1>1, BoundAssumption DEF SoakTypeOK
<1>3. EvidencesAreSound' /\ QueueIsSound'
  BY <1>0 DEF SoakInvariant, EvidencesAreSound, QueueIsSound
<1>4. AheadOfSamples'
  BY <1>0, <1>1 DEF SoakTypeOK, AheadOfSamples
<1>5. RunnerStands'
  BY <1>0, <1>1 DEF RunnerStands, Sampling
<1>6. QED BY <1>2, <1>3, <1>4, <1>5 DEF SoakInvariant, EvidencesAreSound

\* Time passes.
LEMMA TickKeepsInvariant == SoakInvariant /\ Tick => SoakInvariant'
<1> SUFFICES ASSUME SoakInvariant, Tick PROVE SoakInvariant'
  OBVIOUS
<1>0. /\ SoakTypeOK /\ now \in Nat /\ now < MaxTime /\ now' = now + 1
      /\ UNCHANGED <<resolved, queue, plane, orders, fills, events, runner, evidence, disk>>
  BY SoakCounts DEF SoakInvariant, Tick, trading
<1>1. SoakTypeOK'
  <2>1. now' \in 0..MaxTime
    BY <1>0, BoundAssumption
  <2>2. QED BY <1>0, <2>1 DEF SoakTypeOK
<1>2. \A t \in Nat : t <= now => t <= now'
  BY <1>0
<1>3. EvidencesAreSound' /\ QueueIsSound'
  BY <1>0 DEF SoakInvariant, EvidencesAreSound, QueueIsSound
<1>4. AheadOfSamples'
  <2>1. evidence # Nothing /\ evidence.samples # <<>> => Last(evidence.samples).at \in Nat
    BY LastIsSample DEF SoakInvariant, Sample
  <2>2. QED BY <1>0, <1>2, <2>1 DEF SoakInvariant, AheadOfSamples
<1>5. RunnerStands'
  <2>1. evidence # Nothing => evidence.started_at \in Nat
    BY DEF SoakInvariant, SoundEvidence, Evidence
  <2>2. runner.base \in Nat
    BY <1>0 DEF SoakTypeOK, RunnerState
  <2>3. QED BY <1>0, <1>2, <2>1, <2>2 DEF SoakInvariant, RunnerStands, Sampling
<1>6. QED BY <1>1, <1>3, <1>4, <1>5 DEF SoakInvariant, EvidencesAreSound

\* The host executes a command, a start before a stop.
LEMMA ExecuteKeepsInvariant ==
  ASSUME SoakInvariant, NEW action \in {"start", "stop"},
         NEW status \in {"succeeded", "failed"}, Execute(action, status)
  PROVE  SoakInvariant'
<1>0. /\ SoakTypeOK /\ queue[action].status = "queued"
      /\ action = "stop" => queue["start"].status # "queued"
      /\ queue' = [queue EXCEPT ![action].status = status]
      /\ plane' = [plane EXCEPT !.working =
                      IF status = "succeeded" THEN action = "start" ELSE @]
      /\ UNCHANGED <<now, budget, resolved, orders, fills, events, runner, evidence, disk>>
  BY DEF SoakInvariant, Execute
<1>1. /\ queue' \in RunCommands /\ queue'[action].status = status
      /\ \A a \in {"start", "stop"} : a # action => queue'[a] = queue[a]
  BY <1>0 DEF SoakTypeOK, RunCommands
<1>2. /\ plane' \in [working : BOOLEAN, healthy : BOOLEAN]
      /\ plane'.working =
           IF status = "succeeded" THEN action = "start" ELSE plane.working
  BY <1>0 DEF SoakTypeOK
<1>3. SoakTypeOK'
  BY <1>0, <1>1, <1>2 DEF SoakTypeOK
<1>4. EvidencesAreSound' /\ AheadOfSamples'
  BY <1>0 DEF SoakInvariant, EvidencesAreSound, AheadOfSamples
<1>5. QueueIsSound'
  <2>1. queue \in RunCommands /\ QueueIsSound
    BY <1>0 DEF SoakInvariant, SoakTypeOK
  <2>2. CASE action = "start"
    BY <1>0, <1>1, <1>2, <2>1, <2>2 DEF QueueIsSound, RunCommands
  <2>3. CASE action = "stop"
    BY <1>0, <1>1, <1>2, <2>1, <2>3 DEF QueueIsSound, RunCommands
  <2>4. QED BY <2>2, <2>3
<1>6. RunnerStands'
  <2>1. queue["start"].status # "absent" => queue'["start"].status # "absent"
    BY <1>1
  <2>2. queue["stop"].status = "succeeded" => queue'["stop"].status = "succeeded"
    BY <1>0, <1>1
  <2>3. QED BY <1>0, <2>1, <2>2 DEF SoakInvariant, RunnerStands
<1>7. QED BY <1>3, <1>4, <1>5, <1>6 DEF SoakInvariant, EvidencesAreSound

\* The health of a dependency, or a specification, changes.
LEMMA ChangeKeepsInvariant ==
  SoakInvariant /\ (HealthChanges \/ SpecificationChanges) => SoakInvariant'
<1> SUFFICES ASSUME SoakInvariant, HealthChanges \/ SpecificationChanges PROVE SoakInvariant'
  OBVIOUS
<1>1. /\ UNCHANGED <<now, queue, orders, fills, events, runner, evidence, disk>>
      /\ resolved' \in Resolutions
      /\ plane' \in [working : BOOLEAN, healthy : BOOLEAN] /\ plane'.working = plane.working
  BY DEF SoakInvariant, SoakTypeOK, HealthChanges, SpecificationChanges, trading
<1>2. SoakTypeOK'
  BY <1>1 DEF SoakInvariant, SoakTypeOK
<1>3. EvidencesAreSound' /\ AheadOfSamples' /\ QueueIsSound' /\ RunnerStands'
  BY <1>1 DEF SoakInvariant, EvidencesAreSound, AheadOfSamples, QueueIsSound, RunnerStands
<1>4. QED BY <1>2, <1>3 DEF SoakInvariant, EvidencesAreSound

\* The worker places an order.
LEMMA OrderKeepsInvariant ==
  ASSUME SoakInvariant, NEW filled \in BOOLEAN, PlaceOrder(filled)
  PROVE  SoakInvariant'
<1>0. /\ SoakTypeOK /\ orders \in Nat /\ MaxOrders \in Nat /\ orders < MaxOrders
      /\ orders' = orders + 1
      /\ fills' = IF filled THEN Append(fills, orders') ELSE fills
      /\ events' = IF filled THEN Append(events, "PAPER_FILL_ACCOUNTED") ELSE events
      /\ UNCHANGED <<now, budget, resolved, queue, plane, runner, evidence, disk>>
  BY SoakCounts DEF SoakInvariant, PlaceOrder
<1>1. orders' \in 0..MaxOrders /\ orders' \in 1..MaxOrders
  BY <1>0
<1>2. /\ fills \in Seq(1..MaxOrders) /\ events \in Seq({"PAPER_FILL_ACCOUNTED"})
  BY <1>0 DEF SoakTypeOK
<1>3. fills' \in Seq(1..MaxOrders)
  BY <1>0, <1>1, <1>2, AppendProperties
<1>4. events' \in Seq({"PAPER_FILL_ACCOUNTED"}) /\ Len(events) <= Len(events')
  BY <1>0, <1>2
<1>5. SoakTypeOK'
  BY <1>0, <1>1, <1>3, <1>4 DEF SoakTypeOK
<1>6. EvidencesAreSound' /\ QueueIsSound' /\ RunnerStands'
  BY <1>0 DEF SoakInvariant, EvidencesAreSound, QueueIsSound, RunnerStands
<1>7. AheadOfSamples'
  <2>1. runner.cursor \in Nat /\ Len(events) \in Nat /\ Len(events') \in Nat
    BY <1>0, <1>2, <1>4 DEF SoakTypeOK, RunnerState
  <2>2. runner.cursor <= Len(events')
    BY <1>4, <2>1 DEF SoakInvariant, AheadOfSamples
  <2>3. QED BY <1>0, <2>2 DEF SoakInvariant, AheadOfSamples
<1>8. QED BY <1>5, <1>6, <1>7 DEF SoakInvariant, EvidencesAreSound

\* The invariant holds of every state of a soak, whatever its duration and
\* cadence, the pages and the answers of the preflight.
THEOREM SoakInvariantHolds == SoakSpec => []SoakInvariant
<1>1. SoakInvariant /\ [SoakNext]_soakVars => SoakInvariant'
  <2> SUFFICES ASSUME SoakInvariant, [SoakNext]_soakVars PROVE SoakInvariant'
    OBVIOUS
  <2>1. CASE Run
    BY <2>1, BeginKeepsInvariant, PostStartKeepsInvariant, LostStartKeepsInvariant,
       SucceededStartKeepsInvariant, UnseenStartKeepsInvariant, StatusKeepsInvariant,
       OrdersKeepInvariant, FillsKeepInvariant, SampleKeepsInvariant,
       FailedSampleKeepsInvariant, PostStopKeepsInvariant, LostStopKeepsInvariant,
       SucceededStopKeepsInvariant, UnseenStopKeepsInvariant DEF Run
  <2>2. CASE Kill \/ Again \/ Tick \/ HealthChanges \/ SpecificationChanges
    BY <2>2, KillKeepsInvariant, AgainKeepsInvariant, TickKeepsInvariant,
       ChangeKeepsInvariant
  <2>3. CASE \E action \in {"start", "stop"}, status \in {"succeeded", "failed"} :
               Execute(action, status)
    BY <2>3, ExecuteKeepsInvariant
  <2>4. CASE \E filled \in BOOLEAN : PlaceOrder(filled)
    BY <2>4, OrderKeepsInvariant
  <2>5. CASE UNCHANGED soakVars
    BY <2>5 DEF soakVars, SoakInvariant, SoakTypeOK, AheadOfSamples, QueueIsSound, RunnerStands
  <2>6. QED BY <2>1, <2>2, <2>3, <2>4, <2>5 DEF SoakNext
<1>2. QED BY <1>1, SoakBegins, PTL DEF SoakSpec

\* Types of a soak.
THEOREM SoakTypeCorrect == SoakSpec => []SoakTypeOK
<1>1. SoakInvariant => SoakTypeOK
  BY DEF SoakInvariant
<1>2. QED BY <1>1, SoakInvariantHolds, PTL

-----------------------------------------------------------------------------
(* What holds of every soak *)

\* The evaluator reads sound evidence without an error.
LEMMA SoundEvidenceIsAccepted ==
  ASSUME NEW e, SoundEvidence(e), e.samples # <<>>
  PROVE  ~Malformed(e)
<1> DEFINE n == Len(e.samples)
<1>1. /\ e.samples \in Seq(Sample) /\ e.incidents \in Seq(Incident) /\ e.started_at \in Nat
      /\ n \in Nat /\ n >= 1
  BY DEF SoundEvidence, Evidence
<1>2. \A i \in 1..n : e.samples[i] \in Sample
  BY <1>1, SequenceHolds
<1>3. \A i \in 2..n : ~(e.samples[i].at <= e.samples[i - 1].at)
  <2> SUFFICES ASSUME NEW i \in 2..n PROVE ~(e.samples[i].at <= e.samples[i - 1].at)
    OBVIOUS
  <2>1. i \in 1..n /\ i - 1 \in 1..n
    BY <1>1
  <2>2. e.samples[i].at \in Nat /\ e.samples[i - 1].at \in Nat
    BY <1>2, <2>1 DEF Sample
  <2>3. e.samples[i - 1].at < e.samples[i].at
    BY DEF SoundEvidence
  <2>4. QED BY <2>2, <2>3
<1>4. Stamp(e) = Last(e.samples).at /\ Last(e.samples).at \in Nat
      /\ e.started_at <= Last(e.samples).at
  <2>1. Last(e.samples).at \in Nat
    BY LastIsSample DEF Sample
  <2>2. n \in 1..n /\ e.started_at <= e.samples[n].at
    BY <1>1 DEF SoundEvidence
  <2>3. QED BY <1>1, <2>1, <2>2 DEF Stamp, Last
<1>5. \A i \in 1..Len(e.incidents) : e.incidents[i].at = Last(e.samples).at
  BY <1>4 DEF SoundEvidence
<1>6. \A i \in 2..Len(e.incidents) : ~(e.incidents[i].at < e.incidents[i - 1].at)
  <2> SUFFICES ASSUME NEW i \in 2..Len(e.incidents)
               PROVE  ~(e.incidents[i].at < e.incidents[i - 1].at)
    OBVIOUS
  <2>1. i \in 1..Len(e.incidents) /\ i - 1 \in 1..Len(e.incidents)
    BY <1>1
  <2>2. e.incidents[i].at = Last(e.samples).at /\ e.incidents[i - 1].at = Last(e.samples).at
    BY <1>5, <2>1
  <2>3. QED BY <1>4, <2>2
<1>7. \A i \in DOMAIN e.incidents : e.incidents[i].at \in e.started_at .. Last(e.samples).at
  <2>1. DOMAIN e.incidents = 1..Len(e.incidents)
    BY <1>1
  <2>2. Last(e.samples).at \in e.started_at .. Last(e.samples).at
    BY <1>1, <1>4
  <2>3. QED BY <1>5, <2>1, <2>2
<1>8. ~(e.samples[1].at < e.started_at)
  <2>1. 1 \in 1..n
    BY <1>1
  <2>2. e.samples[1].at \in Nat /\ e.samples[1].at >= e.started_at
    BY <1>2, <2>1 DEF SoundEvidence, Sample
  <2>3. QED BY <1>1, <2>2
<1>9. \A i \in 2..n, f \in Cumulative : ~(e.samples[i][f] < e.samples[i - 1][f])
  <2> SUFFICES ASSUME NEW i \in 2..n, NEW f \in Cumulative
               PROVE  ~(e.samples[i][f] < e.samples[i - 1][f])
    OBVIOUS
  <2> DEFINE s == e.samples[i]
             r == e.samples[i - 1]
  <2>1. i \in 1..n /\ i - 1 \in 1..n
    BY <1>1
  <2>2. s \in Sample /\ r \in Sample
    BY <1>2, <2>1
  <2>3. /\ r.orders <= s.orders /\ r.unknown <= s.unknown
        /\ r.critical = 0 /\ s.critical = 0
        /\ r.audited = r.orders /\ s.audited = s.orders
    BY <2>1 DEF SoundEvidence
  <2> HIDE DEF s, r
  <2>4. /\ ~(s.orders < r.orders) /\ ~(s.unknown < r.unknown) /\ ~(s.critical < r.critical)
        /\ ~(s.audited < r.audited) /\ ~(s.duplicates < r.duplicates)
    BY <2>2, <2>3 DEF Sample
  <2>5. ~(s[f] < r[f])
    BY <2>4 DEF Cumulative
  <2>6. QED BY <2>5 DEF s, r
<1>10. QED BY <1>3, <1>6, <1>7, <1>8, <1>9 DEF Malformed

\* Whatever the runner met and whenever it died, the evaluator reads the file
\* it left without an error.
THEOREM EvidenceAlwaysAccepted == SoakSpec => []EvidenceIsAccepted
<1>1. SoakInvariant => EvidenceIsAccepted
  BY SoundEvidenceIsAccepted DEF SoakInvariant, EvidenceIsAccepted
<1>2. QED BY <1>1, SoakInvariantHolds, PTL

\* Sound evidence has a critical count only if it has an incident, and has one
\* then.
LEMMA CriticalMeansIncident ==
  ASSUME NEW e, SoundEvidence(e), e.samples # <<>>
  PROVE  CriticalTotal(e) = 0 <=> e.incidents = <<>>
<1> DEFINE dated == {i \in DOMAIN e.incidents : e.incidents[i].severity = "critical"}
<1>1. e.incidents \in Seq(Incident) /\ DOMAIN e.incidents = 1..Len(e.incidents)
      /\ Len(e.incidents) \in Nat
  BY DEF SoundEvidence, Evidence
<1>2. \A i \in 1..Len(e.incidents) : e.incidents[i] \in Incident
  BY <1>1, SequenceHolds
<1>3. dated = 1..Len(e.incidents)
  BY <1>1, <1>2 DEF Incident
<1>4. Cardinality(dated) = Len(e.incidents)
  <2>1. \A n \in Nat : Cardinality(1..n) = n
    <3>1. \A n \in Nat : Cardinality(1..n) = IF 1 > n THEN 0 ELSE n - 1 + 1
      BY FS_Interval
    <3>2. QED BY <3>1
  <2> HIDE DEF dated
  <2>2. QED BY <1>1, <1>3, <2>1
<1>5. Last(e.samples).critical = 0
  <2>1. Len(e.samples) \in 1..Len(e.samples)
    BY DEF SoundEvidence, Evidence
  <2>2. QED BY <2>1 DEF SoundEvidence, Last
<1>6. CriticalTotal(e) = Last(e.samples).critical + Cardinality(dated)
  BY DEF CriticalTotal, Count
<1> HIDE DEF dated
<1>7. CriticalTotal(e) = Len(e.incidents)
  BY <1>1, <1>4, <1>5, <1>6
<1>8. QED BY <1>1, <1>7

\* The duration is a number of intervals, and so many samples follow the
\* first.
LEMMA DurationIsCadence ==
  /\ Duration \in Nat \ {0} /\ Interval \in Nat \ {0}
  /\ Duration = (SampleCount - 1) * Interval
  /\ (Duration + Interval - 1) \div Interval + 1 = SampleCount
<1> DEFINE q == Duration \div Interval
<1>0. /\ Duration \in Nat \ {0} /\ Interval \in Nat \ {0} /\ Duration % Interval = 0
      /\ q \in Nat /\ SampleCount = q + 1
  BY CadenceAssumption DEF SampleCount
<1>1. Duration = Interval * q + (Duration % Interval)
  BY <1>0
<1>2. Duration = q * Interval
  <2>1. Interval * q = q * Interval
    BY <1>0
  <2>2. Interval * q \in Nat
    BY <1>0
  <2> HIDE DEF q
  <2>3. QED BY <1>0, <1>1, <2>1, <2>2
<1>3. (Duration + Interval - 1) \div Interval = q
  <2> HIDE DEF q
  <2>1. ASSUME NEW I \in Nat \ {0}, NEW r \in Nat PROVE (r * I + I - 1) \div I = r
    BY <2>1
  <2>2. QED BY <1>0, <1>2, <2>1
<1> HIDE DEF q
<1>4. QED BY <1>0, <1>2, <1>3

\* A file that passes bears no incident, and every sample.
LEMMA PassMeansComplete ==
  ASSUME NEW e, SoundEvidence(e), Verdict(e) = "pass"
  PROVE  e.incidents = <<>> /\ Len(e.samples) = Duration \div Interval + 1
<1>1. ~Malformed(e) /\ CadenceIsKept(e) /\ ContentIsClean(e)
  BY DEF Verdict
<1>2. e.samples # <<>>
  BY <1>1 DEF Malformed
<1>3. e.incidents = <<>>
  BY <1>1, <1>2, CriticalMeansIncident DEF ContentIsClean
<1>4. e.duration = Duration /\ e.interval = Interval /\ Len(e.samples) \in Nat
      /\ Len(e.samples) <= SampleCount
  BY DEF SoundEvidence, Evidence
<1>5. Len(e.samples) >= SampleCount
  BY <1>1, <1>4, DurationIsCadence DEF CadenceIsKept
<1>6. Len(e.samples) = SampleCount
  BY <1>4, <1>5, SamplesAreCounted
<1>7. QED BY <1>3, <1>6 DEF SampleCount

\* A PASS of a run that ended by itself means that its stop command succeeded
\* and the worker no longer works; a worker left working is on record as an
\* incident; the file of a killed runner passes only with every sample on it.
THEOREM PassingMeansStopped == SoakSpec => []PassMeansStopped
<1>1. SoakInvariant => PassMeansStopped
  <2> SUFFICES ASSUME SoakInvariant PROVE PassMeansStopped
    OBVIOUS
  <2>1. At("ended") => \/ disk.incidents # <<>>
                       \/ queue["stop"].status = "succeeded" /\ ~plane.working
    BY DEF SoakInvariant, RunnerStands, QueueIsSound, At
  <2>2. ASSUME disk # Nothing, Verdict(disk) = "pass"
        PROVE  /\ Len(disk.samples) = Duration \div Interval + 1
               /\ At("ended") => queue["stop"].status = "succeeded" /\ ~plane.working
    <3>1. disk.incidents = <<>> /\ Len(disk.samples) = Duration \div Interval + 1
      BY <2>2, PassMeansComplete DEF SoakInvariant
    <3>2. QED BY <2>1, <3>1
  <2>3. QED BY <2>1, <2>2 DEF PassMeansStopped
<1>2. QED BY <1>1, SoakInvariantHolds, PTL

\* The tolerance of the cadence is a positive number.
LEMMA ToleranceIsPositive == \A t \in Nat : Tolerance(t) \in Nat /\ Tolerance(t) >= 1
BY DEF Tolerance

\* The distance of deadlines that follow each other.
LEMMA DeadlinesAreSpaced ==
  ASSUME NEW s \in Nat, NEW k \in Nat, NEW t \in Nat, NEW r \in Nat, NEW a \in Nat, NEW b \in Nat,
         a - (s + k * t) \in 0..r, b - (s + (k + 1) * t) \in 0..r
  PROVE  b - a \in (t - r)..(t + r)
<1>1. k * t \in Nat /\ (k + 1) * t = k * t + t
  OBVIOUS
<1>2. QED BY <1>1

\* A run of which every sample was taken within the tolerance of its deadline
\* keeps the cadence that is judged.
LEMMA OnTimeKeepsCadence ==
  ASSUME NEW e, SoundEvidence(e), Len(e.samples) = SampleCount,
         \A i \in 1..SampleCount :
           e.samples[i].at - (e.started_at + (i - 1) * Interval) \in 0..Tolerance(Interval)
  PROVE  CadenceIsKept(e)
<1> DEFINE n == SampleCount
           r == Tolerance(Interval)
           s == e.started_at
<1>0. /\ n \in Nat /\ n >= 2 /\ Interval \in Nat \ {0} /\ r \in Nat /\ r >= 1 /\ s \in Nat
      /\ e.duration = Duration /\ e.interval = Interval /\ Duration \in Nat
      /\ e.samples \in Seq(Sample)
  BY SamplesAreCounted, DurationIsCadence, ToleranceIsPositive DEF SoundEvidence, Evidence
<1>1. \A i \in 1..n : e.samples[i].at \in Nat
  <2>1. \A i \in 1..n : e.samples[i] \in Sample
    BY <1>0, SequenceHolds
  <2>2. QED BY <2>1 DEF Sample
<1>2. \A i \in 1..n : e.samples[i].at - (s + (i - 1) * Interval) \in 0..r
  OBVIOUS
<1> HIDE DEF n, r, s
<1>3. Last(e.samples).at - (s + Duration) \in 0..r /\ Last(e.samples).at \in Nat
  <2>1. n \in 1..n
    BY <1>0
  <2>2. Last(e.samples) = e.samples[n]
    BY DEF Last, n
  <2>3. Duration = (n - 1) * Interval
    BY DurationIsCadence DEF n
  <2>4. QED BY <1>1, <1>2, <2>1, <2>2, <2>3
<1>4. Last(e.samples).at - s >= Duration
      /\ Last(e.samples).at - (s + Duration) \in (-r)..r
  BY <1>0, <1>3
<1>5. e.samples[1].at - s \in 0..r
  <2>1. 1 \in 1..n
    BY <1>0
  <2>2. e.samples[1].at - (s + (1 - 1) * Interval) \in 0..r /\ e.samples[1].at \in Nat
    BY <1>1, <1>2, <2>1
  <2>3. (1 - 1) * Interval = 0
    BY <1>0
  <2>4. QED BY <1>0, <2>2, <2>3
<1>6. \A i \in 2..n : e.samples[i].at - e.samples[i - 1].at
                        \in (IF Interval - r > 1 THEN Interval - r ELSE 1)..(Interval + r)
  <2> SUFFICES ASSUME NEW i \in 2..n
               PROVE  e.samples[i].at - e.samples[i - 1].at
                        \in (IF Interval - r > 1 THEN Interval - r ELSE 1)..(Interval + r)
    OBVIOUS
  <2>1. /\ i \in 1..n /\ i - 1 \in 1..n /\ i - 2 \in Nat
        /\ (i - 1) - 1 = i - 2 /\ (i - 2) + 1 = i - 1
    BY <1>0
  <2> DEFINE a == e.samples[i - 1].at
             b == e.samples[i].at
  <2>2. a \in Nat /\ b \in Nat
    BY <1>1, <2>1
  <2>3. a - (s + (i - 2) * Interval) \in 0..r
    BY <1>2, <2>1
  <2>4. b - (s + ((i - 2) + 1) * Interval) \in 0..r
    BY <1>2, <2>1
  <2>5. a < b
    <3>1. Len(e.samples) = n
      BY DEF n
    <3>2. QED BY <3>1 DEF SoundEvidence
  <2> HIDE DEF a, b
  <2>6. b - a \in (Interval - r)..(Interval + r)
    BY <1>0, <2>1, <2>2, <2>3, <2>4, DeadlinesAreSpaced
  <2>7. b - a \in (IF Interval - r > 1 THEN Interval - r ELSE 1)..(Interval + r)
    BY <1>0, <2>2, <2>5, <2>6
  <2>8. QED BY <2>7 DEF a, b
<1>7. Gaps(e) \subseteq (IF Interval - r > 1 THEN Interval - r ELSE 1)..(Interval + r)
  BY <1>6 DEF Gaps, n
<1>8. Len(e.samples) >= (Duration + Interval - 1) \div Interval + 1
  BY SamplesAreCounted, DurationIsCadence
<1>9. QED BY <1>0, <1>4, <1>5, <1>7, <1>8 DEF CadenceIsKept, r, s

\* A run without incident whose samples were all on time and saw nothing wrong
\* is given a PASS.
THEOREM OnTimeRunsPass == SoakSpec => []OnTimeRunPasses
<1>1. SoakInvariant => OnTimeRunPasses
  <2> SUFFICES ASSUME SoakInvariant, At("ended"), disk.incidents = <<>>,
                      \A i \in DOMAIN disk.samples :
                        /\ disk.samples[i].at - (runner.base + (i - 1) * Interval)
                             \in 0..Tolerance(Interval)
                        /\ disk.samples[i].ready
                        /\ disk.samples[i].unknown = 0
               PROVE  Verdict(disk) = "pass"
    BY DEF OnTimeRunPasses
  <2>1. /\ disk = evidence /\ evidence # Nothing /\ SoundEvidence(disk)
        /\ disk.started_at = runner.base /\ Len(disk.samples) = SampleCount
    BY DEF SoakInvariant, RunnerStands, At
  <2>2. /\ disk.samples \in Seq(Sample) /\ DOMAIN disk.samples = 1..SampleCount
        /\ SampleCount \in Nat /\ SampleCount >= 2 /\ disk.samples # <<>>
    BY <2>1, SamplesAreCounted DEF SoundEvidence, Evidence
  <2>3. ~Malformed(disk)
    BY <2>1, <2>2, SoundEvidenceIsAccepted
  <2>4. CadenceIsKept(disk)
    BY <2>1, <2>2, OnTimeKeepsCadence
  <2>5. ContentIsClean(disk)
    <3>1. SampleCount \in 1..SampleCount /\ Last(disk.samples) = disk.samples[SampleCount]
      BY <2>1, <2>2 DEF Last
    <3>2. Last(disk.samples).unknown = 0
      BY <2>2, <3>1
    <3>3. Last(disk.samples).duplicates = 0
      BY <2>1, <2>2, LastIsSample DEF Sample
    <3>4. Last(disk.samples).audited = Last(disk.samples).orders
      BY <2>1, <3>1 DEF SoundEvidence
    <3>5. CriticalTotal(disk) = 0
      BY <2>1, <2>2, CriticalMeansIncident
    <3>6. {i \in DOMAIN disk.samples : ~disk.samples[i].ready} = {}
      OBVIOUS
    <3>7. Count(disk.samples, LAMBDA sample : ~sample.ready) = 0
      BY <3>6, FS_EmptySet DEF Count
    <3>8. QED BY <3>2, <3>3, <3>4, <3>5, <3>7 DEF ContentIsClean
  <2>6. QED BY <2>3, <2>4, <2>5 DEF Verdict
<1>2. QED BY <1>1, SoakInvariantHolds, PTL
=============================================================================
