---------------------------- MODULE PaperControl ----------------------------
(***************************************************************************)
(* Starting and stopping the PAPER worker by durable commands.             *)
(*                                                                         *)
(*   PostgresSystemCommandRepository   infrastructure/database/            *)
(*                                     command_repository.py               *)
(*   PaperCommandConsumer              application/                        *)
(*                                     paper_command_consumer.py           *)
(*   PaperWorkerControl                application/paper_worker.py         *)
(*   PaperWorkloadHost                 application/paper_host.py           *)
(*   PostgresPaperWorkerRepository     infrastructure/database/            *)
(*                                     worker_repository.py                *)
(*   run_worker                        runtime/windows.py                  *)
(*                                                                         *)
(* API requests append commands to one queue.  Each worker process loops:  *)
(* it consumes at most one command, then polls its markets if it holds a   *)
(* workload.  One action is one database transaction.  A process is one    *)
(* incarnation: an exception that leaves the loop, or a crash, ends it.    *)
(* It claims a command at most once (the claim ends with the command or    *)
(* with the process), so the process stands for the worker_id and the      *)
(* uuid4 lease_token of its claim.                                         *)
(***************************************************************************)
EXTENDS Naturals

CONSTANTS
  Processes,   \* incarnations of run_worker
  Ids,         \* worker ids, hostname-pid
  IdOf,        \* the worker id of an incarnation
  Steady,      \* incarnations that never die and never outlast a lease
  Commands,    \* queue_sequence numbers
  ActionOf,    \* "start" or "stop"
  ClientOf,    \* the API thread that enqueues a command
  None         \* no process, no generation, no owner, no revision read

ASSUME ControlAssumption ==
  /\ IdOf \in [Processes -> Ids]
  /\ Steady \subseteq Processes
  /\ Commands \subseteq Nat
  /\ DOMAIN ActionOf = Commands
  /\ \A c \in Commands : ActionOf[c] \in {"start", "stop"}
  /\ DOMAIN ClientOf = Commands
  /\ None \notin Processes \cup Ids \cup Nat

VARIABLES
  command,   \* the rows of system_commands
  worker,    \* status and revision of the paper_worker_states row
  applied,   \* worker transitions on record, by command and step
  lease,     \* the workload lease of the same row
  pc,        \* where each process stands
  claim,     \* the command a process has claimed last
  seen,      \* the revision a worker transition has read
  held,      \* PaperWorkloadHost._generation of each process
  late       \* history: commands committed when a later one had been claimed

vars == <<command, worker, applied, lease, pc, claim, seen, held, late>>

Statuses == {"stopped", "starting", "running", "stopping", "degraded", "halted"}

\* The methods of PaperWorkerControl, with the statuses each accepts and the
\* one it sets.  recover has no caller.
Allowed == [start    |-> {"stopped"},
            started  |-> {"starting"},
            degrade  |-> {"starting", "running"},
            stop     |-> {"starting", "running", "degraded"},
            stopped  |-> {"stopping"},
            halt     |-> Statuses \ {"halted"}]

Target == [start |-> "starting", started |-> "running", degrade |-> "degraded",
           stop |-> "stopping", stopped |-> "stopped", halt |-> "halted"]

Steps == DOMAIN Target

Points == {"off", "loop", "claimed", "acquire", "release", "acknowledge", "fail",
           "renew", "cycle", "dead"} \cup Steps

TypeOK ==
  /\ command \in [Commands ->
       [status : {"absent", "inserted", "queued", "processing", "succeeded",
                  "failed"},
        token : Processes \cup {None}, live : BOOLEAN]]
  /\ worker \in [status : Statuses, revision : Nat]
  /\ applied \subseteq Commands \X Steps
  /\ lease \in [generation : Commands \cup {None}, owner : Ids \cup {None},
                live : BOOLEAN]
  /\ pc \in [Processes -> Points]
  /\ claim \in [Processes -> Commands \cup {None}]
  /\ seen \in [Processes -> Nat \cup {None}]
  /\ held \in [Processes -> Commands \cup {None}]
  /\ late \subseteq Commands

Init ==
  /\ command = [c \in Commands |-> [status |-> "absent", token |-> None,
                                    live |-> FALSE]]
  /\ worker = [status |-> "stopped", revision |-> 0]
  /\ applied = {}
  /\ lease = [generation |-> None, owner |-> None, live |-> FALSE]
  /\ pc = [p \in Processes |-> "off"]
  /\ claim = [p \in Processes |-> None]
  /\ seen = [p \in Processes |-> None]
  /\ held = [p \in Processes |-> None]
  /\ late = {}

-----------------------------------------------------------------------------
(* Helpers *)

Running(p) == pc[p] \notin {"off", "dead"}

Goto(p, point) == pc' = [pc EXCEPT ![p] = point]

\* The row _owned_update finds: processing, this claim's token, lease live.
Owns(p) ==
  /\ command[claim[p]].status = "processing"
  /\ command[claim[p]].token = p
  /\ command[claim[p]].live

\* The row renew_workload_lease and release_workload_lease find.
CanRenew(p) ==
  /\ held[p] # None
  /\ lease.generation = held[p]
  /\ lease.owner = IdOf[p]
  /\ lease.live

\* The row acquire_workload_lease finds for a generation.
CanAcquire(p, generation) ==
  \/ lease.generation = None
  \/ ~lease.live
  \/ lease.owner = IdOf[p] /\ lease.generation = generation

\* run_once has returned: run_worker polls if the host holds a generation.
AfterRun(p) == IF held[p] = None THEN "loop" ELSE "renew"

\* Mutant: an exception after the workload has started acknowledges.
OnError_Acknowledges(point) ==
  IF point = "acquire" THEN "degrade"
  ELSE IF point = "release" THEN "halt"
  ELSE IF point \in (Steps \ {"started"}) \cup {"claimed"} THEN "fail"
  ELSE IF point = "started" THEN "acknowledge"
  ELSE "dead"

\* Where an exception goes: the except clauses of _execute, then the one of
\* run_once, and out of run_worker's loop for whatever is not inside them.
OnError(point) ==
  IF point = "acquire" THEN "degrade"
  ELSE IF point = "release" THEN "halt"
  ELSE IF point \in Steps \cup {"claimed"} THEN "fail"
  ELSE "dead"

\* An exception at the present point.
Raises(p) ==
  LET next == OnError(pc[p]) IN
  /\ Goto(p, next)
  /\ seen' = [seen EXCEPT ![p] = None]
  /\ held' = IF next = "dead" THEN [held EXCEPT ![p] = None] ELSE held
  /\ UNCHANGED <<command, worker, applied, lease, claim, late>>

-----------------------------------------------------------------------------
(* The queue *)

\* An API request inserts its command, which draws the next queue_sequence ...
Insert(c) ==
  /\ command[c].status = "absent"
  /\ \A d \in Commands : d < c => command[d].status # "absent"
  /\ \A d \in Commands :
       ClientOf[d] = ClientOf[c] => command[d].status # "inserted"
  /\ command' = [command EXCEPT ![c].status = "inserted"]
  /\ UNCHANGED <<worker, applied, lease, pc, claim, seen, held, late>>

\* A command with a later queue_sequence is being processed, or is finished.
Overtaken(c) ==
  \E d \in Commands :
    c < d /\ command[d].status \in {"processing", "succeeded", "failed"}

\* ... and commits; until then no other transaction sees it.
Commit(c) ==
  /\ command[c].status = "inserted"
  /\ command' = [command EXCEPT ![c].status = "queued"]
  /\ late' = IF Overtaken(c) THEN late \cup {c} ELSE late
  /\ UNCHANGED <<worker, applied, lease, pc, claim, seen, held>>

\* Mutant: rows another consumer is processing are skipped.
Oldest_SkipsBusy(c) ==
  /\ command[c].status = "queued"
  /\ \A d \in Commands : command[d].status = "queued" => c <= d

\* The candidate of claim: the oldest command in the queue or in processing.
Oldest(c) ==
  LET active == {d \in Commands : command[d].status \in {"queued", "processing"}}
  IN c \in active /\ \A d \in active : c <= d

\* Mutant: a command in processing is left to its claimant for ever.
Busy_Forever(c) == command[c].status = "processing"

\* Its claimant's lease has not expired.
Busy(c) == command[c].status = "processing" /\ command[c].live

Claim(p) ==
  /\ pc[p] = "loop"
  /\ \E c \in Commands :
       /\ Oldest(c)
       /\ ~Busy(c)
       /\ command' = [command EXCEPT ![c] =
            [status |-> "processing", token |-> p, live |-> TRUE]]
       /\ claim' = [claim EXCEPT ![p] = c]
  /\ Goto(p, "claimed")
  /\ UNCHANGED <<worker, applied, lease, seen, held, late>>

\* claim returns None, and there is a workload to poll.
ClaimNothing(p) ==
  /\ pc[p] = "loop"
  /\ held[p] # None
  /\ \A c \in Commands : Oldest(c) => Busy(c)
  /\ Goto(p, "renew")
  /\ UNCHANGED <<command, worker, applied, lease, claim, seen, held, late>>

\* The heartbeat right before the side effects, and the dispatch of _execute.
Heartbeat(p) ==
  /\ pc[p] = "claimed"
  /\ \/ /\ Owns(p)
        /\ Goto(p, ActionOf[claim[p]])
        /\ UNCHANGED <<command, worker, applied, lease, claim, seen, held, late>>
     \/ ~Owns(p) /\ Raises(p)

\* Mutant: a claim that was fenced is given up without an exception.
Finish_ToleratesFence(p) ==
  /\ pc[p] \in {"acknowledge", "fail"}
  /\ command' = IF Owns(p) THEN [command EXCEPT ![claim[p]].status =
       IF pc[p] = "acknowledge" THEN "succeeded" ELSE "failed"] ELSE command
  /\ Goto(p, AfterRun(p))
  /\ UNCHANGED <<worker, applied, lease, claim, seen, held, late>>

\* acknowledge and fail, then back to run_worker; a fenced claim raises.
Finish(p) ==
  /\ pc[p] \in {"acknowledge", "fail"}
  /\ \/ /\ Owns(p)
        /\ command' = [command EXCEPT ![claim[p]].status =
             IF pc[p] = "acknowledge" THEN "succeeded" ELSE "failed"]
        /\ Goto(p, AfterRun(p))
        /\ UNCHANGED <<worker, applied, lease, claim, seen, held, late>>
     \/ ~Owns(p) /\ Raises(p)

-----------------------------------------------------------------------------
(* PaperWorkerControl._transition *)

\* What _execute does once the transition is on record.
AfterStep ==
  [start |-> "acquire", started |-> "acknowledge", degrade |-> "fail",
   stop |-> "release", stopped |-> "acknowledge", halt |-> "fail"]

\* The replay lookup, the kill-switch gate (start only) and the read of the
\* current state.  A failure, of the gate too, is DatabaseFails.
ReadWorker(p) ==
  LET step == pc[p] IN
  /\ step \in Steps
  /\ seen[p] = None
  /\ \/ /\ <<claim[p], step>> \in applied
        /\ Goto(p, AfterStep[step])
        /\ UNCHANGED <<command, worker, applied, lease, claim, seen, held, late>>
     \/ /\ <<claim[p], step>> \notin applied
        /\ worker.status \in Allowed[step]
        /\ seen' = [seen EXCEPT ![p] = worker.revision]
        /\ UNCHANGED <<command, worker, applied, lease, pc, claim, held, late>>
     \/ /\ <<claim[p], step>> \notin applied
        /\ worker.status \notin Allowed[step]
        /\ Raises(p)

\* Mutant: the state read before is not compared with the row.
PersistWorker_Blindly(p) ==
  LET step == pc[p] IN
  /\ step \in Steps
  /\ seen[p] # None
  /\ applied' = applied \cup {<<claim[p], step>>}
  /\ worker' = [status |-> Target[step], revision |-> worker.revision + 1]
  /\ seen' = [seen EXCEPT ![p] = None]
  /\ Goto(p, AfterStep[step])
  /\ UNCHANGED <<command, lease, claim, held, late>>

\* persist: replay, or compare the row with the state read and write both the
\* state and the transition, or WorkerStateConflictError.
PersistWorker(p) ==
  LET step == pc[p] IN
  /\ step \in Steps
  /\ seen[p] # None
  /\ \/ /\ <<claim[p], step>> \in applied
        /\ UNCHANGED <<worker, applied>>
        /\ seen' = [seen EXCEPT ![p] = None]
        /\ Goto(p, AfterStep[step])
        /\ UNCHANGED <<command, lease, claim, held, late>>
     \/ /\ <<claim[p], step>> \notin applied
        /\ worker.revision = seen[p]
        /\ applied' = applied \cup {<<claim[p], step>>}
        /\ worker' = [status |-> Target[step], revision |-> worker.revision + 1]
        /\ seen' = [seen EXCEPT ![p] = None]
        /\ Goto(p, AfterStep[step])
        /\ UNCHANGED <<command, lease, claim, held, late>>
     \/ /\ <<claim[p], step>> \notin applied
        /\ worker.revision # seen[p]
        /\ Raises(p)

-----------------------------------------------------------------------------
(* PaperWorkloadHost *)

\* start, with the generation derived from the command.  A process claims a
\* START once, so it never finds that generation already in its own hands.
Acquire(p) ==
  /\ pc[p] = "acquire"
  /\ \/ /\ held[p] = None
        /\ CanAcquire(p, claim[p])
        /\ lease' = [generation |-> claim[p], owner |-> IdOf[p], live |-> TRUE]
        /\ held' = [held EXCEPT ![p] = claim[p]]
        /\ Goto(p, "started")
        /\ UNCHANGED <<command, worker, applied, claim, seen, late>>
     \/ ~(held[p] = None /\ CanAcquire(p, claim[p])) /\ Raises(p)

\* Mutant: a process without a generation has nothing to stop.
Release_NothingHeld(p) ==
  /\ pc[p] = "release"
  /\ \/ /\ held[p] = None \/ CanRenew(p)
        /\ lease' = IF CanRenew(p) THEN [generation |-> None, owner |-> None,
                                         live |-> FALSE] ELSE lease
        /\ held' = [held EXCEPT ![p] = None]
        /\ Goto(p, "stopped")
        /\ UNCHANGED <<command, worker, applied, claim, seen, late>>
     \/ held[p] # None /\ ~CanRenew(p) /\ Raises(p)

\* _execute's check of active_generation, and stop.
Release(p) ==
  /\ pc[p] = "release"
  /\ \/ /\ CanRenew(p)
        /\ lease' = [generation |-> None, owner |-> None, live |-> FALSE]
        /\ held' = [held EXCEPT ![p] = None]
        /\ Goto(p, "stopped")
        /\ UNCHANGED <<command, worker, applied, claim, seen, late>>
     \/ ~CanRenew(p) /\ Raises(p)

\* poll_once: the renewal immediately before a cycle ...
Renew(p) ==
  /\ pc[p] = "renew"
  /\ \/ /\ CanRenew(p)
        /\ Goto(p, "cycle")
        /\ UNCHANGED <<command, worker, applied, lease, claim, seen, held, late>>
     \/ ~CanRenew(p) /\ Raises(p)

\* ... and run_cycle; then the next market, or the next turn of the loop.
RunCycle(p) ==
  /\ pc[p] = "cycle"
  /\ \E next \in {"renew", "loop"} : Goto(p, next)
  /\ UNCHANGED <<command, worker, applied, lease, claim, seen, held, late>>

-----------------------------------------------------------------------------
(* Processes, clock and failures *)

\* No two processes that run at once share a hostname and a pid.
Boot(p) ==
  /\ pc[p] = "off"
  /\ \A q \in Processes : IdOf[q] = IdOf[p] => ~Running(q)
  /\ Goto(p, "loop")
  /\ UNCHANGED <<command, worker, applied, lease, claim, seen, held, late>>

\* A transaction, or the kill-switch gate of a start, raises.
DatabaseFails(p) ==
  /\ p \notin Steady
  /\ Running(p)
  /\ Raises(p)

Crash(p) ==
  /\ p \notin Steady
  /\ Running(p)
  /\ Goto(p, "dead")
  /\ held' = [held EXCEPT ![p] = None]
  /\ seen' = [seen EXCEPT ![p] = None]
  /\ UNCHANGED <<command, worker, applied, lease, claim, late>>

CommandLeaseExpires(c) ==
  /\ Busy(c)
  /\ command[c].token \notin Steady
  /\ command' = [command EXCEPT ![c].live = FALSE]
  /\ UNCHANGED <<worker, applied, lease, pc, claim, seen, held, late>>

WorkloadLeaseExpires ==
  /\ lease.live
  /\ \A p \in Steady : ~CanRenew(p)
  /\ lease' = [lease EXCEPT !.live = FALSE]
  /\ UNCHANGED <<command, worker, applied, pc, claim, seen, held, late>>

Work(p) ==
  \/ Claim(p) \/ ClaimNothing(p) \/ Heartbeat(p) \/ Finish(p)
  \/ ReadWorker(p) \/ PersistWorker(p)
  \/ Acquire(p) \/ Release(p) \/ Renew(p) \/ RunCycle(p)

Next ==
  \/ \E p \in Processes : Work(p) \/ Boot(p) \/ DatabaseFails(p) \/ Crash(p)
  \/ \E c \in Commands : Insert(c) \/ Commit(c) \/ CommandLeaseExpires(c)
  \/ WorkloadLeaseExpires

\* The clock passes every lease that is not renewed, a steady process is
\* started and takes its steps, and its markets are finitely many.  Nothing is
\* assumed of any other process.
Fairness ==
  /\ \A c \in Commands : WF_vars(CommandLeaseExpires(c))
  /\ \A p \in Steady :
       /\ WF_vars(Boot(p))
       /\ WF_vars(Work(p))
       /\ SF_vars(RunCycle(p) /\ pc'[p] = "loop")

Spec == Init /\ [][Next]_vars /\ Fairness

-----------------------------------------------------------------------------

\* Of two commands that are processed at once the earlier one was committed
\* only when the later one had been claimed: no STOP overtakes a START it could
\* have seen, through takeovers, crashes and fenced consumers, and however many
\* API threads enqueue.
OneCommandAtATime ==
  \A c, d \in Commands :
    /\ c < d
    /\ command[c].status = "processing" /\ command[d].status = "processing"
    => c \in late

\* Once the worker is recorded as stopped no process that is back in its loop
\* can pass the fence of another market: whoever recorded it has released the
\* one lease that was live, also when commands became visible out of order.
StoppedIsQuiet ==
  worker.status = "stopped" =>
    \A p \in Processes : pc[p] \in {"loop", "renew"} => ~CanRenew(p)

\* A process polls a workload only after the START it belongs to has been
\* answered, so that nothing runs for a command a later consumer will replay.
PollsAreAnswered ==
  \A p \in Processes : pc[p] \in {"renew", "cycle"} =>
    command[held[p]].status \in {"succeeded", "failed"}

\* A command that succeeded has had its effect, across takeovers and replays.
SuccessIsEffective ==
  \A c \in Commands : command[c].status = "succeeded" =>
    <<c, IF ActionOf[c] = "start" THEN "started" ELSE "stopped">> \in applied

\* The worker's status moves only along the transitions PaperWorkerControl
\* allows, although every caller decides on a state it read earlier.
StatusMovesLegally ==
  [][worker' # worker =>
       \E step \in Steps : /\ worker.status \in Allowed[step]
                           /\ worker'.status = Target[step]]_vars

\* A command in the queue is finished, if one process stays up: the command of
\* a dead consumer does not block the queue for ever.
EveryCommandEnds ==
  \A c \in Commands :
    command[c].status = "queued" ~> command[c].status \in {"succeeded", "failed"}
=============================================================================
