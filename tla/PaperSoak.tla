----------------------------- MODULE PaperSoak ------------------------------
(***************************************************************************)
(* A bounded PAPER soak: PaperSoakRunner starts the worker through the     *)
(* control API, samples status, dashboard and events at a fixed cadence,   *)
(* stops the worker in its finally clause and leaves an evidence file that *)
(* SoakEvaluation judges.  The runner, the control plane and the worker    *)
(* are separate processes joined by HTTP: a request may be refused, and    *)
(* its answer may be lost after it took effect.                            *)
(*                                                                         *)
(* The API's part is enqueue_command with its symbol preflight and the     *)
(* idempotent queue; what executes a command (PaperControl) is reduced to  *)
(* its outcome.  The operator may run the same run id once more with a new *)
(* evidence path.  Time is counted in seconds, on one clock: the wall      *)
(* clock that stamps the evidence (datetime.now) and the monotonic one     *)
(* that paces the runner are taken to agree, so a wall clock that is set   *)
(* during a soak is outside the model.                                     *)
(***************************************************************************)
EXTENDS SoakEvaluation

CONSTANTS
    Requested,       \* the symbols of the run
    Resolutions,     \* what the symbol preflight may answer
    Duration, Interval, CommandTimeout,
    PageLimit,       \* orders, fills and events an answer of the API holds
    MaxTime, MaxOrders, MaxChanges, MaxFaults, MaxRuns,  \* bounds
    Nothing

ASSUME CadenceAssumption ==
    /\ {Duration, Interval} \subseteq Nat \ {0}
    /\ Duration % Interval = 0
ASSUME BoundAssumption ==
    {CommandTimeout, PageLimit, MaxTime, MaxOrders, MaxChanges, MaxFaults, MaxRuns}
        \subseteq Nat

VARIABLES
    now,       \* the clock every process reads, wall and monotonic
    budget,    \* changes and faults so far, and runs begun
    resolved,  \* what the symbol preflight answers now
    queue,     \* the commands of the run id, by action
    plane,     \* is the worker working, are the dependencies healthy
    orders,    \* how many orders there are, numbered as they were created
    fills,     \* the orders' fills, in the order they happened
    events,    \* the accounting events, each with its reason code
    runner,    \* PaperSoakRunner: where it is, and its ObservationState
    evidence,  \* PaperSoakRunner._evidence
    disk       \* the evidence file

soakVars == <<now, budget, resolved, queue, plane, orders, fills, events, runner,
          evidence, disk>>
world   == <<now, budget, resolved, queue, plane, orders, fills, events>>
trading == <<plane, orders, fills, events>>

Fresh == [pc |-> "idle", started |-> FALSE, deadline |-> 0, index |-> 0, base |-> 0,
          ready |-> FALSE, seen |-> {}, unknown |-> {}, critical |-> 0, cursor |-> 0]

SoakPoints == {"idle", "start", "await start", "status", "orders", "fills", "events",
               "stop", "await stop", "ended", "killed"}

RunnerState == [pc : SoakPoints, started : BOOLEAN, deadline : Nat, index : Nat,
                base : Nat, ready : BOOLEAN, seen : SUBSET (1..MaxOrders),
                unknown : SUBSET (1..MaxOrders), critical : Nat, cursor : Nat]
Sample == [at : Nat, ready : BOOLEAN, orders : Nat, audited : Nat,
           duplicates : {0}, unknown : Nat, critical : Nat]
Incident == [at : Nat, severity : {"critical"}]
Evidence == [started_at : Nat, duration : {Duration}, interval : {Interval},
             samples : Seq(Sample), incidents : Seq(Incident)]
ASSUME NothingAssumption == Nothing \notin Evidence

(* What a start was requested with, if a command is queued, and a stop.    *)
Hashes == {Nothing, {}} \cup {{answer[i].specification : i \in DOMAIN answer} :
                                    answer \in Resolutions}
RunCommands == [{"start", "stop"} ->
                  [status : {"absent", "queued", "succeeded", "failed"}, hash : Hashes]]

SoakTypeOK ==
    /\ now \in 0..MaxTime
    /\ resolved \in Resolutions
    /\ queue \in RunCommands
    /\ plane \in [working : BOOLEAN, healthy : BOOLEAN]
    /\ orders \in 0..MaxOrders
    /\ fills \in Seq(1..MaxOrders)
    /\ events \in Seq({"PAPER_FILL_ACCOUNTED"})
    /\ runner \in RunnerState
    /\ evidence \in Evidence \cup {Nothing}
    /\ disk \in Evidence \cup {Nothing}

SoakInit ==
    /\ now = 0
    /\ budget = [changes |-> 0, faults |-> 0, runs |-> 0]
    /\ resolved \in Resolutions
    /\ queue = [action \in {"start", "stop"} |-> [status |-> "absent", hash |-> Nothing]]
    /\ plane = [working |-> FALSE, healthy |-> TRUE]
    /\ orders = 0
    /\ fills = <<>>
    /\ events = <<>>
    /\ runner = Fresh
    /\ evidence = Nothing
    /\ disk = Nothing

At(pc) == runner.pc = pc
Fault  == /\ budget.faults < MaxFaults
          /\ budget' = [budget EXCEPT !.faults = @ + 1]
Change == /\ budget.changes < MaxChanges
          /\ budget' = [budget EXCEPT !.changes = @ + 1]

-----------------------------------------------------------------------------
(* The control API *)

(* _validate_symbol_preflight: every symbol resolves exactly once, to an   *)
(* active and current specification, all in one quote currency.            *)
PreflightPasses(answer) ==
    LET items == {answer[i] : i \in DOMAIN answer}
    IN  /\ {item.symbol : item \in items} = Requested
        /\ Len(answer) = Cardinality(Requested)
        /\ \A item \in items : item.active /\ ~item.stale
        /\ Cardinality({item.currency : item \in items}) = 1

(* The canonical request includes the specifications the preflight found   *)
(* at that moment, not only what the client sent.                          *)
RequestHash(action) ==
    IF action = "start"
    THEN {resolved[i].specification : i \in DOMAIN resolved}
    ELSE {}

(* enqueue_command and the repository's enqueue, for the one key the run   *)
(* id and the action give: HTTP 422, 202 for a new or a replayed command,  *)
(* 409 when the key is bound to another request.                           *)
Response(action) ==
    CASE action = "start" /\ ~PreflightPasses(resolved) -> 422
      [] OTHER ->
            IF queue[action].status # "absent" /\ queue[action].hash # RequestHash(action)
            THEN 409 ELSE 202

Enqueued(action) ==
    IF Response(action) = 202 /\ queue[action].status = "absent"
    THEN [queue EXCEPT ![action] = [status |-> "queued", hash |-> RequestHash(action)]]
    ELSE queue

-----------------------------------------------------------------------------
(* PaperSoakRunner.run *)

(* Mutant: an incident is dated at the moment it is recorded.              *)
RecordIncident_AtNow ==
    Append(evidence.incidents, [at |-> now, severity |-> "critical"])

(* _record_incident: dated at the last sample, before the first at the     *)
(* start.                                                                  *)
RecordIncident ==
    Append(evidence.incidents,
           [at |-> IF evidence.samples = <<>> THEN evidence.started_at
                   ELSE Last(evidence.samples).at,
            severity |-> "critical"])

(* _preflight, the new evidence and its first write.                       *)
Begin ==
    /\ At("idle")
    /\ budget.runs < MaxRuns
    /\ budget' = [budget EXCEPT !.runs = @ + 1]
    /\ runner' = [Fresh EXCEPT !.pc = "start"]
    /\ evidence' = [started_at |-> now, duration |-> Duration, interval |-> Interval,
                    samples |-> <<>>, incidents |-> <<>>]
    /\ disk' = evidence'
    /\ UNCHANGED <<now, resolved, queue, trading>>

(* The except and finally clauses: the incident, the controlled stop if    *)
(* started is set, and the last write of the evidence.                     *)
Fails(started) ==
    /\ evidence' = [evidence EXCEPT !.incidents = RecordIncident]
    /\ IF started
       THEN runner' = [runner EXCEPT !.pc = "stop"] /\ UNCHANGED disk
       ELSE runner' = [runner EXCEPT !.pc = "ended"] /\ disk' = evidence'

StopFails ==
    /\ evidence' = [evidence EXCEPT !.incidents = RecordIncident]
    /\ disk' = evidence'
    /\ runner' = [runner EXCEPT !.pc = "ended"]

(* _control: the POST is answered, or fails without or after its effect.   *)
Await(pc) == runner' = [runner EXCEPT !.pc = pc, !.deadline = now + CommandTimeout,
                                      !.started = TRUE]

PostStart ==
    /\ At("start")
    /\ queue' = Enqueued("start")
    /\ IF Response("start") = 202
       THEN Await("await start") /\ UNCHANGED <<evidence, disk>>
       ELSE Fails(FALSE)
    /\ UNCHANGED <<now, budget, resolved, trading>>

StartIsLost ==
    /\ At("start")
    /\ Fault
    /\ queue' \in {queue, Enqueued("start")}
    /\ Fails(FALSE)
    /\ UNCHANGED <<now, resolved, trading>>

PostStop ==
    /\ At("stop")
    /\ queue' = Enqueued("stop")
    /\ Await("await stop")
    /\ UNCHANGED <<now, budget, resolved, trading, evidence, disk>>

StopIsLost ==
    /\ At("stop")
    /\ Fault
    /\ queue' \in {queue, Enqueued("stop")}
    /\ StopFails
    /\ UNCHANGED <<now, resolved, trading>>

(* _wait_for_command for the start; polls that see neither outcome change  *)
(* nothing.  Success restarts the manifest's clock and the cadence.        *)
StartSucceeded ==
    /\ At("await start")
    /\ now < runner.deadline
    /\ queue["start"].status = "succeeded"
    /\ evidence' = [evidence EXCEPT !.started_at = now]
    /\ disk' = evidence'
    /\ runner' = [runner EXCEPT !.pc = "status", !.base = now]
    /\ UNCHANGED world

StartNotSeen ==
    /\ At("await start")
    /\ \/ now < runner.deadline /\ queue["start"].status = "failed" /\ UNCHANGED budget
       \/ now >= runner.deadline /\ UNCHANGED budget
       \/ Fault
    /\ Fails(TRUE)
    /\ UNCHANGED <<now, resolved, queue, trading>>

StopSucceeded ==
    /\ At("await stop")
    /\ now < runner.deadline
    /\ queue["stop"].status = "succeeded"
    /\ disk' = evidence
    /\ runner' = [runner EXCEPT !.pc = "ended"]
    /\ UNCHANGED <<world, evidence>>

StopNotSeen ==
    /\ At("await stop")
    /\ \/ now < runner.deadline /\ queue["stop"].status = "failed" /\ UNCHANGED budget
       \/ now >= runner.deadline /\ UNCHANGED budget
       \/ Fault
    /\ StopFails
    /\ UNCHANGED <<now, resolved, queue, trading>>

-----------------------------------------------------------------------------
(* _capture_sample *)

(* Mutant: the sample at the end of the duration is not taken.             *)
SampleCount_Exclusive == Duration \div Interval

SampleCount == Duration \div Interval + 1

Newest(n) == IF n > PageLimit THEN (n - PageLimit + 1)..n ELSE 1..n

(* The status is read when the deadline of the sample has come.            *)
ReadStatus ==
    /\ At("status")
    /\ now >= runner.base + runner.index * Interval
    /\ runner' = [runner EXCEPT !.pc = "orders", !.ready = plane.healthy]
    /\ UNCHANGED <<world, evidence, disk>>

(* get_snapshot reads worker and dependencies, then the newest orders, and *)
(* then, in a statement of its own, the newest fills.                      *)
ReadOrders ==
    /\ At("orders")
    /\ runner' = [runner EXCEPT !.pc = "fills",
                     !.ready = @ /\ plane.working /\ plane.healthy,
                     !.seen = @ \cup Newest(orders)]
    /\ UNCHANGED <<world, evidence, disk>>

(* A fill of an order not observed yet is an unknown order for the rest of *)
(* the run.                                                                *)
ReadFills ==
    /\ At("fills")
    /\ runner' = [runner EXCEPT !.pc = "events",
                     !.unknown = @ \cup ({fills[i] : i \in Newest(Len(fills))}
                                         \ runner.seen)]
    /\ UNCHANGED <<world, evidence, disk>>

(* One page of events, then the sample and the evidence file.  Two samples *)
(* never bear the same time.                                               *)
TakeSample ==
    /\ At("events")
    /\ evidence.samples # <<>> => now > Last(evidence.samples).at
    /\ LET page     == SubSeq(events, runner.cursor + 1,
                              IF runner.cursor + PageLimit < Len(events)
                              THEN runner.cursor + PageLimit ELSE Len(events))
           critical == runner.critical + Count(page, LAMBDA reason : reason = "CRITICAL")
           observed == Cardinality(runner.seen)
           last     == runner.index + 1 = SampleCount
       IN  /\ evidence' = [evidence EXCEPT !.samples = Append(@,
                  [at |-> now, ready |-> runner.ready, orders |-> observed,
                   audited |-> observed, duplicates |-> 0,
                   unknown |-> Cardinality(runner.unknown), critical |-> critical])]
           /\ disk' = evidence'
           /\ runner' = [runner EXCEPT !.pc = IF last THEN "stop" ELSE "status",
                            !.index = @ + 1, !.critical = critical,
                            !.cursor = @ + Len(page)]
    /\ UNCHANGED world

SampleFails ==
    /\ \E pc \in {"status", "orders", "fills", "events"} : At(pc)
    /\ Fault
    /\ Fails(TRUE)
    /\ UNCHANGED <<now, resolved, queue, trading>>

-----------------------------------------------------------------------------
(* The environment *)

(* The runner's process is killed; only the file remains.                  *)
Kill ==
    /\ runner.pc \notin {"idle", "ended"}
    /\ Fault
    /\ runner' = [Fresh EXCEPT !.pc = "killed"]
    /\ evidence' = Nothing
    /\ UNCHANGED <<now, resolved, queue, trading, disk>>

(* The operator prepares another run of the same run id.  No time of one   *)
(* run is compared with one of another, so the clock starts again.         *)
Again ==
    /\ runner.pc \in {"ended", "killed"}
    /\ budget.runs < MaxRuns
    /\ runner' = Fresh
    /\ disk' = Nothing
    /\ evidence' = Nothing
    /\ now' = 0
    /\ UNCHANGED <<budget, resolved, queue, trading>>

Tick ==
    /\ now < MaxTime
    /\ runner.pc \notin {"idle", "ended", "killed"}
    /\ now' = now + 1
    /\ UNCHANGED <<budget, resolved, queue, trading, runner, evidence, disk>>

(* The worker's host executes the oldest command.                          *)
Execute(action, status) ==
    /\ queue[action].status = "queued"
    /\ action = "stop" => queue["start"].status # "queued"
    /\ queue' = [queue EXCEPT ![action].status = status]
    /\ plane' = [plane EXCEPT !.working =
                    IF status = "succeeded" THEN action = "start" ELSE @]
    /\ UNCHANGED <<now, budget, resolved, orders, fills, events, runner, evidence, disk>>

HealthChanges ==
    /\ Change
    /\ plane' = [plane EXCEPT !.healthy = ~@]
    /\ UNCHANGED <<now, resolved, queue, orders, fills, events, runner, evidence, disk>>

SpecificationChanges ==
    /\ Change
    /\ \E answer \in Resolutions \ {resolved} : resolved' = answer
    /\ UNCHANGED <<now, queue, trading, runner, evidence, disk>>

(* The worker places an order, which fills and is accounted for at once,   *)
(* or rests.  The events endpoint shows accounted fills and nothing else.  *)
PlaceOrder(filled) ==
    /\ plane.working
    /\ orders < MaxOrders
    /\ orders' = orders + 1
    /\ fills' = IF filled THEN Append(fills, orders') ELSE fills
    /\ events' = IF filled THEN Append(events, "PAPER_FILL_ACCOUNTED") ELSE events
    /\ UNCHANGED <<now, budget, resolved, queue, plane, runner, evidence, disk>>

Run ==
    \/ Begin \/ PostStart \/ StartIsLost \/ StartSucceeded \/ StartNotSeen
    \/ ReadStatus \/ ReadOrders \/ ReadFills \/ TakeSample \/ SampleFails
    \/ PostStop \/ StopIsLost \/ StopSucceeded \/ StopNotSeen

SoakNext ==
    \/ Run \/ Kill \/ Again \/ Tick
    \/ \E action \in {"start", "stop"}, status \in {"succeeded", "failed"} :
            Execute(action, status)
    \/ HealthChanges \/ SpecificationChanges
    \/ \E filled \in BOOLEAN : PlaceOrder(filled)

SoakSpec == SoakInit /\ [][SoakNext]_soakVars

-----------------------------------------------------------------------------
(* EvidenceIsAccepted: whatever the runner met and whenever it died, the   *)
(* evaluator reads the file it left, once it holds a sample, without an    *)
(* error: samples ascend, cumulative counts never fall, and the incidents  *)
(* lie within the observed run.                                            *)
EvidenceIsAccepted ==
    (disk # Nothing /\ disk.samples # <<>>) => ~Malformed(disk)

(* OnTimeRunPasses: a run without incident, each of whose samples was      *)
(* taken within the tolerance of its deadline and saw nothing wrong, is    *)
(* given a PASS: the runner's cadence and the evaluator's gates fit.       *)
OnTimeRunPasses ==
    (/\ At("ended")
     /\ disk.incidents = <<>>
     /\ \A i \in DOMAIN disk.samples :
            /\ disk.samples[i].at - (runner.base + (i - 1) * Interval)
                    \in 0..Tolerance(Interval)
            /\ disk.samples[i].ready
            /\ disk.samples[i].unknown = 0)
    => Verdict(disk) = "pass"

(* PassMeansStopped: a PASS of a run that ended by itself means that its   *)
(* stop command succeeded and that the worker no longer works; a worker    *)
(* the run left working is on record as an incident, also when the answer  *)
(* to the start request was lost and no stop was ever sent.  The file of a *)
(* killed runner passes only with every sample on it.                      *)
PassMeansStopped ==
    /\ At("ended") => \/ disk.incidents # <<>>
                      \/ queue["stop"].status = "succeeded" /\ ~plane.working
    /\ (disk # Nothing /\ Verdict(disk) = "pass") =>
            /\ Len(disk.samples) = Duration \div Interval + 1
            /\ At("ended") => queue["stop"].status = "succeeded" /\ ~plane.working
=============================================================================
