# QuantoraTrade in TLA+

QuantoraTrade is a PAPER-only trading system in Python on PostgreSQL.  Several
processes share one database: API threads append commands, worker processes take
them, submit approved orders, keep them durable and project their fills into an
account.  Almost every hard behaviour comes from there: two processes between two
transactions of the same row, a lease that expires under its owner, a crash between
a side effect and its record, and a lost answer.  The rest is sequential: a backtest
engine, the calculations from the broker's bars to an approved order, and the evaluation
of a soak run; there the difficulty is that several computations must agree.

This directory models those parts (TLA+), model-checks them (TLC) and proves the most
important facts about them (TLAPS).  All paths below `src/` are those of the
repository; Python files are under `src/quantora_trade/`.

## 1. Inventory

| Part | State | Operations | Interacts with |
| --- | --- | --- | --- |
| `risk/submission.py`, `submission_repository.py` | `submission_journal` rows (hash, owner, lease, state); `_owners` in memory | `submit`; `claim`, `complete`, `mark_unknown`, `abandon`, `recover_expired`, `reconcile_completed` | kill switch guard, broker port, operator |
| `risk/kill_switch.py`, `kill_switch_repository.py` | state row per scope, append-only audit, advisory locks | `activate`, `deactivate`, `is_blocked`, `submission_guard` | submission, worker control, cycle runner |
| `execution/service.py` | none | `submit`, `lookup`, `get_order` | the durable adapter |
| `execution/paper.py`, `lifecycle.py` | orders in memory | `submit`, `add_liquidity`, `cancel`, `expire`, `restore`, `reconcile` | wrapped by the durable adapter |
| `execution/durable.py`, `order_repository.py` | order, event and fill rows | the same, with optimistic writes | accounting reads the fills |
| `accounting/`, `accounting_repository.py` | account and position rows, event ledger, mark events | `initialize`, `project_fill`, `mark` | event projector |
| `execution/runtime.py`, `paper_operations.py` | none | `run_once`, `emit`, `run_cycle` | submission, accounting, audit, alerts |
| `command_repository.py` | `system_commands` queue | `enqueue`, `claim`, `heartbeat`, `acknowledge`, `fail` | API threads, worker processes |
| `paper_worker.py`, `worker_repository.py` | one worker row (status, workload lease), transitions | `start` ... `recover`; `acquire`, `renew`, `release` | consumer, host |
| `paper_command_consumer.py`, `paper_host.py`, `runtime/windows.py` | generation held in memory | `run_once`, `start`, `stop`, `poll_once`, the worker loop | queue, worker control, cycle runner |
| `api/` | none | enqueue, validation, reads | command queue |
| `risk/engine.py`, `exposure.py`, `approval.py`, `decision.py` | none | pure decisions and sizing | evidence for submission |
| `backtesting/` | immutable engine, portfolio, journal | `submit`, bar steps, reports | strategy, research |
| `market_data/`, `market_data_repository.py`, `infrastructure/mt5/` | candles, issues | fetch, classify, upsert | cycle runner, research |
| `strategy/`, `research/` | series; registry of models | indicators, signals, datasets, walk-forward | backtesting |
| `notifications/`, `monitoring/`, `dashboard/` | last delivery per key | publish, evaluate, read | projector, API |
| `validation/` | observation state of a soak | run, sample, evaluate | API |
| `config/`, `domain/`, `scripts/`, web `dashboard/` | settings, value types | parsing, presentation | all |

The behaviours that are hard, and the properties that make a part correct:

- **Submission.**  Claims, lease expiry, recovery, crashes and the kill switch
  interleave around one irreversible call.  Correct: one order per key; an order never
  loses its claim; "completed" is only said of an order that exists; no order while
  halted.
- **Kill switch.**  Unlocked reads, locks taken one statement at a time, clocks of
  different operators.  Correct: a call is clear while its guard has its session; guards cannot
  block each other in a circle; audit and state agree.
- **Control.**  Takeovers and late answers of fenced consumers, three writes per
  command.  Correct: commands overlap only when one commits late, a stopped worker is quiet, a success has
  had its effect, the worker's status moves legally, every command is answered.
- **Durable orders.**  Torn reads, optimistic writes, retries after lost answers.
  Correct: the record only grows, is consistent, and one call fills at most once.
- **Accounting.**  Replay, concurrency, stale identity-mapped rows, decimal rounding.
  Correct: the ledger explains the positions, money is conserved within rounding, the
  account adds up.
- **Operations.**  A submission, its durable order and its projection are three
  transactions of two processes.  Correct: a fresh result is projected in full, a fill
  of it that the ledger lacks was alerted unless the alert failed or its process died, and a
  closed gate stops a cycle after at most one order.
- **Backtest.**  One portfolio is touched by entries, exits and marks of several symbols
  in one step.  Correct: four books of the same money agree, a signal has one fate, a
  protective level is honoured pessimistically, the report adds up, no entry knows more
  than its open.
- **Soak.**  Start, samples and stop travel over HTTP and the runner may die.  Correct:
  the file it leaves is evidence the evaluator accepts, an undisturbed run passes, a
  PASS means that the worker was stopped.
- **Calculations.**  Market-data checks, indicators, labels, walk-forward folds, signal,
  decision, sizing.  Correct: usable data is sound, features are causal, no label leaks
  into an earlier partition, an intent risks no more than was granted.

`PROJECT.json` lists every component with its status and every hazard at its line.

## 2. Modules

| Module | Models | State | Actions |
| --- | --- | --- | --- |
| `OneShotOrder` | what submission promises | `placed`, `outcome` | `Place`, `Confirm`, `Doubt` |
| `OrderSubmission` | the submission path on several hosts | `journal` (rows), `owners` (`_owners` of each host), `active` scopes, `expired` decisions, `placed` orders, one `pc` per invocation | one action per transaction, lock or broker step of `submit` and `recover_expired`; `ReconcileCompleted`; lease and decision expiry; `Activate`/`Deactivate`; `Crash` |
| `KillSwitch` | transitions and guards, lock by lock | `row`, `events`, `lock`, `pc`, `request` | `Read`, `LockScope`, `Persist`; `StartGuard`, `LockNext`, `CheckClear`, `CheckBlocked`, `EndCall`; `SessionLost`, `Crash` |
| `PaperControl` | queue, consumer, worker control and host of several incarnations of `run_worker` | `command` rows, `worker` status and revision, `applied` transitions, workload `lease`, `pc`, `claim`, `seen`, `held`, history `late` | `Insert`/`Commit`, `Claim`, `Heartbeat`, `Finish`, `ReadWorker`, `PersistWorker`, `Acquire`, `Release`, `Renew`, `RunCycle`, `Boot`, failures and expiry |
| `PaperOrderLifecycle` | what one PAPER order promises | `status`, `filled` | `Submit`, `Fill`, `End` |
| `DurablePaper` | one order, several hosts | `order` on record, `memory` per host, `pc`, `op`, `work`, `expected`, `tries`, `late` | three read statements, `Restore`, `Mutate`, `Persist`, `Insert`, `Return`, `Raise`, `Crash`, `Expires` |
| `PaperAccounting` | the account of one currency | `account`, `position`, `ledger`, `observed`, `loaded` | `Initialize`, `ProjectFill`, `LoadMark`, `PersistMark`, `EndMark` |
| `PaperOperations` | `run_cycle`, `run_once`, projector and alerts of several processes | `claim`, `order`, `ledger` (durable), `worker`, `delivered` (lost in a crash), `ready`; `filled`, `heard`, `unheard`, `answered`, `late` record what happened | `StartCycle`, `DrawIntent`, `CheckAgain`, `EndCycle`; `Claim`, `Place`, `Blocked`, `SubmitRaises`, `Complete`; `EmitFill`, `Audit`, `ProjectionRaises`, `Return`; the two failures of `run_once`; `Crash`, `ReadinessChanges`, `OrderMoves` |
| `BacktestEngine` | `run_experiment` over `BacktestEngine.step`, portfolio, broker model, journal, report | `events`, `cursor`, `bar`, `phase`, `todo`, `schedule`, `pending`, `retained`, `portfolio`, `exits`, `replay`, `report`, `outcome` | `AdvanceClock`; one action per order visited (`RetainOrder`, `ExpireOrder`, `RejectOrder`, `FillOrder`) and per position (`KeepPosition`, `ClosePosition`); `MarkToMarket`, `SubmitOrder`, `NextEvent`, `Finish` |
| `SoakEvaluation` | `evaluate_paper_soak` as operators on one evidence record | | |
| `PaperSoak` | the soak runner, the control API with its idempotent queue, worker and dashboard | `runner`, `evidence`, `disk`, `queue`, `resolved`, `plane`, `orders`, `fills`, `events`, `now`, `budget` | `Begin`, `PostStart`, waits, `ReadStatus`, `ReadOrders`, `ReadFills`, `TakeSample`, failures, `PostStop`; `Kill`, `Again`; `Execute`, `PlaceOrder`, changes of health and specifications, `Tick` |
| `MarketData`, `Strategy`, `Research`, `TradeApproval` | closed bars and quality checks; indicators, structure, features; labels and walk-forward folds; signal, decision, risk, exposure, intent: pure operators, as the code has pure functions | | |
| `Selection` | what a comprehension with a condition keeps of a sequence, used by `MarketData`, `Strategy` and `Research` | | |
| `Reference` | those operators applied to every input of a bounded set | `kind`, `input` | `LoadBatch`, `ObserveHistory`, `EvaluateStudy`, `ProposeTrade` |
| `OrderSubmissionProofs`, `KillSwitchProofs`, `PaperControlProofs`, `DurablePaperProofs`, `PaperAccountingProofs`, `PaperOperationsProofs`, `BacktestEngineProofs` | the theorems about the module each is named for; in `PaperControlProofs` also those about `PaperSoak`, in `OrderSubmissionProofs` the one about intents, in `BacktestEngineProofs` those about batches, features and studies | | |
| `Sums` | lemmas about finite sums and about sorting, shared by the proofs | | |
| `MC...` | instances for TLC | | |

`OneShotOrder` and `PaperOrderLifecycle` are the abstract specifications; properties
`ImplementsOneShotOrder` and `ImplementsLifecycle` are the refinements.  An operator
`X_Y` that stands before `X` is a mutation of `X`: a plausible bug that must break a
property (section 4).

How code becomes actions:

- One action is one database transaction, one blocking lock statement or one step
  whose place between transactions matters.  Local computation belongs to the action
  that precedes or follows it.
- A `uuid4` drawn per invocation (claim owner, lease token) is the invocation itself.
- A lease is a flag, live or expired, and may expire at any moment; no clock
  arithmetic is needed because no bound on delays exists.
- `OrderSubmission` takes all locks of a guard in one step, sound for its properties
  because nothing else is done while they are collected; `KillSwitch` takes them one
  by one and shows that they cannot deadlock.  `OrderSubmission` also takes the session
  that holds them to outlive `broker.submit` unless the host dies.  In `KillSwitch` it may
  die alone (`SessionLost`): its locks go, while `is_blocked` and the broker, which work on
  other sessions, do not notice.
- In `PaperControl` a process is one incarnation of `run_worker`; worker ids
  (`hostname-pid`) may be reused by a later one.  Queue numbers are drawn at `Insert`
  and become visible at `Commit`, in any order unless one API thread sends both.
- In `DurablePaper` timestamps and prices of events and fills are replaced by the call
  that made them, which is what distinguishes two candidates of one request.
- In `PaperAccounting` an amount is an integer number of units of 10^-12, rounded half
  away from zero as `NUMERIC(30,12)` does.  `mark` works on the attributes it loaded
  without a lock, since SQLAlchemy does not refresh an identity-mapped object on a
  second SELECT, and it writes only the columns it changed.
- `ReconcileCompleted` assumes an operator who has seen the order at the broker.
- `PaperOperations` composes parts that have modules of their own, each reduced to what
  the projection sees of it: the journal to three states of a claim, the durable order to
  a snapshot with a version, accounting to the set of fills projected.  Another host may
  cancel or expire the order, or fill it further (`OrderMoves`); the properties of the passing
  run are about the fills the broker answered with (`filled`).  A cooldown is forever: a
  repetition after it tells nothing new.
- In `BacktestEngine` a price is a number of ticks and time is a number of bars.  A
  candle's shape is chosen when the replay reaches it, a signal when its bar has been
  replayed, so that a schedule need not be guessed in advance; the engine cannot tell the
  difference.  Every `ValueError` that can end an experiment is an `outcome`.  The engine
  and its clock are immutable in the code; here the variables are the current ones.
- In `PaperSoak` a request is refused, answered, or lost before or after its effect; the
  worker executes commands in order, as `PaperControl` shows in detail.  The runner's two
  clocks are one `now`: it stamps evidence with `datetime.now` and paces itself with
  `time.monotonic` (`paper_soak_runner.py:148`, 150, 251).  A wall clock that is set while
  a soak runs, backwards above all, is outside the model and its properties.
- The definitions of `PaperSoak` whose names other modules use too are called `SoakInit`,
  `SoakNext`, `SoakSpec` and so on, and those of `Reference` `NoInput`, `TakeInput` and
  `Inputs`, so that a proof module can extend them beside the module it is named for.
- The calculations are over integers.  Where the code divides decimals, the operators
  multiply across or scale by a constant (`Scale`), so only the ratios' last digits are
  lost.  In `TradeApproval` prices, money and volumes are numbers of units as small as they
  need to be, a point and a tick have a size in prices each, and fractions, ratios and
  exchange rates are in `Whole`-ths, so that every finite decimal the constructors accept
  has its place.  Recursive smoothing (EMA, RSI, ATR) and the growth
  of the zones are written with recursive functions.

## 3. Runs

| Run | Instance | Shows |
| --- | --- | --- |
| `order_submission` | 2 hosts, 1 key, 3 calls (one with another request hash), 2 recoveries, 1 scope | one order per key, sole submitter, claims and outcomes stay true, no order while halted, refinement |
| `kill_switch` | 2 operators, 2 submitters, 2 scopes, times 1..3 | calls are clear while the guard's session lives, no circular wait, audit explains state, every guard ends; deadlock checked |
| `paper_control` | START, STOP, START from 2 API threads; 3 incarnations under 2 worker ids | one command at a time but for late commits, stopped is quiet, answers before polls, legal status moves |
| `paper_control_survivor` | the same, one incarnation stays up | every command ends |
| `durable_paper` | 3 calls on 2 hosts, volume 2 | record consistent and growing, no double fill, refinement |
| `paper_accounting` | 5 fills, 3 marks, 2 instruments | ledger, conservation, account |
| `backtest` | 2 symbols, 4 intervals, 2 orders, 6 candle shapes, 2 datasets | the books reconcile in the middle of a step, one fate per signal, protection, repeated checks agree, report adds up |
| `paper_operations` | 2 processes, 2 keys, 0 or 2 fills, 1 move of each order by another host, workload 2, 1 failure, 1 loss of readiness | fresh results are projected, no silent loss, one order past the gate |
| `paper_soak` | 1 run id run up to twice, 3 samples, 1 fault, 1 change | evidence is accepted, an undisturbed run passes, PASS means stopped |
| `reference` | 3,124 batches, 4,096 histories, 2,048 studies, 55,440 trades (`MCReference`) | usable data, causal features, no leakage, safe intents |
| `look_ahead`, `unprojected_replay` | the instances of `backtest` and `paper_operations` | two of the disagreements of section 6 |

Why the bounds are enough.  Keys of `OrderSubmission` only meet in the guard, so one
key with three calls and two recoveries contains a claim, a rival, a different request,
a takeover and a takeover of the takeover, on the same and on another host.  Two scopes
and two submitters are the smallest circle of locks.  START, STOP, START is the smallest
queue in which a late consumer can meet a newer workload, and three incarnations allow
two takeovers and a reused worker id.  Two lots allow a partial and a final fill, three
calls a race with a retry.  Five fills open, add, reduce, close and reverse; prices on
ticks of four units make an average that is no whole unit.  Two keys and a workload of
two are the least in which one alert may hide another and a gate closes inside a cycle.
Two symbols with one interval in which both trade, and one in which only one does, show
every order of entry, exit and mark; the six candle shapes are quiet, touch one level,
touch both, gap beyond either, and end at a price of nothing, which no mark accepts.  Three samples have a first, a middle and a last one;
two runs of one id meet the commands of the first.  The sets of `MCReference` hold
bars that repeat, swap and are missing, markets that trade in different intervals, purges
that empty a partition, and accounts, clocks and levels on both sides of every limit, where
two points are a tick, a fraction is no whole percent and the least reward is 1.5 times the
risk; a behaviour of `Reference` is one step, so its states are inputs.

The type invariants (`TypeOK`) hold in the passing instances of `OrderSubmission`,
`KillSwitch`, `PaperControl`, `DurablePaper`, `PaperAccounting`, `PaperOperations`,
`BacktestEngine` and (as `SoakTypeOK`) `PaperSoak`; they are not listed in the
configurations, whose properties all say more.  All are proved (section 5), and so is
`AuditIsStrictlyOrdered`, a conjunct of the invariant of `KillSwitchProofs`.

`CHECK_DEADLOCK FALSE` stands where every invocation, incarnation, fill and mark happens
once, so that the instance really comes to an end.  `durable_paper` uses the symmetry of
the two calls on host `h1`, for safety only.

Fairness.  `KillSwitch`: PostgreSQL queues the waiters of a lock, hence strong fairness
of lock statements and weak fairness of what follows; nothing makes anyone ask.
`PaperControl`: expiry of command leases and the steps of incarnations in `Steady` are
weakly fair, and a steady process's list of markets is finite (strong fairness of
ending the market loop); a steady process is one that meets no database failure and
renews in time.  Nothing is assumed of any other process.  `OrderSubmission`,
`DurablePaper`, `PaperAccounting`, `PaperOperations`, `BacktestEngine`, `PaperSoak` and
`Reference` state safety only: nothing in the code makes a source offer an intent again,
an operator rerun a soak or a crashed process come back.

Commands of several API threads may commit out of order, and the instances of
`PaperControl` have two.  `late` is a history variable: the commands that were committed
when a later one had already been claimed.  `OneCommandAtATime` says that two commands
overlap for no other reason; without the exception it is false (`TwoClients.cfg`).
`StoppedIsQuiet` needs no exception.

## 4. Mutants

Every property of a passing run has a mutant of a modelled definition that TLC finds
violating it: a retry that resubmits a claim in flight, an abandon on any exception, an
activation without its lock, unsorted locks, a time check left out under the lock, a
busy command that is skipped, a fence that is tolerated, a blind write of worker state,
a cancelled filled order, a retry after a lost answer, a mark that writes the whole
row, fees charged twice, an alert keyed by its code alone, a rejected order that stays
pending, a target preferred to a stop, a point taken for a tick, a pivot used before
its confirmation, a label that ends too early, incidents that only count as events, and others (`PROJECT.json`, "mutants").

## 5. Proofs

Everything here holds for every value of the constants that satisfies the assumptions
named, which TLC evaluates in the runs.  Each module defines an inductive invariant `IInv`,
proves that it holds initially and that every action keeps it, one step per action, and
derives the properties of the runs from it.  A behaviour of `Reference` takes one input, so its
theorems rest on a fact about the operators at every input instead.

**`OrderSubmissionProofs`**, from `SubmissionAssumption` (hosts, keys and calls with
functions of the right domains).  `AtMostOneOrder` is not inductive: nothing in it stops a
second call in front of the broker.  `IInv` adds that a call past its claim is alone on its
key (`SoleSubmitter`), that one which has not reached the broker is on a key without an
order (`NoEarlierOrder`), that an order keeps its row (`OrderKeepsItsClaim`), that an answer
the code has seen is real (`AnswerIsReal`), and that a switch found clear stays clear in the
guard (`ClearStaysClear`).  A row is removed only by an abandon; an abandoning call is alone
on its key and has placed nothing; so after an order its row blocks every later claim.  The
owner stored in `_owners` plays no part in it, which is why a recovery on the same host does
no harm.  Theorems: `TypeCorrect`, `Invariant`, `OneOrderPerKey`, `SubmitterIsAlone`,
`ClaimOutlivesOrder`, `RecordsAreTrue`, `ReportsAreRecorded`, `HaltStopsOrders`, and
`Implementation`, the refinement of `OneShotOrder`.

**`KillSwitchProofs`**, from `KillSwitchAssumption` (disjoint sets of processes, distinct
ranks).  `IInv` adds that a guard past its locks holds all of them, or none once its session
has died (`GuardHoldsAllOrNone`), that locks are held only by processes in the right place (`LocksAreOwn`), and that a request
is a real event (`RequestIsReal`).  Theorems: `Invariant`, `CallsAreClear`,
`NoCircularWait`, `AuditExplainsState`.

**`PaperControlProofs`**, from `ControlAssumption`, for any number of API threads.  `BInv`:
a process executes a claimed command along the path of its action with the effects of that
path on record, holds the generation of a START that is done or its own, and the revision it
decides on is a past one unless the row has not changed since.  From it: `TypeCorrect`,
`SuccessHasItsEffect`, `OnlyAnsweredStartsPoll`, and the action property
`StatusMovesOnlyLegally`.  `QueueIsOrdered` says that a command is claimed when those before
it are finished, not visible yet, or late; it gives `CommandsRunOneAtATime`.  `QInv` does
without the order of the queue: the worker's own status lets a START begin only when it is
stopped and a STOP only when it is up, so at most one START is in progress (`OneBegun`) and
at most one STOP stands between its "stop" and its "stopped" (`OneOutstanding`).  It rests on
what a fenced consumer can still do: it may record a transition and even acquire the workload
lease, but its answer raises, so it never gets back to its loop and its lease is doomed
(`Doomed`); whoever records "stopped" has released the one lease that was not doomed.  From
it: `StoppedWorkerIsQuiet`.

**`DurablePaperProofs`**, from `PaperAssumption` and `NoOrderAssumption`.  A mutation reads
the row, the events and the fills in three statements, so it may decide on a status and a
volume older than the events and fills it has.  `IInv` says that what it has read is part of
the record (`Reading`), and what may be written is the order it read with nothing changed,
one more fill of its own, or its end (`Writing`).  Two later comparisons save the record:
`_validate` compares the new status with the events and the new volume with the fills, and
the append compares both with the row.  A fill adds to both sides of each comparison, so
whatever passes was decided on the present status and volume.  That a call fills once
follows because a call which may still fill (`Unspent`) has left no mark on the record, in a
memory or in what another call is about to write (`NotBy`).  Theorems: `TypeCorrect`,
`RecordStaysConsistent`, `ReportsAreDurable`, `CallsFillOnce`, the action property
`TheRecordOnlyGrows`, and `ImplementationOfLifecycle`, which maps every step to an action of
`PaperOrderLifecycle` or a stutter.

**`PaperAccountingProofs`**, from `AccountingAssumption` and `NoneAssumption`.  The money
equations hold up to roundings, so the proof counts them: a fill rounds either the average,
when it extends the position, or the realized P&L, when it reduces it, never both; reducing,
closing and reversing conserve the rest exactly.  An average off by half a unit costs at most
half the position, which is never larger than what was traded (`NetIsTraded`, the part that
makes `CostIsConserved` inductive).  A mark writes the columns that differ from what it
loaded, however stale, and none of the columns the equations are about.  Theorems:
`TypeCorrect`, `LedgerIsComplete`, `CostStaysConserved`, `AccountStaysBalanced`.

**`PaperOperationsProofs`**, from `BoundAssumption` and `NoneAssumption`.  A claim makes one
process the only one ever on the way from placing the order of a key to projecting its fills
(`HolderIsAlone`); hence its snapshot keeps showing the fills the broker answered with, all of
which stay on the durable order whatever other hosts add, and of those the ledger holds
exactly the ones that process has projected (`HolderStands`).  Every way off that path but
the normal return raises an alert or is the death of the process (`LossIsNoticed`), and an
alert that is suppressed repeats one about the same key that was delivered
(`DeliveredIsHeard`).  Theorems: `TypeCorrect`,
`FreshResultsAreProjected`, `LossIsNeverSilent`, `GateHoldsBackTheRest`.

**`BacktestEngineProofs`**, from the six assumptions of `BacktestEngine`.  For every
dataset, candle, price, cost model, volume grid and schedule.  `IInv` says where the loops
of one step stand: what is still to visit is waiting, or open, once (`WaitsOnce`,
`OneFateEach`); a position is what its order asked for and its entry fill made of it
(`BookSound`); every position already visited survived the candle (`VisitSound`) and every
exit honours its order (`ExitsSound`).  The ledger is proved one entry and one exit at a
time, by the equation between filled prices on one side and reference prices and costs on
the other.  The journal is a permutation of the closed trades because sorting by the number
of predecessors is one (`Sums`), so its total is that of the books and the partitions; the
drawdown is the largest fall because the equity loop keeps peak and fall of the curve so
far.  Theorems: `TypeCorrect`, `LedgerStaysReconciled`, `EverySignalHasOneFate`,
`LevelsAreHonoured`, `TheReportAgrees`, and `RepeatedChecksAgree`, whose proof showed the one
exception `ChecksAgree` makes (`FreeLots.cfg`, section 6).

**Soak** (in `PaperControlProofs`), from `CadenceAssumption`, `BoundAssumption` and
`NothingAssumption` of `PaperSoak`.  `EvidenceIsAccepted` is not inductive: that cumulative
counts never fall follows from what the runner holds between two samples.  `SoakInvariant`
says, of the evidence in memory and of that on file, that samples ascend within the run and
every incident bears the time of the last sample (`SoundEvidence`); that what the runner has
seen is never less than its last sample says (`AheadOfSamples`); that a stop is queued and
executed only after the start, so that nothing sets the worker to work again once it has succeeded
(`QueueIsSound`); and, point by point, how many samples there are and what is on file
(`RunnerStands`).  No sample follows an incident, which is why an incident dated at the last
sample lies in the observed run.  Theorems: `SoakInvariantHolds`, `SoakTypeCorrect`,
`EvidenceAlwaysAccepted`, `PassingMeansStopped`, `OnTimeRunsPass`.

**Intents** (in `OrderSubmissionProofs`), from `SizingAssumption`, `CurrencyAssumption`
(what the constructors of policy, instrument and rates accept, fractions and ratios in
`Whole`-ths for any `Whole`) and `ProposalsAssumption`.
The sum over the intent's own exposure in front of the others is the sum with the candidate
behind them, in which `assess` computes (`SumMovedToFront` of `Sums`); the size is a
division rounded down to the grid, which gives both that the loss fits the budget and, when
the cap leaves room for another step, that one more step would not.  Theorem:
`IntentsAreSafe`.

**Batches** (in `BacktestEngineProofs`), from `ValidatorAssumption` and `BatchesAssumption`:
the terminal may answer anything.  Strictly ordered is the same as neither out of order nor
duplicated, and a filter keeps an order.  Theorem: `BatchesAreSound`.

**Features** (in `BacktestEngineProofs`), from `PipelineAssumption` and `HistoriesAssumption`
(a valid series of one timeframe, whose candles close in the order they open).  Each
indicator, at an index the cut history has, is the same of both: an average because the
least index at which two averages of one beginning differ would need an earlier one
(`AveragesAgree`), the zones by the same argument (`ZonesAgree`), and the swings because the
candle whose pivot is confirmed and all its neighbours are in the cut (`SwingsAgree`).  The
vectors of the cut are then the first vectors of the whole.  Theorem: `FeaturesNeverLookAhead`.

**Studies** (in `BacktestEngineProofs`), from `LabelAssumption`, `StudiesAssumption` and the
result on features.  An example kept in a partition has a label that ends, purge and embargo
before, by the time the next partition begins; its vector and its label use no candle after
that end, so the same example is labelled from the candles closed by then
(`ExampleMeasured`, `LabelledEarly`).  Partitions are cut by count and examples of several
symbols may share a time, but what a boundary keeps apart is a time (`FoldHolds`,
`PartsApart`).  Theorem: `StudiesDoNotLeak`.

**`Sums`**.  The library's induction theorems take an operator as a parameter, which the
installed provers cannot instantiate.  Where a sum, a sorted sequence or a loop over a
journal is a recursive function the proofs therefore argue by a minimal counterexample, from
the well-foundedness of < on Nat and of strict inclusion of finite sets: a sum may be split,
extended, renamed and taken in another order, and a sequence that counts predecessors
enumerates its set in order.

Only model-checked:

- `EveryGuardEnds` and `EveryCommandEnds`: liveness under fairness, which the prover does
  not do.

Neither checked nor proved is that an EMA, RSI, ATR, zone or pattern has the value its name
promises: the results on features say that a cut history gives the same values as the whole.

The properties of the two runs that expect a violation are refuted, not proved.  No module
uses RECURSIVE operators.

## 6. Where code and sources disagree

Two have a run of their own:

- `look_ahead`: with two symbols an entry at the open of an interval is sized with the
  other symbol's result at its close (`backtesting/engine.py:159` against
  `docs/06_TRADING_LOGIC.md:442`, `docs/10_BACKTESTING_FRAMEWORK.md:13`).
- `unprojected_replay`: the replay of a completed submission projects nothing, so a fill
  that a crash left out of the ledger never gets there (`execution/runtime.py:75` against
  `paper_operations.py:117`).

Nine more are kept as configurations, each of which TLC refutes
(`tlc -config FencedOwner.cfg MCOrderSubmission.tla`, and so on):

- `FencedOwner.cfg` (`MCOrderSubmission`): a call fenced by a recovery still reaches the
  broker (`risk/submission.py:178` against `submission_repository.py:288`).
- `StaleDeactivation.cfg` (`MCKillSwitch`): a deactivation is recorded on a scope that is
  not active (`risk/kill_switch.py:195`).
- `UnguardedCall.cfg` (`MCKillSwitch`): a scope is active during a broker call whose guard
  has lost its session (`kill_switch_repository.py:115` against its docstring at line 101).
- `TwoClients.cfg` (`MCPaperControl`): two commands processed at once, since queue numbers
  are drawn before commit (`command_repository.py:153` against its comment at 143).
- `SubmitRace.cfg` (`MCDurablePaper`): the loser of a submit race cannot replay the winner
  (`execution/durable.py:52` against `tests/unit/test_durable_paper_adapter.py:168`).
- `LateFill.cfg` (`MCPaperOperations`): a fill another host adds once the broker has answered
  is in no snapshot, so it is never projected and nobody is alerted
  (`execution/durable.py:55`, which nothing in `src/` calls, against `paper_operations.py:117`).
- `StaleMark.cfg` (`MCPaperAccounting`): a mark turns `last_event_at` back and an older
  fill is projected (`accounting_repository.py:216` against 135).
- `FreeLots.cfg` (`MCBacktestEngine`): a lot that costs neither margin nor commission is
  granted whatever the free margin (`backtesting/broker.py:125`, by the defaults of line 31);
  where that is negative, positions having lost more than the cash, `open_position` raises
  "insufficient free margin" (`backtesting/portfolio.py:253`) and the experiment ends, where
  any margin or commission above zero would have rejected the order.  `ChecksAgree` makes
  the exception and nothing more.
- `RoundedDrawdown.cfg` (`MCPaperAccounting`): a fill the CHECK constraint refuses for ever
  (`accounting/service.py:100` against migration 0008, line 44).

Known and not given a configuration: a decision may expire while `submit` waits; a
consumer fenced after its heartbeat goes on to control the worker; a reclaimed workload
generation can still finish the cycle it is in; a soak whose start answer is lost leaves
the worker running, on record as an incident, and its retry may get 409 because the
resolved specifications are part of the request hash; a soak that sees a fill before its
order keeps an "unknown order"; `audited_orders` is written as a copy of `orders_seen`
(`paper_soak_runner.py:247`), so that gate cannot fail; critical events are counted from
an endpoint that shows accounted fills only; a killed runner leaves evidence that passes
if the last sample was on it; a purge that leaves a partition empty ends the whole
walk-forward; an exposure that cannot be decomposed raises instead of being rejected
(`risk/engine.py:131`).  See the hazards.

## 7. Not modelled

- The baseline's gradient descent and its metrics, the ratios of the backtest report:
  numerical work without a property beyond its formula.
- The model registry, the repository of candles and the publication of artifacts: storage
  that nothing in `src/` calls.
- Monitoring, dashboard routes, the web dashboard and configuration: stateless evaluation,
  presentation and parsing.
- The notification hooks for signals and risk outcomes, and the Telegram transport.
- Hashes, JSON, authorization, decimal formatting; slippage and spread of PAPER fills; the
  audit columns and `drawdown_pct` of the account; the worker's heartbeat; connection
  pools; the login and symbol lookup of the MT5 terminal, which is external.
- In `PaperSoak` the fingerprint of an order never changes and an id never repeats in a
  snapshot, as the primary key and the immutable columns make sure; duplicates stay zero.

## 8. Plan

Done: every module is checked, and every invariant, action property and refinement of the
passing runs is proved from the assumptions on the constants alone.  What is left to TLC is
liveness.

What a later revision of the code may call for, in this order:

1. The projection of a replayed submission and the sizing at an open of several symbols,
   when the code closes the two disagreements with runs of their own (section 6): the
   properties they refute then become properties of passing runs, with proofs.
2. The repository of candles and the publication of artifacts, when something in `src/`
   calls them.
3. The baseline's fit, once a property of it beyond its formula is stated anywhere.
