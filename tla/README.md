# A TLA+ model of ML Air

ML Air is the control plane of an MLOps platform: an API accepts pipeline runs,
a scheduler expands a run into a graph of tasks and drives it, executors or
external workers carry the tasks out, and around this sit admission control,
domain events, a model registry, lineage and readiness. This directory keeps
TLA+ modules of that code, the TLC configurations that check them on small
instances, and proofs checked by TLAPS. The modules are translated from the
source; `PROJECT.json` names the lines of every definition.

## 1. Inventory

| component | state it keeps | operations | what is hard |
|---|---|---|---|
| scheduler (`scheduler/main.py`) | none of its own: rows `runs`, `tasks` in Postgres; the locals of one loop iteration | pop a run, initialise its tasks, gate a replay, schedule ready tasks, handle an outcome, retry, dead-letter, conclude the run | every statement is its own transaction; it decides from states read earlier; it sleeps out backoffs; several replicas |
| executor (`executor/main.py`) | the message in hand | take a task, run it, report | a crash loses the message |
| run API (`run_service.py`, `queue_service.py`, `routes/v1.py`) | rows of `runs` and `tasks`, Redis lists | create, publish, cancel, set status, replay dead letters | races with the scheduler on the same rows; row first, message second |
| worker API (`worker_task_service.py`) | leases in `tasks` | lease, heartbeat, complete, fail | expiry against a late answer, idempotence, crash before the publish |
| admission (`admission_decision.py`, `admission_queue_service.py`, `tenant_quota_service.py`) | `admission_deferred` | check the quota, decide ACCEPT, DEFER or REJECT, defer, flush | capacity read then used, flush without a claim, several replicas, a crash between a run and the mark on its row |
| domain events (`shared/events`) | `domain_event_outbox`, `domain_event_handler_acks` | persist, drain, dispatch, ack, retry, replay | concurrent drains, ack before effect, dead letters |
| semantic event outbox | its outbox table | append, drain | at-least-once |
| trigger policies, closed loop | last trigger times, tick locks in Redis | tick, debounce, start a run; promote a challenger, roll back | tick lock expiry, several replicas, a POST that times out and is carried out all the same |
| model registry, lifecycle state machines (`model_registry_service.py`, `promotion_policy.py`) | versions with stage and approval, evaluations, stakeholders, serving slots | register, evaluate, approve in two steps, promote, roll back, assign slots, delete | checks on rows read before, updates by version number, archive and set as two statements |
| lineage and dataset versions (`lineage_service.py`) | `dataset_accumulation_buffers`, window and upload files, `dataset_versions`, `datasets.source_uri` | append, snapshot by threshold, tick or call, upload, ingest a task's lineage, configure, delete | rows, files and the buffer are written one after the other; two ways to choose a label |
| readiness | evaluations, a recompute queue in Redis | recompute | sequential; not modelled |
| identity, configuration, policy, platform, distributed, realtime, SDK, CLI, frontend | stored rows, registries | lookups, checks, forwarding | sequential; not modelled |

Components talk through Postgres rows (every statement autocommitted, except
where a service opens a transaction), through Redis lists
(`mlair:runs:new`, `mlair:tasks:{high,default,low}`, `mlair:tasks:done`,
`mlair:tasks:dlq`) and through in-process event handlers. What makes each of
them correct is stated as properties below or planned in section 2; the
hazards, each at its line, are in `PROJECT.json`.

## 2. Plan

In the order of importance, all of it done:

1. `TaskPlan`, `RunScheduling`, `DagExecution`, `RunScheduling_proofs`,
   `RunOrder_proofs`, `RunFlight_proofs`: runs and tasks in internal execution mode,
   the core of the system.
2. `WorkerLeases`, `WorkerLeases_proofs`: external execution on top of the same
   scheduler.
3. `EventOutbox`, `EventOutbox_proofs`: the domain event outbox.
4. `Admission`, `Admission_proofs`: the quota, the decision, the queue of deferred
   requests, its flush by several scheduler replicas, and the tick of a trigger
   policy that sends requests of its own.
5. `ModelRegistry`, `ModelRegistry_proofs`: version numbers, evaluations, approval,
   stages, slots and the closed loop.
6. `DatasetBuffers`, `DatasetBuffers_proofs`: accumulation buffers and dataset
   versions.

`WorkerLeases` extends `RunScheduling`, which implements `DagExecution`. The other
three meet it in one place each: `Admission` ends where `RunScheduling` begins, at
the run's row (`InsertRun` is `CreateRun`; how a run then fares is the external
action `Progress`); the events of `EventOutbox` are published by the statements of
all of them; what a task hands over is `Ingest` in `DatasetBuffers`. They share no
row with a decision on both sides, so they are checked apart.

What is left, in this order: what two schedulers still guarantee beyond the types,
as theorems; in-place editing of dataset versions; the readiness recompute.

## 3. The modules and the code

One action stands for one statement on the database, one Redis command, or a
stretch of code without either: every connection of these services is opened
with autocommit, so that is the grain at which processes interleave. Locals of a
process that survive a statement are fields of a record (`sched[s]`, `api[c]`,
`request[h]`, `worker[w]`), and `pc` is the statement it comes to next.

### Runs and tasks

`TaskPlan` has the two transition tables (`scheduler/main.py:41-57`) and the
sets a replay selects and skips. `RunScheduling` has

- the rows: `runStatus`, `task` (status and attempt, "none" before the row is
  there);
- the lists: `runQ`, `taskQ` (three priorities), `doneQ`, `dlq`;
- `executing[e]`, the message an executor took; `sched[s]` and `api[c]`, the
  processes.

The scheduler's loop is `PopRun` and `PopDone` with what follows each:
`AdmitRun`, `InitTasks`, `FinishInit`, the replay gating, `ReadStates` and
`PickReady` (`_schedule_ready_tasks`), `SelectTask`/`UpsertTask` and
`SelectRunStatus`/`UpdateRunStatus` (the two statements of a transition),
`PushTask`, the outcome with its retry, backoff, dead letter and verdict, and the
cancellation of what became unreachable. The SELECT and the UPDATE of a
transition are separate actions because the code does nothing to keep them
together. Where the code reads the same rows twice with nothing between that
uses the first result, or reads one row that no other process can change yet,
the reads are one action (`AdmitRun`, `ReadStates`). The API handlers are
`CreateRun`/`PublishRun`, `CancelRun`/`CancelTasks`, `SetRunStatus` and
`ReplayDlq` with its LRANGE, RPUSH and LREM.

`Init` is an empty database. The plan, its replay, the parent's evidence, the
priority and `max_parallel_tasks` of a run are constants, because they come with
the request and never change.

`DagExecution` is the abstract specification of the whole: tasks wait, become
active when their dependencies have succeeded, and succeed, die or are
cancelled; a run gets a verdict that fits. `RunScheduling` implements it under
the mapping `Phase`: a task is active while its work is anywhere, and otherwise
what its row says.

### External execution

`WorkerLeases` extends `RunScheduling` with `External = TRUE`: the scheduler
writes QUEUED where it would write RUNNING and pushes no message. It adds
`lease[r][k]` (`leased_by`, and `lease_expires_at` against now), `work[w]` (what
a worker does), `request[h]` (a complete or fail handler between its SELECT, its
UPDATE and its publish), `reaping[s]` (runs whose expired tasks were reset and
that still have to be rescheduled) and `losses`. Time is the action `Expire`: a
lease runs out because its worker is gone or, within the bound, slow.
`LeaseTask`, `Heartbeat`, `LoadRow`, `UpdateRow`, `PublishOutcome` are the
endpoints; `Reap` and `Reschedule` the reaper. `Report`, `Resend` and
`WorkerLost` are the worker, which is outside the repository's server code and
modelled from its protocol. The UPDATE and the SELECT of `lease_tasks` are one
action: the rows it selects are locked by its own update. All tasks name a
plugin.

### Domain event outbox

`EventOutbox` has `row[e]` (published, delivered, dlq, attempts), `acks[e]`,
`effects[e][h]` (a history of how often handler `h` acted on event `e`),
`blind[e]` (a history of the handlers whose ack could not be written, which
`handler_ack.py:30-32` lets go ahead), and `worker[w]`: drain loops, one for each
API replica, and replay calls. `Fetch` takes the oldest pending rows; since the
connection is on autocommit, `FOR UPDATE SKIP LOCKED` protects nothing once the
SELECT is over, and the model lets two loops take the same rows. A handler is
*keyed* (audit: one insert under a unique key) or *claiming* (an ack, then the
effect: `ClaimWon`, `ClaimLost`, `ClaimError`, `Act`). It may return, time out
(the dispatcher waits for it all the same, so the effect happens and counts as a
failure) or raise. Projections are one subscriber: an exception of one skips
those after it, in this attempt. `MarkError` is the UPDATE that raises inside the
`try`. `Crash` is a process that dies or loses its connection. Projection stores
that are also keyed are treated as claiming only.

### Admission and triggers

`Admission` follows a request of one tenant. `job[w]` is what a handler or a
scheduler replica is doing: `CheckQuota`, `Admit` (`Decision` is
`evaluate_admission` on the occupancy, `Reserved`, that
`collect_cluster_snapshot` counts), then either `FindWaiting` and `Defer`
or `FindRun` and `InsertRun`, the SELECT and the INSERT of `create_run`. A scheduler's `StartFlush` selects the oldest
pending rows, `Examine` decides on one, `FindRun`/`InsertRun` make its run,
`MarkRow` or `CancelRow` write the row if it is still pending. `TakeLock`,
`Debounce`, `Post` and `StopWaiting` are the trigger policy: its request goes to a
handler, and the scheduler may stop waiting for the answer. `rows` and `runs` are in the
order of creation. Time advances in ticks of 30 seconds; two of them are the
minute that is a trigger's idempotency key. `Capacity` differs from worker to worker because
every process reads it from its own environment. `Progress` stands for the
scheduler working on a run and is external.

### Model registry

`ModelRegistry` is one model. `row[n]` is the version that stands under number
`n`: a deleted number can be registered again, and the code updates by number,
so identity and number are kept apart. `evals` hang on the number and survive a
deletion. `req[c]` is a client's request with what it has read. Registration is
`ReadNext`, `Insert`; evaluation `FindVersion`, `RecordEvaluation`; approval
`ReadStakeholders` (a connection of its own), `CheckApproval`, `WriteApproval`;
stakeholders are replaced by `ClearStakeholders`, `AssignStakeholders`; a
promotion is `Promote` (a call), `LoopPromote` or `LoopRollback` (the closed loop),
then `LoadVersion`, `Gate`, `ArchiveStage`, `SetStage`, and for production
`ReadVersionId`, `FillSlot`. `Allowed`, `NeedsApproval` and `Eligible` are
`promotion_policy.py` and the checks of `promote_model_version`. `past` is a
history: what a version has been through. `pending_manual_approval` passes the same
guards as `pending_reviewer`, and the model has one of the two.

### Dataset buffers and versions

`DatasetBuffers` is one dataset: the buffer row, the bytes of every file
(`content`: the rows of a window, or the number of the upload it holds), the dataset's own
`source`, and `versions` in the order of creation. An append is `ReadBuffer`,
`AppendRow` (the file), `CountRow` (everything it read is written back), and then the
transaction of `_materialize_runtime_feedback_if_needed`: `Materialize` or
`KeepAll`. The tick (`FindScheduled`, `ReadSource`) and the manual call
(`ReadSource`, `CheckStrategy`) reach the same transaction with the dataset's
source in place of the window's file. An upload is `NameUpload`, `StoreUpload`,
`LinkUpload`, `RefillBuffer`, `SaveVersion`; an item of a task's lineage
`Ingest`, `RefillBuffer` and, unless it is runtime feedback, `LabelItem` and
`SaveVersion`. `Configure` and the deletion (`RemoveFile`, `DeleteRow`) are calls. A window is the number of its
`window_start`, the idempotency key of a snapshot is the tuple `Key`, and `work` says which
operations each client does: one of the workloads in `Ops`.

## 4. What is checked

| run | instance | shows |
|---|---|---|
| `run_basic` | two runs (a fork of three, a single), two slots, two executors, two attempts | slots, no run forgotten, FAILED only for a final failure that is dead-lettered, a message only for a RUNNING row; every run and every blocked task ends |
| `run_crash` | a diamond, one crash of any process, one cancel, status change or dead-letter replay | one copy, dependencies first |
| `run_replay` | r2 replays r1 from its second task, one cancel of either at any moment | types; what a replay skips was proven; RUNNING is backed, SUCCESS is earned, recorded and stays; implements `DagExecution` |
| `leases` | a chain, two workers, two handlers, one cancel, one crash, one loss | a RUNNING row can expire, an outcome closes its task, offers respect dependencies, SUCCESS stays, the run ends |
| `outbox` | two events, the older one undecodable, two drain loops, audit, webhook and two projections, one fault | attempts stay in bounds, a failing handler starves nobody, every event settles |
| `outbox_replay` | one event, two drain loops and a replay call, four handlers, one fault | at most once, delivered means handled, settled is final |
| `registry` | two versions, three stages, one promoter and one editor; approval and a passed evaluation required for production | production is earned, a review comes first, stages are climbed one by one |
| `registry_changes` | two versions, two stages; deletion and re-registration, stakeholders, slots by hand, one crash | references hold, one version in production, and it is the champion |
| `admission` | one keyed request sent up to twice, trigger ticks, two handlers, two replicas of different capacity, one crash | a key has one run, every deferred request is settled |
| `datasets` | two workloads with one crash: a writer of every kind with deletions beside it; one appender with ticks, calls, configuration and deletions beside it | a label is one version's, a window becomes one version, a version keeps its count and its bytes |
| `run_chain3`, `datasets_tick` | the smallest instance each needs | section 6 |

**Bounds.** `MaxAttempts` is 2: one retry is the smallest number for which
"retried" and "final" differ. Two runs compete for slots, three or four tasks
give every shape of dependency (chain, fork, join). Two executors or workers are
enough for one task to be in two hands, two drain loops for the same row to be,
two replicas for the same deferred request. One call, crash or loss
(`MaxCalls`, `MaxCrashes`, `MaxLosses`, `MaxFaults`, `MaxReplays`) may come at any
step, which covers every race of that call with the system. `run_crash` lets one
call and one crash meet, `leases` one call, one crash and one loss; two calls, or
two crashes, are not explored together. Two versions of a model are enough for
one to replace the other, and for a number to be used twice; three stages for one to
be skipped. Two sends are a request and its repetition, `Limit` 1 makes a
deferred row wait behind another, two slots and a demand of two make a trigger's
run defer the request. `MaxTime` 1 is one interval: a lock is taken again, a
minute does not end. Three windows and two versions let a window be left twice.
`Legacy` is FALSE: with the default label the promise does not hold (section 6).
A counter without a bound is stopped by one of these.

**Fairness.** Weak fairness for a scheduler's next step, an executor's, a started
handler's and a drain loop's: each is a loop or a thread that does nothing else.
The reaper runs on an interval inside the scheduler's loop and can be busy in
between, hence strong fairness for `Reap`. A worker that holds a lease goes on
with its work; one that is lost has its lease expire. No request has to be made,
nothing has to crash, and nothing has to fail. A drain interval of 0 switches the
drain off, and then nothing settles. In `Admission` handlers, the flush and
the tick of every replica go on, and a run that was started ends (`Progress`),
which is what `run_basic` checks of the scheduler; a replica that crashes starts
again at the next iteration of its loop. The registry and the buffers are called,
and promise nothing in time.

**Deadlock.** A scheduler, a worker and a promoter always have a next step, so
the runs of `RunScheduling`, `WorkerLeases` and `ModelRegistry` check for deadlock.
The outbox runs, `admission`, `datasets` and `datasets_tick` switch the check off: once every
event is settled, every request and interval of the instance used up, nothing
has to happen.

## 5. What is proved

`RunScheduling_proofs`, for every set of processes, runs and tasks, every plan
and every bound, crashes included:

- `TypeCorrect`: `Spec => []TypeOK`. `TypeOK` is not inductive. What a
  scheduler writes to a row comes from its locals, so `TypeInv` adds that the
  locals are right at the labels that use them (`Sound`: a status, a task, a
  return label of the right kind) and that an API handler has a dead letter in
  hand where it says so (`SoundHandler`). One lemma for each action, one for each
  helper that prepares a call.

`RunOrder_proofs`, as general, with cancels, status calls, dead-letter replays and
crashes at any point, under the hypothesis `OneScheduler`: there is one scheduler
replica (`charts/ml-air/values.yaml:65`; the production values ask for two, and with
two the first theorem is false, section 6):

- `SuccessStays`: `Spec => SuccessIsStable`. `DependenciesFirst`: `Spec => []DepsDone`.
  `ReplayProven`: `Spec => []ReplayIsProven`. They hold together or not at all.
  `OrderInv` says of the scheduler's locals (`Order`) that a SUCCESS in what it read is
  a SUCCESS still, that the task in its hand may be worked on (`May`: selected, its
  dependencies at SUCCESS), that what it is about to write undoes no SUCCESS
  (`Undoes`) and that a skipped task it will mark done is proven by the parent; and
  of every message, outcome, dead letter and item of a replay that its task may be
  worked on (`MessagesDue`). Each of these survives because no row ever leaves
  SUCCESS (`Kept`), and no row does because of the check that precedes a write: no
  other process can bring the row to SUCCESS between the two.

`RunFlight_proofs`, on top of that and again under `OneScheduler`, follows the work on a
task. A theorem names what the environment must leave alone for it to hold: `NoReplay`
is no dead-letter replay and `OneReplay` at most one call that may be one, `Calm`
nobody cancels, `NoRevival` no status call that sets a run to PENDING or RUNNING,
`NoCrash` no crash of a process.

- `SuccessEarnedByAll`: `Spec => []SuccessIsEarned`, when clients do not set SUCCESS by
  hand. The verdict comes from rows read before the last cancellations, and what they
  said of the selected tasks is still true. Of the tasks a replay skips, `StartInv` says
  that a run is expanded once (`OneEvent`: its event is there once, or the scheduler has
  it) and that they are at SUCCESS before any work of the run is handed out.
- `WorkInOnePlace`: `Spec => []OneCopy`, under `OneReplay`. `FlightInv` says that no two
  messages are about one task, whatever lists and hands they are in (`Distinct`), that
  nobody else has a message about the task the scheduler holds or may still pick
  (`Flight`; a row whose work was handed out is never PENDING again), and that what a
  replay is about to send again is nowhere else (`LettersInv`). Two replays may read
  the same letter.
- `OutcomeRecorded`: `SuccessIsRecorded`, under `NoReplay`; `DispatchMarked`:
  `DispatchIsMarked`, under `NoReplay` and `Calm` and in internal mode. The code pushes a
  message and handles an outcome whatever the transition table answered. `MarksInv` says
  that the row follows the work (RUNNING while it is out, the outcome while that is
  handled, RETRY during the backoff, or CANCELLED), so the table has no reason to refuse.
  A letter that is sent again meets a row at FAILED, and is refused.
- `FailuresEarned`: `FailureIsFinal`, under `NoReplay` and when clients do not set
  FAILED by hand, crashes included: a task that failed for good stays so (`FailuresFinal`).
- `RunningBacked`: `RunningIsBacked`; `DeadLettered`: `DeadIsLettered`; both under
  `NoReplay` and `NoCrash`. A crash loses what the process had in hand.
- `SlotsKept`: `SlotsRespected`, under `NoReplay` and `NoRevival`, with cancels, crashes
  and any limits of the runs. The slots are counted when a task is picked and taken when
  its row is written, and a retry does not count them. `SlotsInv` says that in between
  there is room for the task in the scheduler's hand (`Reserved`, `Room`).
- `NobodyForgotten`: `NoRunForgotten`, under `Undisturbed`: internal mode, `NoReplay`,
  `NoCrash`, `NoRevival`, `Calm`, the same `max_parallel_tasks` for all runs, and plans that
  can be gone through (`Sensible`: not empty, dependencies within the plan, no circle). A
  run is looked at only when its event or one of its outcomes is popped, so the scheduler
  must not leave it with nothing out. `AttendInv` says what the scheduler knows of the
  run at each point (`Pursues`): a task is out, or one can be started and has a slot, or a
  verdict is due. That rests on most of the above: a RUNNING row is backed, nobody takes
  the slot between the count and the write, a task is called off only for a dependency
  that failed or was called off itself (`CalledFor`), and in a plan without circles one of
  the waiting tasks waits for none of the others. Section 6 has runs that are forgotten
  where a hypothesis does not hold.
- `OrchestrationImplementsDag`: `Spec => ImplementsDag`, the refinement, in internal
  mode, under `NoReplay` and `NoCrash` and when clients set neither SUCCESS nor FAILED
  by hand. `PhaseIs` gives `Phase` from whether the work is out and what the row says
  (`Stage`). Then action by action: taking a task in hand starts it; an outcome that was
  handled is its success or, when no attempt is left, its death; a retry is a stutter, a
  cancellation that of a task which is not out; and a verdict fits by
  `SuccessEarnedByAll` and `FailuresEarned`.

`WorkerLeases_proofs`, for any number of workers and handlers, any plan and any bound,
with crashes and lost workers:

- `LeaseTypeCorrect`: the types of `RunScheduling` carry over, since the endpoints
  write rows and the lists only; `LeaseInv` adds what workers and requests have in hand.
- `RunningAlwaysLeased`: `LeaseSpec => []RunningIsLeased`. In external mode a scheduler
  never has RUNNING to write (`NoneRunning`: `Dispatched` is QUEUED), so the lease is the
  only way to RUNNING and is written in the same statement; whatever clears a lease
  writes another status. This and the types hold for several schedulers too.
- Under `OneScheduler`: `OutcomesClose` (`OutcomeCloses`), `OfferedInOrder`
  (`OfferedAfterDeps`), `ReportedStays` (`SuccessIsStable`), `ReportsKeepOrder`
  (`DepsDone` and `ReplayIsProven`) and, when clients do not set SUCCESS by hand,
  `SuccessEarnedByReports` (`SuccessIsEarned`), all of `LeaseSpec`. The endpoints and the
  reaper now write the rows beside the scheduler and without its table. On top of
  `LeasedInv` and `StartInv`, `ReportInv` says that a task which is offered or leased may be
  worked on (`Offered`), that at most one outcome of a task is on its way (`OneOutcome`)
  and the row is closed and says the same (`Closed`), that nobody works where the
  scheduler is about to write (`Settled`), and that a run whose tasks were taken back has
  begun (`Returned`). With two schedulers both may find a task PENDING after a join, and
  the second offers again what was reported already.

`EventOutbox_proofs`, for any number of events, handlers, loops and replays:

- `OutboxTypeCorrect`: no row exceeds `MaxAttempts`. `TypeInv` adds that what a
  worker has in hand is below the limit, because only pending rows are read, and
  that a row at the limit is settled.
- `SettledStays`: the action property follows from `TypeInv`, action by action.
- `EffectsAtMostOnce`: the invariant `OnceInv` says that the ack is the right to
  act: whoever acts for a claiming handler holds its ack, holds it alone, and
  nobody has acted before.
- `FailureTriesAll`: `FailureTriesTheRest`. `TriesInv` says that `n` attempts on record mean
  the acks of all handlers before the `n`-th projection and its own, that this holds
  of the attempts a worker read, and that a worker has the acks of those its walk has
  passed.
- `DeliveredMeansHandled`: the invariant `HandledInv` says that a worker without
  a failure so far has been through all handlers before the one it stands at, and
  that having had a chance is for good.

`Admission_proofs`, for any number of handlers, replicas, requests and rows:

- `AdmissionTypeCorrect`: whatever a flush has in hand is a row of the queue.
- `KeyedOnce`: `OneRunPerKey`. That a key has one run follows from the unique
  index; that an admitted row names a run of its own request needs the invariant
  to follow the request from the row through `FindRun` and `InsertRun` to the mark,
  while rows only leave "pending" and runs are never removed.

`ModelRegistry_proofs`, for any number of versions, clients and stages:

- `RegistryTypeCorrect`: with the types, that slots refer to live versions and a
  version has one number, however registrations race.
- `ProductionEarned`: with a gate on production (`Guarded`) and no deletions
  (`Kept`), nothing unapproved or unevaluated gets into production. The invariant
  carries what `LoadVersion` read over `Gate` and `ArchiveStage` to `SetStage`: an
  approval may be withdrawn meanwhile, but it was given.
- `ReviewComesFirst`: while stakeholders stay assigned and nothing is deleted.
- `StagesInOrder`: with one promoter, no deletions and no skipping.
- `OneInProduction`: with one promoter, deletions and crashes included.
- `ChampionServes`: `ProductionIsChampion`, with one promoter. `ChampInv` says that a
  promoter on its way to the champion's slot has the only version in production in
  hand, and that unless something crashed a version in production is in the slot or
  has such a promoter.

  The hypotheses are needed: section 6 has what happens without them.

`DatasetBuffers_proofs`, for any number of clients, windows, versions and
uploads and any workload:

- `BufferTypeCorrect`: with the types, that a label names one live version,
  whoever chose it and however late. `TypeInv` adds what a client carries from one
  statement to the next (`Carries`).
- `WindowsBecomeOneVersion`: with at most one appending client (`OneAppender`), a
  window becomes at most one version. `WindowInv` says that the window in an
  appender's hand and the buffer's window are no version's yet, that nobody else
  has a window in hand, and that no version's window is newer than the newest.
- `VersionsAreFrozen`: `Spec => SnapshotIsFrozen`, under `OneAppender` and `OneLabeller`:
  beside a client that uploads or ingests nobody else writes versions, and none is
  labelled "default". An upload's file is named after its label, which is chosen before
  the version is saved, so two writers that choose one label share a file. `LabelInv` says
  that labels rise in the order of creation and that a label in a client's hand is above
  all that are there.

They rest on the ASSUMEs of the modules: sizes are positive numbers, plans are
functions from a set of tasks to sets of tasks, special values are not members of
the sets they stand beside, the keyed handlers come before the projections, the
stage order ends in production and names no stage twice, a request asks for a
slot.

Every invariant and every action property that a passing run checks has its theorem,
and so has the refinement. Only model-checked are the liveness properties (`RunsEnd`,
`BlockedTasksEnd`, `RunsEndUnlessCrash`, `SettledEventually`, `RequestsSettle`): they rest
on fairness, and ENABLED is out of the prover's reach. The two runs of section 6 that end
in a violation are TLC's alone. What several schedulers still guarantee beyond types and
leases is neither proved nor checked, except for the flush of deferred requests.

## 6. Where code and documents disagree

Two have a run that finds the behaviour:

- `run_chain3`: the cancellation of unreachable tasks goes one level down; a
  grandchild stays PENDING, though its run ends.
- `datasets_tick`: the idempotency key of a snapshot does not contain the window.
  The second window of as many rows looks like the first, and the tick leaves it
  where it is.

Seen while modelling, without a run of their own.

Runs and tasks:

- A task whose lease ran out is not always rescheduled. Its run is looked at once,
  and if the slots are taken at that moment, never again. The same happens in
  internal mode between runs with different `max_parallel_tasks`
  (`scheduler/main.py:1514`, `:1636`).
- A cancel between the SELECT and the UPDATE of a run's transition is overwritten
  (`scheduler/main.py:796`). Two scheduler replicas overwrite a SUCCESS in the
  same way.
- A task replayed from the dead-letter queue succeeds, and the transition table
  refuses to record it (`queue_service.py:42`).
- Cancelling a run leaves the executor at work; when its task fails, it is retried
  though the run is CANCELLED (`run_service.py:503`).
- A dead-letter replay of a FAILED run without dead letters marks it RUNNING and
  nothing ever ends it (`routes/v1.py:1660`).
- A cancel during the initialisation of a run can leave the run RUNNING with all
  its tasks CANCELLED.
- External mode: a FAILED row frees its slot before the outcome is handled, so a
  retry may exceed the slots; a handler that crashes after its UPDATE loses the
  outcome, since the repeated request is answered as already done; a fail request
  that arrives twice fails the next attempt if the same worker holds it, since a
  lease does not carry the attempt.

Events:

- `docs/architecture/event-processing.md:225` calls the dispatch exactly once per
  handler. It is at most once: a handler that raises or dies after its ack is
  skipped by the retry, and the event is delivered without it. A row can be both
  delivered and in the dead-letter queue when two loops disagree about it, and its
  attempt count may go down.

Admission and triggers:

- The flush is not the FIFO of `admission_queue_service.py:292` and
  `docs/concepts/lifecycle-formal-model.md:61`: new requests overtake the queue, and
  a flush passes over a row that does not fit.
- Rows that never fit stay at the head of the batch of `LIMIT` rows and keep
  those behind them waiting; a demand beyond the tenant's budget is deferred for ever.
- Occupancy counts runs and not what they asked for, and a run between two tasks
  counts nothing; a snapshot that fails admits everything. Concurrent requests are
  all admitted against the same free capacity.
- A deferred request without a key is run twice when two replicas flush it, or
  after a crash between its run and the mark.
- The flush checks neither the quota nor the readiness.
- A trigger that is deferred leaves no run, so its debounce stays open and the
  next minute triggers again, against `docs/guides/model-centric-pipeline-mapping-and-trigger.md:116`
  ("at most one trigger fires per model per τ window"). The tick lock lives one
  second less than the interval.
- `closed_loop_service.py:318` calls `create_run` with an argument it does not have;
  the evaluation ends there.

Model registry:

- A version deleted and its number registered again between the reads of a
  promotion and its UPDATE goes to production unapproved
  (`model_registry_service.py:893`; `ARCHITECTURE.md:135` says otherwise). Evaluations
  hang on the number and count for the next version that gets it.
- Two promoters leave two versions in production (`ARCHITECTURE.md:129`). A crash
  between the archiving and the setting of a stage leaves none.
- Between the DELETE and the INSERT of `replace_model_stakeholders` a version may
  be approved in one step; the UPDATE of an approval does not look at the status
  again.
- A rollback from production to staging leaves the champion's slot; an
  archived version ranks below every stage, so that an automatic rollback to it is
  refused. `closed_loop_service.py:264` sets a slot without the tenant it needs.
- Two uploads take the same number and write into the same directory; one that
  fails leaves its files.

Datasets:

- Two concurrent appenders lose counts, and a window that is written back after a
  snapshot becomes a second version; rows go into a file that already is a version.
- A configuration change starts a window for rows counted in the old one. An
  upload or a task's lineage replaces the size of the buffer and sets its strategy back
  to threshold; an item without a size empties it.
- `ML_AIR_LINEAGE_LEGACY_DEFAULT_VERSION_LABEL` is on unless it is set
  (`lineage_service.py:873`), though `docs/api/dataset-version-immutability.md:29`
  says the default label is no longer written. After such a version the next upload
  is v1 again and overwrites the file and the count of v1.
- A snapshot by tick or call stands for `datasets.source_uri`, the last upload's
  file, whatever its own label. After an upload that crashed and a deletion, a later upload
  takes the label again and rewrites those bytes; `SnapshotIsFrozen` speaks of a
  version's own file.
- The retry after a unique violation runs in the transaction the violation
  aborted. A deleted newest label is given out again.
- A deletion removes the file first; a crash leaves a version without bytes.

## 7. What is not modelled

What plugins compute, log streaming, artifacts, the content of messages and
events, authentication, the frontend and packaging. The reader of a listing sees
whatever the rows say. Editing a dataset version in place
(`merge_csv_into_dataset_version`, `replace_dataset_version_content`) rewrites a version on
purpose and is left out of `SnapshotIsFrozen`'s promise and of the model. Readiness,
identity, configuration, the policy engine, the distributed control plane and the
realtime gateway are lookups, checks and forwarding of stored rows, one caller at a
time: their tests reach what could go wrong. The routes are modelled where they
change the state of a modelled component. `PROJECT.json` lists every
component with its reason.
