---------------------------- MODULE RunScheduling ----------------------------
(***************************************************************************)
(* The orchestration of runs: the API creates, cancels and replays runs,   *)
(* the scheduler loop expands a run into tasks and drives them, the        *)
(* executors run them.  They share the Postgres rows of runs and tasks and *)
(* the Redis lists between them.  In external execution mode the scheduler *)
(* only marks tasks QUEUED; WorkerLeases adds the workers that lease them. *)
(*                                                                         *)
(* Every database statement is its own autocommit transaction and every    *)
(* Redis command is atomic: each write is an action of its own here, with  *)
(* the reads that only decide about it, and a read that is used after      *)
(* another statement is kept in a local.  All runs belong to one project,  *)
(* the scope of the concurrency slots.                                     *)
(***************************************************************************)
EXTENDS TaskPlan, SequencesExt

CONSTANTS
  Runs,         \* run ids
  Tasks,        \* task keys: positive numbers, sorted(...) is their order
  Schedulers,   \* scheduler replicas
  Executors,    \* internal executors
  Clients,      \* API request handlers
  Plan,         \* Plan[r]: the task plan of run r
  ReplayFrom,   \* ReplayFrom[r]: replay_from_task_id, 0 when there is none
  ReplayOf,     \* ReplayOf[r]: replay_of_run_id, NoRun when there is none
  Evidence,     \* Evidence[r]: keys whose artifacts, checksum and manifest
                \* the replay gating of r accepts
  MaxParallel,  \* MaxParallel[r]: max_parallel_tasks of run r
  Queue,        \* Queue[r]: the list that the priority of r selects
  MaxAttempts,  \* tasks.max_attempts
  External,     \* whether ML_AIR_TASK_EXECUTION_MODE is external
  Ops,          \* the API operations besides create that clients call
  ManualStatus, \* the statuses POST .../status sets
  MaxCalls,     \* bound: API calls besides create
  MaxCrashes,   \* bound: crashes of processes
  NoRun

Lists == {"high", "default", "low"}

ASSUME TasksAssumption == Tasks \subseteq Nat \ {0}
ASSUME PlanAssumption ==
  /\ NoRun \notin Runs
  /\ \A r \in Runs : /\ Plan[r] \in UNION {[K -> SUBSET Tasks] : K \in SUBSET Tasks}
                     /\ Evidence[r] \subseteq Tasks
                     /\ MaxParallel[r] \in Nat \ {0}
                     /\ Queue[r] \in Lists
                     /\ ReplayFrom[r] \in Nat
                     /\ ReplayOf[r] \in Runs \cup {NoRun}
ASSUME AttemptsAssumption == MaxAttempts \in Nat \ {0}
ASSUME ModeAssumption == External \in BOOLEAN
ASSUME ManualAssumption == ManualStatus \subseteq RunStatus
ASSUME BoundsAssumption == MaxCalls \in Nat /\ MaxCrashes \in Nat

VARIABLES
  runStatus,    \* runs.status, "none" before the row exists
  task,         \* task[r][k]: the row of task k of run r
  runQ,         \* mlair:runs:new
  taskQ,        \* mlair:tasks:high, :default and :low
  doneQ,        \* mlair:tasks:done
  dlq,          \* mlair:tasks:dlq
  executing,    \* the message each executor works on
  sched,        \* where each scheduler is in its loop, and its locals
  api,          \* where each API handler is
  calls,        \* API calls made
  crashes       \* crashes so far

vars == <<runStatus, task, runQ, taskQ, doneQ, dlq, executing, sched, api,
          calls, crashes>>
rows   == <<runStatus, task>>
queues == <<runQ, taskQ, doneQ, dlq>>
budget == <<calls, crashes>>

NoRow   == [status |-> "none", attempt |-> 1]
NoMsg   == [run |-> NoRun, task |-> 0, attempt |-> 0]
Message(r, k, a) == [run |-> r, task |-> k, attempt |-> a]
Finished(m, st)  == [run |-> m.run, task |-> m.task, attempt |-> m.attempt,
                     status |-> st]

Deps(r, k)  == Plan[r][k]
Selected(r) == SelectedKeys(Plan[r], ReplayFrom[r])
Skipped(r)  == SkippedKeys(Plan[r], ReplayFrom[r])

\* The row as the scheduler sees it: states.get(key, ("PENDING", 1)).
Seen(row) == IF row.status = "none" THEN [row EXCEPT !.status = "PENDING"] ELSE row

\* _list_run_task_states
States(r) == [k \in Tasks |-> Seen(task[r][k])]

Unread == [k \in Tasks |-> [status |-> "PENDING", attempt |-> 1]]

(***************************************************************************)
(* The locals of a scheduler.  run, task, attempt and status describe the  *)
(* transition it is about to make, cont where it goes on afterwards, ret   *)
(* where it goes on after pushing a task, and after where once it has      *)
(* scheduled what is ready.  todo holds the keys a loop has still to       *)
(* visit, snap the task states it last read, proven the upstream tasks a   *)
(* replay may skip.                                                        *)
(***************************************************************************)
AtTop(label) ==
  [pc |-> label, run |-> NoRun, task |-> 0, attempt |-> 1, status |-> "none",
   cont |-> "pollRuns", ret |-> "pick", after |-> "pollDone",
   todo |-> {}, snap |-> Unread, proven |-> {}]

IdleClient == [op |-> "idle", run |-> NoRun, items |-> <<>>]

Init ==
  /\ runStatus = [r \in Runs |-> "none"]
  /\ task = [r \in Runs |-> [k \in Tasks |-> NoRow]]
  /\ runQ = <<>>
  /\ taskQ = [l \in Lists |-> <<>>]
  /\ doneQ = <<>>
  /\ dlq = <<>>
  /\ executing = [e \in Executors |-> NoMsg]
  /\ sched = [s \in Schedulers |-> AtTop("pollRuns")]
  /\ api = [c \in Clients |-> IdleClient]
  /\ calls = 0
  /\ crashes = 0

-----------------------------------------------------------------------------
(* Statements on the rows.                                                 *)

AlwaysRunning == "RUNNING"   \* mutant: the mode is not looked at

\* The status of a task handed out, and the statuses that take a slot.
Dispatched == IF External THEN "QUEUED" ELSE "RUNNING"
SlotStatus == {Dispatched, "RUNNING"}

\* _project_running_tasks: tasks of FAILED or CANCELLED runs do not count
\* although somebody may still be working on them.
RunningTasks ==
  Cardinality({rk \in Runs \X Tasks :
                 /\ runStatus[rk[1]] \in {"PENDING", "RUNNING"}
                 /\ task[rk[1]][rk[2]].status \in SlotStatus})

\* Whether run r finds no free slot in the project.
SlotsFullLate(r) == RunningTasks > MaxParallel[r]   \* mutant: off by one
SlotsFull(r) == RunningTasks >= MaxParallel[r]

\* Mutant: forgets that SUCCESS is terminal.
CancelEverything(r) ==
  task' = [task EXCEPT ![r] = [k \in Tasks |->
             IF task[r][k].status \in {"none", "FAILED", "CANCELLED"}
             THEN task[r][k]
             ELSE [task[r][k] EXCEPT !.status = "CANCELLED"]]]

\* UPDATE tasks SET status = 'CANCELLED' WHERE the task is not terminal.
CancelRemaining(r) ==
  task' = [task EXCEPT ![r] = [k \in Tasks |->
             IF task[r][k].status \in {"none", "SUCCESS", "FAILED", "CANCELLED"}
             THEN task[r][k]
             ELSE [task[r][k] EXCEPT !.status = "CANCELLED"]]]

-----------------------------------------------------------------------------
(* Scheduler: helpers that move the locals of scheduler s.                 *)

Goto(s, label) == sched' = [sched EXCEPT ![s].pc = label]
Restart(s, label) == sched' = [sched EXCEPT ![s] = AtTop(label)]

\* Call _upsert_or_transition_task for key k, then go on at label.
Upsert(s, k, st, a, label) ==
  [sched[s] EXCEPT !.pc = "taskSelect", !.task = k, !.status = st,
                   !.attempt = a, !.cont = label]

\* Call _transition_run_status, then go on at label.
RunTransition(s, st, label) ==
  [sched[s] EXCEPT !.pc = "runSelect", !.status = st, !.cont = label]

\* Call _cancel_tasks_for_run, then go on at label.
CancelAll(s, label) == [sched[s] EXCEPT !.pc = "cancelAll", !.cont = label]

Arrive(l, label) ==
  IF label \in {"pollRuns", "pollDone"} THEN AtTop(label) ELSE [l EXCEPT !.pc = label]

IsLeast(k, K) == k \in K /\ \A j \in K : k <= j

-----------------------------------------------------------------------------
(* Scheduler: the loop.                                                    *)

\* blpop("mlair:runs:new", timeout=1)
PopRun(s) ==
  /\ sched[s].pc = "pollRuns"
  /\ IF runQ = <<>>
     THEN Restart(s, "pollDone") /\ UNCHANGED runQ
     ELSE /\ sched' = [sched EXCEPT ![s].pc = "admit", ![s].run = Head(runQ)]
          /\ runQ' = Tail(runQ)
  /\ UNCHANGED <<rows, taskQ, doneQ, dlq, executing, api, budget>>

\* Mutant: a run that finds no free slot is dropped.
AdmitOrDrop(s) ==
  LET r == sched[s].run IN
  /\ sched[s].pc = "admit"
  /\ sched' = [sched EXCEPT ![s] =
       IF runStatus[r] = "CANCELLED" THEN CancelAll(s, "pollRuns")
       ELSE IF SlotsFull(r) THEN AtTop("pollDone")
       ELSE RunTransition(s, "RUNNING", "load")]
  /\ UNCHANGED <<rows, queues, executing, api, budget>>

\* A popped run is dropped when cancelled, requeued when the project has no
\* free slot, and started otherwise.
AdmitRun(s) ==
  LET r == sched[s].run IN
  /\ sched[s].pc = "admit"
  /\ \/ /\ runStatus[r] = "CANCELLED"
        /\ sched' = [sched EXCEPT ![s] = CancelAll(s, "pollRuns")]
        /\ UNCHANGED runQ
     \/ /\ runStatus[r] # "CANCELLED"
        /\ SlotsFull(r)
        /\ runQ' = Append(runQ, r)
        /\ Restart(s, "pollDone")
     \/ /\ runStatus[r] # "CANCELLED"
        /\ ~SlotsFull(r)
        /\ sched' = [sched EXCEPT ![s] = RunTransition(s, "RUNNING", "load")]
        /\ UNCHANGED runQ
  /\ UNCHANGED <<rows, taskQ, doneQ, dlq, executing, api, budget>>

\* _cancel_tasks_for_run(run_id, only_pending_like=False)
CancelRunTasks(s) ==
  LET l == sched[s] IN
  /\ l.pc = "cancelAll"
  /\ CancelRemaining(l.run)
  /\ sched' = [sched EXCEPT ![s] = Arrive(l, l.cont)]
  /\ UNCHANGED <<runStatus, queues, executing, api, budget>>

\* _transition_run_status: the SELECT and the check against the table.
SelectRunStatus(s) ==
  LET l == sched[s] IN
  /\ l.pc = "runSelect"
  /\ sched' = [sched EXCEPT ![s] =
                 IF l.status \in RunAllowed(runStatus[l.run])
                 THEN [l EXCEPT !.pc = "runUpdate"]
                 ELSE Arrive(l, l.cont)]
  /\ UNCHANGED <<rows, queues, executing, api, budget>>

\* _transition_run_status: the UPDATE, which does not look at the row again.
UpdateRunStatus(s) ==
  LET l == sched[s] IN
  /\ l.pc = "runUpdate"
  /\ runStatus' = [runStatus EXCEPT ![l.run] = l.status]
  /\ sched' = [sched EXCEPT ![s] = Arrive(l, l.cont)]
  /\ UNCHANGED <<task, queues, executing, api, budget>>

\* _upsert_or_transition_task: the SELECT and the check against the table.
\* A refused transition is only logged: the caller goes on.
SelectTaskStatus(s) ==
  LET l   == sched[s]
      cur == task[l.run][l.task].status IN
  /\ l.pc = "taskSelect"
  /\ sched' = [sched EXCEPT ![s] =
                 IF cur = "none" \/ l.status \in TaskAllowed(cur)
                 THEN [l EXCEPT !.pc = "taskUpdate"]
                 ELSE [l EXCEPT !.pc = l.cont]]
  /\ UNCHANGED <<rows, queues, executing, api, budget>>

\* _upsert_or_transition_task: the INSERT ... ON CONFLICT DO UPDATE.
UpsertTask(s) ==
  LET l == sched[s] IN
  /\ l.pc = "taskUpdate"
  /\ task' = [task EXCEPT ![l.run][l.task] =
                [status |-> l.status, attempt |-> l.attempt]]
  /\ Goto(s, l.cont)
  /\ UNCHANGED <<runStatus, queues, executing, api, budget>>

\* Mutant: evidence counts although the parent's task did not succeed.
LoadPlanOnEvidence(s) ==
  LET r == sched[s].run IN
  /\ sched[s].pc = "load"
  /\ sched' = [sched EXCEPT
       ![s].pc = "initTasks",
       ![s].todo = Keys(Plan[r]),
       ![s].proven = IF ReplayOf[r] = NoRun THEN Keys(Plan[r]) ELSE Evidence[r]]
  /\ UNCHANGED <<rows, queues, executing, api, budget>>

\* The plan of the run, and for a replay the upstream tasks that its parent
\* completed and left evidence of.
LoadPlan(s) ==
  LET r == sched[s].run IN
  /\ sched[s].pc = "load"
  /\ sched' = [sched EXCEPT
       ![s].pc = "initTasks",
       ![s].todo = Keys(Plan[r]),
       ![s].proven = IF ReplayOf[r] = NoRun
                     THEN Keys(Plan[r])
                     ELSE {k \in Evidence[r] :
                             task[ReplayOf[r]][k].status = "SUCCESS"}]
  /\ UNCHANGED <<rows, queues, executing, api, budget>>

\* _init_run_tasks and _init_replay_tasks_with_gating, one key a time.
InitTask(s) ==
  LET l == sched[s] IN
  /\ l.pc = "initTasks"
  /\ \E k \in l.todo :
       /\ IsLeast(k, l.todo)
       /\ sched' = [sched EXCEPT ![s] =
            [Upsert(s, k,
                    IF k \in Selected(l.run) THEN "PENDING"
                    ELSE IF k \in l.proven THEN "SUCCESS" ELSE "FAILED",
                    1, "initTasks")
             EXCEPT !.todo = l.todo \ {k}]]
  /\ UNCHANGED <<rows, queues, executing, api, budget>>

\* Mutant: a replay is scheduled whatever the gating found.
FinishInitUngated(s) ==
  /\ sched[s].pc = "initTasks"
  /\ sched[s].todo = {}
  /\ sched' = [sched EXCEPT ![s].pc = "ready", ![s].after = "pollDone"]
  /\ UNCHANGED <<rows, queues, executing, api, budget>>

\* The end of the initialisation: a replay that may not skip what it has to
\* skip fails, any other run is scheduled.
FinishInit(s) ==
  LET l == sched[s] IN
  /\ l.pc = "initTasks"
  /\ l.todo = {}
  /\ IF Skipped(l.run) \subseteq l.proven
     THEN sched' = [sched EXCEPT ![s].pc = "ready", ![s].after = "pollDone"]
     ELSE sched' = [sched EXCEPT ![s] = RunTransition(s, "FAILED", "pollRuns")]
  /\ UNCHANGED <<rows, queues, executing, api, budget>>

\* _schedule_ready_tasks: the head, which reads the states it decides from.
ReadStates(s) ==
  LET l == sched[s] IN
  /\ l.pc = "ready"
  /\ IF runStatus[l.run] = "CANCELLED"
     THEN sched' = [sched EXCEPT ![s] = CancelAll(s, l.after)]
     ELSE sched' = [sched EXCEPT ![s].pc = "pick",
                                 ![s].snap = States(l.run),
                                 ![s].todo = Selected(l.run)]
  /\ UNCHANGED <<rows, queues, executing, api, budget>>

\* Mutant: a dependency only has to be over.
ReadyAfterAny(r, states, K) ==
  {k \in K : /\ states[k].status = "PENDING"
             /\ \A d \in Deps(r, k) : states[d].status \in {"SUCCESS", "FAILED"}}

\* Mutant: only failed dependencies hold a task back.
ReadyUnlessFailed(r, states, K) ==
  {k \in K : /\ states[k].status = "PENDING"
             /\ \A d \in Deps(r, k) : states[d].status # "FAILED"}

\* The keys of K that wait for nothing any more.
Ready(r, states, K) ==
  {k \in K : /\ states[k].status = "PENDING"
             /\ \A d \in Deps(r, k) : states[d].status = "SUCCESS"}

\* _schedule_ready_tasks: the loop.  Slots are counted anew for every ready
\* key, the states are those read at the head.
PickReady(s) ==
  LET l     == sched[s]
      ready == Ready(l.run, l.snap, l.todo) IN
  /\ l.pc = "pick"
  /\ \/ /\ ready = {} \/ SlotsFull(l.run)
        /\ sched' = [sched EXCEPT ![s] = Arrive(l, l.after)]
     \/ /\ ~SlotsFull(l.run)
        /\ \E k \in ready :
             /\ IsLeast(k, ready)
             /\ sched' = [sched EXCEPT ![s] =
                  [Upsert(s, k, Dispatched, l.snap[k].attempt, "push")
                   EXCEPT !.todo = {j \in l.todo : j > k}, !.ret = "pick"]]
  /\ UNCHANGED <<rows, queues, executing, api, budget>>

\* Mutant: no message for a cancelled run, but the row stays RUNNING.
PushUnlessCancelled(s) ==
  LET l == sched[s] IN
  /\ l.pc = "push"
  /\ taskQ' = IF runStatus[l.run] = "CANCELLED" THEN taskQ
              ELSE [taskQ EXCEPT ![Queue[l.run]] =
                      Append(@, Message(l.run, l.task, l.attempt))]
  /\ sched' = [sched EXCEPT ![s] = Arrive(l, l.ret)]
  /\ UNCHANGED <<rows, runQ, doneQ, dlq, executing, api, budget>>

\* _enqueue_task_event: the rpush, made whatever became of the transition.
\* In external mode the row is all there is.
PushTask(s) ==
  LET l == sched[s] IN
  /\ l.pc = "push"
  /\ taskQ' = IF External THEN taskQ
              ELSE [taskQ EXCEPT ![Queue[l.run]] =
                      Append(@, Message(l.run, l.task, l.attempt))]
  /\ sched' = [sched EXCEPT ![s] = Arrive(l, l.ret)]
  /\ UNCHANGED <<rows, runQ, doneQ, dlq, executing, api, budget>>

\* blpop("mlair:tasks:done", timeout=1), and the upsert of the outcome.
PopDone(s) ==
  /\ sched[s].pc = "pollDone"
  /\ IF doneQ = <<>>
     THEN Restart(s, "pollRuns") /\ UNCHANGED doneQ
     ELSE LET m == Head(doneQ) IN
          /\ sched' = [sched EXCEPT ![s] =
                [Upsert(s, m.task, m.status, m.attempt, "handle")
                 EXCEPT !.run = m.run, !.after = "sync"]]
          /\ doneQ' = Tail(doneQ)
  /\ UNCHANGED <<rows, runQ, taskQ, dlq, executing, api, budget>>

\* Mutant: a success only brings the run up to date.
HandleSuccessSyncOnly(s) ==
  /\ sched[s].pc = "handle"
  /\ sched[s].status = "SUCCESS"
  /\ Goto(s, "sync")
  /\ UNCHANGED <<rows, queues, executing, api, budget>>

\* A success: schedule what it made ready, unless the run is cancelled.
HandleSuccess(s) ==
  LET l == sched[s] IN
  /\ l.pc = "handle"
  /\ l.status = "SUCCESS"
  /\ IF runStatus[l.run] = "CANCELLED"
     THEN sched' = [sched EXCEPT ![s] = CancelAll(s, "pollRuns")]
     ELSE Goto(s, "ready")
  /\ UNCHANGED <<rows, queues, executing, api, budget>>

\* Mutant: the next attempt is queued and the run brought up to date at
\* once, with the row still FAILED.
RetryWithoutMark(s) ==
  LET l == sched[s] IN
  /\ l.pc = "handle"
  /\ l.status = "FAILED"
  /\ l.attempt < MaxAttempts
  /\ taskQ' = [taskQ EXCEPT ![Queue[l.run]] =
                 Append(@, Message(l.run, l.task, l.attempt + 1))]
  /\ Goto(s, "sync")
  /\ UNCHANGED <<rows, runQ, doneQ, dlq, executing, api, budget>>

\* A failure with attempts left: RETRY, then sleep.
HandleRetry(s) ==
  LET l == sched[s] IN
  /\ l.pc = "handle"
  /\ l.status = "FAILED"
  /\ l.attempt < MaxAttempts
  /\ sched' = [sched EXCEPT ![s] =
                 Upsert(s, l.task, "RETRY", l.attempt + 1, "sleep")]
  /\ UNCHANGED <<rows, queues, executing, api, budget>>

\* time.sleep(delay_seconds) ends: enqueue, with no look at the run or at
\* the slots.
WakeUp(s) ==
  LET l == sched[s] IN
  /\ l.pc = "sleep"
  /\ sched' = [sched EXCEPT ![s] =
                 [Upsert(s, l.task, Dispatched, l.attempt, "push")
                  EXCEPT !.ret = "pollRuns"]]
  /\ UNCHANGED <<rows, queues, executing, api, budget>>

\* Mutant: nothing is left to replay.
HandleDeadUnlettered(s) ==
  LET l == sched[s] IN
  /\ l.pc = "handle"
  /\ l.status = "FAILED"
  /\ l.attempt >= MaxAttempts
  /\ Goto(s, "sync")
  /\ UNCHANGED <<rows, queues, executing, api, budget>>

\* A failure with no attempt left goes to the dead-letter queue.
HandleDead(s) ==
  LET l == sched[s] IN
  /\ l.pc = "handle"
  /\ l.status = "FAILED"
  /\ l.attempt >= MaxAttempts
  /\ dlq' = Append(dlq, Message(l.run, l.task, l.attempt))
  /\ Goto(s, "sync")
  /\ UNCHANGED <<rows, runQ, taskQ, doneQ, executing, api, budget>>

\* Mutant: looks at CANCELLED dependencies only.
UnreachableByCancel(r, states) ==
  {k \in Selected(r) : /\ states[k].status = "PENDING"
                       /\ \E d \in Deps(r, k) : states[d].status = "CANCELLED"}

\* _cancel_unreachable_downstream_tasks looks one level down.
Unreachable(r, states) ==
  {k \in Selected(r) : /\ states[k].status = "PENDING"
                       /\ \E d \in Deps(r, k) :
                            states[d].status \in {"FAILED", "CANCELLED"}}

\* _sync_run_status_after_task: the states it decides from.
SyncRead(s) ==
  LET l == sched[s] IN
  /\ l.pc = "sync"
  /\ sched' = [sched EXCEPT ![s].pc = "syncCancel",
                            ![s].snap = States(l.run),
                            ![s].todo = Unreachable(l.run, States(l.run))]
  /\ UNCHANGED <<rows, queues, executing, api, budget>>

SyncCancel(s) ==
  LET l == sched[s] IN
  /\ l.pc = "syncCancel"
  /\ \E k \in l.todo :
       /\ IsLeast(k, l.todo)
       /\ sched' = [sched EXCEPT ![s] =
            [Upsert(s, k, "CANCELLED", l.snap[k].attempt, "syncCancel")
             EXCEPT !.todo = l.todo \ {k}]]
  /\ UNCHANGED <<rows, queues, executing, api, budget>>

\* Mutant: cancelled tasks do not stand in the way of SUCCESS.
VerdictWithoutCancelled(s) ==
  LET l == sched[s]
      found == {l.snap[k].status : k \in Selected(l.run)} \ {"CANCELLED"} IN
  /\ l.pc = "syncCancel"
  /\ l.todo = {}
  /\ sched' = [sched EXCEPT ![s] =
       IF found = {"SUCCESS"} THEN RunTransition(s, "SUCCESS", "pollRuns")
       ELSE IF "FAILED" \in found THEN RunTransition(s, "FAILED", "pollRuns")
       ELSE AtTop("pollRuns")]
  /\ UNCHANGED <<rows, queues, executing, api, budget>>

\* _sync_run_status_after_task: the verdict, from the states read before
\* the cancellations.
SyncVerdict(s) ==
  LET l == sched[s]
      found == {l.snap[k].status : k \in Selected(l.run)} IN
  /\ l.pc = "syncCancel"
  /\ l.todo = {}
  /\ sched' = [sched EXCEPT ![s] =
       IF found = {"SUCCESS"} THEN RunTransition(s, "SUCCESS", "pollRuns")
       ELSE IF "FAILED" \in found THEN RunTransition(s, "FAILED", "pollRuns")
       ELSE AtTop("pollRuns")]
  /\ UNCHANGED <<rows, queues, executing, api, budget>>

SchedulerStep(s) ==
  \/ PopRun(s)         \/ AdmitRun(s)         \/ CancelRunTasks(s)
  \/ SelectRunStatus(s)
  \/ UpdateRunStatus(s) \/ SelectTaskStatus(s) \/ UpsertTask(s)
  \/ LoadPlan(s)       \/ InitTask(s)         \/ FinishInit(s)
  \/ ReadStates(s)     \/ PickReady(s)        \/ PushTask(s)
  \/ PopDone(s)        \/ HandleSuccess(s)    \/ HandleRetry(s)
  \/ WakeUp(s)         \/ HandleDead(s)       \/ SyncRead(s)
  \/ SyncCancel(s)     \/ SyncVerdict(s)

-----------------------------------------------------------------------------
(* Executors.                                                              *)

\* blpop of the three lists takes from the first that is not empty.
ServedList(l) ==
  /\ taskQ[l] # <<>>
  /\ l = "default" => taskQ["high"] = <<>>
  /\ l = "low" => taskQ["high"] = <<>> /\ taskQ["default"] = <<>>

\* Mutant: the message stays in the list while it is worked on.
PeekTask(e) ==
  /\ executing[e] = NoMsg
  /\ \E l \in Lists :
       /\ ServedList(l)
       /\ executing' = [executing EXCEPT ![e] = Head(taskQ[l])]
  /\ UNCHANGED <<rows, queues, sched, api, budget>>

TakeTask(e) ==
  /\ executing[e] = NoMsg
  /\ \E l \in Lists :
       /\ ServedList(l)
       /\ executing' = [executing EXCEPT ![e] = Head(taskQ[l])]
       /\ taskQ' = [taskQ EXCEPT ![l] = Tail(@)]
  /\ UNCHANGED <<rows, runQ, doneQ, dlq, sched, api, budget>>

FinishTask(e) ==
  /\ executing[e] # NoMsg
  /\ \E st \in {"SUCCESS", "FAILED"} :
       doneQ' = Append(doneQ, Finished(executing[e], st))
  /\ executing' = [executing EXCEPT ![e] = NoMsg]
  /\ UNCHANGED <<rows, runQ, taskQ, dlq, sched, api, budget>>

ExecutorStep(e) == TakeTask(e) \/ FinishTask(e)

-----------------------------------------------------------------------------
(* API handlers.                                                           *)

Call(op) == op \in Ops /\ calls < MaxCalls /\ calls' = calls + 1

\* create_run: the INSERT.  A replay needs the row of its parent.
CreateRun(c, r) ==
  /\ api[c].op = "idle"
  /\ runStatus[r] = "none"
  /\ ReplayOf[r] # NoRun => runStatus[ReplayOf[r]] # "none"
  /\ runStatus' = [runStatus EXCEPT ![r] = "PENDING"]
  /\ api' = [api EXCEPT ![c] = [op |-> "publish", run |-> r, items |-> <<>>]]
  /\ UNCHANGED <<task, queues, executing, sched, budget>>

\* publish_run_event
PublishRun(c) ==
  /\ api[c].op = "publish"
  /\ runQ' = Append(runQ, api[c].run)
  /\ api' = [api EXCEPT ![c] = IdleClient]
  /\ UNCHANGED <<rows, taskQ, doneQ, dlq, executing, sched, budget>>

\* Mutant: stores the other accepted spelling.
CancelRunUnnormalised(c, r) ==
  /\ api[c].op = "idle"
  /\ Call("cancel")
  /\ runStatus[r] # "none"
  /\ runStatus' = [runStatus EXCEPT ![r] = "CANCELED"]
  /\ api' = [api EXCEPT ![c] = [op |-> "cancelTasks", run |-> r, items |-> <<>>]]
  /\ UNCHANGED <<task, queues, executing, sched, crashes>>

\* cancel_run_and_tasks: set_run_status(run_id, "CANCELLED"), whatever the
\* status is.
CancelRun(c, r) ==
  /\ api[c].op = "idle"
  /\ Call("cancel")
  /\ runStatus[r] # "none"
  /\ runStatus' = [runStatus EXCEPT ![r] = "CANCELLED"]
  /\ api' = [api EXCEPT ![c] = [op |-> "cancelTasks", run |-> r, items |-> <<>>]]
  /\ UNCHANGED <<task, queues, executing, sched, crashes>>

CancelTasks(c) ==
  /\ api[c].op = "cancelTasks"
  /\ CancelRemaining(api[c].run)
  /\ api' = [api EXCEPT ![c] = IdleClient]
  /\ UNCHANGED <<runStatus, queues, executing, sched, budget>>

\* set_run_status: no transition table here.
SetRunStatus(c, r, st) ==
  /\ api[c].op = "idle"
  /\ Call("status")
  /\ runStatus[r] # "none"
  /\ runStatus' = [runStatus EXCEPT ![r] = st]
  /\ UNCHANGED <<task, queues, executing, sched, api, crashes>>

\* replay_run_dlq_v1: mark_run_running
ReplayDlq(c, r) ==
  /\ api[c].op = "idle"
  /\ Call("replay")
  /\ runStatus[r] # "none"
  /\ runStatus' = [runStatus EXCEPT ![r] =
                     IF @ \in {"PENDING", "FAILED"} THEN "RUNNING" ELSE @]
  /\ api' = [api EXCEPT ![c] = [op |-> "lrange", run |-> r, items |-> <<>>]]
  /\ UNCHANGED <<task, queues, executing, sched, crashes>>

\* replay_dlq_for_run: the LRANGE, of the items of every run
ListDlq(c) ==
  /\ api[c].op = "lrange"
  /\ api' = [api EXCEPT ![c].op = "requeue", ![c].items = dlq]
  /\ UNCHANGED <<rows, queues, executing, sched, budget>>

\* replay_dlq_for_run: the rpush of the next item, items of other runs are
\* skipped.  The task row is not touched: it stays FAILED.
RequeueItem(c) ==
  LET items == api[c].items
      m     == Head(items) IN
  /\ api[c].op = "requeue"
  /\ IF items = <<>>
     THEN api' = [api EXCEPT ![c] = IdleClient] /\ UNCHANGED taskQ
     ELSE IF m.run # api[c].run
     THEN api' = [api EXCEPT ![c].items = Tail(items)] /\ UNCHANGED taskQ
     ELSE /\ taskQ' = [taskQ EXCEPT !["default"] =
                         Append(@, Message(m.run, m.task, m.attempt + 1))]
          /\ api' = [api EXCEPT ![c].op = "lrem"]
  /\ UNCHANGED <<rows, runQ, doneQ, dlq, executing, sched, budget>>

\* LREM key 1 raw: the first entry equal to the item, if there is one.
RemoveItem(c) ==
  LET items == api[c].items IN
  /\ api[c].op = "lrem"
  /\ dlq' = RemoveFirst(dlq, Head(items))
  /\ api' = [api EXCEPT ![c].op = "requeue", ![c].items = Tail(items)]
  /\ UNCHANGED <<rows, runQ, taskQ, doneQ, executing, sched, budget>>

\* The later statements of a handler that has begun.
ClientStep(c) ==
  PublishRun(c) \/ CancelTasks(c) \/ ListDlq(c) \/ RequeueItem(c) \/ RemoveItem(c)

ClientCall(c) ==
  \E r \in Runs : \/ CreateRun(c, r)
                  \/ CancelRun(c, r)
                  \/ ReplayDlq(c, r)
                  \/ \E st \in ManualStatus : SetRunStatus(c, r, st)

-----------------------------------------------------------------------------
(* Crashes: what a process held is gone, rows and lists stay.              *)

SchedulerCrash(s) ==
  /\ crashes < MaxCrashes
  /\ sched[s].pc \notin {"pollRuns", "pollDone"}
  /\ crashes' = crashes + 1
  /\ Restart(s, "pollRuns")
  /\ UNCHANGED <<rows, queues, executing, api, calls>>

ExecutorCrash(e) ==
  /\ crashes < MaxCrashes
  /\ executing[e] # NoMsg
  /\ crashes' = crashes + 1
  /\ executing' = [executing EXCEPT ![e] = NoMsg]
  /\ UNCHANGED <<rows, queues, sched, api, calls>>

ClientCrash(c) ==
  /\ crashes < MaxCrashes
  /\ api[c].op # "idle"
  /\ crashes' = crashes + 1
  /\ api' = [api EXCEPT ![c] = IdleClient]
  /\ UNCHANGED <<rows, queues, executing, sched, calls>>

-----------------------------------------------------------------------------
Next ==
  \/ \E s \in Schedulers : SchedulerStep(s) \/ SchedulerCrash(s)
  \/ \E e \in Executors : ExecutorStep(e) \/ ExecutorCrash(e)
  \/ \E c \in Clients : ClientCall(c) \/ ClientStep(c) \/ ClientCrash(c)

Spec == Init /\ [][Next]_vars

(***************************************************************************)
(* The scheduler is one endless loop, an executor takes whatever is        *)
(* queued, a request handler that has begun goes on.  No request has to be *)
(* made and nothing has to crash.                                          *)
(***************************************************************************)
Fairness ==
  /\ \A s \in Schedulers : WF_vars(SchedulerStep(s))
  /\ \A e \in Executors : WF_vars(ExecutorStep(e))
  /\ \A c \in Clients : WF_vars(ClientStep(c))

FairSpec == Spec /\ Fairness

-----------------------------------------------------------------------------
(***************************************************************************)
(* Where the work on a task is: its message in a list, the executor that   *)
(* took it, the outcome on its way back, or the scheduler that is about to *)
(* push it or is deciding on its outcome.                                  *)
(***************************************************************************)
HoldingPoints == {"push", "handle", "sleep"}

Holds(l, r, k) ==
  /\ l.run = r
  /\ l.task = k
  /\ \/ l.pc \in HoldingPoints
     \/ l.pc \in {"taskSelect", "taskUpdate"} /\ l.cont \in HoldingPoints

IsFor(m, r, k) == m.run = r /\ m.task = k

Copies(r, k) ==
  (UNION {{<<l, i>> : i \in {j \in 1..Len(taskQ[l]) : IsFor(taskQ[l][j], r, k)}} : l \in Lists})
    \cup {<<"done", i>> : i \in {j \in 1..Len(doneQ) : IsFor(doneQ[j], r, k)}}
    \cup {<<"at", e>> : e \in {x \in Executors : IsFor(executing[x], r, k)}}
    \cup {<<"with", s>> : s \in {x \in Schedulers : Holds(sched[x], r, k)}}

InFlight(r, k) == Copies(r, k) # {}

-----------------------------------------------------------------------------
(* Properties.                                                             *)

RowSet == [status : TaskStatus \cup {"none"}, attempt : Nat]
MessageSet == [run : Runs, task : Tasks, attempt : Nat]
OutcomeSet == [run : Runs, task : Tasks, attempt : Nat,
               status : {"SUCCESS", "FAILED"}]

Labels == {"pollRuns", "pollDone", "admit", "runSelect", "runUpdate",
           "taskSelect", "taskUpdate", "cancelAll", "load", "initTasks", "ready", "pick",
           "push", "handle", "sleep", "sync", "syncCancel"}
Local ==
  [pc : Labels, run : Runs \cup {NoRun}, task : Tasks \cup {0}, attempt : Nat,
   status : TaskStatus \cup {"none"}, cont : Labels, ret : {"pick", "pollRuns"},
   after : {"pollRuns", "pollDone", "sync"}, todo : SUBSET Tasks,
   snap : [Tasks -> [status : TaskStatus, attempt : Nat]], proven : SUBSET Tasks]

Handler ==
  [op : {"idle", "publish", "cancelTasks", "lrange", "requeue", "lrem"},
   run : Runs \cup {NoRun}, items : Seq(MessageSet)]

TypeOK ==
  /\ runStatus \in [Runs -> RunStatus \cup {"none"}]
  /\ task \in [Runs -> [Tasks -> RowSet]]
  /\ runQ \in Seq(Runs)
  /\ taskQ \in [Lists -> Seq(MessageSet)]
  /\ doneQ \in Seq(OutcomeSet)
  /\ dlq \in Seq(MessageSet)
  /\ executing \in [Executors -> MessageSet \cup {NoMsg}]
  /\ sched \in [Schedulers -> Local]
  /\ api \in [Clients -> Handler]
  /\ calls \in 0..MaxCalls
  /\ crashes \in 0..MaxCrashes

(***************************************************************************)
(* Work on a task is never in two places: no two executors ever run it at  *)
(* once, no attempt is dispatched twice and no outcome handled twice.      *)
(***************************************************************************)
OneCopy == \A r \in Runs, k \in Tasks : Cardinality(Copies(r, k)) <= 1

(***************************************************************************)
(* Work on a task begins only after everything it depends on succeeded,    *)
(* and none of that is undone while the work goes on, although the         *)
(* scheduler decides from states it read earlier.                          *)
(***************************************************************************)
DepsDone ==
  \A r \in Runs : \A k \in Keys(Plan[r]) :
    InFlight(r, k) => \A d \in Deps(r, k) : task[r][d].status = "SUCCESS"

(***************************************************************************)
(* The project never has more tasks marked RUNNING than the largest        *)
(* max_parallel_tasks of its runs, although slots are counted before the   *)
(* row is written and a retry does not count them at all.                  *)
(***************************************************************************)
SlotsRespected == \E r \in Runs : RunningTasks <= MaxParallel[r]

(***************************************************************************)
(* A run that ended in SUCCESS has every selected task in SUCCESS, and the *)
(* skipped upstream tasks of a replay too.                                 *)
(***************************************************************************)
SuccessIsEarned ==
  \A r \in Runs : runStatus[r] = "SUCCESS" =>
    \A k \in Keys(Plan[r]) : task[r][k].status = "SUCCESS"

(***************************************************************************)
(* A run is only FAILED for a task that failed for good: a failure that    *)
(* will be retried never ends the run.                                     *)
(***************************************************************************)
FailureIsFinal ==
  \A r \in Runs : runStatus[r] = "FAILED" =>
    \E k \in Keys(Plan[r]) : task[r][k].status = "FAILED" /\ ~InFlight(r, k)

(***************************************************************************)
(* A row that says RUNNING is backed by work in flight: a task is never    *)
(* left RUNNING with nobody to end it.                                     *)
(***************************************************************************)
RunningIsBacked ==
  \A r \in Runs, k \in Tasks : task[r][k].status = "RUNNING" => InFlight(r, k)

(***************************************************************************)
(* A task that failed with no attempt left, and is not being worked on, is *)
(* in the dead-letter queue: the replay endpoint can find it.              *)
(***************************************************************************)
DeadIsLettered ==
  \A r \in Runs : \A k \in Selected(r) :
    task[r][k].status = "FAILED" /\ ~InFlight(r, k) =>
      \E i \in 1..Len(dlq) : IsFor(dlq[i], r, k)

(***************************************************************************)
(* A replay passes an upstream task off as done only when its parent run   *)
(* has it at SUCCESS: a missing parent result is never faked.              *)
(***************************************************************************)
ReplayIsProven ==
  \A r \in Runs : ReplayOf[r] # NoRun =>
    \A k \in Skipped(r) :
      task[r][k].status = "SUCCESS" => task[ReplayOf[r]][k].status = "SUCCESS"

(***************************************************************************)
(* Somebody will come back to every run that has not ended: its event is   *)
(* queued or about to be, a scheduler is on it, or one of its tasks is in  *)
(* flight.  Tasks are only ever scheduled on such an occasion.             *)
(***************************************************************************)
Attended(r) ==
  \/ \E i \in 1..Len(runQ) : runQ[i] = r
  \/ \E c \in Clients : api[c].op # "idle" /\ api[c].run = r
  \/ \E s \in Schedulers : sched[s].run = r
  \/ \E k \in Tasks : InFlight(r, k)

NoRunForgotten ==
  \A r \in Runs : runStatus[r] \in {"PENDING", "RUNNING"} => Attended(r)

(***************************************************************************)
(* A task that succeeded stays so, whatever races with it.                 *)
(***************************************************************************)
SuccessIsStable ==
  [][\A r \in Runs, k \in Tasks :
       task[r][k].status = "SUCCESS" => task'[r][k].status = "SUCCESS"]_vars

(***************************************************************************)
(* The scheduler handles the success of a task only with the row at        *)
(* SUCCESS, or CANCELLED when a cancel came first.                         *)
(***************************************************************************)
SuccessIsRecorded ==
  \A s \in Schedulers : LET l == sched[s] IN
    l.pc = "handle" /\ l.status = "SUCCESS" =>
      task[l.run][l.task].status \in {"SUCCESS", "CANCELLED"}

(***************************************************************************)
(* A message for a task is pushed only with its row at RUNNING.            *)
(***************************************************************************)
DispatchIsMarked ==
  \A s \in Schedulers : LET l == sched[s] IN
    l.pc = "push" => task[l.run][l.task].status = "RUNNING"

\* Every run that was created, or set going again, ends.
RunsEnd ==
  \A r \in Runs : runStatus[r] \in {"PENDING", "RUNNING"} ~>
                    runStatus[r] \in {"SUCCESS", "FAILED", "CANCELLED"}

\* A task whose dependency has failed, and is not retried, does not remain
\* PENDING forever.
BlockedTasksEnd ==
  \A r \in Runs : \A k \in Keys(Plan[r]) : \A d \in Deps(r, k) :
    []<>~(/\ task[r][d].status \in {"FAILED", "CANCELLED"}
          /\ task[r][k].status = "PENDING")

(***************************************************************************)
(* The refinement: a task is active while its work is somewhere, and what  *)
(* its row says otherwise.                                                 *)
(***************************************************************************)
Phase ==
  [r \in Runs |-> [k \in Tasks |->
     IF InFlight(r, k) THEN "active"
     ELSE CASE task[r][k].status = "SUCCESS"   -> "succeeded"
            [] task[r][k].status = "FAILED"    -> "dead"
            [] task[r][k].status = "CANCELLED" -> "cancelled"
            [] OTHER                           -> "waiting"]]

Dag == INSTANCE DagExecution WITH
         phase <- Phase, verdict <- runStatus, Skippable <- Skipped

\* The orchestration implements DagExecution.
ImplementsDag == Dag!Spec
=============================================================================
