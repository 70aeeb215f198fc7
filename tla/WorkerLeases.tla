---------------------------- MODULE WorkerLeases ----------------------------
(***************************************************************************)
(* External execution: RunScheduling with External = TRUE, where a task    *)
(* handed out is only a QUEUED row, and the workers that lease such rows,  *)
(* renew their lease, and report an outcome (worker_task_service.py).  The *)
(* scheduler takes back the tasks whose lease has expired.                 *)
(*                                                                         *)
(* A worker asks for one task at a time.  Its identity is its worker_id:   *)
(* a worker that restarts, or gives up waiting for an answer, is the same  *)
(* worker to the API.                                                      *)
(***************************************************************************)
EXTENDS RunScheduling

CONSTANTS
  Workers,      \* worker ids
  Handlers,     \* API handlers of complete and fail requests
  MaxLosses,    \* bound: worker restarts, lost answers, resent requests and
                \* leases that run out while their worker is at work
  NoWorker

ASSUME ExternalAssumption == External
ASSUME LossesAssumption == MaxLosses \in Nat /\ NoWorker \notin Workers

VARIABLES
  lease,        \* lease[r][k]: leased_by, and lease_expires_at against now
  work,         \* work[w]: the task that worker w has, and what it does
  request,      \* request[h]: where a complete or fail handler is
  reaping,      \* reaping[s]: the runs scheduler s took leases back from and
                \* has not rescheduled yet
  losses        \* losses so far

leaseVars == <<lease, work, request, reaping, losses>>
allVars   == <<vars, leaseVars>>

NoLease == [by |-> NoWorker, time |-> "none"]
NoWork  == [run |-> NoRun, task |-> 0, phase |-> "idle"]
NoRequest ==
  [pc |-> "free", by |-> NoWorker, run |-> NoRun, task |-> 0,
   status |-> "none", attempt |-> 0]

LeaseInit ==
  /\ Init
  /\ lease = [r \in Runs |-> [k \in Tasks |-> NoLease]]
  /\ work = [w \in Workers |-> NoWork]
  /\ request = [h \in Handlers |-> NoRequest]
  /\ reaping = [s \in Schedulers |-> {}]
  /\ losses = 0

Lose == losses < MaxLosses /\ losses' = losses + 1

\* The row of task k of run r is leased to worker w.
LeasedTo(r, k, w) == task[r][k].status = "RUNNING" /\ lease[r][k].by = w

-----------------------------------------------------------------------------
(* Scheduler.                                                              *)

\* The upsert of a task clears its lease.
ClearedLease(s) ==
  IF sched[s].pc = "taskUpdate"
  THEN [lease EXCEPT ![sched[s].run][sched[s].task] = NoLease] ELSE lease

\* Any step of the loop but those that take leases back.
LoopStep(s) ==
  /\ sched[s].pc = "pollRuns" => reaping[s] = {}
  /\ SchedulerStep(s)
  /\ lease' = ClearedLease(s)
  /\ UNCHANGED <<work, request, reaping, losses>>

\* Mutant: an update that returns no run ids.
ReapSilently(s) ==
  LET Rows == {rk \in Runs \X Tasks : /\ task[rk[1]][rk[2]].status = "RUNNING"
                                     /\ lease[rk[1]][rk[2]].time = "expired"} IN
  /\ sched[s].pc = "pollRuns"
  /\ reaping[s] = {}
  /\ Rows # {}
  /\ task' = [r \in Runs |-> [k \in Tasks |->
                IF <<r, k>> \in Rows
                THEN [task[r][k] EXCEPT !.status = "PENDING"] ELSE task[r][k]]]
  /\ lease' = [r \in Runs |-> [k \in Tasks |->
                 IF <<r, k>> \in Rows THEN NoLease ELSE lease[r][k]]]
  /\ UNCHANGED <<runStatus, queues, executing, sched, api, budget, work,
                 request, losses, reaping>>

ExpiredRows ==
  {rk \in Runs \X Tasks : /\ task[rk[1]][rk[2]].status = "RUNNING"
                          /\ lease[rk[1]][rk[2]].time = "expired"}

\* _requeue_expired_leases: the UPDATE ... RETURNING run_id
Reap(s) ==
  /\ sched[s].pc = "pollRuns"
  /\ reaping[s] = {}
  /\ ExpiredRows # {}
  /\ task' = [r \in Runs |-> [k \in Tasks |->
                IF <<r, k>> \in ExpiredRows
                THEN [task[r][k] EXCEPT !.status = "PENDING"] ELSE task[r][k]]]
  /\ lease' = [r \in Runs |-> [k \in Tasks |->
                 IF <<r, k>> \in ExpiredRows THEN NoLease ELSE lease[r][k]]]
  /\ reaping' = [reaping EXCEPT ![s] = {rk[1] : rk \in ExpiredRows}]
  /\ UNCHANGED <<runStatus, queues, executing, sched, api, budget, work,
                 request, losses>>

\* _requeue_expired_leases: _schedule_ready_tasks for the next of the runs,
\* which come in no order.
Reschedule(s) ==
  /\ sched[s].pc = "pollRuns"
  /\ \E r \in reaping[s] :
       /\ sched' = [sched EXCEPT ![s] = [AtTop("ready") EXCEPT !.run = r,
                                                               !.after = "pollRuns"]]
       /\ reaping' = [reaping EXCEPT ![s] = @ \ {r}]
  /\ UNCHANGED <<rows, queues, executing, api, budget, lease, work, request,
                 losses>>

-----------------------------------------------------------------------------
(* Workers.                                                                *)

\* lease_tasks: UPDATE ... FOR UPDATE SKIP LOCKED of a QUEUED task of a
\* RUNNING run.  Rows that others have locked are skipped, so the order of
\* priorities is not binding.  The answer may be lost.
LeaseTask(w, r, k) ==
  /\ work[w].phase = "idle"
  /\ runStatus[r] = "RUNNING"
  /\ task[r][k].status = "QUEUED"
  /\ task' = [task EXCEPT ![r][k].status = "RUNNING"]
  /\ lease' = [lease EXCEPT ![r][k] = [by |-> w, time |-> "live"]]
  /\ \/ /\ work' = [work EXCEPT ![w] = [run |-> r, task |-> k, phase |-> "working"]]
        /\ UNCHANGED losses
     \/ Lose /\ UNCHANGED work
  /\ UNCHANGED <<runStatus, queues, executing, sched, api, budget, request,
                 reaping>>

\* heartbeat_task: an expired lease is live again if nobody took it back.
Heartbeat(w) ==
  LET r == work[w].run
      k == work[w].task IN
  /\ work[w].phase = "working"
  /\ LeasedTo(r, k, w)
  /\ lease[r][k].time = "expired"
  /\ lease' = [lease EXCEPT ![r][k].time = "live"]
  /\ UNCHANGED <<vars, work, request, reaping, losses>>

\* The worker ends its task and sends complete or fail.
Report(w, h, st) ==
  /\ work[w].phase = "working"
  /\ request[h].pc = "free"
  /\ request' = [request EXCEPT ![h] =
                   [pc |-> "load", by |-> w, run |-> work[w].run,
                    task |-> work[w].task, status |-> st, attempt |-> 0]]
  /\ work' = [work EXCEPT ![w].phase = IF st = "SUCCESS" THEN "completing" ELSE "failing"]
  /\ UNCHANGED <<vars, lease, reaping, losses>>

\* No answer in time: the worker sends the same request again.
Resend(w, h) ==
  /\ work[w].phase \in {"completing", "failing"}
  /\ request[h].pc = "free"
  /\ Lose
  /\ request' = [request EXCEPT ![h] =
                   [pc |-> "load", by |-> w, run |-> work[w].run, task |-> work[w].task,
                    status |-> IF work[w].phase = "completing" THEN "SUCCESS" ELSE "FAILED",
                    attempt |-> 0]]
  /\ UNCHANGED <<vars, lease, work, reaping>>

\* The worker restarts, or gives up waiting.
WorkerLost(w) ==
  /\ work[w].phase # "idle"
  /\ Lose
  /\ work' = [work EXCEPT ![w] = NoWork]
  /\ UNCHANGED <<vars, lease, request, reaping>>

\* A lease runs out, because its worker is gone or does not know of it, or
\* because the worker is slow.
Abandoned(r, k) ==
  LET w == lease[r][k].by IN
  w \in Workers /\ ~(work[w].run = r /\ work[w].task = k)

Expire(r, k) ==
  /\ lease[r][k].time = "live"
  /\ \/ Abandoned(r, k) /\ UNCHANGED losses
     \/ ~Abandoned(r, k) /\ Lose
  /\ lease' = [lease EXCEPT ![r][k].time = "expired"]
  /\ UNCHANGED <<vars, work, request, reaping>>

-----------------------------------------------------------------------------
(* complete_task and fail_task.                                            *)

\* The handler ends, and its worker, if it still waits for this task's
\* answer, asks for other work.
Answer(h) ==
  LET q == request[h] IN
  /\ request' = [request EXCEPT ![h] = NoRequest]
  /\ work' = [work EXCEPT ![q.by] =
                IF @.phase \in {"completing", "failing"} /\ @.run = q.run /\ @.task = q.task
                THEN NoWork ELSE @]

\* _load_task_run_row and the checks of the row: idempotent when the task is
\* complete already, 409 when it is not leased to the worker.
LoadRow(h) ==
  LET q == request[h] IN
  /\ q.pc = "load"
  /\ \/ /\ LeasedTo(q.run, q.task, q.by)
        /\ request' = [request EXCEPT ![h].pc = "update",
                                      ![h].attempt = task[q.run][q.task].attempt]
        /\ UNCHANGED work
     \/ ~LeasedTo(q.run, q.task, q.by) /\ Answer(h)
  /\ UNCHANGED <<vars, lease, reaping, losses>>

\* Mutant: UPDATE ... WHERE task_id = %s
UpdateUnguarded(h) ==
  LET q == request[h] IN
  /\ q.pc = "update"
  /\ task' = [task EXCEPT ![q.run][q.task].status = q.status]
  /\ lease' = [lease EXCEPT ![q.run][q.task] = NoLease]
  /\ request' = [request EXCEPT ![h].pc = "publish"]
  /\ UNCHANGED <<runStatus, queues, executing, sched, api, budget, reaping, work, losses>>

\* UPDATE ... WHERE task_id = %s AND status = 'RUNNING' AND leased_by = %s
UpdateRow(h) ==
  LET q == request[h] IN
  /\ q.pc = "update"
  /\ \/ /\ LeasedTo(q.run, q.task, q.by)
        /\ task' = [task EXCEPT ![q.run][q.task].status = q.status]
        /\ lease' = [lease EXCEPT ![q.run][q.task] = NoLease]
        /\ request' = [request EXCEPT ![h].pc = "publish"]
        /\ UNCHANGED work
     \/ /\ ~LeasedTo(q.run, q.task, q.by)
        /\ Answer(h)
        /\ UNCHANGED <<task, lease>>
  /\ UNCHANGED <<runStatus, queues, executing, sched, api, budget, reaping, losses>>

\* Mutant: publishes the word for the HTTP answer.
PublishAnswer(h) ==
  LET q == request[h] IN
  /\ q.pc = "publish"
  /\ doneQ' = Append(doneQ, [run |-> q.run, task |-> q.task,
                             attempt |-> q.attempt, status |-> "ok"])
  /\ Answer(h)
  /\ UNCHANGED <<rows, runQ, taskQ, dlq, executing, sched, api, budget, lease,
                 reaping, losses>>

\* publish_task_finished, with the attempt that was loaded.
PublishOutcome(h) ==
  LET q == request[h] IN
  /\ q.pc = "publish"
  /\ doneQ' = Append(doneQ, [run |-> q.run, task |-> q.task,
                             attempt |-> q.attempt, status |-> q.status])
  /\ Answer(h)
  /\ UNCHANGED <<rows, runQ, taskQ, dlq, executing, sched, api, budget, lease,
                 reaping, losses>>

HandlerStep(h) == LoadRow(h) \/ UpdateRow(h) \/ PublishOutcome(h)

HandlerCrash(h) ==
  /\ request[h].pc # "free"
  /\ crashes < MaxCrashes
  /\ crashes' = crashes + 1
  /\ request' = [request EXCEPT ![h] = NoRequest]
  /\ UNCHANGED <<rows, queues, executing, sched, api, calls, lease, work,
                 reaping, losses>>

-----------------------------------------------------------------------------
LoopCrash(s) ==
  /\ SchedulerCrash(s)
  /\ reaping' = [reaping EXCEPT ![s] = {}]
  /\ UNCHANGED <<lease, work, request, losses>>

SchedulerTurn(s) == LoopStep(s) \/ Reschedule(s)

WorkerStep(w) ==
  \/ \E r \in Runs, k \in Tasks : LeaseTask(w, r, k)
  \/ \E h \in Handlers, st \in {"SUCCESS", "FAILED"} : Report(w, h, st)

LeaseNext ==
  \/ \E s \in Schedulers : SchedulerTurn(s) \/ Reap(s) \/ LoopCrash(s)
  \/ \E w \in Workers : \/ WorkerStep(w) \/ Heartbeat(w) \/ WorkerLost(w)
                        \/ \E h \in Handlers : Resend(w, h)
  \/ \E h \in Handlers : HandlerStep(h) \/ HandlerCrash(h)
  \/ \E r \in Runs, k \in Tasks : Expire(r, k)
  \/ \E c \in Clients : (ClientCall(c) \/ ClientStep(c) \/ ClientCrash(c)) /\ UNCHANGED leaseVars

LeaseSpec == LeaseInit /\ [][LeaseNext]_allVars

(***************************************************************************)
(* The reaper's tick comes up again and again while the loop turns, a      *)
(* worker that has a task ends it and one that has none asks for one, and  *)
(* time passes: the lease of a task that nobody works on runs out.         *)
(***************************************************************************)
LeaseFairness ==
  /\ \A s \in Schedulers : WF_allVars(SchedulerTurn(s)) /\ SF_allVars(Reap(s))
  /\ \A w \in Workers : WF_allVars(WorkerStep(w))
  /\ \A h \in Handlers : WF_allVars(HandlerStep(h))
  /\ \A r \in Runs, k \in Tasks : WF_allVars(Expire(r, k))
  /\ \A c \in Clients : WF_allVars(ClientStep(c) /\ UNCHANGED leaseVars)

FairLeaseSpec == LeaseSpec /\ LeaseFairness

-----------------------------------------------------------------------------
(* Properties.                                                             *)

LeaseTypeOK ==
  /\ TypeOK
  /\ lease \in [Runs -> [Tasks -> [by : Workers \cup {NoWorker},
                                   time : {"none", "live", "expired"}]]]
  /\ work \in [Workers -> [run : Runs \cup {NoRun}, task : Tasks \cup {0},
                           phase : {"idle", "working", "completing", "failing"}]]
  /\ request \in [Handlers ->
                     [pc : {"free", "load", "update", "publish"},
                      by : Workers \cup {NoWorker}, run : Runs \cup {NoRun},
                      task : Tasks \cup {0}, status : {"none", "SUCCESS", "FAILED"},
                      attempt : Nat]]
  /\ reaping \in [Schedulers -> SUBSET Runs]
  /\ losses \in 0..MaxLosses

(***************************************************************************)
(* A row that says RUNNING carries a lease that can run out, whoever wrote *)
(* it last: the reaper finds every task whose worker is gone.              *)
(***************************************************************************)
RunningIsLeased ==
  \A r \in Runs, k \in Tasks :
    task[r][k].status = "RUNNING" =>
      lease[r][k].by # NoWorker /\ lease[r][k].time # "none"

(***************************************************************************)
(* The outcomes of a task that are on their way: about to be published,    *)
(* published, or with the scheduler that has not decided about them yet.   *)
(***************************************************************************)
Outcomes(r, k) ==
  {h \in Handlers : request[h].pc = "publish" /\ IsFor(request[h], r, k)}
    \cup {i \in 1..Len(doneQ) : IsFor(doneQ[i], r, k)}
    \cup {s \in Schedulers : /\ IsFor(sched[s], r, k)
                             /\ \/ sched[s].pc = "handle"
                                \/ sched[s].cont = "handle" /\ sched[s].pc \in {"taskSelect", "taskUpdate"}}

(***************************************************************************)
(* While an outcome of a task is on its way there is no second one and the *)
(* task is closed: it cannot be leased again, although the reaper, a       *)
(* cancellation and a resent request race with the report.                 *)
(***************************************************************************)
OutcomeCloses ==
  \A r \in Runs, k \in Tasks :
    /\ Cardinality(Outcomes(r, k)) <= 1
    /\ Outcomes(r, k) # {} => task[r][k].status \in {"SUCCESS", "FAILED"}

(***************************************************************************)
(* A task is offered to workers, or leased, only while everything it       *)
(* depends on is at SUCCESS, also after it was taken back.                 *)
(***************************************************************************)
OfferedAfterDeps ==
  \A r \in Runs : \A k \in Keys(Plan[r]) :
    task[r][k].status \in {"QUEUED", "RUNNING"} =>
      \A d \in Deps(r, k) : task[r][d].status = "SUCCESS"

(***************************************************************************)
(* As long as no handler and no scheduler crashes and nothing is           *)
(* cancelled, every run ends, though workers vanish, answers are lost and  *)
(* requests are sent twice.                                                *)
(***************************************************************************)
RunsEndUnlessCrash == <>(crashes > 0 \/ calls > 0) \/ RunsEnd
=============================================================================
