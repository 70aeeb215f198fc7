------------------------- MODULE WorkerLeases_proofs -------------------------
(***************************************************************************)
(* Theorems about WorkerLeases for any number of workers, handlers, runs   *)
(* and tasks, any plan and any bound.  Types and RunningIsLeased hold with *)
(* any number of schedulers; the order of a run, and that the outcome of a *)
(* task is one and closes it, with one scheduler.  They rest on the lemmas *)
(* about RunScheduling.                                                    *)
(***************************************************************************)
EXTENDS WorkerLeases, RunFlight_proofs

-----------------------------------------------------------------------------
(* Types.  A report and a request have a task in hand where they use it.     *)

Leases   == [by : Workers \cup {NoWorker}, time : {"none", "live", "expired"}]
Works    == [run : Runs \cup {NoRun}, task : Tasks \cup {0},
             phase : {"idle", "working", "completing", "failing"}]
Requests == [pc : {"free", "load", "update", "publish"}, by : Workers \cup {NoWorker},
             run : Runs \cup {NoRun}, task : Tasks \cup {0},
             status : {"none", "SUCCESS", "FAILED"}, attempt : Nat]

SoundWork(w) == w.phase # "idle" => w.run \in Runs /\ w.task \in Tasks

SoundRequest(q) ==
  q.pc # "free" => /\ q.by \in Workers /\ q.run \in Runs /\ q.task \in Tasks
                   /\ q.status \in {"SUCCESS", "FAILED"}

LeaseVarsOK ==
  /\ lease \in [Runs -> [Tasks -> Leases]]
  /\ work \in [Workers -> Works] /\ \A w \in Workers : SoundWork(work[w])
  /\ request \in [Handlers -> Requests] /\ \A h \in Handlers : SoundRequest(request[h])
  /\ reaping \in [Schedulers -> SUBSET Runs]
  /\ losses \in 0..MaxLosses

LeaseInv == TypeInv /\ LeaseVarsOK

LEMMA InitLeases == LeaseInit => LeaseInv
<1>. SUFFICES ASSUME LeaseInit PROVE LeaseInv
  OBVIOUS
<1>1. TypeInv
  BY InitSound DEF LeaseInit
<1>2. NoLease \in Leases /\ NoWork \in Works /\ NoRequest \in Requests
  BY DEF NoLease, Leases, NoWork, Works, NoRequest, Requests
<1>3. SoundWork(NoWork) /\ SoundRequest(NoRequest)
  BY DEF NoWork, SoundWork, NoRequest, SoundRequest
<1>. QED
  BY <1>1, <1>2, <1>3, LossesAssumption DEF LeaseInit, LeaseInv, LeaseVarsOK

\* Only rows of tasks change.
LEMMA RowStep ==
  ASSUME TypeInv, task' \in [Runs -> [Tasks -> RowSet]],
         UNCHANGED <<runStatus, queues, executing, sched, api, budget>>
  PROVE  TypeInv'
BY DEF TypeInv, TypeOK, SoundHandler, queues, budget

LEMMA SameRows ==
  ASSUME TypeInv, UNCHANGED vars
  PROVE  TypeInv'
BY DEF TypeInv, TypeOK, SoundHandler, vars

LEMMA OneRow ==
  ASSUME TypeInv, NEW r \in Runs, NEW k \in Tasks, NEW st \in TaskStatus,
         task' = [task EXCEPT ![r][k].status = st]
  PROVE  task' \in [Runs -> [Tasks -> RowSet]]
<1>1. task \in [Runs -> [Tasks -> RowSet]]
  BY DEF TypeInv, TypeOK
<1>2. [task[r][k] EXCEPT !.status = st] \in RowSet
  BY <1>1 DEF RowSet
<1>. QED
  BY <1>1, <1>2

LEMMA LoopStepTyped ==
  ASSUME LeaseInv, NEW s \in Schedulers, LoopStep(s)
  PROVE  LeaseInv'
<1>1. TypeInv'
  BY SchedulerSound DEF LeaseInv, LoopStep
<1>2. lease' \in [Runs -> [Tasks -> Leases]]
  <2>1. NoLease \in Leases
    BY DEF NoLease, Leases
  <2>. QED
    BY <2>1 DEF LoopStep, ClearedLease, LeaseInv, LeaseVarsOK
<1>. QED
  BY <1>1, <1>2 DEF LoopStep, LeaseInv, LeaseVarsOK

LEMMA ReapTyped ==
  ASSUME LeaseInv, NEW s \in Schedulers, Reap(s)
  PROVE  LeaseInv'
<1>1. task \in [Runs -> [Tasks -> RowSet]] /\ "PENDING" \in TaskStatus
  BY DEF LeaseInv, TypeInv, TypeOK, TaskStatus
<1>2. task' \in [Runs -> [Tasks -> RowSet]]
  <2>1. \A r \in Runs, k \in Tasks :
          task[r][k] \in RowSet /\ [task[r][k] EXCEPT !.status = "PENDING"] \in RowSet
    BY <1>1 DEF RowSet
  <2>. QED
    BY <2>1 DEF Reap
<1>3. lease' \in [Runs -> [Tasks -> Leases]]
  <2>1. NoLease \in Leases
    BY DEF NoLease, Leases
  <2>. QED
    BY <2>1 DEF Reap, LeaseInv, LeaseVarsOK
<1>4. reaping' \in [Schedulers -> SUBSET Runs]
  <2>1. {rk[1] : rk \in ExpiredRows} \subseteq Runs
    BY DEF ExpiredRows
  <2>. QED
    BY <2>1 DEF Reap, LeaseInv, LeaseVarsOK
<1>5. TypeInv'
  BY <1>2, RowStep DEF Reap, LeaseInv
<1>. QED
  BY <1>3, <1>4, <1>5 DEF Reap, LeaseInv, LeaseVarsOK

LEMMA RescheduleTyped ==
  ASSUME LeaseInv, NEW s \in Schedulers, Reschedule(s)
  PROVE  LeaseInv'
<1>1. PICK r \in reaping[s] :
        /\ sched' = [sched EXCEPT ![s] = [AtTop("ready") EXCEPT !.run = r, !.after = "pollRuns"]]
        /\ reaping' = [reaping EXCEPT ![s] = @ \ {r}]
  BY DEF Reschedule
<1>. DEFINE l == [AtTop("ready") EXCEPT !.run = r, !.after = "pollRuns"]
<1>2. r \in Runs
  BY DEF LeaseInv, LeaseVarsOK
<1>3. Sound(l)
  BY <1>2 DEF Sound, AtTop, Local, Labels, Unread, TaskStatus
<1>. HIDE DEF l
<1>4. TypeInv'
  BY <1>1, <1>3, LocalStep DEF Reschedule, LeaseInv, l
<1>. QED
  BY <1>1, <1>4 DEF Reschedule, LeaseInv, LeaseVarsOK

LEMMA LoopCrashTyped ==
  ASSUME LeaseInv, NEW s \in Schedulers, LoopCrash(s)
  PROVE  LeaseInv'
<1>1. TypeInv'
  BY CrashSound DEF LeaseInv, LoopCrash
<1>. QED
  BY <1>1 DEF LoopCrash, LeaseInv, LeaseVarsOK

\* Lost or not, the count stays in bounds.
LEMMA LossesTyped ==
  ASSUME LeaseInv, Lose \/ UNCHANGED losses
  PROVE  losses' \in 0..MaxLosses
BY LossesAssumption DEF LeaseInv, LeaseVarsOK, Lose

\* A worker has other work.
LEMMA WorkTyped ==
  ASSUME LeaseInv, NEW w \in Workers, NEW j \in Works, SoundWork(j),
         work' = [work EXCEPT ![w] = j]
  PROVE  work' \in [Workers -> Works] /\ \A v \in Workers : SoundWork(work'[v])
BY DEF LeaseInv, LeaseVarsOK

LEMMA LeaseTaskTyped ==
  ASSUME LeaseInv, NEW w \in Workers, NEW r \in Runs, NEW k \in Tasks, LeaseTask(w, r, k)
  PROVE  LeaseInv'
<1>1. TypeInv'
  <2>1. "RUNNING" \in TaskStatus
    BY DEF TaskStatus
  <2>2. task' \in [Runs -> [Tasks -> RowSet]]
    BY <2>1, OneRow DEF LeaseTask, LeaseInv
  <2>. QED
    BY <2>2, RowStep DEF LeaseTask, LeaseInv
<1>2. lease' \in [Runs -> [Tasks -> Leases]]
  <2>1. [by |-> w, time |-> "live"] \in Leases
    BY DEF Leases
  <2>2. lease' = [lease EXCEPT ![r][k] = [by |-> w, time |-> "live"]]
    BY DEF LeaseTask
  <2>. QED
    BY <2>1, <2>2 DEF LeaseInv, LeaseVarsOK
<1>3. losses' \in 0..MaxLosses
  BY LossesTyped DEF LeaseTask
<1>4. work' \in [Workers -> Works] /\ \A v \in Workers : SoundWork(work'[v])
  <2>. DEFINE j == [run |-> r, task |-> k, phase |-> "working"]
  <2>1. j \in Works /\ SoundWork(j)
    BY DEF Works, SoundWork
  <2>2. CASE work' = [work EXCEPT ![w] = j]
    <3>. HIDE DEF j
    <3>. QED
      BY <2>1, <2>2, WorkTyped
  <2>3. CASE UNCHANGED work
    BY <2>3 DEF LeaseInv, LeaseVarsOK
  <2>. QED
    BY <2>2, <2>3 DEF LeaseTask
<1>. QED
  BY <1>1, <1>2, <1>3, <1>4 DEF LeaseTask, LeaseInv, LeaseVarsOK

LEMMA HeartbeatTyped ==
  ASSUME LeaseInv, NEW w \in Workers, Heartbeat(w)
  PROVE  LeaseInv'
<1>1. work[w].run \in Runs /\ work[w].task \in Tasks
  BY DEF Heartbeat, LeaseInv, LeaseVarsOK, SoundWork
<1>2. lease' \in [Runs -> [Tasks -> Leases]]
  <2>1. ASSUME NEW r \in Runs, NEW k \in Tasks,
               lease' = [lease EXCEPT ![r][k].time = "live"]
        PROVE  lease' \in [Runs -> [Tasks -> Leases]]
    <3>1. lease[r][k] \in Leases
      BY DEF LeaseInv, LeaseVarsOK
    <3>2. [lease[r][k] EXCEPT !.time = "live"] \in Leases
      BY <3>1 DEF Leases
    <3>. DEFINE new == [lease[r][k] EXCEPT !.time = "live"]
    <3>3. lease' = [lease EXCEPT ![r][k] = new]
      BY <2>1
    <3>. HIDE DEF new
    <3>. QED
      BY <3>2, <3>3 DEF LeaseInv, LeaseVarsOK, new
  <2>. QED
    BY <1>1, <2>1 DEF Heartbeat
<1>3. TypeInv'
  BY SameRows DEF Heartbeat, LeaseInv
<1>. QED
  BY <1>2, <1>3 DEF Heartbeat, LeaseInv, LeaseVarsOK

\* A handler gets a report.
LEMMA RequestTyped ==
  ASSUME LeaseInv, NEW h \in Handlers, NEW q \in Requests, SoundRequest(q),
         request' = [request EXCEPT ![h] = q]
  PROVE  request' \in [Handlers -> Requests] /\ \A g \in Handlers : SoundRequest(request'[g])
BY DEF LeaseInv, LeaseVarsOK

LEMMA ReportTyped ==
  ASSUME LeaseInv, NEW w \in Workers, NEW h \in Handlers, NEW st \in {"SUCCESS", "FAILED"},
         Report(w, h, st)
  PROVE  LeaseInv'
<1>. DEFINE q == [pc |-> "load", by |-> w, run |-> work[w].run, task |-> work[w].task,
                  status |-> st, attempt |-> 0]
            j == [work[w] EXCEPT !.phase = IF st = "SUCCESS" THEN "completing" ELSE "failing"]
<1>1. work[w] \in Works /\ work[w].run \in Runs /\ work[w].task \in Tasks
  BY DEF Report, LeaseInv, LeaseVarsOK, SoundWork
<1>2. q \in Requests /\ SoundRequest(q)
  BY <1>1 DEF Requests, SoundRequest
<1>3. j \in Works /\ SoundWork(j)
  BY <1>1 DEF Works, SoundWork
<1>4. request' = [request EXCEPT ![h] = q] /\ work' = [work EXCEPT ![w] = j]
  BY DEF Report, LeaseInv, LeaseVarsOK
<1>. HIDE DEF q, j
<1>5. TypeInv'
  BY SameRows DEF Report, LeaseInv
<1>. QED
  BY <1>2, <1>3, <1>4, <1>5, RequestTyped, WorkTyped DEF Report, LeaseInv, LeaseVarsOK

LEMMA ResendTyped ==
  ASSUME LeaseInv, NEW w \in Workers, NEW h \in Handlers, Resend(w, h)
  PROVE  LeaseInv'
<1>. DEFINE q == [pc |-> "load", by |-> w, run |-> work[w].run, task |-> work[w].task,
                  status |-> IF work[w].phase = "completing" THEN "SUCCESS" ELSE "FAILED",
                  attempt |-> 0]
<1>1. work[w] \in Works /\ work[w].run \in Runs /\ work[w].task \in Tasks
  BY DEF Resend, LeaseInv, LeaseVarsOK, SoundWork
<1>2. q \in Requests /\ SoundRequest(q)
  BY <1>1 DEF Requests, SoundRequest
<1>3. request' = [request EXCEPT ![h] = q]
  BY DEF Resend
<1>. HIDE DEF q
<1>4. TypeInv' /\ losses' \in 0..MaxLosses
  BY SameRows, LossesTyped DEF Resend, LeaseInv
<1>. QED
  BY <1>2, <1>3, <1>4, RequestTyped DEF Resend, LeaseInv, LeaseVarsOK

LEMMA NothingInHand ==
  /\ NoWork \in Works /\ SoundWork(NoWork)
  /\ NoRequest \in Requests /\ SoundRequest(NoRequest)
BY DEF NoWork, Works, SoundWork, NoRequest, Requests, SoundRequest

LEMMA WorkerLostTyped ==
  ASSUME LeaseInv, NEW w \in Workers, WorkerLost(w)
  PROVE  LeaseInv'
<1>1. TypeInv' /\ losses' \in 0..MaxLosses
  BY SameRows, LossesTyped DEF WorkerLost, LeaseInv
<1>. QED
  BY <1>1, NothingInHand, WorkTyped DEF WorkerLost, LeaseInv, LeaseVarsOK

LEMMA ExpireTyped ==
  ASSUME LeaseInv, NEW r \in Runs, NEW k \in Tasks, Expire(r, k)
  PROVE  LeaseInv'
<1>1. TypeInv' /\ losses' \in 0..MaxLosses
  BY SameRows, LossesTyped DEF Expire, LeaseInv
<1>2. lease' \in [Runs -> [Tasks -> Leases]]
  <2>1. [lease[r][k] EXCEPT !.time = "expired"] \in Leases
    BY DEF LeaseInv, LeaseVarsOK, Leases
  <2>. QED
    BY <2>1 DEF Expire, LeaseInv, LeaseVarsOK
<1>. QED
  BY <1>1, <1>2 DEF Expire, LeaseInv, LeaseVarsOK

\* A handler that ends lets its worker go on.
LEMMA AnswerTyped ==
  ASSUME LeaseInv, NEW h \in Handlers, Answer(h), request[h].pc # "free"
  PROVE  /\ request' \in [Handlers -> Requests] /\ \A g \in Handlers : SoundRequest(request'[g])
         /\ work' \in [Workers -> Works] /\ \A v \in Workers : SoundWork(work'[v])
<1>. DEFINE w == request[h].by
            j == IF /\ work[w].phase \in {"completing", "failing"}
                    /\ work[w].run = request[h].run /\ work[w].task = request[h].task
                 THEN NoWork ELSE work[w]
<1>1. w \in Workers
  BY DEF LeaseInv, LeaseVarsOK, SoundRequest
<1>2. j \in Works /\ SoundWork(j)
  BY <1>1, NothingInHand DEF LeaseInv, LeaseVarsOK
<1>3. work' = [work EXCEPT ![w] = j] /\ request' = [request EXCEPT ![h] = NoRequest]
  BY DEF Answer
<1>. HIDE DEF j, w
<1>. QED
  BY <1>1, <1>2, <1>3, NothingInHand, RequestTyped, WorkTyped

LEMMA LoadRowTyped ==
  ASSUME LeaseInv, NEW h \in Handlers, LoadRow(h)
  PROVE  LeaseInv'
<1>. DEFINE q == request[h]
<1>0. TypeInv'
  BY SameRows DEF LoadRow, LeaseInv
<1>1. CASE LeasedTo(q.run, q.task, q.by)
  <2>. DEFINE g == [q EXCEPT !.pc = "update", !.attempt = task[q.run][q.task].attempt]
  <2>1. q \in Requests /\ SoundRequest(q) /\ q.run \in Runs /\ q.task \in Tasks
    BY DEF LoadRow, LeaseInv, LeaseVarsOK, SoundRequest
  <2>2. task[q.run][q.task].attempt \in Nat
    BY <2>1 DEF LeaseInv, TypeInv, TypeOK, RowSet
  <2>3. g \in Requests /\ SoundRequest(g)
    <3>1. q.pc # "free"
      BY DEF LoadRow
    <3>. QED
      BY <2>1, <2>2, <3>1 DEF Requests, SoundRequest
  <2>4. request' = [request EXCEPT ![h] = g] /\ UNCHANGED work
    BY <1>1 DEF LoadRow, LeaseInv, LeaseVarsOK
  <2>. HIDE DEF g, q
  <2>. QED
    BY <1>0, <2>3, <2>4, RequestTyped DEF LoadRow, LeaseInv, LeaseVarsOK
<1>2. CASE ~LeasedTo(q.run, q.task, q.by)
  <2>1. Answer(h) /\ q.pc # "free"
    BY <1>2 DEF LoadRow
  <2>. QED
    BY <1>0, <2>1, AnswerTyped DEF LoadRow, LeaseInv, LeaseVarsOK
<1>. QED
  BY <1>1, <1>2

LEMMA UpdateRowTyped ==
  ASSUME LeaseInv, NEW h \in Handlers, UpdateRow(h)
  PROVE  LeaseInv'
<1>. DEFINE q == request[h]
<1>0. /\ q \in Requests /\ q.run \in Runs /\ q.task \in Tasks /\ q.status \in {"SUCCESS", "FAILED"}
      /\ q.by \in Workers
  BY DEF UpdateRow, LeaseInv, LeaseVarsOK, SoundRequest
<1>1. CASE LeasedTo(q.run, q.task, q.by)
  <2>. DEFINE g == [q EXCEPT !.pc = "publish"]
  <2>1. g \in Requests /\ SoundRequest(g)
    BY <1>0 DEF Requests, SoundRequest
  <2>2. /\ request' = [request EXCEPT ![h] = g] /\ UNCHANGED work
        /\ task' = [task EXCEPT ![q.run][q.task].status = q.status]
        /\ lease' = [lease EXCEPT ![q.run][q.task] = NoLease]
    BY <1>1 DEF UpdateRow, LeaseInv, LeaseVarsOK
  <2>3. q.status \in TaskStatus
    BY <1>0 DEF TaskStatus
  <2>. HIDE DEF g, q
  <2>4. TypeInv'
    <3>1. task' \in [Runs -> [Tasks -> RowSet]]
      BY <1>0, <2>2, <2>3, OneRow DEF LeaseInv
    <3>. QED
      BY <3>1, RowStep DEF UpdateRow, LeaseInv
  <2>5. lease' \in [Runs -> [Tasks -> Leases]]
    BY <1>0, <2>2 DEF LeaseInv, LeaseVarsOK, NoLease, Leases
  <2>. QED
    BY <2>1, <2>2, <2>4, <2>5, RequestTyped DEF UpdateRow, LeaseInv, LeaseVarsOK
<1>2. CASE ~LeasedTo(q.run, q.task, q.by)
  <2>1. Answer(h) /\ q.pc # "free" /\ UNCHANGED <<task, lease>>
    BY <1>2 DEF UpdateRow
  <2>2. TypeInv'
    <3>1. task' \in [Runs -> [Tasks -> RowSet]]
      BY <2>1 DEF LeaseInv, TypeInv, TypeOK
    <3>. QED
      BY <3>1, RowStep DEF UpdateRow, LeaseInv
  <2>. QED
    BY <2>1, <2>2, AnswerTyped DEF UpdateRow, LeaseInv, LeaseVarsOK
<1>. QED
  BY <1>1, <1>2

LEMMA PublishOutcomeTyped ==
  ASSUME LeaseInv, NEW h \in Handlers, PublishOutcome(h)
  PROVE  LeaseInv'
<1>. DEFINE q == request[h]
            m == [run |-> q.run, task |-> q.task, attempt |-> q.attempt, status |-> q.status]
<1>1. /\ q \in Requests /\ q.run \in Runs /\ q.task \in Tasks /\ q.status \in {"SUCCESS", "FAILED"}
      /\ q.pc # "free"
  BY DEF PublishOutcome, LeaseInv, LeaseVarsOK, SoundRequest
<1>2. m \in OutcomeSet
  BY <1>1 DEF OutcomeSet, Requests
<1>3. doneQ' = Append(doneQ, m) /\ Answer(h)
  BY DEF PublishOutcome
<1>. HIDE DEF m
<1>4. doneQ' \in Seq(OutcomeSet)
  BY <1>2, <1>3 DEF LeaseInv, TypeInv, TypeOK
<1>5. TypeInv'
  BY <1>4 DEF PublishOutcome, LeaseInv, TypeInv, TypeOK, SoundHandler, rows, budget
<1>. QED
  BY <1>1, <1>3, <1>5, AnswerTyped DEF PublishOutcome, LeaseInv, LeaseVarsOK

LEMMA HandlerCrashTyped ==
  ASSUME LeaseInv, NEW h \in Handlers, HandlerCrash(h)
  PROVE  LeaseInv'
<1>1. TypeInv'
  BY BoundsAssumption DEF HandlerCrash, LeaseInv, TypeInv, TypeOK, SoundHandler, rows, queues
<1>. QED
  BY <1>1, NothingInHand, RequestTyped DEF HandlerCrash, LeaseInv, LeaseVarsOK

LEMMA ClientTyped ==
  ASSUME LeaseInv, NEW c \in Clients, ClientCall(c) \/ ClientStep(c) \/ ClientCrash(c),
         UNCHANGED leaseVars
  PROVE  LeaseInv'
<1>1. TypeInv'
  BY CreateRunSound, CancelRunSound, ReplayDlqSound, SetRunStatusSound, PublishRunSound,
     CancelTasksSound, ListDlqSound, RequeueItemSound, RemoveItemSound, CrashSound
  DEF LeaseInv, ClientCall, ClientStep
<1>. QED
  BY <1>1 DEF leaseVars, LeaseInv, LeaseVarsOK

LEMMA NextLeases == LeaseInv /\ [LeaseNext]_allVars => LeaseInv'
<1>. SUFFICES ASSUME LeaseInv, [LeaseNext]_allVars PROVE LeaseInv'
  OBVIOUS
<1>1. CASE UNCHANGED allVars
  BY <1>1, SameRows DEF allVars, leaseVars, LeaseInv, LeaseVarsOK
<1>2. ASSUME NEW s \in Schedulers, SchedulerTurn(s) \/ Reap(s) \/ LoopCrash(s) PROVE LeaseInv'
  BY <1>2, LoopStepTyped, RescheduleTyped, ReapTyped, LoopCrashTyped DEF SchedulerTurn
<1>3. ASSUME NEW w \in Workers, WorkerStep(w) PROVE LeaseInv'
  BY <1>3, LeaseTaskTyped, ReportTyped DEF WorkerStep
<1>4. ASSUME NEW h \in Handlers, HandlerStep(h) \/ HandlerCrash(h) PROVE LeaseInv'
  BY <1>4, LoadRowTyped, UpdateRowTyped, PublishOutcomeTyped, HandlerCrashTyped DEF HandlerStep
<1>. QED
  BY <1>1, <1>2, <1>3, <1>4, HeartbeatTyped, WorkerLostTyped, ResendTyped, ExpireTyped, ClientTyped
  DEF LeaseNext

\* Leases, reports and requests keep their types, with those of the scheduler
\* they share the rows with, whatever is lost, resent, expired or crashes.
THEOREM LeaseTypeCorrect == LeaseSpec => []LeaseTypeOK
<1>1. LeaseSpec => []LeaseInv
  BY InitLeases, NextLeases, PTL DEF LeaseSpec
<1>2. LeaseInv => LeaseTypeOK
  BY DEF LeaseInv, TypeInv, LeaseVarsOK, LeaseTypeOK, Leases, Works, Requests
<1>. QED
  BY <1>1, <1>2, PTL

-----------------------------------------------------------------------------
(***************************************************************************)
(* RunningIsLeased.  In external mode a scheduler never writes RUNNING: it *)
(* hands a task out as QUEUED, and the outcomes it is told of are SUCCESS  *)
(* or FAILED.  So only LeaseTask writes it, together with the lease, and   *)
(* whatever clears a lease takes the row out of RUNNING in the same step.  *)
(***************************************************************************)
NoRunning(l) == l.pc \in {"taskSelect", "taskUpdate"} => l.status # "RUNNING"

NoneRunning == \A s \in Schedulers : NoRunning(sched[s])

LEMMA NoRunningMoves ==
  ASSUME TypeInv, NoneRunning, NEW s \in Schedulers, NEW l, NoRunning(l),
         sched' = [sched EXCEPT ![s] = l]
  PROVE  NoneRunning'
BY DEF NoneRunning, TypeInv, TypeOK

LEMMA UpsertNoRunning ==
  ASSUME NEW s \in Schedulers, Sound(sched[s]), NEW k, NEW st, NEW a, NEW label,
         st # "RUNNING"
  PROVE  /\ NoRunning(Upsert(s, k, st, a, label))
         /\ \A K : NoRunning([Upsert(s, k, st, a, label) EXCEPT !.todo = K])
         /\ \A x : NoRunning([Upsert(s, k, st, a, label) EXCEPT !.ret = x])
         /\ \A K, x : NoRunning([Upsert(s, k, st, a, label) EXCEPT !.todo = K, !.ret = x])
         /\ \A r, x : NoRunning([Upsert(s, k, st, a, label) EXCEPT !.run = r, !.after = x])
BY DEF NoRunning, Upsert, Sound, Local

LEMMA ArriveNoRunning ==
  ASSUME NEW l, Sound(l), NEW label, label \notin {"taskSelect", "taskUpdate"}
  PROVE  NoRunning(Arrive(l, label)) /\ NoRunning([l EXCEPT !.pc = label])
BY DEF NoRunning, Arrive, AtTop, Sound, Local

LEMMA CallsNoRunning ==
  ASSUME NEW s \in Schedulers, Sound(sched[s]), NEW st, NEW label
  PROVE  NoRunning(RunTransition(s, st, label)) /\ NoRunning(CancelAll(s, label))
BY DEF NoRunning, RunTransition, CancelAll, Sound, Local

LEMMA TopNoRunning ==
  ASSUME NEW label \in {"pollRuns", "pollDone"}
  PROVE  NoRunning(AtTop(label))
BY DEF NoRunning, AtTop

\* What a scheduler may still write is never RUNNING.
LEMMA LoopNoRunning ==
  ASSUME TypeInv, NoneRunning, NEW s \in Schedulers, SchedulerStep(s)
  PROVE  NoneRunning'
<1>. DEFINE l == sched[s]
<1>0. /\ Sound(l) /\ NoRunning(l) /\ l \in Local
      /\ \A k \in Tasks : l.snap[k].attempt \in Nat
  BY DEF TypeInv, NoneRunning, Sound, Local
<1>1. CASE PopRun(s)
  <2>1. NoRunning([l EXCEPT !.pc = "admit", !.run = Head(runQ)])
    BY <1>0 DEF NoRunning, Local
  <2>2. \/ sched' = [sched EXCEPT ![s] = AtTop("pollDone")]
        \/ sched' = [sched EXCEPT ![s] = [l EXCEPT !.pc = "admit", !.run = Head(runQ)]]
    BY <1>1 DEF PopRun, Restart, TypeInv, TypeOK
  <2>. QED
    BY <2>1, <2>2, TopNoRunning, NoRunningMoves
<1>2. CASE AdmitRun(s)
  <2>1. \/ sched' = [sched EXCEPT ![s] = CancelAll(s, "pollRuns")]
        \/ sched' = [sched EXCEPT ![s] = AtTop("pollDone")]
        \/ sched' = [sched EXCEPT ![s] = RunTransition(s, "RUNNING", "load")]
    BY <1>2 DEF AdmitRun, Restart
  <2>. QED
    BY <1>0, <2>1, CallsNoRunning, TopNoRunning, NoRunningMoves
<1>3. CASE CancelRunTasks(s)
  <2>1. l.cont \in AfterAll /\ sched' = [sched EXCEPT ![s] = Arrive(l, l.cont)]
    BY <1>0, <1>3 DEF CancelRunTasks, Sound
  <2>. QED
    BY <1>0, <2>1, ArriveNoRunning, NoRunningMoves DEF AfterAll
<1>4. CASE SelectRunStatus(s)
  <2>1. /\ l.cont \in AfterRun
        /\ \/ sched' = [sched EXCEPT ![s] = [l EXCEPT !.pc = "runUpdate"]]
           \/ sched' = [sched EXCEPT ![s] = Arrive(l, l.cont)]
    BY <1>0, <1>4 DEF SelectRunStatus, Sound
  <2>. QED
    BY <1>0, <2>1, ArriveNoRunning, NoRunningMoves DEF AfterRun
<1>5. CASE UpdateRunStatus(s)
  <2>1. l.cont \in AfterRun /\ sched' = [sched EXCEPT ![s] = Arrive(l, l.cont)]
    BY <1>0, <1>5 DEF UpdateRunStatus, Sound
  <2>. QED
    BY <1>0, <2>1, ArriveNoRunning, NoRunningMoves DEF AfterRun
<1>6. CASE SelectTaskStatus(s)
  <2>1. /\ l.cont \in AfterTask /\ l.status # "RUNNING"
        /\ \/ sched' = [sched EXCEPT ![s] = [l EXCEPT !.pc = "taskUpdate"]]
           \/ sched' = [sched EXCEPT ![s] = [l EXCEPT !.pc = l.cont]]
    BY <1>0, <1>6 DEF SelectTaskStatus, Sound, NoRunning
  <2>2. NoRunning([l EXCEPT !.pc = "taskUpdate"])
    BY <1>0, <2>1 DEF NoRunning, Local
  <2>. QED
    BY <1>0, <2>1, <2>2, ArriveNoRunning, NoRunningMoves DEF AfterTask
<1>7. CASE UpsertTask(s)
  <2>1. l.cont \in AfterTask /\ sched' = [sched EXCEPT ![s] = [l EXCEPT !.pc = l.cont]]
    BY <1>0, <1>7 DEF UpsertTask, Goto, Sound, TypeInv, TypeOK
  <2>. QED
    BY <1>0, <2>1, ArriveNoRunning, NoRunningMoves DEF AfterTask
<1>8. CASE LoadPlan(s) \/ FinishInit(s) \/ ReadStates(s) \/ SyncRead(s)
  <2>1. \A x, y, z : /\ NoRunning([l EXCEPT !.pc = "initTasks", !.todo = x, !.proven = y])
                     /\ NoRunning([l EXCEPT !.pc = "ready", !.after = x])
                     /\ NoRunning([l EXCEPT !.pc = "pick", !.snap = x, !.todo = y])
                     /\ NoRunning([l EXCEPT !.pc = "syncCancel", !.snap = x, !.todo = y])
    BY <1>0 DEF NoRunning, Local
  <2>2. CASE LoadPlan(s)
    <3>1. \E x, y : sched' = [sched EXCEPT ![s] = [l EXCEPT !.pc = "initTasks", !.todo = x,
                                                           !.proven = y]]
      BY <2>2 DEF LoadPlan, TypeInv, TypeOK
    <3>. QED BY <2>1, <3>1, NoRunningMoves
  <2>3. CASE FinishInit(s)
    <3>1. \/ sched' = [sched EXCEPT ![s] = [l EXCEPT !.pc = "ready", !.after = "pollDone"]]
          \/ sched' = [sched EXCEPT ![s] = RunTransition(s, "FAILED", "pollRuns")]
      BY <2>3 DEF FinishInit, TypeInv, TypeOK
    <3>. QED BY <1>0, <2>1, <3>1, CallsNoRunning, NoRunningMoves
  <2>4. CASE ReadStates(s)
    <3>1. \/ sched' = [sched EXCEPT ![s] = CancelAll(s, l.after)]
          \/ sched' = [sched EXCEPT ![s] = [l EXCEPT !.pc = "pick", !.snap = States(l.run),
                                                     !.todo = Selected(l.run)]]
      BY <2>4 DEF ReadStates, TypeInv, TypeOK
    <3>. QED BY <1>0, <2>1, <3>1, CallsNoRunning, NoRunningMoves
  <2>5. CASE SyncRead(s)
    <3>1. \E x, y : sched' = [sched EXCEPT ![s] = [l EXCEPT !.pc = "syncCancel", !.snap = x,
                                                           !.todo = y]]
      BY <2>5 DEF SyncRead, TypeInv, TypeOK
    <3>. QED BY <2>1, <3>1, NoRunningMoves
  <2>. QED BY <1>8, <2>2, <2>3, <2>4, <2>5
<1>9. CASE InitTask(s)
  <2>1. PICK k, st, K : /\ st # "RUNNING"
                        /\ sched' = [sched EXCEPT ![s] =
                                       [Upsert(s, k, st, 1, "initTasks") EXCEPT !.todo = K]]
    BY <1>9 DEF InitTask
  <2>2. NoRunning([Upsert(s, k, st, 1, "initTasks") EXCEPT !.todo = K])
    BY <1>0, <2>1, UpsertNoRunning
  <2>. QED BY <2>1, <2>2, NoRunningMoves
<1>10. CASE PickReady(s)
  <2>1. l.after \in AfterAll
    BY <1>0 DEF Local, AfterAll
  <2>2. \/ sched' = [sched EXCEPT ![s] = Arrive(l, l.after)]
        \/ \E k, K : sched' = [sched EXCEPT ![s] =
             [Upsert(s, k, Dispatched, l.snap[k].attempt, "push") EXCEPT !.todo = K, !.ret = "pick"]]
    BY <1>10 DEF PickReady
  <2>3. Dispatched # "RUNNING"
    BY ExternalAssumption DEF Dispatched
  <2>4. NoRunning(Arrive(l, l.after))
    BY <1>0, <2>1, ArriveNoRunning DEF AfterAll
  <2>5. \A k, K : NoRunning([Upsert(s, k, Dispatched, l.snap[k].attempt, "push")
                              EXCEPT !.todo = K, !.ret = "pick"])
    BY <1>0, <2>3, UpsertNoRunning
  <2>. QED
    BY <2>2, <2>4, <2>5, NoRunningMoves
<1>11. CASE PushTask(s)
  <2>1. l.ret \in {"pick", "pollRuns"} /\ sched' = [sched EXCEPT ![s] = Arrive(l, l.ret)]
    BY <1>0, <1>11 DEF PushTask, Local
  <2>. QED
    BY <1>0, <2>1, ArriveNoRunning, NoRunningMoves
<1>12. CASE PopDone(s)
  <2>. DEFINE m == Head(doneQ)
  <2>1. CASE doneQ = <<>>
    BY <1>12, <2>1, TopNoRunning, NoRunningMoves DEF PopDone, Restart
  <2>2. CASE doneQ # <<>>
    <3>1. m \in OutcomeSet
      BY <2>2 DEF TypeInv, TypeOK
    <3>2. m.status # "RUNNING"
      BY <3>1 DEF OutcomeSet
    <3>3. sched' = [sched EXCEPT ![s] = [Upsert(s, m.task, m.status, m.attempt, "handle")
                                           EXCEPT !.run = m.run, !.after = "sync"]]
      BY <1>12, <2>2 DEF PopDone
    <3>. HIDE DEF m
    <3>. QED
      BY <1>0, <3>2, <3>3, UpsertNoRunning, NoRunningMoves
  <2>. QED BY <2>1, <2>2
<1>13. CASE HandleSuccess(s)
  <2>1. \/ sched' = [sched EXCEPT ![s] = CancelAll(s, "pollRuns")]
        \/ sched' = [sched EXCEPT ![s] = [l EXCEPT !.pc = "ready"]]
    BY <1>13 DEF HandleSuccess, Goto, TypeInv, TypeOK
  <2>. QED
    BY <1>0, <2>1, CallsNoRunning, ArriveNoRunning, NoRunningMoves
<1>14. CASE HandleRetry(s)
  BY <1>0, <1>14, UpsertNoRunning, NoRunningMoves DEF HandleRetry
<1>15. CASE WakeUp(s)
  <2>1. Dispatched # "RUNNING"
    BY ExternalAssumption DEF Dispatched
  <2>. QED
    BY <1>0, <1>15, <2>1, UpsertNoRunning, NoRunningMoves DEF WakeUp
<1>16. CASE HandleDead(s)
  <2>1. sched' = [sched EXCEPT ![s] = [l EXCEPT !.pc = "sync"]]
    BY <1>16 DEF HandleDead, Goto, TypeInv, TypeOK
  <2>. QED
    BY <1>0, <2>1, ArriveNoRunning, NoRunningMoves
<1>17. CASE SyncCancel(s)
  <2>1. PICK k, a, K : sched' = [sched EXCEPT ![s] =
                                  [Upsert(s, k, "CANCELLED", a, "syncCancel") EXCEPT !.todo = K]]
    BY <1>17 DEF SyncCancel
  <2>2. NoRunning([Upsert(s, k, "CANCELLED", a, "syncCancel") EXCEPT !.todo = K])
    BY <1>0, UpsertNoRunning
  <2>. QED BY <2>1, <2>2, NoRunningMoves
<1>18. CASE SyncVerdict(s)
  <2>1. \/ \E st : sched' = [sched EXCEPT ![s] = RunTransition(s, st, "pollRuns")]
        \/ sched' = [sched EXCEPT ![s] = AtTop("pollRuns")]
    BY <1>18 DEF SyncVerdict
  <2>. QED BY <1>0, <2>1, CallsNoRunning, TopNoRunning, NoRunningMoves
<1>. QED
  BY <1>1, <1>2, <1>3, <1>4, <1>5, <1>6, <1>7, <1>8, <1>9, <1>10, <1>11, <1>12, <1>13,
     <1>14, <1>15, <1>16, <1>17, <1>18 DEF SchedulerStep

-----------------------------------------------------------------------------
\* Cancelling the rest of a run makes no row RUNNING.
LEMMA CancelMakesNone ==
  ASSUME LeaseInv, NEW r \in Runs, CancelRemaining(r), NEW q \in Runs, NEW k \in Tasks,
         task'[q][k].status = "RUNNING"
  PROVE  task[q][k].status = "RUNNING"
<1>1. task \in [Runs -> [Tasks -> RowSet]]
  BY DEF LeaseInv, TypeInv, TypeOK
<1>2. task[r][k] \in RowSet /\ [task[r][k] EXCEPT !.status = "CANCELLED"].status = "CANCELLED"
  BY <1>1 DEF RowSet
<1>. QED
  BY <1>1, <1>2 DEF CancelRemaining

LEMMA LoopLeased ==
  ASSUME LeaseInv, NoneRunning, RunningIsLeased, NEW s \in Schedulers, LoopStep(s)
  PROVE  RunningIsLeased'
<1>. DEFINE l == sched[s]
<1>0. SchedulerStep(s) /\ lease' = ClearedLease(s) /\ Sound(l)
  BY DEF LoopStep, LeaseInv, TypeInv
<1>1. CASE UpsertTask(s)
  <2>1. /\ l.run \in Runs /\ l.task \in Tasks /\ l.status # "RUNNING"
        /\ task' = [task EXCEPT ![l.run][l.task] = [status |-> l.status, attempt |-> l.attempt]]
        /\ lease' = [lease EXCEPT ![l.run][l.task] = NoLease]
    BY <1>0, <1>1 DEF UpsertTask, ClearedLease, Sound, NoneRunning, NoRunning
  <2>2. task \in [Runs -> [Tasks -> RowSet]] /\ lease \in [Runs -> [Tasks -> Leases]]
    BY DEF LeaseInv, TypeInv, TypeOK, LeaseVarsOK
  <2>3. ASSUME NEW r \in Runs, NEW k \in Tasks, task'[r][k].status = "RUNNING"
        PROVE  lease'[r][k].by # NoWorker /\ lease'[r][k].time # "none"
    <3>1. ~(r = l.run /\ k = l.task)
      BY <2>1, <2>2, <2>3
    <3>2. task'[r][k] = task[r][k] /\ lease'[r][k] = lease[r][k]
      BY <2>1, <2>2, <3>1
    <3>. QED
      BY <2>3, <3>2 DEF RunningIsLeased
  <2>. QED
    BY <2>3 DEF RunningIsLeased
<1>2. CASE CancelRunTasks(s)
  <2>1. l.run \in Runs /\ CancelRemaining(l.run) /\ UNCHANGED lease
    BY <1>0, <1>2 DEF CancelRunTasks, ClearedLease, Sound
  <2>. QED
    BY <2>1, CancelMakesNone DEF RunningIsLeased
<1>3. CASE UNCHANGED task /\ l.pc # "taskUpdate"
  BY <1>0, <1>3 DEF ClearedLease, RunningIsLeased
<1>. QED
  BY <1>0, <1>1, <1>2, <1>3, LoopRows

LEMMA ReapLeased ==
  ASSUME LeaseInv, RunningIsLeased, NEW s \in Schedulers, Reap(s)
  PROVE  RunningIsLeased'
<1>1. task \in [Runs -> [Tasks -> RowSet]]
  BY DEF LeaseInv, TypeInv, TypeOK
<1>2. ASSUME NEW r \in Runs, NEW k \in Tasks, task'[r][k].status = "RUNNING"
      PROVE  lease'[r][k].by # NoWorker /\ lease'[r][k].time # "none"
  <2>1. [task[r][k] EXCEPT !.status = "PENDING"].status = "PENDING"
    BY <1>1 DEF RowSet
  <2>2. <<r, k>> \notin ExpiredRows
    BY <1>2, <2>1 DEF Reap
  <2>. QED
    BY <1>2, <2>2 DEF Reap, RunningIsLeased
<1>. QED
  BY <1>2 DEF RunningIsLeased

LEMMA LeaseTaskLeased ==
  ASSUME LeaseInv, RunningIsLeased, NEW w \in Workers, NEW r \in Runs, NEW k \in Tasks,
         LeaseTask(w, r, k)
  PROVE  RunningIsLeased'
<1>1. /\ task \in [Runs -> [Tasks -> RowSet]] /\ lease \in [Runs -> [Tasks -> Leases]]
      /\ w # NoWorker
  BY LossesAssumption DEF LeaseInv, TypeInv, TypeOK, LeaseVarsOK
<1>2. /\ task' = [task EXCEPT ![r][k].status = "RUNNING"]
      /\ lease' = [lease EXCEPT ![r][k] = [by |-> w, time |-> "live"]]
  BY DEF LeaseTask
<1>3. ASSUME NEW q \in Runs, NEW j \in Tasks, task'[q][j].status = "RUNNING"
      PROVE  lease'[q][j].by # NoWorker /\ lease'[q][j].time # "none"
  <2>1. CASE q = r /\ j = k
    BY <1>1, <1>2, <2>1
  <2>2. CASE ~(q = r /\ j = k)
    <3>1. task'[q][j] = task[q][j] /\ lease'[q][j] = lease[q][j]
      BY <1>1, <1>2, <2>2
    <3>. QED
      BY <1>3, <3>1 DEF RunningIsLeased
  <2>. QED BY <2>1, <2>2
<1>. QED
  BY <1>3 DEF RunningIsLeased

\* A lease that changes its time only goes on being one.
LEMMA SameOwner ==
  ASSUME LeaseInv, RunningIsLeased, NEW r \in Runs, NEW k \in Tasks,
         NEW t \in {"live", "expired"}, lease' = [lease EXCEPT ![r][k].time = t], UNCHANGED task
  PROVE  RunningIsLeased'
<1>1. lease \in [Runs -> [Tasks -> Leases]]
  BY DEF LeaseInv, LeaseVarsOK
<1>2. ASSUME NEW q \in Runs, NEW j \in Tasks
      PROVE  lease'[q][j].by = lease[q][j].by /\ lease'[q][j].time \in {lease[q][j].time, t}
  <2>1. lease[q][j] \in Leases
    BY <1>1
  <2>. QED
    BY <1>1, <2>1 DEF Leases
<1>. QED
  BY <1>2 DEF RunningIsLeased

LEMMA UpdateRowLeased ==
  ASSUME LeaseInv, RunningIsLeased, NEW h \in Handlers, UpdateRow(h)
  PROVE  RunningIsLeased'
<1>. DEFINE q == request[h]
<1>1. /\ task \in [Runs -> [Tasks -> RowSet]] /\ lease \in [Runs -> [Tasks -> Leases]]
      /\ q.run \in Runs /\ q.task \in Tasks /\ q.status \in {"SUCCESS", "FAILED"}
  BY DEF UpdateRow, LeaseInv, TypeInv, TypeOK, LeaseVarsOK, SoundRequest
<1>2. CASE UNCHANGED <<task, lease>>
  BY <1>2 DEF RunningIsLeased
<1>3. CASE /\ task' = [task EXCEPT ![q.run][q.task].status = q.status]
           /\ lease' = [lease EXCEPT ![q.run][q.task] = NoLease]
  <2>1. ASSUME NEW r \in Runs, NEW k \in Tasks, task'[r][k].status = "RUNNING"
        PROVE  lease'[r][k].by # NoWorker /\ lease'[r][k].time # "none"
    <3>. HIDE DEF q
    <3>1. task[q.run][q.task] \in RowSet
      BY <1>1
    <3>2. [task[q.run][q.task] EXCEPT !.status = q.status].status = q.status
      BY <3>1 DEF RowSet
    <3>3. ~(r = q.run /\ k = q.task)
      BY <1>1, <1>3, <2>1, <3>2
    <3>4. task'[r][k] = task[r][k] /\ lease'[r][k] = lease[r][k]
      BY <1>1, <1>3, <3>3
    <3>. QED
      BY <2>1, <3>4 DEF RunningIsLeased
  <2>. QED
    BY <2>1 DEF RunningIsLeased
<1>. QED
  BY <1>2, <1>3 DEF UpdateRow

LEMMA ClientLeased ==
  ASSUME LeaseInv, RunningIsLeased, NEW c \in Clients,
         ClientCall(c) \/ ClientStep(c) \/ ClientCrash(c), UNCHANGED leaseVars
  PROVE  RunningIsLeased'
<1>1. CASE CancelTasks(c)
  <2>1. api[c].run \in Runs /\ CancelRemaining(api[c].run) /\ UNCHANGED lease
    BY <1>1 DEF CancelTasks, LeaseInv, TypeInv, SoundHandler, leaseVars
  <2>. QED
    BY <2>1, CancelMakesNone DEF RunningIsLeased
<1>2. CASE ~CancelTasks(c)
  <2>1. UNCHANGED <<task, lease>>
    BY <1>2 DEF ClientCall, ClientStep, ClientCrash, CreateRun, CancelRun, ReplayDlq, SetRunStatus,
                PublishRun, ListDlq, RequeueItem, RemoveItem, rows, leaseVars
  <2>. QED
    BY <2>1 DEF RunningIsLeased
<1>. QED BY <1>1, <1>2

LeasedInv == LeaseInv /\ NoneRunning /\ RunningIsLeased

LEMMA InitLeased == LeaseInit => NoneRunning /\ RunningIsLeased
BY DEF LeaseInit, Init, NoneRunning, NoRunning, AtTop, RunningIsLeased, NoRow

LEMMA NextLeased == LeasedInv /\ [LeaseNext]_allVars => LeasedInv'
<1>. SUFFICES ASSUME LeasedInv, [LeaseNext]_allVars PROVE LeasedInv'
  OBVIOUS
<1>0. LeaseInv'
  BY NextLeases DEF LeasedInv
<1>1. ASSUME UNCHANGED <<task, lease, sched>> PROVE LeasedInv'
  BY <1>0, <1>1 DEF LeasedInv, NoneRunning, RunningIsLeased
<1>2. CASE UNCHANGED allVars
  BY <1>1, <1>2 DEF allVars, vars, leaseVars
<1>3. ASSUME NEW s \in Schedulers, LoopStep(s) PROVE LeasedInv'
  BY <1>0, <1>3, LoopNoRunning, LoopLeased DEF LeasedInv, LeaseInv, LoopStep
<1>4. ASSUME NEW s \in Schedulers, Reschedule(s) PROVE LeasedInv'
  <2>1. PICK r : sched' = [sched EXCEPT ![s] = [AtTop("ready") EXCEPT !.run = r, !.after = "pollRuns"]]
    BY <1>4 DEF Reschedule
  <2>2. NoRunning([AtTop("ready") EXCEPT !.run = r, !.after = "pollRuns"])
    BY DEF NoRunning, AtTop
  <2>3. NoneRunning'
    BY <2>1, <2>2, NoRunningMoves DEF LeasedInv, LeaseInv
  <2>. QED
    BY <1>0, <1>4, <2>3 DEF Reschedule, LeasedInv, RunningIsLeased, rows
<1>5. ASSUME NEW s \in Schedulers, Reap(s) PROVE LeasedInv'
  BY <1>0, <1>5, ReapLeased DEF LeasedInv, Reap, NoneRunning
<1>6. ASSUME NEW s \in Schedulers, LoopCrash(s) PROVE LeasedInv'
  <2>1. NoneRunning'
    BY <1>6, TopNoRunning, NoRunningMoves DEF LoopCrash, SchedulerCrash, Restart, LeasedInv, LeaseInv
  <2>. QED
    BY <1>0, <1>6, <2>1 DEF LoopCrash, SchedulerCrash, LeasedInv, RunningIsLeased, rows
<1>7. ASSUME NEW w \in Workers, NEW r \in Runs, NEW k \in Tasks, LeaseTask(w, r, k) PROVE LeasedInv'
  BY <1>0, <1>7, LeaseTaskLeased DEF LeasedInv, LeaseTask, NoneRunning
<1>8. ASSUME NEW w \in Workers, NEW h \in Handlers,
             Resend(w, h) \/ \E st \in {"SUCCESS", "FAILED"} : Report(w, h, st)
      PROVE  LeasedInv'
  BY <1>1, <1>8 DEF Resend, Report, vars
<1>9. ASSUME NEW w \in Workers, Heartbeat(w) PROVE LeasedInv'
  <2>1. work[w].run \in Runs /\ work[w].task \in Tasks
    BY <1>9 DEF Heartbeat, LeasedInv, LeaseInv, LeaseVarsOK, SoundWork
  <2>. QED
    BY <1>0, <1>9, <2>1, SameOwner DEF LeasedInv, Heartbeat, NoneRunning, vars
<1>10. ASSUME NEW r \in Runs, NEW k \in Tasks, Expire(r, k) PROVE LeasedInv'
  BY <1>0, <1>10, SameOwner DEF LeasedInv, Expire, NoneRunning, vars
<1>11. ASSUME NEW h \in Handlers, UpdateRow(h) PROVE LeasedInv'
  BY <1>0, <1>11, UpdateRowLeased DEF LeasedInv, UpdateRow, NoneRunning
<1>12. ASSUME NEW h \in Handlers, LoadRow(h) \/ PublishOutcome(h) \/ HandlerCrash(h) PROVE LeasedInv'
  BY <1>1, <1>12 DEF LoadRow, PublishOutcome, HandlerCrash, vars, rows
<1>13. ASSUME NEW c \in Clients, ClientCall(c) \/ ClientStep(c) \/ ClientCrash(c), UNCHANGED leaseVars
       PROVE  LeasedInv'
  <2>1. UNCHANGED sched
    BY <1>13 DEF ClientCall, ClientStep, ClientCrash, CreateRun, CancelRun, ReplayDlq, SetRunStatus,
                 PublishRun, CancelTasks, ListDlq, RequeueItem, RemoveItem
  <2>. QED
    BY <1>0, <1>13, <2>1, ClientLeased DEF LeasedInv, NoneRunning
<1>14. ASSUME NEW w \in Workers, WorkerLost(w) PROVE LeasedInv'
  BY <1>1, <1>14 DEF WorkerLost, vars
<1>. QED
  BY <1>2, <1>3, <1>4, <1>5, <1>6, <1>7, <1>8, <1>9, <1>10, <1>11, <1>12, <1>13, <1>14
  DEF LeaseNext, SchedulerTurn, WorkerStep, HandlerStep

\* Every task that is RUNNING has a lease that can run out, so the reaper finds
\* it when its worker is gone: no scheduler, handler or cancellation ever leaves
\* a RUNNING row without its owner.
THEOREM RunningAlwaysLeased == LeaseSpec => []RunningIsLeased
<1>1. LeaseInit => LeasedInv
  BY InitLeases, InitLeased DEF LeasedInv
<1>2. LeasedInv => RunningIsLeased
  BY DEF LeasedInv
<1>. QED
  BY <1>1, <1>2, NextLeased, PTL DEF LeaseSpec

-----------------------------------------------------------------------------
(***************************************************************************)
(* From the row that is offered to the outcome that is decided, with one   *)
(* scheduler.  A row is live while workers may lease or hold it, and no    *)
(* outcome of a live row is on its way.                                    *)
(***************************************************************************)
Live(t, r, k) == t[r][k].status \in {"QUEUED", "RUNNING"}

\* The statuses a row may have where the check of a transition passed.
Unheld == {"none", "PENDING", "RETRY", "CANCELLED"}

\* Task k may be given to workers: its dependencies are at SUCCESS, and the
\* tasks a replay skips too.
Given(t, r, k) == May(t, r, k) /\ SkippedDone(t, r)

\* Handler h of the requests w has the outcome of the task to publish.
Reports(w, h, r, k) == w[h].pc = "publish" /\ IsFor(w[h], r, k)

Coming(q, w, r, k) == Has(q, r, k) \/ \E h \in Handlers : Reports(w, h, r, k)

Offered(t) == \A r \in Runs, k \in Tasks : Live(t, r, k) => Given(t, r, k)

OneOutcome(q, w) ==
  /\ Uniq(q)
  /\ \A r \in Runs, k \in Tasks :
       /\ \A g, h \in Handlers : Reports(w, g, r, k) /\ Reports(w, h, r, k) => g = h
       /\ \A h \in Handlers : Reports(w, h, r, k) => ~Has(q, r, k)

\* The row says what the outcome on its way says.
Closed(t, q, w) ==
  /\ \A h \in Handlers :
       w[h].pc = "publish" => /\ Given(t, w[h].run, w[h].task)
                              /\ t[w[h].run][w[h].task].status = w[h].status
  /\ \A i \in 1..Len(q) : t[q[i].run][q[i].task].status = q[i].status

\* What the scheduler l may rely on: the outcome it handles is the only one
\* and is what the row says, and where it is about to write nobody works.
Settled(t, q, w, l) ==
  /\ Asks(l)
  /\ AtPoint(l, {"handle"}) =>
       ~Coming(q, w, l.run, l.task) /\ t[l.run][l.task].status = l.status
  /\ AtPoint(l, {"sleep"}) => ~Coming(q, w, l.run, l.task) /\ ~Live(t, l.run, l.task)
  /\ l.pc = "taskUpdate" => \/ t[l.run][l.task].status \in Unheld
                            \/ l.cont = "sleep" /\ t[l.run][l.task].status = "FAILED"
  /\ AtPoint(l, {"syncCancel"}) => /\ \A k \in l.todo : ~Live(t, l.run, k)
                                   /\ Calling(l) => ~Live(t, l.run, l.task)

\* The runs g[s] that tasks were taken back of have begun.
Returned(t, g) ==
  \A s \in Schedulers : \A r \in g[s] : SkippedDone(t, r) /\ \E k \in Tasks : t[r][k].status # "none"

ReportInv ==
  /\ LeasedInv
  /\ StartInv
  /\ Offered(task)
  /\ OneOutcome(doneQ, request)
  /\ Closed(task, doneQ, request)
  /\ \A s \in Schedulers : Settled(task, doneQ, request, sched[s])
  /\ Returned(task, reaping)

\* An outcome on its way is that of a closed row.
LEMMA ComingCloses ==
  ASSUME LeaseInv, Closed(task, doneQ, request), NEW r, NEW k, Coming(doneQ, request, r, k)
  PROVE  task[r][k].status \in {"SUCCESS", "FAILED"} /\ ~Live(task, r, k)
<1>1. CASE Has(doneQ, r, k)
  <2>1. PICK i \in 1..Len(doneQ) : IsFor(doneQ[i], r, k)
    BY <1>1 DEF Has
  <2>2. doneQ[i] \in OutcomeSet
    BY <2>1 DEF LeaseInv, TypeInv, TypeOK
  <2>. QED
    BY <2>1, <2>2 DEF Closed, IsFor, OutcomeSet, Live
<1>2. CASE \E h \in Handlers : Reports(request, h, r, k)
  BY <1>2 DEF Reports, IsFor, Closed, Live, LeaseInv, LeaseVarsOK, SoundRequest
<1>. QED BY <1>1, <1>2 DEF Coming

\* A task given to workers is still given when no SUCCESS is lost.
LEMMA GivenGrows ==
  ASSUME NEW t, NEW u, Kept(t, u), NEW r \in Runs, NEW k, Given(t, r, k)
  PROVE  Given(u, r, k)
<1>1. Skipped(r) \subseteq Tasks
  BY KeysAreTasks
<1>. QED
  BY <1>1, MayGrows DEF Given, SkippedDone, Kept

\* Requests that publish something were there before.
OldReports == \A h \in Handlers : request'[h].pc = "publish" => request'[h] = request[h]

LEMMA SettledAside ==
  ASSUME LeaseInv, NEW s \in Schedulers, NEW l, l = sched[s],
         NEW q, NEW w, Settled(task, doneQ, request, l),
         \A r \in Runs, k \in Tasks :
           /\ \/ task'[r][k].status = task[r][k].status
              \/ Live(task, r, k)
              \/ task[r][k].status \notin {"SUCCESS", "FAILED"} /\ task'[r][k].status = "CANCELLED"
           /\ Coming(q, w, r, k) => Coming(doneQ, request, r, k) \/ Live(task, r, k)
  PROVE  Settled(task', q, w, l)
<1>0. /\ Sound(l) /\ l \in Local /\ l.todo \subseteq Tasks
      /\ AtPoint(l, {"handle", "sleep"}) \/ Calling(l) => l.run \in Runs /\ l.task \in Tasks
      /\ AtPoint(l, {"syncCancel"}) => l.run \in Runs
  BY DEF LeaseInv, TypeInv, Sound, Local, AtPoint, Calling
<1>1. ASSUME AtPoint(l, {"handle"})
      PROVE  ~Coming(q, w, l.run, l.task) /\ task'[l.run][l.task].status = l.status
  <2>1. l.run \in Runs /\ l.task \in Tasks
    BY <1>0, <1>1 DEF AtPoint
  <2>2. l.status \in {"SUCCESS", "FAILED"}
    BY <1>1 DEF Settled, Asks
  <2>. QED BY <1>1, <2>1, <2>2 DEF Settled, Live
<1>2. ASSUME AtPoint(l, {"sleep"})
      PROVE  ~Coming(q, w, l.run, l.task) /\ ~Live(task', l.run, l.task)
  <2>1. l.run \in Runs /\ l.task \in Tasks
    BY <1>0, <1>2 DEF AtPoint
  <2>. QED BY <1>2, <2>1 DEF Settled, Live
<1>3. ASSUME l.pc = "taskUpdate"
      PROVE  \/ task'[l.run][l.task].status \in Unheld
             \/ l.cont = "sleep" /\ task'[l.run][l.task].status = "FAILED"
  <2>1. l.run \in Runs /\ l.task \in Tasks
    BY <1>0, <1>3 DEF Calling
  <2>. QED BY <1>3, <2>1 DEF Settled, Live, Unheld
<1>4. ASSUME AtPoint(l, {"syncCancel"})
      PROVE  /\ \A k \in l.todo : ~Live(task', l.run, k)
             /\ Calling(l) => ~Live(task', l.run, l.task)
  BY <1>0, <1>4 DEF Settled, Live
<1>. QED
  BY <1>1, <1>2, <1>3, <1>4 DEF Settled

-----------------------------------------------------------------------------
(***************************************************************************)
(* Steps of RunScheduling that publish no outcome: the loop's, crashes of  *)
(* the scheduler and the calls of clients; and steps that change nothing   *)
(* there.                                                                  *)
(***************************************************************************)
Unreported ==
  /\ [Next]_vars
  /\ \/ UNCHANGED <<sched, doneQ>>
     \/ \E s \in Schedulers : SchedulerStep(s) \/ SchedulerCrash(s)
  /\ OldReports
  /\ \A s \in Schedulers : reaping'[s] \subseteq reaping[s]

\* What a scheduler writes and from where.
LEMMA Writes ==
  ASSUME ReportInv, NEW s \in Schedulers, UpsertTask(s)
  PROVE  LET l == sched[s]
         IN  /\ l.pc = "taskUpdate" /\ l.cont \in AfterTask /\ l.run \in Runs /\ l.task \in Tasks
             /\ l.status \in TaskStatus /\ l.status # "RUNNING"
             /\ l.cont = "initTasks" => task[l.run][l.task].status = "none"
             /\ l.cont = "initTasks" => l.status \in {"PENDING", "SUCCESS", "FAILED"}
             /\ l.cont = "push" => l.status = "QUEUED" /\ Given(task, l.run, l.task)
             /\ l.cont = "handle" => l.status = task[l.run][l.task].status
             /\ l.cont = "sleep" => l.status = "RETRY" /\ ~Coming(doneQ, request, l.run, l.task)
             /\ l.cont = "syncCancel" => l.status = "CANCELLED"
<1>. DEFINE l == sched[s]
<1>1. TypeInv /\ Sound(l) /\ Settled(task, doneQ, request, l) /\ NoRunning(l)
      /\ Order(task, l) /\ StartOf(task, l)
  BY DEF ReportInv, StartInv, OrderInv, TypeInv, LeasedInv, NoneRunning
<1>2. /\ l.pc = "taskUpdate" /\ l.cont \in AfterTask /\ l.run \in Runs /\ l.task \in Tasks
      /\ l.status \in TaskStatus /\ l.status # "RUNNING"
  BY <1>1, UpsertTaskFlow DEF Sound, NoRunning
<1>3. Calling(l) /\ AtPoint(l, {l.cont}) /\ (l.cont = "push" => AtPoint(l, HoldingPoints))
  BY <1>2 DEF Calling, AtPoint, HoldingPoints
<1>4. l.cont = "initTasks" => /\ task[l.run][l.task].status = "none"
                              /\ l.status \in {"PENDING", "SUCCESS", "FAILED"}
  BY <1>1, <1>3 DEF StartOf, Initialising, InitStatus
<1>5. l.cont = "push" => l.status = "QUEUED" /\ Given(task, l.run, l.task)
  <2>1. l.cont = "push" => Past(l)
    BY <1>3 DEF Past, AtPoint, HoldingPoints
  <2>. QED
    BY <1>1, <1>3, <2>1, ExternalAssumption DEF Settled, Asks, Dispatched, Order, StartOf, Given
<1>6. l.cont = "handle" => l.status = task[l.run][l.task].status
  BY <1>1, <1>3 DEF Settled
<1>7. /\ l.cont = "sleep" => l.status = "RETRY" /\ ~Coming(doneQ, request, l.run, l.task)
      /\ l.cont = "syncCancel" => l.status = "CANCELLED"
  BY <1>1, <1>3 DEF Settled, Asks
<1>. QED BY <1>2, <1>4, <1>5, <1>6, <1>7

\* Nothing the scheduler writes touches a row whose outcome is on its way.
LEMMA RowsUndisturbed ==
  ASSUME ReportInv, Unreported, NEW r \in Runs, NEW k \in Tasks
  PROVE  /\ task[r][k].status # "none" => task'[r][k].status # "none"
         /\ Live(task', r, k) => Given(task', r, k)
         /\ Coming(doneQ, request, r, k) => task'[r][k].status = task[r][k].status
<1>1. TypeInv /\ OrderInv /\ LeaseInv /\ [Next]_vars
  BY DEF ReportInv, StartInv, OrderInv, Unreported, LeasedInv
<1>2. Kept(task, task')
  BY <1>1, RowsKept
<1>3. Given(task, r, k) => Given(task', r, k)
  BY <1>2, GivenGrows
<1>4. Coming(doneQ, request, r, k) => task[r][k].status \in {"SUCCESS", "FAILED"}
  BY <1>1, ComingCloses DEF ReportInv
<1>5. CASE task'[r][k].status = task[r][k].status
  BY <1>3, <1>5 DEF Live, ReportInv, Offered
<1>6. CASE \E s \in Schedulers : /\ UpsertTask(s) /\ sched[s].run = r /\ sched[s].task = k
                                 /\ task'[r][k].status = sched[s].status
  <2>1. PICK s \in Schedulers : /\ UpsertTask(s) /\ sched[s].run = r /\ sched[s].task = k
                                /\ task'[r][k].status = sched[s].status
    BY <1>6
  <2>. DEFINE l == sched[s]
  <2>2. Settled(task, doneQ, request, l)
    BY DEF ReportInv
  <2>3. /\ l.pc = "taskUpdate" /\ l.cont \in AfterTask
        /\ l.status \in TaskStatus /\ l.status # "RUNNING"
        /\ l.cont = "initTasks" => l.status \in {"PENDING", "SUCCESS", "FAILED"}
        /\ l.cont = "push" => l.status = "QUEUED" /\ Given(task, r, k)
        /\ l.cont = "handle" => l.status = task[r][k].status
        /\ l.cont = "sleep" => l.status = "RETRY" /\ ~Coming(doneQ, request, r, k)
        /\ l.cont = "syncCancel" => l.status = "CANCELLED"
    BY <2>1, Writes
  <2>4. task'[r][k].status # "none"
    BY <2>1, <2>3 DEF TaskStatus
  <2>5. \/ task[r][k].status \in Unheld
        \/ l.cont = "sleep" /\ task[r][k].status = "FAILED"
    BY <2>1, <2>2, <2>3 DEF Settled
  <2>6. ASSUME Live(task', r, k) PROVE Given(task', r, k)
    <3>1. l.status = "QUEUED"
      BY <2>1, <2>3, <2>6 DEF Live
    <3>2. l.cont \in {"push", "handle"}
      BY <2>3, <3>1 DEF AfterTask
    <3>3. l.cont = "handle" => FALSE
      BY <2>3, <2>5, <3>1 DEF Unheld
    <3>. QED BY <1>3, <2>3, <3>2, <3>3
  <2>7. ~Coming(doneQ, request, r, k)
    BY <1>4, <2>3, <2>5 DEF Unheld
  <2>. QED BY <2>4, <2>6, <2>7
<1>7. CASE /\ task[r][k].status \notin {"none", "SUCCESS", "FAILED", "CANCELLED"}
           /\ task'[r][k].status = "CANCELLED"
  BY <1>4, <1>7 DEF Live
<1>. QED BY <1>1, <1>5, <1>6, <1>7, RowMoves

\* The list of outcomes loses at most its head.
LEMMA DoneMoves ==
  ASSUME TypeInv, Unreported
  PROVE  \/ doneQ' = doneQ
         \/ doneQ # <<>> /\ doneQ' = Tail(doneQ) /\ \E s \in Schedulers : PopDone(s)
<1>1. ASSUME NEW s \in Schedulers, SchedulerStep(s)
      PROVE  doneQ' = doneQ \/ (doneQ # <<>> /\ doneQ' = Tail(doneQ) /\ PopDone(s))
  <2>1. PopDone(s) => doneQ' = doneQ \/ (doneQ # <<>> /\ doneQ' = Tail(doneQ))
    BY PopDoneFlow
  <2>. QED BY <1>1, <2>1, LoopTraffic DEF PushTask, HandleDead
<1>2. ASSUME NEW s \in Schedulers, SchedulerCrash(s) PROVE doneQ' = doneQ
  BY <1>2 DEF SchedulerCrash, queues
<1>. QED BY <1>1, <1>2 DEF Unreported

LEMMA ComingNext ==
  ASSUME TypeInv, Unreported, NEW r, NEW k
  PROVE  /\ \A h \in Handlers : Reports(request', h, r, k) => Reports(request, h, r, k)
         /\ Has(doneQ', r, k) => Has(doneQ, r, k)
         /\ Coming(doneQ', request', r, k) => Coming(doneQ, request, r, k)
<1>1. \A h \in Handlers : Reports(request', h, r, k) => Reports(request, h, r, k)
  BY DEF Reports, Unreported, OldReports
<1>2. Has(doneQ', r, k) => Has(doneQ, r, k)
  <2>1. doneQ \in Seq(OutcomeSet)
    BY DEF TypeInv, TypeOK
  <2>. QED BY <2>1, DoneMoves, HasTail
<1>. QED BY <1>1, <1>2 DEF Coming

LEMMA OutcomesUndisturbed ==
  ASSUME ReportInv, Unreported
  PROVE  OneOutcome(doneQ', request') /\ Closed(task', doneQ', request')
<1>1. TypeInv /\ OrderInv /\ LeaseInv /\ doneQ \in Seq(OutcomeSet)
  BY DEF ReportInv, StartInv, OrderInv, LeasedInv, TypeInv, TypeOK
<1>2. Uniq(doneQ')
  BY <1>1, DoneMoves, UniqTail DEF ReportInv, OneOutcome
<1>3. OneOutcome(doneQ', request')
  BY <1>1, <1>2, ComingNext DEF ReportInv, OneOutcome
<1>4. ASSUME NEW h \in Handlers, request'[h].pc = "publish"
      PROVE  /\ Given(task', request'[h].run, request'[h].task)
             /\ task'[request'[h].run][request'[h].task].status = request'[h].status
  <2>. DEFINE r == request[h].run
              k == request[h].task
  <2>1. request'[h] = request[h]
    BY <1>4 DEF Unreported, OldReports
  <2>2. /\ r \in Runs /\ k \in Tasks /\ Given(task, r, k) /\ task[r][k].status = request[h].status
        /\ Coming(doneQ, request, r, k)
    BY <1>1, <1>4, <2>1 DEF LeaseInv, LeaseVarsOK, SoundRequest, ReportInv, Closed, Coming, Reports, IsFor
  <2>3. task'[r][k].status = request[h].status
    BY <2>2, RowsUndisturbed
  <2>4. Given(task', r, k)
    BY <1>1, <2>2, RowsKept, GivenGrows DEF Unreported
  <2>. QED BY <2>1, <2>3, <2>4
<1>5. ASSUME NEW i \in 1..Len(doneQ)
      PROVE  task'[doneQ[i].run][doneQ[i].task].status = doneQ[i].status
  <2>1. doneQ[i] \in OutcomeSet
    BY <1>1, <1>5
  <2>2. doneQ[i].run \in Runs /\ doneQ[i].task \in Tasks
    BY <2>1 DEF OutcomeSet
  <2>3. Coming(doneQ, request, doneQ[i].run, doneQ[i].task)
    BY <1>5 DEF Coming, Has, IsFor
  <2>4. task'[doneQ[i].run][doneQ[i].task].status = task[doneQ[i].run][doneQ[i].task].status
    BY <2>2, <2>3, RowsUndisturbed
  <2>. QED BY <1>5, <2>4 DEF ReportInv, Closed
<1>6. ASSUME NEW i \in 1..Len(doneQ')
      PROVE  task'[doneQ'[i].run][doneQ'[i].task].status = doneQ'[i].status
  <2>1. \E j \in 1..Len(doneQ) : doneQ'[i] = doneQ[j]
    <3>1. CASE doneQ' = doneQ
      BY <1>6, <3>1
    <3>2. CASE doneQ # <<>> /\ doneQ' = Tail(doneQ)
      BY <1>1, <1>6, <3>2
    <3>. QED BY <1>1, <3>1, <3>2, DoneMoves
  <2>. QED BY <1>5, <2>1
<1>. QED BY <1>3, <1>4, <1>6 DEF Closed

-----------------------------------------------------------------------------
\* The other steps of the loop come to none of the points of Settled.
LEMMA ElsewhereFlow ==
  ASSUME TypeInv, NEW s \in Schedulers, SchedulerStep(s),
         ~SelectTaskStatus(s), ~UpsertTask(s), ~PopDone(s), ~HandleRetry(s), ~SyncRead(s), ~SyncCancel(s)
  PROVE  ~AtPoint(sched'[s], {"handle", "sleep", "syncCancel"}) /\ sched'[s].pc # "taskUpdate"
<1>1. CASE PopRun(s)
  BY <1>1, PopRunFlow DEF Calling, AtPoint, Top
<1>2. CASE AdmitRun(s) \/ CancelRunTasks(s)
  BY <1>2, AdmitRunFlow, CancelRunTasksFlow
  DEF WithdrawsAll, AskedRun, Went, Moved, Calling, AtPoint, Top, AfterAll
<1>3. CASE SelectRunStatus(s) \/ UpdateRunStatus(s)
  BY <1>3, RunStatusFlow DEF Went, Moved, Calling, AtPoint, Top, AfterRun
<1>4. CASE LoadPlan(s) \/ InitTask(s) \/ FinishInit(s)
  BY <1>4, LoadPlanFlow, InitTaskFlow, FinishInitFlow DEF Asked, AskedRun, Calling, AtPoint
<1>5. CASE ReadStates(s) \/ PushTask(s)
  BY <1>5, ReadStatesFlow, PushTaskFlow
  DEF WithdrawsAll, Went, Moved, Calling, AtPoint, Top, AfterAll
<1>6. CASE PickReady(s)
  BY <1>6, PickReadyFlow DEF Asked, Went, Moved, Calling, AtPoint, Top, AfterAll
<1>7. CASE HandleSuccess(s) \/ WakeUp(s) \/ HandleDead(s)
  BY <1>7, HandleFlow DEF WithdrawsAll, Asked, Moved, Calling, AtPoint
<1>8. CASE SyncVerdict(s)
  BY <1>8, SyncFlow DEF AskedRun, Calling, AtPoint, Top
<1>. QED
  BY <1>1, <1>2, <1>3, <1>4, <1>5, <1>6, <1>7, <1>8 DEF SchedulerStep

\* Locals whose run, task and status are others' and which come from a call.
LEMMA SettledSelect ==
  ASSUME ReportInv, Unreported, NEW s \in Schedulers, SelectTaskStatus(s)
  PROVE  Settled(task', doneQ', request', sched'[s])
<1>. DEFINE l   == sched[s]
            m   == sched'[s]
            cur == task[l.run][l.task].status
<1>0. /\ TypeInv /\ SchedulerStep(s) /\ Settled(task, doneQ, request, l) /\ StartOf(task, l)
      /\ UNCHANGED task
  BY DEF ReportInv, StartInv, OrderInv, SchedulerStep, SelectTaskStatus, rows
<1>1. /\ l.pc = "taskSelect" /\ l.cont \in AfterTask
      /\ \/ Moved(l, m, "taskUpdate") /\ (cur = "none" \/ l.status \in TaskAllowed(cur))
         \/ Moved(l, m, l.cont) /\ cur # "none" /\ l.status \notin TaskAllowed(cur)
  BY <1>0, SelectTaskStatusFlow
<1>2. Asks(m)
  BY <1>0, AsksNext DEF Settled
<1>3. Coming(doneQ', request', l.run, l.task) => Coming(doneQ, request, l.run, l.task)
  BY <1>0, ComingNext
<1>4. l.run \in Runs /\ l.task \in Tasks /\ cur \in TaskStatus \cup {"none"}
  <2>1. l.run \in Runs /\ l.task \in Tasks
    BY <1>0, <1>1 DEF TypeInv, Sound
  <2>2. task[l.run][l.task] \in RowSet
    BY <1>0, <2>1 DEF TypeInv, TypeOK
  <2>. QED BY <2>1, <2>2 DEF RowSet
<1>5. \A P : AtPoint(m, P) => m.pc \in P \/ (m.pc = "taskUpdate" /\ l.cont \in P)
  BY <1>1 DEF Moved, AtPoint, Calling, AfterTask
<1>6. /\ m.run = l.run /\ m.task = l.task /\ m.status = l.status /\ m.todo = l.todo /\ m.cont = l.cont
      /\ m.pc = "taskUpdate" \/ m.pc = l.cont
  BY <1>1 DEF Moved
<1>7. \A P : AtPoint(m, P) => l.cont \in P \/ "taskUpdate" \in P
  BY <1>5, <1>6
<1>8. Calling(l)
  BY <1>1 DEF Calling
<1>9. ASSUME AtPoint(m, {"handle"})
      PROVE  ~Coming(doneQ', request', m.run, m.task) /\ task'[m.run][m.task].status = m.status
  BY <1>0, <1>3, <1>6, <1>7, <1>8, <1>9 DEF Settled, AtPoint
<1>10. ASSUME AtPoint(m, {"sleep"})
       PROVE  ~Coming(doneQ', request', m.run, m.task) /\ ~Live(task', m.run, m.task)
  BY <1>0, <1>3, <1>6, <1>7, <1>8, <1>10 DEF Settled, AtPoint, Live
<1>11. ASSUME AtPoint(m, {"syncCancel"})
       PROVE  /\ \A k \in m.todo : ~Live(task', m.run, k)
              /\ Calling(m) => ~Live(task', m.run, m.task)
  BY <1>0, <1>6, <1>7, <1>8, <1>11 DEF Settled, AtPoint, Live
<1>12. ASSUME m.pc = "taskUpdate", cur # "none"
       PROVE  cur \in Unheld \/ (l.cont = "sleep" /\ cur = "FAILED")
  <2>1. l.status \in TaskAllowed(cur)
    BY <1>1, <1>12 DEF Moved, AfterTask
  <2>2. CASE l.cont = "push"
    <3>1. l.status = "QUEUED"
      BY <1>0, <1>8, <2>2, ExternalAssumption DEF Settled, Asks, Dispatched
    <3>. QED BY <1>4, <2>1, <3>1 DEF TaskAllowed, Unheld, TaskStatus
  <2>3. CASE l.cont = "sleep"
    <3>1. l.status = "RETRY"
      BY <1>0, <1>8, <2>3 DEF Settled, Asks
    <3>. QED BY <1>4, <2>1, <2>3, <3>1 DEF TaskAllowed, TaskStatus, Unheld
  <2>4. CASE l.cont = "handle"
    <3>1. AtPoint(l, {"handle"})
      BY <1>8, <2>4 DEF AtPoint
    <3>2. cur = l.status /\ l.status \in {"SUCCESS", "FAILED"}
      BY <1>0, <3>1 DEF Settled, Asks
    <3>. QED BY <2>1, <3>2 DEF TaskAllowed
  <2>5. CASE l.cont = "syncCancel"
    <3>1. l.status = "CANCELLED" /\ AtPoint(l, {"syncCancel"})
      BY <1>0, <1>8, <2>5 DEF Settled, Asks, AtPoint
    <3>2. cur \notin {"QUEUED", "RUNNING"}
      BY <1>0, <1>8, <3>1 DEF Settled, Live
    <3>. QED BY <1>4, <2>1, <3>1, <3>2 DEF TaskAllowed, Unheld, TaskStatus
  <2>6. CASE l.cont = "initTasks"
    <3>1. AtPoint(l, {"initTasks"})
      BY <1>8, <2>6 DEF AtPoint
    <3>2. cur = "none"
      BY <1>0, <1>8, <3>1 DEF StartOf, Initialising
    <3>. QED BY <1>12, <3>2
  <2>. QED BY <1>1, <2>2, <2>3, <2>4, <2>5, <2>6 DEF AfterTask
<1>13. m.pc = "taskUpdate" =>
         \/ task'[m.run][m.task].status \in Unheld
         \/ m.cont = "sleep" /\ task'[m.run][m.task].status = "FAILED"
  BY <1>0, <1>6, <1>12 DEF Unheld
<1>. QED BY <1>2, <1>9, <1>10, <1>11, <1>13 DEF Settled

LEMMA SettledUpsert ==
  ASSUME ReportInv, Unreported, NEW s \in Schedulers, UpsertTask(s)
  PROVE  Settled(task', doneQ', request', sched'[s])
<1>. DEFINE l == sched[s]
            m == sched'[s]
<1>0. TypeInv /\ SchedulerStep(s) /\ Settled(task, doneQ, request, l)
  BY DEF ReportInv, StartInv, OrderInv, SchedulerStep
<1>1. /\ l.pc = "taskUpdate" /\ l.cont \in AfterTask /\ l.run \in Runs /\ l.task \in Tasks
      /\ l.cont = "handle" => l.status = task[l.run][l.task].status
      /\ l.cont = "sleep" => l.status = "RETRY" /\ ~Coming(doneQ, request, l.run, l.task)
      /\ l.cont = "syncCancel" => l.status = "CANCELLED"
  BY Writes
<1>2. /\ Moved(l, m, l.cont)
      /\ \A r \in Runs, k \in Tasks :
           task'[r][k].status = IF r = l.run /\ k = l.task THEN l.status ELSE task[r][k].status
  BY <1>0, UpsertTaskFlow
<1>3. Asks(m)
  BY <1>0, AsksNext DEF Settled
<1>4. Coming(doneQ', request', l.run, l.task) => Coming(doneQ, request, l.run, l.task)
  BY <1>0, ComingNext
<1>5. /\ m.run = l.run /\ m.task = l.task /\ m.status = l.status /\ m.todo = l.todo
      /\ m.pc = l.cont /\ ~Calling(m) /\ m.pc # "taskUpdate"
      /\ task'[l.run][l.task].status = l.status
  BY <1>1, <1>2 DEF Moved, AfterTask, Calling
<1>6. Calling(l) /\ AtPoint(l, {l.cont})
  BY <1>1 DEF Calling, AtPoint
<1>7. ASSUME AtPoint(m, {"handle"})
      PROVE  ~Coming(doneQ', request', m.run, m.task) /\ task'[m.run][m.task].status = m.status
  <2>1. l.cont = "handle"
    BY <1>5, <1>7 DEF AtPoint
  <2>2. AtPoint(l, {"handle"})
    BY <1>6, <2>1
  <2>. QED BY <1>0, <1>4, <1>5, <2>2 DEF Settled
<1>8. ASSUME AtPoint(m, {"sleep"})
      PROVE  ~Coming(doneQ', request', m.run, m.task) /\ ~Live(task', m.run, m.task)
  <2>1. l.cont = "sleep"
    BY <1>5, <1>8 DEF AtPoint
  <2>. QED BY <1>1, <1>4, <1>5, <2>1 DEF Live
<1>9. ASSUME AtPoint(m, {"syncCancel"})
      PROVE  \A k \in m.todo : ~Live(task', m.run, k)
  <2>1. l.cont = "syncCancel"
    BY <1>5, <1>9 DEF AtPoint
  <2>2. AtPoint(l, {"syncCancel"}) /\ l.status = "CANCELLED" /\ l.todo \subseteq Tasks
    BY <1>0, <1>1, <1>6, <2>1 DEF TypeInv, Sound, Local
  <2>3. \A k \in l.todo : ~Live(task, l.run, k)
    BY <1>0, <2>2 DEF Settled
  <2>. QED BY <1>1, <1>2, <1>5, <2>2, <2>3 DEF Live
<1>. QED BY <1>3, <1>5, <1>7, <1>8, <1>9 DEF Settled

\* The outcome that is popped was the only one and is what the row says.
LEMMA SettledPop ==
  ASSUME ReportInv, Unreported, NEW s \in Schedulers, PopDone(s)
  PROVE  Settled(task', doneQ', request', sched'[s])
<1>. DEFINE h == Head(doneQ)
            m == sched'[s]
<1>0. /\ TypeInv /\ SchedulerStep(s) /\ Settled(task, doneQ, request, sched[s]) /\ UNCHANGED task
      /\ doneQ \in Seq(OutcomeSet)
  BY DEF ReportInv, StartInv, OrderInv, SchedulerStep, PopDone, rows, TypeInv, TypeOK
<1>1. Asks(m)
  BY <1>0, AsksNext DEF Settled
<1>2. \/ m.pc \in Top /\ doneQ' = doneQ
      \/ /\ doneQ # <<>> /\ doneQ' = Tail(doneQ)
         /\ m.pc = "taskSelect" /\ m.run = h.run /\ m.task = h.task
         /\ m.status = h.status /\ m.cont = "handle"
         /\ h \in OutcomeSet
  BY <1>0, PopDoneFlow
<1>3. CASE m.pc \in Top
  BY <1>1, <1>3 DEF Settled, AtPoint, Calling, Top
<1>4. CASE /\ doneQ # <<>> /\ doneQ' = Tail(doneQ)
           /\ m.pc = "taskSelect" /\ m.run = h.run /\ m.task = h.task
           /\ m.status = h.status /\ m.cont = "handle"
           /\ h \in OutcomeSet
  <2>1. 1 \in 1..Len(doneQ) /\ doneQ[1] = h
    BY <1>0, <1>4
  <2>2. h.run \in Runs /\ h.task \in Tasks
    BY <1>4 DEF OutcomeSet
  <2>3. Has(doneQ, h.run, h.task)
    BY <2>1 DEF Has, IsFor
  <2>4. task[h.run][h.task].status = h.status
    BY <2>1 DEF ReportInv, Closed
  <2>5. ~Has(doneQ', h.run, h.task)
    BY <1>0, <1>4, UniqTail DEF ReportInv, OneOutcome
  <2>6. \A g \in Handlers : ~Reports(request, g, h.run, h.task)
    BY <2>2, <2>3 DEF ReportInv, OneOutcome
  <2>7. \A g \in Handlers : ~Reports(request', g, h.run, h.task)
    BY <1>0, <2>6, ComingNext
  <2>8. ~Coming(doneQ', request', h.run, h.task)
    BY <2>5, <2>7 DEF Coming
  <2>. QED BY <1>0, <1>1, <1>4, <2>4, <2>8 DEF Settled, AtPoint, Calling
<1>. QED BY <1>2, <1>3, <1>4

LEMMA SettledStep ==
  ASSUME ReportInv, Unreported, NEW s \in Schedulers, SchedulerStep(s)
  PROVE  Settled(task', doneQ', request', sched'[s])
<1>. DEFINE l == sched[s]
            m == sched'[s]
<1>0. TypeInv /\ Settled(task, doneQ, request, l) /\ Sound(l) /\ l \in Local
  BY DEF ReportInv, StartInv, OrderInv, TypeInv, Sound
<1>1. Asks(m)
  BY <1>0, AsksNext DEF Settled
<1>2. Coming(doneQ', request', l.run, l.task) => Coming(doneQ, request, l.run, l.task)
  BY <1>0, ComingNext
<1>3. CASE HandleRetry(s)
  <2>1. l.pc = "handle" /\ l.status = "FAILED" /\ Asked(l, m, l.task, "RETRY", l.attempt + 1, "sleep")
    BY <1>0, <1>3, HandleFlow
  <2>2. UNCHANGED task
    BY <1>3 DEF HandleRetry, rows
  <2>3. ~Coming(doneQ, request, l.run, l.task) /\ task[l.run][l.task].status = "FAILED"
    BY <1>0, <2>1 DEF Settled, AtPoint
  <2>. QED BY <1>1, <1>2, <2>1, <2>2, <2>3 DEF Settled, Asked, AtPoint, Calling, Live
<1>4. CASE SyncRead(s)
  <2>1. /\ l.pc = "sync" /\ m.pc = "syncCancel" /\ m.run = l.run
        /\ m.todo = Unreachable(l.run, States(l.run))
    BY <1>0, <1>4, SyncFlow
  <2>2. UNCHANGED task /\ l.run \in Runs
    BY <1>0, <1>4, <2>1 DEF SyncRead, rows, Sound
  <2>3. ASSUME NEW k \in m.todo PROVE ~Live(task', m.run, k)
    <3>1. k \in Tasks /\ States(l.run)[k].status = "PENDING"
      BY <2>1, <2>2, <2>3, KeysAreTasks DEF Unreachable
    <3>2. task[l.run][k].status \in {"none", "PENDING"}
      BY <1>0, <2>2, <3>1, StatesTell
    <3>. QED BY <2>1, <2>2, <3>2 DEF Live
  <2>. QED BY <1>1, <2>1, <2>3 DEF Settled, AtPoint, Calling
<1>5. CASE SyncCancel(s)
  <2>1. /\ l.pc = "syncCancel"
        /\ \E k \in l.todo : /\ Asked(l, m, k, "CANCELLED", l.snap[k].attempt, "syncCancel")
                             /\ m.todo = l.todo \ {k}
    BY <1>0, <1>5, SyncFlow
  <2>2. UNCHANGED task
    BY <1>5 DEF SyncCancel, rows
  <2>3. \A k \in l.todo : ~Live(task, l.run, k)
    BY <1>0, <2>1 DEF Settled, AtPoint
  <2>. QED BY <1>1, <2>1, <2>2, <2>3 DEF Settled, Asked, AtPoint, Calling, Live
<1>6. CASE ~SelectTaskStatus(s) /\ ~UpsertTask(s) /\ ~PopDone(s) /\ ~HandleRetry(s)
           /\ ~SyncRead(s) /\ ~SyncCancel(s)
  <2>1. ~AtPoint(m, {"handle", "sleep", "syncCancel"}) /\ m.pc # "taskUpdate"
    BY <1>0, <1>6, ElsewhereFlow
  <2>. QED BY <1>1, <2>1 DEF Settled, AtPoint, Calling
<1>. QED
  BY <1>3, <1>4, <1>5, <1>6, SettledSelect, SettledUpsert, SettledPop

\* Steps that publish nothing preserve ReportInv.
LEMMA ReportUndisturbed ==
  ASSUME OneScheduler, ReportInv, Unreported, LeasedInv'
  PROVE  ReportInv'
<1>0. /\ TypeInv /\ OrderInv /\ LeaseInv /\ StartInv /\ [Next]_vars
      /\ \A s \in Schedulers : Settled(task, doneQ, request, sched[s])
  BY DEF ReportInv, StartInv, OrderInv, LeasedInv, Unreported
<1>1. StartInv'
  BY <1>0, StartNext
<1>2. Offered(task')
  BY RowsUndisturbed DEF Offered
<1>3. OneOutcome(doneQ', request') /\ Closed(task', doneQ', request')
  BY OutcomesUndisturbed
<1>4. ASSUME NEW s \in Schedulers
      PROVE  Settled(task', doneQ', request', sched'[s])
  <2>1. CASE UNCHANGED <<sched, doneQ>>
    <3>1. ASSUME NEW r \in Runs, NEW k \in Tasks
          PROVE  /\ \/ task'[r][k].status = task[r][k].status
                    \/ Live(task, r, k)
                    \/ task[r][k].status \notin {"SUCCESS", "FAILED"} /\ task'[r][k].status = "CANCELLED"
                 /\ Coming(doneQ', request', r, k) => Coming(doneQ, request, r, k) \/ Live(task, r, k)
      <4>1. Coming(doneQ', request', r, k) => Coming(doneQ, request, r, k)
        BY <1>0, ComingNext
      <4>2. \A u \in Schedulers : ~UpsertTask(u)
        <5>1. ASSUME NEW u \in Schedulers, UpsertTask(u) PROVE FALSE
          <6>1. sched[u].pc = "taskUpdate" /\ sched[u].cont \in AfterTask /\ Moved(sched[u], sched'[u], sched[u].cont)
            BY <1>0, <5>1, UpsertTaskFlow
          <6>. QED BY <2>1, <6>1 DEF Moved, AfterTask
        <5>. QED BY <5>1
      <4>. QED BY <1>0, <4>1, <4>2, RowMoves
    <3>. QED BY <1>0, <2>1, <3>1, SettledAside
  <2>2. CASE \E u \in Schedulers : SchedulerStep(u)
    BY <2>2, SettledStep DEF OneScheduler
  <2>3. CASE \E u \in Schedulers : SchedulerCrash(u)
    <3>1. SchedulerCrash(s)
      BY <2>3 DEF OneScheduler
    <3>2. sched'[s] = AtTop("pollRuns")
      BY <1>0, <3>1 DEF SchedulerCrash, Restart, TypeInv, TypeOK
    <3>. QED BY <3>2 DEF Settled, Asks, AtTop, AtPoint, Calling
  <2>. QED BY <2>1, <2>2, <2>3 DEF Unreported
<1>5. Returned(task', reaping')
  <2>1. ASSUME NEW s \in Schedulers, NEW r \in reaping'[s]
        PROVE  SkippedDone(task', r) /\ \E k \in Tasks : task'[r][k].status # "none"
    <3>1. r \in reaping[s] /\ r \in Runs
      BY <1>0, <2>1 DEF Unreported, LeaseInv, LeaseVarsOK
    <3>2. SkippedDone(task, r) /\ \E k \in Tasks : task[r][k].status # "none"
      BY <3>1 DEF ReportInv, Returned
    <3>. QED BY <1>0, <3>1, <3>2, SkippedStays, RowsUndisturbed
  <2>. QED BY <2>1 DEF Returned
<1>. QED
  BY <1>1, <1>2, <1>3, <1>4, <1>5 DEF ReportInv

-----------------------------------------------------------------------------
(***************************************************************************)
(* Steps of the workers, of their requests and of the reaper that write    *)
(* rows: the scheduler and the lists stay.                                 *)
(***************************************************************************)
Rewritten(t, u, r, k) == Live(t, r, k) /\ u[r][k].status # "none"

\* Only rows in the hands of workers change.
LiveRowsOnly ==
  \A r \in Runs, k \in Tasks :
    task'[r][k].status = task[r][k].status \/ Rewritten(task, task', r, k)

LEMMA RowsOrder ==
  ASSUME ReportInv, TypeInv', LiveRowsOnly,
         UNCHANGED <<runStatus, runQ, taskQ, doneQ, dlq, executing, sched, api>>
  PROVE  OrderInv' /\ Kept(task, task')
<1>0. OrderInv /\ MessagesDue /\ ReplayIsProven /\ LeaseInv
  BY DEF ReportInv, StartInv, OrderInv, LeasedInv
<1>1. Kept(task, task')
  BY DEF LiveRowsOnly, Rewritten, Live, Kept
<1>2. MessagesDue'
  BY <1>0, <1>1, MessagesGrow
<1>3. ReplayIsProven'
  <2>1. ASSUME NEW r \in Runs, ReplayOf[r] # NoRun, NEW k \in Skipped(r), task'[r][k].status = "SUCCESS"
        PROVE  task'[ReplayOf[r]][k].status = "SUCCESS"
    <3>1. k \in Tasks /\ k \notin Selected(r) /\ ReplayOf[r] \in Runs
      BY <2>1, KeysAreTasks, PlanAssumption DEF Skipped, Selected, SkippedKeys
    <3>2. ~Live(task, r, k)
      BY <3>1 DEF ReportInv, Offered, Given, May
    <3>3. task[r][k].status = "SUCCESS"
      BY <2>1, <3>1, <3>2 DEF LiveRowsOnly, Rewritten
    <3>4. task[ReplayOf[r]][k].status = "SUCCESS"
      BY <1>0, <2>1, <3>3 DEF ReplayIsProven
    <3>. QED BY <1>1, <3>1, <3>4 DEF Kept
  <2>. QED BY <2>1 DEF ReplayIsProven
<1>4. ASSUME NEW s \in Schedulers, sched[s].pc = "taskUpdate"
      PROVE  ~Undoes(task', sched[s].run, sched[s].task, sched[s].status)
  <2>. DEFINE l == sched[s]
  <2>1. l.run \in Runs /\ l.task \in Tasks
    BY <1>0, <1>4 DEF OrderInv, TypeInv, Sound
  <2>2. Settled(task, doneQ, request, l)
    BY DEF ReportInv
  <2>3. ~Live(task, l.run, l.task) /\ task[l.run][l.task].status # "SUCCESS"
    BY <1>4, <2>2 DEF Settled, Live, Unheld
  <2>. QED BY <2>1, <2>3 DEF LiveRowsOnly, Rewritten, Undoes
<1>. QED BY <1>0, <1>1, <1>2, <1>3, <1>4, BesideOrder

\* The rows of a run that is being initialised are nobody's.
LEMMA RowsStart ==
  ASSUME ReportInv, TypeInv', LiveRowsOnly,
         UNCHANGED <<runStatus, runQ, taskQ, doneQ, dlq, executing, sched, api>>
  PROVE  StartInv'
<1>0. OrderInv' /\ Kept(task, task') /\ StartInv
  BY RowsOrder DEF ReportInv
<1>1. OneEvent'
  BY <1>0 DEF StartInv, OneEvent, Announced, Waiting, On
<1>2. (\A r \in Runs : runStatus[r] = "none" => ~Waiting(r) /\ \A s \in Schedulers : ~On(sched[s], r))'
  BY <1>0 DEF StartInv, Waiting, Announced, On
<1>3. \A r, k : Loose(r, k)' <=> Loose(r, k)
  BY DEF Loose, Msg
<1>4. \A r \in Runs : SkippedDone(task, r) => SkippedDone(task', r)
  BY <1>0, KeysAreTasks DEF SkippedDone, Kept
<1>5. (\A r \in Runs : Unstarted(r) => Pristine(r))'
  <2>1. ASSUME NEW r \in Runs, Unstarted(r)' PROVE Pristine(r)'
    <3>1. Unstarted(r)
      BY <2>1 DEF Unstarted, Waiting, Announced, On
    <3>2. Pristine(r)
      BY <1>0, <3>1 DEF StartInv
    <3>. QED BY <1>3, <3>2 DEF Pristine, LiveRowsOnly, Rewritten, Live
  <2>. QED BY <2>1
<1>6. ASSUME NEW s \in Schedulers PROVE StartOf(task', sched'[s])
  <2>. DEFINE l == sched[s]
  <2>1. StartOf(task, l) /\ Sound(l) /\ (AtPoint(l, {"initTasks"}) => l.run \in Runs)
        /\ (Past(l) => l.run \in Runs)
    BY <1>0 DEF StartInv, OrderInv, TypeInv, Sound, AtPoint, Calling, Past, HoldingPoints
  <2>2. ASSUME AtPoint(l, {"initTasks"}) PROVE Initialising(task', l)
    <3>1. Initialising(task, l) /\ l.run \in Runs
      BY <2>1, <2>2 DEF StartOf
    <3>2. \A k \in Keys(Plan[l.run]) : k \in Tasks
      BY <3>1, KeysAreTasks
    <3>3. \A k \in Keys(Plan[l.run]) : task[l.run][k].status = "none" => task'[l.run][k].status = "none"
      BY <3>1, <3>2 DEF LiveRowsOnly, Rewritten, Live
    <3>4. \A k \in Skipped(l.run) : task'[l.run][k].status = task[l.run][k].status
      <4>1. ASSUME NEW k \in Skipped(l.run) PROVE task'[l.run][k].status = task[l.run][k].status
        <5>1. k \in Tasks /\ k \notin Selected(l.run)
          BY <3>1, <4>1, KeysAreTasks DEF Skipped, Selected, SkippedKeys
        <5>2. ~Live(task, l.run, k)
          BY <3>1, <5>1 DEF ReportInv, Offered, Given, May
        <5>. QED BY <3>1, <5>1, <5>2 DEF LiveRowsOnly, Rewritten
      <4>. QED BY <4>1
    <3>. QED BY <3>1, <3>2, <3>3, <3>4 DEF Initialising
  <2>3. Past(l) => SkippedDone(task', l.run)
    BY <1>4, <2>1 DEF StartOf
  <2>. QED BY <2>2, <2>3 DEF StartOf
<1>7. \A r \in Runs, k \in Tasks : Loose(r, k)' => SkippedDone(task', r)
  BY <1>0, <1>3, <1>4 DEF StartInv
<1>. QED
  BY <1>0, <1>1, <1>2, <1>5, <1>6, <1>7 DEF StartInv

\* Request h has just closed the row it reports on.
Closes(h) ==
  /\ Live(task, request'[h].run, request'[h].task)
  /\ task'[request'[h].run][request'[h].task].status = request'[h].status
  /\ \A g \in Handlers : g # h /\ request'[g].pc = "publish" => request'[g] = request[g]

\* A step that only writes rows in the hands of workers, gives none out and
\* at most closes one for its report, preserves ReportInv.
LEMMA RowsReport ==
  ASSUME ReportInv, LeasedInv', LiveRowsOnly,
         UNCHANGED <<runStatus, runQ, taskQ, doneQ, dlq, executing, sched, api>>,
         \A r \in Runs, k \in Tasks : Live(task', r, k) => Live(task, r, k),
         \A h \in Handlers : request'[h].pc = "publish" => request'[h] = request[h] \/ Closes(h),
         Returned(task', reaping')
  PROVE  ReportInv'
<1>0. /\ TypeInv' /\ LeaseInv' /\ LeaseInv /\ Offered(task) /\ OneOutcome(doneQ, request)
      /\ Closed(task, doneQ, request) /\ doneQ \in Seq(OutcomeSet)
      /\ \A s \in Schedulers : Settled(task, doneQ, request, sched[s])
  BY DEF LeasedInv, LeaseInv, ReportInv, TypeInv, TypeOK
<1>1. StartInv' /\ Kept(task, task')
  BY <1>0, RowsStart, RowsOrder
<1>2. \A r \in Runs, k \in Tasks : Given(task, r, k) => Given(task', r, k)
  BY <1>1, GivenGrows
<1>3. Offered(task')
  BY <1>0, <1>2 DEF Offered
<1>4. \A r \in Runs, k \in Tasks : Coming(doneQ, request, r, k) =>
        ~Live(task, r, k) /\ task'[r][k].status = task[r][k].status
  BY <1>0, ComingCloses DEF LiveRowsOnly, Rewritten
<1>5. ASSUME NEW r \in Runs, NEW k \in Tasks, NEW h \in Handlers, Reports(request', h, r, k)
      PROVE  \/ Reports(request, h, r, k) /\ request'[h] = request[h]
             \/ /\ Live(task, r, k) /\ task'[r][k].status = request'[h].status
                /\ \A g \in Handlers : g # h /\ Reports(request', g, r, k) => Reports(request, g, r, k)
  BY <1>5 DEF Reports, IsFor, Closes
<1>6. OneOutcome(doneQ', request')
  <2>1. ASSUME NEW r \in Runs, NEW k \in Tasks, NEW g \in Handlers, NEW h \in Handlers,
               Reports(request', g, r, k), Reports(request', h, r, k)
        PROVE  g = h
    <3>1. Reports(request, g, r, k) => ~Live(task, r, k)
      BY <1>4 DEF Coming
    <3>2. Reports(request, h, r, k) => ~Live(task, r, k)
      BY <1>4 DEF Coming
    <3>. QED BY <1>0, <1>5, <2>1, <3>1, <3>2 DEF OneOutcome
  <2>2. ASSUME NEW r \in Runs, NEW k \in Tasks, NEW h \in Handlers, Reports(request', h, r, k)
        PROVE  ~Has(doneQ', r, k)
    <3>1. Has(doneQ, r, k) => ~Live(task, r, k)
      BY <1>4 DEF Coming
    <3>. QED BY <1>0, <1>5, <2>2, <3>1 DEF OneOutcome
  <2>. QED BY <1>0, <2>1, <2>2 DEF OneOutcome
<1>7. Closed(task', doneQ', request')
  <2>1. ASSUME NEW h \in Handlers, request'[h].pc = "publish"
        PROVE  /\ Given(task', request'[h].run, request'[h].task)
               /\ task'[request'[h].run][request'[h].task].status = request'[h].status
    <3>. DEFINE r == request'[h].run
                k == request'[h].task
    <3>1. r \in Runs /\ k \in Tasks
      BY <1>0, <2>1 DEF LeaseInv, LeaseVarsOK, SoundRequest
    <3>2. CASE request'[h] = request[h]
      <4>1. Reports(request, h, r, k)
        BY <2>1, <3>2 DEF Reports, IsFor
      <4>2. task'[r][k].status = task[r][k].status
        BY <1>4, <3>1, <4>1 DEF Coming
      <4>3. Given(task, r, k) /\ task[r][k].status = request[h].status
        BY <1>0, <2>1, <3>2 DEF Closed
      <4>. QED BY <1>2, <3>1, <3>2, <4>2, <4>3
    <3>3. CASE Closes(h)
      BY <1>0, <1>2, <3>1, <3>3 DEF Closes, Offered
    <3>. QED BY <2>1, <3>2, <3>3
  <2>2. ASSUME NEW i \in 1..Len(doneQ)
        PROVE  task'[doneQ[i].run][doneQ[i].task].status = doneQ[i].status
    <3>1. doneQ[i] \in OutcomeSet
      BY <1>0, <2>2
    <3>2. doneQ[i].run \in Runs /\ doneQ[i].task \in Tasks
      BY <3>1 DEF OutcomeSet
    <3>3. Coming(doneQ, request, doneQ[i].run, doneQ[i].task)
      BY <2>2 DEF Coming, Has, IsFor
    <3>4. task'[doneQ[i].run][doneQ[i].task].status = task[doneQ[i].run][doneQ[i].task].status
      BY <1>4, <3>2, <3>3
    <3>. QED BY <1>0, <2>2, <3>4 DEF Closed
  <2>. QED BY <2>1, <2>2 DEF Closed
<1>8. \A r \in Runs, k \in Tasks :
        /\ \/ task'[r][k].status = task[r][k].status
           \/ Live(task, r, k)
           \/ task[r][k].status \notin {"SUCCESS", "FAILED"} /\ task'[r][k].status = "CANCELLED"
        /\ Coming(doneQ', request', r, k) => Coming(doneQ, request, r, k) \/ Live(task, r, k)
  <2>1. ASSUME NEW r \in Runs, NEW k \in Tasks
        PROVE  Coming(doneQ', request', r, k) => Coming(doneQ, request, r, k) \/ Live(task, r, k)
    BY <1>5, <2>1 DEF Coming
  <2>. QED BY <2>1 DEF LiveRowsOnly, Rewritten
<1>9. ASSUME NEW s \in Schedulers
      PROVE  Settled(task', doneQ', request', sched'[s])
  BY <1>0, <1>8, SettledAside
<1>. QED
  BY <1>1, <1>3, <1>6, <1>7, <1>9 DEF ReportInv

\* The tasks that are taken back were given out.
LEMMA ReapReport ==
  ASSUME ReportInv, LeasedInv', NEW s \in Schedulers, Reap(s)
  PROVE  ReportInv'
<1>0. /\ LeaseInv /\ TypeOK /\ Returned(task, reaping)
      /\ UNCHANGED <<runStatus, runQ, taskQ, doneQ, dlq, executing, sched, api, request>>
  BY DEF ReportInv, LeasedInv, LeaseInv, TypeInv, Reap, queues
<1>1. ASSUME NEW r \in Runs, NEW k \in Tasks
      PROVE  \/ task'[r][k].status = task[r][k].status
             \/ task[r][k].status = "RUNNING" /\ task'[r][k].status = "PENDING"
  <2>1. task[r][k] \in RowSet
    BY <1>0 DEF TypeOK
  <2>2. task'[r][k] = IF <<r, k>> \in ExpiredRows THEN [task[r][k] EXCEPT !.status = "PENDING"] ELSE task[r][k]
    BY DEF Reap
  <2>. QED BY <2>1, <2>2 DEF ExpiredRows, RowSet
<1>2. LiveRowsOnly /\ \A r \in Runs, k \in Tasks : Live(task', r, k) => Live(task, r, k)
  BY <1>1 DEF LiveRowsOnly, Rewritten, Live
<1>3. Kept(task, task')
  BY <1>1 DEF Kept
<1>4. ASSUME NEW u \in Schedulers, NEW r \in reaping'[u]
      PROVE  SkippedDone(task', r) /\ \E k \in Tasks : task'[r][k].status # "none"
  <2>1. r \in reaping[u] \/ r \in {rk[1] : rk \in ExpiredRows}
    BY <1>0, <1>4 DEF Reap, LeaseInv, LeaseVarsOK
  <2>2. r \in Runs
    BY <1>0, <2>1 DEF LeaseInv, LeaseVarsOK, ExpiredRows
  <2>3. SkippedDone(task, r) /\ \E k \in Tasks : task[r][k].status # "none"
    <3>1. CASE r \in reaping[u]
      BY <1>0, <3>1 DEF Returned
    <3>2. CASE r \in {rk[1] : rk \in ExpiredRows}
      <4>1. PICK rk \in ExpiredRows : r = rk[1]
        BY <3>2
      <4>2. rk[2] \in Tasks /\ task[r][rk[2]].status = "RUNNING"
        BY <4>1 DEF ExpiredRows
      <4>. QED BY <2>2, <4>2 DEF ReportInv, Offered, Given, Live
    <3>. QED BY <2>1, <3>1, <3>2
  <2>4. Skipped(r) \subseteq Tasks
    BY <2>2, KeysAreTasks
  <2>. QED BY <1>1, <1>3, <2>2, <2>3, <2>4 DEF SkippedDone, Kept
<1>5. Returned(task', reaping')
  BY <1>4 DEF Returned
<1>. QED BY <1>0, <1>2, <1>5, RowsReport

\* A row that leaves no run without rows keeps the runs to be rescheduled.
LEMMA ReturnedStays ==
  ASSUME ReportInv, LiveRowsOnly, UNCHANGED reaping
  PROVE  Returned(task', reaping')
<1>1. Returned(task, reaping) /\ reaping \in [Schedulers -> SUBSET Runs]
  BY DEF ReportInv, LeasedInv, LeaseInv, LeaseVarsOK
<1>2. Kept(task, task')
  BY DEF LiveRowsOnly, Rewritten, Live, Kept
<1>3. ASSUME NEW s \in Schedulers, NEW r \in reaping[s]
      PROVE  SkippedDone(task', r) /\ \E k \in Tasks : task'[r][k].status # "none"
  <2>1. r \in Runs /\ Skipped(r) \subseteq Tasks
    BY <1>1, <1>3, KeysAreTasks
  <2>2. SkippedDone(task, r) /\ \E k \in Tasks : task[r][k].status # "none"
    BY <1>1, <1>3 DEF Returned
  <2>. QED BY <1>2, <2>1, <2>2 DEF SkippedDone, Kept, LiveRowsOnly, Rewritten
<1>. QED BY <1>3 DEF Returned

LEMMA LeaseTaskReport ==
  ASSUME ReportInv, LeasedInv', NEW w \in Workers, NEW r \in Runs, NEW k \in Tasks, LeaseTask(w, r, k)
  PROVE  ReportInv'
<1>0. /\ TypeOK /\ task[r][k].status = "QUEUED" /\ task' = [task EXCEPT ![r][k].status = "RUNNING"]
      /\ UNCHANGED <<runStatus, runQ, taskQ, doneQ, dlq, executing, sched, api, request, reaping>>
  BY DEF ReportInv, LeasedInv, LeaseInv, TypeInv, LeaseTask, queues
<1>1. \A q \in Runs, j \in Tasks :
        task'[q][j].status = IF q = r /\ j = k THEN "RUNNING" ELSE task[q][j].status
  BY <1>0 DEF TypeOK, RowSet
<1>2. LiveRowsOnly /\ \A q \in Runs, j \in Tasks : Live(task', q, j) => Live(task, q, j)
  BY <1>0, <1>1 DEF LiveRowsOnly, Rewritten, Live
<1>. QED BY <1>0, <1>2, ReturnedStays, RowsReport

\* The report closes the row, which is its worker's.
LEMMA CloseReport ==
  ASSUME ReportInv, LeasedInv', NEW h \in Handlers, UpdateRow(h),
         LeasedTo(request[h].run, request[h].task, request[h].by)
  PROVE  ReportInv'
<1>. DEFINE q == request[h]
<1>0. /\ TypeOK /\ LeaseInv /\ q \in Requests /\ q.run \in Runs /\ q.task \in Tasks
      /\ q.status \in {"SUCCESS", "FAILED"} /\ q.pc = "update"
      /\ task[q.run][q.task].status = "RUNNING"
  BY DEF ReportInv, LeasedInv, LeaseInv, LeaseVarsOK, SoundRequest, TypeInv, UpdateRow, LeasedTo
<1>1. /\ task' = [task EXCEPT ![q.run][q.task].status = q.status]
      /\ request' = [request EXCEPT ![h].pc = "publish"]
      /\ UNCHANGED <<runStatus, runQ, taskQ, doneQ, dlq, executing, sched, api, reaping>>
  BY DEF UpdateRow, queues
<1>2. \A r \in Runs, k \in Tasks :
        task'[r][k].status = IF r = q.run /\ k = q.task THEN q.status ELSE task[r][k].status
  BY <1>0, <1>1 DEF TypeOK, RowSet
<1>3. LiveRowsOnly /\ \A r \in Runs, k \in Tasks : Live(task', r, k) => Live(task, r, k)
  BY <1>0, <1>2 DEF LiveRowsOnly, Rewritten, Live
<1>4. /\ \A g \in Handlers : g # h => request'[g] = request[g]
      /\ request'[h].run = q.run /\ request'[h].task = q.task /\ request'[h].status = q.status
  BY <1>0, <1>1 DEF LeaseInv, LeaseVarsOK, Requests
<1>5. Closes(h)
  BY <1>0, <1>2, <1>4 DEF Closes, Live
<1>. QED BY <1>1, <1>3, <1>4, <1>5, ReturnedStays, RowsReport

LEMMA HandlerCrashReport ==
  ASSUME ReportInv, LeasedInv', NEW h \in Handlers, HandlerCrash(h)
  PROVE  ReportInv'
<1>0. /\ LeaseInv /\ request' = [request EXCEPT ![h] = NoRequest]
      /\ UNCHANGED <<runStatus, task, runQ, taskQ, doneQ, dlq, executing, sched, api, reaping>>
  BY DEF ReportInv, LeasedInv, HandlerCrash, rows, queues
<1>1. LiveRowsOnly /\ \A r \in Runs, k \in Tasks : Live(task', r, k) => Live(task, r, k)
  BY <1>0 DEF LiveRowsOnly, Live
<1>2. \A g \in Handlers : request'[g].pc = "publish" => request'[g] = request[g]
  BY <1>0 DEF LeaseInv, LeaseVarsOK, NoRequest
<1>. QED BY <1>0, <1>1, <1>2, ReturnedStays, RowsReport

-----------------------------------------------------------------------------
\* A handler that has answered is free, and the others are where they were.
LEMMA Answered ==
  ASSUME LeaseInv, NEW h \in Handlers, Answer(h)
  PROVE  /\ request'[h].pc = "free"
         /\ \A g \in Handlers : g # h => request'[g] = request[g]
         /\ OldReports
<1>1. request' = [request EXCEPT ![h] = NoRequest] /\ request \in [Handlers -> Requests]
  BY DEF Answer, LeaseInv, LeaseVarsOK
<1>. QED BY <1>1 DEF NoRequest, OldReports

\* The outcome is published for a row that was given out and is closed.
LEMMA PublishStart ==
  ASSUME ReportInv, TypeInv', NEW h \in Handlers, PublishOutcome(h)
  PROVE  StartInv'
<1>. DEFINE q == request[h]
            m == [run |-> q.run, task |-> q.task, attempt |-> q.attempt, status |-> q.status]
<1>0. /\ OrderInv /\ StartInv /\ MessagesDue /\ TypeOK /\ q \in Requests
      /\ q.pc = "publish" /\ q.run \in Runs /\ q.task \in Tasks /\ q.status \in {"SUCCESS", "FAILED"}
      /\ Given(task, q.run, q.task) /\ task[q.run][q.task].status = q.status
  BY DEF ReportInv, StartInv, OrderInv, TypeInv, LeasedInv, LeaseInv, LeaseVarsOK, SoundRequest,
         PublishOutcome, Closed
<1>1. /\ doneQ' = Append(doneQ, m) /\ m \in OutcomeSet
      /\ UNCHANGED <<runStatus, task, runQ, taskQ, dlq, executing, sched, api>>
  BY <1>0 DEF PublishOutcome, rows, OutcomeSet, Requests
<1>2. MessagesDue'
  <2>1. m \in DueOutcomes(task) /\ doneQ \in Seq(DueOutcomes(task))
    BY <1>0, <1>1 DEF DueOutcomes, Given, MessagesDue
  <2>2. doneQ' \in Seq(DueOutcomes(task))
    BY <1>1, <2>1
  <2>. QED BY <1>0, <1>1, <2>2 DEF MessagesDue
<1>3. OrderInv'
  BY <1>0, <1>1, <1>2, AsideOrder
<1>4. ASSUME NEW r, NEW k, Loose(r, k)'
      PROVE  Loose(r, k) \/ (r = q.run /\ k = q.task)
  <2>1. Has(doneQ', r, k) <=> Has(doneQ, r, k) \/ IsFor(m, r, k)
    BY <1>0, <1>1, HasAppend DEF TypeOK
  <2>. QED BY <1>1, <1>4, <2>1 DEF Loose, Msg, IsFor
<1>5. OneEvent'
  BY <1>0, <1>1 DEF StartInv, OneEvent, Announced, Waiting, On
<1>6. (\A r \in Runs : runStatus[r] = "none" => ~Waiting(r) /\ \A s \in Schedulers : ~On(sched[s], r))'
  BY <1>0, <1>1 DEF StartInv, Waiting, Announced, On
<1>7. ASSUME NEW r \in Runs, Unstarted(r)' PROVE Pristine(r)'
  <2>1. Unstarted(r)
    BY <1>1, <1>7 DEF Unstarted, Waiting, Announced, On
  <2>2. Pristine(r)
    BY <1>0, <2>1 DEF StartInv
  <2>3. r # q.run
    BY <1>0, <2>2 DEF Pristine
  <2>. QED BY <1>1, <1>4, <2>2, <2>3 DEF Pristine
<1>8. \A s \in Schedulers : StartOf(task', sched'[s])
  BY <1>0, <1>1 DEF StartInv
<1>9. \A r \in Runs, k \in Tasks : Loose(r, k)' => SkippedDone(task', r)
  BY <1>0, <1>1, <1>4 DEF StartInv, Given
<1>. QED
  BY <1>3, <1>5, <1>6, <1>7, <1>8, <1>9 DEF StartInv

LEMMA PublishReport ==
  ASSUME ReportInv, LeasedInv', NEW h \in Handlers, PublishOutcome(h)
  PROVE  ReportInv'
<1>. DEFINE q == request[h]
            m == [run |-> q.run, task |-> q.task, attempt |-> q.attempt, status |-> q.status]
<1>0. /\ LeaseInv /\ TypeInv /\ TypeInv' /\ doneQ \in Seq(OutcomeSet) /\ q \in Requests
      /\ q.pc = "publish" /\ q.run \in Runs /\ q.task \in Tasks /\ q.status \in {"SUCCESS", "FAILED"}
      /\ Closed(task, doneQ, request) /\ OneOutcome(doneQ, request)
      /\ task[q.run][q.task].status = q.status
  BY DEF ReportInv, LeasedInv, TypeInv, TypeOK, LeaseInv, LeaseVarsOK, SoundRequest,
         PublishOutcome, Closed
<1>1. /\ doneQ' = Append(doneQ, m) /\ m \in OutcomeSet /\ Answer(h)
      /\ UNCHANGED <<task, sched, reaping>>
  BY <1>0 DEF PublishOutcome, rows, OutcomeSet, Requests
<1>2. /\ request'[h].pc = "free" /\ \A g \in Handlers : g # h => request'[g] = request[g]
  BY <1>0, <1>1, Answered
<1>3. \A r, k : Has(doneQ', r, k) <=> Has(doneQ, r, k) \/ IsFor(m, r, k)
  BY <1>0, <1>1, HasAppend
<1>4. \A r, k : IsFor(m, r, k) <=> Reports(request, h, r, k)
  BY <1>0 DEF Reports, IsFor
<1>5. \A g \in Handlers, r \in Runs, k \in Tasks :
        Reports(request', g, r, k) => g # h /\ Reports(request, g, r, k)
  BY <1>2 DEF Reports
<1>6. StartInv'
  BY <1>0, PublishStart
<1>7. OneOutcome(doneQ', request')
  <2>1. ~Has(doneQ, m.run, m.task)
    BY <1>0, <1>4 DEF OneOutcome, IsFor
  <2>2. Uniq(doneQ')
    BY <1>0, <1>1, <2>1, UniqAppend DEF OneOutcome
  <2>. QED BY <1>0, <1>3, <1>4, <1>5, <2>2 DEF OneOutcome
<1>8. Closed(task', doneQ', request')
  <2>1. \A g \in Handlers : request'[g].pc = "publish" => request'[g] = request[g]
    BY <1>2
  <2>2. \A i \in 1..Len(doneQ') : doneQ'[i] = m \/ \E j \in 1..Len(doneQ) : doneQ'[i] = doneQ[j]
    BY <1>0, <1>1
  <2>. QED BY <1>0, <1>1, <2>1, <2>2 DEF Closed
<1>9. \A r \in Runs, k \in Tasks : Coming(doneQ', request', r, k) => Coming(doneQ, request, r, k)
  BY <1>3, <1>4, <1>5 DEF Coming
<1>10. ASSUME NEW s \in Schedulers PROVE Settled(task', doneQ', request', sched'[s])
  BY <1>0, <1>1, <1>9, SettledAside DEF ReportInv
<1>. QED
  BY <1>1, <1>6, <1>7, <1>8, <1>10 DEF ReportInv

\* A run whose tasks were taken back has begun: it waits for no event.
LEMMA RescheduleStart ==
  ASSUME OneScheduler, ReportInv, TypeInv', NEW s \in Schedulers, Reschedule(s)
  PROVE  StartInv'
<1>1. PICK r \in reaping[s] :
        sched' = [sched EXCEPT ![s] = [AtTop("ready") EXCEPT !.run = r, !.after = "pollRuns"]]
  BY DEF Reschedule
<1>. DEFINE l == [AtTop("ready") EXCEPT !.run = r, !.after = "pollRuns"]
<1>2. /\ OrderInv /\ StartInv /\ sched \in [Schedulers -> Local] /\ r \in Runs /\ Returned(task, reaping)
      /\ UNCHANGED <<runStatus, task, runQ, taskQ, doneQ, dlq, executing, api>>
  BY DEF ReportInv, StartInv, OrderInv, TypeInv, TypeOK, LeasedInv, LeaseInv, LeaseVarsOK, Reschedule,
         rows, queues
<1>3. SkippedDone(task, r) /\ \E k \in Tasks : task[r][k].status # "none"
  BY <1>2 DEF Returned
<1>4. l.pc = "ready" /\ l.run = r /\ l.snap = Unread
  BY DEF AtTop
<1>5. Order(task, l)
  BY <1>4, SnapUnread, PlainOrder
<1>6. OrderInv'
  BY <1>1, <1>2, <1>5, StillOrder
<1>7. sched'[s] = l /\ \A u \in Schedulers : sched'[u] = l
  BY <1>1, <1>2 DEF OneScheduler
<1>. HIDE DEF l
<1>8. ~Unstarted(r)
  BY <1>2, <1>3 DEF StartInv, Pristine
<1>9. ~Waiting(r) /\ runStatus[r] # "none"
  BY <1>8 DEF Unstarted
<1>10. \A p : On(l, p) <=> p = r
  BY <1>4 DEF On, Top
<1>11. \A p : Waiting(p)' <=> Waiting(p)
  BY <1>2 DEF Waiting, Announced
<1>12. OneEvent'
  <2>1. \A u \in Schedulers, p \in Runs : On(sched'[u], p) => ~Waiting(p)'
    BY <1>7, <1>9, <1>10, <1>11
  <2>. QED BY <1>2, <2>1 DEF StartInv, OneEvent, Announced
<1>13. (\A p \in Runs : runStatus[p] = "none" => ~Waiting(p) /\ \A u \in Schedulers : ~On(sched[u], p))'
  BY <1>2, <1>7, <1>9, <1>10, <1>11 DEF StartInv
<1>14. ASSUME NEW p \in Runs, Unstarted(p)' PROVE Pristine(p)'
  <2>1. ~Before(l)
    BY <1>4 DEF Before
  <2>2. Unstarted(p)
    BY <1>2, <1>7, <1>11, <1>14, <2>1 DEF Unstarted
  <2>. QED BY <1>2, <2>2 DEF StartInv, Pristine, Loose, Msg
<1>15. \A u \in Schedulers : StartOf(task', sched'[u])
  BY <1>2, <1>3, <1>4, <1>7 DEF StartOf, AtPoint, Calling
<1>16. \A p \in Runs, k \in Tasks : Loose(p, k)' => SkippedDone(task', p)
  BY <1>2 DEF StartInv, Loose, Msg
<1>. QED
  BY <1>6, <1>12, <1>13, <1>14, <1>15, <1>16 DEF StartInv

LEMMA RescheduleReport ==
  ASSUME OneScheduler, ReportInv, LeasedInv', NEW s \in Schedulers, Reschedule(s)
  PROVE  ReportInv'
<1>1. PICK r \in reaping[s] :
        /\ sched' = [sched EXCEPT ![s] = [AtTop("ready") EXCEPT !.run = r, !.after = "pollRuns"]]
        /\ reaping' = [reaping EXCEPT ![s] = @ \ {r}]
  BY DEF Reschedule
<1>2. /\ sched \in [Schedulers -> Local] /\ reaping \in [Schedulers -> SUBSET Runs]
      /\ UNCHANGED <<task, doneQ, request>>
  BY DEF ReportInv, StartInv, OrderInv, TypeInv, TypeOK, LeasedInv, LeaseInv, LeaseVarsOK, Reschedule,
         rows, queues
<1>3. StartInv'
  BY RescheduleStart DEF LeasedInv, LeaseInv
<1>4. ASSUME NEW u \in Schedulers PROVE Settled(task', doneQ', request', sched'[u])
  <2>1. sched'[u].pc = "ready"
    BY <1>1, <1>2 DEF OneScheduler, AtTop
  <2>. QED BY <2>1 DEF Settled, Asks, AtPoint, Calling
<1>5. \A u \in Schedulers : reaping'[u] \subseteq reaping[u]
  BY <1>1, <1>2
<1>6. Returned(task', reaping')
  BY <1>2, <1>5 DEF ReportInv, Returned
<1>. QED
  BY <1>2, <1>3, <1>4, <1>6 DEF ReportInv

-----------------------------------------------------------------------------
LEMMA ReportInit == LeaseInit => ReportInv
<1>. SUFFICES ASSUME LeaseInit PROVE ReportInv
  OBVIOUS
<1>1. LeasedInv
  BY InitLeases, InitLeased DEF LeasedInv
<1>2. StartInv
  BY StartInit DEF LeaseInit
<1>3. /\ \A r \in Runs, k \in Tasks : task[r][k].status = "none"
      /\ doneQ = <<>> /\ \A h \in Handlers : request[h].pc = "free"
      /\ \A s \in Schedulers : sched[s].pc = "pollRuns" /\ reaping[s] = {}
  BY DEF LeaseInit, Init, NoRow, NoRequest, AtTop
<1>4. Offered(task) /\ Closed(task, doneQ, request) /\ Returned(task, reaping)
  BY <1>3 DEF Offered, Live, Closed, Returned
<1>5. OneOutcome(doneQ, request)
  BY <1>3 DEF OneOutcome, Uniq, Reports
<1>6. \A s \in Schedulers : Settled(task, doneQ, request, sched[s])
  BY <1>3 DEF Settled, Asks, AtPoint, Calling
<1>. QED
  BY <1>1, <1>2, <1>4, <1>5, <1>6 DEF ReportInv

\* The steps that ReportInv has to be proved for one by one.
Steers(s)   == Reap(s) \/ Reschedule(s)
Leasing(w)  == \E r \in Runs, k \in Tasks : LeaseTask(w, r, k)
Closing(h)  == UpdateRow(h) /\ LeasedTo(request[h].run, request[h].task, request[h].by)
Settling(h) == Closing(h) \/ PublishOutcome(h) \/ HandlerCrash(h)

\* All others are steps of RunScheduling, or of a worker alone.
LEMMA OtherSteps ==
  ASSUME ReportInv, [LeaseNext]_allVars,
         \A s \in Schedulers : ~Steers(s), \A w \in Workers : ~Leasing(w), \A h \in Handlers : ~Settling(h)
  PROVE  Unreported
<1>0. /\ LeaseInv /\ request \in [Handlers -> Requests] /\ reaping \in [Schedulers -> SUBSET Runs]
  BY DEF ReportInv, LeasedInv, LeaseInv, LeaseVarsOK
<1>1. ASSUME UNCHANGED vars, OldReports, UNCHANGED reaping
      PROVE  Unreported
  BY <1>1 DEF Unreported, vars
<1>2. CASE UNCHANGED allVars
  BY <1>1, <1>2 DEF allVars, leaseVars, OldReports
<1>3. ASSUME NEW s \in Schedulers, LoopStep(s)
      PROVE  Unreported
  <2>1. SchedulerStep(s) /\ UNCHANGED <<request, reaping>>
    BY <1>3 DEF LoopStep
  <2>. QED BY <2>1 DEF Unreported, OldReports, Next
<1>4. ASSUME NEW s \in Schedulers, LoopCrash(s)
      PROVE  Unreported
  <2>1. SchedulerCrash(s) /\ UNCHANGED request /\ reaping' = [reaping EXCEPT ![s] = {}]
    BY <1>4 DEF LoopCrash
  <2>2. \A u \in Schedulers : reaping'[u] \subseteq reaping[u]
    BY <1>0, <2>1
  <2>. QED BY <2>1, <2>2 DEF Unreported, OldReports, Next
<1>5. ASSUME NEW w \in Workers, Heartbeat(w) \/ WorkerLost(w)
      PROVE  Unreported
  BY <1>1, <1>5 DEF Heartbeat, WorkerLost, OldReports
<1>6. ASSUME NEW w \in Workers, NEW h \in Handlers,
             Resend(w, h) \/ \E st \in {"SUCCESS", "FAILED"} : Report(w, h, st)
      PROVE  Unreported
  <2>1. UNCHANGED <<vars, reaping>>
    BY <1>6 DEF Resend, Report
  <2>2. \E q : q.pc = "load" /\ request' = [request EXCEPT ![h] = q]
    BY <1>6 DEF Resend, Report
  <2>3. OldReports
    BY <1>0, <2>2 DEF OldReports
  <2>. QED BY <1>1, <2>1, <2>3
<1>7. ASSUME NEW h \in Handlers, LoadRow(h)
      PROVE  Unreported
  <2>1. UNCHANGED <<vars, reaping>>
    BY <1>7 DEF LoadRow
  <2>2. CASE Answer(h)
    BY <1>0, <1>1, <2>1, <2>2, Answered
  <2>3. CASE \E a : request' = [request EXCEPT ![h].pc = "update", ![h].attempt = a]
    <3>1. OldReports
      BY <1>0, <2>3 DEF OldReports, Requests
    <3>. QED BY <1>1, <2>1, <3>1
  <2>. QED BY <1>7, <2>2, <2>3 DEF LoadRow
<1>8. ASSUME NEW h \in Handlers, UpdateRow(h)
      PROVE  Unreported
  <2>1. ~LeasedTo(request[h].run, request[h].task, request[h].by)
    BY <1>8 DEF Settling, Closing
  <2>2. Answer(h) /\ UNCHANGED <<vars, reaping>>
    BY <1>8, <2>1 DEF UpdateRow, vars, queues, budget
  <2>. QED BY <1>0, <1>1, <2>2, Answered
<1>9. ASSUME NEW r \in Runs, NEW k \in Tasks, Expire(r, k)
      PROVE  Unreported
  BY <1>1, <1>9 DEF Expire, OldReports
<1>10. ASSUME NEW c \in Clients, ClientCall(c) \/ ClientStep(c) \/ ClientCrash(c), UNCHANGED leaseVars
       PROVE  Unreported
  <2>1. UNCHANGED <<sched, doneQ>>
    BY <1>10 DEF ClientCall, CreateRun, CancelRun, ReplayDlq, SetRunStatus, ClientStep, PublishRun,
                 CancelTasks, ListDlq, RequeueItem, RemoveItem, ClientCrash, queues
  <2>2. Next
    BY <1>10 DEF Next
  <2>. QED BY <1>10, <2>1, <2>2 DEF Unreported, OldReports, leaseVars
<1>. QED
  BY <1>2, <1>3, <1>4, <1>5, <1>6, <1>7, <1>8, <1>9, <1>10
  DEF LeaseNext, SchedulerTurn, WorkerStep, HandlerStep, Steers, Leasing, Settling

LEMMA ReportNext == OneScheduler /\ ReportInv /\ [LeaseNext]_allVars => ReportInv'
<1>. SUFFICES ASSUME OneScheduler, ReportInv, [LeaseNext]_allVars PROVE ReportInv'
  OBVIOUS
<1>1. LeasedInv'
  BY NextLeased DEF ReportInv
<1>2. CASE \E s \in Schedulers : Steers(s)
  BY <1>1, <1>2, ReapReport, RescheduleReport DEF Steers
<1>3. CASE \E w \in Workers : Leasing(w)
  BY <1>1, <1>3, LeaseTaskReport DEF Leasing
<1>4. CASE \E h \in Handlers : Settling(h)
  BY <1>1, <1>4, CloseReport, PublishReport, HandlerCrashReport DEF Settling, Closing
<1>. QED
  BY <1>1, <1>2, <1>3, <1>4, OtherSteps, ReportUndisturbed

\* No step takes a SUCCESS away, nor does one of the workers' or the
\* reaper's touch the status of a run.
LEMMA ReportKept ==
  ASSUME ReportInv, [LeaseNext]_allVars
  PROVE  Kept(task, task') /\ ([Next]_vars \/ UNCHANGED runStatus)
<1>0. TypeOK /\ LeaseInv
  BY DEF ReportInv, LeasedInv, LeaseInv, TypeInv
<1>1. CASE UNCHANGED <<task, runStatus>>
  BY <1>1 DEF Kept
<1>2. ASSUME NEW s \in Schedulers, Reap(s)
      PROVE  Kept(task, task') /\ UNCHANGED runStatus
  <2>1. \A r \in Runs, k \in Tasks : task[r][k].status = "SUCCESS" => task'[r][k] = task[r][k]
    BY <1>2 DEF Reap, ExpiredRows
  <2>. QED BY <1>2, <2>1 DEF Kept, Reap
<1>3. ASSUME NEW s \in Schedulers, Reschedule(s)
      PROVE  UNCHANGED <<task, runStatus>>
  BY <1>3 DEF Reschedule, rows
<1>4. ASSUME NEW w \in Workers, NEW r \in Runs, NEW k \in Tasks, LeaseTask(w, r, k)
      PROVE  Kept(task, task') /\ UNCHANGED runStatus
  BY <1>0, <1>4 DEF LeaseTask, Kept, TypeOK, RowSet
<1>5. ASSUME NEW h \in Handlers, Closing(h)
      PROVE  Kept(task, task') /\ UNCHANGED runStatus
  <2>. DEFINE q == request[h]
  <2>1. task[q.run][q.task].status = "RUNNING" /\ task' = [task EXCEPT ![q.run][q.task].status = q.status]
    BY <1>5 DEF Closing, UpdateRow, LeasedTo
  <2>. QED BY <1>0, <1>5, <2>1 DEF Closing, UpdateRow, Kept, TypeOK, RowSet
<1>6. ASSUME NEW h \in Handlers, PublishOutcome(h) \/ HandlerCrash(h)
      PROVE  UNCHANGED <<task, runStatus>>
  BY <1>6 DEF PublishOutcome, HandlerCrash, rows
<1>7. CASE Unreported
  <2>1. OrderInv
    BY DEF ReportInv, StartInv
  <2>. QED BY <1>7, <2>1, RowsKept DEF Unreported
<1>. QED
  BY <1>1, <1>2, <1>3, <1>4, <1>5, <1>6, <1>7, OtherSteps DEF Steers, Leasing, Settling

\* The outcomes of a task that are on their way.
LEMMA OutcomesAgree ==
  ASSUME OneScheduler, ReportInv, NEW r \in Runs, NEW k \in Tasks, NEW x \in Outcomes(r, k)
  PROVE  /\ task[r][k].status \in {"SUCCESS", "FAILED"}
         /\ \A y \in Outcomes(r, k) : y = x
<1>. DEFINE H == {h \in Handlers : Reports(request, h, r, k)}
            I == {i \in 1..Len(doneQ) : IsFor(doneQ[i], r, k)}
            S == {s \in Schedulers : IsFor(sched[s], r, k) /\ AtPoint(sched[s], {"handle"})}
<1>0. /\ LeaseInv /\ Closed(task, doneQ, request) /\ OneOutcome(doneQ, request)
      /\ \A s \in Schedulers : Settled(task, doneQ, request, sched[s])
  BY DEF ReportInv, LeasedInv
<1>1. \A y \in Outcomes(r, k) : y \in H \/ y \in I \/ y \in S
  BY DEF Outcomes, Reports, AtPoint, Calling
<1>2. (H # {} \/ I # {}) <=> Coming(doneQ, request, r, k)
  BY DEF Coming, Has
<1>3. S # {} => /\ ~Coming(doneQ, request, r, k)
                /\ task[r][k].status \in {"SUCCESS", "FAILED"}
  BY <1>0 DEF Settled, Asks, IsFor
<1>4. H # {} => I = {}
  BY <1>0 DEF OneOutcome, Has
<1>5. \A g, h \in H : g = h
  BY <1>0 DEF OneOutcome
<1>6. \A i, j \in I : i = j
  BY <1>0 DEF OneOutcome, Uniq, IsFor
<1>7. \A s, t \in S : s = t
  BY DEF OneScheduler
<1>8. Coming(doneQ, request, r, k) => task[r][k].status \in {"SUCCESS", "FAILED"}
  BY <1>0, ComingCloses
<1>. HIDE DEF H, I, S
<1>9. task[r][k].status \in {"SUCCESS", "FAILED"}
  BY <1>1, <1>2, <1>3, <1>8
<1>10. ASSUME NEW y \in Outcomes(r, k) PROVE y = x
  <2>1. CASE S # {}
    BY <1>1, <1>2, <1>3, <1>7, <2>1
  <2>2. CASE S = {} /\ H # {}
    BY <1>1, <1>4, <1>5, <2>2
  <2>3. CASE S = {} /\ H = {}
    BY <1>1, <1>6, <2>3
  <2>. QED BY <2>1, <2>2, <2>3
<1>. QED BY <1>9, <1>10

\* While an outcome of a task is on its way there is no second one and the
\* task is closed, whatever the reaper, cancels, resent requests and crashes
\* race with.  With two schedulers both may find the same task PENDING after
\* a join, and the second write offers again what was reported already.
THEOREM OutcomesClose ==
  ASSUME OneScheduler
  PROVE  LeaseSpec => []OutcomeCloses
<1>1. ReportInv /\ [LeaseNext]_allVars => ReportInv'
  BY ReportNext
<1>2. ASSUME ReportInv PROVE OutcomeCloses
  <2>1. ASSUME NEW r \in Runs, NEW k \in Tasks
        PROVE  /\ Cardinality(Outcomes(r, k)) <= 1
               /\ Outcomes(r, k) # {} => task[r][k].status \in {"SUCCESS", "FAILED"}
    <3>1. CASE Outcomes(r, k) = {}
      BY <3>1, FS_EmptySet
    <3>2. ASSUME NEW x \in Outcomes(r, k)
          PROVE  /\ Cardinality(Outcomes(r, k)) <= 1
                 /\ task[r][k].status \in {"SUCCESS", "FAILED"}
      <4>1. task[r][k].status \in {"SUCCESS", "FAILED"} /\ Outcomes(r, k) = {x}
        BY <1>2, <3>2, OutcomesAgree
      <4>2. Cardinality({x}) = 1
        BY FS_Singleton
      <4>. QED BY <4>1, <4>2
    <3>. QED BY <3>1, <3>2
  <2>. QED BY <2>1 DEF OutcomeCloses
<1>. QED
  BY ReportInit, <1>1, <1>2, PTL DEF LeaseSpec

\* A task is offered to workers, or leased, only while everything it depends
\* on is at SUCCESS, also after the reaper took it back and rescheduled the
\* run beside the loop.
THEOREM OfferedInOrder ==
  ASSUME OneScheduler
  PROVE  LeaseSpec => []OfferedAfterDeps
<1>1. ReportInv /\ [LeaseNext]_allVars => ReportInv'
  BY ReportNext
<1>2. ReportInv => OfferedAfterDeps
  BY KeysAreTasks DEF ReportInv, Offered, Live, Given, May, OfferedAfterDeps
<1>. QED
  BY ReportInit, <1>1, <1>2, PTL DEF LeaseSpec

\* A task that succeeded stays so although workers, their requests and the
\* reaper write the rows beside the scheduler and without its table.
THEOREM ReportedStays ==
  ASSUME OneScheduler
  PROVE  LeaseSpec => SuccessIsStable
<1>1. ReportInv /\ [LeaseNext]_allVars => ReportInv'
  BY ReportNext
<1>2. ReportInv /\ [LeaseNext]_allVars =>
        [\A r \in Runs, k \in Tasks :
           task[r][k].status = "SUCCESS" => task'[r][k].status = "SUCCESS"]_vars
  BY ReportKept DEF Kept
<1>. QED
  BY ReportInit, <1>1, <1>2, PTL DEF LeaseSpec, SuccessIsStable

\* What the workers report comes in the order of the plan and fakes no result
\* for a replay: the scheduler's guarantees hold with them, too.
THEOREM ReportsKeepOrder ==
  ASSUME OneScheduler
  PROVE  LeaseSpec => [](DepsDone /\ ReplayIsProven)
<1>1. ReportInv /\ [LeaseNext]_allVars => ReportInv'
  BY ReportNext
<1>2. ReportInv => DepsDone /\ ReplayIsProven
  BY OrderImplies DEF ReportInv, StartInv
<1>. QED
  BY ReportInit, <1>1, <1>2, PTL DEF LeaseSpec

\* A run that ended in SUCCESS has every task of its plan at SUCCESS, with
\* the rows of the tasks written by the requests of workers.
THEOREM SuccessEarnedByReports ==
  ASSUME OneScheduler, "SUCCESS" \notin ManualStatus
  PROVE  LeaseSpec => []SuccessIsEarned
<1>. DEFINE Whole == \A r \in Runs : runStatus[r] = "SUCCESS" => SkippedDone(task, r)
<1>1. LeaseInit => ReportInv /\ Earned(task) /\ Whole
  BY ReportInit DEF LeaseInit, Init, Earned
<1>2. ASSUME ReportInv, Earned(task), Whole, [LeaseNext]_allVars
      PROVE  (ReportInv /\ Earned(task) /\ Whole)'
  <2>0. StartInv /\ OrderInv /\ TypeInv /\ Kept(task, task') /\ ([Next]_vars \/ UNCHANGED runStatus)
    BY <1>2, ReportKept DEF ReportInv, StartInv, OrderInv
  <2>1. \A r \in Runs : /\ SkippedDone(task, r) => SkippedDone(task', r)
                        /\ AllDone(task, r) => AllDone(task', r)
    <3>1. \A r \in Runs : Skipped(r) \subseteq Tasks /\ Selected(r) \subseteq Tasks
      BY KeysAreTasks
    <3>. QED BY <2>0, <3>1 DEF SkippedDone, AllDone, Kept
  <2>2. Earned(task)'
    <3>1. CASE [Next]_vars
      BY <1>2, <2>0, <3>1, EarnedStep
    <3>2. CASE UNCHANGED runStatus
      BY <1>2, <2>1, <3>2 DEF Earned
    <3>. QED BY <2>0, <3>1, <3>2
  <2>3. ASSUME NEW r \in Runs, runStatus'[r] = "SUCCESS" PROVE SkippedDone(task', r)
    <3>1. CASE runStatus[r] = "SUCCESS"
      BY <1>2, <2>1, <3>1
    <3>2. CASE runStatus[r] # "SUCCESS"
      <4>1. PICK s \in Schedulers : sched[s].pc = "runUpdate" /\ sched[s].run = r /\ sched[s].status = "SUCCESS"
        BY <2>0, <2>3, <3>2, SuccessWritten
      <4>2. SkippedDone(task, r)
        BY <2>0, <4>1 DEF StartInv, StartOf, Past
      <4>. QED BY <2>1, <4>2
    <3>. QED BY <3>1, <3>2
  <2>4. ReportInv'
    BY <1>2, ReportNext
  <2>. QED BY <2>2, <2>3, <2>4
<1>3. ReportInv /\ Earned(task) /\ Whole => SuccessIsEarned
  <2>1. \A r \in Runs : Keys(Plan[r]) = Selected(r) \cup Skipped(r)
    BY KeysAreTasks DEF Skipped, SkippedKeys, Selected
  <2>. QED BY <2>1 DEF Earned, AllDone, SkippedDone, SuccessIsEarned
<1>. HIDE DEF Whole
<1>. QED
  BY <1>1, <1>2, <1>3, PTL DEF LeaseSpec
=============================================================================
