------------------------ MODULE RunScheduling_proofs ------------------------
(***************************************************************************)
(* Theorems about RunScheduling for every set of runs, tasks, schedulers,  *)
(* executors and clients, every plan and every bound.                      *)
(***************************************************************************)
EXTENDS RunScheduling, TLAPS, WellFoundedInduction, SequenceTheorems

-----------------------------------------------------------------------------
(***************************************************************************)
(* Type correctness is not inductive as it stands: what a scheduler writes *)
(* to a row comes from its locals, so these have to be right at the labels *)
(* that use them, and a label it returns to has to be one it called from.  *)
(***************************************************************************)
AfterRun  == {"load", "pollRuns"}
AfterTask == {"initTasks", "push", "handle", "sleep", "syncCancel"}
AfterAll  == {"pollRuns", "pollDone", "sync"}

Sound(l) ==
  /\ l \in Local
  /\ l.pc \notin {"pollRuns", "pollDone"} => l.run \in Runs
  /\ l.pc \in {"runSelect", "runUpdate"} => l.status \in RunStatus /\ l.cont \in AfterRun
  /\ l.pc \in {"taskSelect", "taskUpdate"} => l.cont \in AfterTask
  /\ l.pc \in {"taskSelect", "taskUpdate", "push", "handle", "sleep"} =>
       l.task \in Tasks /\ l.status \in TaskStatus
  /\ l.pc = "cancelAll" => l.cont \in AfterAll

SoundHandler(h) ==
  /\ h.op # "idle" => h.run \in Runs
  /\ h.op = "lrem" => h.items # <<>>

TypeInv ==
  /\ TypeOK
  /\ \A s \in Schedulers : Sound(sched[s])
  /\ \A c \in Clients : SoundHandler(api[c])

\* The keys of a plan, those a replay selects, those it skips: all are tasks.
LEMMA KeysAreTasks ==
  ASSUME NEW r \in Runs
  PROVE  /\ Keys(Plan[r]) \subseteq Tasks
         /\ Selected(r) \subseteq Keys(Plan[r])
         /\ Skipped(r) \subseteq Keys(Plan[r])
         /\ \A k \in Keys(Plan[r]) : Deps(r, k) \subseteq Tasks
<1>1. PICK K \in SUBSET Tasks : Plan[r] \in [K -> SUBSET Tasks]
  BY PlanAssumption
<1>2. Keys(Plan[r]) = K
  BY <1>1 DEF Keys
<1>. QED
  BY <1>1, <1>2 DEF Selected, Skipped, SelectedKeys, SkippedKeys, Downstream, Deps

LEMMA StatesType ==
  ASSUME TypeOK, NEW r \in Runs
  PROVE  States(r) \in [Tasks -> [status : TaskStatus, attempt : Nat]]
<1>. SUFFICES ASSUME NEW k \in Tasks
              PROVE  Seen(task[r][k]) \in [status : TaskStatus, attempt : Nat]
  BY DEF States
<1>1. task[r][k] \in RowSet
  BY DEF TypeOK
<1>. QED
  BY <1>1 DEF Seen, RowSet, TaskStatus

LEMMA AtTopSound ==
  ASSUME NEW label \in {"pollRuns", "pollDone"}
  PROVE  Sound(AtTop(label))
BY DEF Sound, AtTop, Local, Labels, Unread, TaskStatus

\* The helpers that prepare a call leave sound locals behind.
LEMMA UpsertSound ==
  ASSUME NEW s \in Schedulers, Sound(sched[s]), sched[s].run \in Runs,
         NEW k \in Tasks, NEW st \in TaskStatus, NEW a \in Nat, NEW label \in AfterTask
  PROVE  Sound(Upsert(s, k, st, a, label))
BY DEF Sound, Upsert, Local, Labels, AfterTask

LEMMA RunTransitionSound ==
  ASSUME NEW s \in Schedulers, Sound(sched[s]), sched[s].run \in Runs,
         NEW st \in RunStatus, NEW label \in AfterRun
  PROVE  Sound(RunTransition(s, st, label))
<1>1. st \in TaskStatus
  BY DEF RunStatus, TaskStatus
<1>. QED
  BY <1>1 DEF Sound, RunTransition, Local, Labels, AfterRun

LEMMA CancelAllSound ==
  ASSUME NEW s \in Schedulers, Sound(sched[s]), sched[s].run \in Runs,
         NEW label \in AfterAll
  PROVE  Sound(CancelAll(s, label))
BY DEF Sound, CancelAll, Local, Labels, AfterAll

\* Going on at a label that needs nothing but the run.
LEMMA ArriveSound ==
  ASSUME NEW l, Sound(l), l.run \in Runs,
         NEW label \in {"pollRuns", "pollDone", "sync", "load", "pick", "ready",
                        "initTasks", "syncCancel"}
  PROVE  Sound(Arrive(l, label))
<1>1. CASE label \in {"pollRuns", "pollDone"}
  BY <1>1, AtTopSound DEF Arrive
<1>2. CASE label \notin {"pollRuns", "pollDone"}
  BY <1>2 DEF Arrive, Sound, Local, Labels
<1>. QED BY <1>1, <1>2

\* The fields that are set besides a call need only have their types.
LEMMA FieldsSound ==
  ASSUME NEW l, Sound(l), NEW K \in SUBSET Tasks, NEW label \in {"pick", "pollRuns"}
  PROVE  /\ Sound([l EXCEPT !.todo = K])
         /\ Sound([l EXCEPT !.ret = label])
         /\ Sound([l EXCEPT !.todo = K, !.ret = label])
BY DEF Sound, Local

\* Rows stay rows when the remaining tasks of a run are cancelled.
LEMMA CancelRemainingType ==
  ASSUME TypeOK, NEW r \in Runs, CancelRemaining(r)
  PROVE  task' \in [Runs -> [Tasks -> RowSet]]
<1>1. /\ task \in [Runs -> [Tasks -> RowSet]]
      /\ "CANCELLED" \in TaskStatus
  BY DEF TypeOK, TaskStatus
<1>2. \A k \in Tasks : /\ task[r][k] \in RowSet
                       /\ [task[r][k] EXCEPT !.status = "CANCELLED"] \in RowSet
  BY <1>1 DEF RowSet
<1>. QED
  BY <1>1, <1>2 DEF CancelRemaining
-----------------------------------------------------------------------------
LEMMA InitSound == Init => TypeInv
<1>. SUFFICES ASSUME Init PROVE TypeInv
  OBVIOUS
<1>1. \A s \in Schedulers : Sound(sched[s])
  BY AtTopSound DEF Init
<1>2. sched \in [Schedulers -> Local]
  BY <1>1 DEF Init, Sound
<1>3. api \in [Clients -> Handler] /\ \A c \in Clients : SoundHandler(api[c])
  BY DEF Init, IdleClient, Handler, SoundHandler
<1>. QED
  BY <1>1, <1>2, <1>3, BoundsAssumption
  DEF TypeInv, TypeOK, Init, NoRow, RowSet, Lists

\* One scheduler moves on with sound locals.
LEMMA SchedMoves ==
  ASSUME TypeInv, NEW s \in Schedulers, NEW l, Sound(l),
         sched' = [sched EXCEPT ![s] = l]
  PROVE  sched' \in [Schedulers -> Local] /\ \A t \in Schedulers : Sound(sched'[t])
BY DEF TypeInv, TypeOK, Sound

\* A step in which nothing but the locals of one scheduler changes.
LEMMA LocalStep ==
  ASSUME TypeInv, NEW s \in Schedulers, NEW l, Sound(l),
         sched' = [sched EXCEPT ![s] = l],
         UNCHANGED <<rows, queues, executing, api, budget>>
  PROVE  TypeInv'
<1>1. sched' \in [Schedulers -> Local] /\ \A t \in Schedulers : Sound(sched'[t])
  BY SchedMoves
<1>. QED
  BY <1>1 DEF TypeInv, TypeOK, SoundHandler, rows, queues, budget

-----------------------------------------------------------------------------
\* Each action of a scheduler preserves TypeInv.
LEMMA PopRunSound ==
  ASSUME TypeInv, NEW s \in Schedulers, PopRun(s)
  PROVE  TypeInv'
<1>1. CASE runQ = <<>>
  BY <1>1, LocalStep, AtTopSound DEF PopRun, Restart, queues
<1>2. CASE runQ # <<>>
  <2>. DEFINE l == [sched[s] EXCEPT !.pc = "admit", !.run = Head(runQ)]
  <2>1. Head(runQ) \in Runs /\ Tail(runQ) \in Seq(Runs)
    BY <1>2 DEF TypeInv, TypeOK
  <2>2. Sound(l)
    BY <2>1 DEF TypeInv, Sound, Local, Labels
  <2>3. sched' = [sched EXCEPT ![s] = l] /\ runQ' = Tail(runQ)
    BY <1>2 DEF PopRun, TypeInv, TypeOK
  <2>4. sched' \in [Schedulers -> Local] /\ \A t \in Schedulers : Sound(sched'[t])
    BY <2>2, <2>3, SchedMoves
  <2>. QED
    BY <2>1, <2>3, <2>4 DEF PopRun, TypeInv, TypeOK, SoundHandler, rows, budget
<1>. QED BY <1>1, <1>2

LEMMA AdmitRunSound ==
  ASSUME TypeInv, NEW s \in Schedulers, AdmitRun(s)
  PROVE  TypeInv'
<1>. DEFINE r == sched[s].run
<1>1. r \in Runs /\ Sound(sched[s])
  BY DEF TypeInv, Sound, AdmitRun
<1>2. CASE runStatus[r] = "CANCELLED"
  BY <1>1, <1>2, LocalStep, CancelAllSound DEF AdmitRun, AfterAll, queues
<1>3. CASE runStatus[r] # "CANCELLED" /\ ~SlotsFull(r)
  <2>1. Sound(RunTransition(s, "RUNNING", "load"))
    BY <1>1, RunTransitionSound DEF RunStatus, AfterRun
  <2>. QED
    BY <1>3, <2>1, LocalStep DEF AdmitRun, queues
<1>4. CASE runStatus[r] # "CANCELLED" /\ SlotsFull(r)
  <2>1. runQ' = Append(runQ, r) /\ sched' = [sched EXCEPT ![s] = AtTop("pollDone")]
    BY <1>4 DEF AdmitRun, Restart
  <2>2. sched' \in [Schedulers -> Local] /\ \A t \in Schedulers : Sound(sched'[t])
    BY <2>1, AtTopSound, SchedMoves
  <2>. QED
    BY <1>1, <2>1, <2>2 DEF AdmitRun, TypeInv, TypeOK, SoundHandler, rows, budget
<1>. QED BY <1>2, <1>3, <1>4

LEMMA CancelRunTasksSound ==
  ASSUME TypeInv, NEW s \in Schedulers, CancelRunTasks(s)
  PROVE  TypeInv'
<1>. DEFINE l == sched[s]
<1>1. Sound(l) /\ l.run \in Runs /\ l.cont \in AfterAll
  BY DEF TypeInv, Sound, CancelRunTasks
<1>2. Sound(Arrive(l, l.cont))
  BY <1>1, ArriveSound DEF AfterAll
<1>3. sched' \in [Schedulers -> Local] /\ \A t \in Schedulers : Sound(sched'[t])
  BY <1>2, SchedMoves DEF CancelRunTasks
<1>4. task' \in [Runs -> [Tasks -> RowSet]]
  BY <1>1, CancelRemainingType DEF CancelRunTasks, TypeInv
<1>. QED
  BY <1>3, <1>4 DEF CancelRunTasks, TypeInv, TypeOK, SoundHandler, queues, budget

LEMMA SelectRunStatusSound ==
  ASSUME TypeInv, NEW s \in Schedulers, SelectRunStatus(s)
  PROVE  TypeInv'
<1>. DEFINE l == sched[s]
<1>1. Sound(l) /\ l.run \in Runs /\ l.cont \in AfterRun
  BY DEF TypeInv, Sound, SelectRunStatus
<1>2. Sound(Arrive(l, l.cont))
  BY <1>1, ArriveSound DEF AfterRun
<1>3. Sound([l EXCEPT !.pc = "runUpdate"])
  BY <1>1 DEF SelectRunStatus, Sound, Local, Labels
<1>. QED
  BY <1>2, <1>3, LocalStep DEF SelectRunStatus

LEMMA UpdateRunStatusSound ==
  ASSUME TypeInv, NEW s \in Schedulers, UpdateRunStatus(s)
  PROVE  TypeInv'
<1>. DEFINE l == sched[s]
<1>1. Sound(l) /\ l.run \in Runs /\ l.cont \in AfterRun /\ l.status \in RunStatus
  BY DEF TypeInv, Sound, UpdateRunStatus
<1>2. Sound(Arrive(l, l.cont))
  BY <1>1, ArriveSound DEF AfterRun
<1>3. sched' \in [Schedulers -> Local] /\ \A t \in Schedulers : Sound(sched'[t])
  BY <1>2, SchedMoves DEF UpdateRunStatus
<1>4. runStatus' \in [Runs -> RunStatus \cup {"none"}]
  BY <1>1 DEF UpdateRunStatus, TypeInv, TypeOK
<1>. QED
  BY <1>3, <1>4 DEF UpdateRunStatus, TypeInv, TypeOK, SoundHandler, queues, budget

LEMMA SelectTaskStatusSound ==
  ASSUME TypeInv, NEW s \in Schedulers, SelectTaskStatus(s)
  PROVE  TypeInv'
<1>. DEFINE l == sched[s]
<1>1. Sound(l) /\ l.pc = "taskSelect" /\ l.cont \in AfterTask
  BY DEF TypeInv, Sound, SelectTaskStatus
<1>2. Sound([l EXCEPT !.pc = "taskUpdate"])
  BY <1>1 DEF Sound, Local, Labels
<1>3. Sound([l EXCEPT !.pc = l.cont])
  BY <1>1 DEF Sound, Local, Labels, AfterTask
<1>. QED
  BY <1>2, <1>3, LocalStep DEF SelectTaskStatus

LEMMA UpsertTaskSound ==
  ASSUME TypeInv, NEW s \in Schedulers, UpsertTask(s)
  PROVE  TypeInv'
<1>. DEFINE l == sched[s]
<1>1. /\ Sound(l) /\ l.pc = "taskUpdate" /\ l.cont \in AfterTask
      /\ l.run \in Runs /\ l.task \in Tasks /\ l.status \in TaskStatus /\ l.attempt \in Nat
  BY DEF TypeInv, Sound, UpsertTask, Local
<1>2. Sound([l EXCEPT !.pc = l.cont])
  BY <1>1 DEF Sound, Local, Labels, AfterTask
<1>3. sched' = [sched EXCEPT ![s] = [l EXCEPT !.pc = l.cont]]
  BY DEF UpsertTask, Goto, TypeInv, TypeOK
<1>4. sched' \in [Schedulers -> Local] /\ \A t \in Schedulers : Sound(sched'[t])
  BY <1>2, <1>3, SchedMoves
<1>5. task' \in [Runs -> [Tasks -> RowSet]]
  <2>1. [status |-> l.status, attempt |-> l.attempt] \in RowSet
    BY <1>1 DEF RowSet
  <2>. QED
    BY <1>1, <2>1 DEF UpsertTask, TypeInv, TypeOK
<1>. QED
  BY <1>4, <1>5 DEF UpsertTask, TypeInv, TypeOK, SoundHandler, queues, budget

LEMMA LoadPlanSound ==
  ASSUME TypeInv, NEW s \in Schedulers, LoadPlan(s)
  PROVE  TypeInv'
<1>. DEFINE r == sched[s].run
            proven == IF ReplayOf[r] = NoRun THEN Keys(Plan[r])
                      ELSE {k \in Evidence[r] : task[ReplayOf[r]][k].status = "SUCCESS"}
            l == [sched[s] EXCEPT !.pc = "initTasks", !.todo = Keys(Plan[r]), !.proven = proven]
<1>1. Sound(sched[s]) /\ r \in Runs
  BY DEF TypeInv, Sound, LoadPlan
<1>2. Keys(Plan[r]) \subseteq Tasks /\ proven \subseteq Tasks
  BY <1>1, KeysAreTasks, PlanAssumption
<1>3. Sound(l)
  <2>. HIDE DEF proven
  <2>. QED BY <1>1, <1>2 DEF Sound, Local, Labels
<1>4. sched' = [sched EXCEPT ![s] = l]
  BY DEF LoadPlan, TypeInv, TypeOK
<1>. HIDE DEF l
<1>. QED
  BY <1>3, <1>4, LocalStep DEF LoadPlan

LEMMA InitTaskSound ==
  ASSUME TypeInv, NEW s \in Schedulers, InitTask(s)
  PROVE  TypeInv'
<1>. DEFINE l == sched[s]
<1>1. Sound(l) /\ l.run \in Runs /\ l.todo \subseteq Tasks
  BY DEF TypeInv, Sound, InitTask, Local
<1>2. PICK k \in l.todo :
        sched' = [sched EXCEPT ![s] =
            [Upsert(s, k, IF k \in Selected(l.run) THEN "PENDING"
                          ELSE IF k \in l.proven THEN "SUCCESS" ELSE "FAILED",
                    1, "initTasks")
             EXCEPT !.todo = l.todo \ {k}]]
  BY DEF InitTask
<1>. DEFINE st == IF k \in Selected(l.run) THEN "PENDING"
                  ELSE IF k \in l.proven THEN "SUCCESS" ELSE "FAILED"
<1>3. k \in Tasks /\ st \in TaskStatus
  BY <1>1 DEF TaskStatus
<1>. HIDE DEF st
<1>4. Sound(Upsert(s, k, st, 1, "initTasks"))
  BY <1>1, <1>3, UpsertSound DEF AfterTask
<1>5. Sound([Upsert(s, k, st, 1, "initTasks") EXCEPT !.todo = l.todo \ {k}])
  BY <1>1, <1>4, FieldsSound
<1>. QED
  BY <1>2, <1>5, LocalStep DEF InitTask, st

LEMMA FinishInitSound ==
  ASSUME TypeInv, NEW s \in Schedulers, FinishInit(s)
  PROVE  TypeInv'
<1>. DEFINE l == sched[s]
<1>1. Sound(l) /\ l.run \in Runs
  BY DEF TypeInv, Sound, FinishInit
<1>2. Sound(RunTransition(s, "FAILED", "pollRuns"))
  BY <1>1, RunTransitionSound DEF RunStatus, AfterRun
<1>3. Sound([l EXCEPT !.pc = "ready", !.after = "pollDone"])
  BY <1>1 DEF Sound, Local, Labels
<1>4. \/ sched' = [sched EXCEPT ![s] = [l EXCEPT !.pc = "ready", !.after = "pollDone"]]
      \/ sched' = [sched EXCEPT ![s] = RunTransition(s, "FAILED", "pollRuns")]
  BY DEF FinishInit, TypeInv, TypeOK
<1>. QED
  BY <1>2, <1>3, <1>4, LocalStep DEF FinishInit

LEMMA ReadStatesSound ==
  ASSUME TypeInv, NEW s \in Schedulers, ReadStates(s)
  PROVE  TypeInv'
<1>. DEFINE l == sched[s]
            l2 == [l EXCEPT !.pc = "pick", !.snap = States(l.run), !.todo = Selected(l.run)]
<1>1. Sound(l) /\ l.run \in Runs /\ l.after \in {"pollRuns", "pollDone", "sync"}
  BY DEF TypeInv, Sound, ReadStates, Local
<1>2. Sound(CancelAll(s, l.after))
  BY <1>1, CancelAllSound DEF AfterAll
<1>3. Sound(l2)
  <2>1. /\ States(l.run) \in [Tasks -> [status : TaskStatus, attempt : Nat]]
        /\ Selected(l.run) \subseteq Tasks
    BY <1>1, StatesType, KeysAreTasks DEF TypeInv
  <2>. QED BY <1>1, <2>1 DEF Sound, Local, Labels
<1>4. \/ sched' = [sched EXCEPT ![s] = CancelAll(s, l.after)]
      \/ sched' = [sched EXCEPT ![s] = l2]
  BY DEF ReadStates, TypeInv, TypeOK
<1>. HIDE DEF l2
<1>. QED
  BY <1>2, <1>3, <1>4, LocalStep DEF ReadStates

LEMMA PickReadySound ==
  ASSUME TypeInv, NEW s \in Schedulers, PickReady(s)
  PROVE  TypeInv'
<1>. DEFINE l == sched[s]
<1>1. Sound(l) /\ l.run \in Runs /\ l.after \in {"pollRuns", "pollDone", "sync"} /\ l.todo \subseteq Tasks
  BY DEF TypeInv, Sound, PickReady, Local
<1>2. Sound(Arrive(l, l.after))
  BY <1>1, ArriveSound
<1>3. CASE sched' = [sched EXCEPT ![s] = Arrive(l, l.after)]
  BY <1>2, <1>3, LocalStep DEF PickReady
<1>. DEFINE next(k) == [Upsert(s, k, Dispatched, l.snap[k].attempt, "push")
                          EXCEPT !.todo = {j \in l.todo : j > k}, !.ret = "pick"]
<1>4. CASE \E k \in Ready(l.run, l.snap, l.todo) : sched' = [sched EXCEPT ![s] = next(k)]
  <2>1. PICK k \in Ready(l.run, l.snap, l.todo) : sched' = [sched EXCEPT ![s] = next(k)]
    BY <1>4
  <2>2. k \in Tasks /\ l.snap[k].attempt \in Nat
    BY <1>1, <2>1 DEF Ready, Sound, Local
  <2>3. Sound(Upsert(s, k, Dispatched, l.snap[k].attempt, "push"))
    BY <1>1, <2>2, UpsertSound DEF AfterTask, TaskStatus, Dispatched
  <2>4. Sound(next(k))
    BY <1>1, <2>3, FieldsSound
  <2>. HIDE DEF next
  <2>. QED
    BY <2>1, <2>4, LocalStep DEF PickReady
<1>. QED BY <1>3, <1>4 DEF PickReady

LEMMA PushTaskSound ==
  ASSUME TypeInv, NEW s \in Schedulers, PushTask(s)
  PROVE  TypeInv'
<1>. DEFINE l == sched[s]
<1>1. /\ Sound(l) /\ l.run \in Runs /\ l.task \in Tasks /\ l.attempt \in Nat
      /\ l.ret \in {"pick", "pollRuns"}
  BY DEF TypeInv, Sound, PushTask, Local
<1>2. Sound(Arrive(l, l.ret))
  BY <1>1, ArriveSound
<1>3. sched' \in [Schedulers -> Local] /\ \A t \in Schedulers : Sound(sched'[t])
  BY <1>2, SchedMoves DEF PushTask
<1>4. taskQ' \in [Lists -> Seq(MessageSet)]
  <2>1. Message(l.run, l.task, l.attempt) \in MessageSet
    BY <1>1 DEF Message, MessageSet
  <2>. QED
    BY <1>1, <2>1, PlanAssumption DEF PushTask, TypeInv, TypeOK
<1>. QED
  BY <1>3, <1>4 DEF PushTask, TypeInv, TypeOK, SoundHandler, rows, budget

LEMMA PopDoneSound ==
  ASSUME TypeInv, NEW s \in Schedulers, PopDone(s)
  PROVE  TypeInv'
<1>1. CASE doneQ = <<>>
  BY <1>1, LocalStep, AtTopSound DEF PopDone, Restart, queues
<1>2. CASE doneQ # <<>>
  <2>. DEFINE m == Head(doneQ)
              l == [Upsert(s, m.task, m.status, m.attempt, "handle")
                      EXCEPT !.run = m.run, !.after = "sync"]
  <2>1. m \in OutcomeSet /\ Tail(doneQ) \in Seq(OutcomeSet)
    BY <1>2 DEF TypeInv, TypeOK
  <2>2. /\ m.run \in Runs /\ m.task \in Tasks /\ m.attempt \in Nat /\ m.status \in TaskStatus
    BY <2>1 DEF OutcomeSet, TaskStatus
  <2>3. Sound(l)
    <3>. HIDE DEF m
    <3>. QED
      BY <2>2 DEF Sound, TypeInv, Upsert, Local, Labels, AfterTask
  <2>4. sched' = [sched EXCEPT ![s] = l] /\ doneQ' = Tail(doneQ)
    BY <1>2 DEF PopDone
  <2>. HIDE DEF l
  <2>5. sched' \in [Schedulers -> Local] /\ \A t \in Schedulers : Sound(sched'[t])
    BY <2>3, <2>4, SchedMoves
  <2>. QED
    BY <2>1, <2>4, <2>5 DEF PopDone, TypeInv, TypeOK, SoundHandler, rows, budget
<1>. QED BY <1>1, <1>2

LEMMA HandleSuccessSound ==
  ASSUME TypeInv, NEW s \in Schedulers, HandleSuccess(s)
  PROVE  TypeInv'
<1>. DEFINE l == sched[s]
<1>1. Sound(l) /\ l.run \in Runs
  BY DEF TypeInv, Sound, HandleSuccess
<1>2. Sound(CancelAll(s, "pollRuns"))
  BY <1>1, CancelAllSound DEF AfterAll
<1>3. Sound([l EXCEPT !.pc = "ready"])
  BY <1>1 DEF Sound, Local, Labels
<1>4. \/ sched' = [sched EXCEPT ![s] = CancelAll(s, "pollRuns")]
      \/ sched' = [sched EXCEPT ![s] = [l EXCEPT !.pc = "ready"]]
  BY DEF HandleSuccess, Goto, TypeInv, TypeOK
<1>. QED
  BY <1>2, <1>3, <1>4, LocalStep DEF HandleSuccess

LEMMA HandleRetrySound ==
  ASSUME TypeInv, NEW s \in Schedulers, HandleRetry(s)
  PROVE  TypeInv'
<1>. DEFINE l == sched[s]
<1>1. Sound(l) /\ l.run \in Runs /\ l.task \in Tasks /\ l.attempt + 1 \in Nat
  BY DEF TypeInv, Sound, HandleRetry, Local
<1>2. Sound(Upsert(s, l.task, "RETRY", l.attempt + 1, "sleep"))
  BY <1>1, UpsertSound DEF AfterTask, TaskStatus
<1>. QED
  BY <1>2, LocalStep DEF HandleRetry

LEMMA WakeUpSound ==
  ASSUME TypeInv, NEW s \in Schedulers, WakeUp(s)
  PROVE  TypeInv'
<1>. DEFINE l == sched[s]
            next == Upsert(s, l.task, Dispatched, l.attempt, "push")
<1>1. Sound(l) /\ l.run \in Runs /\ l.task \in Tasks /\ l.attempt \in Nat
  BY DEF TypeInv, Sound, WakeUp, Local
<1>2. Sound(next)
  BY <1>1, UpsertSound DEF AfterTask, TaskStatus, Dispatched
<1>. HIDE DEF next
<1>3. Sound([next EXCEPT !.ret = "pollRuns"])
  BY <1>2, FieldsSound
<1>. QED
  BY <1>3, LocalStep DEF WakeUp, next

LEMMA HandleDeadSound ==
  ASSUME TypeInv, NEW s \in Schedulers, HandleDead(s)
  PROVE  TypeInv'
<1>. DEFINE l == sched[s]
<1>1. Sound(l) /\ l.run \in Runs /\ l.task \in Tasks /\ l.attempt \in Nat
  BY DEF TypeInv, Sound, HandleDead, Local
<1>2. Sound([l EXCEPT !.pc = "sync"])
  BY <1>1 DEF Sound, Local, Labels
<1>3. sched' = [sched EXCEPT ![s] = [l EXCEPT !.pc = "sync"]]
  BY DEF HandleDead, Goto, TypeInv, TypeOK
<1>4. sched' \in [Schedulers -> Local] /\ \A t \in Schedulers : Sound(sched'[t])
  BY <1>2, <1>3, SchedMoves
<1>5. dlq' \in Seq(MessageSet)
  <2>1. Message(l.run, l.task, l.attempt) \in MessageSet
    BY <1>1 DEF Message, MessageSet
  <2>. QED
    BY <2>1 DEF HandleDead, TypeInv, TypeOK
<1>. QED
  BY <1>4, <1>5 DEF HandleDead, TypeInv, TypeOK, SoundHandler, rows, budget

LEMMA SyncReadSound ==
  ASSUME TypeInv, NEW s \in Schedulers, SyncRead(s)
  PROVE  TypeInv'
<1>. DEFINE l == sched[s]
            l2 == [l EXCEPT !.pc = "syncCancel", !.snap = States(l.run),
                            !.todo = Unreachable(l.run, States(l.run))]
<1>1. Sound(l) /\ l.run \in Runs
  BY DEF TypeInv, Sound, SyncRead
<1>2. Sound(l2)
  <2>1. /\ States(l.run) \in [Tasks -> [status : TaskStatus, attempt : Nat]]
        /\ Unreachable(l.run, States(l.run)) \subseteq Tasks
    BY <1>1, StatesType, KeysAreTasks DEF TypeInv, Unreachable
  <2>. QED BY <1>1, <2>1 DEF Sound, Local, Labels
<1>3. sched' = [sched EXCEPT ![s] = l2]
  BY DEF SyncRead, TypeInv, TypeOK
<1>. HIDE DEF l2
<1>. QED
  BY <1>2, <1>3, LocalStep DEF SyncRead

LEMMA SyncCancelSound ==
  ASSUME TypeInv, NEW s \in Schedulers, SyncCancel(s)
  PROVE  TypeInv'
<1>. DEFINE l == sched[s]
            next(k) == Upsert(s, k, "CANCELLED", l.snap[k].attempt, "syncCancel")
<1>1. Sound(l) /\ l.run \in Runs /\ l.todo \subseteq Tasks
  BY DEF TypeInv, Sound, SyncCancel, Local
<1>2. PICK k \in l.todo : sched' = [sched EXCEPT ![s] = [next(k) EXCEPT !.todo = l.todo \ {k}]]
  BY DEF SyncCancel
<1>3. k \in Tasks /\ l.snap[k].attempt \in Nat
  BY <1>1 DEF Sound, Local
<1>4. Sound(next(k))
  BY <1>1, <1>3, UpsertSound DEF AfterTask, TaskStatus
<1>. HIDE DEF next
<1>5. Sound([next(k) EXCEPT !.todo = l.todo \ {k}])
  BY <1>1, <1>4, FieldsSound
<1>. QED
  BY <1>2, <1>5, LocalStep DEF SyncCancel

LEMMA SyncVerdictSound ==
  ASSUME TypeInv, NEW s \in Schedulers, SyncVerdict(s)
  PROVE  TypeInv'
<1>1. Sound(sched[s]) /\ sched[s].run \in Runs
  BY DEF TypeInv, Sound, SyncVerdict
<1>2. /\ Sound(RunTransition(s, "SUCCESS", "pollRuns"))
      /\ Sound(RunTransition(s, "FAILED", "pollRuns"))
      /\ Sound(AtTop("pollRuns"))
  BY <1>1, RunTransitionSound, AtTopSound DEF RunStatus, AfterRun
<1>. QED
  BY <1>2, LocalStep DEF SyncVerdict

LEMMA SchedulerSound ==
  ASSUME TypeInv, NEW s \in Schedulers, SchedulerStep(s)
  PROVE  TypeInv'
BY PopRunSound, AdmitRunSound, CancelRunTasksSound, SelectRunStatusSound,
   UpdateRunStatusSound, SelectTaskStatusSound, UpsertTaskSound, LoadPlanSound,
   InitTaskSound, FinishInitSound, ReadStatesSound, PickReadySound, PushTaskSound,
   PopDoneSound, HandleSuccessSound, HandleRetrySound, WakeUpSound, HandleDeadSound,
   SyncReadSound, SyncCancelSound, SyncVerdictSound
DEF SchedulerStep

\* The three things a scheduler may do to the rows of the tasks.
LEMMA LoopRows ==
  ASSUME NEW s \in Schedulers, SchedulerStep(s)
  PROVE  \/ UpsertTask(s)
         \/ CancelRunTasks(s)
         \/ UNCHANGED task /\ sched[s].pc # "taskUpdate"
<1>1. CASE PopRun(s) \/ AdmitRun(s) \/ SelectRunStatus(s) \/ UpdateRunStatus(s) \/ SelectTaskStatus(s)
  BY <1>1 DEF PopRun, AdmitRun, SelectRunStatus, UpdateRunStatus, SelectTaskStatus, rows
<1>2. CASE LoadPlan(s) \/ InitTask(s) \/ FinishInit(s) \/ ReadStates(s) \/ PickReady(s) \/ PushTask(s)
  BY <1>2 DEF LoadPlan, InitTask, FinishInit, ReadStates, PickReady, PushTask, rows
<1>3. CASE PopDone(s) \/ HandleSuccess(s) \/ HandleRetry(s) \/ WakeUp(s) \/ HandleDead(s)
  BY <1>3 DEF PopDone, HandleSuccess, HandleRetry, WakeUp, HandleDead, rows
<1>4. CASE SyncRead(s) \/ SyncCancel(s) \/ SyncVerdict(s)
  BY <1>4 DEF SyncRead, SyncCancel, SyncVerdict, rows
<1>. QED
  BY <1>1, <1>2, <1>3, <1>4 DEF SchedulerStep

-----------------------------------------------------------------------------
\* The actions of the executors.
LEMMA TakeTaskSound ==
  ASSUME TypeInv, NEW e \in Executors, TakeTask(e)
  PROVE  TypeInv'
<1>1. PICK q \in Lists : /\ taskQ[q] # <<>>
                         /\ executing' = [executing EXCEPT ![e] = Head(taskQ[q])]
                         /\ taskQ' = [taskQ EXCEPT ![q] = Tail(taskQ[q])]
  BY DEF TakeTask, ServedList
<1>2. taskQ[q] \in Seq(MessageSet)
  BY DEF TypeInv, TypeOK
<1>3. Head(taskQ[q]) \in MessageSet /\ Tail(taskQ[q]) \in Seq(MessageSet)
  BY <1>1, <1>2
<1>. QED
  BY <1>1, <1>3 DEF TakeTask, TypeInv, TypeOK, SoundHandler, rows, budget

LEMMA FinishTaskSound ==
  ASSUME TypeInv, NEW e \in Executors, FinishTask(e)
  PROVE  TypeInv'
<1>1. executing[e] \in MessageSet
  BY DEF FinishTask, TypeInv, TypeOK
<1>2. \A st \in {"SUCCESS", "FAILED"} : Finished(executing[e], st) \in OutcomeSet
  BY <1>1 DEF Finished, MessageSet, OutcomeSet
<1>3. doneQ' \in Seq(OutcomeSet)
  BY <1>2 DEF FinishTask, TypeInv, TypeOK
<1>. QED
  BY <1>3 DEF FinishTask, TypeInv, TypeOK, SoundHandler, rows, budget

-----------------------------------------------------------------------------
\* One handler of the API moves on.
LEMMA ApiMoves ==
  ASSUME TypeInv, NEW c \in Clients, NEW h \in Handler, SoundHandler(h),
         api' = [api EXCEPT ![c] = h]
  PROVE  api' \in [Clients -> Handler] /\ \A d \in Clients : SoundHandler(api'[d])
BY DEF TypeInv, TypeOK

LEMMA HandlersSound ==
  /\ IdleClient \in Handler /\ SoundHandler(IdleClient)
  /\ \A r \in Runs, op \in {"publish", "cancelTasks", "lrange"} :
       /\ [op |-> op, run |-> r, items |-> <<>>] \in Handler
       /\ SoundHandler([op |-> op, run |-> r, items |-> <<>>])
BY DEF IdleClient, Handler, SoundHandler

\* Each action of a handler preserves TypeInv.
LEMMA CreateRunSound ==
  ASSUME TypeInv, NEW c \in Clients, NEW r \in Runs, CreateRun(c, r)
  PROVE  TypeInv'
<1>1. api' \in [Clients -> Handler] /\ \A d \in Clients : SoundHandler(api'[d])
  BY ApiMoves, HandlersSound DEF CreateRun
<1>. QED
  BY <1>1 DEF CreateRun, TypeInv, TypeOK, RunStatus, queues, budget

LEMMA CancelRunSound ==
  ASSUME TypeInv, NEW c \in Clients, NEW r \in Runs, CancelRun(c, r)
  PROVE  TypeInv'
<1>1. api' \in [Clients -> Handler] /\ \A d \in Clients : SoundHandler(api'[d])
  BY ApiMoves, HandlersSound DEF CancelRun
<1>. QED
  BY <1>1, BoundsAssumption DEF CancelRun, Call, TypeInv, TypeOK, RunStatus, queues

LEMMA SetRunStatusSound ==
  ASSUME TypeInv, NEW c \in Clients, NEW r \in Runs, NEW st \in ManualStatus,
         SetRunStatus(c, r, st)
  PROVE  TypeInv'
BY BoundsAssumption, ManualAssumption
DEF SetRunStatus, Call, TypeInv, TypeOK, SoundHandler, queues

LEMMA ReplayDlqSound ==
  ASSUME TypeInv, NEW c \in Clients, NEW r \in Runs, ReplayDlq(c, r)
  PROVE  TypeInv'
<1>1. api' \in [Clients -> Handler] /\ \A d \in Clients : SoundHandler(api'[d])
  BY ApiMoves, HandlersSound DEF ReplayDlq
<1>. QED
  BY <1>1, BoundsAssumption DEF ReplayDlq, Call, TypeInv, TypeOK, RunStatus, queues

LEMMA PublishRunSound ==
  ASSUME TypeInv, NEW c \in Clients, PublishRun(c)
  PROVE  TypeInv'
<1>1. api[c].run \in Runs
  BY DEF PublishRun, TypeInv, SoundHandler
<1>2. api' \in [Clients -> Handler] /\ \A d \in Clients : SoundHandler(api'[d])
  BY ApiMoves, HandlersSound DEF PublishRun
<1>. QED
  BY <1>1, <1>2 DEF PublishRun, TypeInv, TypeOK, rows, budget

LEMMA CancelTasksSound ==
  ASSUME TypeInv, NEW c \in Clients, CancelTasks(c)
  PROVE  TypeInv'
<1>1. api[c].run \in Runs
  BY DEF CancelTasks, TypeInv, SoundHandler
<1>2. api' \in [Clients -> Handler] /\ \A d \in Clients : SoundHandler(api'[d])
  BY ApiMoves, HandlersSound DEF CancelTasks
<1>3. task' \in [Runs -> [Tasks -> RowSet]]
  BY <1>1, CancelRemainingType DEF CancelTasks, TypeInv
<1>. QED
  BY <1>2, <1>3 DEF CancelTasks, TypeInv, TypeOK, queues, budget

LEMMA ListDlqSound ==
  ASSUME TypeInv, NEW c \in Clients, ListDlq(c)
  PROVE  TypeInv'
<1>. DEFINE h == [api[c] EXCEPT !.op = "requeue", !.items = dlq]
<1>1. api[c] \in Handler /\ SoundHandler(api[c]) /\ dlq \in Seq(MessageSet)
  BY DEF TypeInv, TypeOK
<1>2. h \in Handler /\ SoundHandler(h)
  BY <1>1 DEF ListDlq, Handler, SoundHandler
<1>3. api' = [api EXCEPT ![c] = h]
  BY DEF ListDlq, TypeInv, TypeOK
<1>4. api' \in [Clients -> Handler] /\ \A d \in Clients : SoundHandler(api'[d])
  BY <1>2, <1>3, ApiMoves
<1>. QED
  BY <1>4 DEF ListDlq, TypeInv, TypeOK, rows, queues, budget

LEMMA RequeueItemSound ==
  ASSUME TypeInv, NEW c \in Clients, RequeueItem(c)
  PROVE  TypeInv'
<1>. DEFINE items == api[c].items
            m     == Head(items)
<1>1. api[c] \in Handler /\ SoundHandler(api[c]) /\ items \in Seq(MessageSet)
  BY DEF TypeInv, TypeOK, Handler
<1>2. /\ api[c].run \in Runs
      /\ UNCHANGED <<rows, runQ, doneQ, dlq, executing, sched, budget>>
  BY <1>1 DEF RequeueItem, SoundHandler
<1>3. CASE items = <<>>
  <2>1. api' \in [Clients -> Handler] /\ \A d \in Clients : SoundHandler(api'[d])
    BY <1>3, ApiMoves, HandlersSound DEF RequeueItem
  <2>. QED
    BY <1>3, <2>1 DEF RequeueItem, TypeInv, TypeOK, rows, budget
<1>4. CASE items # <<>> /\ m.run # api[c].run
  <2>. DEFINE h == [api[c] EXCEPT !.items = Tail(items)]
  <2>1. h \in Handler /\ SoundHandler(h)
    <3>1. Tail(items) \in Seq(MessageSet) /\ api[c].op = "requeue"
      BY <1>1, <1>4 DEF RequeueItem
    <3>. QED BY <1>1, <1>2, <3>1 DEF Handler, SoundHandler
  <2>2. api' = [api EXCEPT ![c] = h] /\ UNCHANGED taskQ
    BY <1>4 DEF RequeueItem, TypeInv, TypeOK
  <2>3. api' \in [Clients -> Handler] /\ \A d \in Clients : SoundHandler(api'[d])
    BY <2>1, <2>2, ApiMoves
  <2>. QED
    <3>. HIDE DEF h
    <3>. QED BY <1>2, <2>2, <2>3 DEF TypeInv, TypeOK, rows, budget
<1>5. CASE items # <<>> /\ m.run = api[c].run
  <2>. DEFINE h == [api[c] EXCEPT !.op = "lrem"]
  <2>1. h \in Handler /\ SoundHandler(h)
    BY <1>1, <1>2, <1>5 DEF Handler, SoundHandler
  <2>2. /\ api' = [api EXCEPT ![c] = h]
        /\ taskQ' = [taskQ EXCEPT !["default"] =
                       Append(taskQ["default"], Message(m.run, m.task, m.attempt + 1))]
    BY <1>5 DEF RequeueItem, TypeInv, TypeOK
  <2>3. api' \in [Clients -> Handler] /\ \A d \in Clients : SoundHandler(api'[d])
    BY <2>1, <2>2, ApiMoves
  <2>4. m \in MessageSet
    BY <1>1, <1>5
  <2>5. Message(m.run, m.task, m.attempt + 1) \in MessageSet
    BY <2>4 DEF Message, MessageSet
  <2>. HIDE DEF h, m
  <2>6. taskQ' \in [Lists -> Seq(MessageSet)]
    BY <2>2, <2>5 DEF TypeInv, TypeOK, Lists
  <2>. QED
    BY <1>2, <2>3, <2>6 DEF TypeInv, TypeOK, rows, budget
<1>. QED BY <1>3, <1>4, <1>5

\* What LREM leaves is a sequence over the same set: the least of the
\* positions that hold the item exists.
Less == {p \in Nat \X Nat : p[1] < p[2]}

LEMMA LeastOfSet ==
  ASSUME NEW I \in SUBSET Nat, I # {}
  PROVE  \E i \in I : \A j \in I : i <= j
<1>1. IsWellFoundedOn(Less, Nat)
  BY NatLessThanWellFounded DEF OpToRel, Less
<1>2. PICK i \in I : \A j \in I : <<j, i>> \notin Less
  BY <1>1, WFMin
<1>3. \A j \in I : ~(j < i)
  BY <1>2 DEF Less
<1>. QED BY <1>3

LEMMA RemoveFirstType ==
  ASSUME NEW S, NEW q \in Seq(S), NEW m
  PROVE  RemoveFirst(q, m) \in Seq(S)
<1>. DEFINE I == {i \in 1..Len(q) : q[i] = m}
<1>1. CASE I = {}
  BY <1>1 DEF RemoveFirst
<1>2. CASE I # {}
  <2>1. Min(I) \in I
    <3>1. I \in SUBSET Nat
      OBVIOUS
    <3>. HIDE DEF I
    <3>2. \E x \in I : \A j \in I : x <= j
      BY <1>2, <3>1, LeastOfSet
    <3>. QED BY <3>2, Zenon DEF Min
  <2>2. RemoveFirst(q, m) = RemoveAt(q, Min(I))
    BY <1>2 DEF RemoveFirst, SelectInSeq
  <2>3. \A i \in 1..Len(q) : RemoveAt(q, i) \in Seq(S)
    <3>. SUFFICES ASSUME NEW i \in 1..Len(q)
                  PROVE  SubSeq(q, 1, i-1) \o SubSeq(q, i+1, Len(q)) \in Seq(S)
      BY DEF RemoveAt
    <3>1. SubSeq(q, 1, i-1) \in Seq(S) /\ SubSeq(q, i+1, Len(q)) \in Seq(S)
      BY SubSeqProperties
    <3>. QED BY <3>1, ConcatProperties
  <2>. QED BY <2>1, <2>2, <2>3
<1>. QED BY <1>1, <1>2

LEMMA RemoveItemSound ==
  ASSUME TypeInv, NEW c \in Clients, RemoveItem(c)
  PROVE  TypeInv'
<1>. DEFINE items == api[c].items
            h == [api[c] EXCEPT !.op = "requeue", !.items = Tail(items)]
<1>1. /\ api[c] \in Handler /\ SoundHandler(api[c]) /\ dlq \in Seq(MessageSet)
      /\ api[c].op = "lrem" /\ items # <<>>
  BY DEF RemoveItem, TypeInv, TypeOK, SoundHandler
<1>2. Handler = [op : {"idle", "publish", "cancelTasks", "lrange", "requeue", "lrem"},
                 run : Runs \cup {NoRun}, items : Seq(MessageSet)]
  BY DEF Handler
<1>3. h \in Handler /\ SoundHandler(h)
  <2>1. Tail(items) \in Seq(MessageSet)
    BY <1>1, <1>2
  <2>. QED BY <1>1, <1>2, <2>1 DEF SoundHandler
<1>4. api' = [api EXCEPT ![c] = h] /\ dlq' = RemoveFirst(dlq, Head(items))
  BY DEF RemoveItem, TypeInv, TypeOK
<1>. HIDE DEF h
<1>5. api' \in [Clients -> Handler] /\ \A d \in Clients : SoundHandler(api'[d])
  BY <1>3, <1>4, ApiMoves
<1>6. dlq' \in Seq(MessageSet)
  BY <1>1, <1>4, RemoveFirstType
<1>. QED
  BY <1>5, <1>6 DEF RemoveItem, TypeInv, TypeOK, rows, budget

-----------------------------------------------------------------------------
\* Crashes preserve TypeInv.
LEMMA CrashSound ==
  /\ \A s \in Schedulers : TypeInv /\ SchedulerCrash(s) => TypeInv'
  /\ \A e \in Executors : TypeInv /\ ExecutorCrash(e) => TypeInv'
  /\ \A c \in Clients : TypeInv /\ ClientCrash(c) => TypeInv'
<1>1. ASSUME TypeInv, NEW s \in Schedulers, SchedulerCrash(s) PROVE TypeInv'
  <2>1. sched' \in [Schedulers -> Local] /\ \A t \in Schedulers : Sound(sched'[t])
    BY <1>1, SchedMoves, AtTopSound DEF SchedulerCrash, Restart
  <2>. QED
    BY <1>1, <2>1, BoundsAssumption
    DEF SchedulerCrash, TypeInv, TypeOK, SoundHandler, rows, queues
<1>2. ASSUME TypeInv, NEW e \in Executors, ExecutorCrash(e) PROVE TypeInv'
  BY <1>2, BoundsAssumption DEF ExecutorCrash, TypeInv, TypeOK, SoundHandler, rows, queues
<1>3. ASSUME TypeInv, NEW c \in Clients, ClientCrash(c) PROVE TypeInv'
  <2>1. api' \in [Clients -> Handler] /\ \A d \in Clients : SoundHandler(api'[d])
    BY <1>3, ApiMoves, HandlersSound DEF ClientCrash
  <2>. QED
    BY <1>3, <2>1, BoundsAssumption DEF ClientCrash, TypeInv, TypeOK, rows, queues
<1>. QED BY <1>1, <1>2, <1>3

LEMMA StepSound == TypeInv /\ [Next]_vars => TypeInv'
<1>. SUFFICES ASSUME TypeInv, [Next]_vars PROVE TypeInv'
  OBVIOUS
<1>1. CASE \E s \in Schedulers : SchedulerStep(s) \/ SchedulerCrash(s)
  BY <1>1, SchedulerSound, CrashSound
<1>2. CASE \E e \in Executors : ExecutorStep(e) \/ ExecutorCrash(e)
  BY <1>2, TakeTaskSound, FinishTaskSound, CrashSound DEF ExecutorStep
<1>3. ASSUME NEW c \in Clients, ClientCall(c) PROVE TypeInv'
  BY <1>3, CreateRunSound, CancelRunSound, ReplayDlqSound, SetRunStatusSound DEF ClientCall
<1>4. ASSUME NEW c \in Clients, ClientStep(c) PROVE TypeInv'
  BY <1>4, PublishRunSound, CancelTasksSound, ListDlqSound, RequeueItemSound,
     RemoveItemSound DEF ClientStep
<1>5. CASE UNCHANGED vars
  BY <1>5 DEF vars, TypeInv, TypeOK, SoundHandler
<1>. QED
  BY <1>1, <1>2, <1>3, <1>4, <1>5, CrashSound DEF Next

\* Type correctness: every row, message and local has its type in every
\* reachable state, although statements write what was read earlier and
\* whatever crashes in between.
THEOREM TypeCorrect == Spec => []TypeOK
<1>1. TypeInv => TypeOK
  BY DEF TypeInv
<1>. QED
  BY InitSound, StepSound, <1>1, PTL DEF Spec
=============================================================================
