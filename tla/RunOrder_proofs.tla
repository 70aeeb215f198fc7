--------------------------- MODULE RunOrder_proofs ---------------------------
(***************************************************************************)
(* What one scheduler guarantees about the order of a run, for every plan, *)
(* every number of runs, executors and handlers and every bound, with      *)
(* cancels, status calls, replays and crashes: a SUCCESS stays, work on a  *)
(* task begins after its dependencies, a replay fakes no result, and a run *)
(* gets SUCCESS for tasks at SUCCESS.  With two schedulers the first fails: *)
(* both may pass the check of a transition before either writes.           *)
(***************************************************************************)
EXTENDS RunScheduling_proofs

OneScheduler == \A s, t \in Schedulers : s = t

\* From rows t to rows u no SUCCESS is lost.
Kept(t, u) ==
  \A r \in Runs, k \in Tasks : t[r][k].status = "SUCCESS" => u[r][k].status = "SUCCESS"

\* Work on task k may be under way: the run selects it and what it depends on
\* is at SUCCESS.
May(t, r, k) == k \in Selected(r) /\ \A d \in Deps(r, k) : t[r][d].status = "SUCCESS"

Due(t)         == {m \in MessageSet : May(t, m.run, m.task)}
DueOutcomes(t) == {m \in OutcomeSet : May(t, m.run, m.task)}

\* What a scheduler read to be at SUCCESS still is.
SnapTrue(t, r, snap) ==
  r \in Runs => \A d \in Tasks : snap[d].status = "SUCCESS" => t[r][d].status = "SUCCESS"

Proven(t, r, k)    == ReplayOf[r] # NoRun => t[ReplayOf[r]][k].status = "SUCCESS"
ProvenAll(t, r, K) == \A k \in K : Proven(t, r, k)
AllDone(t, r)      == \A k \in Selected(r) : t[r][k].status = "SUCCESS"

Undoes(t, r, k, st) == t[r][k].status = "SUCCESS" /\ st # "SUCCESS"

Calling(l)    == l.pc \in {"taskSelect", "taskUpdate"}
AtPoint(l, P) == l.pc \in P \/ (Calling(l) /\ l.cont \in P)
Picking(l)    == l.pc = "pick" \/ (AtPoint(l, {"push"}) /\ l.ret = "pick")

(***************************************************************************)
(* The locals of the scheduler against the rows: what it read is still     *)
(* true, what it works on may be worked on, what it is about to write      *)
(* undoes no SUCCESS and claims none that is not there.                    *)
(***************************************************************************)
Order(t, l) ==
  /\ l.pc \in {"pollRuns", "pollDone"} => l.snap = Unread
  /\ SnapTrue(t, l.run, l.snap)
  /\ AtPoint(l, HoldingPoints) => May(t, l.run, l.task)
  /\ Picking(l) => l.todo \subseteq Selected(l.run)
  /\ AtPoint(l, {"initTasks"}) => ProvenAll(t, l.run, l.proven)
  /\ Calling(l) /\ l.status = "SUCCESS" /\ l.task \in Skipped(l.run) => Proven(t, l.run, l.task)
  /\ l.pc = "taskUpdate" => ~Undoes(t, l.run, l.task, l.status)
  /\ l.pc \in {"runSelect", "runUpdate"} /\ l.status = "SUCCESS" => AllDone(t, l.run)

MessagesDue ==
  /\ taskQ \in [Lists -> Seq(Due(task))]
  /\ doneQ \in Seq(DueOutcomes(task))
  /\ dlq \in Seq(Due(task))
  /\ executing \in [Executors -> Due(task) \cup {NoMsg}]
  /\ \A c \in Clients : api[c].items \in Seq(Due(task))

OrderInv ==
  /\ TypeInv
  /\ \A s \in Schedulers : Order(task, sched[s])
  /\ MessagesDue
  /\ ReplayIsProven

-----------------------------------------------------------------------------
LEMMA SeqGrows ==
  ASSUME NEW S, NEW T, S \subseteq T, NEW q \in Seq(S)
  PROVE  q \in Seq(T)
OBVIOUS

LEMMA MayGrows ==
  ASSUME NEW t, NEW u, Kept(t, u), NEW r \in Runs, NEW k, May(t, r, k)
  PROVE  May(u, r, k)
<1>1. k \in Keys(Plan[r]) /\ Deps(r, k) \subseteq Tasks
  BY KeysAreTasks DEF May
<1>. QED
  BY <1>1 DEF May, Kept

LEMMA DueGrows ==
  ASSUME NEW t, NEW u, Kept(t, u)
  PROVE  Due(t) \subseteq Due(u) /\ DueOutcomes(t) \subseteq DueOutcomes(u)
<1>1. \A m \in MessageSet \cup OutcomeSet : m.run \in Runs
  BY DEF MessageSet, OutcomeSet
<1>. QED
  BY <1>1, MayGrows DEF Due, DueOutcomes

\* Rows that keep every SUCCESS leave the messages due.
LEMMA MessagesGrow ==
  ASSUME MessagesDue, Kept(task, task'), UNCHANGED <<taskQ, doneQ, dlq, executing, api>>
  PROVE  MessagesDue'
<1>1. Due(task) \subseteq Due(task') /\ DueOutcomes(task) \subseteq DueOutcomes(task')
  BY DueGrows
<1>2. \A q : q \in Seq(Due(task)) => q \in Seq(Due(task'))
  BY <1>1, SeqGrows
<1>3. doneQ \in Seq(DueOutcomes(task'))
  BY <1>1, SeqGrows DEF MessagesDue
<1>. QED
  BY <1>1, <1>2, <1>3 DEF MessagesDue

LEMMA SnapUnread ==
  ASSUME NEW t, NEW r
  PROVE  SnapTrue(t, r, Unread)
BY DEF SnapTrue, Unread

LEMMA SnapOfStates ==
  ASSUME TypeOK, NEW r \in Runs
  PROVE  SnapTrue(task, r, States(r))
<1>1. ASSUME NEW d \in Tasks, States(r)[d].status = "SUCCESS"
      PROVE  task[r][d].status = "SUCCESS"
  <2>1. task[r][d] \in RowSet
    BY DEF TypeOK
  <2>2. Seen(task[r][d]).status = "SUCCESS"
    BY <1>1 DEF States
  <2>. QED
    BY <2>1, <2>2 DEF Seen, RowSet
<1>. QED
  BY <1>1 DEF SnapTrue

LEMMA AtTopOrder ==
  ASSUME NEW t, NEW label \in {"pollRuns", "pollDone"}
  PROVE  Order(t, AtTop(label))
<1>1. AtTop(label).pc = label /\ AtTop(label).snap = Unread
  BY DEF AtTop
<1>. QED
  BY <1>1, SnapUnread DEF Order, AtPoint, Picking, Calling, HoldingPoints

\* Locals at a label that asks for nothing but the snapshot.
LEMMA PlainOrder ==
  ASSUME NEW t, NEW l, SnapTrue(t, l.run, l.snap),
         l.pc \in {"admit", "cancelAll", "load", "ready", "sync", "syncCancel"}
  PROVE  Order(t, l)
BY DEF Order, AtPoint, Picking, Calling, HoldingPoints

\* Locals about to make a transition of a task.
LEMMA CallOrder ==
  ASSUME NEW t, NEW l, l.pc = "taskSelect", SnapTrue(t, l.run, l.snap),
         l.cont \in HoldingPoints => May(t, l.run, l.task),
         l.cont = "push" /\ l.ret = "pick" => l.todo \subseteq Selected(l.run),
         l.cont = "initTasks" => ProvenAll(t, l.run, l.proven),
         l.status = "SUCCESS" /\ l.task \in Skipped(l.run) => Proven(t, l.run, l.task)
  PROVE  Order(t, l)
BY DEF Order, AtPoint, Picking, Calling, HoldingPoints

\* Locals about to make a transition of a run.
LEMMA RunCallOrder ==
  ASSUME NEW t, NEW s \in Schedulers, Sound(sched[s]), SnapTrue(t, sched[s].run, sched[s].snap),
         NEW st, NEW label, st = "SUCCESS" => AllDone(t, sched[s].run)
  PROVE  Order(t, RunTransition(s, st, label))
<1>. DEFINE m == RunTransition(s, st, label)
<1>1. m.pc = "runSelect" /\ m.status = st /\ m.run = sched[s].run /\ m.snap = sched[s].snap
  BY DEF RunTransition, Sound, Local
<1>2. SnapTrue(t, m.run, m.snap) /\ (m.status = "SUCCESS" => AllDone(t, m.run))
  BY <1>1
<1>. HIDE DEF m
<1>3. ~Calling(m) /\ ~Picking(m) /\ ~AtPoint(m, HoldingPoints) /\ ~AtPoint(m, {"initTasks"})
  BY <1>1 DEF AtPoint, Picking, Calling, HoldingPoints
<1>4. m.pc \notin {"pollRuns", "pollDone", "taskUpdate"}
  BY <1>1
<1>5. Order(t, m)
  BY <1>2, <1>3, <1>4 DEF Order
<1>. QED
  BY <1>5 DEF m

LEMMA CancelAllOrder ==
  ASSUME NEW t, NEW s \in Schedulers, Sound(sched[s]), SnapTrue(t, sched[s].run, sched[s].snap),
         NEW label
  PROVE  Order(t, CancelAll(s, label))
<1>1. /\ CancelAll(s, label).pc = "cancelAll" /\ CancelAll(s, label).run = sched[s].run
      /\ CancelAll(s, label).snap = sched[s].snap
  BY DEF CancelAll, Sound, Local
<1>. QED
  BY <1>1, PlainOrder

\* Locals back at a label without a transition to make.
LEMMA BackOrder ==
  ASSUME NEW t, NEW l, Sound(l), SnapTrue(t, l.run, l.snap),
         NEW label \in {"initTasks", "push", "handle", "sleep", "syncCancel", "pick", "load", "sync"},
         label \in HoldingPoints => May(t, l.run, l.task),
         label = "pick" \/ (label = "push" /\ l.ret = "pick") => l.todo \subseteq Selected(l.run),
         label = "initTasks" => ProvenAll(t, l.run, l.proven)
  PROVE  Order(t, [l EXCEPT !.pc = label])
<1>. DEFINE m == [l EXCEPT !.pc = label]
<1>1. /\ m.pc = label /\ m.run = l.run /\ m.snap = l.snap /\ m.task = l.task /\ m.todo = l.todo
      /\ m.ret = l.ret /\ m.proven = l.proven
  BY DEF Sound, Local
<1>. HIDE DEF m
<1>. QED
  BY <1>1 DEF Order, AtPoint, Picking, Calling, HoldingPoints

LEMMA ArriveOrder ==
  ASSUME NEW t, NEW l, Sound(l), SnapTrue(t, l.run, l.snap),
         NEW label \in {"load", "pollRuns", "pollDone", "sync", "pick"},
         label = "pick" => l.todo \subseteq Selected(l.run)
  PROVE  Order(t, Arrive(l, label))
<1>1. CASE label \in {"pollRuns", "pollDone"}
  BY <1>1, AtTopOrder DEF Arrive
<1>2. CASE label \notin {"pollRuns", "pollDone"}
  BY <1>2, BackOrder DEF Arrive, HoldingPoints
<1>. QED BY <1>1, <1>2

\* A step of the only scheduler that changes no row.
LEMMA MoveOrder ==
  ASSUME OneScheduler, OrderInv, NEW s \in Schedulers, NEW l, Order(task, l), TypeInv',
         sched' = [sched EXCEPT ![s] = l], UNCHANGED task, MessagesDue'
  PROVE  OrderInv'
<1>1. \A v \in Schedulers : sched'[v] = l
  BY DEF OneScheduler, OrderInv, TypeInv, TypeOK
<1>. QED
  BY <1>1 DEF OrderInv, ReplayIsProven

\* One that changes only the locals.
LEMMA StillOrder ==
  ASSUME OneScheduler, OrderInv, NEW s \in Schedulers, NEW l, Order(task, l), TypeInv',
         sched' = [sched EXCEPT ![s] = l], UNCHANGED <<task, taskQ, doneQ, dlq, executing, api>>
  PROVE  OrderInv'
<1>1. Kept(task, task')
  BY DEF Kept
<1>2. MessagesDue'
  BY <1>1, MessagesGrow DEF OrderInv
<1>. QED
  BY <1>2, MoveOrder

-----------------------------------------------------------------------------
\* What is true of rows stays true of rows that keep every SUCCESS.
LEMMA SnapGrows ==
  ASSUME NEW t, NEW u, Kept(t, u), NEW r, NEW snap, SnapTrue(t, r, snap)
  PROVE  SnapTrue(u, r, snap)
BY DEF SnapTrue, Kept

LEMMA ProvenGrows ==
  ASSUME NEW t, NEW u, Kept(t, u), NEW r \in Runs, NEW K \in SUBSET Tasks, ProvenAll(t, r, K)
  PROVE  ProvenAll(u, r, K)
BY PlanAssumption DEF ProvenAll, Proven, Kept

\* Facts about the scheduler that is about to act.
LEMMA Acting ==
  ASSUME OrderInv, NEW s \in Schedulers
  PROVE  /\ TypeInv /\ TypeOK /\ Sound(sched[s]) /\ Order(task, sched[s])
         /\ SnapTrue(task, sched[s].run, sched[s].snap)
BY DEF OrderInv, TypeInv, Order

-----------------------------------------------------------------------------
\* Each action of the only scheduler preserves OrderInv.
LEMMA PopRunOrder ==
  ASSUME OneScheduler, OrderInv, NEW s \in Schedulers, PopRun(s)
  PROVE  OrderInv'
<1>1. TypeInv' /\ TypeInv
  BY PopRunSound DEF OrderInv
<1>2. UNCHANGED <<task, taskQ, doneQ, dlq, executing, api>>
  BY DEF PopRun, rows
<1>3. CASE runQ = <<>>
  BY <1>1, <1>2, <1>3, AtTopOrder, StillOrder DEF PopRun, Restart
<1>4. CASE runQ # <<>>
  <2>. DEFINE l == [sched[s] EXCEPT !.pc = "admit", !.run = Head(runQ)]
  <2>1. sched' = [sched EXCEPT ![s] = l]
    BY <1>1, <1>4 DEF PopRun, TypeInv, TypeOK
  <2>2. l.pc = "admit" /\ l.snap = Unread
    BY <1>1, Acting DEF PopRun, Order, Sound, Local
  <2>. HIDE DEF l
  <2>3. Order(task, l)
    BY <2>2, SnapUnread, PlainOrder
  <2>. QED
    BY <1>1, <1>2, <2>1, <2>3, StillOrder
<1>. QED BY <1>3, <1>4

LEMMA AdmitRunOrder ==
  ASSUME OneScheduler, OrderInv, NEW s \in Schedulers, AdmitRun(s)
  PROVE  OrderInv'
<1>1. TypeInv' /\ UNCHANGED <<task, taskQ, doneQ, dlq, executing, api>>
  BY AdmitRunSound DEF OrderInv, AdmitRun, rows
<1>2. /\ Order(task, CancelAll(s, "pollRuns"))
      /\ Order(task, AtTop("pollDone"))
      /\ Order(task, RunTransition(s, "RUNNING", "load"))
  BY Acting, CancelAllOrder, AtTopOrder, RunCallOrder
<1>3. \/ sched' = [sched EXCEPT ![s] = CancelAll(s, "pollRuns")]
      \/ sched' = [sched EXCEPT ![s] = AtTop("pollDone")]
      \/ sched' = [sched EXCEPT ![s] = RunTransition(s, "RUNNING", "load")]
  BY DEF AdmitRun, Restart
<1>. QED
  BY <1>1, <1>2, <1>3, StillOrder

\* No SUCCESS appears or goes when what remains of a run is cancelled.
LEMMA CancelKeeps ==
  ASSUME TypeOK, NEW r \in Runs, CancelRemaining(r)
  PROVE  /\ Kept(task, task')
         /\ Kept(task', task)
         /\ ReplayIsProven => ReplayIsProven'
<1>1. \A q \in Runs, k \in Tasks : task'[q][k].status = "SUCCESS" <=> task[q][k].status = "SUCCESS"
  <2>. SUFFICES ASSUME NEW q \in Runs, NEW k \in Tasks
                PROVE  task'[q][k].status = "SUCCESS" <=> task[q][k].status = "SUCCESS"
    OBVIOUS
  <2>1. task[q][k] \in RowSet
    BY DEF TypeOK
  <2>. QED
    BY <2>1 DEF CancelRemaining, TypeOK, RowSet
<1>2. \A q \in Runs : Skipped(q) \subseteq Tasks
  BY KeysAreTasks
<1>. QED
  BY <1>1, <1>2, PlanAssumption DEF Kept, ReplayIsProven

LEMMA CancelRunTasksOrder ==
  ASSUME OneScheduler, OrderInv, NEW s \in Schedulers, CancelRunTasks(s)
  PROVE  OrderInv'
<1>. DEFINE l == sched[s]
<1>1. TypeInv' /\ UNCHANGED <<taskQ, doneQ, dlq, executing, api>>
  BY CancelRunTasksSound DEF OrderInv, CancelRunTasks, queues
<1>2. Sound(l) /\ l.run \in Runs /\ l.cont \in AfterAll /\ SnapTrue(task, l.run, l.snap) /\ TypeOK
  BY Acting DEF CancelRunTasks, Sound
<1>3. Kept(task, task') /\ ReplayIsProven'
  BY <1>2, CancelKeeps DEF OrderInv, CancelRunTasks
<1>4. Order(task', Arrive(l, l.cont))
  BY <1>2, <1>3, SnapGrows, ArriveOrder DEF AfterAll
<1>5. \A v \in Schedulers : sched'[v] = Arrive(l, l.cont)
  BY <1>2 DEF OneScheduler, TypeOK, CancelRunTasks
<1>6. MessagesDue'
  BY <1>1, <1>3, MessagesGrow DEF OrderInv
<1>. QED
  BY <1>1, <1>3, <1>4, <1>5, <1>6 DEF OrderInv

LEMMA SelectRunStatusOrder ==
  ASSUME OneScheduler, OrderInv, NEW s \in Schedulers, SelectRunStatus(s)
  PROVE  OrderInv'
<1>. DEFINE l == sched[s]
            l2 == [l EXCEPT !.pc = "runUpdate"]
<1>1. TypeInv' /\ UNCHANGED <<task, taskQ, doneQ, dlq, executing, api>>
  BY SelectRunStatusSound DEF OrderInv, SelectRunStatus, rows, queues
<1>2. /\ Sound(l) /\ l.pc = "runSelect" /\ l.cont \in AfterRun
      /\ SnapTrue(task, l.run, l.snap) /\ (l.status = "SUCCESS" => AllDone(task, l.run))
  BY Acting DEF SelectRunStatus, Sound, Order
<1>3. Order(task, Arrive(l, l.cont))
  BY <1>2, ArriveOrder DEF AfterRun
<1>4. Order(task, l2)
  <2>1. l2.pc = "runUpdate" /\ l2.run = l.run /\ l2.snap = l.snap /\ l2.status = l.status
    BY <1>2 DEF Sound, Local
  <2>. HIDE DEF l2
  <2>2. SnapTrue(task, l2.run, l2.snap) /\ (l2.status = "SUCCESS" => AllDone(task, l2.run))
    BY <1>2, <2>1
  <2>. QED
    BY <2>1, <2>2 DEF Order, AtPoint, Picking, Calling, HoldingPoints
<1>5. \/ sched' = [sched EXCEPT ![s] = l2]
      \/ sched' = [sched EXCEPT ![s] = Arrive(l, l.cont)]
  BY DEF SelectRunStatus
<1>. HIDE DEF l2
<1>. QED
  BY <1>1, <1>3, <1>4, <1>5, StillOrder

LEMMA UpdateRunStatusOrder ==
  ASSUME OneScheduler, OrderInv, NEW s \in Schedulers, UpdateRunStatus(s)
  PROVE  OrderInv'
<1>. DEFINE l == sched[s]
<1>1. TypeInv' /\ UNCHANGED <<task, taskQ, doneQ, dlq, executing, api>>
  BY UpdateRunStatusSound DEF OrderInv, UpdateRunStatus, queues
<1>2. Sound(l) /\ l.cont \in AfterRun /\ SnapTrue(task, l.run, l.snap)
  BY Acting DEF UpdateRunStatus, Sound
<1>3. Order(task, Arrive(l, l.cont))
  BY <1>2, ArriveOrder DEF AfterRun
<1>. QED
  BY <1>1, <1>3, StillOrder DEF UpdateRunStatus

\* What a call is made with holds again where it returns to.
LEMMA ReturnOrder ==
  ASSUME NEW t, NEW u, Kept(t, u), NEW l, Sound(l), Order(t, l), Calling(l)
  PROVE  Order(u, [l EXCEPT !.pc = l.cont])
<1>1. l.run \in Runs /\ l.cont \in AfterTask /\ l.proven \in SUBSET Tasks
  BY DEF Sound, Calling, Local
<1>2. SnapTrue(u, l.run, l.snap)
  BY SnapGrows DEF Order
<1>3. l.cont \in HoldingPoints => May(u, l.run, l.task)
  BY <1>1, MayGrows DEF Order, AtPoint
<1>4. l.cont = "push" /\ l.ret = "pick" => l.todo \subseteq Selected(l.run)
  BY DEF Order, AtPoint, Picking
<1>5. l.cont = "initTasks" => ProvenAll(u, l.run, l.proven)
  BY <1>1, ProvenGrows DEF Order, AtPoint
<1>. QED
  BY <1>1, <1>2, <1>3, <1>4, <1>5, BackOrder DEF AfterTask

LEMMA SelectTaskStatusOrder ==
  ASSUME OneScheduler, OrderInv, NEW s \in Schedulers, SelectTaskStatus(s)
  PROVE  OrderInv'
<1>. DEFINE l == sched[s]
            l2 == [l EXCEPT !.pc = "taskUpdate"]
<1>1. TypeInv' /\ UNCHANGED <<task, taskQ, doneQ, dlq, executing, api>>
  BY SelectTaskStatusSound DEF OrderInv, SelectTaskStatus, rows, queues
<1>2. Sound(l) /\ l.pc = "taskSelect" /\ Order(task, l)
  BY Acting DEF SelectTaskStatus
<1>3. Order(task, [l EXCEPT !.pc = l.cont])
  BY <1>2, ReturnOrder DEF Kept, Calling
<1>4. CASE Undoes(task, l.run, l.task, l.status)
  <2>1. l.status \notin TaskAllowed(task[l.run][l.task].status)
        /\ task[l.run][l.task].status # "none"
    BY <1>4 DEF Undoes, TaskAllowed
  <2>2. sched' = [sched EXCEPT ![s] = [l EXCEPT !.pc = l.cont]]
    BY <2>1 DEF SelectTaskStatus
  <2>. QED
    BY <1>1, <1>3, <2>2, StillOrder
<1>5. CASE ~Undoes(task, l.run, l.task, l.status)
  <2>1. Order(task, l2)
    <3>1. /\ l2.pc = "taskUpdate" /\ l2.run = l.run /\ l2.snap = l.snap /\ l2.status = l.status
          /\ l2.task = l.task /\ l2.todo = l.todo /\ l2.cont = l.cont /\ l2.ret = l.ret
          /\ l2.proven = l.proven
      BY <1>2 DEF Sound, Local
    <3>. HIDE DEF l2
    <3>2. /\ SnapTrue(task, l2.run, l2.snap)
          /\ l2.cont \in HoldingPoints => May(task, l2.run, l2.task)
          /\ l2.cont = "push" /\ l2.ret = "pick" => l2.todo \subseteq Selected(l2.run)
          /\ l2.cont = "initTasks" => ProvenAll(task, l2.run, l2.proven)
          /\ l2.status = "SUCCESS" /\ l2.task \in Skipped(l2.run) => Proven(task, l2.run, l2.task)
          /\ ~Undoes(task, l2.run, l2.task, l2.status)
      BY <1>2, <1>5, <3>1 DEF Order, AtPoint, Picking, Calling
    <3>. QED
      BY <3>1, <3>2 DEF Order, AtPoint, Picking, Calling, HoldingPoints
  <2>2. \/ sched' = [sched EXCEPT ![s] = l2]
        \/ sched' = [sched EXCEPT ![s] = [l EXCEPT !.pc = l.cont]]
    BY DEF SelectTaskStatus
  <2>. HIDE DEF l2
  <2>. QED
    BY <1>1, <1>3, <2>1, <2>2, StillOrder
<1>. QED BY <1>4, <1>5

\* The write that the check let pass: no SUCCESS is undone and none faked.
LEMMA UpsertKeeps ==
  ASSUME OrderInv, NEW s \in Schedulers, UpsertTask(s)
  PROVE  Kept(task, task') /\ ReplayIsProven'
<1>. DEFINE l == sched[s]
<1>1. /\ Sound(l) /\ l.pc = "taskUpdate" /\ l.run \in Runs /\ l.task \in Tasks
      /\ ~Undoes(task, l.run, l.task, l.status)
      /\ l.status = "SUCCESS" /\ l.task \in Skipped(l.run) => Proven(task, l.run, l.task)
  BY Acting DEF UpsertTask, Sound, Order, Calling
<1>2. \A r \in Runs, k \in Tasks :
        task'[r][k].status = IF r = l.run /\ k = l.task THEN l.status ELSE task[r][k].status
  BY <1>1 DEF UpsertTask, OrderInv, TypeInv, TypeOK
<1>3. Kept(task, task')
  BY <1>1, <1>2 DEF Kept, Undoes
<1>4. ASSUME NEW r \in Runs, ReplayOf[r] # NoRun, NEW k \in Skipped(r),
             task'[r][k].status = "SUCCESS"
      PROVE  task'[ReplayOf[r]][k].status = "SUCCESS"
  <2>1. k \in Tasks /\ ReplayOf[r] \in Runs
    BY <1>4, KeysAreTasks, PlanAssumption
  <2>2. task[ReplayOf[r]][k].status = "SUCCESS"
    <3>1. CASE r = l.run /\ k = l.task
      BY <1>1, <1>2, <1>4, <2>1, <3>1 DEF Proven
    <3>2. CASE ~(r = l.run /\ k = l.task)
      BY <1>2, <1>4, <2>1, <3>2 DEF OrderInv, ReplayIsProven
    <3>. QED BY <3>1, <3>2
  <2>. QED
    BY <1>3, <2>1, <2>2 DEF Kept
<1>. QED
  BY <1>3, <1>4 DEF ReplayIsProven

LEMMA UpsertTaskOrder ==
  ASSUME OneScheduler, OrderInv, NEW s \in Schedulers, UpsertTask(s)
  PROVE  OrderInv'
<1>. DEFINE l == sched[s]
<1>1. TypeInv' /\ UNCHANGED <<taskQ, doneQ, dlq, executing, api>>
  BY UpsertTaskSound DEF OrderInv, UpsertTask, queues
<1>2. Sound(l) /\ Calling(l) /\ Order(task, l) /\ TypeOK
  BY Acting DEF UpsertTask, Calling
<1>3. Kept(task, task') /\ ReplayIsProven'
  BY UpsertKeeps
<1>4. Order(task', [l EXCEPT !.pc = l.cont])
  BY <1>2, <1>3, ReturnOrder
<1>5. \A v \in Schedulers : sched'[v] = [l EXCEPT !.pc = l.cont]
  BY <1>2 DEF OneScheduler, TypeOK, UpsertTask, Goto
<1>6. MessagesDue'
  BY <1>1, <1>3, MessagesGrow DEF OrderInv
<1>. QED
  BY <1>1, <1>3, <1>4, <1>5, <1>6 DEF OrderInv

\* The plan is loaded with the rows of the parent as they are now.
LEMMA LoadPlanOrder ==
  ASSUME OneScheduler, OrderInv, NEW s \in Schedulers, LoadPlan(s)
  PROVE  OrderInv'
<1>. DEFINE r == sched[s].run
            K == IF ReplayOf[r] = NoRun THEN Keys(Plan[r])
                 ELSE {k \in Evidence[r] : task[ReplayOf[r]][k].status = "SUCCESS"}
            l == [sched[s] EXCEPT !.pc = "initTasks", !.todo = Keys(Plan[r]), !.proven = K]
<1>1. TypeInv' /\ UNCHANGED <<task, taskQ, doneQ, dlq, executing, api>>
  BY LoadPlanSound DEF OrderInv, LoadPlan, rows, queues
<1>2. Sound(sched[s]) /\ SnapTrue(task, r, sched[s].snap) /\ TypeOK
  BY Acting
<1>3. ProvenAll(task, r, K)
  BY DEF ProvenAll, Proven
<1>4. sched' = [sched EXCEPT ![s] = l]
  BY <1>2 DEF LoadPlan, TypeOK
<1>. HIDE DEF K
<1>5. l.pc = "initTasks" /\ l.run = r /\ l.snap = sched[s].snap /\ l.proven = K
  BY <1>2 DEF Sound, Local
<1>. HIDE DEF l
<1>6. SnapTrue(task, l.run, l.snap) /\ ProvenAll(task, l.run, l.proven)
  BY <1>2, <1>3, <1>5
<1>7. Order(task, l)
  BY <1>5, <1>6 DEF Order, AtPoint, Picking, Calling, HoldingPoints
<1>. QED
  BY <1>1, <1>4, <1>7, StillOrder

LEMMA InitTaskOrder ==
  ASSUME OneScheduler, OrderInv, NEW s \in Schedulers, InitTask(s)
  PROVE  OrderInv'
<1>. DEFINE o == sched[s]
            st(k) == IF k \in Selected(o.run) THEN "PENDING"
                     ELSE IF k \in o.proven THEN "SUCCESS" ELSE "FAILED"
            l(k) == [Upsert(s, k, st(k), 1, "initTasks") EXCEPT !.todo = o.todo \ {k}]
<1>1. TypeInv' /\ UNCHANGED <<task, taskQ, doneQ, dlq, executing, api>>
  BY InitTaskSound DEF OrderInv, InitTask, rows, queues
<1>2. Sound(o) /\ SnapTrue(task, o.run, o.snap) /\ ProvenAll(task, o.run, o.proven)
  BY Acting DEF InitTask, Order, AtPoint
<1>3. PICK k \in o.todo : sched' = [sched EXCEPT ![s] = l(k)]
  BY DEF InitTask
<1>4. st(k) = "SUCCESS" /\ k \in Skipped(o.run) => Proven(task, o.run, k)
  BY <1>2 DEF ProvenAll
<1>. HIDE DEF st
<1>5. /\ l(k).pc = "taskSelect" /\ l(k).run = o.run /\ l(k).snap = o.snap /\ l(k).task = k
      /\ l(k).status = st(k) /\ l(k).cont = "initTasks" /\ l(k).proven = o.proven
  BY <1>2 DEF Upsert, Sound, Local
<1>. HIDE DEF l
<1>6. Order(task, l(k))
  BY <1>2, <1>4, <1>5, CallOrder DEF HoldingPoints
<1>. QED
  BY <1>1, <1>3, <1>6, StillOrder

LEMMA FinishInitOrder ==
  ASSUME OneScheduler, OrderInv, NEW s \in Schedulers, FinishInit(s)
  PROVE  OrderInv'
<1>. DEFINE l == [sched[s] EXCEPT !.pc = "ready", !.after = "pollDone"]
<1>1. TypeInv' /\ UNCHANGED <<task, taskQ, doneQ, dlq, executing, api>>
  BY FinishInitSound DEF OrderInv, FinishInit, rows, queues
<1>2. Sound(sched[s]) /\ SnapTrue(task, sched[s].run, sched[s].snap) /\ TypeOK
  BY Acting
<1>3. Order(task, RunTransition(s, "FAILED", "pollRuns"))
  BY <1>2, RunCallOrder
<1>4. l.pc = "ready" /\ l.run = sched[s].run /\ l.snap = sched[s].snap
  BY <1>2 DEF Sound, Local
<1>5. \/ sched' = [sched EXCEPT ![s] = l]
      \/ sched' = [sched EXCEPT ![s] = RunTransition(s, "FAILED", "pollRuns")]
  BY <1>2 DEF FinishInit, TypeOK
<1>. HIDE DEF l
<1>6. Order(task, l)
  BY <1>2, <1>4, PlainOrder
<1>. QED
  BY <1>1, <1>3, <1>5, <1>6, StillOrder

LEMMA ReadStatesOrder ==
  ASSUME OneScheduler, OrderInv, NEW s \in Schedulers, ReadStates(s)
  PROVE  OrderInv'
<1>. DEFINE o == sched[s]
            l == [o EXCEPT !.pc = "pick", !.snap = States(o.run), !.todo = Selected(o.run)]
<1>1. TypeInv' /\ UNCHANGED <<task, taskQ, doneQ, dlq, executing, api>>
  BY ReadStatesSound DEF OrderInv, ReadStates, rows, queues
<1>2. Sound(o) /\ SnapTrue(task, o.run, o.snap) /\ TypeOK /\ o.run \in Runs
  BY Acting DEF ReadStates, Sound
<1>3. Order(task, CancelAll(s, o.after))
  BY <1>2, CancelAllOrder
<1>4. /\ l.pc = "pick" /\ l.run = o.run /\ l.snap = States(o.run) /\ l.todo = Selected(o.run)
  BY <1>2 DEF Sound, Local
<1>5. \/ sched' = [sched EXCEPT ![s] = l]
      \/ sched' = [sched EXCEPT ![s] = CancelAll(s, o.after)]
  BY <1>2 DEF ReadStates, TypeOK
<1>. HIDE DEF l
<1>6. SnapTrue(task, l.run, l.snap)
  BY <1>2, <1>4, SnapOfStates
<1>7. Order(task, l)
  BY <1>4, <1>6 DEF Order, AtPoint, Picking, Calling, HoldingPoints
<1>. QED
  BY <1>1, <1>3, <1>5, <1>7, StillOrder

\* A task is picked from what was read at the head of the loop.
LEMMA PickReadyOrder ==
  ASSUME OneScheduler, OrderInv, NEW s \in Schedulers, PickReady(s)
  PROVE  OrderInv'
<1>. DEFINE o == sched[s]
            R == Ready(o.run, o.snap, o.todo)
            l(k) == [Upsert(s, k, Dispatched, o.snap[k].attempt, "push")
                       EXCEPT !.todo = {j \in o.todo : j > k}, !.ret = "pick"]
<1>1. TypeInv' /\ UNCHANGED <<task, taskQ, doneQ, dlq, executing, api>>
  BY PickReadySound DEF OrderInv, PickReady, rows, queues
<1>2. /\ Sound(o) /\ SnapTrue(task, o.run, o.snap) /\ o.todo \subseteq Selected(o.run)
      /\ o.run \in Runs /\ o.after \in AfterAll
  BY Acting DEF PickReady, Order, Picking, Sound, Local, AfterAll
<1>3. CASE sched' = [sched EXCEPT ![s] = Arrive(o, o.after)]
  <2>1. Order(task, Arrive(o, o.after))
    BY <1>2, ArriveOrder DEF AfterAll
  <2>. QED
    BY <1>1, <1>3, <2>1, StillOrder
<1>4. CASE \E k \in R : sched' = [sched EXCEPT ![s] = l(k)]
  <2>1. PICK k \in R : sched' = [sched EXCEPT ![s] = l(k)]
    BY <1>4
  <2>2. k \in o.todo /\ k \in Selected(o.run)
    BY <1>2, <2>1 DEF Ready
  <2>3. May(task, o.run, k)
    <3>1. \A d \in Deps(o.run, k) : o.snap[d].status = "SUCCESS"
      BY <2>1 DEF Ready
    <3>2. Deps(o.run, k) \subseteq Tasks
      BY <1>2, <2>2, KeysAreTasks
    <3>. QED
      BY <1>2, <2>2, <3>1, <3>2 DEF May, SnapTrue
  <2>4. /\ l(k).pc = "taskSelect" /\ l(k).run = o.run /\ l(k).snap = o.snap /\ l(k).task = k
        /\ l(k).status = Dispatched /\ l(k).cont = "push"
    BY <1>2 DEF Upsert, Sound, Local
  <2>6. l(k).todo \subseteq o.todo
    <3>1. l(k).todo = {j \in o.todo : j > k}
      BY <1>2 DEF Upsert, Sound, Local
    <3>. QED
      BY <3>1, Zenon
  <2>. HIDE DEF l
  <2>5. Order(task, l(k))
    BY <1>2, <2>3, <2>4, <2>6, CallOrder DEF HoldingPoints, Dispatched
  <2>. QED
    BY <1>1, <2>1, <2>5, StillOrder
<1>. QED BY <1>3, <1>4 DEF PickReady

LEMMA AppendToList ==
  ASSUME NEW S, NEW q \in [Lists -> Seq(S)], NEW k \in Lists, NEW m \in S
  PROVE  [q EXCEPT ![k] = Append(@, m)] \in [Lists -> Seq(S)]
<1>1. Append(q[k], m) \in Seq(S)
  OBVIOUS
<1>. QED BY <1>1

\* A message for a task that may be worked on is due.
LEMMA MessageIsDue ==
  ASSUME NEW l, Sound(l), l.pc \in HoldingPoints, Order(task, l)
  PROVE  Message(l.run, l.task, l.attempt) \in Due(task) /\ l.run \in Runs
<1>1. l.run \in Runs /\ l.task \in Tasks /\ l.attempt \in Nat /\ May(task, l.run, l.task)
  BY DEF Sound, Local, Order, AtPoint, HoldingPoints
<1>. QED
  BY <1>1 DEF Message, MessageSet, Due

LEMMA PushTaskOrder ==
  ASSUME OneScheduler, OrderInv, NEW s \in Schedulers, PushTask(s)
  PROVE  OrderInv'
<1>. DEFINE l == sched[s]
            m == Message(l.run, l.task, l.attempt)
<1>1. TypeInv' /\ UNCHANGED <<task, doneQ, dlq, executing, api>>
  BY PushTaskSound DEF OrderInv, PushTask, rows
<1>2. Sound(l) /\ l.pc = "push" /\ Order(task, l) /\ l.ret \in {"pick", "pollRuns"}
  BY Acting DEF PushTask, Sound, Local
<1>3. m \in Due(task) /\ l.run \in Runs
  BY <1>2, MessageIsDue DEF HoldingPoints
<1>4. Order(task, Arrive(l, l.ret))
  <2>1. SnapTrue(task, l.run, l.snap) /\ (l.ret = "pick" => l.todo \subseteq Selected(l.run))
    BY <1>2 DEF Order, AtPoint, Picking
  <2>. QED
    BY <1>2, <2>1, ArriveOrder
<1>. HIDE DEF m
<1>5. taskQ' \in [Lists -> Seq(Due(task))]
  <2>1. taskQ \in [Lists -> Seq(Due(task))]
    BY DEF OrderInv, MessagesDue
  <2>2. taskQ' = taskQ \/ taskQ' = [taskQ EXCEPT ![Queue[l.run]] = Append(@, m)]
    BY DEF PushTask, m
  <2>. QED
    <3>1. Queue[l.run] \in Lists
      BY <1>3, PlanAssumption
    <3>2. [taskQ EXCEPT ![Queue[l.run]] = Append(@, m)] \in [Lists -> Seq(Due(task))]
      BY <1>3, <2>1, <3>1, AppendToList
    <3>. QED
      BY <2>1, <2>2, <3>2
<1>6. MessagesDue'
  BY <1>1, <1>5 DEF OrderInv, MessagesDue, Due, DueOutcomes, May
<1>. QED
  BY <1>1, <1>4, <1>6, MoveOrder DEF PushTask

\* The outcome of a task that is due is handled with nothing read before.
LEMMA PopDoneOrder ==
  ASSUME OneScheduler, OrderInv, NEW s \in Schedulers, PopDone(s)
  PROVE  OrderInv'
<1>1. TypeInv' /\ UNCHANGED <<task, taskQ, dlq, executing, api>>
  BY PopDoneSound DEF OrderInv, PopDone, rows
<1>2. doneQ \in Seq(DueOutcomes(task))
  BY DEF OrderInv, MessagesDue
<1>3. CASE doneQ = <<>>
  BY <1>1, <1>3, AtTopOrder, StillOrder DEF PopDone, Restart
<1>4. CASE doneQ # <<>>
  <2>. DEFINE m == Head(doneQ)
              l == [Upsert(s, m.task, m.status, m.attempt, "handle")
                      EXCEPT !.run = m.run, !.after = "sync"]
  <2>1. sched' = [sched EXCEPT ![s] = l] /\ doneQ' = Tail(doneQ)
    BY <1>4 DEF PopDone
  <2>2. m \in DueOutcomes(task) /\ Tail(doneQ) \in Seq(DueOutcomes(task))
    BY <1>2, <1>4
  <2>3. May(task, m.run, m.task) /\ m.task \notin Skipped(m.run)
    BY <2>2 DEF DueOutcomes, May, Selected, Skipped, SkippedKeys
  <2>4. Sound(sched[s]) /\ sched[s].snap = Unread
    BY Acting DEF PopDone, Order
  <2>. HIDE DEF m
  <2>5. /\ l.pc = "taskSelect" /\ l.run = m.run /\ l.snap = Unread /\ l.task = m.task
        /\ l.status = m.status /\ l.cont = "handle"
    BY <2>4 DEF Upsert, Sound, Local
  <2>. HIDE DEF l
  <2>6. Order(task, l)
    BY <2>3, <2>5, SnapUnread, CallOrder
  <2>7. doneQ' \in Seq(DueOutcomes(task))
    BY <2>1, <2>2
  <2>8. MessagesDue'
    BY <1>1, <2>7 DEF OrderInv, MessagesDue, Due, DueOutcomes, May
  <2>. QED
    BY <1>1, <2>1, <2>6, <2>8, MoveOrder
<1>. QED BY <1>3, <1>4

LEMMA HandleSuccessOrder ==
  ASSUME OneScheduler, OrderInv, NEW s \in Schedulers, HandleSuccess(s)
  PROVE  OrderInv'
<1>. DEFINE l == [sched[s] EXCEPT !.pc = "ready"]
<1>1. TypeInv' /\ UNCHANGED <<task, taskQ, doneQ, dlq, executing, api>>
  BY HandleSuccessSound DEF OrderInv, HandleSuccess, rows, queues
<1>2. Sound(sched[s]) /\ SnapTrue(task, sched[s].run, sched[s].snap) /\ TypeOK
  BY Acting
<1>3. Order(task, CancelAll(s, "pollRuns"))
  BY <1>2, CancelAllOrder
<1>4. l.pc = "ready" /\ l.run = sched[s].run /\ l.snap = sched[s].snap
  BY <1>2 DEF Sound, Local
<1>5. \/ sched' = [sched EXCEPT ![s] = CancelAll(s, "pollRuns")]
      \/ sched' = [sched EXCEPT ![s] = l]
  BY <1>2 DEF HandleSuccess, Goto, TypeOK
<1>. HIDE DEF l
<1>6. Order(task, l)
  BY <1>2, <1>4, PlainOrder
<1>. QED
  BY <1>1, <1>3, <1>5, <1>6, StillOrder

\* The retries work on the task that was handled.
LEMMA HandleRetryOrder ==
  ASSUME OneScheduler, OrderInv, NEW s \in Schedulers, HandleRetry(s)
  PROVE  OrderInv'
<1>. DEFINE o == sched[s]
            l == Upsert(s, o.task, "RETRY", o.attempt + 1, "sleep")
<1>1. TypeInv' /\ UNCHANGED <<task, taskQ, doneQ, dlq, executing, api>>
  BY HandleRetrySound DEF OrderInv, HandleRetry, rows, queues
<1>2. Sound(o) /\ SnapTrue(task, o.run, o.snap) /\ May(task, o.run, o.task)
  BY Acting DEF HandleRetry, Order, AtPoint, HoldingPoints
<1>3. sched' = [sched EXCEPT ![s] = l]
  BY DEF HandleRetry
<1>4. /\ l.pc = "taskSelect" /\ l.run = o.run /\ l.snap = o.snap /\ l.task = o.task
      /\ l.status = "RETRY" /\ l.cont = "sleep"
  BY <1>2 DEF Upsert, Sound, Local
<1>. HIDE DEF l
<1>5. Order(task, l)
  BY <1>2, <1>4, CallOrder
<1>. QED
  BY <1>1, <1>3, <1>5, StillOrder

LEMMA WakeUpOrder ==
  ASSUME OneScheduler, OrderInv, NEW s \in Schedulers, WakeUp(s)
  PROVE  OrderInv'
<1>. DEFINE o == sched[s]
            l == [Upsert(s, o.task, Dispatched, o.attempt, "push") EXCEPT !.ret = "pollRuns"]
<1>1. TypeInv' /\ UNCHANGED <<task, taskQ, doneQ, dlq, executing, api>>
  BY WakeUpSound DEF OrderInv, WakeUp, rows, queues
<1>2. Sound(o) /\ SnapTrue(task, o.run, o.snap) /\ May(task, o.run, o.task)
  BY Acting DEF WakeUp, Order, AtPoint, HoldingPoints
<1>3. sched' = [sched EXCEPT ![s] = l]
  BY DEF WakeUp
<1>4. /\ l.pc = "taskSelect" /\ l.run = o.run /\ l.snap = o.snap /\ l.task = o.task
      /\ l.status = Dispatched /\ l.cont = "push" /\ l.ret = "pollRuns"
  BY <1>2 DEF Upsert, Sound, Local
<1>. HIDE DEF l
<1>5. Order(task, l)
  BY <1>2, <1>4, CallOrder DEF Dispatched
<1>. QED
  BY <1>1, <1>3, <1>5, StillOrder

LEMMA HandleDeadOrder ==
  ASSUME OneScheduler, OrderInv, NEW s \in Schedulers, HandleDead(s)
  PROVE  OrderInv'
<1>. DEFINE o == sched[s]
            l == [o EXCEPT !.pc = "sync"]
            m == Message(o.run, o.task, o.attempt)
<1>1. TypeInv' /\ UNCHANGED <<task, taskQ, doneQ, executing, api>>
  BY HandleDeadSound DEF OrderInv, HandleDead, rows
<1>2. Sound(o) /\ Order(task, o) /\ o.pc = "handle" /\ SnapTrue(task, o.run, o.snap) /\ TypeOK
  BY Acting DEF HandleDead
<1>3. m \in Due(task)
  BY <1>2, MessageIsDue DEF HoldingPoints
<1>4. sched' = [sched EXCEPT ![s] = l] /\ dlq' = Append(dlq, m)
  BY <1>2 DEF HandleDead, Goto, TypeOK
<1>5. l.pc = "sync" /\ l.run = o.run /\ l.snap = o.snap
  BY <1>2 DEF Sound, Local
<1>. HIDE DEF l, m
<1>6. Order(task, l)
  BY <1>2, <1>5, PlainOrder
<1>7. dlq' \in Seq(Due(task))
  BY <1>3, <1>4 DEF OrderInv, MessagesDue
<1>8. MessagesDue'
  BY <1>1, <1>7 DEF OrderInv, MessagesDue, Due, DueOutcomes, May
<1>. QED
  BY <1>1, <1>4, <1>6, <1>8, MoveOrder

LEMMA SyncReadOrder ==
  ASSUME OneScheduler, OrderInv, NEW s \in Schedulers, SyncRead(s)
  PROVE  OrderInv'
<1>. DEFINE o == sched[s]
            l == [o EXCEPT !.pc = "syncCancel", !.snap = States(o.run),
                           !.todo = Unreachable(o.run, States(o.run))]
<1>1. TypeInv' /\ UNCHANGED <<task, taskQ, doneQ, dlq, executing, api>>
  BY SyncReadSound DEF OrderInv, SyncRead, rows, queues
<1>2. Sound(o) /\ TypeOK /\ o.run \in Runs
  BY Acting DEF SyncRead, Sound
<1>3. sched' = [sched EXCEPT ![s] = l]
  BY <1>2 DEF SyncRead, TypeOK
<1>4. l.pc = "syncCancel" /\ l.run = o.run /\ l.snap = States(o.run)
  BY <1>2 DEF Sound, Local
<1>. HIDE DEF l
<1>5. Order(task, l)
  BY <1>2, <1>4, SnapOfStates, PlainOrder
<1>. QED
  BY <1>1, <1>3, <1>5, StillOrder

LEMMA SyncCancelOrder ==
  ASSUME OneScheduler, OrderInv, NEW s \in Schedulers, SyncCancel(s)
  PROVE  OrderInv'
<1>. DEFINE o == sched[s]
            l(k) == [Upsert(s, k, "CANCELLED", o.snap[k].attempt, "syncCancel")
                       EXCEPT !.todo = o.todo \ {k}]
<1>1. TypeInv' /\ UNCHANGED <<task, taskQ, doneQ, dlq, executing, api>>
  BY SyncCancelSound DEF OrderInv, SyncCancel, rows, queues
<1>2. Sound(o) /\ SnapTrue(task, o.run, o.snap)
  BY Acting
<1>3. PICK k \in o.todo : sched' = [sched EXCEPT ![s] = l(k)]
  BY DEF SyncCancel
<1>4. /\ l(k).pc = "taskSelect" /\ l(k).run = o.run /\ l(k).snap = o.snap
      /\ l(k).status = "CANCELLED" /\ l(k).cont = "syncCancel"
  BY <1>2 DEF Upsert, Sound, Local
<1>. HIDE DEF l
<1>5. Order(task, l(k))
  BY <1>2, <1>4, CallOrder DEF HoldingPoints
<1>. QED
  BY <1>1, <1>3, <1>5, StillOrder

\* SUCCESS is the verdict only over states that are all SUCCESS still.
LEMMA SyncVerdictOrder ==
  ASSUME OneScheduler, OrderInv, NEW s \in Schedulers, SyncVerdict(s)
  PROVE  OrderInv'
<1>. DEFINE o == sched[s]
            found == {o.snap[k].status : k \in Selected(o.run)}
<1>1. TypeInv' /\ UNCHANGED <<task, taskQ, doneQ, dlq, executing, api>>
  BY SyncVerdictSound DEF OrderInv, SyncVerdict, rows, queues
<1>2. Sound(o) /\ SnapTrue(task, o.run, o.snap) /\ o.run \in Runs
  BY Acting DEF SyncVerdict, Sound
<1>3. Order(task, RunTransition(s, "FAILED", "pollRuns")) /\ Order(task, AtTop("pollRuns"))
  BY <1>2, RunCallOrder, AtTopOrder
<1>4. CASE found = {"SUCCESS"}
  <2>1. Selected(o.run) \subseteq Tasks
    BY <1>2, KeysAreTasks
  <2>2. AllDone(task, o.run)
    BY <1>2, <1>4, <2>1 DEF AllDone, SnapTrue
  <2>3. Order(task, RunTransition(s, "SUCCESS", "pollRuns"))
    BY <1>2, <2>2, RunCallOrder
  <2>4. sched' = [sched EXCEPT ![s] = RunTransition(s, "SUCCESS", "pollRuns")]
    BY <1>4 DEF SyncVerdict
  <2>. QED
    BY <1>1, <2>3, <2>4, StillOrder
<1>5. CASE found # {"SUCCESS"}
  <2>1. \/ sched' = [sched EXCEPT ![s] = RunTransition(s, "FAILED", "pollRuns")]
        \/ sched' = [sched EXCEPT ![s] = AtTop("pollRuns")]
    BY <1>5 DEF SyncVerdict
  <2>. QED
    BY <1>1, <1>3, <2>1, StillOrder
<1>. QED BY <1>4, <1>5

LEMMA SchedulerOrder ==
  ASSUME OneScheduler, OrderInv, NEW s \in Schedulers, SchedulerStep(s)
  PROVE  OrderInv'
BY PopRunOrder, AdmitRunOrder, CancelRunTasksOrder, SelectRunStatusOrder,
   UpdateRunStatusOrder, SelectTaskStatusOrder, UpsertTaskOrder, LoadPlanOrder,
   InitTaskOrder, FinishInitOrder, ReadStatesOrder, PickReadyOrder, PushTaskOrder,
   PopDoneOrder, HandleSuccessOrder, HandleRetryOrder, WakeUpOrder, HandleDeadOrder,
   SyncReadOrder, SyncCancelOrder, SyncVerdictOrder
DEF SchedulerStep

-----------------------------------------------------------------------------
\* Steps that do not concern the scheduler: the locals stay, no row loses a
\* SUCCESS and what is about to be written undoes none.
LEMMA BesideOrder ==
  ASSUME OrderInv, TypeInv', UNCHANGED sched, Kept(task, task'), ReplayIsProven', MessagesDue',
         \A s \in Schedulers : sched[s].pc = "taskUpdate" =>
           ~Undoes(task', sched[s].run, sched[s].task, sched[s].status)
  PROVE  OrderInv'
<1>. SUFFICES ASSUME NEW s \in Schedulers PROVE Order(task', sched[s])
  BY DEF OrderInv
<1>. DEFINE l == sched[s]
<1>1. Order(task, l) /\ Sound(l)
  BY Acting
<1>2. SnapTrue(task', l.run, l.snap)
  BY <1>1, SnapGrows DEF Order
<1>3. l.proven \in SUBSET Tasks /\ (l.pc \notin {"pollRuns", "pollDone"} => l.run \in Runs)
  BY <1>1 DEF Sound, Local
<1>4. AtPoint(l, HoldingPoints) => May(task', l.run, l.task)
  <2>1. AtPoint(l, HoldingPoints) => l.pc \notin {"pollRuns", "pollDone"}
    BY DEF AtPoint, HoldingPoints, Calling
  <2>. QED
    BY <1>1, <1>3, <2>1, MayGrows DEF Order
<1>5. AtPoint(l, {"initTasks"}) => ProvenAll(task', l.run, l.proven)
  <2>1. AtPoint(l, {"initTasks"}) => l.pc \notin {"pollRuns", "pollDone"}
    BY DEF AtPoint, Calling
  <2>. QED
    BY <1>1, <1>3, <2>1, ProvenGrows DEF Order
<1>6. Calling(l) /\ l.status = "SUCCESS" /\ l.task \in Skipped(l.run) => Proven(task', l.run, l.task)
  <2>1. Calling(l) => l.run \in Runs /\ l.task \in Tasks
    BY <1>1 DEF Calling, Sound
  <2>. QED
    BY <1>1, <2>1, PlanAssumption DEF Order, Proven, Kept
<1>7. l.pc = "taskUpdate" => ~Undoes(task', l.run, l.task, l.status)
  OBVIOUS
<1>8. l.pc \in {"runSelect", "runUpdate"} /\ l.status = "SUCCESS" => AllDone(task', l.run)
  <2>1. l.pc \in {"runSelect", "runUpdate"} => l.run \in Runs /\ Selected(l.run) \subseteq Tasks
    BY <1>1, KeysAreTasks DEF Sound
  <2>. QED
    BY <1>1, <2>1 DEF Order, AllDone, Kept
<1>. QED
  BY <1>1, <1>2, <1>4, <1>5, <1>6, <1>7, <1>8 DEF Order

\* Those that bring no row to SUCCESS either.
LEMMA OthersOrder ==
  ASSUME OrderInv, TypeInv', UNCHANGED sched, Kept(task, task'), Kept(task', task),
         ReplayIsProven', MessagesDue'
  PROVE  OrderInv'
<1>1. ASSUME NEW s \in Schedulers, sched[s].pc = "taskUpdate"
      PROVE  ~Undoes(task', sched[s].run, sched[s].task, sched[s].status)
  <2>1. sched[s].run \in Runs /\ sched[s].task \in Tasks /\ Order(task, sched[s])
    BY <1>1, Acting DEF Sound
  <2>. QED
    BY <1>1, <2>1 DEF Order, Undoes, Kept
<1>. QED
  BY <1>1, BesideOrder

\* Those that leave the rows alone.
LEMMA AsideOrder ==
  ASSUME OrderInv, TypeInv', UNCHANGED <<task, sched>>, MessagesDue'
  PROVE  OrderInv'
<1>1. Kept(task, task') /\ Kept(task', task) /\ ReplayIsProven'
  BY DEF Kept, OrderInv, ReplayIsProven
<1>. QED
  BY <1>1, OthersOrder

LEMMA TakeTaskOrder ==
  ASSUME OrderInv, NEW e \in Executors, TakeTask(e)
  PROVE  OrderInv'
<1>1. TypeInv' /\ UNCHANGED <<task, sched, doneQ, dlq, api>>
  BY TakeTaskSound DEF OrderInv, TakeTask, rows
<1>2. PICK q \in Lists : /\ taskQ[q] # <<>>
                         /\ executing' = [executing EXCEPT ![e] = Head(taskQ[q])]
                         /\ taskQ' = [taskQ EXCEPT ![q] = Tail(taskQ[q])]
  BY DEF TakeTask, ServedList
<1>3. taskQ \in [Lists -> Seq(Due(task))] /\ executing \in [Executors -> Due(task) \cup {NoMsg}]
  BY DEF OrderInv, MessagesDue
<1>4. Head(taskQ[q]) \in Due(task) /\ Tail(taskQ[q]) \in Seq(Due(task))
  BY <1>2, <1>3
<1>5. taskQ' \in [Lists -> Seq(Due(task))] /\ executing' \in [Executors -> Due(task) \cup {NoMsg}]
  BY <1>2, <1>3, <1>4
<1>6. MessagesDue'
  BY <1>1, <1>5 DEF OrderInv, MessagesDue, Due, DueOutcomes, May
<1>. QED
  BY <1>1, <1>6, AsideOrder

LEMMA FinishTaskOrder ==
  ASSUME OrderInv, NEW e \in Executors, FinishTask(e)
  PROVE  OrderInv'
<1>1. TypeInv' /\ UNCHANGED <<task, sched, taskQ, dlq, api>>
  BY FinishTaskSound DEF OrderInv, FinishTask, rows
<1>2. executing[e] \in Due(task)
  BY DEF FinishTask, OrderInv, MessagesDue
<1>3. \A st \in {"SUCCESS", "FAILED"} : Finished(executing[e], st) \in DueOutcomes(task)
  BY <1>2 DEF Due, DueOutcomes, Finished, MessageSet, OutcomeSet
<1>4. doneQ' \in Seq(DueOutcomes(task)) /\ executing' \in [Executors -> Due(task) \cup {NoMsg}]
  BY <1>3 DEF FinishTask, OrderInv, MessagesDue
<1>5. MessagesDue'
  BY <1>1, <1>4 DEF OrderInv, MessagesDue, Due, DueOutcomes, May
<1>. QED
  BY <1>1, <1>5, AsideOrder

\* A handler of the API holds due items or none.
LEMMA HandlerDue ==
  ASSUME MessagesDue, NEW c \in Clients, NEW h, h.items \in Seq(Due(task)),
         api \in [Clients -> Handler], api' = [api EXCEPT ![c] = h], UNCHANGED task
  PROVE  \A d \in Clients : api'[d].items \in Seq(Due(task'))
BY DEF MessagesDue, Due, May

LEMMA IdleDue == IdleClient.items \in Seq(Due(task))
BY DEF IdleClient

\* The calls, and the steps that leave the lists of tasks alone.
LEMMA CallsOrder ==
  ASSUME OrderInv, NEW c \in Clients, ClientCall(c) \/ PublishRun(c)
  PROVE  OrderInv'
<1>1. TypeInv'
  BY CreateRunSound, CancelRunSound, ReplayDlqSound, SetRunStatusSound, PublishRunSound
  DEF OrderInv, ClientCall
<1>2. UNCHANGED <<task, sched, taskQ, doneQ, dlq, executing>>
  BY DEF ClientCall, CreateRun, CancelRun, ReplayDlq, SetRunStatus, PublishRun, queues, rows
<1>3. \A d \in Clients : api'[d].items \in Seq(Due(task'))
  <2>1. \A d \in Clients : api'[d] = api[d] \/ api'[d].items = <<>>
    BY DEF ClientCall, CreateRun, CancelRun, ReplayDlq, SetRunStatus, PublishRun, IdleClient,
           OrderInv, TypeInv, TypeOK
  <2>2. \A d \in Clients : api[d].items \in Seq(Due(task'))
    BY <1>2 DEF OrderInv, MessagesDue, Due, May
  <2>3. <<>> \in Seq(Due(task'))
    OBVIOUS
  <2>. QED BY <2>1, <2>2, <2>3
<1>4. MessagesDue'
  BY <1>2, <1>3 DEF OrderInv, MessagesDue, Due, DueOutcomes, May
<1>. QED
  BY <1>1, <1>2, <1>4, AsideOrder

LEMMA CancelTasksOrder ==
  ASSUME OrderInv, NEW c \in Clients, CancelTasks(c)
  PROVE  OrderInv'
<1>1. TypeInv' /\ UNCHANGED <<sched, taskQ, doneQ, dlq, executing>> /\ TypeOK
  BY CancelTasksSound DEF OrderInv, CancelTasks, queues, TypeInv
<1>2. api[c].run \in Runs /\ CancelRemaining(api[c].run) /\ api' = [api EXCEPT ![c] = IdleClient]
  BY DEF CancelTasks, OrderInv, TypeInv, SoundHandler
<1>3. Kept(task, task') /\ Kept(task', task) /\ ReplayIsProven'
  BY <1>1, <1>2, CancelKeeps DEF OrderInv
<1>4. Due(task) \subseteq Due(task') /\ DueOutcomes(task) \subseteq DueOutcomes(task')
  BY <1>3, DueGrows
<1>5. \A q : q \in Seq(Due(task)) => q \in Seq(Due(task'))
  BY <1>4, SeqGrows
<1>6. doneQ \in Seq(DueOutcomes(task'))
  BY <1>4, SeqGrows DEF OrderInv, MessagesDue
<1>7. \A d \in Clients : api'[d].items \in Seq(Due(task'))
  BY <1>1, <1>2, <1>5, IdleDue DEF OrderInv, MessagesDue, TypeOK
<1>8. MessagesDue'
  BY <1>1, <1>4, <1>5, <1>6, <1>7 DEF OrderInv, MessagesDue
<1>. QED
  BY <1>1, <1>3, <1>8, OthersOrder

LEMMA ListDlqOrder ==
  ASSUME OrderInv, NEW c \in Clients, ListDlq(c)
  PROVE  OrderInv'
<1>. DEFINE h == [api[c] EXCEPT !.op = "requeue", !.items = dlq]
<1>1. TypeInv' /\ UNCHANGED <<task, sched, taskQ, doneQ, dlq, executing>>
  BY ListDlqSound DEF OrderInv, ListDlq, rows, queues
<1>2. api \in [Clients -> Handler] /\ api[c] \in Handler
  BY DEF OrderInv, TypeInv, TypeOK
<1>3. api' = [api EXCEPT ![c] = h] /\ h.items = dlq
  BY <1>2 DEF ListDlq, Handler
<1>. HIDE DEF h
<1>4. \A d \in Clients : api'[d].items \in Seq(Due(task'))
  BY <1>1, <1>2, <1>3, HandlerDue DEF OrderInv, MessagesDue
<1>5. MessagesDue'
  BY <1>1, <1>4 DEF OrderInv, MessagesDue, Due, DueOutcomes, May
<1>. QED
  BY <1>1, <1>5, AsideOrder

\* A replayed item is due whatever its attempt is.
LEMMA RequeueItemOrder ==
  ASSUME OrderInv, NEW c \in Clients, RequeueItem(c)
  PROVE  OrderInv'
<1>. DEFINE items == api[c].items
            m     == Head(items)
<1>1. TypeInv' /\ UNCHANGED <<task, sched, doneQ, dlq, executing>>
  BY RequeueItemSound DEF OrderInv, RequeueItem, rows
<1>2. /\ items \in Seq(Due(task)) /\ taskQ \in [Lists -> Seq(Due(task))]
      /\ api \in [Clients -> Handler] /\ api[c] \in Handler
  BY DEF OrderInv, MessagesDue, TypeInv, TypeOK
<1>3. (\A d \in Clients : api'[d].items \in Seq(Due(task'))) /\ taskQ' \in [Lists -> Seq(Due(task))]
  <2>1. CASE items = <<>>
    <3>1. api' = [api EXCEPT ![c] = IdleClient] /\ UNCHANGED taskQ
      BY <2>1 DEF RequeueItem
    <3>. QED BY <1>1, <1>2, <3>1, IdleDue, HandlerDue DEF OrderInv
  <2>2. CASE items # <<>> /\ m.run # api[c].run
    <3>. DEFINE h == [api[c] EXCEPT !.items = Tail(items)]
    <3>1. api' = [api EXCEPT ![c] = h] /\ UNCHANGED taskQ
      BY <1>2, <2>2 DEF RequeueItem
    <3>2. h.items \in Seq(Due(task))
      <4>1. Tail(items) \in Seq(Due(task))
        BY <1>2, <2>2
      <4>. QED BY <1>2, <4>1 DEF Handler
    <3>. HIDE DEF h
    <3>. QED BY <1>1, <1>2, <3>1, <3>2, HandlerDue DEF OrderInv
  <2>3. CASE items # <<>> /\ m.run = api[c].run
    <3>. DEFINE h == [api[c] EXCEPT !.op = "lrem"]
                n == Message(m.run, m.task, m.attempt + 1)
    <3>1. /\ api' = [api EXCEPT ![c] = h]
          /\ taskQ' = [taskQ EXCEPT !["default"] = Append(@, n)]
      BY <1>2, <2>3 DEF RequeueItem
    <3>2. h.items \in Seq(Due(task))
      BY <1>2 DEF Handler
    <3>3. m \in Due(task)
      BY <1>2, <2>3
    <3>4. n \in Due(task)
      <4>. HIDE DEF m
      <4>. QED BY <3>3 DEF Due, Message, MessageSet
    <3>. HIDE DEF h, n
    <3>5. "default" \in Lists
      BY DEF Lists
    <3>6. [taskQ EXCEPT !["default"] = Append(@, n)] \in [Lists -> Seq(Due(task))]
      BY <1>2, <3>4, <3>5, AppendToList
    <3>7. \A d \in Clients : api'[d].items \in Seq(Due(task'))
      BY <1>1, <1>2, <3>1, <3>2, HandlerDue DEF OrderInv
    <3>. QED BY <3>1, <3>6, <3>7
  <2>. QED BY <2>1, <2>2, <2>3
<1>4. MessagesDue'
  BY <1>1, <1>3 DEF OrderInv, MessagesDue, Due, DueOutcomes, May
<1>. QED
  BY <1>1, <1>4, AsideOrder

LEMMA RemoveItemOrder ==
  ASSUME OrderInv, NEW c \in Clients, RemoveItem(c)
  PROVE  OrderInv'
<1>. DEFINE items == api[c].items
            h == [api[c] EXCEPT !.op = "requeue", !.items = Tail(items)]
<1>1. TypeInv' /\ UNCHANGED <<task, sched, taskQ, doneQ, executing>>
  BY RemoveItemSound DEF OrderInv, RemoveItem, rows
<1>2. /\ items \in Seq(Due(task)) /\ items # <<>> /\ dlq \in Seq(Due(task))
      /\ api \in [Clients -> Handler] /\ api[c] \in Handler
  BY DEF RemoveItem, OrderInv, MessagesDue, TypeInv, TypeOK, SoundHandler
<1>3. Tail(items) \in Seq(Due(task))
  BY <1>2
<1>4. h.items = Tail(items)
  BY <1>2 DEF Handler
<1>5. api' = [api EXCEPT ![c] = h] /\ dlq' = RemoveFirst(dlq, Head(items))
  BY <1>2 DEF RemoveItem
<1>. HIDE DEF h
<1>6. \A d \in Clients : api'[d].items \in Seq(Due(task'))
  BY <1>1, <1>2, <1>3, <1>4, <1>5, HandlerDue DEF OrderInv
<1>7. dlq' \in Seq(Due(task))
  BY <1>2, <1>5, RemoveFirstType
<1>8. MessagesDue'
  BY <1>1, <1>6, <1>7 DEF OrderInv, MessagesDue, Due, DueOutcomes, May
<1>. QED
  BY <1>1, <1>8, AsideOrder

\* Crashes lose locals, messages in hand and handlers, never a row.
LEMMA CrashOrder ==
  /\ \A s \in Schedulers : OneScheduler /\ OrderInv /\ SchedulerCrash(s) => OrderInv'
  /\ \A e \in Executors : OrderInv /\ ExecutorCrash(e) => OrderInv'
  /\ \A c \in Clients : OrderInv /\ ClientCrash(c) => OrderInv'
<1>1. ASSUME OneScheduler, OrderInv, NEW s \in Schedulers, SchedulerCrash(s) PROVE OrderInv'
  <2>1. TypeInv' /\ UNCHANGED <<task, taskQ, doneQ, dlq, executing, api>>
    BY <1>1, CrashSound DEF OrderInv, SchedulerCrash, rows, queues
  <2>. QED
    BY <1>1, <2>1, AtTopOrder, StillOrder DEF SchedulerCrash, Restart
<1>2. ASSUME OrderInv, NEW e \in Executors, ExecutorCrash(e) PROVE OrderInv'
  <2>1. TypeInv' /\ UNCHANGED <<task, sched, taskQ, doneQ, dlq, api>>
    BY <1>2, CrashSound DEF OrderInv, ExecutorCrash, rows, queues
  <2>2. MessagesDue'
    BY <1>2, <2>1 DEF ExecutorCrash, OrderInv, MessagesDue, Due, DueOutcomes, May
  <2>. QED
    BY <1>2, <2>1, <2>2, AsideOrder
<1>3. ASSUME OrderInv, NEW c \in Clients, ClientCrash(c) PROVE OrderInv'
  <2>1. TypeInv' /\ UNCHANGED <<task, sched, taskQ, doneQ, dlq, executing>>
    BY <1>3, CrashSound DEF OrderInv, ClientCrash, rows, queues
  <2>2. \A d \in Clients : api'[d].items \in Seq(Due(task'))
    BY <1>3, <2>1, IdleDue, HandlerDue DEF ClientCrash, OrderInv, TypeInv, TypeOK
  <2>3. MessagesDue'
    BY <1>3, <2>1, <2>2 DEF OrderInv, MessagesDue, Due, DueOutcomes, May
  <2>. QED
    BY <1>3, <2>1, <2>3, AsideOrder
<1>. QED BY <1>1, <1>2, <1>3

LEMMA OrderInit == Init => OrderInv
<1>. SUFFICES ASSUME Init PROVE OrderInv
  OBVIOUS
<1>1. TypeInv
  BY InitSound
<1>2. \A s \in Schedulers : Order(task, sched[s])
  BY AtTopOrder DEF Init
<1>3. MessagesDue
  <2>1. <<>> \in Seq(Due(task)) /\ <<>> \in Seq(DueOutcomes(task))
    OBVIOUS
  <2>2. \A c \in Clients : api[c].items \in Seq(Due(task))
    BY IdleDue DEF Init
  <2>. QED
    BY <2>1, <2>2 DEF Init, MessagesDue
<1>4. ReplayIsProven
  BY KeysAreTasks DEF Init, ReplayIsProven, NoRow
<1>. QED
  BY <1>1, <1>2, <1>3, <1>4 DEF OrderInv

LEMMA OrderNext == OneScheduler /\ OrderInv /\ [Next]_vars => OrderInv'
<1>. SUFFICES ASSUME OneScheduler, OrderInv, [Next]_vars PROVE OrderInv'
  OBVIOUS
<1>1. CASE \E s \in Schedulers : SchedulerStep(s) \/ SchedulerCrash(s)
  BY <1>1, SchedulerOrder, CrashOrder
<1>2. CASE \E e \in Executors : ExecutorStep(e) \/ ExecutorCrash(e)
  BY <1>2, TakeTaskOrder, FinishTaskOrder, CrashOrder DEF ExecutorStep
<1>3. CASE \E c \in Clients : ClientCall(c) \/ ClientStep(c) \/ ClientCrash(c)
  BY <1>3, CallsOrder, CancelTasksOrder, ListDlqOrder, RequeueItemOrder, RemoveItemOrder,
     CrashOrder DEF ClientStep
<1>4. CASE UNCHANGED vars
  <2>1. TypeInv'
    BY <1>4, StepSound DEF OrderInv
  <2>2. UNCHANGED <<task, sched>> /\ MessagesDue'
    BY <1>4 DEF vars, OrderInv, MessagesDue, Due, DueOutcomes, May
  <2>. QED
    BY <2>1, <2>2, AsideOrder
<1>. QED
  BY <1>1, <1>2, <1>3, <1>4 DEF Next

\* Every step keeps every SUCCESS.
LEMMA RowsKept == OrderInv /\ [Next]_vars => Kept(task, task')
<1>. SUFFICES ASSUME OrderInv, [Next]_vars PROVE Kept(task, task')
  OBVIOUS
<1>0. UNCHANGED task => Kept(task, task')
  BY DEF Kept
<1>1. ASSUME NEW s \in Schedulers, SchedulerStep(s) PROVE Kept(task, task')
  <2>1. CancelRunTasks(s) => Kept(task, task')
    BY Acting, CancelKeeps DEF CancelRunTasks, Sound
  <2>. QED
    BY <1>0, <1>1, <2>1, UpsertKeeps, LoopRows
<1>2. ASSUME NEW c \in Clients, CancelTasks(c) PROVE Kept(task, task')
  BY <1>2, CancelKeeps DEF CancelTasks, OrderInv, TypeInv, SoundHandler
<1>3. ASSUME NEW c \in Clients, ClientCall(c) \/ ClientStep(c), ~CancelTasks(c)
      PROVE  UNCHANGED task
  BY <1>3 DEF ClientCall, ClientStep, CreateRun, CancelRun, ReplayDlq, SetRunStatus, PublishRun,
              ListDlq, RequeueItem, RemoveItem, rows
<1>4. ASSUME NEW e \in Executors, ExecutorStep(e) \/ ExecutorCrash(e) PROVE UNCHANGED task
  BY <1>4 DEF ExecutorStep, TakeTask, FinishTask, ExecutorCrash, rows
<1>5. (\E s \in Schedulers : SchedulerCrash(s)) \/ (\E c \in Clients : ClientCrash(c))
        \/ UNCHANGED vars => UNCHANGED task
  BY DEF SchedulerCrash, ClientCrash, rows, vars
<1>. QED
  BY <1>0, <1>1, <1>2, <1>3, <1>4, <1>5 DEF Next

\* A task that succeeded stays so: of all the writes to the rows of tasks,
\* made from what was read before, none undoes a SUCCESS.
THEOREM SuccessStays ==
  ASSUME OneScheduler
  PROVE  Spec => SuccessIsStable
<1>1. OrderInv /\ [Next]_vars => OrderInv'
  BY OrderNext
<1>2. OrderInv /\ [Next]_vars =>
        [\A r \in Runs, k \in Tasks :
           task[r][k].status = "SUCCESS" => task'[r][k].status = "SUCCESS"]_vars
  BY RowsKept DEF Kept
<1>. QED
  BY OrderInit, <1>1, <1>2, PTL DEF Spec, SuccessIsStable

\* Whoever has the work on a task in hand, its dependencies succeeded.
LEMMA OrderImplies == OrderInv => DepsDone /\ ReplayIsProven
<1>. SUFFICES ASSUME OrderInv PROVE DepsDone
  BY DEF OrderInv
<1>. SUFFICES ASSUME NEW r \in Runs, NEW k \in Keys(Plan[r]), InFlight(r, k)
              PROVE  May(task, r, k)
  BY DEF DepsDone, May
<1>1. ASSUME NEW l \in Lists, NEW i \in 1..Len(taskQ[l]), IsFor(taskQ[l][i], r, k)
      PROVE  May(task, r, k)
  <2>1. taskQ[l] \in Seq(Due(task))
    BY DEF OrderInv, MessagesDue
  <2>2. taskQ[l][i] \in Due(task)
    BY <2>1
  <2>. QED BY <1>1, <2>2 DEF Due, IsFor
<1>2. ASSUME NEW i \in 1..Len(doneQ), IsFor(doneQ[i], r, k) PROVE May(task, r, k)
  <2>1. doneQ[i] \in DueOutcomes(task)
    BY DEF OrderInv, MessagesDue
  <2>. QED BY <1>2, <2>1 DEF DueOutcomes, IsFor
<1>3. ASSUME NEW e \in Executors, IsFor(executing[e], r, k) PROVE May(task, r, k)
  BY <1>3, PlanAssumption DEF OrderInv, MessagesDue, Due, IsFor, NoMsg
<1>4. ASSUME NEW s \in Schedulers, Holds(sched[s], r, k) PROVE May(task, r, k)
  BY <1>4 DEF OrderInv, Order, AtPoint, Calling, Holds
<1>5. \/ \E l \in Lists : \E i \in 1..Len(taskQ[l]) : IsFor(taskQ[l][i], r, k)
      \/ \E i \in 1..Len(doneQ) : IsFor(doneQ[i], r, k)
      \/ \E e \in Executors : IsFor(executing[e], r, k)
      \/ \E s \in Schedulers : Holds(sched[s], r, k)
  BY DEF InFlight, Copies
<1>. QED
  BY <1>1, <1>2, <1>3, <1>4, <1>5

\* Work on a task begins only after everything it depends on succeeded, and
\* none of that is undone, although it is picked from rows read earlier.
THEOREM DependenciesFirst ==
  ASSUME OneScheduler
  PROVE  Spec => []DepsDone
<1>1. OrderInv /\ [Next]_vars => OrderInv'
  BY OrderNext
<1>. QED
  BY OrderInit, <1>1, OrderImplies, PTL DEF Spec

\* A replay passes a task off as done only when its parent run completed it.
THEOREM ReplayProven ==
  ASSUME OneScheduler
  PROVE  Spec => []ReplayIsProven
<1>1. OrderInv /\ [Next]_vars => OrderInv'
  BY OrderNext
<1>. QED
  BY OrderInit, <1>1, OrderImplies, PTL DEF Spec

-----------------------------------------------------------------------------
\* The status SUCCESS of a run is written by the scheduler alone when no
\* client sets it by hand.
Earned(t) == \A r \in Runs : runStatus[r] = "SUCCESS" => AllDone(t, r)

LEMMA SuccessWritten ==
  ASSUME "SUCCESS" \notin ManualStatus, TypeInv, [Next]_vars, NEW r \in Runs,
         runStatus'[r] = "SUCCESS", runStatus[r] # "SUCCESS"
  PROVE  \E s \in Schedulers : /\ sched[s].pc = "runUpdate" /\ sched[s].run = r
                                /\ sched[s].status = "SUCCESS"
<1>1. ASSUME NEW s \in Schedulers, SchedulerStep(s), ~UpdateRunStatus(s)
      PROVE  UNCHANGED runStatus
  BY <1>1 DEF SchedulerStep, PopRun, AdmitRun, CancelRunTasks, SelectRunStatus, SelectTaskStatus,
     UpsertTask, LoadPlan, InitTask, FinishInit, ReadStates, PickReady, PushTask, PopDone,
     HandleSuccess, HandleRetry, WakeUp, HandleDead, SyncRead, SyncCancel, SyncVerdict, rows
<1>2. ASSUME NEW s \in Schedulers, UpdateRunStatus(s)
      PROVE  sched[s].pc = "runUpdate" /\ sched[s].run = r /\ sched[s].status = "SUCCESS"
  BY <1>2 DEF UpdateRunStatus, TypeInv, TypeOK
<1>3. ASSUME NEW c \in Clients, ClientCall(c) \/ ClientStep(c) PROVE FALSE
  <2>0. runStatus \in [Runs -> RunStatus \cup {"none"}]
    BY DEF TypeInv, TypeOK
  <2>1. CASE \E q \in Runs : CreateRun(c, q) \/ CancelRun(c, q)
    BY <2>0, <2>1 DEF CreateRun, CancelRun
  <2>2. CASE \E q \in Runs : ReplayDlq(c, q)
    BY <2>0, <2>2 DEF ReplayDlq
  <2>3. CASE \E q \in Runs : \E st \in ManualStatus : SetRunStatus(c, q, st)
    BY <2>0, <2>3 DEF SetRunStatus
  <2>4. CASE ClientStep(c)
    BY <2>4 DEF ClientStep, PublishRun, CancelTasks, ListDlq, RequeueItem, RemoveItem, rows
  <2>. QED BY <1>3, <2>1, <2>2, <2>3, <2>4 DEF ClientCall
<1>4. ASSUME NEW e \in Executors, ExecutorStep(e) \/ ExecutorCrash(e) PROVE UNCHANGED runStatus
  BY <1>4 DEF ExecutorStep, TakeTask, FinishTask, ExecutorCrash, rows
<1>5. (\E s \in Schedulers : SchedulerCrash(s)) \/ (\E c \in Clients : ClientCrash(c))
        \/ UNCHANGED vars => UNCHANGED runStatus
  BY DEF SchedulerCrash, ClientCrash, rows, vars
<1>. QED
  BY <1>1, <1>2, <1>3, <1>4, <1>5 DEF Next

LEMMA EarnedStep ==
  ASSUME "SUCCESS" \notin ManualStatus, OrderInv, Earned(task), [Next]_vars
  PROVE  Earned(task)'
<1>. SUFFICES ASSUME NEW r \in Runs, runStatus'[r] = "SUCCESS" PROVE AllDone(task', r)
  BY DEF Earned
<1>1. AllDone(task, r)
  <2>1. CASE runStatus[r] = "SUCCESS"
    BY <2>1 DEF Earned
  <2>2. CASE runStatus[r] # "SUCCESS"
    BY <2>2, SuccessWritten DEF OrderInv, Order
  <2>. QED BY <2>1, <2>2
<1>2. Kept(task, task') /\ Selected(r) \subseteq Tasks
  BY RowsKept, KeysAreTasks
<1>. QED
  BY <1>1, <1>2 DEF AllDone, Kept
=============================================================================
