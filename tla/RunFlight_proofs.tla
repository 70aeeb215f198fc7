--------------------------- MODULE RunFlight_proofs ---------------------------
(***************************************************************************)
(* Where the work on a task is, for every plan, every number of runs,      *)
(* executors and handlers and every bound, with one scheduler: a run is    *)
(* expanded once, the work on a task is never in two places, what the row  *)
(* of a task says follows the work from place to place, work that is out   *)
(* has its slot, no run is forgotten, and every step is a step of          *)
(* DagExecution or changes nothing there.                                  *)
(***************************************************************************)
EXTENDS RunOrder_proofs, FiniteSetTheorems

Top      == {"pollRuns", "pollDone"}
On(l, r) == l.pc \notin Top /\ l.run = r

-----------------------------------------------------------------------------
(* Messages about task k of run r.                                         *)

Has(q, r, k) == \E i \in 1..Len(q) : IsFor(q[i], r, k)

\* No two messages of a list are about the same task.
Uniq(q) == \A i, j \in 1..Len(q) : q[i].run = q[j].run /\ q[i].task = q[j].task => i = j

\* Somebody will work on the task, works on it, or has.
Msg(r, k) == \/ \E l \in Lists : Has(taskQ[l], r, k)
             \/ Has(doneQ, r, k)
             \/ \E e \in Executors : IsFor(executing[e], r, k)

\* Or could send it to work again.
Loose(r, k) == Msg(r, k) \/ Has(dlq, r, k) \/ \E c \in Clients : Has(api[c].items, r, k)

HeldBy(r, k) == \E s \in Schedulers : Holds(sched[s], r, k)

\* The scheduler about to hand the work on.
Handed(l, r, k) == l.pc \in {"push", "handle"} /\ l.run = r /\ l.task = k

LEMMA HasEmpty == \A r, k : ~Has(<<>>, r, k)
BY DEF Has

LEMMA HasAppend ==
  ASSUME NEW S, NEW q \in Seq(S), NEW m \in S, NEW r, NEW k
  PROVE  Has(Append(q, m), r, k) <=> Has(q, r, k) \/ IsFor(m, r, k)
<1>. DEFINE p == Append(q, m)
<1>1. /\ Len(q) \in Nat /\ Len(p) = Len(q) + 1
      /\ p[Len(q) + 1] = m
      /\ \A i \in 1..Len(q) : p[i] = q[i]
  OBVIOUS
<1>. HIDE DEF p
<1>2. \A i \in 1..Len(p) : i \in 1..Len(q) \/ i = Len(q) + 1
  BY <1>1
<1>3. (\A i \in 1..Len(q) : i \in 1..Len(p)) /\ Len(q) + 1 \in 1..Len(p)
  BY <1>1
<1>4. Has(p, r, k) => Has(q, r, k) \/ IsFor(m, r, k)
  BY <1>1, <1>2 DEF Has
<1>5. Has(q, r, k) \/ IsFor(m, r, k) => Has(p, r, k)
  BY <1>1, <1>3 DEF Has
<1>. QED BY <1>4, <1>5 DEF p

LEMMA HasTail ==
  ASSUME NEW S, NEW q \in Seq(S), q # <<>>, NEW r, NEW k
  PROVE  Has(q, r, k) <=> Has(Tail(q), r, k) \/ IsFor(Head(q), r, k)
<1>. DEFINE p == Tail(q)
<1>1. /\ Len(q) \in Nat /\ Len(q) >= 1 /\ Len(p) = Len(q) - 1 /\ Head(q) = q[1]
      /\ \A i \in 1..Len(p) : p[i] = q[i + 1]
  OBVIOUS
<1>. HIDE DEF p
<1>2. (\A i \in 1..Len(p) : i + 1 \in 1..Len(q)) /\ 1 \in 1..Len(q)
  BY <1>1
<1>3. \A i \in 1..Len(q) : i = 1 \/ (i - 1 \in 1..Len(p) /\ p[i - 1] = q[i])
  BY <1>1
<1>4. Has(q, r, k) => Has(p, r, k) \/ IsFor(Head(q), r, k)
  BY <1>1, <1>3 DEF Has
<1>5. Has(p, r, k) \/ IsFor(Head(q), r, k) => Has(q, r, k)
  BY <1>1, <1>2 DEF Has
<1>. QED BY <1>4, <1>5 DEF p

LEMMA UniqAppend ==
  ASSUME NEW S, NEW q \in Seq(S), NEW m \in S, Uniq(q), ~Has(q, m.run, m.task)
  PROVE  Uniq(Append(q, m))
<1>. DEFINE p == Append(q, m)
<1>1. /\ Len(q) \in Nat /\ Len(p) = Len(q) + 1
      /\ p[Len(q) + 1] = m
      /\ \A i \in 1..Len(q) : p[i] = q[i]
  OBVIOUS
<1>. HIDE DEF p
<1>2. \A i \in 1..Len(p) : i \in 1..Len(q) \/ i = Len(q) + 1
  BY <1>1
<1>3. \A i \in 1..Len(q) : ~(q[i].run = m.run /\ q[i].task = m.task)
  BY DEF Has, IsFor
<1>. QED
  BY <1>1, <1>2, <1>3 DEF Uniq, p

LEMMA UniqTail ==
  ASSUME NEW S, NEW q \in Seq(S), q # <<>>, Uniq(q)
  PROVE  Uniq(Tail(q)) /\ ~Has(Tail(q), Head(q).run, Head(q).task)
<1>. DEFINE p == Tail(q)
<1>1. /\ Len(q) \in Nat /\ Len(q) >= 1 /\ Len(p) = Len(q) - 1 /\ Head(q) = q[1]
      /\ \A i \in 1..Len(p) : p[i] = q[i + 1]
  OBVIOUS
<1>. HIDE DEF p
<1>2. (\A i \in 1..Len(p) : i \in Nat /\ i + 1 \in 1..Len(q) /\ i + 1 # 1) /\ 1 \in 1..Len(q)
  BY <1>1
<1>3. Uniq(p)
  <2>. SUFFICES ASSUME NEW i \in 1..Len(p), NEW j \in 1..Len(p),
                       p[i].run = p[j].run, p[i].task = p[j].task
                PROVE  i = j
    BY DEF Uniq
  <2>1. i + 1 = j + 1
    BY <1>1, <1>2 DEF Uniq
  <2>. QED BY <1>2, <2>1
<1>4. ~Has(p, q[1].run, q[1].task)
  BY <1>1, <1>2 DEF Uniq, Has, IsFor
<1>. QED BY <1>1, <1>3, <1>4 DEF p

\* LREM adds nothing to the list.
LEMMA HasRemoved ==
  ASSUME NEW S, NEW q \in Seq(S), NEW m, NEW r, NEW k, Has(RemoveFirst(q, m), r, k)
  PROVE  Has(q, r, k)
<1>. DEFINE T == {x \in S : ~IsFor(x, r, k)}
<1>1. SUFFICES ASSUME ~Has(q, r, k) PROVE ~Has(RemoveFirst(q, m), r, k)
  OBVIOUS
<1>2. q \in Seq(T)
  <2>1. \A i \in 1..Len(q) : q[i] \in S /\ ~IsFor(q[i], r, k)
    BY <1>1 DEF Has
  <2>2. \A i \in 1..Len(q) : q[i] \in T
    BY <2>1
  <2>. HIDE DEF T
  <2>. QED BY <2>2
<1>3. RemoveFirst(q, m) \in Seq(T)
  BY <1>2, RemoveFirstType
<1>4. \A p \in Seq(T) : \A i \in 1..Len(p) : p[i] \in T
  OBVIOUS
<1>. QED
  BY <1>3, <1>4 DEF Has

-----------------------------------------------------------------------------
(***************************************************************************)
(* The control flow of the scheduler: what each action makes of its locals *)
(* l, as facts about the fields of the locals m it leaves.                 *)
(***************************************************************************)
Moved(l, m, label) ==
  /\ m.pc = label
  /\ m.run = l.run /\ m.task = l.task /\ m.attempt = l.attempt /\ m.status = l.status
  /\ m.cont = l.cont /\ m.ret = l.ret /\ m.after = l.after
  /\ m.todo = l.todo /\ m.snap = l.snap /\ m.proven = l.proven

Went(l, m, label) == IF label \in Top THEN m.pc = label ELSE Moved(l, m, label)

\* Asks for task k to become st, and goes on at label.
Asked(l, m, k, st, a, label) ==
  /\ m.pc = "taskSelect"
  /\ m.run = l.run /\ m.task = k /\ m.status = st /\ m.attempt = a /\ m.cont = label
  /\ m.snap = l.snap /\ m.proven = l.proven

\* Asks for the run to become st, and goes on at label.
AskedRun(l, m, st, label) ==
  m.pc = "runSelect" /\ m.run = l.run /\ m.status = st /\ m.cont = label

WithdrawsAll(l, m, label) == m.pc = "cancelAll" /\ m.run = l.run /\ m.cont = label

LEMMA MovedField ==
  ASSUME NEW l \in Local, NEW label
  PROVE  Moved(l, [l EXCEPT !.pc = label], label)
BY DEF Moved, Local

LEMMA ArriveWent ==
  ASSUME NEW l \in Local, NEW label
  PROVE  Went(l, Arrive(l, label), label)
<1>1. CASE label \in Top
  BY <1>1 DEF Went, Top, Arrive, AtTop
<1>2. CASE label \notin Top
  BY <1>2, MovedField DEF Went, Top, Arrive
<1>. QED BY <1>1, <1>2

\* The locals a call of _upsert_or_transition_task starts with.
LEMMA UpsertAsks ==
  ASSUME NEW s \in Schedulers, sched[s] \in Local, NEW k, NEW st, NEW a, NEW label
  PROVE  /\ Asked(sched[s], Upsert(s, k, st, a, label), k, st, a, label)
         /\ Upsert(s, k, st, a, label).todo = sched[s].todo
         /\ Upsert(s, k, st, a, label).ret = sched[s].ret
BY DEF Upsert, Asked, Local

LEMMA RunTransitionAsks ==
  ASSUME NEW s \in Schedulers, sched[s] \in Local, NEW st, NEW label
  PROVE  /\ AskedRun(sched[s], RunTransition(s, st, label), st, label)
         /\ WithdrawsAll(sched[s], CancelAll(s, label), label)
BY DEF RunTransition, CancelAll, AskedRun, WithdrawsAll, Local

\* What is known of the locals of a scheduler.
LEMMA Locals ==
  ASSUME TypeInv, NEW s \in Schedulers
  PROVE  /\ TypeOK /\ sched[s] \in Local /\ Sound(sched[s])
         /\ DOMAIN sched = Schedulers
         /\ sched[s].pc \notin Top => sched[s].run \in Runs
         /\ AtPoint(sched[s], AfterTask \ {"initTasks", "syncCancel"}) \/ Calling(sched[s]) =>
              sched[s].task \in Tasks /\ sched[s].run \in Runs
BY DEF TypeInv, TypeOK, Sound, Top, AtPoint, Calling, AfterTask

LEMMA PopRunFlow ==
  ASSUME TypeInv, NEW s \in Schedulers, PopRun(s)
  PROVE  /\ sched[s].pc = "pollRuns"
         /\ \/ sched'[s].pc \in Top /\ runQ' = runQ
            \/ /\ runQ # <<>> /\ runQ' = Tail(runQ)
               /\ sched'[s].pc = "admit" /\ sched'[s].run = Head(runQ)
               /\ sched'[s].snap = sched[s].snap
BY Locals DEF PopRun, Restart, AtTop, Top, Local

LEMMA AdmitRunFlow ==
  ASSUME TypeInv, NEW s \in Schedulers, AdmitRun(s)
  PROVE  /\ sched[s].pc = "admit"
         /\ \/ /\ runStatus[sched[s].run] = "CANCELLED" /\ runQ' = runQ
               /\ WithdrawsAll(sched[s], sched'[s], "pollRuns")
            \/ runQ' = Append(runQ, sched[s].run) /\ sched'[s].pc \in Top
            \/ AskedRun(sched[s], sched'[s], "RUNNING", "load") /\ runQ' = runQ
BY Locals, RunTransitionAsks DEF AdmitRun, Restart, AtTop, Top

LEMMA CancelRunTasksFlow ==
  ASSUME TypeInv, NEW s \in Schedulers, CancelRunTasks(s)
  PROVE  /\ sched[s].pc = "cancelAll" /\ sched[s].cont \in AfterAll
         /\ Went(sched[s], sched'[s], sched[s].cont)
BY Locals, ArriveWent DEF CancelRunTasks, Sound

LEMMA RunStatusFlow ==
  ASSUME TypeInv, NEW s \in Schedulers, SelectRunStatus(s) \/ UpdateRunStatus(s)
  PROVE  /\ sched[s].pc \in {"runSelect", "runUpdate"} /\ sched[s].cont \in AfterRun
         /\ \/ sched[s].pc = "runSelect" /\ Moved(sched[s], sched'[s], "runUpdate")
            \/ Went(sched[s], sched'[s], sched[s].cont)
BY Locals, ArriveWent, MovedField DEF SelectRunStatus, UpdateRunStatus, Sound

LEMMA SelectTaskStatusFlow ==
  ASSUME TypeInv, NEW s \in Schedulers, SelectTaskStatus(s)
  PROVE  LET l   == sched[s]
             cur == task[l.run][l.task].status
         IN  /\ l.pc = "taskSelect" /\ l.cont \in AfterTask
             /\ \/ Moved(l, sched'[s], "taskUpdate") /\ (cur = "none" \/ l.status \in TaskAllowed(cur))
                \/ Moved(l, sched'[s], l.cont) /\ cur # "none" /\ l.status \notin TaskAllowed(cur)
BY Locals, MovedField DEF SelectTaskStatus, Sound

LEMMA UpsertTaskFlow ==
  ASSUME TypeInv, NEW s \in Schedulers, UpsertTask(s)
  PROVE  LET l == sched[s]
         IN  /\ l.pc = "taskUpdate" /\ l.cont \in AfterTask /\ Moved(l, sched'[s], l.cont)
             /\ l.run \in Runs /\ l.task \in Tasks
             /\ \A r \in Runs, k \in Tasks :
                  task'[r][k].status = IF r = l.run /\ k = l.task THEN l.status ELSE task[r][k].status
<1>1. sched'[s] = [sched[s] EXCEPT !.pc = sched[s].cont]
  BY Locals DEF UpsertTask, Goto
<1>2. sched[s].pc = "taskUpdate" /\ sched[s].cont \in AfterTask /\ sched[s].run \in Runs
        /\ sched[s].task \in Tasks
  BY Locals DEF UpsertTask, Sound
<1>3. \A r \in Runs, k \in Tasks :
        task'[r][k].status = IF r = sched[s].run /\ k = sched[s].task THEN sched[s].status
                             ELSE task[r][k].status
  BY <1>2 DEF UpsertTask, TypeInv, TypeOK
<1>. QED
  BY <1>1, <1>2, <1>3, Locals, MovedField

LEMMA LoadPlanFlow ==
  ASSUME TypeInv, NEW s \in Schedulers, LoadPlan(s)
  PROVE  /\ sched[s].pc = "load" /\ sched'[s].pc = "initTasks"
         /\ sched'[s].run = sched[s].run /\ sched'[s].todo = Keys(Plan[sched[s].run])
BY Locals DEF LoadPlan, Local

\* The status a key of the plan is initialised with.
InitStatus(l, k) ==
  IF k \in Selected(l.run) THEN "PENDING" ELSE IF k \in l.proven THEN "SUCCESS" ELSE "FAILED"

LEMMA InitTaskFlow ==
  ASSUME TypeInv, NEW s \in Schedulers, InitTask(s)
  PROVE  /\ sched[s].pc = "initTasks"
         /\ \E k \in sched[s].todo :
              /\ sched'[s].todo = sched[s].todo \ {k}
              /\ Asked(sched[s], sched'[s], k, InitStatus(sched[s], k), 1, "initTasks")
<1>. DEFINE l == sched[s]
<1>1. PICK k \in l.todo :
        sched' = [sched EXCEPT ![s] =
           [Upsert(s, k, InitStatus(l, k), 1, "initTasks") EXCEPT !.todo = l.todo \ {k}]]
  BY DEF InitTask, InitStatus
<1>2. sched'[s] = [Upsert(s, k, InitStatus(l, k), 1, "initTasks") EXCEPT !.todo = l.todo \ {k}]
  BY <1>1, Locals
<1>3. /\ Asked(l, sched'[s], k, InitStatus(l, k), 1, "initTasks")
      /\ sched'[s].todo = l.todo \ {k}
  BY <1>2, Locals DEF Asked, Upsert, Local
<1>. QED BY <1>3 DEF InitTask

LEMMA FinishInitFlow ==
  ASSUME TypeInv, NEW s \in Schedulers, FinishInit(s)
  PROVE  /\ sched[s].pc = "initTasks" /\ sched[s].todo = {}
         /\ \/ /\ Skipped(sched[s].run) \subseteq sched[s].proven
               /\ sched'[s].pc = "ready" /\ sched'[s].run = sched[s].run
            \/ /\ ~(Skipped(sched[s].run) \subseteq sched[s].proven)
               /\ AskedRun(sched[s], sched'[s], "FAILED", "pollRuns")
<1>1. sched[s].pc = "initTasks" /\ sched[s].todo = {}
  BY DEF FinishInit
<1>2. CASE Skipped(sched[s].run) \subseteq sched[s].proven
  <2>1. sched'[s] = [sched[s] EXCEPT !.pc = "ready", !.after = "pollDone"]
    BY <1>2, Locals DEF FinishInit
  <2>. QED BY <1>1, <1>2, <2>1, Locals DEF Local
<1>3. CASE ~(Skipped(sched[s].run) \subseteq sched[s].proven)
  BY <1>1, <1>3, Locals, RunTransitionAsks DEF FinishInit
<1>. QED BY <1>2, <1>3

LEMMA ReadStatesFlow ==
  ASSUME TypeInv, NEW s \in Schedulers, ReadStates(s)
  PROVE  LET l == sched[s]
             m == sched'[s]
         IN  /\ l.pc = "ready"
             /\ \/ /\ runStatus[l.run] = "CANCELLED" /\ l.after \in AfterAll
                   /\ WithdrawsAll(l, m, l.after)
                \/ /\ m.pc = "pick" /\ m.run = l.run /\ m.snap = States(l.run)
                   /\ m.todo = Selected(l.run)
<1>. DEFINE l == sched[s]
<1>1. l.pc = "ready" /\ l.after \in AfterAll
  BY Locals DEF ReadStates, Local, AfterAll
<1>2. CASE runStatus[l.run] = "CANCELLED"
  <2>1. sched'[s] = CancelAll(s, l.after)
    BY <1>2, Locals DEF ReadStates
  <2>. QED BY <1>1, <1>2, <2>1, Locals, RunTransitionAsks
<1>3. CASE runStatus[l.run] # "CANCELLED"
  <2>1. sched'[s] = [l EXCEPT !.pc = "pick", !.snap = States(l.run), !.todo = Selected(l.run)]
    BY <1>3, Locals DEF ReadStates
  <2>. QED BY <1>1, <2>1, Locals DEF Local
<1>. QED BY <1>2, <1>3

LEMMA PickReadyFlow ==
  ASSUME TypeInv, NEW s \in Schedulers, PickReady(s)
  PROVE  LET l == sched[s]
             m == sched'[s]
         IN  /\ l.pc = "pick"
             /\ \/ Went(l, m, l.after) /\ l.after \in AfterAll
                \/ /\ ~SlotsFull(l.run)
                   /\ \E k \in Ready(l.run, l.snap, l.todo) :
                        /\ Asked(l, m, k, Dispatched, l.snap[k].attempt, "push")
                        /\ m.todo = {j \in l.todo : j > k} /\ m.ret = "pick"
<1>1. sched[s].after \in AfterAll /\ sched[s].pc = "pick"
  BY Locals DEF Local, AfterAll, PickReady
<1>2. CASE sched' = [sched EXCEPT ![s] = Arrive(sched[s], sched[s].after)]
  BY <1>1, <1>2, Locals, ArriveWent
<1>3. CASE ~(sched' = [sched EXCEPT ![s] = Arrive(sched[s], sched[s].after)])
  <2>. DEFINE l == sched[s]
              next(k) == [Upsert(s, k, Dispatched, l.snap[k].attempt, "push")
                            EXCEPT !.todo = {j \in l.todo : j > k}, !.ret = "pick"]
  <2>1. ~SlotsFull(sched[s].run)
    BY <1>3 DEF PickReady
  <2>2. PICK k \in Ready(sched[s].run, sched[s].snap, sched[s].todo) :
          sched' = [sched EXCEPT ![s] = next(k)]
    BY <1>3 DEF PickReady
  <2>3. sched'[s] = next(k)
    BY <2>2, Locals
  <2>4. /\ Asked(l, sched'[s], k, Dispatched, l.snap[k].attempt, "push")
        /\ sched'[s].todo = {j \in l.todo : j > k} /\ sched'[s].ret = "pick"
    BY <2>3, Locals DEF Asked, Upsert, Local
  <2>. QED
    BY <1>1, <2>1, <2>2, <2>4
<1>. QED BY <1>2, <1>3

LEMMA PushTaskFlow ==
  ASSUME TypeInv, NEW s \in Schedulers, PushTask(s)
  PROVE  /\ sched[s].pc = "push" /\ sched[s].ret \in {"pick", "pollRuns"}
         /\ Went(sched[s], sched'[s], sched[s].ret)
BY Locals, ArriveWent DEF PushTask, Local

LEMMA PopDoneFlow ==
  ASSUME TypeInv, NEW s \in Schedulers, PopDone(s)
  PROVE  LET h == Head(doneQ)
             m == sched'[s]
         IN  /\ sched[s].pc = "pollDone"
             /\ \/ m.pc \in Top /\ doneQ' = doneQ
                \/ /\ doneQ # <<>> /\ doneQ' = Tail(doneQ)
                   /\ m.pc = "taskSelect" /\ m.run = h.run /\ m.task = h.task
                   /\ m.status = h.status /\ m.attempt = h.attempt /\ m.cont = "handle"
                   /\ h \in OutcomeSet
<1>1. CASE doneQ = <<>>
  BY <1>1, Locals DEF PopDone, Restart, AtTop, Top
<1>2. CASE doneQ # <<>>
  <2>1. Head(doneQ) \in OutcomeSet
    BY <1>2 DEF TypeInv, TypeOK
  <2>. DEFINE h == Head(doneQ)
  <2>2. /\ sched'[s] = [Upsert(s, h.task, h.status, h.attempt, "handle")
                          EXCEPT !.run = h.run, !.after = "sync"]
        /\ doneQ' = Tail(doneQ)
    BY <1>2, Locals DEF PopDone
  <2>. HIDE DEF h
  <2>3. /\ sched'[s].pc = "taskSelect" /\ sched'[s].run = h.run /\ sched'[s].task = h.task
        /\ sched'[s].status = h.status /\ sched'[s].attempt = h.attempt
        /\ sched'[s].cont = "handle"
    BY <2>2, Locals DEF Upsert, Local
  <2>. QED
    BY <1>2, <2>1, <2>2, <2>3 DEF PopDone, h
<1>. QED BY <1>1, <1>2

LEMMA HandleFlow ==
  ASSUME TypeInv, NEW s \in Schedulers
  PROVE  LET l == sched[s]
             m == sched'[s]
         IN  /\ HandleSuccess(s) =>
                  /\ l.pc = "handle" /\ l.status = "SUCCESS"
                  /\ \/ WithdrawsAll(l, m, "pollRuns") /\ runStatus[l.run] = "CANCELLED"
                     \/ Moved(l, m, "ready")
             /\ HandleRetry(s) =>
                  /\ l.pc = "handle" /\ l.status = "FAILED"
                  /\ Asked(l, m, l.task, "RETRY", l.attempt + 1, "sleep")
             /\ WakeUp(s) =>
                  /\ l.pc = "sleep" /\ m.ret = "pollRuns"
                  /\ Asked(l, m, l.task, Dispatched, l.attempt, "push")
             /\ HandleDead(s) =>
                  /\ l.pc = "handle" /\ l.status = "FAILED" /\ Moved(l, m, "sync")
<1>1. HandleSuccess(s) =>
        \/ sched'[s] = CancelAll(s, "pollRuns") /\ runStatus[sched[s].run] = "CANCELLED"
        \/ sched'[s] = [sched[s] EXCEPT !.pc = "ready"]
  BY Locals DEF HandleSuccess, Goto
<1>2. HandleRetry(s) => sched'[s] = Upsert(s, sched[s].task, "RETRY", sched[s].attempt + 1, "sleep")
  BY Locals DEF HandleRetry
<1>3. WakeUp(s) => sched'[s] = [Upsert(s, sched[s].task, Dispatched, sched[s].attempt, "push")
                                  EXCEPT !.ret = "pollRuns"]
  BY Locals DEF WakeUp
<1>4. HandleDead(s) => sched'[s] = [sched[s] EXCEPT !.pc = "sync"]
  BY Locals DEF HandleDead, Goto
<1>5. HandleSuccess(s) \/ HandleRetry(s) \/ HandleDead(s) => sched[s].pc = "handle"
  BY DEF HandleSuccess, HandleRetry, HandleDead
<1>6. /\ HandleSuccess(s) => sched[s].status = "SUCCESS"
      /\ HandleRetry(s) \/ HandleDead(s) => sched[s].status = "FAILED"
      /\ WakeUp(s) => sched[s].pc = "sleep"
  BY DEF HandleSuccess, HandleRetry, HandleDead, WakeUp
<1>7. /\ WithdrawsAll(sched[s], CancelAll(s, "pollRuns"), "pollRuns")
      /\ Moved(sched[s], [sched[s] EXCEPT !.pc = "ready"], "ready")
      /\ Moved(sched[s], [sched[s] EXCEPT !.pc = "sync"], "sync")
  BY Locals, MovedField, RunTransitionAsks
<1>8. HandleRetry(s) => Asked(sched[s], sched'[s], sched[s].task, "RETRY", sched[s].attempt + 1, "sleep")
  BY <1>2, Locals, UpsertAsks
<1>9. WakeUp(s) => /\ sched'[s].ret = "pollRuns"
                   /\ Asked(sched[s], sched'[s], sched[s].task, Dispatched, sched[s].attempt, "push")
  BY <1>3, Locals DEF Asked, Upsert, Local
<1>. QED
  BY <1>1, <1>4, <1>5, <1>6, <1>7, <1>8, <1>9

LEMMA SyncFlow ==
  ASSUME TypeInv, NEW s \in Schedulers
  PROVE  LET l == sched[s]
             m == sched'[s]
             found == {l.snap[k].status : k \in Selected(l.run)}
         IN  /\ SyncRead(s) =>
                  /\ l.pc = "sync" /\ m.pc = "syncCancel" /\ m.run = l.run
                  /\ m.snap = States(l.run) /\ m.todo = Unreachable(l.run, States(l.run))
             /\ SyncCancel(s) =>
                  /\ l.pc = "syncCancel"
                  /\ \E k \in l.todo :
                       /\ Asked(l, m, k, "CANCELLED", l.snap[k].attempt, "syncCancel")
                       /\ m.todo = l.todo \ {k}
             /\ SyncVerdict(s) =>
                  /\ l.pc = "syncCancel" /\ l.todo = {}
                  /\ \/ found = {"SUCCESS"} /\ AskedRun(l, m, "SUCCESS", "pollRuns")
                     \/ "FAILED" \in found /\ AskedRun(l, m, "FAILED", "pollRuns")
                     \/ m.pc \in Top
<1>1. SyncRead(s) =>
        /\ sched[s].pc = "sync"
        /\ sched'[s] = [sched[s] EXCEPT !.pc = "syncCancel", !.snap = States(sched[s].run),
                                        !.todo = Unreachable(sched[s].run, States(sched[s].run))]
  BY Locals DEF SyncRead
<1>2. SyncCancel(s) =>
        /\ sched[s].pc = "syncCancel"
        /\ \E k \in sched[s].todo :
             sched'[s] = [Upsert(s, k, "CANCELLED", sched[s].snap[k].attempt, "syncCancel")
                            EXCEPT !.todo = sched[s].todo \ {k}]
  BY Locals DEF SyncCancel
<1>3. SyncVerdict(s) =>
        LET found == {sched[s].snap[k].status : k \in Selected(sched[s].run)}
        IN  /\ sched[s].pc = "syncCancel" /\ sched[s].todo = {}
            /\ \/ found = {"SUCCESS"} /\ sched'[s] = RunTransition(s, "SUCCESS", "pollRuns")
               \/ "FAILED" \in found /\ sched'[s] = RunTransition(s, "FAILED", "pollRuns")
               \/ sched'[s] = AtTop("pollRuns")
  BY Locals DEF SyncVerdict
<1>4. SyncRead(s) => /\ sched'[s].pc = "syncCancel" /\ sched'[s].run = sched[s].run
                     /\ sched'[s].snap = States(sched[s].run)
                     /\ sched'[s].todo = Unreachable(sched[s].run, States(sched[s].run))
  BY <1>1, Locals DEF Local
<1>5. AtTop("pollRuns").pc \in Top
  BY DEF AtTop, Top
<1>6. SyncCancel(s) =>
        \E k \in sched[s].todo :
          /\ Asked(sched[s], sched'[s], k, "CANCELLED", sched[s].snap[k].attempt, "syncCancel")
          /\ sched'[s].todo = sched[s].todo \ {k}
  <2>. SUFFICES ASSUME SyncCancel(s)
                PROVE  \E k \in sched[s].todo :
                         /\ Asked(sched[s], sched'[s], k, "CANCELLED", sched[s].snap[k].attempt, "syncCancel")
                         /\ sched'[s].todo = sched[s].todo \ {k}
    OBVIOUS
  <2>1. PICK k \in sched[s].todo :
             sched'[s] = [Upsert(s, k, "CANCELLED", sched[s].snap[k].attempt, "syncCancel")
                            EXCEPT !.todo = sched[s].todo \ {k}]
    BY <1>2
  <2>2. /\ Asked(sched[s], sched'[s], k, "CANCELLED", sched[s].snap[k].attempt, "syncCancel")
        /\ sched'[s].todo = sched[s].todo \ {k}
    BY <2>1, Locals DEF Asked, Upsert, Local
  <2>. QED BY <2>2
<1>7. /\ AskedRun(sched[s], RunTransition(s, "SUCCESS", "pollRuns"), "SUCCESS", "pollRuns")
      /\ AskedRun(sched[s], RunTransition(s, "FAILED", "pollRuns"), "FAILED", "pollRuns")
  BY Locals, RunTransitionAsks
<1>8. SyncCancel(s) => sched[s].pc = "syncCancel"
  BY <1>2
<1>9. SyncRead(s) => sched[s].pc = "sync"
  BY <1>1
<1>. QED
  BY <1>3, <1>4, <1>5, <1>6, <1>7, <1>8, <1>9

-----------------------------------------------------------------------------
(***************************************************************************)
(* How messages move: a push adds one, an executor that takes or finishes  *)
(* one only moves it, the scheduler that pops an outcome takes it away.    *)
(***************************************************************************)
LEMMA ListTypes ==
  ASSUME TypeInv
  PROVE  /\ taskQ \in [Lists -> Seq(MessageSet)] /\ doneQ \in Seq(OutcomeSet)
         /\ dlq \in Seq(MessageSet) /\ executing \in [Executors -> MessageSet \cup {NoMsg}]
         /\ api \in [Clients -> Handler]
         /\ \A c \in Clients : api[c] \in Handler /\ api[c].items \in Seq(MessageSet)
BY DEF TypeInv, TypeOK, Handler

LEMMA NobodysMessage == \A r \in Runs : \A k : ~IsFor(NoMsg, r, k)
BY PlanAssumption DEF IsFor, NoMsg

Sends(q, m) == /\ q \in Lists /\ m \in MessageSet
               /\ taskQ' = [taskQ EXCEPT ![q] = Append(taskQ[q], m)]
               /\ UNCHANGED <<doneQ, executing>>

LEMMA SendMoves ==
  ASSUME TypeInv, NEW q, NEW m, Sends(q, m), NEW r \in Runs, NEW k
  PROVE  Msg(r, k)' <=> Msg(r, k) \/ IsFor(m, r, k)
<1>1. taskQ[q] \in Seq(MessageSet) /\ DOMAIN taskQ = Lists /\ q \in Lists
  BY ListTypes DEF Sends
<1>2. Has(Append(taskQ[q], m), r, k) <=> Has(taskQ[q], r, k) \/ IsFor(m, r, k)
  BY <1>1, HasAppend DEF Sends
<1>3. \A p \in Lists : taskQ'[p] = IF p = q THEN Append(taskQ[q], m) ELSE taskQ[p]
  BY <1>1 DEF Sends
<1>4. \A p \in Lists : Has(taskQ'[p], r, k) <=> Has(taskQ[p], r, k) \/ (p = q /\ IsFor(m, r, k))
  BY <1>2, <1>3
<1>5. Has(doneQ', r, k) <=> Has(doneQ, r, k)
  BY DEF Sends
<1>6. (\E e \in Executors : IsFor(executing'[e], r, k)) <=> (\E e \in Executors : IsFor(executing[e], r, k))
  BY DEF Sends
<1>7. (\E p \in Lists : Has(taskQ'[p], r, k)) <=> (\E p \in Lists : Has(taskQ[p], r, k)) \/ IsFor(m, r, k)
  BY <1>1, <1>4
<1>8. Msg(r, k)' <=> \/ \E p \in Lists : Has(taskQ'[p], r, k)
                     \/ Has(doneQ', r, k)
                     \/ \E e \in Executors : IsFor(executing'[e], r, k)
  BY DEF Msg, Has
<1>. QED
  BY <1>5, <1>6, <1>7, <1>8 DEF Msg

LEMMA TakeMoves ==
  ASSUME TypeInv, NEW e \in Executors, TakeTask(e), NEW r \in Runs, NEW k
  PROVE  Msg(r, k)' <=> Msg(r, k)
<1>1. PICK q \in Lists : /\ taskQ[q] # <<>>
                         /\ executing' = [executing EXCEPT ![e] = Head(taskQ[q])]
                         /\ taskQ' = [taskQ EXCEPT ![q] = Tail(taskQ[q])]
  BY DEF TakeTask, ServedList
<1>2. taskQ[q] \in Seq(MessageSet) /\ DOMAIN taskQ = Lists /\ DOMAIN executing = Executors
  BY ListTypes
<1>3. Has(taskQ[q], r, k) <=> Has(Tail(taskQ[q]), r, k) \/ IsFor(Head(taskQ[q]), r, k)
  BY <1>1, <1>2, HasTail
<1>4. ~IsFor(executing[e], r, k) /\ doneQ' = doneQ
  BY NobodysMessage DEF TakeTask
<1>5. \A p \in Lists : taskQ'[p] = IF p = q THEN Tail(taskQ[q]) ELSE taskQ[p]
  BY <1>1, <1>2
<1>6. \A d \in Executors : executing'[d] = IF d = e THEN Head(taskQ[q]) ELSE executing[d]
  BY <1>1, <1>2
<1>7. (\E p \in Lists : Has(taskQ'[p], r, k)) \/ IsFor(Head(taskQ[q]), r, k)
        <=> \E p \in Lists : Has(taskQ[p], r, k)
  BY <1>3, <1>5
<1>8. (\E d \in Executors : IsFor(executing'[d], r, k))
        <=> (\E d \in Executors : IsFor(executing[d], r, k)) \/ IsFor(Head(taskQ[q]), r, k)
  BY <1>4, <1>6
<1>9. Msg(r, k)' <=> \/ \E p \in Lists : Has(taskQ'[p], r, k)
                     \/ Has(doneQ', r, k)
                     \/ \E d \in Executors : IsFor(executing'[d], r, k)
  BY DEF Msg, Has
<1>. QED
  BY <1>4, <1>7, <1>8, <1>9 DEF Msg

LEMMA FinishMoves ==
  ASSUME TypeInv, NEW e \in Executors, FinishTask(e), NEW r \in Runs, NEW k
  PROVE  Msg(r, k)' <=> Msg(r, k)
<1>1. PICK st \in {"SUCCESS", "FAILED"} : doneQ' = Append(doneQ, Finished(executing[e], st))
  BY DEF FinishTask
<1>2. executing[e] \in MessageSet /\ DOMAIN executing = Executors /\ doneQ \in Seq(OutcomeSet)
  BY ListTypes DEF FinishTask
<1>3. Finished(executing[e], st) \in OutcomeSet
  BY <1>2 DEF Finished, MessageSet, OutcomeSet
<1>4. Has(doneQ', r, k) <=> Has(doneQ, r, k) \/ IsFor(Finished(executing[e], st), r, k)
  BY <1>1, <1>2, <1>3, HasAppend
<1>5. IsFor(Finished(executing[e], st), r, k) <=> IsFor(executing[e], r, k)
  BY DEF IsFor, Finished
<1>6. \A d \in Executors : executing'[d] = IF d = e THEN NoMsg ELSE executing[d]
  BY <1>2 DEF FinishTask
<1>7. (\E d \in Executors : IsFor(executing'[d], r, k)) \/ IsFor(executing[e], r, k)
        <=> \E d \in Executors : IsFor(executing[d], r, k)
  BY <1>6, NobodysMessage
<1>8. taskQ' = taskQ
  BY DEF FinishTask
<1>9. Msg(r, k)' <=> \/ \E p \in Lists : Has(taskQ'[p], r, k)
                     \/ Has(doneQ', r, k)
                     \/ \E d \in Executors : IsFor(executing'[d], r, k)
  BY DEF Msg, Has
<1>. QED
  BY <1>4, <1>5, <1>7, <1>8, <1>9 DEF Msg

LEMMA LossMoves ==
  ASSUME TypeInv, NEW e \in Executors, ExecutorCrash(e), NEW r \in Runs, NEW k
  PROVE  Msg(r, k)' => Msg(r, k)
<1>1. \A d \in Executors : executing'[d] = IF d = e THEN NoMsg ELSE executing[d]
  BY ListTypes DEF ExecutorCrash
<1>2. taskQ' = taskQ /\ doneQ' = doneQ
  BY DEF ExecutorCrash, queues
<1>. QED
  BY <1>1, <1>2, NobodysMessage DEF Msg, Has

\* The outcome the scheduler pops.
Pops(h) == /\ doneQ # <<>> /\ h = Head(doneQ) /\ doneQ' = Tail(doneQ)
           /\ UNCHANGED <<taskQ, executing>>

LEMMA PopMoves ==
  ASSUME TypeInv, NEW h, Pops(h), NEW r \in Runs, NEW k
  PROVE  Msg(r, k) <=> Msg(r, k)' \/ IsFor(h, r, k)
<1>1. Has(doneQ, r, k) <=> Has(doneQ', r, k) \/ IsFor(h, r, k)
  BY ListTypes, HasTail DEF Pops
<1>2. Msg(r, k)' <=> \/ \E p \in Lists : Has(taskQ'[p], r, k)
                     \/ Has(doneQ', r, k)
                     \/ \E d \in Executors : IsFor(executing'[d], r, k)
  BY DEF Msg, Has
<1>. QED
  BY <1>1, <1>2 DEF Msg, Pops

\* The scheduler that pushes a task: in external mode nothing is sent.
LEMMA PushSends ==
  ASSUME TypeInv, NEW s \in Schedulers, PushTask(s)
  PROVE  LET l == sched[s]
         IN  /\ UNCHANGED <<task, runStatus, runQ, doneQ, dlq, executing, api, budget>>
             /\ \/ External /\ taskQ' = taskQ
                \/ ~External /\ Sends(Queue[l.run], Message(l.run, l.task, l.attempt))
             /\ l.run \in Runs /\ l.task \in Tasks
             /\ \A r, k : IsFor(Message(l.run, l.task, l.attempt), r, k) <=> r = l.run /\ k = l.task
<1>. DEFINE l == sched[s]
<1>1. l.run \in Runs /\ l.task \in Tasks /\ l.attempt \in Nat
  BY Locals DEF PushTask, Sound, Local
<1>2. Message(l.run, l.task, l.attempt) \in MessageSet /\ Queue[l.run] \in Lists
  BY <1>1, PlanAssumption DEF Message, MessageSet
<1>3. \A r, k : IsFor(Message(l.run, l.task, l.attempt), r, k) <=> r = l.run /\ k = l.task
  BY DEF IsFor, Message
<1>. QED
  BY <1>1, <1>2, <1>3, ModeAssumption DEF PushTask, Sends, rows

\* What the other steps of the loop leave alone.
LEMMA LoopTraffic ==
  ASSUME NEW s \in Schedulers, SchedulerStep(s)
  PROVE  /\ UNCHANGED <<executing, api>>
         /\ \/ PushTask(s) \/ PopDone(s) \/ HandleDead(s)
            \/ UNCHANGED <<taskQ, doneQ, dlq>>
<1>1. CASE PopRun(s) \/ AdmitRun(s) \/ CancelRunTasks(s) \/ SelectRunStatus(s) \/ UpdateRunStatus(s)
  BY <1>1 DEF PopRun, AdmitRun, CancelRunTasks, SelectRunStatus, UpdateRunStatus, queues
<1>2. CASE SelectTaskStatus(s) \/ UpsertTask(s) \/ LoadPlan(s) \/ InitTask(s) \/ FinishInit(s) \/ ReadStates(s)
  BY <1>2 DEF SelectTaskStatus, UpsertTask, LoadPlan, InitTask, FinishInit, ReadStates, queues
<1>3. CASE PickReady(s) \/ PushTask(s) \/ PopDone(s) \/ HandleSuccess(s) \/ HandleRetry(s)
  BY <1>3 DEF PickReady, PushTask, PopDone, HandleSuccess, HandleRetry, queues
<1>4. CASE WakeUp(s) \/ HandleDead(s) \/ SyncRead(s) \/ SyncCancel(s) \/ SyncVerdict(s)
  BY <1>4 DEF WakeUp, HandleDead, SyncRead, SyncCancel, SyncVerdict, queues
<1>. QED
  BY <1>1, <1>2, <1>3, <1>4 DEF SchedulerStep

\* A handler only ever holds letters it read from the dead-letter queue.
LEMMA HandlerLetters ==
  ASSUME TypeInv, NEW c \in Clients, ClientCall(c) \/ ClientStep(c) \/ ClientCrash(c),
         NEW d \in Clients, NEW r, NEW k, Has(api'[d].items, r, k)
  PROVE  Has(api[d].items, r, k) \/ Has(dlq, r, k)
<1>0. CASE d # c
  BY <1>0, ListTypes DEF ClientCall, ClientStep, ClientCrash, CreateRun, CancelRun, ReplayDlq, SetRunStatus,
     PublishRun, CancelTasks, ListDlq, RequeueItem, RemoveItem
<1>. SUFFICES ASSUME d = c PROVE Has(api[d].items, r, k) \/ Has(dlq, r, k)
  BY <1>0
<1>1. CASE ClientCall(c) \/ PublishRun(c) \/ CancelTasks(c) \/ ClientCrash(c)
  <2>1. api'[c].items = <<>> \/ api' = api
    BY <1>1, ListTypes DEF ClientCall, CreateRun, CancelRun, ReplayDlq, SetRunStatus, PublishRun,
       CancelTasks, ClientCrash, IdleClient
  <2>. QED BY <2>1, HasEmpty
<1>2. CASE ListDlq(c)
  <2>1. api'[c] = [api[c] EXCEPT !.op = "requeue", !.items = dlq]
    BY <1>2, ListTypes DEF ListDlq
  <2>2. api'[c].items = dlq
    BY <2>1, ListTypes DEF Handler
  <2>. QED BY <2>2
<1>3. CASE RequeueItem(c) \/ RemoveItem(c)
  <2>1. \/ api'[c] = IdleClient
        \/ api'[c] = [api[c] EXCEPT !.items = Tail(api[c].items)] /\ api[c].items # <<>>
        \/ api'[c] = [api[c] EXCEPT !.op = "lrem"]
        \/ /\ api'[c] = [api[c] EXCEPT !.op = "requeue", !.items = Tail(api[c].items)]
           /\ api[c].items # <<>>
    BY <1>3, ListTypes DEF RequeueItem, RemoveItem, TypeInv, SoundHandler
  <2>2. api[c] \in Handler
    BY ListTypes
  <2>3. \/ api'[c].items = <<>>
        \/ api'[c].items = Tail(api[c].items) /\ api[c].items # <<>>
        \/ api'[c].items = api[c].items
    <3>. DEFINE rest == Tail(api[c].items)
    <3>. HIDE DEF rest
    <3>1. /\ IdleClient.items = <<>>
          /\ [api[c] EXCEPT !.items = rest].items = rest
          /\ [api[c] EXCEPT !.op = "lrem"].items = api[c].items
          /\ [api[c] EXCEPT !.op = "requeue", !.items = rest].items = rest
      BY <2>2 DEF Handler, IdleClient
    <3>. QED BY <2>1, <3>1 DEF rest
  <2>4. api[c].items \in Seq(MessageSet)
    BY ListTypes
  <2>. QED BY <2>3, <2>4, HasEmpty, HasTail
<1>. QED
  BY <1>1, <1>2, <1>3 DEF ClientStep

\* The handler that sends a letter to work again.
LEMMA RequeueSends ==
  ASSUME TypeInv, NEW c \in Clients, RequeueItem(c)
  PROVE  LET m == Head(api[c].items)
         IN  \/ UNCHANGED taskQ
             \/ /\ api[c].items # <<>> /\ m.run = api[c].run /\ m \in MessageSet
                /\ Sends("default", Message(m.run, m.task, m.attempt + 1))
                /\ \A r, k : IsFor(Message(m.run, m.task, m.attempt + 1), r, k) <=> IsFor(m, r, k)
                /\ api'[c].op = "lrem" /\ api'[c].items = api[c].items /\ api'[c].run = api[c].run
<1>. DEFINE m == Head(api[c].items)
            n == Message(m.run, m.task, m.attempt + 1)
<1>1. CASE api[c].items = <<>> \/ m.run # api[c].run
  BY <1>1 DEF RequeueItem
<1>2. CASE api[c].items # <<>> /\ m.run = api[c].run
  <2>1. m \in MessageSet
    BY <1>2, ListTypes
  <2>2. n \in MessageSet /\ \A r, k : IsFor(n, r, k) <=> IsFor(m, r, k)
    <3>. HIDE DEF m
    <3>. QED BY <2>1 DEF Message, MessageSet, IsFor
  <2>3. Sends("default", n)
    BY <1>2, <2>2 DEF RequeueItem, Sends, Lists
  <2>4. api'[c] = [api[c] EXCEPT !.op = "lrem"]
    BY <1>2, ListTypes DEF RequeueItem
  <2>5. api'[c].op = "lrem" /\ api'[c].items = api[c].items /\ api'[c].run = api[c].run
    BY <2>4, ListTypes DEF Handler
  <2>. QED BY <1>2, <2>1, <2>2, <2>3, <2>5
<1>. QED BY <1>1, <1>2

\* Only the scheduler sets new work loose, and only what it holds.
LEMMA LooseMoves ==
  ASSUME TypeInv, [Next]_vars, NEW r \in Runs, NEW k, Loose(r, k)'
  PROVE  Loose(r, k) \/ \E s \in Schedulers : Handed(sched[s], r, k)
<1>0. Loose(r, k)' <=> \/ Msg(r, k)' \/ Has(dlq', r, k)
                       \/ \E c \in Clients : Has(api'[c].items, r, k)
  BY DEF Loose, Has
<1>1. UNCHANGED <<taskQ, doneQ, executing>> => (Msg(r, k)' <=> Msg(r, k))
  BY DEF Msg, Has
<1>2. ASSUME UNCHANGED <<taskQ, doneQ, executing, dlq, api>> PROVE Loose(r, k)
  BY <1>0, <1>1, <1>2 DEF Loose
<1>3. ASSUME NEW s \in Schedulers, SchedulerStep(s) PROVE Loose(r, k) \/ Handed(sched[s], r, k)
  <2>. DEFINE l == sched[s]
  <2>1. CASE PushTask(s)
    <3>1. CASE External
      BY <1>2, <2>1, <3>1, PushSends
    <3>2. CASE ~External
      <4>1. Msg(r, k)' => Msg(r, k) \/ (r = l.run /\ k = l.task)
        BY <2>1, <3>2, PushSends, SendMoves
      <4>2. UNCHANGED <<dlq, api>>
        BY <2>1, PushSends
      <4>3. r = l.run /\ k = l.task => Handed(l, r, k)
        BY <2>1 DEF PushTask, Handed
      <4>. QED BY <1>0, <4>1, <4>2, <4>3 DEF Loose
    <3>. QED BY <3>1, <3>2
  <2>2. CASE PopDone(s)
    <3>1. UNCHANGED <<taskQ, executing, dlq, api>>
      BY <2>2 DEF PopDone
    <3>2. CASE doneQ' = doneQ
      BY <1>2, <3>1, <3>2
    <3>3. CASE doneQ' # doneQ
      <4>1. Pops(Head(doneQ))
        BY <2>2, <3>1, <3>3, PopDoneFlow DEF Pops
      <4>. QED BY <1>0, <3>1, <4>1, PopMoves DEF Loose
    <3>. QED BY <3>2, <3>3
  <2>3. CASE HandleDead(s)
    <3>1. /\ dlq' = Append(dlq, Message(l.run, l.task, l.attempt))
          /\ UNCHANGED <<taskQ, doneQ, executing, api>> /\ l.pc = "handle"
      BY <2>3 DEF HandleDead
    <3>2. l.run \in Runs /\ l.task \in Tasks /\ l.attempt \in Nat
      BY <3>1, Locals DEF Sound, Local
    <3>3. Message(l.run, l.task, l.attempt) \in MessageSet
      BY <3>2 DEF Message, MessageSet
    <3>4. Has(dlq', r, k) => Has(dlq, r, k) \/ IsFor(Message(l.run, l.task, l.attempt), r, k)
      BY <3>1, <3>3, ListTypes, HasAppend
    <3>5. IsFor(Message(l.run, l.task, l.attempt), r, k) => Handed(l, r, k)
      BY <3>1 DEF IsFor, Message, Handed
    <3>. QED BY <1>0, <1>1, <3>1, <3>4, <3>5 DEF Loose
  <2>. QED BY <1>2, <1>3, <2>1, <2>2, <2>3, LoopTraffic
<1>4. ASSUME NEW s \in Schedulers, SchedulerCrash(s) PROVE Loose(r, k)
  BY <1>0, <1>1, <1>4 DEF SchedulerCrash, queues, Loose
<1>5. ASSUME NEW e \in Executors, ExecutorStep(e) \/ ExecutorCrash(e) PROVE Loose(r, k)
  <2>1. Msg(r, k)' => Msg(r, k)
    BY <1>5, TakeMoves, FinishMoves, LossMoves DEF ExecutorStep
  <2>2. UNCHANGED <<dlq, api>>
    BY <1>5 DEF ExecutorStep, TakeTask, FinishTask, ExecutorCrash, queues
  <2>. QED BY <1>0, <2>1, <2>2 DEF Loose
<1>6. ASSUME NEW c \in Clients, ClientCall(c) \/ ClientStep(c) \/ ClientCrash(c) PROVE Loose(r, k)
  <2>1. \A d \in Clients : Has(api'[d].items, r, k) => Has(api[d].items, r, k) \/ Has(dlq, r, k)
    BY <1>6, HandlerLetters
  <2>2. Has(dlq', r, k) => Has(dlq, r, k)
    <3>1. RemoveItem(c) => dlq' = RemoveFirst(dlq, Head(api[c].items))
      BY DEF RemoveItem
    <3>2. ~RemoveItem(c) => dlq' = dlq
      BY <1>6 DEF ClientCall, ClientStep, ClientCrash, CreateRun, CancelRun, ReplayDlq, SetRunStatus,
                  PublishRun, CancelTasks, ListDlq, RequeueItem, queues
    <3>. QED BY <3>1, <3>2, ListTypes, HasRemoved
  <2>3. Msg(r, k)' => Msg(r, k) \/ Has(api[c].items, r, k)
    <3>1. CASE RequeueItem(c)
      <4>1. CASE UNCHANGED taskQ
        BY <1>1, <3>1, <4>1 DEF RequeueItem
      <4>2. CASE ~UNCHANGED taskQ
        <5>. DEFINE m == Head(api[c].items)
        <5>1. /\ api[c].items # <<>> /\ Sends("default", Message(m.run, m.task, m.attempt + 1))
              /\ IsFor(Message(m.run, m.task, m.attempt + 1), r, k) => IsFor(m, r, k)
          BY <3>1, <4>2, RequeueSends
        <5>2. Msg(r, k)' => Msg(r, k) \/ IsFor(m, r, k)
          BY <5>1, SendMoves
        <5>3. IsFor(m, r, k) => Has(api[c].items, r, k)
          BY <5>1, ListTypes, HasTail
        <5>. QED BY <5>2, <5>3
      <4>. QED BY <4>1, <4>2
    <3>2. CASE ~RequeueItem(c)
      <4>1. UNCHANGED <<taskQ, doneQ, executing>>
        BY <1>6, <3>2 DEF ClientCall, ClientStep, ClientCrash, CreateRun, CancelRun, ReplayDlq, SetRunStatus,
                          PublishRun, CancelTasks, ListDlq, RemoveItem, queues
      <4>. QED BY <1>1, <4>1
    <3>. QED BY <3>1, <3>2
  <2>. QED BY <1>0, <2>1, <2>2, <2>3 DEF Loose
<1>7. CASE UNCHANGED vars
  BY <1>2, <1>7 DEF vars
<1>. QED
  BY <1>3, <1>4, <1>5, <1>6, <1>7 DEF Next

-----------------------------------------------------------------------------
\* How the row of a task changes: the scheduler writes what it asked for, or
\* what remains of the run is cancelled.
LEMMA RowMoves ==
  ASSUME TypeInv, [Next]_vars, NEW r \in Runs, NEW k \in Tasks
  PROVE  \/ task'[r][k].status = task[r][k].status
         \/ \E s \in Schedulers : /\ UpsertTask(s) /\ sched[s].run = r /\ sched[s].task = k
                                  /\ task'[r][k].status = sched[s].status
         \/ /\ task[r][k].status \notin {"none", "SUCCESS", "FAILED", "CANCELLED"}
            /\ task'[r][k].status = "CANCELLED"
            /\ \/ \E s \in Schedulers : CancelRunTasks(s) /\ sched[s].run = r
               \/ \E c \in Clients : CancelTasks(c) /\ api[c].run = r
<1>. DEFINE Done(q) == \/ task'[r][k].status = task[r][k].status
                       \/ /\ q = r
                          /\ task[r][k].status \notin {"none", "SUCCESS", "FAILED", "CANCELLED"}
                          /\ task'[r][k].status = "CANCELLED"
<1>1. ASSUME NEW q \in Runs, CancelRemaining(q) PROVE Done(q)
  <2>1. task \in [Runs -> [Tasks -> RowSet]]
    BY DEF TypeInv, TypeOK
  <2>2. task[r][k] \in RowSet
    BY <2>1
  <2>3. task'[r] = IF r = q
                   THEN [j \in Tasks |->
                           IF task[r][j].status \in {"none", "SUCCESS", "FAILED", "CANCELLED"}
                           THEN task[r][j] ELSE [task[r][j] EXCEPT !.status = "CANCELLED"]]
                   ELSE task[r]
    BY <1>1, <2>1 DEF CancelRemaining
  <2>4. [task[r][k] EXCEPT !.status = "CANCELLED"].status = "CANCELLED"
    BY <2>2 DEF RowSet
  <2>. QED BY <2>3, <2>4
<1>2. CASE UNCHANGED task
  BY <1>2
<1>3. ASSUME NEW s \in Schedulers, CancelRunTasks(s)
      PROVE  Done(sched[s].run)
  BY <1>1, <1>3, Locals DEF CancelRunTasks, Top
<1>4. ASSUME NEW c \in Clients, CancelTasks(c) PROVE Done(api[c].run)
  BY <1>1, <1>4 DEF CancelTasks, TypeInv, SoundHandler
<1>5. ASSUME NEW s \in Schedulers, UpsertTask(s)
      PROVE  task'[r][k].status = IF r = sched[s].run /\ k = sched[s].task THEN sched[s].status
                                  ELSE task[r][k].status
  BY <1>5, UpsertTaskFlow
<1>6. ASSUME NEW c \in Clients, ClientCall(c) \/ ClientStep(c), ~CancelTasks(c)
      PROVE  UNCHANGED task
  BY <1>6 DEF ClientCall, ClientStep, CreateRun, CancelRun, ReplayDlq, SetRunStatus, PublishRun,
              ListDlq, RequeueItem, RemoveItem, rows
<1>7. ASSUME NEW e \in Executors, ExecutorStep(e) \/ ExecutorCrash(e) PROVE UNCHANGED task
  BY <1>7 DEF ExecutorStep, TakeTask, FinishTask, ExecutorCrash, rows
<1>8. (\E s \in Schedulers : SchedulerCrash(s)) \/ (\E c \in Clients : ClientCrash(c))
        \/ UNCHANGED vars => UNCHANGED task
  BY DEF SchedulerCrash, ClientCrash, rows, vars
<1>9. ASSUME NEW s \in Schedulers, SchedulerStep(s)
      PROVE  UpsertTask(s) \/ CancelRunTasks(s) \/ UNCHANGED task
  BY <1>9, LoopRows
<1>10. CASE \E s \in Schedulers : UpsertTask(s)
  BY <1>5, <1>10
<1>11. CASE \E s \in Schedulers : CancelRunTasks(s)
  BY <1>3, <1>11
<1>12. CASE \E c \in Clients : CancelTasks(c)
  BY <1>4, <1>12
<1>. QED
  BY <1>2, <1>6, <1>7, <1>8, <1>9, <1>10, <1>11, <1>12 DEF Next

-----------------------------------------------------------------------------
(***************************************************************************)
(* A run is expanded once.  Its event is announced by the handler that     *)
(* created it, queued, popped, perhaps queued again, and used up when the  *)
(* scheduler loads the plan; until then nothing is known of its tasks.     *)
(***************************************************************************)
In(q, r)  == \E i \in 1..Len(q) : q[i] = r
Once(q)   == \A i, j \in 1..Len(q) : q[i] = q[j] => i = j

Announced(c, r) == api[c].op = "publish" /\ api[c].run = r
Waiting(r)      == In(runQ, r) \/ \E c \in Clients : Announced(c, r)

OneEvent ==
  /\ Once(runQ)
  /\ \A c \in Clients, r \in Runs : Announced(c, r) => ~In(runQ, r)
  /\ \A c, d \in Clients, r \in Runs : Announced(c, r) /\ Announced(d, r) => c = d
  /\ \A s \in Schedulers, r \in Runs : On(sched[s], r) => ~Waiting(r)

Before(l) == \/ l.pc \in {"admit", "load"}
             \/ l.pc \in {"runSelect", "runUpdate"} /\ l.cont = "load"

Pristine(r) == \A k \in Tasks : task[r][k].status = "none" /\ ~Loose(r, k)

Unstarted(r) == \/ runStatus[r] = "none"
                \/ Waiting(r)
                \/ \E s \in Schedulers : On(sched[s], r) /\ Before(sched[s])

SkippedDone(t, r) == \A k \in Skipped(r) : t[r][k].status = "SUCCESS"

\* The plan has been gone through: what a replay skips is accounted for.
Past(l) == \/ AtPoint(l, HoldingPoints \cup {"syncCancel"})
           \/ l.pc \in {"ready", "pick", "sync"}
           \/ l.pc = "cancelAll" /\ l.cont = "sync"
           \/ l.pc \in {"runSelect", "runUpdate"} /\ l.status = "SUCCESS"

\* The rows while the plan is gone through, key by key.
Initialising(t, l) ==
  /\ l.todo \subseteq Keys(Plan[l.run])
  /\ \A k \in l.todo : t[l.run][k].status = "none"
  /\ Calling(l) => /\ l.task \in Keys(Plan[l.run]) \ l.todo
                   /\ t[l.run][l.task].status = "none"
                   /\ l.status = InitStatus(l, l.task)
  /\ \A k \in Skipped(l.run) \ l.todo :
       (Calling(l) => k # l.task) => t[l.run][k].status = InitStatus(l, k)

StartOf(t, l) ==
  /\ AtPoint(l, {"initTasks"}) => Initialising(t, l)
  /\ Past(l) => SkippedDone(t, l.run)

StartInv ==
  /\ OrderInv
  /\ OneEvent
  /\ \A r \in Runs : runStatus[r] = "none" => ~Waiting(r) /\ \A s \in Schedulers : ~On(sched[s], r)
  /\ \A r \in Runs : Unstarted(r) => Pristine(r)
  /\ \A s \in Schedulers : StartOf(task, sched[s])
  /\ \A r \in Runs, k \in Tasks : Loose(r, k) => SkippedDone(task, r)

LEMMA InAppend ==
  ASSUME NEW S, NEW q \in Seq(S), NEW m \in S
  PROVE  /\ \A r : In(Append(q, m), r) <=> In(q, r) \/ r = m
         /\ Once(q) /\ ~In(q, m) => Once(Append(q, m))
<1>. DEFINE p == Append(q, m)
<1>1. /\ Len(q) \in Nat /\ Len(p) = Len(q) + 1
      /\ p[Len(q) + 1] = m
      /\ \A i \in 1..Len(q) : p[i] = q[i]
  OBVIOUS
<1>. HIDE DEF p
<1>2. \A i \in 1..Len(p) : i \in 1..Len(q) \/ i = Len(q) + 1
  BY <1>1
<1>3. (\A i \in 1..Len(q) : i \in 1..Len(p)) /\ Len(q) + 1 \in 1..Len(p)
  BY <1>1
<1>4. \A r : In(p, r) <=> In(q, r) \/ r = m
  BY <1>1, <1>2, <1>3 DEF In
<1>5. Once(q) /\ ~In(q, m) => Once(p)
  BY <1>1, <1>2 DEF In, Once
<1>. QED BY <1>4, <1>5 DEF p

LEMMA InTail ==
  ASSUME NEW S, NEW q \in Seq(S), q # <<>>
  PROVE  /\ \A r : In(q, r) <=> In(Tail(q), r) \/ r = Head(q)
         /\ Once(q) => Once(Tail(q)) /\ ~In(Tail(q), Head(q))
<1>. DEFINE p == Tail(q)
<1>1. /\ Len(q) \in Nat /\ Len(q) >= 1 /\ Len(p) = Len(q) - 1 /\ Head(q) = q[1]
      /\ \A i \in 1..Len(p) : p[i] = q[i + 1]
  OBVIOUS
<1>. HIDE DEF p
<1>2. (\A i \in 1..Len(p) : i \in Nat /\ i + 1 \in 1..Len(q) /\ i + 1 # 1) /\ 1 \in 1..Len(q)
  BY <1>1
<1>3. \A i \in 1..Len(q) : i = 1 \/ (i - 1 \in 1..Len(p) /\ p[i - 1] = q[i])
  BY <1>1
<1>4. \A r : In(q, r) <=> In(p, r) \/ r = Head(q)
  BY <1>1, <1>2, <1>3 DEF In
<1>5. ASSUME Once(q) PROVE Once(p) /\ ~In(p, q[1])
  <2>1. ~In(p, q[1])
    BY <1>1, <1>2, <1>5 DEF In, Once
  <2>2. Once(p)
    <3>. SUFFICES ASSUME NEW i \in 1..Len(p), NEW j \in 1..Len(p), p[i] = p[j] PROVE i = j
      BY DEF Once
    <3>1. i + 1 = j + 1
      BY <1>1, <1>2, <1>5 DEF Once
    <3>. QED BY <1>2, <3>1
  <2>. QED BY <2>1, <2>2
<1>. QED BY <1>1, <1>4, <1>5 DEF p

\* Apart from the two pops the loop stays with its run.
LEMMA SameRun ==
  ASSUME TypeInv, NEW s \in Schedulers, SchedulerStep(s), ~PopRun(s), ~PopDone(s)
  PROVE  LET l == sched[s]
             m == sched'[s]
         IN  \/ m.pc \in Top
             \/ /\ m.run = l.run /\ l.pc \notin Top
                /\ Before(m) => Before(l)
<1>1. CASE AdmitRun(s) \/ CancelRunTasks(s)
  BY <1>1, AdmitRunFlow, CancelRunTasksFlow
  DEF WithdrawsAll, AskedRun, Went, Moved, Before, Top, AfterAll
<1>2. CASE SelectRunStatus(s) \/ UpdateRunStatus(s)
  BY <1>2, RunStatusFlow DEF Went, Moved, Before, Top, AfterRun
<1>3. CASE SelectTaskStatus(s) \/ UpsertTask(s)
  BY <1>3, SelectTaskStatusFlow, UpsertTaskFlow DEF Moved, Before, Top, AfterTask
<1>4. CASE LoadPlan(s) \/ InitTask(s) \/ FinishInit(s)
  BY <1>4, LoadPlanFlow, InitTaskFlow, FinishInitFlow DEF Asked, AskedRun, Before, Top
<1>5. CASE ReadStates(s) \/ PickReady(s) \/ PushTask(s)
  BY <1>5, ReadStatesFlow, PickReadyFlow, PushTaskFlow
  DEF Asked, WithdrawsAll, Went, Moved, Before, Top, AfterAll
<1>6. CASE HandleSuccess(s) \/ HandleRetry(s) \/ WakeUp(s) \/ HandleDead(s)
  BY <1>6, HandleFlow DEF Asked, WithdrawsAll, Moved, Before, Top
<1>7. CASE SyncRead(s) \/ SyncCancel(s) \/ SyncVerdict(s)
  BY <1>7, SyncFlow DEF Asked, AskedRun, Before, Top
<1>. QED
  BY <1>1, <1>2, <1>3, <1>4, <1>5, <1>6, <1>7 DEF SchedulerStep

\* Which run a scheduler is on after a step.
LEMMA OnMoves ==
  ASSUME TypeInv, [Next]_vars, NEW s \in Schedulers, NEW r \in Runs, On(sched'[s], r)
  PROVE  \/ On(sched[s], r) /\ (Before(sched'[s]) => Before(sched[s]))
         \/ PopRun(s) /\ runQ # <<>> /\ runQ' = Tail(runQ) /\ r = Head(runQ) /\ api' = api
         \/ /\ PopDone(s) /\ ~Before(sched'[s]) /\ \E k \in Tasks : Msg(r, k)
<1>1. CASE UNCHANGED sched
  BY <1>1
<1>2. ASSUME NEW t \in Schedulers, SchedulerStep(t) \/ SchedulerCrash(t), t # s
      PROVE  sched'[s] = sched[s]
  BY <1>2, Locals DEF SchedulerStep, SchedulerCrash, PopRun, AdmitRun, CancelRunTasks, SelectRunStatus,
     UpdateRunStatus, SelectTaskStatus, UpsertTask, LoadPlan, InitTask, FinishInit, ReadStates, PickReady,
     PushTask, PopDone, HandleSuccess, HandleRetry, WakeUp, HandleDead, SyncRead, SyncCancel,
     SyncVerdict, Restart, Goto
<1>3. CASE SchedulerCrash(s)
  BY <1>3, Locals DEF SchedulerCrash, Restart, AtTop, On, Top
<1>4. CASE SchedulerStep(s) /\ ~PopRun(s) /\ ~PopDone(s)
  BY <1>4, SameRun DEF On
<1>5. CASE PopRun(s)
  BY <1>5, PopRunFlow DEF On, PopRun
<1>6. CASE PopDone(s)
  <2>1. /\ doneQ # <<>> /\ sched'[s].pc = "taskSelect" /\ sched'[s].run = Head(doneQ).run
        /\ Head(doneQ) \in OutcomeSet
    BY <1>6, PopDoneFlow DEF On
  <2>. DEFINE k == Head(doneQ).task
  <2>2. k \in Tasks /\ IsFor(Head(doneQ), r, k)
    BY <2>1 DEF OutcomeSet, IsFor, On
  <2>3. Has(doneQ, r, k)
    BY <2>1, <2>2, ListTypes, HasTail
  <2>. QED BY <1>6, <2>1, <2>2, <2>3 DEF Msg, Before
<1>7. ASSUME NEW e \in Executors, ExecutorStep(e) \/ ExecutorCrash(e) PROVE UNCHANGED sched
  BY <1>7 DEF ExecutorStep, TakeTask, FinishTask, ExecutorCrash
<1>8. ASSUME NEW c \in Clients, ClientCall(c) \/ ClientStep(c) \/ ClientCrash(c) PROVE UNCHANGED sched
  BY <1>8 DEF ClientCall, ClientStep, ClientCrash, CreateRun, CancelRun, ReplayDlq, SetRunStatus,
              PublishRun, CancelTasks, ListDlq, RequeueItem, RemoveItem
<1>. QED
  BY <1>1, <1>2, <1>3, <1>4, <1>5, <1>6, <1>7, <1>8 DEF Next, vars

\* How the event of a run gets from place to place.
Pops1(s)      == PopRun(s) /\ runQ # <<>> /\ runQ' = Tail(runQ) /\ api' = api
Requeues(s)   == /\ AdmitRun(s) /\ runQ' = Append(runQ, sched[s].run) /\ sched'[s].pc \in Top
                 /\ api' = api /\ sched[s].run \in Runs /\ sched[s].pc = "admit"
Creates(c, r) == /\ CreateRun(c, r) /\ runStatus[r] = "none" /\ runQ' = runQ /\ sched' = sched
                 /\ \A d \in Clients, q \in Runs :
                      Announced(d, q)' => Announced(d, q) \/ (d = c /\ q = r)
Publishes(c)  == /\ runQ' = Append(runQ, api[c].run) /\ Announced(c, api[c].run) /\ sched' = sched
                 /\ api[c].run \in Runs
                 /\ \A d \in Clients, q \in Runs : Announced(d, q)' => Announced(d, q) /\ d # c

LEMMA EventMoves ==
  ASSUME TypeInv, [Next]_vars
  PROVE  \/ \E s \in Schedulers : Pops1(s)
         \/ \E s \in Schedulers : Requeues(s)
         \/ \E c \in Clients, r \in Runs : Creates(c, r)
         \/ \E c \in Clients : Publishes(c)
         \/ /\ runQ' = runQ
            /\ \A d \in Clients, q \in Runs : Announced(d, q)' => Announced(d, q)
            /\ \A s \in Schedulers : PopRun(s) => sched'[s].pc \in Top
<1>. DEFINE Nothing == /\ runQ' = runQ
                       /\ \A d \in Clients, q \in Runs : Announced(d, q)' => Announced(d, q)
                       /\ \A s \in Schedulers : PopRun(s) => sched'[s].pc \in Top
<1>0. \A s \in Schedulers : PopRun(s) => sched'[s].pc \in Top \/ Pops1(s)
  BY PopRunFlow DEF Pops1, PopRun
<1>1. ASSUME NEW s \in Schedulers, SchedulerStep(s) PROVE Pops1(s) \/ Requeues(s) \/ runQ' = runQ
  <2>1. CASE PopRun(s)
    BY <2>1, PopRunFlow DEF Pops1, PopRun
  <2>2. CASE AdmitRun(s)
    <3>1. sched[s].run \in Runs
      BY <2>2, Locals DEF AdmitRun, Top
    <3>. QED BY <2>2, <3>1, AdmitRunFlow DEF Requeues, AdmitRun
  <2>3. CASE ~PopRun(s) /\ ~AdmitRun(s)
    BY <1>1, <2>3 DEF SchedulerStep, CancelRunTasks, SelectRunStatus,
       UpdateRunStatus, SelectTaskStatus, UpsertTask, LoadPlan, InitTask, FinishInit, ReadStates, PickReady,
       PushTask, PopDone, HandleSuccess, HandleRetry, WakeUp, HandleDead, SyncRead, SyncCancel,
       SyncVerdict, queues
  <2>. QED BY <2>1, <2>2, <2>3
<1>2. ASSUME NEW s \in Schedulers, SchedulerStep(s) \/ SchedulerCrash(s) PROVE api' = api
  BY <1>2, LoopTraffic DEF SchedulerCrash
<1>3. ASSUME NEW s \in Schedulers, SchedulerCrash(s) PROVE runQ' = runQ
  BY <1>3 DEF SchedulerCrash, queues
<1>4. api' = api => \A d \in Clients, q \in Runs : Announced(d, q)' => Announced(d, q)
  BY DEF Announced
<1>5. ASSUME NEW e \in Executors, ExecutorStep(e) \/ ExecutorCrash(e)
      PROVE  UNCHANGED <<runQ, sched, api>>
  BY <1>5 DEF ExecutorStep, TakeTask, FinishTask, ExecutorCrash, queues
<1>6. ASSUME NEW c \in Clients, ClientCall(c) \/ ClientStep(c) \/ ClientCrash(c)
      PROVE  \/ \E r \in Runs : Creates(c, r)
             \/ Publishes(c)
             \/ /\ runQ' = runQ
                /\ \A d \in Clients, q \in Runs : Announced(d, q)' => Announced(d, q)
  <2>0. api \in [Clients -> Handler] /\ api[c] \in Handler
    BY ListTypes
  <2>1. ASSUME NEW r \in Runs, CreateRun(c, r) PROVE Creates(c, r)
    <3>1. \A d \in Clients : api'[d] = IF d = c THEN [op |-> "publish", run |-> r, items |-> <<>>]
                                       ELSE api[d]
      BY <2>0, <2>1 DEF CreateRun
    <3>. QED BY <2>1, <3>1 DEF CreateRun, Creates, queues, Announced
  <2>2. CASE PublishRun(c)
    <3>1. \A d \in Clients : api'[d] = IF d = c THEN IdleClient ELSE api[d]
      BY <2>0, <2>2 DEF PublishRun
    <3>2. api[c].run \in Runs
      BY <2>2 DEF PublishRun, TypeInv, SoundHandler
    <3>. QED BY <2>2, <3>1, <3>2 DEF PublishRun, Publishes, Announced, IdleClient
  <2>3. ASSUME ~PublishRun(c), \A r \in Runs : ~CreateRun(c, r)
        PROVE  runQ' = runQ /\ \A d \in Clients : d # c => api'[d] = api[d]
    BY <1>6, <2>0, <2>3 DEF ClientCall, ClientStep, ClientCrash, CancelRun, ReplayDlq, SetRunStatus,
              CancelTasks, ListDlq, RequeueItem, RemoveItem, queues
  <2>4. ASSUME ~PublishRun(c), \A r \in Runs : ~CreateRun(c, r)
        PROVE  api'[c] = api[c] \/ api'[c].op # "publish"
    <3>1. CASE ClientCall(c) \/ CancelTasks(c) \/ ClientCrash(c)
      BY <2>0, <2>4, <3>1 DEF ClientCall, ClientCrash, CancelRun, ReplayDlq, SetRunStatus,
         CancelTasks, IdleClient
    <3>2. CASE ListDlq(c) \/ RequeueItem(c) \/ RemoveItem(c)
      <4>1. \A f : [api[c] EXCEPT !.items = f].op = api[c].op
        BY <2>0 DEF Handler
      <4>2. \A f : [api[c] EXCEPT !.op = "requeue", !.items = f].op = "requeue"
        BY <2>0 DEF Handler
      <4>3. [api[c] EXCEPT !.op = "lrem"].op = "lrem"
        BY <2>0 DEF Handler
      <4>4. api[c].op \in {"lrange", "requeue", "lrem"}
        BY <3>2 DEF ListDlq, RequeueItem, RemoveItem
      <4>5. CASE ListDlq(c)
        BY <2>0, <4>2, <4>5 DEF ListDlq
      <4>6. CASE RequeueItem(c)
        <5>1. \/ api'[c] = IdleClient
              \/ api'[c] = [api[c] EXCEPT !.items = Tail(api[c].items)]
              \/ api'[c] = [api[c] EXCEPT !.op = "lrem"]
          BY <2>0, <4>6 DEF RequeueItem
        <5>2. IdleClient.op = "idle"
          BY DEF IdleClient
        <5>. QED BY <4>1, <4>3, <4>4, <5>1, <5>2
      <4>7. CASE RemoveItem(c)
        BY <2>0, <4>2, <4>7 DEF RemoveItem
      <4>. QED BY <3>2, <4>5, <4>6, <4>7
    <3>. QED BY <1>6, <2>4, <3>1, <3>2 DEF ClientStep
  <2>. QED BY <2>1, <2>2, <2>3, <2>4 DEF Announced
<1>7. ASSUME NEW c \in Clients, ClientCall(c) \/ ClientStep(c) \/ ClientCrash(c) PROVE UNCHANGED sched
  BY <1>7 DEF ClientCall, ClientStep, ClientCrash, CreateRun, CancelRun, ReplayDlq, SetRunStatus,
              PublishRun, CancelTasks, ListDlq, RequeueItem, RemoveItem
<1>8. UNCHANGED vars => UNCHANGED <<runQ, api>>
  BY DEF vars
<1>. QED
  BY <1>0, <1>1, <1>2, <1>3, <1>4, <1>5, <1>6, <1>8 DEF Next

\* Until its plan is loaded nothing becomes of the tasks of a run.
LEMMA PristineStays ==
  ASSUME TypeInv, [Next]_vars, NEW r \in Runs, Pristine(r),
         \A s \in Schedulers : On(sched[s], r) => Before(sched[s])
  PROVE  Pristine(r)'
<1>. SUFFICES ASSUME NEW k \in Tasks PROVE task'[r][k].status = "none" /\ ~Loose(r, k)'
  BY DEF Pristine
<1>1. task[r][k].status = "none" /\ ~Loose(r, k)
  BY DEF Pristine
<1>2. \A s \in Schedulers : ~Handed(sched[s], r, k)
  BY DEF Handed, On, Before, Top
<1>3. \A s \in Schedulers : UpsertTask(s) => sched[s].run # r
  BY UpsertTaskFlow DEF On, Before, Top
<1>. QED
  BY <1>1, <1>2, <1>3, RowMoves, LooseMoves

\* The row of a run is never taken away.
LEMMA NoneStays ==
  ASSUME TypeInv, [Next]_vars, NEW r \in Runs, runStatus'[r] = "none"
  PROVE  runStatus[r] = "none"
<1>0. runStatus \in [Runs -> RunStatus \cup {"none"}]
  BY DEF TypeInv, TypeOK
<1>1. ASSUME NEW s \in Schedulers, SchedulerStep(s), ~UpdateRunStatus(s)
      PROVE  UNCHANGED runStatus
  BY <1>1 DEF SchedulerStep, PopRun, AdmitRun, CancelRunTasks, SelectRunStatus, SelectTaskStatus,
     UpsertTask, LoadPlan, InitTask, FinishInit, ReadStates, PickReady, PushTask, PopDone,
     HandleSuccess, HandleRetry, WakeUp, HandleDead, SyncRead, SyncCancel, SyncVerdict, rows
<1>2. ASSUME NEW s \in Schedulers, UpdateRunStatus(s) PROVE runStatus[r] = "none"
  <2>1. sched[s].status # "none"
    BY <1>2, Locals DEF UpdateRunStatus, Sound, RunStatus
  <2>. QED BY <1>0, <1>2, <2>1 DEF UpdateRunStatus
<1>3. ASSUME NEW c \in Clients, ClientCall(c) \/ ClientStep(c) PROVE runStatus[r] = "none"
  <2>1. CASE \E q \in Runs : CreateRun(c, q) \/ CancelRun(c, q)
    BY <1>0, <2>1 DEF CreateRun, CancelRun
  <2>2. CASE \E q \in Runs : ReplayDlq(c, q)
    BY <1>0, <2>2 DEF ReplayDlq
  <2>3. CASE \E q \in Runs : \E st \in ManualStatus : SetRunStatus(c, q, st)
    BY <1>0, <2>3, ManualAssumption DEF SetRunStatus, RunStatus
  <2>4. CASE ClientStep(c)
    BY <2>4 DEF ClientStep, PublishRun, CancelTasks, ListDlq, RequeueItem, RemoveItem, rows
  <2>. QED BY <1>3, <2>1, <2>2, <2>3, <2>4 DEF ClientCall
<1>4. ASSUME NEW e \in Executors, ExecutorStep(e) \/ ExecutorCrash(e) PROVE UNCHANGED runStatus
  BY <1>4 DEF ExecutorStep, TakeTask, FinishTask, ExecutorCrash, rows
<1>5. (\E s \in Schedulers : SchedulerCrash(s)) \/ (\E c \in Clients : ClientCrash(c))
        \/ UNCHANGED vars => UNCHANGED runStatus
  BY DEF SchedulerCrash, ClientCrash, rows, vars
<1>. QED
  BY <1>1, <1>2, <1>3, <1>4, <1>5 DEF Next

\* No way back: a run whose plan was loaded is never waiting for that again.
LEMMA UnstartedBack ==
  ASSUME TypeInv, [Next]_vars, NEW r \in Runs, Unstarted(r)'
  PROVE  Unstarted(r)
<1>1. CASE runStatus'[r] = "none"
  BY <1>1, NoneStays DEF Unstarted
<1>2. CASE In(runQ', r) \/ \E c \in Clients : Announced(c, r)'
  <2>0. runQ \in Seq(Runs)
    BY DEF TypeInv, TypeOK
  <2>1. ASSUME NEW s \in Schedulers, Pops1(s) PROVE Unstarted(r)
    BY <1>2, <2>0, <2>1, InTail DEF Pops1, Unstarted, Waiting, Announced
  <2>2. ASSUME NEW s \in Schedulers, Requeues(s) PROVE Unstarted(r)
    <3>1. On(sched[s], sched[s].run) /\ Before(sched[s])
      BY <2>2 DEF Requeues, On, Top, Before
    <3>2. In(runQ', r) => In(runQ, r) \/ r = sched[s].run
      BY <2>0, <2>2, InAppend DEF Requeues
    <3>3. \A c \in Clients : Announced(c, r)' => Announced(c, r)
      BY <2>2 DEF Requeues, Announced
    <3>. QED BY <1>2, <3>1, <3>2, <3>3 DEF Unstarted, Waiting
  <2>3. ASSUME NEW c \in Clients, NEW q \in Runs, Creates(c, q) PROVE Unstarted(r)
    BY <1>2, <2>3 DEF Creates, Unstarted, Waiting
  <2>4. ASSUME NEW c \in Clients, Publishes(c) PROVE Unstarted(r)
    <3>1. In(runQ', r) => In(runQ, r) \/ r = api[c].run
      BY <2>0, <2>4, InAppend DEF Publishes
    <3>. QED BY <1>2, <2>4, <3>1 DEF Publishes, Unstarted, Waiting
  <2>. QED BY <1>2, <2>1, <2>2, <2>3, <2>4, EventMoves DEF Unstarted, Waiting
<1>3. ASSUME NEW s \in Schedulers, On(sched'[s], r), Before(sched'[s]) PROVE Unstarted(r)
  <2>1. PopRun(s) /\ runQ # <<>> /\ r = Head(runQ) => In(runQ, r)
    BY InTail DEF TypeInv, TypeOK
  <2>. QED BY <1>3, <2>1, OnMoves DEF Unstarted, Waiting
<1>. QED
  BY <1>1, <1>2, <1>3 DEF Unstarted, Waiting, In

LEMMA UnstartedIdle ==
  ASSUME OneScheduler, StartInv, NEW r \in Runs, Unstarted(r)
  PROVE  Pristine(r) /\ \A s \in Schedulers : On(sched[s], r) => Before(sched[s])
BY DEF StartInv, Unstarted, OneEvent, OneScheduler

LEMMA PristineNext ==
  ASSUME OneScheduler, StartInv, [Next]_vars, NEW r \in Runs, Unstarted(r)'
  PROVE  Pristine(r)'
BY UnstartedBack, UnstartedIdle, PristineStays DEF StartInv, OrderInv

Unborn == \A r \in Runs : runStatus[r] = "none" => ~Waiting(r) /\ \A s \in Schedulers : ~On(sched[s], r)

LEMMA WaitingPrimed ==
  \A r : Waiting(r)' <=> In(runQ', r) \/ \E c \in Clients : Announced(c, r)'
BY DEF Waiting, In

\* The event of a run is in one place, and nowhere once the run is started.
LEMMA EventsNext ==
  ASSUME OneScheduler, StartInv, [Next]_vars
  PROVE  /\ Once(runQ')
         /\ \A c \in Clients, r \in Runs : Announced(c, r)' => ~In(runQ', r)
         /\ \A c, d \in Clients, r \in Runs : Announced(c, r)' /\ Announced(d, r)' => c = d
<1>0. runQ \in Seq(Runs) /\ OneEvent /\ Unborn
  BY DEF StartInv, OrderInv, TypeInv, TypeOK, Unborn
<1>1. ASSUME NEW s \in Schedulers, Pops1(s)
      PROVE  /\ Once(runQ') /\ \A r : In(runQ', r) => In(runQ, r)
             /\ \A c, r : Announced(c, r)' <=> Announced(c, r)
  BY <1>0, <1>1, InTail DEF Pops1, OneEvent, Announced
<1>2. ASSUME NEW s \in Schedulers, Requeues(s)
      PROVE  /\ Once(runQ') /\ \A r : In(runQ', r) => In(runQ, r) \/ r = sched[s].run
             /\ \A c, r : Announced(c, r)' <=> Announced(c, r)
             /\ \A c \in Clients : ~Announced(c, sched[s].run)
  <2>1. On(sched[s], sched[s].run) /\ sched[s].run \in Runs
    BY <1>2 DEF Requeues, On, Top
  <2>2. ~Waiting(sched[s].run)
    BY <1>0, <2>1 DEF OneEvent
  <2>3. \A r : In(runQ', r) => In(runQ, r) \/ r = sched[s].run
    BY <1>0, <1>2, InAppend DEF Requeues
  <2>4. Once(runQ')
    BY <1>0, <1>2, <2>2, InAppend DEF Requeues, OneEvent, Waiting
  <2>5. \A c, r : Announced(c, r)' <=> Announced(c, r)
    BY <1>2 DEF Requeues, Announced
  <2>. QED BY <2>2, <2>3, <2>4, <2>5 DEF Waiting
<1>3. ASSUME NEW c \in Clients, NEW q \in Runs, Creates(c, q)
      PROVE  /\ runQ' = runQ /\ ~In(runQ, q) /\ \A d \in Clients : ~Announced(d, q)
             /\ \A d \in Clients, r \in Runs : Announced(d, r)' => Announced(d, r) \/ (d = c /\ r = q)
  BY <1>0, <1>3 DEF Creates, Unborn, Waiting
<1>4. ASSUME NEW c \in Clients, Publishes(c)
      PROVE  /\ Once(runQ') /\ \A r : In(runQ', r) => In(runQ, r) \/ r = api[c].run
             /\ \A d \in Clients, q \in Runs : Announced(d, q)' => Announced(d, q)
             /\ \A d \in Clients, q \in Runs : q = api[c].run => ~Announced(d, q)'
  <2>1. \A r : In(runQ', r) => In(runQ, r) \/ r = api[c].run
    BY <1>0, <1>4, InAppend DEF Publishes
  <2>2. ~In(runQ, api[c].run)
    BY <1>0, <1>4 DEF OneEvent, Publishes
  <2>3. Once(runQ')
    BY <1>0, <1>4, <2>2, InAppend DEF Publishes, OneEvent
  <2>4. \A d \in Clients, q \in Runs : q = api[c].run => ~Announced(d, q)'
    BY <1>0, <1>4 DEF Publishes, OneEvent
  <2>. QED BY <1>4, <2>1, <2>3, <2>4 DEF Publishes
<1>5. CASE \E s \in Schedulers : Pops1(s)
  BY <1>0, <1>1, <1>5 DEF OneEvent
<1>6. CASE \E s \in Schedulers : Requeues(s)
  BY <1>0, <1>2, <1>6 DEF OneEvent
<1>7. CASE \E c \in Clients, r \in Runs : Creates(c, r)
  BY <1>0, <1>3, <1>7 DEF OneEvent
<1>8. CASE \E c \in Clients : Publishes(c)
  BY <1>0, <1>4, <1>8 DEF OneEvent
<1>9. CASE runQ' = runQ /\ \A d \in Clients, q \in Runs : Announced(d, q)' => Announced(d, q)
  BY <1>0, <1>9 DEF OneEvent
<1>. QED
  BY <1>5, <1>6, <1>7, <1>8, <1>9, EventMoves DEF StartInv, OrderInv

\* Whom a run waits for after a step: nobody it did not wait for before,
\* unless it was just created or its scheduler put it back.
LEMMA WaitingBack ==
  ASSUME TypeInv, [Next]_vars, NEW r \in Runs, Waiting(r)'
  PROVE  \/ Waiting(r)
         \/ \E s \in Schedulers : sched[s].run = r /\ sched[s].pc = "admit" /\ sched'[s].pc \in Top
         \/ runStatus[r] = "none" /\ runStatus'[r] # "none" /\ sched' = sched
<1>0. runQ \in Seq(Runs)
  BY DEF TypeInv, TypeOK
<1>1. In(runQ', r) \/ \E c \in Clients : Announced(c, r)'
  BY WaitingPrimed
<1>2. ASSUME NEW s \in Schedulers, Pops1(s) PROVE Waiting(r)
  BY <1>0, <1>1, <1>2, InTail DEF Pops1, Waiting, Announced
<1>3. ASSUME NEW s \in Schedulers, Requeues(s) PROVE Waiting(r) \/ sched[s].run = r
  BY <1>0, <1>1, <1>3, InAppend DEF Requeues, Waiting, Announced
<1>4. ASSUME NEW c \in Clients, NEW q \in Runs, Creates(c, q)
      PROVE  Waiting(r) \/ (runStatus[r] = "none" /\ runStatus'[r] # "none")
  <2>1. runStatus'[q] = "PENDING"
    BY <1>4 DEF Creates, CreateRun, TypeInv, TypeOK
  <2>. QED BY <1>1, <1>4, <2>1 DEF Creates, Waiting
<1>5. ASSUME NEW c \in Clients, Publishes(c) PROVE Waiting(r)
  BY <1>0, <1>1, <1>5, InAppend DEF Publishes, Waiting
<1>. QED
  BY <1>1, <1>2, <1>3, <1>4, <1>5, EventMoves DEF Requeues, Creates, Waiting

LEMMA OnNext ==
  ASSUME OneScheduler, StartInv, [Next]_vars, NEW s \in Schedulers, NEW r \in Runs, On(sched'[s], r)
  PROVE  ~Waiting(r)'
<1>0. TypeInv /\ OneEvent /\ Unborn
  BY DEF StartInv, OrderInv, Unborn
<1>1. CASE On(sched[s], r)
  BY <1>0, <1>1, WaitingBack DEF OneEvent, Unborn, OneScheduler, On
<1>2. CASE PopRun(s) /\ runQ # <<>> /\ runQ' = Tail(runQ) /\ r = Head(runQ) /\ api' = api
  <2>1. In(runQ, r) /\ ~In(runQ', r)
    BY <1>0, <1>2, InTail DEF OneEvent, TypeInv, TypeOK
  <2>2. \A c \in Clients : ~Announced(c, r)'
    BY <1>0, <1>2, <2>1 DEF OneEvent, Announced
  <2>. QED BY <2>1, <2>2, WaitingPrimed
<1>3. CASE \E k \in Tasks : Msg(r, k)
  <2>1. ~Unstarted(r)
    BY <1>3, UnstartedIdle DEF Pristine, Loose
  <2>. QED BY <1>0, <2>1, UnstartedBack DEF Unstarted
<1>. QED
  BY <1>0, <1>1, <1>2, <1>3, OnMoves

LEMMA UnbornNext ==
  ASSUME OneScheduler, StartInv, [Next]_vars
  PROVE  Unborn'
<1>. SUFFICES ASSUME NEW r \in Runs, runStatus'[r] = "none"
              PROVE  ~Waiting(r)' /\ \A s \in Schedulers : ~On(sched'[s], r)
  BY DEF Unborn, On
<1>0. TypeInv /\ Unborn /\ OneEvent /\ runStatus[r] = "none"
  BY NoneStays DEF StartInv, OrderInv, Unborn
<1>1. ~Waiting(r) /\ \A s \in Schedulers : ~On(sched[s], r)
  BY <1>0 DEF Unborn
<1>2. \A k \in Tasks : ~Msg(r, k)
  BY <1>0, UnstartedIdle DEF Unstarted, Pristine, Loose
<1>3. ~Waiting(r)'
  BY <1>0, <1>1, WaitingBack DEF On, Top
<1>4. ASSUME NEW s \in Schedulers, On(sched'[s], r) PROVE FALSE
  <2>1. runQ # <<>> /\ r = Head(runQ) => In(runQ, r)
    BY <1>0, InTail DEF TypeInv, TypeOK
  <2>. QED BY <1>0, <1>1, <1>2, <1>4, <2>1, OnMoves DEF Waiting
<1>. QED BY <1>3, <1>4

\* What is skipped and done stays done.
LEMMA SkippedStays ==
  ASSUME OrderInv, [Next]_vars, NEW r \in Runs, SkippedDone(task, r)
  PROVE  SkippedDone(task', r)
<1>1. Kept(task, task') /\ Skipped(r) \subseteq Tasks
  BY RowsKept, KeysAreTasks
<1>. QED BY <1>1 DEF SkippedDone, Kept

LEMMA HandedPast ==
  ASSUME NEW l, NEW r, NEW k, Handed(l, r, k)
  PROVE  Past(l) /\ l.run = r
BY DEF Handed, Past, AtPoint, HoldingPoints

LEMMA LooseNext ==
  ASSUME StartInv, [Next]_vars, NEW r \in Runs, NEW k \in Tasks, Loose(r, k)'
  PROVE  SkippedDone(task', r)
<1>1. SkippedDone(task, r)
  BY LooseMoves, HandedPast DEF StartInv, OrderInv, StartOf
<1>. QED BY <1>1, SkippedStays DEF StartInv

\* A scheduler that stays with its run, past the initialisation.
LEMMA PastStart ==
  ASSUME StartInv, [Next]_vars, NEW s \in Schedulers, NEW m,
         ~AtPoint(m, {"initTasks"}),
         Past(m) => Past(sched[s]) /\ m.run = sched[s].run
  PROVE  StartOf(task', m)
<1>1. Past(m) => m.run \in Runs /\ SkippedDone(task, m.run)
  <2>1. Past(sched[s]) => sched[s].pc \notin Top
    BY DEF Past, AtPoint, Calling, HoldingPoints, Top
  <2>. QED BY <2>1, Locals DEF StartInv, OrderInv, StartOf
<1>. QED BY <1>1, SkippedStays DEF StartInv, StartOf

LEMMA TopStart ==
  ASSUME NEW t, NEW m, m.pc \in Top
  PROVE  StartOf(t, m)
BY DEF StartOf, AtPoint, Calling, Past, HoldingPoints, Top

LEMMA RunLoopStart ==
  ASSUME StartInv, [Next]_vars, NEW s \in Schedulers,
         PopRun(s) \/ AdmitRun(s) \/ CancelRunTasks(s) \/ SelectRunStatus(s) \/ UpdateRunStatus(s)
  PROVE  StartOf(task', sched'[s])
<1>. DEFINE l == sched[s]
            m == sched'[s]
<1>0. TypeInv
  BY DEF StartInv, OrderInv
<1>1. \/ m.pc \in Top
      \/ ~AtPoint(m, {"initTasks"}) /\ (Past(m) => Past(l) /\ m.run = l.run)
  <2>1. CASE PopRun(s)
    BY <1>0, <2>1, PopRunFlow DEF AtPoint, Past, Calling, HoldingPoints, Top
  <2>2. CASE AdmitRun(s)
    BY <1>0, <2>2, AdmitRunFlow DEF WithdrawsAll, AskedRun, AtPoint, Past, Calling, HoldingPoints, Top
  <2>3. CASE CancelRunTasks(s)
    BY <1>0, <2>3, CancelRunTasksFlow DEF Went, Moved, AfterAll, AtPoint, Past, Calling, HoldingPoints, Top
  <2>4. CASE SelectRunStatus(s) \/ UpdateRunStatus(s)
    BY <1>0, <2>4, RunStatusFlow DEF Went, Moved, AfterRun, AtPoint, Past, Calling, HoldingPoints, Top
  <2>. QED BY <2>1, <2>2, <2>3, <2>4
<1>. QED BY <1>1, PastStart, TopStart

LEMMA ReadyLoopStart ==
  ASSUME StartInv, [Next]_vars, NEW s \in Schedulers,
         ReadStates(s) \/ PickReady(s) \/ PushTask(s) \/ HandleSuccess(s) \/ HandleRetry(s) \/ WakeUp(s)
         \/ HandleDead(s) \/ SyncRead(s) \/ SyncCancel(s) \/ SyncVerdict(s)
  PROVE  StartOf(task', sched'[s])
<1>. DEFINE l == sched[s]
            m == sched'[s]
<1>0. TypeInv
  BY DEF StartInv, OrderInv
<1>1. \/ m.pc \in Top
      \/ ~AtPoint(m, {"initTasks"}) /\ (Past(m) => Past(l) /\ m.run = l.run)
  <2>1. CASE ReadStates(s)
    BY <1>0, <2>1, ReadStatesFlow DEF WithdrawsAll, AtPoint, Past, Calling, HoldingPoints, Top
  <2>2. CASE PickReady(s)
    BY <1>0, <2>2, PickReadyFlow DEF Asked, Went, Moved, AfterAll, AtPoint, Past, Calling, HoldingPoints, Top
  <2>3. CASE PushTask(s)
    BY <1>0, <2>3, PushTaskFlow DEF Went, Moved, AtPoint, Past, Calling, HoldingPoints, Top
  <2>4. CASE HandleSuccess(s) \/ HandleRetry(s) \/ WakeUp(s) \/ HandleDead(s)
    BY <1>0, <2>4, HandleFlow DEF WithdrawsAll, Moved, Asked, AtPoint, Past, Calling, HoldingPoints, Top
  <2>5. CASE SyncRead(s) \/ SyncCancel(s) \/ SyncVerdict(s)
    BY <1>0, <2>5, SyncFlow DEF AskedRun, Asked, AtPoint, Past, Calling, HoldingPoints, Top
  <2>. QED BY <2>1, <2>2, <2>3, <2>4, <2>5
<1>. QED BY <1>1, PastStart, TopStart

LEMMA SelectTaskStart ==
  ASSUME StartInv, [Next]_vars, NEW s \in Schedulers, SelectTaskStatus(s)
  PROVE  StartOf(task', sched'[s])
<1>. DEFINE l == sched[s]
            m == sched'[s]
<1>0. TypeInv /\ StartOf(task, l) /\ UNCHANGED task
  BY DEF StartInv, OrderInv, SelectTaskStatus, rows
<1>1. /\ l.pc = "taskSelect" /\ l.cont \in AfterTask /\ l.run \in Runs
      /\ \/ Moved(l, m, "taskUpdate")
         \/ Moved(l, m, l.cont) /\ task[l.run][l.task].status # "none"
  BY <1>0, SelectTaskStatusFlow, Locals DEF Top
<1>2. CASE l.cont = "initTasks"
  <2>1. Initialising(task, l) /\ Calling(l)
    BY <1>0, <1>1, <1>2 DEF StartOf, AtPoint, Calling
  <2>2. Moved(l, m, "taskUpdate")
    BY <1>1, <2>1 DEF Initialising
  <2>3. Initialising(task, m)
    BY <2>1, <2>2 DEF Initialising, Moved, Calling, InitStatus
  <2>4. ~Past(m)
    BY <1>2, <2>2 DEF Moved, Past, AtPoint, Calling, HoldingPoints
  <2>. QED BY <1>0, <2>3, <2>4 DEF StartOf
<1>3. CASE l.cont # "initTasks"
  <2>1. ~AtPoint(m, {"initTasks"}) /\ (Past(m) => Past(l) /\ m.run = l.run)
    BY <1>1, <1>3 DEF Moved, Past, AtPoint, Calling, HoldingPoints, AfterTask
  <2>. QED BY <2>1, PastStart
<1>. QED BY <1>2, <1>3

LEMMA UpsertTaskStart ==
  ASSUME StartInv, [Next]_vars, NEW s \in Schedulers, UpsertTask(s)
  PROVE  StartOf(task', sched'[s])
<1>. DEFINE l == sched[s]
            m == sched'[s]
<1>0. TypeInv /\ StartOf(task, l)
  BY DEF StartInv, OrderInv
<1>1. /\ l.pc = "taskUpdate" /\ l.cont \in AfterTask /\ l.run \in Runs
      /\ Moved(l, m, l.cont)
      /\ \A k \in Tasks : task'[l.run][k].status = IF k = l.task THEN l.status ELSE task[l.run][k].status
  BY <1>0, UpsertTaskFlow
<1>2. CASE l.cont = "initTasks"
  <2>1. Initialising(task, l) /\ Calling(l)
    BY <1>0, <1>1, <1>2 DEF StartOf, AtPoint, Calling
  <2>2. Keys(Plan[l.run]) \subseteq Tasks /\ Skipped(l.run) \subseteq Tasks
    BY <1>1, KeysAreTasks
  <2>3. ~Calling(m) /\ m.run = l.run /\ m.todo = l.todo /\ m.proven = l.proven /\ ~Past(m)
    BY <1>1, <1>2 DEF Moved, Calling, Past, AtPoint, HoldingPoints
  <2>4. \A k : InitStatus(m, k) = InitStatus(l, k)
    BY <2>3 DEF InitStatus
  <2>5. Initialising(task', m)
    BY <1>1, <2>1, <2>2, <2>3, <2>4 DEF Initialising
  <2>. QED BY <2>3, <2>5 DEF StartOf
<1>3. CASE l.cont # "initTasks"
  <2>1. ~AtPoint(m, {"initTasks"}) /\ (Past(m) => Past(l) /\ m.run = l.run)
    BY <1>1, <1>3 DEF Moved, Past, AtPoint, Calling, HoldingPoints, AfterTask
  <2>. QED BY <2>1, PastStart
<1>. QED BY <1>2, <1>3

LEMMA InitStart ==
  ASSUME StartInv, [Next]_vars, NEW s \in Schedulers, LoadPlan(s) \/ InitTask(s) \/ FinishInit(s)
  PROVE  StartOf(task', sched'[s])
<1>. DEFINE l == sched[s]
            m == sched'[s]
<1>0. TypeInv /\ StartOf(task, l) /\ UNCHANGED task
  BY DEF StartInv, OrderInv, LoadPlan, InitTask, FinishInit, rows
<1>1. CASE LoadPlan(s)
  <2>1. l.pc = "load" /\ m.pc = "initTasks" /\ m.run = l.run /\ m.todo = Keys(Plan[l.run]) /\ l.run \in Runs
    BY <1>0, <1>1, LoadPlanFlow, Locals DEF Top
  <2>2. Pristine(l.run)
    BY <2>1 DEF StartInv, Unstarted, On, Before, Top
  <2>3. Keys(Plan[l.run]) \subseteq Tasks /\ Skipped(l.run) \subseteq Keys(Plan[l.run])
    BY <2>1, KeysAreTasks
  <2>4. ~Calling(m) /\ ~Past(m)
    BY <2>1 DEF Calling, Past, AtPoint, HoldingPoints
  <2>5. Initialising(task, m)
    BY <2>1, <2>2, <2>3, <2>4 DEF Initialising, Pristine
  <2>. QED BY <1>0, <2>4, <2>5 DEF StartOf
<1>2. CASE InitTask(s)
  <2>1. /\ l.pc = "initTasks"
        /\ Initialising(task, l) /\ ~Calling(l)
    BY <1>0, <1>2, InitTaskFlow DEF StartOf, AtPoint, Calling
  <2>2. PICK k \in l.todo : m.todo = l.todo \ {k} /\ Asked(l, m, k, InitStatus(l, k), 1, "initTasks")
    BY <1>0, <1>2, InitTaskFlow
  <2>3. Calling(m) /\ m.task = k /\ m.run = l.run /\ m.status = InitStatus(l, k) /\ ~Past(m)
    BY <2>2 DEF Asked, Calling, Past, AtPoint, HoldingPoints
  <2>4. \A j : InitStatus(m, j) = InitStatus(l, j)
    BY <2>2 DEF Asked, InitStatus
  <2>5. Initialising(task, m)
    BY <2>1, <2>2, <2>3, <2>4 DEF Initialising
  <2>. QED BY <1>0, <2>3, <2>5 DEF StartOf
<1>3. CASE FinishInit(s)
  <2>1. /\ l.pc = "initTasks" /\ l.todo = {} /\ Initialising(task, l) /\ ~Calling(l)
    BY <1>0, <1>3, FinishInitFlow DEF StartOf, AtPoint, Calling
  <2>2. CASE Skipped(l.run) \subseteq l.proven /\ m.pc = "ready" /\ m.run = l.run
    <3>1. SkippedDone(task, l.run)
      BY <2>1, <2>2 DEF Initialising, SkippedDone, InitStatus, Skipped, SkippedKeys, Selected
    <3>2. ~AtPoint(m, {"initTasks"})
      BY <2>2 DEF AtPoint, Calling
    <3>. QED BY <1>0, <2>2, <3>1, <3>2 DEF StartOf
  <2>3. CASE AskedRun(l, m, "FAILED", "pollRuns")
    BY <2>3 DEF AskedRun, StartOf, AtPoint, Calling, Past, HoldingPoints
  <2>. QED BY <1>0, <1>3, <2>2, <2>3, FinishInitFlow
<1>. QED BY <1>1, <1>2, <1>3

LEMMA PopDoneStart ==
  ASSUME StartInv, [Next]_vars, NEW s \in Schedulers, PopDone(s)
  PROVE  StartOf(task', sched'[s])
<1>. DEFINE h == Head(doneQ)
            m == sched'[s]
<1>0. TypeInv
  BY DEF StartInv, OrderInv
<1>1. CASE m.pc \in Top
  BY <1>1, TopStart
<1>2. CASE m.pc \notin Top
  <2>1. /\ doneQ # <<>> /\ m.pc = "taskSelect" /\ m.run = h.run /\ m.cont = "handle"
        /\ h \in OutcomeSet
    BY <1>0, <1>2, PopDoneFlow
  <2>2. h.run \in Runs /\ h.task \in Tasks /\ IsFor(h, h.run, h.task)
    BY <2>1 DEF OutcomeSet, IsFor
  <2>3. Has(doneQ, h.run, h.task)
    BY <1>0, <2>1, <2>2, ListTypes, HasTail
  <2>4. SkippedDone(task', h.run)
    BY <2>2, <2>3, SkippedStays DEF StartInv, Loose, Msg
  <2>5. ~AtPoint(m, {"initTasks"})
    BY <2>1 DEF AtPoint, Calling
  <2>. QED BY <2>1, <2>4, <2>5 DEF StartOf
<1>. QED BY <1>1, <1>2

LEMMA OthersStart ==
  ASSUME StartInv, [Next]_vars, UNCHANGED sched, NEW s \in Schedulers
  PROVE  StartOf(task', sched[s])
<1>. DEFINE l == sched[s]
<1>0. TypeInv /\ StartOf(task, l)
  BY DEF StartInv, OrderInv
<1>1. CASE AtPoint(l, {"initTasks"})
  <2>1. l.run \in Runs /\ Initialising(task, l) /\ ~Past(l)
    BY <1>0, <1>1, Locals DEF StartOf, AtPoint, Calling, Top, Past, HoldingPoints
  <2>2. Keys(Plan[l.run]) \subseteq Tasks /\ Skipped(l.run) \subseteq Keys(Plan[l.run])
    BY <2>1, KeysAreTasks
  <2>3. \A q \in Schedulers : ~UpsertTask(q)
    BY <1>0, UpsertTaskFlow DEF Moved, AfterTask
  <2>4. ASSUME NEW k \in Tasks, task[l.run][k].status \in {"none", "SUCCESS", "FAILED"}
        PROVE  task'[l.run][k].status = task[l.run][k].status
    BY <1>0, <2>1, <2>3, <2>4, RowMoves
  <2>5. \A k \in Skipped(l.run) : InitStatus(l, k) \in {"SUCCESS", "FAILED"}
    BY DEF InitStatus, Skipped, SkippedKeys, Selected
  <2>6. Initialising(task', l)
    BY <2>1, <2>2, <2>4, <2>5 DEF Initialising
  <2>. QED BY <2>1, <2>6 DEF StartOf
<1>2. CASE ~AtPoint(l, {"initTasks"})
  BY <1>2, PastStart
<1>. QED BY <1>1, <1>2

LEMMA StartNext == OneScheduler /\ StartInv /\ [Next]_vars => StartInv'
<1>. SUFFICES ASSUME OneScheduler, StartInv, [Next]_vars PROVE StartInv'
  OBVIOUS
<1>0. TypeInv /\ OrderInv'
  BY OrderNext DEF StartInv, OrderInv
<1>1. OneEvent'
  <2>1. \A s \in Schedulers, r \in Runs : On(sched'[s], r) => ~Waiting(r)'
    BY OnNext
  <2>. QED BY <2>1, EventsNext DEF OneEvent, Once, In, On
<1>2. \A r \in Runs : Unstarted(r)' => Pristine(r)'
  BY PristineNext
<1>3. ASSUME NEW s \in Schedulers PROVE StartOf(task', sched'[s])
  <2>1. ASSUME NEW q \in Schedulers, SchedulerStep(q) PROVE StartOf(task', sched'[s])
    <3>1. q = s
      BY DEF OneScheduler
    <3>. QED
      BY <2>1, <3>1, RunLoopStart, ReadyLoopStart, SelectTaskStart, UpsertTaskStart, InitStart, PopDoneStart
      DEF SchedulerStep
  <2>2. ASSUME NEW q \in Schedulers, SchedulerCrash(q) PROVE StartOf(task', sched'[s])
    <3>1. q = s
      BY DEF OneScheduler
    <3>2. sched'[s].pc \in Top
      BY <1>0, <2>2, <3>1, Locals DEF SchedulerCrash, Restart, AtTop, Top
    <3>. QED BY <3>2, TopStart
  <2>3. ASSUME NEW e \in Executors, ExecutorStep(e) \/ ExecutorCrash(e) PROVE UNCHANGED sched
    BY <2>3 DEF ExecutorStep, TakeTask, FinishTask, ExecutorCrash
  <2>4. ASSUME NEW c \in Clients, ClientCall(c) \/ ClientStep(c) \/ ClientCrash(c) PROVE UNCHANGED sched
    BY <2>4 DEF ClientCall, ClientStep, ClientCrash, CreateRun, CancelRun, ReplayDlq, SetRunStatus,
                PublishRun, CancelTasks, ListDlq, RequeueItem, RemoveItem
  <2>5. UNCHANGED vars => UNCHANGED sched
    BY DEF vars
  <2>6. UNCHANGED sched => StartOf(task', sched'[s])
    BY OthersStart
  <2>. QED BY <2>1, <2>2, <2>3, <2>4, <2>5, <2>6 DEF Next
<1>4. \A r \in Runs, k \in Tasks : Loose(r, k)' => SkippedDone(task', r)
  BY LooseNext
<1>5. Unborn'
  BY UnbornNext
<1>. QED
  BY <1>0, <1>1, <1>2, <1>3, <1>4, <1>5 DEF StartInv, Unborn

LEMMA StartInit == Init => StartInv
<1>. SUFFICES ASSUME Init PROVE StartInv
  OBVIOUS
<1>1. OrderInv
  BY OrderInit
<1>2. \A s \in Schedulers : sched[s].pc \in Top
  BY DEF Init, AtTop, Top
<1>3. \A c \in Clients : api[c].op = "idle" /\ api[c].items = <<>>
  BY DEF Init, IdleClient
<1>4. \A r : ~In(runQ, r) /\ ~Waiting(r)
  BY <1>3 DEF Init, In, Waiting, Announced
<1>5. \A r \in Runs : \A k : ~Loose(r, k)
  BY <1>3, HasEmpty, NobodysMessage DEF Init, Loose, Msg
<1>6. \A r \in Runs : Pristine(r)
  BY <1>5 DEF Init, NoRow, Pristine
<1>7. OneEvent
  BY <1>2, <1>3, <1>4 DEF OneEvent, On, Once, Announced, Init
<1>. QED
  BY <1>1, <1>2, <1>4, <1>5, <1>6, <1>7, TopStart DEF StartInv, On

\* A run at SUCCESS has every task of its plan at SUCCESS, the selected ones
\* because the verdict found them so, the ones a replay skips because the
\* replay was gated on them.
THEOREM SuccessEarnedByAll ==
  ASSUME OneScheduler, "SUCCESS" \notin ManualStatus
  PROVE  Spec => []SuccessIsEarned
<1>. DEFINE Whole == \A r \in Runs : runStatus[r] = "SUCCESS" => SkippedDone(task, r)
<1>1. Init => StartInv /\ Earned(task) /\ Whole
  BY StartInit DEF Init, Earned
<1>2. ASSUME StartInv, Earned(task), Whole, [Next]_vars PROVE (StartInv /\ Earned(task) /\ Whole)'
  <2>1. StartInv' /\ Earned(task)'
    BY <1>2, StartNext, EarnedStep DEF StartInv
  <2>2. ASSUME NEW r \in Runs, runStatus'[r] = "SUCCESS" PROVE SkippedDone(task', r)
    <3>1. CASE runStatus[r] = "SUCCESS"
      BY <1>2, <3>1, SkippedStays DEF StartInv
    <3>2. CASE runStatus[r] # "SUCCESS"
      <4>1. PICK s \in Schedulers : sched[s].pc = "runUpdate" /\ sched[s].run = r /\ sched[s].status = "SUCCESS"
        BY <1>2, <2>2, <3>2, SuccessWritten DEF StartInv, OrderInv
      <4>2. SkippedDone(task, r)
        BY <1>2, <4>1 DEF StartInv, StartOf, Past
      <4>. QED BY <1>2, <4>2, SkippedStays DEF StartInv
    <3>. QED BY <3>1, <3>2
  <2>. QED BY <2>1, <2>2
<1>3. StartInv /\ Earned(task) /\ Whole => SuccessIsEarned
  <2>1. \A r \in Runs : Keys(Plan[r]) = Selected(r) \cup Skipped(r)
    BY KeysAreTasks DEF Skipped, SkippedKeys, Selected
  <2>. QED BY <2>1 DEF Earned, AllDone, SkippedDone, SuccessIsEarned
<1>. HIDE DEF Whole
<1>. QED
  BY <1>1, <1>2, <1>3, StartNext, PTL DEF Spec

-----------------------------------------------------------------------------
(***************************************************************************)
(* The messages about a task are one at most, whatever list or executor    *)
(* they are in.                                                            *)
(***************************************************************************)
Distinct ==
  /\ \A q \in Lists : Uniq(taskQ[q])
  /\ Uniq(doneQ)
  /\ \A r \in Runs, k \in Tasks :
       /\ \A p, q \in Lists : Has(taskQ[p], r, k) /\ Has(taskQ[q], r, k) => p = q
       /\ \A d, e \in Executors : IsFor(executing[d], r, k) /\ IsFor(executing[e], r, k) => d = e
       /\ \A q \in Lists : Has(taskQ[q], r, k) => ~Has(doneQ, r, k)
       /\ \A e \in Executors : IsFor(executing[e], r, k) =>
            ~Has(doneQ, r, k) /\ \A q \in Lists : ~Has(taskQ[q], r, k)

LEMMA StillDistinct ==
  ASSUME Distinct, UNCHANGED <<taskQ, doneQ, executing>>
  PROVE  Distinct'
BY DEF Distinct, Uniq, Has

\* It is enough to say it of the new lists.
LEMMA DistinctPrimed ==
  Distinct' <=>
    /\ \A q \in Lists : Uniq(taskQ'[q])
    /\ Uniq(doneQ')
    /\ \A r \in Runs, k \in Tasks :
         /\ \A p, q \in Lists : Has(taskQ'[p], r, k) /\ Has(taskQ'[q], r, k) => p = q
         /\ \A d, e \in Executors : IsFor(executing'[d], r, k) /\ IsFor(executing'[e], r, k) => d = e
         /\ \A q \in Lists : Has(taskQ'[q], r, k) => ~Has(doneQ', r, k)
         /\ \A e \in Executors : IsFor(executing'[e], r, k) =>
              ~Has(doneQ', r, k) /\ \A q \in Lists : ~Has(taskQ'[q], r, k)
BY DEF Distinct, Uniq, Has

LEMMA SendDistinct ==
  ASSUME TypeInv, Distinct, NEW q, NEW m, Sends(q, m), ~Msg(m.run, m.task)
  PROVE  Distinct'
<1>1. /\ q \in Lists /\ m \in MessageSet /\ taskQ[q] \in Seq(MessageSet)
      /\ doneQ' = doneQ /\ executing' = executing
  BY ListTypes DEF Sends
<1>2. \A p \in Lists : taskQ'[p] = IF p = q THEN Append(taskQ[q], m) ELSE taskQ[p]
  BY ListTypes DEF Sends
<1>3. \A r, k : Has(Append(taskQ[q], m), r, k) <=> Has(taskQ[q], r, k) \/ IsFor(m, r, k)
  BY <1>1, HasAppend
<1>4. Uniq(Append(taskQ[q], m))
  BY <1>1, UniqAppend DEF Distinct, Msg
<1>5. \A r, k : IsFor(m, r, k) => /\ \A p \in Lists : ~Has(taskQ[p], r, k)
                                 /\ ~Has(doneQ, r, k)
                                 /\ \A e \in Executors : ~IsFor(executing[e], r, k)
  BY DEF Msg, IsFor
<1>6. \A p \in Lists : \A r, k : Has(taskQ'[p], r, k) <=> Has(taskQ[p], r, k) \/ (p = q /\ IsFor(m, r, k))
  BY <1>2, <1>3
<1>7. \A p \in Lists : Uniq(taskQ'[p])
  BY <1>2, <1>4 DEF Distinct
<1>. QED
  BY <1>1, <1>5, <1>6, <1>7, DistinctPrimed DEF Distinct

LEMMA TakeDistinct ==
  ASSUME TypeInv, Distinct, NEW e \in Executors, TakeTask(e)
  PROVE  Distinct'
<1>1. PICK q \in Lists : /\ taskQ[q] # <<>>
                         /\ executing' = [executing EXCEPT ![e] = Head(taskQ[q])]
                         /\ taskQ' = [taskQ EXCEPT ![q] = Tail(taskQ[q])]
  BY DEF TakeTask, ServedList
<1>. DEFINE m == Head(taskQ[q])
<1>2. /\ taskQ[q] \in Seq(MessageSet) /\ doneQ' = doneQ
      /\ \A p \in Lists : taskQ'[p] = IF p = q THEN Tail(taskQ[q]) ELSE taskQ[p]
      /\ \A d \in Executors : executing'[d] = IF d = e THEN m ELSE executing[d]
  BY <1>1, ListTypes DEF TakeTask
<1>3. \A r, k : Has(taskQ[q], r, k) <=> Has(Tail(taskQ[q]), r, k) \/ IsFor(m, r, k)
  BY <1>1, <1>2, HasTail
<1>4. Uniq(Tail(taskQ[q])) /\ ~Has(Tail(taskQ[q]), m.run, m.task)
  BY <1>1, <1>2, UniqTail DEF Distinct
<1>. HIDE DEF m
<1>5. \A p \in Lists : Uniq(taskQ'[p])
  BY <1>2, <1>4 DEF Distinct
<1>6. \A r, k : IsFor(m, r, k) => m.run = r /\ m.task = k
  BY DEF IsFor
<1>7. \A r \in Runs, k \in Tasks : IsFor(m, r, k) =>
        /\ \A p \in Lists : ~Has(taskQ'[p], r, k)
        /\ ~Has(doneQ, r, k)
        /\ \A d \in Executors : ~IsFor(executing[d], r, k)
  BY <1>2, <1>3, <1>4, <1>6 DEF Distinct
<1>8. \A p \in Lists : \A r, k : Has(taskQ'[p], r, k) => Has(taskQ[p], r, k)
  BY <1>2, <1>3
<1>. QED
  BY <1>2, <1>5, <1>7, <1>8, DistinctPrimed DEF Distinct

LEMMA FinishDistinct ==
  ASSUME TypeInv, Distinct, NEW e \in Executors, FinishTask(e)
  PROVE  Distinct'
<1>1. PICK st \in {"SUCCESS", "FAILED"} : doneQ' = Append(doneQ, Finished(executing[e], st))
  BY DEF FinishTask
<1>. DEFINE m == Finished(executing[e], st)
<1>2. executing[e] \in MessageSet /\ doneQ \in Seq(OutcomeSet) /\ taskQ' = taskQ
  BY ListTypes DEF FinishTask
<1>3. m \in OutcomeSet /\ \A r, k : IsFor(m, r, k) <=> IsFor(executing[e], r, k)
  BY <1>2 DEF Finished, MessageSet, OutcomeSet, IsFor
<1>4. \A d \in Executors : executing'[d] = IF d = e THEN NoMsg ELSE executing[d]
  BY ListTypes DEF FinishTask
<1>. HIDE DEF m
<1>5. m.run \in Runs /\ m.task \in Tasks /\ IsFor(m, m.run, m.task)
  BY <1>3 DEF OutcomeSet, IsFor
<1>6. ~Has(doneQ, m.run, m.task)
  BY <1>3, <1>5 DEF Distinct
<1>7. \A r, k : Has(doneQ', r, k) <=> Has(doneQ, r, k) \/ IsFor(m, r, k)
  BY <1>1, <1>2, <1>3, HasAppend DEF m
<1>8. Uniq(doneQ')
  BY <1>1, <1>2, <1>3, <1>6, UniqAppend DEF m, Distinct
<1>. QED
  BY <1>2, <1>3, <1>4, <1>7, <1>8, NobodysMessage, DistinctPrimed DEF Distinct

LEMMA LossDistinct ==
  ASSUME TypeInv, Distinct, NEW e \in Executors, ExecutorCrash(e)
  PROVE  Distinct'
<1>1. \A d \in Executors : executing'[d] = IF d = e THEN NoMsg ELSE executing[d]
  BY ListTypes DEF ExecutorCrash
<1>2. taskQ' = taskQ /\ doneQ' = doneQ
  BY DEF ExecutorCrash, queues
<1>. QED
  BY <1>1, <1>2, NobodysMessage, DistinctPrimed DEF Distinct

\* The outcome that is popped was the only message about its task.
LEMMA PopDistinct ==
  ASSUME TypeInv, Distinct, NEW h, Pops(h)
  PROVE  /\ Distinct'
         /\ h \in OutcomeSet
         /\ \A r \in Runs, k \in Tasks : IsFor(h, r, k) => ~Msg(r, k)'
<1>1. /\ doneQ \in Seq(OutcomeSet) /\ doneQ # <<>> /\ h = Head(doneQ) /\ doneQ' = Tail(doneQ)
      /\ taskQ' = taskQ /\ executing' = executing
  BY ListTypes DEF Pops
<1>2. \A r, k : Has(doneQ, r, k) <=> Has(doneQ', r, k) \/ IsFor(h, r, k)
  BY <1>1, HasTail
<1>3. Uniq(doneQ') /\ ~Has(doneQ', h.run, h.task)
  BY <1>1, UniqTail DEF Distinct
<1>4. Distinct'
  BY <1>1, <1>2, <1>3, DistinctPrimed DEF Distinct
<1>5. ASSUME NEW r \in Runs, NEW k \in Tasks, IsFor(h, r, k) PROVE ~Msg(r, k)'
  <2>1. Has(doneQ, r, k) /\ ~Has(doneQ', r, k)
    BY <1>2, <1>3, <1>5 DEF IsFor
  <2>2. /\ \A q \in Lists : ~Has(taskQ[q], r, k)
        /\ \A e \in Executors : ~IsFor(executing[e], r, k)
    BY <2>1 DEF Distinct
  <2>3. Msg(r, k)' <=> \/ \E p \in Lists : Has(taskQ'[p], r, k)
                       \/ Has(doneQ', r, k)
                       \/ \E d \in Executors : IsFor(executing'[d], r, k)
    BY DEF Msg, Has
  <2>. QED BY <1>1, <2>1, <2>2, <2>3
<1>6. h \in OutcomeSet
  BY <1>1
<1>. QED BY <1>4, <1>5, <1>6

-----------------------------------------------------------------------------
(***************************************************************************)
(* What the scheduler holds nobody else has a message about, and what it   *)
(* may still pick was never handed out: a message, and a letter, leave     *)
(* their mark on the row of their task for good.                           *)
(***************************************************************************)
Touched(t, r, k) == t[r][k].status \notin {"none", "PENDING"}

\* What a call asks for, from where it is made.
Asks(l) ==
  /\ Calling(l) /\ l.cont = "push" => l.status = Dispatched
  /\ AtPoint(l, {"handle"}) => l.status \in {"SUCCESS", "FAILED"}
  /\ Calling(l) /\ l.cont = "sleep" => l.status = "RETRY"
  /\ Calling(l) /\ l.cont = "syncCancel" => l.status = "CANCELLED"

\* The keys the loop over the ready tasks may still come to.
Open(l, k) == k \in l.todo /\ l.snap[k].status = "PENDING"

Flight(l) ==
  /\ Asks(l)
  /\ \A r \in Runs, k \in Tasks : Holds(l, r, k) => ~Msg(r, k)
  /\ AtPoint(l, HoldingPoints) /\ ~(Calling(l) /\ Picking(l)) => Touched(task, l.run, l.task)
  /\ Picking(l) => \A r \in Runs, k \in Tasks : l.run = r /\ Open(l, k) => ~Loose(r, k)
  /\ Picking(l) /\ l.pc # "pick" => l.task \notin l.todo

LEMMA HoldsPoint ==
  ASSUME NEW l, NEW r, NEW k
  PROVE  Holds(l, r, k) <=> l.run = r /\ l.task = k /\ AtPoint(l, HoldingPoints)
BY DEF Holds, AtPoint, Calling

LEMMA AsksNext ==
  ASSUME TypeInv, NEW s \in Schedulers, SchedulerStep(s), Asks(sched[s])
  PROVE  Asks(sched'[s])
<1>1. CASE PopRun(s)
  BY <1>1, PopRunFlow DEF Asks, Calling, AtPoint, Top
<1>2. CASE AdmitRun(s) \/ CancelRunTasks(s)
  BY <1>2, AdmitRunFlow, CancelRunTasksFlow
  DEF WithdrawsAll, AskedRun, Went, Moved, Asks, Calling, AtPoint, Top, AfterAll
<1>3. CASE SelectRunStatus(s) \/ UpdateRunStatus(s)
  BY <1>3, RunStatusFlow DEF Went, Moved, Asks, Calling, AtPoint, Top, AfterRun
<1>4. CASE SelectTaskStatus(s) \/ UpsertTask(s)
  BY <1>4, SelectTaskStatusFlow, UpsertTaskFlow DEF Moved, Asks, Calling, AtPoint, AfterTask
<1>5. CASE LoadPlan(s) \/ InitTask(s) \/ FinishInit(s)
  BY <1>5, LoadPlanFlow, InitTaskFlow, FinishInitFlow DEF Asked, AskedRun, Asks, Calling, AtPoint
<1>6. CASE ReadStates(s) \/ PickReady(s) \/ PushTask(s)
  BY <1>6, ReadStatesFlow, PickReadyFlow, PushTaskFlow
  DEF Asked, WithdrawsAll, Went, Moved, Asks, Calling, AtPoint, Top, AfterAll
<1>7. CASE PopDone(s)
  BY <1>7, PopDoneFlow DEF Asks, Calling, AtPoint, Top, OutcomeSet
<1>8. CASE HandleSuccess(s) \/ HandleRetry(s) \/ WakeUp(s) \/ HandleDead(s)
  BY <1>8, HandleFlow DEF Asked, WithdrawsAll, Moved, Asks, Calling, AtPoint
<1>9. CASE SyncRead(s) \/ SyncCancel(s) \/ SyncVerdict(s)
  BY <1>9, SyncFlow DEF Asked, AskedRun, Asks, Calling, AtPoint, Top
<1>. QED
  BY <1>1, <1>2, <1>3, <1>4, <1>5, <1>6, <1>7, <1>8, <1>9 DEF SchedulerStep

\* How the scheduler comes to hold the work on a task.
LEMMA HoldFlow ==
  ASSUME TypeInv, NEW s \in Schedulers, SchedulerStep(s), AtPoint(sched'[s], HoldingPoints)
  PROVE  LET l == sched[s]
             m == sched'[s]
         IN  \/ /\ AtPoint(l, HoldingPoints) /\ m.run = l.run /\ m.task = l.task
                /\ UNCHANGED <<taskQ, doneQ, executing>>
                /\ Calling(l) => SelectTaskStatus(s) \/ UpsertTask(s)
                /\ ~Calling(l) => ~Picking(m)
             \/ /\ l.pc = "pick" /\ m.run = l.run /\ Open(l, m.task)
                /\ Calling(m) /\ Picking(m) /\ UNCHANGED <<taskQ, doneQ, executing>>
             \/ /\ Pops(Head(doneQ)) /\ IsFor(Head(doneQ), m.run, m.task)
                /\ ~Picking(m)
<1>0. UNCHANGED <<taskQ, doneQ, executing>> \/ PushTask(s) \/ PopDone(s)
  BY LoopTraffic DEF HandleDead
<1>1. CASE PopRun(s)
  BY <1>1, PopRunFlow DEF Calling, AtPoint, Top, HoldingPoints
<1>2. CASE AdmitRun(s) \/ CancelRunTasks(s)
  BY <1>2, AdmitRunFlow, CancelRunTasksFlow
  DEF WithdrawsAll, AskedRun, Went, Moved, Calling, AtPoint, Top, AfterAll, HoldingPoints
<1>3. CASE SelectRunStatus(s) \/ UpdateRunStatus(s)
  BY <1>3, RunStatusFlow DEF Went, Moved, Calling, AtPoint, Top, AfterRun, HoldingPoints
<1>4. CASE SelectTaskStatus(s) \/ UpsertTask(s)
  <2>1. UNCHANGED <<taskQ, doneQ, executing>>
    BY <1>4 DEF SelectTaskStatus, UpsertTask, queues
  <2>. QED
    BY <1>4, <2>1, SelectTaskStatusFlow, UpsertTaskFlow DEF Moved, Calling, AtPoint, AfterTask, HoldingPoints
<1>5. CASE LoadPlan(s) \/ InitTask(s) \/ FinishInit(s)
  BY <1>5, LoadPlanFlow, InitTaskFlow, FinishInitFlow DEF Asked, AskedRun, Calling, AtPoint, HoldingPoints
<1>6. CASE ReadStates(s) \/ PushTask(s)
  BY <1>6, ReadStatesFlow, PushTaskFlow
  DEF WithdrawsAll, Went, Moved, Calling, AtPoint, Top, AfterAll, HoldingPoints
<1>7. CASE PickReady(s)
  <2>1. UNCHANGED <<taskQ, doneQ, executing>>
    BY <1>7 DEF PickReady, queues
  <2>2. ~(Went(sched[s], sched'[s], sched[s].after) /\ sched[s].after \in AfterAll)
    BY DEF Went, Moved, Calling, AtPoint, Top, AfterAll, HoldingPoints
  <2>3. PICK k \in Ready(sched[s].run, sched[s].snap, sched[s].todo) :
          /\ Asked(sched[s], sched'[s], k, Dispatched, sched[s].snap[k].attempt, "push")
          /\ sched'[s].ret = "pick"
    BY <1>7, <2>2, PickReadyFlow
  <2>4. sched[s].pc = "pick"
    BY <1>7 DEF PickReady
  <2>. QED BY <2>1, <2>3, <2>4 DEF Asked, Ready, Open, Picking, AtPoint, Calling
<1>8. CASE PopDone(s)
  BY <1>8, PopDoneFlow DEF Pops, IsFor, Picking, Calling, AtPoint, Top, HoldingPoints, PopDone
<1>9. CASE HandleSuccess(s) \/ HandleRetry(s) \/ WakeUp(s) \/ HandleDead(s)
  <2>1. ~PushTask(s) /\ ~PopDone(s)
    BY <1>9 DEF HandleSuccess, HandleRetry, WakeUp, HandleDead, PushTask, PopDone
  <2>. QED
    BY <1>0, <1>9, <2>1, HandleFlow DEF Asked, WithdrawsAll, Moved, Calling, Picking, AtPoint, HoldingPoints
<1>10. CASE SyncRead(s) \/ SyncCancel(s) \/ SyncVerdict(s)
  BY <1>10, SyncFlow DEF Asked, AskedRun, Calling, AtPoint, Top, HoldingPoints
<1>. QED
  BY <1>1, <1>2, <1>3, <1>4, <1>5, <1>6, <1>7, <1>8, <1>9, <1>10 DEF SchedulerStep

\* How the loop over the ready tasks goes on.
LEMMA PickFlow ==
  ASSUME TypeInv, NEW s \in Schedulers, SchedulerStep(s), Picking(sched'[s])
  PROVE  LET l == sched[s]
             m == sched'[s]
         IN  \/ /\ Picking(l) /\ m.run = l.run /\ m.snap = l.snap /\ m.todo \subseteq l.todo
                /\ m.pc # "pick" => \/ m.task \notin m.todo
                                    \/ l.pc # "pick" /\ m.task = l.task /\ m.todo = l.todo
             \/ /\ m.pc = "pick" /\ m.run = l.run /\ m.run \in Runs /\ m.snap = States(m.run)
                /\ UNCHANGED <<task, taskQ, doneQ, executing, dlq, api>>
<1>1. CASE PopRun(s)
  BY <1>1, PopRunFlow DEF Picking, Calling, AtPoint, Top
<1>2. CASE AdmitRun(s) \/ CancelRunTasks(s)
  BY <1>2, AdmitRunFlow, CancelRunTasksFlow
  DEF WithdrawsAll, AskedRun, Went, Moved, Picking, Calling, AtPoint, Top, AfterAll
<1>3. CASE SelectRunStatus(s) \/ UpdateRunStatus(s)
  BY <1>3, RunStatusFlow DEF Went, Moved, Picking, Calling, AtPoint, Top, AfterRun
<1>4. CASE SelectTaskStatus(s) \/ UpsertTask(s)
  BY <1>4, SelectTaskStatusFlow, UpsertTaskFlow DEF Moved, Picking, Calling, AtPoint, AfterTask
<1>5. CASE LoadPlan(s) \/ InitTask(s) \/ FinishInit(s)
  BY <1>5, LoadPlanFlow, InitTaskFlow, FinishInitFlow DEF Asked, AskedRun, Picking, Calling, AtPoint
<1>6. CASE ReadStates(s)
  <2>1. UNCHANGED <<task, taskQ, doneQ, executing, dlq, api>> /\ sched[s].run \in Runs
    BY <1>6, Locals DEF ReadStates, rows, queues, Top
  <2>. QED
    BY <1>6, <2>1, ReadStatesFlow DEF WithdrawsAll, Picking, Calling, AtPoint
<1>7. CASE PickReady(s)
  <2>2. ~(Went(sched[s], sched'[s], sched[s].after) /\ sched[s].after \in AfterAll)
    BY DEF Went, Moved, Picking, Calling, AtPoint, Top, AfterAll
  <2>3. PICK k \in Ready(sched[s].run, sched[s].snap, sched[s].todo) :
          /\ Asked(sched[s], sched'[s], k, Dispatched, sched[s].snap[k].attempt, "push")
          /\ sched'[s].todo = {j \in sched[s].todo : j > k}
    BY <1>7, <2>2, PickReadyFlow
  <2>4. sched[s].pc = "pick" /\ sched[s].todo \subseteq Tasks
    BY <1>7, Locals DEF PickReady, Local
  <2>5. k \in Nat
    BY <2>3, <2>4, TasksAssumption DEF Ready
  <2>6. k \notin sched'[s].todo /\ sched'[s].todo \subseteq sched[s].todo
    BY <2>3, <2>5
  <2>. QED BY <2>3, <2>4, <2>6 DEF Asked, Picking
<1>8. CASE PushTask(s)
  BY <1>8, PushTaskFlow DEF Went, Moved, Picking, Calling, AtPoint, Top
<1>9. CASE PopDone(s)
  BY <1>9, PopDoneFlow DEF Picking, Calling, AtPoint, Top
<1>10. CASE HandleSuccess(s) \/ HandleRetry(s) \/ WakeUp(s) \/ HandleDead(s)
  BY <1>10, HandleFlow DEF Asked, WithdrawsAll, Moved, Picking, Calling, AtPoint
<1>11. CASE SyncRead(s) \/ SyncCancel(s) \/ SyncVerdict(s)
  BY <1>11, SyncFlow DEF Asked, AskedRun, Picking, Calling, AtPoint, Top
<1>. QED
  BY <1>1, <1>2, <1>3, <1>4, <1>5, <1>6, <1>7, <1>8, <1>9, <1>10, <1>11 DEF SchedulerStep

\* The mark on a row stays: only the initialisation writes PENDING, and it
\* comes upon no row.
LEMMA TouchedStays ==
  ASSUME StartInv, \A s \in Schedulers : Asks(sched[s]), [Next]_vars,
         NEW r \in Runs, NEW k \in Tasks, Touched(task, r, k)
  PROVE  Touched(task', r, k)
<1>1. ASSUME NEW s \in Schedulers, UpsertTask(s), sched[s].run = r, sched[s].task = k
      PROVE  sched[s].status \notin {"none", "PENDING"}
  <2>1. sched[s].pc = "taskUpdate" /\ sched[s].cont \in AfterTask
    BY <1>1, UpsertTaskFlow DEF StartInv, OrderInv
  <2>2. Calling(sched[s]) /\ AtPoint(sched[s], {sched[s].cont})
    BY <2>1 DEF Calling, AtPoint
  <2>3. sched[s].cont # "initTasks"
    BY <1>1, <2>1, <2>2 DEF StartInv, StartOf, Initialising, Touched, AtPoint, Calling
  <2>. QED
    BY <2>1, <2>2, <2>3 DEF Asks, AfterTask, Dispatched
<1>. QED
  BY <1>1, RowMoves DEF Touched, StartInv, OrderInv

\* Only what was handed out becomes loose.
LEMMA LooseTouched ==
  ASSUME StartInv, \A s \in Schedulers : Flight(sched[s]), [Next]_vars,
         NEW r \in Runs, NEW k \in Tasks, Loose(r, k) => Touched(task, r, k), Loose(r, k)'
  PROVE  Touched(task', r, k)
<1>1. ASSUME NEW s \in Schedulers, Handed(sched[s], r, k) PROVE Touched(task, r, k)
  BY <1>1 DEF Flight, Handed, AtPoint, Calling, HoldingPoints
<1>2. Touched(task, r, k)
  BY <1>1, LooseMoves DEF StartInv, OrderInv
<1>. QED
  BY <1>2, TouchedStays DEF Flight

LEMMA MsgStill ==
  UNCHANGED <<taskQ, doneQ, executing>> => \A r, k : Msg(r, k)' <=> Msg(r, k)
BY DEF Msg, Has

\* The step of the scheduler itself.
LEMMA FlightStep ==
  ASSUME StartInv, Distinct, \A v \in Schedulers : Flight(sched[v]), [Next]_vars,
         \A r \in Runs, k \in Tasks : Loose(r, k) => Touched(task, r, k),
         NEW s \in Schedulers, SchedulerStep(s), \A v \in Schedulers : v = s
  PROVE  Flight(sched[s])'
<1>. DEFINE l == sched[s]
            m == sched'[s]
<1>0. TypeInv /\ Flight(l) /\ Asks(m)
  BY AsksNext DEF StartInv, OrderInv, Flight
<1>1. ASSUME NEW r \in Runs, NEW k \in Tasks, Holds(m, r, k) PROVE ~Msg(r, k)'
  <2>0. m.run = r /\ m.task = k /\ AtPoint(m, HoldingPoints)
    BY <1>1, HoldsPoint
  <2>1. CASE AtPoint(l, HoldingPoints) /\ m.run = l.run /\ m.task = l.task /\ UNCHANGED <<taskQ, doneQ, executing>>
    BY <1>0, <2>0, <2>1, MsgStill, HoldsPoint DEF Flight
  <2>2. CASE l.pc = "pick" /\ m.run = l.run /\ Open(l, m.task) /\ UNCHANGED <<taskQ, doneQ, executing>>
    <3>1. ~Loose(r, k)
      BY <1>0, <2>0, <2>2 DEF Flight, Picking
    <3>. QED BY <2>2, <3>1, MsgStill DEF Loose
  <2>3. CASE Pops(Head(doneQ)) /\ IsFor(Head(doneQ), m.run, m.task)
    BY <1>0, <2>0, <2>3, PopDistinct
  <2>. QED BY <1>0, <2>0, <2>1, <2>2, <2>3, HoldFlow
<1>2. ASSUME AtPoint(m, HoldingPoints), ~(Calling(m) /\ Picking(m)) PROVE Touched(task', m.run, m.task)
  <2>0. m.run \in Runs /\ m.task \in Tasks
    <3>1. TypeInv'
      BY StepSound DEF StartInv, OrderInv
    <3>. QED BY <1>2, <3>1 DEF TypeInv, Sound, AtPoint, Calling, HoldingPoints
  <2>1. CASE AtPoint(l, HoldingPoints) /\ m.run = l.run /\ m.task = l.task /\ (Calling(l) /\ Picking(l))
             /\ (SelectTaskStatus(s) \/ UpsertTask(s))
    <3>1. l.cont = "push" /\ l.status = Dispatched
      BY <1>0, <2>1 DEF Picking, Flight, Asks, AtPoint, Calling
    <3>2. CASE SelectTaskStatus(s)
      <4>1. /\ Moved(l, m, "push") /\ task' = task
            /\ task[l.run][l.task].status # "none"
            /\ l.status \notin TaskAllowed(task[l.run][l.task].status)
        BY <1>0, <1>2, <2>1, <3>1, <3>2, SelectTaskStatusFlow
        DEF Moved, Picking, AtPoint, Calling, SelectTaskStatus, rows
      <4>. QED BY <2>1, <3>1, <4>1 DEF Touched, TaskAllowed, Dispatched
    <3>3. CASE UpsertTask(s)
      <4>1. task'[m.run][m.task].status = Dispatched
        BY <1>0, <2>0, <2>1, <3>1, <3>3, UpsertTaskFlow
      <4>. QED BY <4>1 DEF Touched, Dispatched
    <3>. QED BY <2>1, <3>2, <3>3
  <2>2. CASE AtPoint(l, HoldingPoints) /\ m.run = l.run /\ m.task = l.task /\ ~(Calling(l) /\ Picking(l))
    <3>1. Touched(task, m.run, m.task)
      BY <1>0, <2>2 DEF Flight
    <3>. QED BY <2>0, <3>1, TouchedStays DEF Flight
  <2>3. CASE Pops(Head(doneQ)) /\ IsFor(Head(doneQ), m.run, m.task)
    <3>1. Has(doneQ, m.run, m.task)
      BY <1>0, <2>3, ListTypes, HasTail DEF Pops
    <3>2. Touched(task, m.run, m.task)
      BY <2>0, <3>1 DEF Loose, Msg
    <3>. QED BY <2>0, <3>2, TouchedStays DEF Flight
  <2>. QED BY <1>0, <1>2, <2>1, <2>2, <2>3, HoldFlow
<1>3. ASSUME Picking(m), NEW r \in Runs, NEW k \in Tasks, m.run = r, Open(m, k) PROVE ~Loose(r, k)'
  <2>1. CASE Picking(l) /\ m.run = l.run /\ m.snap = l.snap /\ m.todo \subseteq l.todo
    <3>1. ~Loose(r, k)
      BY <1>0, <1>3, <2>1 DEF Flight, Open
    <3>2. ~Handed(l, r, k)
      BY <1>0, <1>3, <2>1 DEF Flight, Handed, Open
    <3>. QED BY <1>0, <3>1, <3>2, LooseMoves
  <2>2. CASE /\ m.run = l.run /\ m.run \in Runs /\ m.snap = States(m.run)
             /\ UNCHANGED <<task, taskQ, doneQ, executing, dlq, api>>
    <3>1. task[r][k].status \in {"none", "PENDING"}
      BY <1>0, <1>3, <2>2 DEF Open, States, Seen, TypeInv, TypeOK, RowSet
    <3>2. ~Loose(r, k)
      BY <3>1 DEF Touched
    <3>. QED BY <2>2, <3>2, MsgStill DEF Loose, Has
  <2>. QED BY <1>0, <1>3, <2>1, <2>2, PickFlow
<1>4. ASSUME Picking(m), m.pc # "pick" PROVE m.task \notin m.todo
  BY <1>0, <1>4, PickFlow DEF Flight
<1>. QED
  BY <1>0, <1>1, <1>2, <1>3, <1>4 DEF Flight

-----------------------------------------------------------------------------
(***************************************************************************)
(* The letters a replay of the dead-letter queue has still to send: each   *)
(* task once, and none that is being worked on.                            *)
(***************************************************************************)
Spare(r, k) == ~Msg(r, k) /\ ~HeldBy(r, k)
Clean(q)    == Uniq(q) /\ \A r \in Runs, k \in Tasks : Has(q, r, k) => Spare(r, k)

Replaying == {"lrange", "requeue", "lrem"}
ToRequeue(h) ==
  CASE h.op = "lrange"  -> dlq
    [] h.op = "requeue" -> h.items
    [] h.op = "lrem"    -> Tail(h.items)
    [] OTHER            -> <<>>

LettersInv ==
  /\ \A c \in Clients : api[c].op \in Replaying => "replay" \in Ops /\ calls # 0
  /\ \A c, d \in Clients : api[c].op \in Replaying /\ api[d].op \in Replaying => c = d
  /\ "replay" \in Ops /\ calls = 0 => Clean(dlq)
  /\ \A c \in Clients : Clean(ToRequeue(api[c]))

FlightInv ==
  /\ StartInv
  /\ Distinct
  /\ \A r \in Runs, k \in Tasks : Loose(r, k) => Touched(task, r, k)
  /\ \A s \in Schedulers : Flight(sched[s])
  /\ LettersInv

\* Dead letters are not replayed, or by one call at most.
OneReplay == "replay" \in Ops => MaxCalls <= 1

\* A replay sends the letter about a task to work again.
Resends(c, r, k) == /\ RequeueItem(c) /\ api[c].items # <<>>
                    /\ Head(api[c].items).run = api[c].run
                    /\ IsFor(Head(api[c].items), r, k)

LEMMA MsgMoves ==
  ASSUME TypeInv, [Next]_vars, NEW r \in Runs, NEW k, Msg(r, k)'
  PROVE  \/ Msg(r, k)
         \/ \E s \in Schedulers : PushTask(s) /\ Handed(sched[s], r, k)
         \/ \E c \in Clients : Resends(c, r, k)
<1>1. ASSUME UNCHANGED <<taskQ, doneQ, executing>> PROVE Msg(r, k)
  BY <1>1, MsgStill
<1>2. ASSUME NEW s \in Schedulers, SchedulerStep(s)
      PROVE  Msg(r, k) \/ (PushTask(s) /\ Handed(sched[s], r, k))
  <2>1. CASE PushTask(s)
    <3>1. CASE External
      BY <1>1, <2>1, <3>1, PushSends
    <3>2. CASE ~External
      <4>1. Msg(r, k)' => Msg(r, k) \/ (r = sched[s].run /\ k = sched[s].task)
        BY <2>1, <3>2, PushSends, SendMoves
      <4>. QED BY <2>1, <4>1 DEF PushTask, Handed
    <3>. QED BY <3>1, <3>2
  <2>2. CASE PopDone(s)
    <3>1. CASE doneQ' = doneQ
      BY <1>1, <2>2, <3>1 DEF PopDone
    <3>2. CASE doneQ' # doneQ
      <4>1. Pops(Head(doneQ))
        BY <2>2, <3>2, PopDoneFlow DEF Pops, PopDone
      <4>. QED BY <4>1, PopMoves
    <3>. QED BY <3>1, <3>2
  <2>3. CASE ~PushTask(s) /\ ~PopDone(s)
    BY <1>1, <1>2, <2>3, LoopTraffic DEF HandleDead
  <2>. QED BY <2>1, <2>2, <2>3
<1>3. ASSUME NEW s \in Schedulers, SchedulerCrash(s) PROVE Msg(r, k)
  BY <1>1, <1>3 DEF SchedulerCrash, queues
<1>4. ASSUME NEW e \in Executors, ExecutorStep(e) \/ ExecutorCrash(e) PROVE Msg(r, k)
  BY <1>4, TakeMoves, FinishMoves, LossMoves DEF ExecutorStep
<1>5. ASSUME NEW c \in Clients, ClientCall(c) \/ ClientStep(c) \/ ClientCrash(c)
      PROVE  Msg(r, k) \/ Resends(c, r, k)
  <2>1. CASE RequeueItem(c)
    <3>1. CASE UNCHANGED taskQ
      BY <1>1, <2>1, <3>1 DEF RequeueItem
    <3>2. CASE ~UNCHANGED taskQ
      <4>. DEFINE m == Head(api[c].items)
      <4>1. /\ api[c].items # <<>> /\ m.run = api[c].run
            /\ Sends("default", Message(m.run, m.task, m.attempt + 1))
            /\ IsFor(Message(m.run, m.task, m.attempt + 1), r, k) => IsFor(m, r, k)
        BY <2>1, <3>2, RequeueSends
      <4>2. Msg(r, k)' => Msg(r, k) \/ IsFor(m, r, k)
        BY <4>1, SendMoves
      <4>. QED BY <2>1, <4>1, <4>2 DEF Resends
    <3>. QED BY <3>1, <3>2
  <2>2. CASE ~RequeueItem(c)
    BY <1>1, <1>5, <2>2 DEF ClientCall, ClientStep, ClientCrash, CreateRun, CancelRun, ReplayDlq,
       SetRunStatus, PublishRun, CancelTasks, ListDlq, RemoveItem, queues
  <2>. QED BY <2>1, <2>2
<1>6. CASE UNCHANGED vars
  BY <1>1, <1>6 DEF vars
<1>. QED
  BY <1>2, <1>3, <1>4, <1>5, <1>6 DEF Next

\* What is sent again is one of the letters still to send.
LEMMA ResendsClean ==
  ASSUME TypeInv, LettersInv, NEW c \in Clients, NEW r \in Runs, NEW k \in Tasks, Resends(c, r, k)
  PROVE  Spare(r, k) /\ api[c].op = "requeue" /\ Has(api[c].items, r, k)
<1>1. api[c].op = "requeue" /\ api[c].items # <<>> /\ api[c].items \in Seq(MessageSet)
  BY ListTypes DEF Resends, RequeueItem
<1>2. Has(api[c].items, r, k)
  BY <1>1, HasTail DEF Resends
<1>3. ToRequeue(api[c]) = api[c].items
  BY <1>1 DEF ToRequeue
<1>. QED BY <1>1, <1>2, <1>3 DEF LettersInv, Clean

\* A task whose letter waits stays spare until the letter is sent.
LEMMA SpareStays ==
  ASSUME OneScheduler, FlightInv, [Next]_vars, NEW r \in Runs, NEW k \in Tasks,
         Spare(r, k), Loose(r, k), \A c \in Clients : ~Resends(c, r, k)
  PROVE  Spare(r, k)'
<1>0. TypeInv
  BY DEF FlightInv, StartInv, OrderInv
<1>1. ~Msg(r, k)'
  <2>1. \A s \in Schedulers : ~Handed(sched[s], r, k)
    BY DEF Spare, HeldBy, Handed, Holds, HoldingPoints
  <2>. QED BY <1>0, <2>1, MsgMoves DEF Spare
<1>2. ASSUME NEW s \in Schedulers, Holds(sched'[s], r, k) PROVE FALSE
  <2>0. ~Holds(sched[s], r, k)
    BY DEF Spare, HeldBy
  <2>1. ~UNCHANGED sched
    BY <1>2, <2>0
  <2>2. ASSUME NEW v \in Schedulers, SchedulerStep(v) PROVE FALSE
    <3>0. v = s /\ AtPoint(sched'[s], HoldingPoints) /\ sched'[s].run = r /\ sched'[s].task = k
      BY <1>2, HoldsPoint DEF OneScheduler
    <3>1. CASE AtPoint(sched[s], HoldingPoints) /\ sched[s].run = r /\ sched[s].task = k
      BY <2>0, <3>1, HoldsPoint
    <3>2. CASE sched[s].pc = "pick" /\ sched[s].run = r /\ Open(sched[s], k)
      BY <3>2 DEF FlightInv, Flight, Picking
    <3>3. CASE Pops(Head(doneQ)) /\ IsFor(Head(doneQ), r, k)
      <4>1. Has(doneQ, r, k)
        BY <1>0, <3>3, ListTypes, HasTail DEF Pops
      <4>. QED BY <4>1 DEF Spare, Msg
    <3>. QED BY <1>0, <2>2, <3>0, <3>1, <3>2, <3>3, HoldFlow
  <2>3. ASSUME NEW v \in Schedulers, SchedulerCrash(v) PROVE FALSE
    <3>1. sched'[s].pc = "pollRuns"
      BY <1>0, <2>3, Locals DEF SchedulerCrash, Restart, AtTop, OneScheduler
    <3>. QED BY <1>2, <3>1 DEF Holds, HoldingPoints
  <2>4. ASSUME NEW e \in Executors, ExecutorStep(e) \/ ExecutorCrash(e) PROVE UNCHANGED sched
    BY <2>4 DEF ExecutorStep, TakeTask, FinishTask, ExecutorCrash
  <2>5. ASSUME NEW c \in Clients, ClientCall(c) \/ ClientStep(c) \/ ClientCrash(c) PROVE UNCHANGED sched
    BY <2>5 DEF ClientCall, ClientStep, ClientCrash, CreateRun, CancelRun, ReplayDlq, SetRunStatus,
                PublishRun, CancelTasks, ListDlq, RequeueItem, RemoveItem
  <2>6. UNCHANGED vars => UNCHANGED sched
    BY DEF vars
  <2>. QED BY <2>1, <2>2, <2>3, <2>4, <2>5, <2>6 DEF Next
<1>3. HeldBy(r, k)' <=> \E s \in Schedulers : Holds(sched'[s], r, k)
  BY DEF HeldBy, Holds
<1>. QED BY <1>1, <1>2, <1>3 DEF Spare

\* The scheduler while others take a step.
LEMMA FlightAside ==
  ASSUME OneScheduler, FlightInv, [Next]_vars, UNCHANGED sched, NEW s \in Schedulers
  PROVE  Flight(sched[s])'
<1>. DEFINE l == sched[s]
<1>0. TypeInv /\ StartInv /\ Flight(l) /\ LettersInv
  BY DEF FlightInv, StartInv, OrderInv
<1>1. ASSUME NEW r \in Runs, NEW k \in Tasks, Holds(l, r, k) PROVE ~Msg(r, k)'
  <2>1. ~Msg(r, k)
    BY <1>0, <1>1 DEF Flight
  <2>2. ASSUME NEW v \in Schedulers, PushTask(v) PROVE FALSE
    <3>1. sched[v].pc = "push" /\ sched'[v].pc # "push"
      BY <1>0, <2>2, PushTaskFlow DEF Went, Moved, Top
    <3>. QED BY <3>1
  <2>3. ASSUME NEW c \in Clients, Resends(c, r, k) PROVE FALSE
    BY <1>0, <1>1, <2>3, ResendsClean DEF Spare, HeldBy
  <2>. QED BY <1>0, <2>1, <2>2, <2>3, MsgMoves
<1>2. ASSUME AtPoint(l, HoldingPoints), ~(Calling(l) /\ Picking(l)) PROVE Touched(task', l.run, l.task)
  <2>1. l.run \in Runs /\ l.task \in Tasks
    BY <1>0, <1>2, Locals DEF Sound, AtPoint, Calling, HoldingPoints
  <2>. QED BY <1>0, <1>2, <2>1, TouchedStays DEF Flight, FlightInv
<1>3. ASSUME Picking(l), NEW r \in Runs, NEW k \in Tasks, l.run = r, Open(l, k) PROVE ~Loose(r, k)'
  <2>1. ~Loose(r, k)
    BY <1>0, <1>3 DEF Flight
  <2>2. ASSUME NEW v \in Schedulers, Handed(sched[v], r, k) PROVE FALSE
    <3>1. v = s
      BY DEF OneScheduler
    <3>. QED BY <1>0, <1>3, <2>2, <3>1 DEF Flight, Handed, Open, Picking
  <2>. QED BY <1>0, <2>1, <2>2, LooseMoves
<1>. QED
  BY <1>0, <1>1, <1>2, <1>3 DEF Flight

\* A list of letters nobody sends from stays clean.
LEMMA CleanStays ==
  ASSUME OneScheduler, FlightInv, [Next]_vars, NEW q, Clean(q),
         \A r \in Runs, k \in Tasks : Has(q, r, k) =>
           Loose(r, k) /\ \A c \in Clients : ~Resends(c, r, k)
  PROVE  Uniq(q) /\ \A r \in Runs, k \in Tasks : Has(q, r, k) => Spare(r, k)'
BY SpareStays DEF Clean

LEMMA FlightNextScheds ==
  ASSUME OneScheduler, FlightInv, [Next]_vars
  PROVE  \A s \in Schedulers : Flight(sched[s])'
<1>. SUFFICES ASSUME NEW s \in Schedulers PROVE Flight(sched[s])'
  OBVIOUS
<1>0. TypeInv /\ StartInv
  BY DEF FlightInv, StartInv, OrderInv
<1>1. CASE UNCHANGED sched
  BY <1>1, FlightAside
<1>2. ASSUME NEW v \in Schedulers, SchedulerStep(v) PROVE Flight(sched[s])'
  BY <1>2, FlightStep DEF FlightInv, OneScheduler
<1>3. ASSUME NEW v \in Schedulers, SchedulerCrash(v) PROVE Flight(sched[s])'
  <2>1. sched'[s] = AtTop("pollRuns")
    BY <1>0, <1>3, Locals DEF SchedulerCrash, Restart, OneScheduler
  <2>. QED
    BY <2>1 DEF Flight, AtTop, Asks, AtPoint, Calling, Picking, Holds, HoldingPoints
<1>4. ASSUME NEW e \in Executors, ExecutorStep(e) \/ ExecutorCrash(e) PROVE UNCHANGED sched
  BY <1>4 DEF ExecutorStep, TakeTask, FinishTask, ExecutorCrash
<1>5. ASSUME NEW c \in Clients, ClientCall(c) \/ ClientStep(c) \/ ClientCrash(c) PROVE UNCHANGED sched
  BY <1>5 DEF ClientCall, ClientStep, ClientCrash, CreateRun, CancelRun, ReplayDlq, SetRunStatus,
              PublishRun, CancelTasks, ListDlq, RequeueItem, RemoveItem
<1>6. UNCHANGED vars => UNCHANGED sched
  BY DEF vars
<1>. QED BY <1>1, <1>2, <1>3, <1>4, <1>5, <1>6 DEF Next

LEMMA DistinctNext ==
  ASSUME FlightInv, [Next]_vars
  PROVE  Distinct'
<1>0. TypeInv /\ Distinct
  BY DEF FlightInv, StartInv, OrderInv
<1>1. ASSUME NEW s \in Schedulers, PushTask(s) PROVE Distinct'
  <2>. DEFINE l == sched[s]
              m == Message(l.run, l.task, l.attempt)
  <2>1. l.run \in Runs /\ l.task \in Tasks /\ m.run = l.run /\ m.task = l.task
    BY <1>0, <1>1, PushSends DEF Message
  <2>2. ~Msg(m.run, m.task)
    <3>1. Holds(l, l.run, l.task)
      BY <1>1 DEF PushTask, Holds, HoldingPoints
    <3>. QED BY <2>1, <3>1 DEF FlightInv, Flight
  <2>3. External /\ taskQ' = taskQ => UNCHANGED <<taskQ, doneQ, executing>>
    BY <1>0, <1>1, PushSends
  <2>. QED BY <1>0, <1>1, <2>2, <2>3, PushSends, SendDistinct, StillDistinct
<1>2. ASSUME NEW s \in Schedulers, PopDone(s) PROVE Distinct'
  <2>1. CASE doneQ' = doneQ
    BY <1>0, <1>2, <2>1, StillDistinct DEF PopDone
  <2>2. CASE doneQ' # doneQ
    <3>1. Pops(Head(doneQ))
      BY <1>0, <1>2, <2>2, PopDoneFlow DEF Pops, PopDone
    <3>. QED BY <1>0, <3>1, PopDistinct
  <2>. QED BY <2>1, <2>2
<1>3. ASSUME NEW s \in Schedulers, SchedulerStep(s) \/ SchedulerCrash(s), ~PushTask(s), ~PopDone(s)
      PROVE  Distinct'
  <2>1. UNCHANGED <<taskQ, doneQ, executing>>
    BY <1>3, LoopTraffic DEF SchedulerCrash, HandleDead, queues
  <2>. QED BY <1>0, <2>1, StillDistinct
<1>4. ASSUME NEW e \in Executors, ExecutorStep(e) \/ ExecutorCrash(e) PROVE Distinct'
  BY <1>0, <1>4, TakeDistinct, FinishDistinct, LossDistinct DEF ExecutorStep
<1>5. ASSUME NEW c \in Clients, RequeueItem(c) PROVE Distinct'
  <2>1. CASE UNCHANGED taskQ
    BY <1>0, <1>5, <2>1, StillDistinct DEF RequeueItem
  <2>2. CASE ~UNCHANGED taskQ
    <3>. DEFINE m == Head(api[c].items)
                n == Message(m.run, m.task, m.attempt + 1)
    <3>1. api[c].items # <<>> /\ m.run = api[c].run /\ m \in MessageSet /\ Sends("default", n)
      BY <1>0, <1>5, <2>2, RequeueSends
    <3>2. m.run \in Runs /\ m.task \in Tasks /\ IsFor(m, m.run, m.task)
      BY <3>1 DEF MessageSet, IsFor
    <3>3. Resends(c, m.run, m.task)
      BY <1>5, <3>1, <3>2 DEF Resends
    <3>4. ~Msg(n.run, n.task)
      BY <1>0, <3>2, <3>3, ResendsClean DEF FlightInv, Spare, Message
    <3>. QED BY <1>0, <3>1, <3>4, SendDistinct
  <2>. QED BY <2>1, <2>2
<1>6. ASSUME NEW c \in Clients, ClientCall(c) \/ ClientStep(c) \/ ClientCrash(c), ~RequeueItem(c)
      PROVE  Distinct'
  <2>1. UNCHANGED <<taskQ, doneQ, executing>>
    BY <1>6 DEF ClientCall, ClientStep, ClientCrash, CreateRun, CancelRun, ReplayDlq,
       SetRunStatus, PublishRun, CancelTasks, ListDlq, RemoveItem, queues
  <2>. QED BY <1>0, <2>1, StillDistinct
<1>7. CASE UNCHANGED vars
  BY <1>0, <1>7, StillDistinct DEF vars
<1>. QED BY <1>1, <1>2, <1>3, <1>4, <1>5, <1>6, <1>7 DEF Next

\* How the letters a handler has still to send change.
LEMMA HandlerMoves ==
  ASSUME TypeInv, [Next]_vars, NEW c \in Clients
  PROVE  \/ ToRequeue(api[c])' = <<>> /\ api'[c].op \notin Replaying
         \/ ToRequeue(api[c])' = dlq' /\ api'[c].op = "lrange" /\ \E r \in Runs : ReplayDlq(c, r)
         \/ api'[c] = api[c]
         \/ /\ api[c].op \in Replaying /\ api'[c].op \in Replaying
            /\ ToRequeue(api[c])' = ToRequeue(api[c]) /\ \A r, k : ~Resends(c, r, k)
         \/ /\ RequeueItem(c) /\ api[c].op = "requeue" /\ api'[c].op \in Replaying
            /\ api[c].items # <<>> /\ ToRequeue(api[c])' = Tail(api[c].items)
<1>0. /\ DOMAIN api = Clients /\ api[c] \in Handler
      /\ IdleClient.op = "idle"
  BY ListTypes DEF IdleClient
<1>1. ASSUME NEW d \in Clients, d # c, ClientCall(d) \/ ClientStep(d) \/ ClientCrash(d)
      PROVE  api'[c] = api[c]
  BY <1>0, <1>1 DEF ClientCall, ClientStep, ClientCrash, CreateRun, CancelRun, ReplayDlq, SetRunStatus,
     PublishRun, CancelTasks, ListDlq, RequeueItem, RemoveItem
<1>2. ASSUME \/ \E r \in Runs : CreateRun(c, r) \/ CancelRun(c, r)
             \/ PublishRun(c) \/ CancelTasks(c) \/ ClientCrash(c)
      PROVE  api'[c].op \notin Replaying /\ ToRequeue(api[c])' = <<>>
  BY <1>0, <1>2 DEF CreateRun, CancelRun, PublishRun, CancelTasks, ClientCrash, Replaying, ToRequeue
<1>3. ASSUME NEW r \in Runs, ReplayDlq(c, r)
      PROVE  api'[c].op = "lrange" /\ ToRequeue(api[c])' = dlq'
  BY <1>0, <1>3 DEF ReplayDlq, ToRequeue
<1>4. ASSUME NEW r \in Runs, NEW st \in ManualStatus, SetRunStatus(c, r, st)
      PROVE  api' = api
  BY <1>4 DEF SetRunStatus
<1>5. CASE ListDlq(c)
  <2>1. api'[c] = [api[c] EXCEPT !.op = "requeue", !.items = dlq] /\ api[c].op = "lrange"
    BY <1>0, <1>5 DEF ListDlq
  <2>2. api'[c].op = "requeue" /\ api'[c].items = dlq
    BY <1>0, <2>1 DEF Handler
  <2>3. ToRequeue(api[c]) = dlq /\ ToRequeue(api[c])' = dlq
    BY <2>1, <2>2 DEF ToRequeue
  <2>. QED BY <2>1, <2>2, <2>3 DEF Replaying, Resends, RequeueItem
<1>6. CASE RemoveItem(c)
  <2>. DEFINE rest == Tail(api[c].items)
  <2>1. api'[c] = [api[c] EXCEPT !.op = "requeue", !.items = rest] /\ api[c].op = "lrem"
    BY <1>0, <1>6 DEF RemoveItem
  <2>2. api'[c].op = "requeue" /\ api'[c].items = rest
    <3>. HIDE DEF rest
    <3>. QED BY <1>0, <2>1 DEF Handler
  <2>3. ToRequeue(api[c]) = rest /\ ToRequeue(api[c])' = rest
    BY <2>1, <2>2 DEF ToRequeue
  <2>. QED BY <2>1, <2>2, <2>3 DEF Replaying, Resends, RequeueItem
<1>7. CASE RequeueItem(c)
  <2>. DEFINE rest == Tail(api[c].items)
  <2>0. api[c].op = "requeue"
    BY <1>7 DEF RequeueItem
  <2>1. CASE api[c].items = <<>>
    <3>1. api'[c].op = "idle"
      BY <1>0, <1>7, <2>1 DEF RequeueItem
    <3>. QED BY <3>1 DEF Replaying, ToRequeue
  <2>2. CASE api[c].items # <<>> /\ Head(api[c].items).run # api[c].run
    <3>1. api'[c] = [api[c] EXCEPT !.items = rest]
      BY <1>0, <1>7, <2>2 DEF RequeueItem
    <3>2. api'[c].op = "requeue" /\ api'[c].items = rest
      <4>. HIDE DEF rest
      <4>. QED BY <1>0, <2>0, <3>1 DEF Handler
    <3>. QED BY <1>7, <2>0, <2>2, <3>2 DEF Replaying, ToRequeue
  <2>3. CASE api[c].items # <<>> /\ Head(api[c].items).run = api[c].run
    <3>1. api'[c] = [api[c] EXCEPT !.op = "lrem"]
      BY <1>0, <1>7, <2>3 DEF RequeueItem
    <3>2. api'[c].op = "lrem" /\ api'[c].items = api[c].items
      BY <1>0, <3>1 DEF Handler
    <3>. QED BY <1>7, <2>0, <2>3, <3>2 DEF Replaying, ToRequeue
  <2>. QED BY <2>1, <2>2, <2>3
<1>8. ASSUME NEW s \in Schedulers, SchedulerStep(s) \/ SchedulerCrash(s) PROVE api' = api
  BY <1>8, LoopTraffic DEF SchedulerCrash
<1>9. ASSUME NEW e \in Executors, ExecutorStep(e) \/ ExecutorCrash(e) PROVE api' = api
  BY <1>9 DEF ExecutorStep, TakeTask, FinishTask, ExecutorCrash
<1>10. UNCHANGED vars => api' = api
  BY DEF vars
<1>11. CASE ClientCall(c) \/ ClientStep(c) \/ ClientCrash(c)
  BY <1>2, <1>3, <1>4, <1>5, <1>6, <1>7, <1>11 DEF ClientCall, ClientStep
<1>. QED
  BY <1>1, <1>8, <1>9, <1>10, <1>11 DEF Next

\* How the dead-letter queue and the count of calls change.
LEMMA DlqMoves ==
  ASSUME TypeInv, [Next]_vars
  PROVE  /\ \/ dlq' = dlq
            \/ \E s \in Schedulers : HandleDead(s)
            \/ \E c \in Clients : RemoveItem(c)
         /\ \/ calls' = calls
            \/ calls < MaxCalls /\ calls' = calls + 1 /\ dlq' = dlq
<1>1. ASSUME NEW s \in Schedulers, SchedulerStep(s)
      PROVE  calls' = calls /\ (dlq' = dlq \/ HandleDead(s))
  <2>1. CASE PopRun(s) \/ AdmitRun(s) \/ CancelRunTasks(s) \/ SelectRunStatus(s) \/ UpdateRunStatus(s)
    BY <2>1 DEF PopRun, AdmitRun, CancelRunTasks, SelectRunStatus, UpdateRunStatus, queues, budget
  <2>2. CASE SelectTaskStatus(s) \/ UpsertTask(s) \/ LoadPlan(s) \/ InitTask(s) \/ FinishInit(s) \/ ReadStates(s)
    BY <2>2 DEF SelectTaskStatus, UpsertTask, LoadPlan, InitTask, FinishInit, ReadStates, queues, budget
  <2>3. CASE PickReady(s) \/ PushTask(s) \/ PopDone(s) \/ HandleSuccess(s) \/ HandleRetry(s)
    BY <2>3 DEF PickReady, PushTask, PopDone, HandleSuccess, HandleRetry, queues, budget
  <2>4. CASE WakeUp(s) \/ HandleDead(s) \/ SyncRead(s) \/ SyncCancel(s) \/ SyncVerdict(s)
    BY <2>4 DEF WakeUp, HandleDead, SyncRead, SyncCancel, SyncVerdict, queues, budget
  <2>. QED BY <1>1, <2>1, <2>2, <2>3, <2>4 DEF SchedulerStep
<1>2. ASSUME NEW s \in Schedulers, SchedulerCrash(s) PROVE calls' = calls /\ dlq' = dlq
  BY <1>2 DEF SchedulerCrash, queues
<1>3. ASSUME NEW e \in Executors, ExecutorStep(e) \/ ExecutorCrash(e) PROVE calls' = calls /\ dlq' = dlq
  BY <1>3 DEF ExecutorStep, TakeTask, FinishTask, ExecutorCrash, queues, budget
<1>4. ASSUME NEW c \in Clients, ClientStep(c) \/ ClientCrash(c)
      PROVE  calls' = calls /\ (dlq' = dlq \/ RemoveItem(c))
  BY <1>4 DEF ClientStep, ClientCrash, PublishRun, CancelTasks, ListDlq, RequeueItem, RemoveItem, queues, budget
<1>5. ASSUME NEW c \in Clients, ClientCall(c)
      PROVE  dlq' = dlq /\ (calls' = calls \/ (calls < MaxCalls /\ calls' = calls + 1))
  BY <1>5 DEF ClientCall, CreateRun, CancelRun, ReplayDlq, SetRunStatus, Call, queues, budget
<1>6. UNCHANGED vars => calls' = calls /\ dlq' = dlq
  BY DEF vars
<1>. QED BY <1>1, <1>2, <1>3, <1>4, <1>5, <1>6 DEF Next

\* While no replay has read it, the dead-letter queue stays clean.
LEMMA DlqClean ==
  ASSUME OneScheduler, FlightInv, [Next]_vars, Clean(dlq),
         \A c \in Clients : api[c].op \notin {"requeue", "lrem"}
  PROVE  Clean(dlq)'
<1>0. TypeInv
  BY DEF FlightInv, StartInv, OrderInv
<1>. SUFFICES Uniq(dlq') /\ \A r \in Runs, k \in Tasks : Has(dlq', r, k) => Spare(r, k)'
  BY DEF Clean, Uniq, Has
<1>1. Uniq(dlq) /\ \A r \in Runs, k \in Tasks : Has(dlq, r, k) => Spare(r, k)'
  <2>1. \A c \in Clients, r \in Runs, k \in Tasks : ~Resends(c, r, k)
    BY DEF Resends, RequeueItem
  <2>. QED BY <2>1, CleanStays DEF Loose
<1>2. ASSUME NEW s \in Schedulers, HandleDead(s)
      PROVE  Uniq(dlq') /\ \A r \in Runs, k \in Tasks : Has(dlq', r, k) => Spare(r, k)'
  <2>. DEFINE l == sched[s]
              m == Message(l.run, l.task, l.attempt)
  <2>1. dlq' = Append(dlq, m) /\ UNCHANGED <<taskQ, doneQ, executing>> /\ l.pc = "handle"
    BY <1>2 DEF HandleDead
  <2>2. l.run \in Runs /\ l.task \in Tasks /\ l.attempt \in Nat
    BY <1>0, <2>1, Locals DEF Sound, Local
  <2>3. m \in MessageSet /\ m.run = l.run /\ m.task = l.task
    BY <2>2 DEF Message, MessageSet
  <2>4. Holds(l, l.run, l.task)
    BY <2>1 DEF Holds, HoldingPoints
  <2>5. ~Has(dlq, m.run, m.task)
    BY <2>2, <2>3, <2>4 DEF Clean, Spare, HeldBy
  <2>6. Uniq(dlq') /\ \A r, k : Has(dlq', r, k) <=> Has(dlq, r, k) \/ IsFor(m, r, k)
    <3>. HIDE DEF m
    <3>. QED BY <1>0, <1>1, <2>1, <2>3, <2>5, ListTypes, UniqAppend, HasAppend
  <2>7. ASSUME NEW r \in Runs, NEW k \in Tasks, IsFor(m, r, k) PROVE Spare(r, k)'
    <3>1. r = l.run /\ k = l.task
      BY <2>3, <2>7 DEF IsFor
    <3>2. ~Msg(r, k)
      BY <2>4, <3>1 DEF FlightInv, Flight
    <3>3. ~Msg(r, k)'
      BY <2>1, <3>2, MsgStill
    <3>4. \A v \in Schedulers : sched'[v].pc = "sync"
      BY <1>0, <1>2, HandleFlow DEF Moved, OneScheduler
    <3>. QED BY <3>3, <3>4 DEF Spare, HeldBy, Holds, HoldingPoints
  <2>. QED BY <1>1, <2>6, <2>7
<1>3. \A c \in Clients : ~RemoveItem(c)
  BY DEF RemoveItem
<1>4. CASE dlq' = dlq
  BY <1>1, <1>4
<1>. QED BY <1>0, <1>2, <1>3, <1>4, DlqMoves

LEMMA LettersLoose ==
  ASSUME TypeInv, NEW c \in Clients, NEW r, NEW k, Has(ToRequeue(api[c]), r, k)
  PROVE  Loose(r, k)
<1>1. api[c].items \in Seq(MessageSet) /\ (api[c].op = "lrem" => api[c].items # <<>>)
  BY ListTypes DEF TypeInv, SoundHandler
<1>2. ToRequeue(api[c]) = <<>> \/ Has(dlq, r, k) \/ Has(api[c].items, r, k)
  BY <1>1, HasTail DEF ToRequeue
<1>. QED BY <1>2, HasEmpty DEF Loose

\* Two replays are never under way at once.
LEMMA OneReplayer ==
  ASSUME TypeInv, LettersInv, NEW c \in Clients, api[c].op \in Replaying,
         NEW d \in Clients, NEW r \in Runs, NEW k \in Tasks, Resends(d, r, k)
  PROVE  d = c /\ api[c].op = "requeue" /\ api'[c].op = "lrem"
<1>1. api[d].op = "requeue"
  BY ResendsClean
<1>2. d = c
  BY <1>1 DEF LettersInv, Replaying
<1>3. api'[d] = [api[d] EXCEPT !.op = "lrem"] /\ api[d] \in Handler
  BY ListTypes DEF Resends, RequeueItem
<1>4. api'[d].op = "lrem"
  BY <1>3 DEF Handler
<1>. QED BY <1>1, <1>2, <1>4

LEMMA FirstReplay ==
  ASSUME TypeInv, LettersInv, OneReplay, NEW c \in Clients, NEW r \in Runs, ReplayDlq(c, r)
  PROVE  /\ "replay" \in Ops /\ calls = 0 /\ calls' = 1
         /\ \A d \in Clients : api[d].op \notin Replaying
         /\ Clean(dlq)
<1>1. "replay" \in Ops /\ calls < MaxCalls /\ calls' = calls + 1
  BY DEF ReplayDlq, Call
<1>2. MaxCalls \in Nat /\ MaxCalls <= 1 /\ calls \in Nat
  BY <1>1, BoundsAssumption DEF OneReplay, TypeInv, TypeOK
<1>3. calls = 0 /\ calls' = 1
  BY <1>1, <1>2
<1>. QED BY <1>1, <1>3 DEF LettersInv

LEMMA LettersNextLists ==
  ASSUME OneScheduler, OneReplay, FlightInv, [Next]_vars, NEW c \in Clients
  PROVE  Clean(ToRequeue(api[c]))'
<1>0. TypeInv /\ LettersInv
  BY DEF FlightInv, StartInv, OrderInv
<1>. SUFFICES ASSUME NEW q, q = ToRequeue(api[c])'
              PROVE  Uniq(q) /\ \A r \in Runs, k \in Tasks : Has(q, r, k) => Spare(r, k)'
  BY DEF Clean, Uniq, Has
<1>1. Clean(ToRequeue(api[c]))
  BY <1>0 DEF LettersInv
<1>2. CASE q = <<>>
  <2>1. Uniq(q)
    BY <1>2 DEF Uniq
  <2>. QED BY <1>2, <2>1, HasEmpty
<1>3. ASSUME q = dlq', Clean(dlq), \A d \in Clients : api[d].op \notin {"requeue", "lrem"}
      PROVE  Uniq(q) /\ \A r \in Runs, k \in Tasks : Has(q, r, k) => Spare(r, k)'
  <2>1. Clean(dlq)'
    BY <1>3, DlqClean
  <2>. QED BY <1>3, <2>1 DEF Clean, Uniq, Has
<1>4. ASSUME q = ToRequeue(api[c]), \A r \in Runs, k \in Tasks, d \in Clients : ~Resends(d, r, k)
      PROVE  Uniq(q) /\ \A r \in Runs, k \in Tasks : Has(q, r, k) => Spare(r, k)'
  BY <1>0, <1>1, <1>4, LettersLoose, CleanStays
<1>5. ASSUME NEW r \in Runs, ReplayDlq(c, r), q = dlq'
      PROVE  Uniq(q) /\ \A i \in Runs, k \in Tasks : Has(q, i, k) => Spare(i, k)'
  BY <1>0, <1>3, <1>5, FirstReplay DEF Replaying
<1>6. CASE api'[c] = api[c]
  <2>1. CASE api[c].op = "lrange"
    <3>1. q = dlq' /\ ToRequeue(api[c]) = dlq
      BY <1>6, <2>1 DEF ToRequeue
    <3>2. \A d \in Clients : api[d].op \notin {"requeue", "lrem"}
      BY <1>0, <2>1 DEF LettersInv, Replaying
    <3>. QED BY <1>1, <1>3, <3>1, <3>2
  <2>2. CASE api[c].op \in {"requeue", "lrem"}
    <3>1. q = ToRequeue(api[c])
      BY <1>6, <2>2 DEF ToRequeue
    <3>2. api[c].op \in Replaying
      BY <2>2 DEF Replaying
    <3>3. \A r \in Runs, k \in Tasks, d \in Clients : ~Resends(d, r, k)
      BY <1>0, <1>6, <3>2, OneReplayer
    <3>. QED BY <1>4, <3>1, <3>3
  <2>3. CASE api[c].op \notin Replaying
    <3>1. q = <<>>
      BY <1>6, <2>3 DEF ToRequeue, Replaying
    <3>. QED BY <1>2, <3>1
  <2>. QED BY <2>1, <2>2, <2>3 DEF Replaying
<1>7. CASE /\ api[c].op \in Replaying /\ q = ToRequeue(api[c]) /\ \A r, k : ~Resends(c, r, k)
  <2>1. \A r \in Runs, k \in Tasks, d \in Clients : ~Resends(d, r, k)
    BY <1>0, <1>7, OneReplayer
  <2>. QED BY <1>4, <1>7, <2>1
<1>8. CASE /\ RequeueItem(c) /\ api[c].op = "requeue" /\ api[c].items # <<>> /\ q = Tail(api[c].items)
  <2>. DEFINE items == api[c].items
  <2>1. items \in Seq(MessageSet) /\ ToRequeue(api[c]) = items /\ api[c].op \in Replaying
    BY <1>0, <1>8, ListTypes DEF ToRequeue, Replaying
  <2>2. Uniq(q) /\ ~Has(q, Head(items).run, Head(items).task)
    BY <1>1, <1>8, <2>1, UniqTail DEF Clean
  <2>3. \A r, k : Has(q, r, k) => Has(items, r, k)
    BY <1>8, <2>1, HasTail
  <2>4. ASSUME NEW r \in Runs, NEW k \in Tasks, Has(q, r, k), NEW d \in Clients, Resends(d, r, k)
        PROVE  FALSE
    <3>1. d = c
      BY <1>0, <2>1, <2>4, OneReplayer
    <3>. QED BY <2>2, <2>4, <3>1 DEF Resends, IsFor
  <2>5. Clean(q)
    BY <1>1, <2>1, <2>2, <2>3 DEF Clean
  <2>6. \A r \in Runs, k \in Tasks : Has(q, r, k) => Loose(r, k)
    BY <2>3 DEF Loose
  <2>. QED BY <2>4, <2>5, <2>6, CleanStays
<1>. QED BY <1>0, <1>2, <1>5, <1>6, <1>7, <1>8, HandlerMoves

LEMMA LettersNext ==
  ASSUME OneScheduler, OneReplay, FlightInv, [Next]_vars
  PROVE  LettersInv'
<1>0. TypeInv /\ LettersInv /\ calls \in Nat
  BY DEF FlightInv, StartInv, OrderInv, TypeInv, TypeOK
<1>1. ASSUME NEW c \in Clients, api'[c].op \in Replaying
      PROVE  api[c].op \in Replaying \/ \E r \in Runs : ReplayDlq(c, r)
  BY <1>0, <1>1, HandlerMoves DEF Replaying
<1>2. calls # 0 => calls' # 0
  BY <1>0, DlqMoves
<1>3. ASSUME NEW c \in Clients, api'[c].op \in Replaying PROVE "replay" \in Ops /\ calls' # 0
  BY <1>0, <1>1, <1>2, <1>3, FirstReplay DEF LettersInv
<1>4. ASSUME NEW c \in Clients, NEW d \in Clients, api'[c].op \in Replaying, api'[d].op \in Replaying
      PROVE  c = d
  <2>1. CASE api[c].op \in Replaying /\ api[d].op \in Replaying
    BY <1>0, <2>1 DEF LettersInv
  <2>2. ASSUME NEW r \in Runs, ReplayDlq(c, r) \/ ReplayDlq(d, r), c # d PROVE FALSE
    <3>1. api'[c] = api[c] \/ api'[d] = api[d]
      BY <1>0, <2>2, ListTypes DEF ReplayDlq
    <3>2. api[c].op \notin Replaying /\ api[d].op \notin Replaying
      BY <1>0, <2>2, FirstReplay
    <3>. QED BY <1>4, <3>1, <3>2
  <2>. QED BY <1>1, <1>4, <2>1, <2>2
<1>5. ASSUME "replay" \in Ops, calls' = 0 PROVE Clean(dlq)'
  <2>1. calls = 0 /\ Clean(dlq) /\ \A c \in Clients : api[c].op \notin Replaying
    BY <1>0, <1>2, <1>5 DEF LettersInv
  <2>. QED BY <2>1, DlqClean DEF Replaying
<1>. QED BY <1>3, <1>4, <1>5, LettersNextLists DEF LettersInv

LEMMA FlightNext == OneScheduler /\ OneReplay /\ FlightInv /\ [Next]_vars => FlightInv'
<1>. SUFFICES ASSUME OneScheduler, OneReplay, FlightInv, [Next]_vars PROVE FlightInv'
  OBVIOUS
<1>1. StartInv'
  BY StartNext DEF FlightInv
<1>2. \A r \in Runs, k \in Tasks : Loose(r, k)' => Touched(task', r, k)
  BY LooseTouched DEF FlightInv
<1>. QED
  BY <1>1, <1>2, DistinctNext, FlightNextScheds, LettersNext DEF FlightInv, Touched

LEMMA FlightInit == Init => FlightInv
<1>. SUFFICES ASSUME Init PROVE FlightInv
  OBVIOUS
<1>1. StartInv
  BY StartInit
<1>2. \A r \in Runs : \A k : ~Loose(r, k) /\ ~Msg(r, k)
  BY NobodysMessage, HasEmpty DEF Init, Loose, Msg, IdleClient
<1>3. Distinct
  BY HasEmpty, NobodysMessage DEF Init, Distinct, Uniq
<1>4. \A s \in Schedulers : Flight(sched[s])
  BY DEF Init, Flight, AtTop, Asks, AtPoint, Calling, Picking, Holds, HoldingPoints
<1>5. Clean(<<>>)
  BY HasEmpty DEF Clean, Uniq
<1>6. LettersInv
  BY <1>5 DEF Init, LettersInv, IdleClient, ToRequeue, Replaying
<1>. QED BY <1>1, <1>2, <1>3, <1>4, <1>6 DEF FlightInv

\* What the copies of the work on a task are.
LEMMA CopyKinds ==
  ASSUME NEW r, NEW k, NEW x
  PROVE  x \in Copies(r, k) <=>
           \/ \E q \in Lists : \E i \in 1..Len(taskQ[q]) : x = <<q, i>> /\ IsFor(taskQ[q][i], r, k)
           \/ \E i \in 1..Len(doneQ) : x = <<"done", i>> /\ IsFor(doneQ[i], r, k)
           \/ \E e \in Executors : x = <<"at", e>> /\ IsFor(executing[e], r, k)
           \/ \E s \in Schedulers : x = <<"with", s>> /\ Holds(sched[s], r, k)
<1>. DEFINE Listed(l) == {<<l, i>> : i \in {j \in 1..Len(taskQ[l]) : IsFor(taskQ[l][j], r, k)}}
            A == UNION {Listed(l) : l \in Lists}
            B == {<<"done", i>> : i \in {j \in 1..Len(doneQ) : IsFor(doneQ[j], r, k)}}
            C == {<<"at", e>> : e \in {y \in Executors : IsFor(executing[y], r, k)}}
            D == {<<"with", s>> : s \in {y \in Schedulers : Holds(sched[y], r, k)}}
<1>0. Copies(r, k) = A \cup B \cup C \cup D
  BY DEF Copies
<1>1. ASSUME NEW l
      PROVE  x \in Listed(l) <=> \E i \in 1..Len(taskQ[l]) : x = <<l, i>> /\ IsFor(taskQ[l][i], r, k)
  BY Zenon
<1>2. x \in B <=> \E i \in 1..Len(doneQ) : x = <<"done", i>> /\ IsFor(doneQ[i], r, k)
  BY Zenon
<1>3. x \in C <=> \E e \in Executors : x = <<"at", e>> /\ IsFor(executing[e], r, k)
  BY Zenon
<1>4. x \in D <=> \E s \in Schedulers : x = <<"with", s>> /\ Holds(sched[s], r, k)
  BY Zenon
<1>. HIDE DEF Listed
<1>5. x \in A <=> \E q \in Lists : x \in Listed(q)
  BY Zenon
<1>. HIDE DEF A, B, C, D
<1>6. x \in Copies(r, k) <=> x \in A \/ x \in B \/ x \in C \/ x \in D
  BY <1>0
<1>. QED BY <1>1, <1>2, <1>3, <1>4, <1>5, <1>6

LEMMA InFlightMeans ==
  ASSUME NEW r, NEW k
  PROVE  InFlight(r, k) <=> Msg(r, k) \/ HeldBy(r, k)
BY CopyKinds, Zenon DEF InFlight, Msg, Has, HeldBy

LEMMA CopiesAgree ==
  ASSUME OneScheduler, FlightInv, NEW r \in Runs, NEW k \in Tasks,
         NEW x \in Copies(r, k), NEW y \in Copies(r, k)
  PROVE  x = y
<1>. DEFINE InList(z)  == \E q \in Lists : \E i \in 1..Len(taskQ[q]) : z = <<q, i>> /\ IsFor(taskQ[q][i], r, k)
            InDone(z)  == \E i \in 1..Len(doneQ) : z = <<"done", i>> /\ IsFor(doneQ[i], r, k)
            Running(z) == \E e \in Executors : z = <<"at", e>> /\ IsFor(executing[e], r, k)
            Held(z)    == \E s \in Schedulers : z = <<"with", s>> /\ Holds(sched[s], r, k)
<1>1. \A z \in Copies(r, k) : InList(z) \/ InDone(z) \/ Running(z) \/ Held(z)
  BY CopyKinds
<1>2. ASSUME NEW z, InList(z) PROVE Msg(r, k) /\ \E q \in Lists : Has(taskQ[q], r, k)
  BY <1>2 DEF Msg, Has
<1>3. ASSUME NEW z, InDone(z) PROVE Msg(r, k) /\ Has(doneQ, r, k)
  BY <1>3 DEF Msg, Has
<1>4. ASSUME NEW z, Running(z) PROVE Msg(r, k) /\ \E e \in Executors : IsFor(executing[e], r, k)
  BY <1>4 DEF Msg
<1>5. ASSUME NEW z, Held(z) PROVE ~Msg(r, k)
  BY <1>5 DEF FlightInv, Flight
<1>6. ASSUME InList(x), InList(y) PROVE x = y
  <2>1. PICK p \in Lists : \E i \in 1..Len(taskQ[p]) : x = <<p, i>> /\ IsFor(taskQ[p][i], r, k)
    BY <1>6
  <2>2. PICK q \in Lists : \E i \in 1..Len(taskQ[q]) : y = <<q, i>> /\ IsFor(taskQ[q][i], r, k)
    BY <1>6
  <2>3. p = q
    BY <2>1, <2>2 DEF FlightInv, Distinct, Has
  <2>. QED BY <2>1, <2>2, <2>3 DEF FlightInv, Distinct, Uniq, IsFor
<1>7. ASSUME InDone(x), InDone(y) PROVE x = y
  BY <1>7 DEF FlightInv, Distinct, Uniq, IsFor
<1>8. ASSUME Running(x), Running(y) PROVE x = y
  BY <1>8 DEF FlightInv, Distinct
<1>9. ASSUME Held(x), Held(y) PROVE x = y
  BY <1>9 DEF OneScheduler
<1>10. ~(InList(x) /\ InDone(y)) /\ ~(InDone(x) /\ InList(y))
  BY <1>2, <1>3 DEF FlightInv, Distinct
<1>11. /\ ~(InList(x) /\ Running(y)) /\ ~(Running(x) /\ InList(y))
       /\ ~(InDone(x) /\ Running(y)) /\ ~(Running(x) /\ InDone(y))
  BY <1>2, <1>3, <1>4 DEF FlightInv, Distinct
<1>. HIDE DEF InList, InDone, Running, Held
<1>. QED
  BY <1>1, <1>2, <1>3, <1>4, <1>5, <1>6, <1>7, <1>8, <1>9, <1>10, <1>11

(***************************************************************************)
(* Work on a task is never in two places, for every plan, every number of  *)
(* runs, executors and handlers, with cancels, status calls, crashes and   *)
(* either no replay of the dead-letter queue or one.  A second replay may  *)
(* read a letter before the first has removed it and send it again.        *)
(***************************************************************************)
THEOREM WorkInOnePlace ==
  ASSUME OneScheduler, OneReplay
  PROVE  Spec => []OneCopy
<1>1. FlightInv /\ [Next]_vars => FlightInv'
  BY FlightNext
<1>2. ASSUME FlightInv PROVE OneCopy
  <2>1. ASSUME NEW r \in Runs, NEW k \in Tasks PROVE Cardinality(Copies(r, k)) <= 1
    <3>1. CASE Copies(r, k) = {}
      BY <3>1, FS_EmptySet
    <3>2. ASSUME NEW x \in Copies(r, k) PROVE Cardinality(Copies(r, k)) <= 1
      <4>1. Copies(r, k) = {x}
        BY <1>2, CopiesAgree, <3>2
      <4>2. Cardinality({x}) = 1
        BY FS_Singleton
      <4>. QED BY <4>1, <4>2
    <3>. QED BY <3>1, <3>2
  <2>. QED BY <2>1 DEF OneCopy
<1>. QED
  BY FlightInit, <1>1, <1>2, PTL DEF Spec

-----------------------------------------------------------------------------
(***************************************************************************)
(* What the row of a task says follows the work on it, as long as dead     *)
(* letters are not replayed: RUNNING while the work is out, the outcome    *)
(* while it is handled, RETRY while the scheduler sleeps.  A cancel may    *)
(* write CANCELLED over it at any time.                                    *)
(***************************************************************************)
NoReplay == "replay" \notin Ops

\* Nobody cancels a run.
Calm == "cancel" \notin Ops /\ "CANCELLED" \notin ManualStatus
Out  == IF Calm THEN {} ELSE {"CANCELLED"}

Says(t, r, k, S) == t[r][k].status \in S \cup Out

\* What the row of the task in hand says.
Marked(t, l) ==
  /\ l.pc = "push" => Says(t, l.run, l.task, {Dispatched})
  /\ l.pc = "handle" => Says(t, l.run, l.task, {l.status})
  /\ l.pc = "sleep" => Says(t, l.run, l.task, {"RETRY"})
  /\ Calling(l) /\ l.cont = "push" =>
       Says(t, l.run, l.task, IF l.ret = "pick" THEN {"none", "PENDING"} ELSE {"RETRY"})
  /\ Calling(l) /\ l.cont = "handle" => Says(t, l.run, l.task, {"RUNNING"})
  /\ Calling(l) /\ l.cont = "sleep" => Says(t, l.run, l.task, {"FAILED"})
  /\ Calling(l) /\ l.cont = "syncCancel" =>
       l.task \notin l.todo /\ Says(t, l.run, l.task, {"none", "PENDING"})

\* What the rows say of which the scheduler read the states.
Remembered(t, l) ==
  /\ Picking(l) \/ AtPoint(l, {"syncCancel"}) =>
       \A k \in l.todo : l.snap[k].status = "PENDING" => Says(t, l.run, k, {"none", "PENDING"})
  /\ AtPoint(l, {"syncCancel"}) => \A k \in l.todo : l.snap[k].status = "PENDING"
  /\ AtPoint(l, {"syncCancel"}) =>
       \A k \in Selected(l.run) : l.snap[k].status = "FAILED" => t[l.run][k].status = "FAILED"
  /\ l.pc \in {"runSelect", "runUpdate"} /\ l.status = "FAILED" =>
       \E k \in Keys(Plan[l.run]) : t[l.run][k].status = "FAILED"

\* The tasks a failure calls off were never handed out.
CalledOff(l, k) == \/ k \in l.todo
                   \/ Calling(l) /\ k = l.task

NeverOut(l) ==
  AtPoint(l, {"syncCancel"}) =>
    \A r \in Runs, k \in Tasks : l.run = r /\ CalledOff(l, k) => ~Loose(r, k)

CalmInv ==
  Calm => /\ \A r \in Runs : runStatus[r] # "CANCELLED"
          /\ \A s \in Schedulers :
               /\ sched[s].pc # "cancelAll"
               /\ sched[s].pc \in {"runSelect", "runUpdate"} => sched[s].status # "CANCELLED"
          /\ \A c \in Clients : api[c].op # "cancelTasks"

MarksInv ==
  /\ FlightInv
  /\ CalmInv
  /\ \A s \in Schedulers : Marked(task, sched[s]) /\ Remembered(task, sched[s]) /\ NeverOut(sched[s])
  /\ \A r \in Runs, k \in Tasks : Msg(r, k) => Says(task, r, k, {"RUNNING"})

\* The row of a task changes when the scheduler writes it, or to CANCELLED.
LEMMA RowStays ==
  ASSUME TypeInv, CalmInv, [Next]_vars, NEW r \in Runs, NEW k \in Tasks,
         \A s \in Schedulers : UpsertTask(s) => ~(sched[s].run = r /\ sched[s].task = k)
  PROVE  /\ \A S : Says(task, r, k, S) => Says(task', r, k, S)
         /\ task[r][k].status = "FAILED" => task'[r][k].status = "FAILED"
<1>1. CASE task'[r][k].status = task[r][k].status
  BY <1>1 DEF Says
<1>2. CASE task'[r][k].status # task[r][k].status
  <2>1. task[r][k].status # "FAILED" /\ task'[r][k].status = "CANCELLED"
        /\ \/ \E s \in Schedulers : CancelRunTasks(s)
           \/ \E c \in Clients : CancelTasks(c)
    BY <1>2, RowMoves
  <2>2. ~Calm
    BY <2>1 DEF CalmInv, CancelRunTasks, CancelTasks
  <2>. QED BY <2>1, <2>2 DEF Says, Out
<1>. QED BY <1>1, <1>2

LEMMA OtherRows ==
  ASSUME TypeInv, CalmInv, [Next]_vars, UNCHANGED sched, NEW r \in Runs, NEW k \in Tasks
  PROVE  /\ \A S : Says(task, r, k, S) => Says(task', r, k, S)
         /\ task[r][k].status = "FAILED" => task'[r][k].status = "FAILED"
<1>1. ASSUME NEW s \in Schedulers, UpsertTask(s) PROVE FALSE
  BY <1>1, UpsertTaskFlow DEF Moved, AfterTask
<1>. QED BY <1>1, RowStays

LEMMA MarksAside ==
  ASSUME OneScheduler, TypeInv, CalmInv, [Next]_vars, UNCHANGED sched, NEW s \in Schedulers,
         Marked(task, sched[s]), Remembered(task, sched[s]), NeverOut(sched[s])
  PROVE  Marked(task', sched'[s]) /\ Remembered(task', sched'[s]) /\ NeverOut(sched[s])'
<1>. DEFINE l == sched[s]
<1>0. l \in Local /\ l.todo \subseteq Tasks
  BY Locals DEF Local
<1>1. Marked(task', l)
  <2>1. CASE l.pc \in HoldingPoints \/ Calling(l)
    <3>1. l.run \in Runs /\ l.task \in Tasks
      BY <2>1, Locals DEF Sound, HoldingPoints, Calling
    <3>. QED BY <3>1, OtherRows DEF Marked
  <2>2. CASE ~(l.pc \in HoldingPoints \/ Calling(l))
    BY <2>2 DEF Marked, HoldingPoints
  <2>. QED BY <2>1, <2>2
<1>2. Remembered(task', l)
  <2>1. CASE l.pc \in Top
    BY <2>1 DEF Remembered, Top, Picking, AtPoint, Calling
  <2>2. CASE l.run \in Runs
    BY <1>0, <2>2, OtherRows, KeysAreTasks DEF Remembered
  <2>. QED BY <2>1, <2>2, Locals
<1>3. NeverOut(l)'
  <2>1. ASSUME AtPoint(l, {"syncCancel"}), NEW r \in Runs, NEW k \in Tasks, l.run = r, CalledOff(l, k), Loose(r, k)'
        PROVE  FALSE
    <3>1. ~Loose(r, k)
      BY <2>1 DEF NeverOut
    <3>2. Handed(l, r, k)
      BY <2>1, <3>1, LooseMoves DEF OneScheduler
    <3>. QED BY <2>1, <3>2 DEF Handed, AtPoint, Calling
  <2>. QED BY <2>1 DEF NeverOut
<1>. QED BY <1>1, <1>2, <1>3

LEMMA StatesTell ==
  ASSUME TypeInv, NEW r \in Runs, NEW k \in Tasks
  PROVE  /\ States(r)[k].status = "PENDING" => task[r][k].status \in {"none", "PENDING"}
         /\ States(r)[k].status \notin {"PENDING", "none"} => task[r][k].status = States(r)[k].status
<1>1. task[r][k] \in RowSet /\ States(r)[k] = Seen(task[r][k])
  BY DEF TypeInv, TypeOK, States
<1>2. [task[r][k] EXCEPT !.status = "PENDING"].status = "PENDING"
  BY <1>1 DEF RowSet
<1>. QED BY <1>1, <1>2 DEF Seen

\* The steps of the scheduler, with the rows as they are.
LEMMA MarksLoop ==
  ASSUME MarksInv, NEW s \in Schedulers, SchedulerStep(s),
         ~UpsertTask(s), ~CancelRunTasks(s), [Next]_vars
  PROVE  Marked(task, sched'[s]) /\ Remembered(task, sched'[s])
<1>. DEFINE l == sched[s]
            m == sched'[s]
<1>0. TypeInv /\ Marked(task, l) /\ Remembered(task, l) /\ Asks(l)
  BY DEF MarksInv, FlightInv, StartInv, OrderInv, Flight
<1>1. CASE PopRun(s)
  BY <1>0, <1>1, PopRunFlow DEF Marked, Remembered, Calling, AtPoint, Picking, Top
<1>2. CASE AdmitRun(s)
  BY <1>0, <1>2, AdmitRunFlow
  DEF WithdrawsAll, AskedRun, Marked, Remembered, Calling, AtPoint, Picking, Top
<1>3. CASE SelectRunStatus(s) \/ UpdateRunStatus(s)
  BY <1>0, <1>3, RunStatusFlow
  DEF Went, Moved, AfterRun, Marked, Remembered, Calling, AtPoint, Picking, Top
<1>4. CASE SelectTaskStatus(s)
  <2>. DEFINE cur == task[l.run][l.task].status
  <2>1. l.pc = "taskSelect" /\ Calling(l) /\ l.cont \in AfterTask
    BY <1>0, <1>4, SelectTaskStatusFlow DEF Calling
  <2>2. CASE Moved(l, m, "taskUpdate")
    BY <1>0, <2>1, <2>2 DEF Moved, Marked, Remembered, Calling, AtPoint, Picking
  <2>3. CASE Moved(l, m, l.cont) /\ cur # "none" /\ l.status \notin TaskAllowed(cur)
    <3>1. Remembered(task, m)
      BY <1>0, <2>1, <2>3 DEF Moved, Remembered, Calling, AtPoint, Picking, AfterTask
    <3>2. CASE l.cont = "push"
      <4>1. cur \in Out
        BY <1>0, <2>1, <2>3, <3>2 DEF Marked, Asks, Says, TaskAllowed, Dispatched
      <4>. QED BY <2>3, <3>1, <3>2, <4>1 DEF Moved, Marked, Calling, Says
    <3>3. CASE l.cont = "handle"
      <4>1. cur \in Out
        BY <1>0, <2>1, <2>3, <3>3 DEF Marked, Asks, Says, TaskAllowed, AtPoint
      <4>. QED BY <2>3, <3>1, <3>3, <4>1 DEF Moved, Marked, Calling, Says
    <3>4. CASE l.cont = "sleep"
      <4>1. cur \in Out
        BY <1>0, <2>1, <2>3, <3>4 DEF Marked, Asks, Says, TaskAllowed
      <4>. QED BY <2>3, <3>1, <3>4, <4>1 DEF Moved, Marked, Calling, Says
    <3>5. CASE l.cont \in {"initTasks", "syncCancel"}
      BY <2>3, <3>1, <3>5 DEF Moved, Marked, Calling
    <3>. QED BY <2>1, <3>2, <3>3, <3>4, <3>5 DEF AfterTask
  <2>. QED BY <1>0, <1>4, <2>2, <2>3, SelectTaskStatusFlow
<1>5. CASE LoadPlan(s) \/ InitTask(s)
  BY <1>0, <1>5, LoadPlanFlow, InitTaskFlow
  DEF Asked, Marked, Remembered, Calling, AtPoint, Picking
<1>6. CASE FinishInit(s)
  <2>1. CASE AskedRun(l, m, "FAILED", "pollRuns") /\ ~(Skipped(l.run) \subseteq l.proven)
    <3>1. PICK k \in Skipped(l.run) : k \notin l.proven
      BY <2>1
    <3>2. l.pc = "initTasks" /\ l.todo = {} /\ l.run \in Runs
      BY <1>0, <1>6, FinishInitFlow, Locals DEF Top
    <3>3. Initialising(task, l) /\ ~Calling(l)
      BY <3>2 DEF MarksInv, FlightInv, StartInv, StartOf, AtPoint, Calling
    <3>4. task[l.run][k].status = InitStatus(l, k)
      BY <3>1, <3>2, <3>3 DEF Initialising
    <3>5. k \notin Selected(l.run) /\ k \in Keys(Plan[l.run])
      BY <3>1, <3>2, KeysAreTasks DEF Skipped, Selected, SkippedKeys
    <3>6. task[l.run][k].status = "FAILED"
      BY <3>1, <3>4, <3>5 DEF InitStatus
    <3>. QED BY <2>1, <3>5, <3>6 DEF AskedRun, Marked, Remembered, Calling, AtPoint, Picking
  <2>2. CASE m.pc = "ready"
    BY <2>2 DEF Marked, Remembered, Calling, AtPoint, Picking
  <2>. QED BY <1>0, <1>6, <2>1, <2>2, FinishInitFlow
<1>7. CASE ReadStates(s)
  <2>1. l.run \in Runs /\ l.pc = "ready"
    BY <1>0, <1>7, ReadStatesFlow, Locals DEF Top
  <2>2. CASE m.pc = "pick" /\ m.run = l.run /\ m.snap = States(l.run) /\ m.todo = Selected(l.run)
    <3>1. \A k \in m.todo : m.snap[k].status = "PENDING" => Says(task, l.run, k, {"none", "PENDING"})
      BY <1>0, <2>1, <2>2, StatesTell, KeysAreTasks DEF Says
    <3>. QED BY <2>2, <3>1 DEF Marked, Remembered, Calling, AtPoint
  <2>3. CASE m.pc = "cancelAll"
    BY <2>3 DEF Marked, Remembered, Calling, AtPoint, Picking
  <2>. QED BY <1>0, <1>7, <2>2, <2>3, ReadStatesFlow DEF WithdrawsAll
<1>8. CASE PickReady(s)
  <2>1. l.pc = "pick" /\ Picking(l)
    BY <1>8 DEF PickReady, Picking
  <2>2. CASE Went(l, m, l.after) /\ l.after \in AfterAll
    BY <2>2 DEF Went, Moved, AfterAll, Top, Marked, Remembered, Calling, AtPoint, Picking
  <2>3. ASSUME NEW k \in Ready(l.run, l.snap, l.todo), Asked(l, m, k, Dispatched, l.snap[k].attempt, "push"),
               m.todo = {j \in l.todo : j > k}, m.ret = "pick"
        PROVE  Marked(task, m) /\ Remembered(task, m)
    <3>1. k \in l.todo /\ l.snap[k].status = "PENDING" /\ m.todo \subseteq l.todo
      BY <2>3 DEF Ready
    <3>2. Says(task, l.run, k, {"none", "PENDING"})
      BY <1>0, <2>1, <3>1 DEF Remembered
    <3>3. Marked(task, m)
      BY <2>3, <3>2 DEF Asked, Marked, Calling
    <3>4. Remembered(task, m)
      BY <1>0, <2>1, <2>3, <3>1 DEF Asked, Remembered, Calling, AtPoint
    <3>. QED BY <3>3, <3>4
  <2>. QED BY <1>0, <1>8, <2>2, <2>3, PickReadyFlow
<1>9. CASE PushTask(s)
  <2>1. l.pc = "push" /\ (l.ret = "pick" => Picking(l))
    BY <1>9 DEF PushTask, Picking, AtPoint
  <2>. QED
    BY <1>0, <1>9, <2>1, PushTaskFlow DEF Went, Moved, Top, Marked, Remembered, Calling, AtPoint, Picking
<1>10. CASE PopDone(s)
  <2>1. CASE m.pc \in Top
    BY <2>1 DEF Top, Marked, Remembered, Calling, AtPoint, Picking
  <2>2. CASE /\ doneQ # <<>> /\ m.run = Head(doneQ).run /\ m.task = Head(doneQ).task
             /\ m.pc = "taskSelect" /\ m.cont = "handle" /\ Head(doneQ) \in OutcomeSet
    <3>1. Has(doneQ, m.run, m.task) /\ m.run \in Runs /\ m.task \in Tasks
      BY <1>0, <2>2, ListTypes, HasTail DEF IsFor, OutcomeSet
    <3>2. Says(task, m.run, m.task, {"RUNNING"})
      BY <3>1 DEF MarksInv, Msg
    <3>. QED BY <2>2, <3>2 DEF Marked, Remembered, Calling, AtPoint, Picking
  <2>. QED BY <1>0, <1>10, <2>1, <2>2, PopDoneFlow
<1>11. CASE HandleSuccess(s) \/ HandleRetry(s) \/ WakeUp(s) \/ HandleDead(s)
  BY <1>0, <1>11, HandleFlow
  DEF Asked, WithdrawsAll, Moved, Marked, Remembered, Calling, AtPoint, Picking
<1>12. CASE SyncRead(s)
  <2>1. /\ l.run \in Runs /\ m.pc = "syncCancel" /\ m.run = l.run
        /\ m.snap = States(l.run) /\ m.todo = Unreachable(l.run, States(l.run))
    BY <1>0, <1>12, SyncFlow, Locals DEF Top
  <2>2. \A k \in m.todo : k \in Tasks /\ m.snap[k].status = "PENDING"
    BY <2>1, KeysAreTasks DEF Unreachable
  <2>3. \A k \in m.todo : Says(task, l.run, k, {"none", "PENDING"})
    BY <1>0, <2>1, <2>2, StatesTell DEF Says
  <2>4. \A k \in Selected(l.run) : m.snap[k].status = "FAILED" => task[l.run][k].status = "FAILED"
    BY <1>0, <2>1, StatesTell, KeysAreTasks
  <2>. QED BY <2>1, <2>2, <2>3, <2>4 DEF Marked, Remembered, Calling, AtPoint
<1>13. CASE SyncCancel(s)
  <2>1. l.pc = "syncCancel" /\ AtPoint(l, {"syncCancel"})
    BY <1>13 DEF SyncCancel, AtPoint
  <2>2. PICK k \in l.todo : /\ Asked(l, m, k, "CANCELLED", l.snap[k].attempt, "syncCancel")
                            /\ m.todo = l.todo \ {k}
    BY <1>0, <1>13, SyncFlow
  <2>3. Says(task, l.run, k, {"none", "PENDING"})
    BY <1>0, <2>1, <2>2 DEF Remembered
  <2>4. Marked(task, m)
    BY <2>2, <2>3 DEF Asked, Marked, Calling
  <2>5. Remembered(task, m)
    BY <1>0, <2>1, <2>2 DEF Asked, Remembered, Calling, AtPoint
  <2>. QED BY <2>4, <2>5
<1>14. CASE SyncVerdict(s)
  <2>1. l.pc = "syncCancel" /\ AtPoint(l, {"syncCancel"}) /\ l.run \in Runs
    BY <1>0, <1>14, Locals DEF SyncVerdict, AtPoint, Top
  <2>2. CASE AskedRun(l, m, "FAILED", "pollRuns") /\ "FAILED" \in {l.snap[k].status : k \in Selected(l.run)}
    <3>1. PICK k \in Selected(l.run) : l.snap[k].status = "FAILED"
      BY <2>2
    <3>2. task[l.run][k].status = "FAILED" /\ k \in Keys(Plan[l.run])
      BY <1>0, <2>1, <3>1, KeysAreTasks DEF Remembered
    <3>. QED BY <2>2, <3>2 DEF AskedRun, Marked, Remembered, Calling, AtPoint, Picking
  <2>3. CASE AskedRun(l, m, "SUCCESS", "pollRuns") \/ m.pc \in Top
    BY <2>3 DEF AskedRun, Top, Marked, Remembered, Calling, AtPoint, Picking
  <2>. QED BY <1>0, <1>14, <2>2, <2>3, SyncFlow
<1>. QED
  BY <1>1, <1>2, <1>3, <1>4, <1>5, <1>6, <1>7, <1>8, <1>9, <1>10, <1>11, <1>12, <1>13, <1>14 DEF SchedulerStep

\* The scheduler writes the row of the task in hand.
LEMMA MarksWrite ==
  ASSUME MarksInv, NEW s \in Schedulers, UpsertTask(s)
  PROVE  Marked(task', sched'[s]) /\ Remembered(task', sched'[s])
<1>. DEFINE l == sched[s]
            m == sched'[s]
<1>0. TypeInv /\ Marked(task, l) /\ Remembered(task, l) /\ Flight(l) /\ Asks(l)
  BY DEF MarksInv, FlightInv, StartInv, OrderInv, Flight
<1>1. /\ l.pc = "taskUpdate" /\ Calling(l) /\ l.cont \in AfterTask /\ Moved(l, m, l.cont)
      /\ l.run \in Runs /\ l.task \in Tasks
      /\ task'[l.run][l.task].status = l.status
      /\ \A k \in Tasks : k # l.task => task'[l.run][k].status = task[l.run][k].status
  BY <1>0, UpsertTaskFlow DEF Calling
<1>2. l.todo \subseteq Tasks /\ l.snap = m.snap /\ l.todo = m.todo /\ l.run = m.run /\ l.task = m.task
      /\ l.status = m.status /\ m.pc = l.cont /\ ~Calling(m)
  BY <1>0, <1>1, Locals DEF Moved, Local, AfterTask, Calling
<1>3. Marked(task', m)
  BY <1>0, <1>1, <1>2 DEF Marked, Says, Asks
<1>4. ASSUME Picking(m) \/ AtPoint(m, {"syncCancel"})
      PROVE  (Picking(l) \/ AtPoint(l, {"syncCancel"})) /\ l.task \notin l.todo
  BY <1>0, <1>1, <1>2, <1>4 DEF Moved, Picking, AtPoint, AfterTask, Flight, Marked, Calling
<1>5. ASSUME Picking(m) \/ AtPoint(m, {"syncCancel"}), NEW k \in m.todo, m.snap[k].status = "PENDING"
      PROVE  Says(task', m.run, k, {"none", "PENDING"})
  BY <1>0, <1>1, <1>2, <1>4, <1>5 DEF Remembered, Says
<1>6. ASSUME AtPoint(m, {"syncCancel"})
      PROVE  /\ \A k \in m.todo : m.snap[k].status = "PENDING"
             /\ \A k \in Selected(m.run) : m.snap[k].status = "FAILED" => task'[m.run][k].status = "FAILED"
  <2>1. AtPoint(l, {"syncCancel"}) /\ l.cont = "syncCancel"
    BY <1>1, <1>2, <1>6 DEF AtPoint, Calling
  <2>2. task[l.run][l.task].status # "FAILED"
    BY <1>0, <1>1, <2>1 DEF Marked, Says, Out
  <2>. QED BY <1>0, <1>1, <1>2, <2>1, <2>2, KeysAreTasks DEF Remembered
<1>. QED BY <1>1, <1>2, <1>3, <1>5, <1>6 DEF Remembered, AfterTask

LEMMA MarksStep ==
  ASSUME MarksInv, NEW s \in Schedulers, SchedulerStep(s), [Next]_vars
  PROVE  Marked(task', sched'[s]) /\ Remembered(task', sched'[s])
<1>0. TypeInv
  BY DEF MarksInv, FlightInv, StartInv, OrderInv
<1>1. CASE UpsertTask(s)
  BY <1>1, MarksWrite
<1>2. CASE CancelRunTasks(s)
  BY <1>0, <1>2, CancelRunTasksFlow
  DEF Went, Moved, AfterAll, Top, Marked, Remembered, Calling, AtPoint, Picking
<1>3. CASE ~UpsertTask(s) /\ ~CancelRunTasks(s)
  <2>1. task' = task
    BY <1>3, LoopRows
  <2>. QED BY <1>3, <2>1, MarksLoop
<1>. QED BY <1>1, <1>2, <1>3

\* The tasks called off are those of the loop that is under way.
LEMMA SyncFrom ==
  ASSUME TypeInv, NEW s \in Schedulers, SchedulerStep(s), AtPoint(sched'[s], {"syncCancel"})
  PROVE  \/ SyncRead(s)
         \/ /\ AtPoint(sched[s], {"syncCancel"}) /\ sched'[s].run = sched[s].run
            /\ \A k : CalledOff(sched'[s], k) => CalledOff(sched[s], k)
<1>1. CASE PopRun(s) \/ PopDone(s)
  BY <1>1, PopRunFlow, PopDoneFlow DEF Calling, AtPoint, Top
<1>2. CASE AdmitRun(s) \/ CancelRunTasks(s)
  BY <1>2, AdmitRunFlow, CancelRunTasksFlow
  DEF WithdrawsAll, AskedRun, Went, Moved, AfterAll, Calling, AtPoint, Top
<1>3. CASE SelectRunStatus(s) \/ UpdateRunStatus(s)
  BY <1>3, RunStatusFlow DEF Went, Moved, AfterRun, Calling, AtPoint, Top
<1>4. CASE SelectTaskStatus(s) \/ UpsertTask(s)
  BY <1>4, SelectTaskStatusFlow, UpsertTaskFlow DEF Moved, AfterTask, Calling, AtPoint, CalledOff
<1>5. CASE LoadPlan(s) \/ InitTask(s) \/ FinishInit(s)
  BY <1>5, LoadPlanFlow, InitTaskFlow, FinishInitFlow DEF Asked, AskedRun, Calling, AtPoint
<1>6. CASE ReadStates(s) \/ PickReady(s) \/ PushTask(s)
  BY <1>6, ReadStatesFlow, PickReadyFlow, PushTaskFlow
  DEF WithdrawsAll, Asked, Went, Moved, AfterAll, Calling, AtPoint, Top
<1>7. CASE HandleSuccess(s) \/ HandleRetry(s) \/ WakeUp(s) \/ HandleDead(s)
  BY <1>7, HandleFlow DEF Asked, WithdrawsAll, Moved, Calling, AtPoint
<1>8. CASE SyncRead(s) \/ SyncCancel(s) \/ SyncVerdict(s)
  BY <1>8, SyncFlow DEF Asked, AskedRun, Calling, AtPoint, Top, CalledOff
<1>. QED
  BY <1>1, <1>2, <1>3, <1>4, <1>5, <1>6, <1>7, <1>8 DEF SchedulerStep

LEMMA NeverOutStep ==
  ASSUME OneScheduler, MarksInv, NEW s \in Schedulers, SchedulerStep(s), [Next]_vars
  PROVE  NeverOut(sched[s])'
<1>. DEFINE l == sched[s]
            m == sched'[s]
<1>0. TypeInv /\ NeverOut(l)
  BY DEF MarksInv, FlightInv, StartInv, OrderInv
<1>. SUFFICES ASSUME AtPoint(m, {"syncCancel"}), NEW r \in Runs, NEW k \in Tasks,
                     m.run = r, CalledOff(m, k), Loose(r, k)'
              PROVE  FALSE
  BY DEF NeverOut
<1>1. Loose(r, k) \/ Handed(l, r, k)
  BY <1>0, LooseMoves DEF OneScheduler
<1>2. CASE SyncRead(s)
  <2>1. /\ l.pc = "sync" /\ m.pc = "syncCancel" /\ m.run = l.run
        /\ m.todo = Unreachable(l.run, States(l.run))
    BY <1>0, <1>2, SyncFlow
  <2>2. k \in m.todo
    BY <2>1 DEF CalledOff, Calling
  <2>3. task[r][k].status \in {"none", "PENDING"}
    BY <1>0, <2>1, <2>2, StatesTell DEF Unreachable
  <2>. QED BY <1>1, <2>1, <2>3 DEF Handed, Touched, MarksInv, FlightInv
<1>3. CASE AtPoint(l, {"syncCancel"}) /\ l.run = r /\ CalledOff(l, k)
  BY <1>0, <1>1, <1>3 DEF NeverOut, Handed, AtPoint, Calling
<1>. QED BY <1>0, <1>2, <1>3, SyncFrom

\* The row the scheduler writes is not that of a task on its way.
LEMMA WritesApart ==
  ASSUME MarksInv, NEW s \in Schedulers, UpsertTask(s)
  PROVE  ~Msg(sched[s].run, sched[s].task)
<1>. DEFINE l == sched[s]
<1>0. TypeInv /\ Flight(l) /\ NeverOut(l) /\ StartOf(task, l)
  BY DEF MarksInv, FlightInv, StartInv, OrderInv
<1>1. /\ Calling(l) /\ l.cont \in AfterTask /\ l.run \in Runs /\ l.task \in Tasks
  BY <1>0, UpsertTaskFlow DEF Calling
<1>2. CASE l.cont \in HoldingPoints
  <2>1. Holds(l, l.run, l.task)
    BY <1>1, <1>2 DEF Holds, Calling
  <2>. QED BY <1>0, <1>1, <2>1 DEF Flight
<1>3. CASE l.cont = "initTasks"
  <2>1. task[l.run][l.task].status = "none"
    BY <1>0, <1>1, <1>3 DEF StartOf, Initialising, AtPoint
  <2>2. ~Loose(l.run, l.task)
    BY <1>1, <2>1 DEF MarksInv, FlightInv, Touched
  <2>. QED BY <2>2 DEF Loose
<1>4. CASE l.cont = "syncCancel"
  BY <1>0, <1>1, <1>4 DEF NeverOut, CalledOff, AtPoint, Loose
<1>. QED BY <1>1, <1>2, <1>3, <1>4 DEF AfterTask, HoldingPoints

LEMMA NoResends ==
  ASSUME NoReplay, MarksInv, NEW c \in Clients
  PROVE  api[c].op \notin Replaying /\ \A r, k : ~Resends(c, r, k)
<1>1. api[c].op \notin Replaying
  BY DEF NoReplay, MarksInv, FlightInv, LettersInv
<1>. QED BY <1>1 DEF Resends, RequeueItem, Replaying

LEMMA MsgMarked ==
  ASSUME NoReplay, MarksInv, [Next]_vars, NEW r \in Runs, NEW k \in Tasks, Msg(r, k)'
  PROVE  Says(task', r, k, {"RUNNING"})
<1>0. TypeInv /\ CalmInv
  BY DEF MarksInv, FlightInv, StartInv, OrderInv
<1>1. CASE Msg(r, k)
  <2>1. \A s \in Schedulers : UpsertTask(s) => ~(sched[s].run = r /\ sched[s].task = k)
    BY <1>1, WritesApart
  <2>. QED BY <1>0, <1>1, <2>1, RowStays DEF MarksInv
<1>2. ASSUME NEW s \in Schedulers, PushTask(s), Handed(sched[s], r, k), ~Msg(r, k)
      PROVE  Says(task', r, k, {"RUNNING"})
  <2>1. task' = task /\ ~External
    BY <1>0, <1>2, PushSends, MsgStill
  <2>2. sched[s].pc = "push" /\ sched[s].run = r /\ sched[s].task = k
    BY <1>2 DEF PushTask, Handed
  <2>. QED BY <2>1, <2>2 DEF MarksInv, Marked, Dispatched
<1>. QED BY <1>0, <1>1, <1>2, MsgMoves, NoResends

\* Unless asked to, the scheduler cancels nothing.
LEMMA CalmStep ==
  ASSUME TypeInv, CalmInv, Calm, NEW s \in Schedulers, SchedulerStep(s)
  PROVE  /\ sched'[s].pc # "cancelAll"
         /\ sched'[s].pc \in {"runSelect", "runUpdate"} => sched'[s].status # "CANCELLED"
<1>. DEFINE l == sched[s]
<1>0. /\ l.pc # "cancelAll" /\ (l.pc \in {"runSelect", "runUpdate"} => l.status # "CANCELLED")
      /\ l.run \in Runs => runStatus[l.run] # "CANCELLED"
      /\ l.pc \notin Top => l.run \in Runs
  BY Locals DEF CalmInv
<1>1. CASE PopRun(s) \/ PopDone(s)
  BY <1>1, PopRunFlow, PopDoneFlow DEF Top
<1>2. CASE AdmitRun(s) \/ CancelRunTasks(s)
  BY <1>0, <1>2, AdmitRunFlow, CancelRunTasksFlow DEF WithdrawsAll, AskedRun, Top
<1>3. CASE SelectRunStatus(s) \/ UpdateRunStatus(s)
  BY <1>0, <1>3, RunStatusFlow DEF Went, Moved, AfterRun, Top
<1>4. CASE SelectTaskStatus(s) \/ UpsertTask(s)
  BY <1>4, SelectTaskStatusFlow, UpsertTaskFlow DEF Moved, AfterTask
<1>5. CASE LoadPlan(s) \/ InitTask(s) \/ FinishInit(s)
  BY <1>5, LoadPlanFlow, InitTaskFlow, FinishInitFlow DEF Asked, AskedRun
<1>6. CASE ReadStates(s) \/ PickReady(s) \/ PushTask(s)
  BY <1>0, <1>6, ReadStatesFlow, PickReadyFlow, PushTaskFlow
  DEF WithdrawsAll, Asked, Went, Moved, AfterAll, Top
<1>7. CASE HandleSuccess(s) \/ HandleRetry(s) \/ WakeUp(s) \/ HandleDead(s)
  BY <1>0, <1>7, HandleFlow DEF Asked, WithdrawsAll, Moved, Top
<1>8. CASE SyncRead(s) \/ SyncCancel(s) \/ SyncVerdict(s)
  BY <1>8, SyncFlow DEF Asked, AskedRun, Top
<1>. QED
  BY <1>1, <1>2, <1>3, <1>4, <1>5, <1>6, <1>7, <1>8 DEF SchedulerStep

\* How the status of a run changes.
LEMMA VerdictMoves ==
  ASSUME TypeInv, [Next]_vars, NEW r \in Runs
  PROVE  \/ runStatus'[r] = runStatus[r]
         \/ \E s \in Schedulers : /\ UpdateRunStatus(s) /\ sched[s].run = r
                                  /\ runStatus'[r] = sched[s].status
         \/ runStatus'[r] \in {"PENDING", "RUNNING"} /\ (runStatus[r] = "none" \/ "replay" \in Ops)
         \/ runStatus'[r] = "CANCELLED" /\ "cancel" \in Ops
         \/ runStatus'[r] \in ManualStatus
<1>0. DOMAIN runStatus = Runs
  BY DEF TypeInv, TypeOK
<1>1. ASSUME NEW s \in Schedulers, SchedulerStep(s)
      PROVE  UpdateRunStatus(s) \/ UNCHANGED runStatus
  <2>1. CASE PopRun(s) \/ AdmitRun(s) \/ CancelRunTasks(s) \/ SelectRunStatus(s)
    BY <2>1 DEF PopRun, AdmitRun, CancelRunTasks, SelectRunStatus, rows
  <2>2. CASE SelectTaskStatus(s) \/ UpsertTask(s) \/ LoadPlan(s) \/ InitTask(s) \/ FinishInit(s) \/ ReadStates(s)
    BY <2>2 DEF SelectTaskStatus, UpsertTask, LoadPlan, InitTask, FinishInit, ReadStates, rows
  <2>3. CASE PickReady(s) \/ PushTask(s) \/ PopDone(s) \/ HandleSuccess(s) \/ HandleRetry(s)
    BY <2>3 DEF PickReady, PushTask, PopDone, HandleSuccess, HandleRetry, rows
  <2>4. CASE WakeUp(s) \/ HandleDead(s) \/ SyncRead(s) \/ SyncCancel(s) \/ SyncVerdict(s)
    BY <2>4 DEF WakeUp, HandleDead, SyncRead, SyncCancel, SyncVerdict, rows
  <2>. QED BY <1>1, <2>1, <2>2, <2>3, <2>4 DEF SchedulerStep
<1>2. ASSUME NEW s \in Schedulers, UpdateRunStatus(s)
      PROVE  runStatus'[r] = IF sched[s].run = r THEN sched[s].status ELSE runStatus[r]
  BY <1>0, <1>2 DEF UpdateRunStatus
<1>3. ASSUME NEW c \in Clients, ClientCall(c)
      PROVE  \/ runStatus'[r] = runStatus[r]
             \/ (runStatus'[r] \in {"PENDING", "RUNNING"} /\ (runStatus[r] = "none" \/ "replay" \in Ops))
             \/ (runStatus'[r] = "CANCELLED" /\ "cancel" \in Ops)
             \/ runStatus'[r] \in ManualStatus
  <2>1. ASSUME NEW q \in Runs, CreateRun(c, q) \/ ReplayDlq(c, q)
        PROVE  \/ runStatus'[r] = runStatus[r]
               \/ (runStatus'[r] \in {"PENDING", "RUNNING"} /\ (runStatus[r] = "none" \/ "replay" \in Ops))
    BY <1>0, <2>1 DEF CreateRun, ReplayDlq, Call
  <2>2. ASSUME NEW q \in Runs, CancelRun(c, q)
        PROVE  runStatus'[r] = runStatus[r] \/ (runStatus'[r] = "CANCELLED" /\ "cancel" \in Ops)
    BY <1>0, <2>2 DEF CancelRun, Call
  <2>3. ASSUME NEW q \in Runs, NEW st \in ManualStatus, SetRunStatus(c, q, st)
        PROVE  runStatus'[r] = runStatus[r] \/ runStatus'[r] \in ManualStatus
    BY <1>0, <2>3 DEF SetRunStatus
  <2>. QED BY <1>3, <2>1, <2>2, <2>3 DEF ClientCall
<1>4. ASSUME NEW c \in Clients, ClientStep(c) \/ ClientCrash(c) PROVE UNCHANGED runStatus
  BY <1>4 DEF ClientStep, ClientCrash, PublishRun, CancelTasks, ListDlq, RequeueItem, RemoveItem, rows
<1>5. ASSUME NEW e \in Executors, ExecutorStep(e) \/ ExecutorCrash(e) PROVE UNCHANGED runStatus
  BY <1>5 DEF ExecutorStep, TakeTask, FinishTask, ExecutorCrash, rows
<1>6. ASSUME NEW s \in Schedulers, SchedulerCrash(s) PROVE UNCHANGED runStatus
  BY <1>6 DEF SchedulerCrash, rows
<1>7. UNCHANGED vars => UNCHANGED runStatus
  BY DEF vars
<1>. QED BY <1>1, <1>2, <1>3, <1>4, <1>5, <1>6, <1>7 DEF Next

\* Who moves the locals of a scheduler.
LEMMA WhoActs ==
  ASSUME OneScheduler, TypeInv, [Next]_vars, NEW s \in Schedulers
  PROVE  UNCHANGED sched \/ SchedulerStep(s) \/ sched'[s] = AtTop("pollRuns")
<1>1. ASSUME NEW v \in Schedulers, SchedulerStep(v) PROVE SchedulerStep(s)
  BY <1>1 DEF OneScheduler
<1>2. ASSUME NEW v \in Schedulers, SchedulerCrash(v) PROVE sched'[s] = AtTop("pollRuns")
  BY <1>2, Locals DEF SchedulerCrash, Restart, OneScheduler
<1>3. ASSUME NEW e \in Executors, ExecutorStep(e) \/ ExecutorCrash(e) PROVE UNCHANGED sched
  BY <1>3 DEF ExecutorStep, TakeTask, FinishTask, ExecutorCrash
<1>4. ASSUME NEW c \in Clients, ClientCall(c) \/ ClientStep(c) \/ ClientCrash(c) PROVE UNCHANGED sched
  BY <1>4 DEF ClientCall, ClientStep, ClientCrash, CreateRun, CancelRun, ReplayDlq, SetRunStatus,
              PublishRun, CancelTasks, ListDlq, RequeueItem, RemoveItem
<1>5. UNCHANGED vars => UNCHANGED sched
  BY DEF vars
<1>. QED BY <1>1, <1>2, <1>3, <1>4, <1>5 DEF Next

LEMMA CalmNext ==
  ASSUME OneScheduler, TypeInv, CalmInv, [Next]_vars
  PROVE  CalmInv'
<1>. SUFFICES ASSUME Calm
              PROVE  /\ \A r \in Runs : runStatus'[r] # "CANCELLED"
                     /\ \A s \in Schedulers :
                          /\ sched'[s].pc # "cancelAll"
                          /\ sched'[s].pc \in {"runSelect", "runUpdate"} => sched'[s].status # "CANCELLED"
                     /\ \A c \in Clients : api'[c].op # "cancelTasks"
  BY DEF CalmInv, Calm
<1>1. ASSUME NEW r \in Runs PROVE runStatus'[r] # "CANCELLED"
  <2>1. ASSUME NEW s \in Schedulers, UpdateRunStatus(s) PROVE sched[s].status # "CANCELLED"
    BY <2>1 DEF UpdateRunStatus, CalmInv
  <2>. QED BY <2>1, VerdictMoves DEF CalmInv, Calm
<1>2. ASSUME NEW s \in Schedulers
      PROVE  /\ sched'[s].pc # "cancelAll"
             /\ sched'[s].pc \in {"runSelect", "runUpdate"} => sched'[s].status # "CANCELLED"
  <2>1. CASE UNCHANGED sched
    BY <2>1 DEF CalmInv
  <2>2. CASE SchedulerStep(s)
    BY <2>2, CalmStep
  <2>3. CASE sched'[s] = AtTop("pollRuns")
    BY <2>3 DEF AtTop
  <2>. QED BY <2>1, <2>2, <2>3, WhoActs
<1>3. ASSUME NEW c \in Clients, api'[c].op = "cancelTasks" PROVE FALSE
  <2>1. api[c].op # "cancelTasks" /\ api[c] \in Handler /\ DOMAIN api = Clients /\ IdleClient.op = "idle"
    BY ListTypes DEF CalmInv, IdleClient
  <2>2. api'[c] # api[c]
    BY <1>3, <2>1
  <2>3. api'[c].op \notin Replaying
    BY <1>3 DEF Replaying
  <2>4. ASSUME NEW d \in Clients, ClientCall(d) \/ ClientStep(d) \/ ClientCrash(d) PROVE FALSE
    <3>1. d = c
      BY <2>1, <2>2, <2>4 DEF ClientCall, ClientStep, ClientCrash, CreateRun, CancelRun, ReplayDlq,
         SetRunStatus, PublishRun, CancelTasks, ListDlq, RequeueItem, RemoveItem
    <3>2. CASE ClientCall(c)
      BY <1>3, <2>1, <2>2, <3>2 DEF ClientCall, CreateRun, CancelRun, ReplayDlq, SetRunStatus, Call, Calm
    <3>3. CASE PublishRun(c) \/ CancelTasks(c) \/ ClientCrash(c)
      BY <1>3, <2>1, <3>3 DEF PublishRun, CancelTasks, ClientCrash
    <3>4. CASE ListDlq(c) \/ RemoveItem(c) \/ RequeueItem(c)
      <4>1. api[c].op \in {"lrange", "requeue", "lrem"}
        BY <3>4 DEF ListDlq, RequeueItem, RemoveItem
      <4>2. \/ api'[c] = IdleClient
            \/ \E op \in Replaying : \E q : api'[c] = [api[c] EXCEPT !.op = op, !.items = q]
            \/ \E q : api'[c] = [api[c] EXCEPT !.items = q]
            \/ \E op \in Replaying : api'[c] = [api[c] EXCEPT !.op = op]
        BY <2>1, <3>4 DEF ListDlq, RequeueItem, RemoveItem, Replaying
      <4>. QED BY <1>3, <2>1, <4>1, <4>2 DEF Handler, Replaying
    <3>. QED BY <2>4, <3>1, <3>2, <3>3, <3>4 DEF ClientStep
  <2>5. ASSUME NEW s \in Schedulers, SchedulerStep(s) \/ SchedulerCrash(s) PROVE api' = api
    BY <2>5, LoopTraffic DEF SchedulerCrash
  <2>6. ASSUME NEW e \in Executors, ExecutorStep(e) \/ ExecutorCrash(e) PROVE api' = api
    BY <2>6 DEF ExecutorStep, TakeTask, FinishTask, ExecutorCrash
  <2>7. UNCHANGED vars => api' = api
    BY DEF vars
  <2>. QED BY <2>2, <2>4, <2>5, <2>6, <2>7 DEF Next
<1>. QED BY <1>1, <1>2, <1>3

LEMMA MarksNext == OneScheduler /\ NoReplay /\ MarksInv /\ [Next]_vars => MarksInv'
<1>. SUFFICES ASSUME OneScheduler, NoReplay, MarksInv, [Next]_vars PROVE MarksInv'
  OBVIOUS
<1>0. TypeInv /\ CalmInv
  BY DEF MarksInv, FlightInv, StartInv, OrderInv
<1>1. FlightInv'
  BY FlightNext DEF MarksInv, OneReplay, NoReplay
<1>2. ASSUME NEW s \in Schedulers
      PROVE  (Marked(task, sched[s]) /\ Remembered(task, sched[s]) /\ NeverOut(sched[s]))'
  <2>1. CASE UNCHANGED sched
    <3>1. Marked(task', sched'[s]) /\ Remembered(task', sched'[s]) /\ NeverOut(sched[s])'
      BY <1>0, <2>1, MarksAside DEF MarksInv
    <3>. QED BY <3>1 DEF Marked, Remembered, Says, Calling, Picking, AtPoint
  <2>2. CASE SchedulerStep(s)
    <3>1. Marked(task', sched'[s]) /\ Remembered(task', sched'[s]) /\ NeverOut(sched[s])'
      BY <2>2, MarksStep, NeverOutStep
    <3>. QED BY <3>1 DEF Marked, Remembered, Says, Calling, Picking, AtPoint
  <2>3. CASE sched'[s] = AtTop("pollRuns")
    BY <2>3 DEF AtTop, Marked, Remembered, NeverOut, Says, Calling, Picking, AtPoint
  <2>. QED BY <1>0, <2>1, <2>2, <2>3, WhoActs
<1>3. \A r \in Runs, k \in Tasks : Msg(r, k)' => Says(task', r, k, {"RUNNING"})
  BY MsgMarked
<1>. QED BY <1>0, <1>1, <1>2, <1>3, CalmNext DEF MarksInv, Says

LEMMA MarksInit == Init => MarksInv
<1>. SUFFICES ASSUME Init PROVE MarksInv
  OBVIOUS
<1>1. FlightInv
  BY FlightInit
<1>2. CalmInv
  BY DEF Init, CalmInv, AtTop, IdleClient
<1>3. \A r \in Runs : \A k : ~Msg(r, k)
  BY NobodysMessage, HasEmpty DEF Init, Msg
<1>4. \A s \in Schedulers : Marked(task, sched[s]) /\ Remembered(task, sched[s]) /\ NeverOut(sched[s])
  BY DEF Init, AtTop, Marked, Remembered, NeverOut, Calling, Picking, AtPoint
<1>. QED BY <1>1, <1>2, <1>3, <1>4 DEF MarksInv

(***************************************************************************)
(* The scheduler handles the success of a task only with the row at        *)
(* SUCCESS, or CANCELLED when a cancel came first: the outcome is never    *)
(* refused by the transition table and handled all the same, whatever      *)
(* crashes and whatever is cancelled.                                      *)
(***************************************************************************)
THEOREM OutcomeRecorded ==
  ASSUME OneScheduler, NoReplay
  PROVE  Spec => []SuccessIsRecorded
<1>1. MarksInv /\ [Next]_vars => MarksInv'
  BY MarksNext
<1>2. MarksInv => SuccessIsRecorded
  BY DEF MarksInv, Marked, Says, Out, SuccessIsRecorded
<1>. QED BY MarksInit, <1>1, <1>2, PTL DEF Spec

(***************************************************************************)
(* A message for a task is pushed only with its row at RUNNING, although   *)
(* the transition may be refused and the push made all the same.  In       *)
(* external mode nothing is pushed, and a cancel that comes in between     *)
(* leaves a message for a CANCELLED row.                                   *)
(***************************************************************************)
THEOREM DispatchMarked ==
  ASSUME OneScheduler, NoReplay, Calm, ~External
  PROVE  Spec => []DispatchIsMarked
<1>1. MarksInv /\ [Next]_vars => MarksInv'
  BY MarksNext
<1>2. MarksInv => DispatchIsMarked
  BY DEF MarksInv, Marked, Says, Out, Dispatched, DispatchIsMarked
<1>. QED BY MarksInit, <1>1, <1>2, PTL DEF Spec

-----------------------------------------------------------------------------
(***************************************************************************)
(* A failure for good: the row says FAILED and nobody works on the task.   *)
(* Without replays it stays so.                                            *)
(***************************************************************************)
Final(r, k) == task[r][k].status = "FAILED" /\ Spare(r, k)

LEMMA FinalStays ==
  ASSUME OneScheduler, NoReplay, MarksInv, [Next]_vars, NEW r \in Runs, NEW k \in Tasks, Final(r, k)
  PROVE  Final(r, k)'
<1>0. TypeInv /\ CalmInv
  BY DEF MarksInv, FlightInv, StartInv, OrderInv
<1>1. ASSUME NEW s \in Schedulers, UpsertTask(s), sched[s].run = r, sched[s].task = k PROVE FALSE
  <2>. DEFINE l == sched[s]
  <2>1. Calling(l) /\ l.cont \in AfterTask
    BY <1>0, <1>1, UpsertTaskFlow DEF Calling
  <2>2. l.cont \notin HoldingPoints
    BY <1>1, <2>1 DEF Final, Spare, HeldBy, Holds, Calling
  <2>3. l.cont # "initTasks"
    BY <1>1, <2>1 DEF Final, MarksInv, FlightInv, StartInv, StartOf, Initialising, AtPoint
  <2>4. l.cont # "syncCancel"
    BY <1>1, <2>1 DEF Final, MarksInv, Marked, Says, Out
  <2>. QED BY <2>1, <2>2, <2>3, <2>4 DEF AfterTask, HoldingPoints
<1>2. task'[r][k].status = "FAILED"
  BY <1>0, <1>1, RowStays DEF Final
<1>3. ~Msg(r, k)'
  <2>1. \A s \in Schedulers : ~Handed(sched[s], r, k)
    BY DEF Final, Spare, HeldBy, Handed, Holds, HoldingPoints
  <2>. QED BY <1>0, <2>1, MsgMoves, NoResends DEF Final, Spare
<1>4. ASSUME NEW s \in Schedulers, Holds(sched'[s], r, k) PROVE FALSE
  <2>0. ~Holds(sched[s], r, k)
    BY DEF Final, Spare, HeldBy
  <2>1. CASE SchedulerStep(s)
    <3>0. AtPoint(sched'[s], HoldingPoints) /\ sched'[s].run = r /\ sched'[s].task = k
      BY <1>4, HoldsPoint
    <3>1. CASE AtPoint(sched[s], HoldingPoints) /\ sched[s].run = r /\ sched[s].task = k
      BY <2>0, <3>1, HoldsPoint
    <3>2. CASE sched[s].pc = "pick" /\ sched[s].run = r /\ Open(sched[s], k)
      BY <3>2 DEF MarksInv, Remembered, Picking, Open, Says, Out, Final
    <3>3. CASE Pops(Head(doneQ)) /\ IsFor(Head(doneQ), r, k)
      <4>1. Has(doneQ, r, k)
        BY <1>0, <3>3, ListTypes, HasTail DEF Pops
      <4>. QED BY <4>1 DEF Final, Spare, Msg
    <3>. QED BY <1>0, <2>1, <3>0, <3>1, <3>2, <3>3, HoldFlow
  <2>2. CASE sched'[s] = AtTop("pollRuns")
    BY <1>4, <2>2 DEF AtTop, Holds, HoldingPoints
  <2>. QED BY <1>0, <1>4, <2>0, <2>1, <2>2, WhoActs
<1>5. HeldBy(r, k)' <=> \E s \in Schedulers : Holds(sched'[s], r, k)
  BY DEF HeldBy, Holds
<1>. QED BY <1>2, <1>3, <1>4, <1>5 DEF Final, Spare

FailuresFinal ==
  \A r \in Runs : runStatus[r] = "FAILED" => \E k \in Keys(Plan[r]) : Final(r, k)

LEMMA FailuresNext ==
  ASSUME OneScheduler, NoReplay, "FAILED" \notin ManualStatus, MarksInv, FailuresFinal, [Next]_vars
  PROVE  FailuresFinal'
<1>. SUFFICES ASSUME NEW r \in Runs, runStatus'[r] = "FAILED"
              PROVE  \E k \in Keys(Plan[r]) : Final(r, k)'
  BY DEF FailuresFinal
<1>0. TypeInv /\ Keys(Plan[r]) \subseteq Tasks
  BY KeysAreTasks DEF MarksInv, FlightInv, StartInv, OrderInv
<1>1. \E k \in Keys(Plan[r]) : Final(r, k)
  <2>1. CASE runStatus[r] = "FAILED"
    BY <2>1 DEF FailuresFinal
  <2>2. ASSUME NEW s \in Schedulers, UpdateRunStatus(s), sched[s].run = r, sched[s].status = "FAILED"
        PROVE  \E k \in Keys(Plan[r]) : Final(r, k)
    <3>1. sched[s].pc = "runUpdate"
      BY <2>2 DEF UpdateRunStatus
    <3>2. PICK k \in Keys(Plan[r]) : task[r][k].status = "FAILED"
      BY <2>2, <3>1 DEF MarksInv, Remembered
    <3>3. ~Msg(r, k)
      BY <1>0, <3>2 DEF MarksInv, Says, Out
    <3>4. ~HeldBy(r, k)
      BY <3>1 DEF HeldBy, Holds, HoldingPoints, OneScheduler
    <3>. QED BY <3>2, <3>3, <3>4 DEF Final, Spare
  <2>. QED BY <1>0, <2>1, <2>2, VerdictMoves
<1>. QED BY <1>0, <1>1, FinalStays

(***************************************************************************)
(* A run is only FAILED for a task that failed for good: a failure that    *)
(* will be retried never ends the run, whatever crashes and whatever is    *)
(* cancelled.  A status call may write FAILED at will, and a replay takes  *)
(* the failure up again.                                                   *)
(***************************************************************************)
THEOREM FailuresEarned ==
  ASSUME OneScheduler, NoReplay, "FAILED" \notin ManualStatus
  PROVE  Spec => []FailureIsFinal
<1>1. Init => FailuresFinal
  BY DEF Init, FailuresFinal
<1>2. MarksInv /\ FailuresFinal /\ [Next]_vars => MarksInv' /\ FailuresFinal'
  BY MarksNext, FailuresNext
<1>3. FailuresFinal => FailureIsFinal
  <2>1. \A r, k : Final(r, k) => task[r][k].status = "FAILED" /\ ~InFlight(r, k)
    BY InFlightMeans DEF Final, Spare
  <2>. QED BY <2>1 DEF FailuresFinal, FailureIsFinal
<1>. QED BY MarksInit, <1>1, <1>2, <1>3, PTL DEF Spec

-----------------------------------------------------------------------------
(***************************************************************************)
(* Nothing is lost while no process crashes: a row at RUNNING is backed by *)
(* work that is out, a failure that nobody works on has its letter.        *)
(***************************************************************************)
NoCrash == MaxCrashes = 0

Away(r, k) == Msg(r, k) \/ HeldBy(r, k)

Backed == \A r \in Runs, k \in Tasks : task[r][k].status = "RUNNING" => Away(r, k)

Lettered == \A r \in Runs : \A k \in Selected(r) :
              task[r][k].status = "FAILED" => Away(r, k) \/ Has(dlq, r, k)

LEMMA NobodyCrashes ==
  ASSUME NoCrash, TypeInv
  PROVE  /\ \A s \in Schedulers : ~SchedulerCrash(s)
         /\ \A e \in Executors : ~ExecutorCrash(e)
BY DEF NoCrash, TypeInv, TypeOK, SchedulerCrash, ExecutorCrash

\* A message is passed on until the scheduler holds what it says.
LEMMA MsgKept ==
  ASSUME NoCrash, TypeInv, [Next]_vars, NEW r \in Runs, NEW k \in Tasks, Msg(r, k), ~Msg(r, k)'
  PROVE  \E s \in Schedulers : Holds(sched'[s], r, k)
<1>1. ~UNCHANGED <<taskQ, doneQ, executing>>
  BY MsgStill
<1>2. ASSUME NEW s \in Schedulers, SchedulerStep(s) PROVE Holds(sched'[s], r, k)
  <2>1. ~PushTask(s)
    <3>1. ASSUME PushTask(s) PROVE FALSE
      BY <1>1, <3>1, PushSends, SendMoves
    <3>. QED BY <3>1
  <2>2. PopDone(s) /\ doneQ' # doneQ
    BY <1>1, <1>2, <2>1, LoopTraffic DEF HandleDead, PopDone
  <2>3. Pops(Head(doneQ))
    BY <2>2, PopDoneFlow DEF Pops, PopDone
  <2>4. IsFor(Head(doneQ), r, k)
    BY <2>3, PopMoves
  <2>5. sched'[s].pc \notin Top
    <3>1. doneQ # <<>>
      BY <2>3 DEF Pops
    <3>2. sched'[s] = [Upsert(s, Head(doneQ).task, Head(doneQ).status, Head(doneQ).attempt, "handle")
                        EXCEPT !.run = Head(doneQ).run, !.after = "sync"]
      BY <2>2, <3>1, Locals DEF PopDone
    <3>. QED BY <3>2, Locals DEF Upsert, Local, Top
  <2>. QED BY <2>2, <2>4, <2>5, PopDoneFlow DEF Holds, IsFor, HoldingPoints
<1>3. ASSUME NEW e \in Executors, ExecutorStep(e) PROVE FALSE
  BY <1>3, TakeMoves, FinishMoves DEF ExecutorStep
<1>4. ASSUME NEW c \in Clients, ClientCall(c) \/ ClientStep(c) \/ ClientCrash(c) PROVE FALSE
  <2>1. CASE RequeueItem(c)
    <3>1. taskQ' # taskQ
      BY <1>1, <2>1 DEF RequeueItem
    <3>. QED BY <2>1, <3>1, RequeueSends, SendMoves
  <2>2. CASE ~RequeueItem(c)
    BY <1>1, <1>4, <2>2 DEF ClientCall, ClientStep, ClientCrash, CreateRun, CancelRun, ReplayDlq,
       SetRunStatus, PublishRun, CancelTasks, ListDlq, RemoveItem, queues
  <2>. QED BY <2>1, <2>2
<1>5. ~UNCHANGED vars
  BY <1>1 DEF vars
<1>. QED BY <1>2, <1>3, <1>4, <1>5, NobodyCrashes DEF Next

\* The scheduler keeps what it holds until it has pushed or handled it.
LEMMA HoldKept ==
  ASSUME TypeInv, NEW s \in Schedulers, SchedulerStep(s),
         NEW r \in Runs, NEW k \in Tasks, Holds(sched[s], r, k)
  PROVE  \/ Holds(sched'[s], r, k)
         \/ HandleSuccess(s) /\ sched[s].pc = "handle" /\ sched[s].status = "SUCCESS"
         \/ HandleDead(s) /\ sched[s].pc = "handle" /\ sched[s].status = "FAILED"
         \/ PushTask(s) /\ sched[s].pc = "push" /\ (External \/ Msg(r, k)')
<1>. DEFINE l == sched[s]
            m == sched'[s]
<1>0. /\ l.run = r /\ l.task = k
      /\ l.pc \in {"push", "handle", "sleep", "taskSelect", "taskUpdate"}
      /\ l.pc \in {"taskSelect", "taskUpdate"} => l.cont \in HoldingPoints
  BY DEF Holds, HoldingPoints
<1>1. CASE SelectTaskStatus(s) \/ UpsertTask(s)
  BY <1>0, <1>1, SelectTaskStatusFlow, UpsertTaskFlow DEF Moved, Holds
<1>2. CASE PushTask(s)
  <2>1. l.pc = "push"
    BY <1>2 DEF PushTask
  <2>2. ~External => Msg(r, k)'
    BY <1>0, <1>2, PushSends, SendMoves
  <2>. QED BY <1>2, <2>1, <2>2
<1>3. CASE HandleRetry(s) \/ WakeUp(s)
  BY <1>0, <1>3, HandleFlow DEF Asked, Holds, HoldingPoints
<1>4. CASE HandleSuccess(s) \/ HandleDead(s)
  BY <1>4 DEF HandleSuccess, HandleDead
<1>. QED
  BY <1>0, <1>1, <1>2, <1>3, <1>4
  DEF SchedulerStep, PopRun, AdmitRun, CancelRunTasks, SelectRunStatus, UpdateRunStatus, LoadPlan, InitTask,
      FinishInit, ReadStates, PickReady, PopDone, SyncRead, SyncCancel, SyncVerdict

\* Work that is out comes to an end only when its outcome is handled.
LEMMA AwayKept ==
  ASSUME NoCrash, OneScheduler, MarksInv, [Next]_vars, NEW r \in Runs, NEW k \in Tasks, Away(r, k)
  PROVE  \/ Away(r, k)'
         \/ Says(task, r, k, {"SUCCESS"})
         \/ Says(task, r, k, {"FAILED"}) /\ Has(dlq', r, k)
         \/ Says(task, r, k, {"QUEUED"})
<1>0. TypeInv
  BY DEF MarksInv, FlightInv, StartInv, OrderInv
<1>1. Away(r, k)' <=> Msg(r, k)' \/ \E s \in Schedulers : Holds(sched'[s], r, k)
  BY DEF Away, HeldBy, Holds
<1>2. CASE Msg(r, k)
  BY <1>0, <1>1, <1>2, MsgKept
<1>3. ASSUME NEW s \in Schedulers, Holds(sched[s], r, k), ~Away(r, k)'
      PROVE  \/ Says(task, r, k, {"SUCCESS"})
             \/ Says(task, r, k, {"FAILED"}) /\ Has(dlq', r, k)
             \/ Says(task, r, k, {"QUEUED"})
  <2>0. Marked(task, sched[s]) /\ sched[s].run = r /\ sched[s].task = k
    BY <1>3 DEF MarksInv, Holds
  <2>1. CASE UNCHANGED sched
    BY <1>1, <1>3, <2>1
  <2>2. ASSUME NEW v \in Schedulers, SchedulerStep(v) PROVE SchedulerStep(s)
    BY <2>2 DEF OneScheduler
  <2>3. CASE SchedulerStep(s)
    <3>1. CASE HandleSuccess(s) /\ sched[s].pc = "handle" /\ sched[s].status = "SUCCESS"
      BY <2>0, <3>1 DEF Marked
    <3>2. CASE HandleDead(s) /\ sched[s].pc = "handle" /\ sched[s].status = "FAILED"
      <4>. DEFINE n == Message(r, k, sched[s].attempt)
      <4>1. dlq' = Append(dlq, n) /\ sched[s].attempt \in Nat
        BY <1>0, <2>0, <3>2, Locals DEF HandleDead, Local
      <4>2. n \in MessageSet /\ IsFor(n, r, k)
        BY <4>1 DEF Message, MessageSet, IsFor
      <4>3. Has(dlq', r, k)
        <5>. HIDE DEF n
        <5>. QED BY <1>0, <4>1, <4>2, ListTypes, HasAppend
      <4>. QED BY <2>0, <3>2, <4>3 DEF Marked
    <3>3. CASE sched[s].pc = "push" /\ External
      BY <2>0, <3>3 DEF Marked, Dispatched
    <3>. QED BY <1>0, <1>1, <1>3, <2>3, <3>1, <3>2, <3>3, HoldKept
  <2>4. ASSUME NEW e \in Executors, ExecutorStep(e) \/ ExecutorCrash(e) PROVE UNCHANGED sched
    BY <2>4 DEF ExecutorStep, TakeTask, FinishTask, ExecutorCrash
  <2>5. ASSUME NEW c \in Clients, ClientCall(c) \/ ClientStep(c) \/ ClientCrash(c) PROVE UNCHANGED sched
    BY <2>5 DEF ClientCall, ClientStep, ClientCrash, CreateRun, CancelRun, ReplayDlq, SetRunStatus,
                PublishRun, CancelTasks, ListDlq, RequeueItem, RemoveItem
  <2>6. UNCHANGED vars => UNCHANGED sched
    BY DEF vars
  <2>. QED BY <1>0, <2>1, <2>2, <2>3, <2>4, <2>5, <2>6, NobodyCrashes DEF Next
<1>. QED BY <1>2, <1>3 DEF Away, HeldBy

\* What the scheduler writes when it hands work on or calls it off.
LEMMA WriteAway ==
  ASSUME MarksInv, NEW s \in Schedulers, UpsertTask(s)
  PROVE  LET l == sched[s]
         IN  /\ l.status = "RUNNING" => Holds(sched'[s], l.run, l.task)
             /\ l.status = "FAILED" => \/ Holds(sched'[s], l.run, l.task)
                                       \/ l.task \notin Selected(l.run)
<1>. DEFINE l == sched[s]
<1>0. TypeInv /\ Asks(l)
  BY DEF MarksInv, FlightInv, StartInv, OrderInv, Flight
<1>1. Calling(l) /\ l.cont \in AfterTask /\ Moved(l, sched'[s], l.cont)
  BY <1>0, UpsertTaskFlow DEF Calling
<1>2. CASE l.cont \in HoldingPoints
  BY <1>1, <1>2 DEF Moved, Holds
<1>3. CASE l.cont = "initTasks"
  <2>1. l.status = InitStatus(l, l.task)
    BY <1>1, <1>3 DEF MarksInv, FlightInv, StartInv, StartOf, Initialising, AtPoint
  <2>. QED BY <2>1 DEF InitStatus
<1>4. CASE l.cont = "syncCancel"
  BY <1>0, <1>1, <1>4 DEF Asks
<1>. QED BY <1>1, <1>2, <1>3, <1>4 DEF AfterTask, HoldingPoints

LEMMA BackedNext ==
  ASSUME NoCrash, OneScheduler, NoReplay, MarksInv, Backed, Lettered, [Next]_vars
  PROVE  Backed' /\ Lettered'
<1>0. TypeInv
  BY DEF MarksInv, FlightInv, StartInv, OrderInv
<1>1. ASSUME NEW r \in Runs, NEW k \in Tasks, task[r][k].status # task'[r][k].status,
             task'[r][k].status \in {"RUNNING", "FAILED"}
      PROVE  \/ Away(r, k)'
             \/ task'[r][k].status = "FAILED" /\ k \notin Selected(r)
  <2>1. PICK s \in Schedulers : /\ UpsertTask(s) /\ sched[s].run = r /\ sched[s].task = k
                                /\ task'[r][k].status = sched[s].status
    BY <1>0, <1>1, RowMoves
  <2>2. (\E v \in Schedulers : Holds(sched'[v], r, k)) => Away(r, k)'
    BY DEF Away, HeldBy, Holds
  <2>. QED BY <1>1, <2>1, <2>2, WriteAway
<1>2. ASSUME NEW r \in Runs, NEW k \in Tasks, task'[r][k].status = "RUNNING"
      PROVE  Away(r, k)'
  BY <1>1, <1>2, AwayKept DEF Backed, Says, Out
<1>3. ASSUME NEW r \in Runs, NEW k \in Selected(r), task'[r][k].status = "FAILED"
      PROVE  Away(r, k)' \/ Has(dlq', r, k)
  <2>1. k \in Tasks
    BY KeysAreTasks
  <2>2. Has(dlq, r, k) => Has(dlq', r, k)
    <3>1. ASSUME NEW s \in Schedulers, HandleDead(s), Has(dlq, r, k) PROVE Has(dlq', r, k)
      <4>. DEFINE n == Message(sched[s].run, sched[s].task, sched[s].attempt)
      <4>1. dlq' = Append(dlq, n) /\ n \in MessageSet
        <5>1. sched[s].run \in Runs /\ sched[s].task \in Tasks /\ sched[s].attempt \in Nat
          BY <1>0, <3>1, Locals DEF HandleDead, Sound, Local
        <5>. QED BY <3>1, <5>1 DEF HandleDead, Message, MessageSet
      <4>. HIDE DEF n
      <4>. QED BY <1>0, <3>1, <4>1, ListTypes, HasAppend
    <3>2. \A c \in Clients : ~RemoveItem(c)
      BY NoResends DEF RemoveItem, Replaying
    <3>. QED BY <1>0, <3>1, <3>2, DlqMoves
  <2>3. CASE task[r][k].status = "FAILED"
    <3>1. ~Says(task, r, k, {"SUCCESS"}) /\ ~Says(task, r, k, {"QUEUED"})
      BY <2>3 DEF Says, Out
    <3>. QED BY <2>1, <2>2, <2>3, <3>1, AwayKept DEF Lettered
  <2>4. CASE task[r][k].status # "FAILED"
    BY <1>1, <1>3, <2>1, <2>4
  <2>. QED BY <2>3, <2>4
<1>4. Lettered' <=> \A r \in Runs : \A k \in Selected(r) :
                      task'[r][k].status = "FAILED" => Away(r, k)' \/ Has(dlq', r, k)
  BY DEF Lettered, Has
<1>. QED BY <1>2, <1>3, <1>4 DEF Backed

LEMMA BackedInit == Init => Backed /\ Lettered
BY KeysAreTasks DEF Init, Backed, Lettered, NoRow

LEMMA NothingLost ==
  ASSUME OneScheduler, NoReplay, NoCrash
  PROVE  Spec => [](Backed /\ Lettered)
<1>1. MarksInv /\ Backed /\ Lettered /\ [Next]_vars => MarksInv' /\ Backed' /\ Lettered'
  BY MarksNext, BackedNext
<1>. QED BY MarksInit, BackedInit, <1>1, PTL DEF Spec

(***************************************************************************)
(* A row that says RUNNING is backed by work in flight, with cancels and   *)
(* status calls, as long as no process crashes: the code has nothing that  *)
(* would find a task whose worker is gone.                                 *)
(***************************************************************************)
THEOREM RunningBacked ==
  ASSUME OneScheduler, NoReplay, NoCrash
  PROVE  Spec => []RunningIsBacked
<1>1. Backed => RunningIsBacked
  BY InFlightMeans DEF Backed, Away, RunningIsBacked
<1>. QED BY NothingLost, <1>1, PTL

(***************************************************************************)
(* A task that failed with no attempt left, and is not being worked on, is *)
(* in the dead-letter queue, as long as no process crashes between the     *)
(* write of the row and the push of the letter.                            *)
(***************************************************************************)
THEOREM DeadLettered ==
  ASSUME OneScheduler, NoReplay, NoCrash
  PROVE  Spec => []DeadIsLettered
<1>1. Lettered => DeadIsLettered
  <2>1. \A r, k : Has(dlq, r, k) => \E i \in 1..Len(dlq) : IsFor(dlq[i], r, k)
    BY DEF Has
  <2>. QED BY <2>1, InFlightMeans DEF Lettered, Away, DeadIsLettered
<1>. QED BY NothingLost, <1>1, PTL

-----------------------------------------------------------------------------
(***************************************************************************)
(* The slots of the project.  They are counted when the scheduler picks a  *)
(* task and taken when it writes the row; a task on its way back and forth *)
(* between the scheduler and the executors keeps its slot, or gives it up  *)
(* and may have it again.                                                  *)
(***************************************************************************)
Alive(r) == runStatus[r] \in {"PENDING", "RUNNING"}

\* The rows that RunningTasks counts.
Taken == {rk \in Runs \X Tasks : Alive(rk[1]) /\ task[rk[1]][rk[2]].status \in SlotStatus}

\* The others leave a slot for task k of run r.
Room(r, k) ==
  Alive(r) => \E q \in Runs : Cardinality(Taken \ {<<r, k>>}) < MaxParallel[q]

\* The scheduler has a slot for the task in hand, unless that was cancelled
\* and is refused any other status.
Reserved(l) ==
  AtPoint(l, HoldingPoints) =>
    /\ l.pc = "taskUpdate" => Room(l.run, l.task)
    /\ l.pc # "push" => Room(l.run, l.task) \/ task[l.run][l.task].status = "CANCELLED"

\* The scheduler sets a run going only to load its plan.
Starts(l) ==
  l.pc \in {"runSelect", "runUpdate"} /\ l.status \in {"PENDING", "RUNNING"} => l.cont = "load"

SlotsInv ==
  /\ MarksInv
  /\ IsFiniteSet(Taken)
  /\ SlotsRespected
  /\ \A s \in Schedulers : Reserved(sched[s]) /\ Starts(sched[s])

\* A status call sets no run going.
NoRevival == {"PENDING", "RUNNING"} \cap ManualStatus = {}

LEMMA StartsStep ==
  ASSUME TypeInv, NEW s \in Schedulers, SchedulerStep(s), Starts(sched[s])
  PROVE  Starts(sched'[s])
<1>1. CASE PopRun(s) \/ PopDone(s)
  BY <1>1, PopRunFlow, PopDoneFlow DEF Top, Starts
<1>2. CASE AdmitRun(s) \/ CancelRunTasks(s)
  BY <1>2, AdmitRunFlow, CancelRunTasksFlow DEF WithdrawsAll, AskedRun, Went, Moved, Top, AfterAll, Starts
<1>3. CASE SelectRunStatus(s) \/ UpdateRunStatus(s)
  BY <1>3, RunStatusFlow DEF Went, Moved, AfterRun, Top, Starts
<1>4. CASE SelectTaskStatus(s) \/ UpsertTask(s)
  BY <1>4, SelectTaskStatusFlow, UpsertTaskFlow DEF Moved, AfterTask, Starts
<1>5. CASE LoadPlan(s) \/ InitTask(s) \/ FinishInit(s)
  BY <1>5, LoadPlanFlow, InitTaskFlow, FinishInitFlow DEF Asked, AskedRun, Starts
<1>6. CASE ReadStates(s) \/ PickReady(s) \/ PushTask(s)
  BY <1>6, ReadStatesFlow, PickReadyFlow, PushTaskFlow
  DEF WithdrawsAll, Asked, Went, Moved, AfterAll, Top, Starts
<1>7. CASE HandleSuccess(s) \/ HandleRetry(s) \/ WakeUp(s) \/ HandleDead(s)
  BY <1>7, HandleFlow DEF Asked, WithdrawsAll, Moved, Starts
<1>8. CASE SyncRead(s) \/ SyncCancel(s) \/ SyncVerdict(s)
  BY <1>8, SyncFlow DEF Asked, AskedRun, Top, Starts
<1>. QED
  BY <1>1, <1>2, <1>3, <1>4, <1>5, <1>6, <1>7, <1>8 DEF SchedulerStep

\* A run is set going before any of its tasks is.
LEMMA Revived ==
  ASSUME OneScheduler, NoReplay, NoRevival, SlotsInv, [Next]_vars,
         NEW r \in Runs, Alive(r)', ~Alive(r)
  PROVE  /\ \A k \in Tasks : task'[r][k].status = "none"
         /\ \A s \in Schedulers : On(sched[s], r) => Before(sched[s])
<1>0. StartInv /\ TypeInv
  BY DEF SlotsInv, MarksInv, FlightInv, StartInv, OrderInv
<1>1. Unstarted(r)
  <2>1. ASSUME NEW s \in Schedulers, UpdateRunStatus(s), sched[s].run = r, runStatus'[r] = sched[s].status
        PROVE  Unstarted(r)
    BY <2>1 DEF UpdateRunStatus, Alive, SlotsInv, Starts, Unstarted, On, Before, Top
  <2>2. CASE runStatus[r] = "none"
    BY <2>2 DEF Unstarted
  <2>. QED BY <1>0, <2>1, <2>2, VerdictMoves DEF Alive, NoReplay, NoRevival
<1>2. Pristine(r) /\ \A s \in Schedulers : On(sched[s], r) => Before(sched[s])
  BY <1>0, <1>1, UnstartedIdle
<1>3. Pristine(r)'
  BY <1>0, <1>2, PristineStays
<1>. QED BY <1>2, <1>3 DEF Pristine

\* The scheduler gives a slot to the task it is about to push.
Gives(s) == UpsertTask(s) /\ sched[s].cont = "push"

LEMMA TakenMoves ==
  ASSUME OneScheduler, NoReplay, NoRevival, SlotsInv, [Next]_vars,
         NEW r \in Runs, NEW k \in Tasks, <<r, k>> \in Taken', <<r, k>> \notin Taken
  PROVE  \E s \in Schedulers : Gives(s) /\ sched[s].run = r /\ sched[s].task = k
<1>0. TypeInv
  BY DEF SlotsInv, MarksInv, FlightInv, StartInv, OrderInv
<1>1. Alive(r)' /\ task'[r][k].status \in SlotStatus
  BY DEF Taken, Alive, SlotStatus, Dispatched
<1>2. Alive(r)
  BY <1>1, Revived DEF SlotStatus, Dispatched
<1>3. task[r][k].status \notin SlotStatus
  BY <1>2 DEF Taken
<1>4. PICK s \in Schedulers : /\ UpsertTask(s) /\ sched[s].run = r /\ sched[s].task = k
                              /\ task'[r][k].status = sched[s].status
  BY <1>0, <1>1, <1>3, RowMoves DEF SlotStatus, Dispatched
<1>5. sched[s].pc = "taskUpdate" /\ sched[s].cont \in AfterTask
  BY <1>0, <1>4, UpsertTaskFlow
<1>6. sched[s].cont # "initTasks"
  <2>1. sched[s].cont = "initTasks" => sched[s].status = InitStatus(sched[s], sched[s].task)
    BY <1>5 DEF SlotsInv, MarksInv, FlightInv, StartInv, StartOf, Initialising, AtPoint, Calling
  <2>. QED BY <1>1, <1>4, <2>1 DEF InitStatus, SlotStatus, Dispatched
<1>7. sched[s].cont = "push"
  BY <1>1, <1>4, <1>5, <1>6
  DEF SlotsInv, MarksInv, FlightInv, Flight, Asks, AtPoint, Calling, AfterTask, SlotStatus, Dispatched
<1>. QED BY <1>4, <1>7 DEF Gives

LEMMA TakenPairs ==
  /\ Taken \subseteq Runs \X Tasks /\ Taken' \subseteq Runs \X Tasks
  /\ RunningTasks = Cardinality(Taken)
BY DEF Taken, RunningTasks, Alive

\* What is taken of the slots by others than task k of run r.
LEMMA OthersTaken ==
  ASSUME OneScheduler, NoReplay, NoRevival, SlotsInv, [Next]_vars, NEW r, NEW k,
         \A s \in Schedulers : Gives(s) => sched[s].run = r /\ sched[s].task = k
  PROVE  /\ Taken' \ {<<r, k>>} \subseteq Taken \ {<<r, k>>}
         /\ IsFiniteSet(Taken \ {<<r, k>>}) /\ IsFiniteSet(Taken' \ {<<r, k>>})
         /\ Cardinality(Taken' \ {<<r, k>>}) \in Nat
         /\ Cardinality(Taken \ {<<r, k>>}) \in Nat
         /\ Cardinality(Taken' \ {<<r, k>>}) <= Cardinality(Taken \ {<<r, k>>})
<1>1. ASSUME NEW x \in Taken', x # <<r, k>> PROVE x \in Taken
  <2>1. PICK q \in Runs, j \in Tasks : x = <<q, j>>
    BY TakenPairs
  <2>2. ~(q = r /\ j = k)
    BY <1>1, <2>1
  <2>. QED BY <1>1, <2>1, <2>2, TakenMoves
<1>2. Taken' \ {<<r, k>>} \subseteq Taken \ {<<r, k>>}
  BY <1>1
<1>3. IsFiniteSet(Taken \ {<<r, k>>})
  BY FS_RemoveElement DEF SlotsInv
<1>. QED BY <1>2, <1>3, FS_Subset, FS_CardinalityType

LEMMA RoomStays ==
  ASSUME OneScheduler, NoReplay, NoRevival, SlotsInv, [Next]_vars,
         NEW s \in Schedulers, NEW r \in Runs, NEW k, On(sched[s], r), ~Before(sched[s]), Room(r, k),
         \A v \in Schedulers : Gives(v) => sched[v].run = r /\ sched[v].task = k
  PROVE  Room(r, k)'
<1>. SUFFICES ASSUME Alive(r)'
              PROVE  \E q \in Runs : Cardinality(Taken' \ {<<r, k>>}) < MaxParallel[q]
  BY DEF Room, Alive
<1>1. Alive(r)
  BY Revived
<1>2. PICK q \in Runs : Cardinality(Taken \ {<<r, k>>}) < MaxParallel[q]
  BY <1>1 DEF Room
<1>3. MaxParallel[q] \in Nat
  BY PlanAssumption
<1>. QED BY <1>2, <1>3, OthersTaken

\* Whom the scheduler hands work to, it has a slot for.
LEMMA RespectedNext ==
  ASSUME OneScheduler, NoReplay, NoRevival, SlotsInv, [Next]_vars
  PROVE  IsFiniteSet(Taken') /\ \E q \in Runs : Cardinality(Taken') <= MaxParallel[q]
<1>0. PICK p \in Runs : Cardinality(Taken) <= MaxParallel[p]
  BY TakenPairs DEF SlotsInv, SlotsRespected
<1>1. ASSUME NEW s \in Schedulers, Gives(s), NEW r, NEW k, r = sched[s].run, k = sched[s].task
      PROVE  IsFiniteSet(Taken') /\ \E q \in Runs : Cardinality(Taken') <= MaxParallel[q]
  <2>. DEFINE x == <<r, k>>
  <2>1. \A v \in Schedulers : Gives(v) => sched[v].run = r /\ sched[v].task = k
    BY <1>1 DEF OneScheduler
  <2>2. /\ Taken' \ {x} \subseteq Taken \ {x} /\ IsFiniteSet(Taken' \ {x})
        /\ Cardinality(Taken' \ {x}) \in Nat /\ Cardinality(Taken \ {x}) \in Nat
        /\ Cardinality(Taken' \ {x}) <= Cardinality(Taken \ {x})
    BY <2>1, OthersTaken
  <2>3. CASE x \notin Taken'
    <3>1. Taken' = Taken' \ {x}
      BY <2>3
    <3>2. Cardinality(Taken') <= Cardinality(Taken) /\ IsFiniteSet(Taken') /\ Cardinality(Taken) \in Nat
      BY <2>2, <3>1, FS_Subset, FS_CardinalityType DEF SlotsInv
    <3>3. MaxParallel[p] \in Nat
      BY PlanAssumption
    <3>. QED BY <1>0, <3>2, <3>3, FS_CardinalityType
  <2>4. CASE x \in Taken'
    <3>1. runStatus' = runStatus /\ sched[s].pc = "taskUpdate"
      BY <1>1 DEF Gives, UpsertTask
    <3>2. Alive(r)
      <4>1. Alive(r)'
        BY <2>4 DEF Taken, Alive
      <4>. QED BY <3>1, <4>1 DEF Alive
    <3>3. Room(r, k)
      BY <1>1, <3>1 DEF SlotsInv, Reserved, AtPoint, Calling, HoldingPoints, Gives
    <3>4. PICK q \in Runs : Cardinality(Taken \ {x}) < MaxParallel[q]
      BY <3>2, <3>3 DEF Room
    <3>5. /\ Taken' = (Taken' \ {x}) \cup {x}
          /\ x \notin Taken' \ {x}
      BY <2>4
    <3>6. IsFiniteSet(Taken') /\ Cardinality(Taken') = Cardinality(Taken' \ {x}) + 1
      <4>. DEFINE S == Taken' \ {x}
      <4>1. IsFiniteSet(S) /\ x \notin S /\ Taken' = S \cup {x}
        BY <2>2, <3>5
      <4>. HIDE DEF S, x
      <4>2. IsFiniteSet(S \cup {x}) /\ Cardinality(S \cup {x}) = Cardinality(S) + 1
        BY <4>1, FS_AddElement
      <4>. QED BY <4>1, <4>2 DEF S
    <3>7. MaxParallel[q] \in Nat
      BY PlanAssumption
    <3>. QED BY <2>2, <3>4, <3>6, <3>7
  <2>. QED BY <2>3, <2>4
<1>2. ASSUME \A s \in Schedulers : ~Gives(s)
      PROVE  IsFiniteSet(Taken') /\ \E q \in Runs : Cardinality(Taken') <= MaxParallel[q]
  <2>1. Taken' \subseteq Taken
    <3>1. ASSUME NEW x \in Taken' PROVE x \in Taken
      <4>1. PICK q \in Runs, j \in Tasks : x = <<q, j>>
        BY TakenPairs
      <4>. QED BY <1>2, <4>1, TakenMoves
    <3>. QED BY <3>1
  <2>2. IsFiniteSet(Taken') /\ Cardinality(Taken') <= Cardinality(Taken) /\ Cardinality(Taken) \in Nat
    BY <2>1, FS_Subset, FS_CardinalityType DEF SlotsInv
  <2>3. MaxParallel[p] \in Nat /\ Cardinality(Taken') \in Nat
    BY <2>2, PlanAssumption, FS_CardinalityType
  <2>. QED BY <1>0, <2>2, <2>3
<1>. QED BY <1>1, <1>2

LEMMA HoldsOn ==
  ASSUME NEW l, AtPoint(l, HoldingPoints)
  PROVE  l.pc \notin Top /\ ~Before(l)
BY DEF AtPoint, Calling, HoldingPoints, Top, Before

\* Others take a step: what the scheduler holds keeps its slot.
LEMMA ReservedAside ==
  ASSUME OneScheduler, NoReplay, NoRevival, SlotsInv, [Next]_vars, UNCHANGED sched, NEW s \in Schedulers
  PROVE  Reserved(sched[s])'
<1>0. TypeInv
  BY DEF SlotsInv, MarksInv, FlightInv, StartInv, OrderInv
<1>1. \A v \in Schedulers : ~UpsertTask(v)
  BY <1>0, UpsertTaskFlow DEF Moved, AfterTask
<1>. SUFFICES ASSUME AtPoint(sched[s], HoldingPoints), sched[s].pc # "push",
                     NEW r, NEW k, r = sched[s].run, k = sched[s].task
              PROVE  /\ sched[s].pc = "taskUpdate" => Room(r, k)'
                     /\ Room(r, k)' \/ task'[r][k].status = "CANCELLED"
  BY DEF Reserved, Room, AtPoint, Calling, HoldingPoints
<1>2. On(sched[s], r) /\ ~Before(sched[s]) /\ r \in Runs /\ k \in Tasks
  BY <1>0, HoldsOn, Locals DEF On, AtPoint, HoldingPoints, AfterTask
<1>3. Room(r, k) => Room(r, k)'
  BY <1>1, <1>2, RoomStays DEF Gives
<1>4. task[r][k].status = "CANCELLED" => task'[r][k].status = "CANCELLED"
  BY <1>0, <1>1, <1>2, RowMoves
<1>. QED BY <1>3, <1>4 DEF SlotsInv, Reserved

LEMMA ReservedStep ==
  ASSUME OneScheduler, NoReplay, NoRevival, SlotsInv, [Next]_vars, NEW s \in Schedulers, SchedulerStep(s)
  PROVE  Reserved(sched[s])'
<1>. DEFINE l == sched[s]
            m == sched'[s]
<1>0. TypeInv /\ TypeInv'
  BY StepSound DEF SlotsInv, MarksInv, FlightInv, StartInv, OrderInv
<1>. SUFFICES ASSUME AtPoint(m, HoldingPoints), m.pc # "push",
                     NEW r, NEW k, r = m.run, k = m.task
              PROVE  /\ m.pc = "taskUpdate" => Room(r, k)'
                     /\ Room(r, k)' \/ task'[r][k].status = "CANCELLED"
  BY DEF Reserved, Room, AtPoint, Calling, HoldingPoints
<1>1. CASE /\ AtPoint(l, HoldingPoints) /\ r = l.run /\ k = l.task
           /\ Calling(l) => SelectTaskStatus(s) \/ UpsertTask(s)
           /\ ~Calling(l) => ~Picking(m)
  <2>1. On(l, r) /\ ~Before(l) /\ r \in Runs /\ k \in Tasks
    BY <1>0, <1>1, HoldsOn, Locals DEF On, AtPoint, HoldingPoints, AfterTask
  <2>2. \A v \in Schedulers : Gives(v) => sched[v].run = r /\ sched[v].task = k
    BY <1>1 DEF OneScheduler
  <2>3. Room(r, k) => Room(r, k)'
    BY <2>1, <2>2, RoomStays
  <2>4. CASE UpsertTask(s)
    <3>1. l.pc = "taskUpdate"
      BY <2>4 DEF UpsertTask
    <3>2. Room(r, k)
      BY <1>1, <3>1 DEF SlotsInv, Reserved
    <3>. QED BY <2>3, <3>2
  <2>5. CASE ~UpsertTask(s)
    <3>1. l.pc # "push"
      <4>1. l.pc = "push" => PushTask(s)
        BY DEF SchedulerStep, PopRun, AdmitRun, CancelRunTasks, SelectRunStatus, UpdateRunStatus,
           SelectTaskStatus, UpsertTask, LoadPlan, InitTask, FinishInit, ReadStates, PickReady, PopDone,
           HandleSuccess, HandleRetry, WakeUp, HandleDead, SyncRead, SyncCancel, SyncVerdict
      <4>2. PushTask(s) => ~AtPoint(m, HoldingPoints)
        BY <1>0, PushTaskFlow DEF Went, Moved, AtPoint, Calling, HoldingPoints, Top
      <4>. QED BY <4>1, <4>2
    <3>2. Room(r, k) \/ task[r][k].status = "CANCELLED"
      BY <1>1, <3>1 DEF SlotsInv, Reserved
    <3>3. task[r][k].status = "CANCELLED" => task'[r][k].status = "CANCELLED"
      BY <1>0, <2>1, <2>5, RowMoves DEF OneScheduler
    <3>4. m.pc = "taskUpdate" => Room(r, k)
      <4>1. m.pc = "taskUpdate" => Calling(l)
        <5>1. ASSUME l.pc \in {"handle", "sleep"}
              PROVE  HandleSuccess(s) \/ HandleRetry(s) \/ WakeUp(s) \/ HandleDead(s)
          BY <5>1 DEF SchedulerStep, PopRun, AdmitRun, CancelRunTasks, SelectRunStatus, UpdateRunStatus,
             SelectTaskStatus, UpsertTask, LoadPlan, InitTask, FinishInit, ReadStates, PickReady, PushTask,
             PopDone, SyncRead, SyncCancel, SyncVerdict
        <5>2. ~Calling(l) => l.pc \in {"handle", "sleep"}
          BY <1>1, <3>1 DEF AtPoint, HoldingPoints
        <5>. QED BY <1>0, <5>1, <5>2, HandleFlow DEF Asked, Moved, WithdrawsAll
      <4>2. m.pc = "taskUpdate" => task[r][k].status # "CANCELLED"
        BY <1>0, <1>1, <2>5, <4>1, SelectTaskStatusFlow DEF Moved, TaskAllowed, AfterTask
      <4>. QED BY <3>2, <4>2
    <3>. QED BY <2>3, <3>2, <3>3, <3>4
  <2>. QED BY <2>4, <2>5
<1>2. CASE l.pc = "pick" /\ r = l.run /\ Open(l, k) /\ Calling(m) /\ Picking(m)
  <2>1. PickReady(s)
    BY <1>2 DEF SchedulerStep, PopRun, AdmitRun, CancelRunTasks, SelectRunStatus, UpdateRunStatus,
       SelectTaskStatus, UpsertTask, LoadPlan, InitTask, FinishInit, ReadStates, PushTask, PopDone,
       HandleSuccess, HandleRetry, WakeUp, HandleDead, SyncRead, SyncCancel, SyncVerdict
  <2>2. ~SlotsFull(r)
    BY <1>0, <1>2, <2>1, PickReadyFlow DEF Went, Moved, Calling, AfterAll, Top
  <2>3. On(l, r) /\ ~Before(l) /\ r \in Runs
    BY <1>0, <1>2, Locals DEF On, Before, Top
  <2>4. Room(r, k)
    <3>1. IsFiniteSet(Taken) /\ Taken \ {<<r, k>>} \subseteq Taken
      BY DEF SlotsInv
    <3>2. /\ Cardinality(Taken \ {<<r, k>>}) <= Cardinality(Taken)
          /\ Cardinality(Taken) \in Nat /\ Cardinality(Taken \ {<<r, k>>}) \in Nat
      BY <3>1, FS_Subset, FS_CardinalityType
    <3>3. MaxParallel[r] \in Nat
      BY <2>3, PlanAssumption
    <3>4. Cardinality(Taken) < MaxParallel[r]
      BY <2>2, <3>2, <3>3, TakenPairs DEF SlotsFull
    <3>. QED BY <2>3, <3>2, <3>3, <3>4 DEF Room
  <2>5. \A v \in Schedulers : ~Gives(v)
    BY <1>2 DEF Gives, UpsertTask, OneScheduler
  <2>. QED BY <2>3, <2>4, <2>5, RoomStays
<1>3. CASE Pops(Head(doneQ)) /\ IsFor(Head(doneQ), r, k)
  <2>1. PopDone(s) /\ UNCHANGED <<runStatus, task>>
    <3>1. doneQ' # doneQ
      <4>1. doneQ \in Seq(OutcomeSet) /\ doneQ # <<>> /\ doneQ' = Tail(doneQ)
        BY <1>0, <1>3, ListTypes DEF Pops
      <4>2. Len(Tail(doneQ)) # Len(doneQ)
        BY <4>1
      <4>3. Tail(doneQ) # doneQ
        BY <4>2
      <4>. QED BY <4>1, <4>3
    <3>2. ~PushTask(s) /\ ~HandleDead(s)
      BY <3>1 DEF PushTask, HandleDead
    <3>3. PopDone(s)
      BY <3>1, <3>2, LoopTraffic
    <3>. QED BY <3>3 DEF PopDone, rows
  <2>2. m.pc = "taskSelect" /\ r \in Runs /\ k \in Tasks
    BY <1>0, <2>1, PopDoneFlow DEF AtPoint, Calling, HoldingPoints, Top, OutcomeSet
  <2>3. Msg(r, k)
    BY <1>0, <1>3, <2>2, PopMoves
  <2>4. task[r][k].status \in {"RUNNING", "CANCELLED"}
    BY <2>2, <2>3 DEF SlotsInv, MarksInv, Says, Out
  <2>5. ASSUME task[r][k].status = "RUNNING", Alive(r)
        PROVE  \E q \in Runs : Cardinality(Taken \ {<<r, k>>}) < MaxParallel[q]
    <3>1. <<r, k>> \in Taken
      BY <2>2, <2>5 DEF Taken, SlotStatus
    <3>2. PICK q \in Runs : Cardinality(Taken) <= MaxParallel[q]
      BY TakenPairs DEF SlotsInv, SlotsRespected
    <3>3. Cardinality(Taken \ {<<r, k>>}) = Cardinality(Taken) - 1 /\ Cardinality(Taken) \in Nat
      BY <3>1, FS_RemoveElement, FS_CardinalityType DEF SlotsInv
    <3>4. MaxParallel[q] \in Nat
      BY PlanAssumption
    <3>. QED BY <3>2, <3>3, <3>4
  <2>6. Room(r, k) \/ task[r][k].status = "CANCELLED"
    BY <2>4, <2>5 DEF Room
  <2>7. Taken' = Taken /\ (Alive(r)' <=> Alive(r))
    BY <2>1 DEF Taken, Alive
  <2>. QED BY <2>1, <2>2, <2>6, <2>7 DEF Room
<1>. QED
  BY <1>0, <1>1, <1>2, <1>3, HoldFlow

LEMMA SlotsNext == OneScheduler /\ NoReplay /\ NoRevival /\ SlotsInv /\ [Next]_vars => SlotsInv'
<1>. SUFFICES ASSUME OneScheduler, NoReplay, NoRevival, SlotsInv, [Next]_vars PROVE SlotsInv'
  OBVIOUS
<1>0. TypeInv
  BY DEF SlotsInv, MarksInv, FlightInv, StartInv, OrderInv
<1>1. MarksInv'
  BY MarksNext DEF SlotsInv
<1>2. IsFiniteSet(Taken') /\ SlotsRespected'
  <2>1. RunningTasks' = Cardinality(Taken')
    BY DEF RunningTasks, Taken, Alive
  <2>. QED BY <2>1, RespectedNext DEF SlotsRespected
<1>3. ASSUME NEW s \in Schedulers PROVE Reserved(sched[s])' /\ Starts(sched[s])'
  <2>1. CASE UNCHANGED sched
    BY <2>1, ReservedAside DEF SlotsInv, Starts
  <2>2. CASE SchedulerStep(s)
    BY <1>0, <2>2, ReservedStep, StartsStep DEF SlotsInv, Starts
  <2>3. CASE sched'[s] = AtTop("pollRuns")
    BY <2>3 DEF AtTop, Reserved, Starts, AtPoint, Calling, HoldingPoints
  <2>. QED BY <1>0, <2>1, <2>2, <2>3, WhoActs
<1>. QED BY <1>1, <1>2, <1>3 DEF SlotsInv

LEMMA SlotsInit == Runs # {} /\ Init => SlotsInv
<1>. SUFFICES ASSUME Runs # {}, Init PROVE SlotsInv
  OBVIOUS
<1>1. Taken = {}
  BY DEF Init, Taken, Alive
<1>2. IsFiniteSet(Taken) /\ Cardinality(Taken) = 0
  BY <1>1, FS_EmptySet
<1>3. SlotsRespected
  <2>1. PICK r \in Runs : TRUE
    OBVIOUS
  <2>2. MaxParallel[r] \in Nat
    BY PlanAssumption
  <2>. QED BY <1>2, <2>2, TakenPairs DEF SlotsRespected
<1>4. \A s \in Schedulers : Reserved(sched[s]) /\ Starts(sched[s])
  BY DEF Init, AtTop, Reserved, Starts, AtPoint, Calling, HoldingPoints
<1>. QED BY <1>2, <1>3, <1>4, MarksInit DEF SlotsInv

(***************************************************************************)
(* The project never has more tasks marked RUNNING than the largest        *)
(* max_parallel_tasks of its runs, although the slots are counted before   *)
(* the row is written and a retry does not count them: one scheduler has   *)
(* nobody to race with, and a task that is retried has kept its slot or    *)
(* finds one free.  A status call that sets a cancelled run going again    *)
(* brings back tasks that were not counted in the meantime, and a replay   *)
(* of dead letters sends work to a row that takes no slot.                 *)
(***************************************************************************)
THEOREM SlotsKept ==
  ASSUME OneScheduler, NoReplay, NoRevival, Runs # {}
  PROVE  Spec => []SlotsRespected
<1>1. SlotsInv /\ [Next]_vars => SlotsInv'
  BY SlotsNext
<1>2. Init => SlotsInv
  BY SlotsInit
<1>3. SlotsInv => SlotsRespected
  BY DEF SlotsInv
<1>. QED BY <1>1, <1>2, <1>3, PTL DEF Spec

-----------------------------------------------------------------------------
(***************************************************************************)
(* The refinement: where a task is for DagExecution, from whether its work *)
(* is out and from its row.                                                *)
(***************************************************************************)
Stage(away, st) == IF away THEN "active"
                   ELSE IF st = "SUCCESS" THEN "succeeded"
                   ELSE IF st = "FAILED" THEN "dead"
                   ELSE IF st = "CANCELLED" THEN "cancelled"
                   ELSE "waiting"

Staged == Phase = [r \in Runs |-> [k \in Tasks |-> Stage(Away(r, k), task[r][k].status)]]

LEMMA PhaseIs == Staged
<1>1. ASSUME NEW r \in Runs, NEW k \in Tasks
      PROVE  (IF InFlight(r, k) THEN "active"
              ELSE CASE task[r][k].status = "SUCCESS"   -> "succeeded"
                     [] task[r][k].status = "FAILED"    -> "dead"
                     [] task[r][k].status = "CANCELLED" -> "cancelled"
                     [] OTHER                           -> "waiting")
             = Stage(Away(r, k), task[r][k].status)
  <2>1. InFlight(r, k) <=> Away(r, k)
    BY InFlightMeans DEF Away
  <2>. QED BY <2>1, Zenon DEF Stage
<1>. QED BY <1>1, Zenon DEF Staged, Phase

LEMMA PhasePrimed == Staged'
BY PhaseIs, PTL

\* Work goes out when the scheduler picks the task, ...
LEMMA AwayBegins ==
  ASSUME OneScheduler, NoReplay, MarksInv, [Next]_vars,
         NEW r \in Runs, NEW k \in Tasks, Away(r, k)', ~Away(r, k)
  PROVE  \E s \in Schedulers : /\ sched[s].pc = "pick" /\ sched'[s].pc = "taskSelect"
                               /\ sched[s].run = r /\ Open(sched[s], k) /\ Holds(sched'[s], r, k)
<1>0. TypeInv
  BY DEF MarksInv, FlightInv, StartInv, OrderInv
<1>1. ~Msg(r, k)'
  <2>1. \A s \in Schedulers : ~Handed(sched[s], r, k)
    BY DEF Away, HeldBy, Handed, Holds, HoldingPoints
  <2>. QED BY <1>0, <2>1, MsgMoves, NoResends DEF Away
<1>2. PICK s \in Schedulers : Holds(sched'[s], r, k)
  BY <1>1 DEF Away, HeldBy, Holds
<1>3. ~Holds(sched[s], r, k) /\ ~Has(doneQ, r, k)
  BY DEF Away, HeldBy, Msg
<1>4. SchedulerStep(s)
  <2>1. sched'[s].pc # "pollRuns"
    BY <1>2 DEF Holds, HoldingPoints
  <2>. QED BY <1>0, <1>2, <1>3, <2>1, WhoActs DEF AtTop
<1>5. AtPoint(sched'[s], HoldingPoints) /\ sched'[s].run = r /\ sched'[s].task = k
  BY <1>2, HoldsPoint
<1>6. ~(AtPoint(sched[s], HoldingPoints) /\ sched[s].run = r /\ sched[s].task = k)
  BY <1>3, HoldsPoint
<1>7. ~(Pops(Head(doneQ)) /\ IsFor(Head(doneQ), r, k))
  BY <1>0, <1>3, ListTypes, HasTail DEF Pops
<1>8. /\ sched[s].pc = "pick" /\ sched[s].run = r /\ Open(sched[s], k)
      /\ Calling(sched'[s])
  BY <1>0, <1>4, <1>5, <1>6, <1>7, HoldFlow
<1>9. sched'[s].pc = "taskSelect"
  <2>0. PickReady(s)
    BY <1>4, <1>8
    DEF SchedulerStep, PopRun, AdmitRun, CancelRunTasks, SelectRunStatus, UpdateRunStatus, SelectTaskStatus,
        UpsertTask, LoadPlan, InitTask, FinishInit, ReadStates, PushTask, PopDone, HandleSuccess, HandleRetry,
        WakeUp, HandleDead, SyncRead, SyncCancel, SyncVerdict
  <2>1. ~(Went(sched[s], sched'[s], sched[s].after) /\ sched[s].after \in AfterAll)
    BY <1>8 DEF Went, Moved, Calling, Top, AfterAll
  <2>. QED BY <1>0, <2>0, <2>1, PickReadyFlow DEF Asked
<1>. QED BY <1>2, <1>8, <1>9

\* ... and comes to an end when the scheduler handles its outcome.
LEMMA AwayEnds ==
  ASSUME OneScheduler, NoCrash, ~External, TypeInv, [Next]_vars,
         NEW r \in Runs, NEW k \in Tasks, Away(r, k), ~Away(r, k)'
  PROVE  \E s \in Schedulers : /\ Holds(sched[s], r, k) /\ sched[s].pc = "handle"
                               /\ \/ HandleSuccess(s) /\ sched[s].status = "SUCCESS"
                                  \/ HandleDead(s) /\ sched[s].status = "FAILED"
<1>1. ~Msg(r, k)' /\ \A s \in Schedulers : ~Holds(sched'[s], r, k)
  BY DEF Away, HeldBy, Holds
<1>2. PICK s \in Schedulers : Holds(sched[s], r, k)
  BY <1>1, MsgKept DEF Away, HeldBy
<1>3. SchedulerStep(s)
  <2>1. ~UNCHANGED sched
    BY <1>1, <1>2
  <2>2. ASSUME NEW v \in Schedulers, SchedulerStep(v) PROVE SchedulerStep(s)
    BY <2>2 DEF OneScheduler
  <2>3. ASSUME NEW e \in Executors, ExecutorStep(e) \/ ExecutorCrash(e) PROVE UNCHANGED sched
    BY <2>3 DEF ExecutorStep, TakeTask, FinishTask, ExecutorCrash
  <2>4. ASSUME NEW c \in Clients, ClientCall(c) \/ ClientStep(c) \/ ClientCrash(c) PROVE UNCHANGED sched
    BY <2>4 DEF ClientCall, ClientStep, ClientCrash, CreateRun, CancelRun, ReplayDlq, SetRunStatus,
                PublishRun, CancelTasks, ListDlq, RequeueItem, RemoveItem
  <2>5. UNCHANGED vars => UNCHANGED sched
    BY DEF vars
  <2>. QED BY <2>1, <2>2, <2>3, <2>4, <2>5, NobodyCrashes DEF Next
<1>. QED BY <1>1, <1>2, <1>3, HoldKept

\* While the scheduler rests, or does neither, work stays where it is.
LEMMA AwaySame ==
  ASSUME OneScheduler, NoReplay, NoCrash, ~External, MarksInv, [Next]_vars,
         NEW r \in Runs, NEW k \in Tasks,
         \/ UNCHANGED sched
         \/ \A s \in Schedulers : sched[s].pc # "pick" /\ ~HandleSuccess(s) /\ ~HandleDead(s)
  PROVE  Away(r, k)' <=> Away(r, k)
<1>0. TypeInv
  BY DEF MarksInv, FlightInv, StartInv, OrderInv
<1>1. ASSUME Away(r, k)', ~Away(r, k) PROVE FALSE
  BY <1>1, AwayBegins
<1>2. ASSUME Away(r, k), ~Away(r, k)' PROVE FALSE
  <2>1. PICK s \in Schedulers : sched[s].pc = "handle" /\ (HandleSuccess(s) \/ HandleDead(s))
    BY <1>0, <1>2, AwayEnds
  <2>2. sched'[s].pc # "handle"
    BY <1>0, <2>1, HandleFlow DEF WithdrawsAll, Moved
  <2>. QED BY <2>1, <2>2
<1>. QED BY <1>1, <1>2

\* Where nothing happens the phases stay, and what happens to one task leaves
\* the others in theirs.
LEMMA PhasesStay ==
  ASSUME \A r \in Runs, k \in Tasks :
           Stage(Away(r, k)', task'[r][k].status) = Stage(Away(r, k), task[r][k].status)
  PROVE  Phase' = Phase
<1>1. Phase' = [r \in Runs |-> [k \in Tasks |-> Stage(Away(r, k)', task'[r][k].status)]]
  BY PhasePrimed DEF Staged
<1>. QED BY <1>1, PhaseIs, Zenon DEF Staged

LEMMA PhasesIdle ==
  ASSUME UNCHANGED task, \A r \in Runs, k \in Tasks : Away(r, k)' <=> Away(r, k)
  PROVE  Phase' = Phase
<1>1. ASSUME NEW r \in Runs, NEW k \in Tasks
      PROVE  Stage(Away(r, k)', task'[r][k].status) = Stage(Away(r, k), task[r][k].status)
  BY DEF Stage
<1>. QED BY <1>1, PhasesStay

LEMMA PhaseMoves ==
  ASSUME NEW r \in Runs, NEW k \in Tasks,
         \A q \in Runs, j \in Tasks :
           q # r \/ j # k => /\ Away(q, j)' <=> Away(q, j)
                             /\ task'[q][j].status = task[q][j].status \/ Away(q, j)
  PROVE  Phase' = [Phase EXCEPT ![r][k] = Stage(Away(r, k)', task'[r][k].status)]
<1>. DEFINE old(q, j) == Stage(Away(q, j), task[q][j].status)
            new(q, j) == Stage(Away(q, j)', task'[q][j].status)
<1>1. ASSUME NEW q \in Runs, NEW j \in Tasks, q # r \/ j # k
      PROVE  new(q, j) = old(q, j)
  BY <1>1 DEF Stage
<1>2. Phase' = [q \in Runs |-> [j \in Tasks |-> new(q, j)]]
  BY PhasePrimed DEF Staged
<1>3. Phase = [q \in Runs |-> [j \in Tasks |-> old(q, j)]]
  BY PhaseIs DEF Staged
<1>. HIDE DEF old, new
<1>4. [Phase EXCEPT ![r][k] = new(r, k)]
        = [q \in Runs |-> IF q = r THEN [Phase[r] EXCEPT ![k] = new(r, k)] ELSE Phase[q]]
  BY <1>3
<1>5. [Phase[r] EXCEPT ![k] = new(r, k)] = [j \in Tasks |-> new(r, j)]
  BY <1>1, <1>3
<1>6. \A q \in Runs : q # r => Phase[q] = [j \in Tasks |-> new(q, j)]
  BY <1>1, <1>3
<1>7. Phase' = [Phase EXCEPT ![r][k] = new(r, k)]
  BY <1>2, <1>4, <1>5, <1>6
<1>. QED BY <1>7 DEF new

\* A cancel calls off what waits.
LEMMA CallsOff ==
  ASSUME TypeInv, NEW r \in Runs, CancelRemaining(r), UNCHANGED runStatus,
         \A q \in Runs, j \in Tasks : Away(q, j)' <=> Away(q, j)
  PROVE  Dag!CallOff(r)
<1>. DEFINE K == {k \in Tasks : ~Away(r, k) /\ task[r][k].status \notin {"none", "SUCCESS", "FAILED", "CANCELLED"}}
            off == [k \in Tasks |-> IF k \in K THEN "cancelled" ELSE Phase[r][k]]
<1>0. task \in [Runs -> [Tasks -> RowSet]]
  BY DEF TypeInv, TypeOK
<1>1. Phase = [q \in Runs |-> [j \in Tasks |-> Stage(Away(q, j), task[q][j].status)]]
  BY PhaseIs DEF Staged
<1>2. Phase' = [q \in Runs |-> [j \in Tasks |-> Stage(Away(q, j)', task'[q][j].status)]]
  BY PhasePrimed DEF Staged
<1>3. ASSUME NEW k \in Tasks
      PROVE  task'[r][k].status = IF task[r][k].status \in {"none", "SUCCESS", "FAILED", "CANCELLED"}
                                  THEN task[r][k].status ELSE "CANCELLED"
  <2>1. task[r][k] \in RowSet
    BY <1>0
  <2>2. task'[r][k] = IF task[r][k].status \in {"none", "SUCCESS", "FAILED", "CANCELLED"}
                      THEN task[r][k] ELSE [task[r][k] EXCEPT !.status = "CANCELLED"]
    BY <1>0 DEF CancelRemaining
  <2>. QED BY <2>1, <2>2 DEF RowSet
<1>4. \A q \in Runs : q # r => task'[q] = task[q]
  BY <1>0 DEF CancelRemaining
<1>5. K \in SUBSET {k \in Tasks : Phase[r][k] = "waiting"}
  BY <1>1 DEF Stage
<1>6. ASSUME NEW k \in Tasks PROVE Stage(Away(r, k)', task'[r][k].status) = off[k]
  BY <1>1, <1>3 DEF Stage
<1>7. \A q \in Runs, j \in Tasks : q # r => Stage(Away(q, j)', task'[q][j].status) = Phase[q][j]
  BY <1>1, <1>4 DEF Stage
<1>8. [Phase EXCEPT ![r] = off] = [q \in Runs |-> IF q = r THEN off ELSE Phase[q]]
  BY <1>1
<1>9. Phase' = [Phase EXCEPT ![r] = off]
  <2>1. \A q \in Runs : q # r => Phase[q] = [j \in Tasks |-> Stage(Away(q, j)', task'[q][j].status)]
    BY <1>1, <1>7
  <2>2. off = [j \in Tasks |-> Stage(Away(r, j)', task'[r][j].status)]
    BY <1>6
  <2>. QED BY <1>2, <1>8, <2>1, <2>2
<1>. QED BY <1>5, <1>9 DEF Dag!CallOff

\* Nobody is working on a task whose row is at SUCCESS, but the scheduler
\* when it is handling that.
LEMMA DoneIsSpare ==
  ASSUME MarksInv, NEW r \in Runs, NEW k \in Tasks, task[r][k].status \in {"SUCCESS", "FAILED"},
         \A s \in Schedulers : ~Holds(sched[s], r, k)
  PROVE  ~Away(r, k)
BY DEF MarksInv, Says, Out, Away, HeldBy

\* The steps of the scheduler that are steps of DagExecution.
LEMMA BeginsWork ==
  ASSUME OneScheduler, NoReplay, NoCrash, ~External, MarksInv, [Next]_vars,
         NEW s \in Schedulers, PickReady(s)
  PROVE  [Dag!Next]_(Dag!vars)
<1>. DEFINE l == sched[s]
<1>0. TypeInv /\ l.run \in Runs /\ l.pc = "pick" /\ l.todo \subseteq Tasks
  BY Locals DEF MarksInv, FlightInv, StartInv, OrderInv, PickReady, Top, Local
<1>1. UNCHANGED <<task, runStatus>>
  BY DEF PickReady, rows
<1>2. \A v \in Schedulers : v = s
  BY DEF OneScheduler
<1>3. \A q \in Runs, j \in Tasks : Away(q, j) => Away(q, j)'
  BY <1>0, <1>2, AwayEnds
<1>4. CASE \A q \in Runs, j \in Tasks : Away(q, j)' => Away(q, j)
  BY <1>1, <1>3, <1>4, PhasesIdle DEF Dag!vars
<1>5. ASSUME NEW r \in Runs, NEW k \in Tasks, Away(r, k)', ~Away(r, k)
      PROVE  Dag!Begin(r, k)
  <2>1. l.run = r /\ Open(l, k) /\ Holds(sched'[s], r, k)
    BY <1>2, <1>5, AwayBegins
  <2>2. k \in Selected(r) /\ k \in Keys(Plan[r]) /\ Deps(r, k) \subseteq Tasks
    BY <1>0, <2>1, KeysAreTasks DEF MarksInv, FlightInv, StartInv, OrderInv, Order, Picking, Open
  <2>3. \A d \in Deps(r, k) : task[r][d].status = "SUCCESS"
    <3>1. MarksInv'
      BY MarksNext
    <3>2. AtPoint(sched'[s], HoldingPoints) /\ sched'[s].run = r /\ sched'[s].task = k
      BY <2>1, HoldsPoint
    <3>3. May(task', r, k)
      BY <3>1, <3>2 DEF MarksInv, FlightInv, StartInv, OrderInv, Order, May, AtPoint, Calling
    <3>. QED BY <1>1, <3>3 DEF May
  <2>4. \A q \in Runs, j \in Tasks : ~HeldBy(q, j)
    BY <1>0, <1>2 DEF HeldBy, Holds, HoldingPoints
  <2>5. \A d \in Deps(r, k) : Phase[r][d] = "succeeded"
    <3>1. \A d \in Deps(r, k) : ~Away(r, d)
      BY <2>2, <2>3, <2>4, DoneIsSpare DEF HeldBy
    <3>. QED BY <2>2, <2>3, <3>1, PhaseIs DEF Staged, Stage
  <2>6. Phase[r][k] \in {"waiting", "cancelled"}
    <3>1. Says(task, r, k, {"none", "PENDING"})
      BY <1>0, <2>1 DEF MarksInv, Remembered, Picking, Open
    <3>. QED BY <1>5, <3>1, PhaseIs DEF Staged, Stage, Says, Out
  <2>7. Phase' = [Phase EXCEPT ![r][k] = "active"]
    <3>1. \A q \in Runs, j \in Tasks : Away(q, j)' /\ ~Away(q, j) => q = r /\ j = k
      <4>1. \A q \in Runs, j \in Tasks : Away(q, j)' /\ ~Away(q, j) => Holds(sched'[s], q, j)
        BY <1>2, AwayBegins
      <4>. QED BY <2>1, <4>1 DEF Holds
    <3>2. Stage(Away(r, k)', task'[r][k].status) = "active"
      BY <1>5 DEF Stage
    <3>3. \A q \in Runs, j \in Tasks :
            q # r \/ j # k => /\ Away(q, j)' <=> Away(q, j)
                              /\ task'[q][j].status = task[q][j].status \/ Away(q, j)
      BY <1>1, <1>3, <3>1
    <3>4. Phase' = [Phase EXCEPT ![r][k] = Stage(Away(r, k)', task'[r][k].status)]
      BY <3>3, PhaseMoves
    <3>. QED BY <3>2, <3>4
  <2>. QED BY <1>1, <2>2, <2>5, <2>6, <2>7 DEF Dag!Begin, Dag!Move, Deps, Keys
<1>. QED BY <1>4, <1>5 DEF Dag!Next

LEMMA EndsWork ==
  ASSUME OneScheduler, NoReplay, NoCrash, ~External, MarksInv, [Next]_vars,
         NEW s \in Schedulers, HandleSuccess(s) \/ HandleDead(s)
  PROVE  [Dag!Next]_(Dag!vars)
<1>. DEFINE l == sched[s]
<1>0. TypeInv /\ l.pc = "handle"
  BY HandleFlow DEF MarksInv, FlightInv, StartInv, OrderInv
<1>. PICK r \in Runs, k \in Tasks : l.run = r /\ l.task = k
  BY <1>0, Locals DEF Sound, Top
<1>1. UNCHANGED <<task, runStatus>>
  BY DEF HandleSuccess, HandleDead, rows
<1>2. \A v \in Schedulers : v = s
  BY DEF OneScheduler
<1>3. Holds(l, r, k) /\ \A q \in Runs, j \in Tasks : Holds(l, q, j) => q = r /\ j = k
  BY <1>0 DEF Holds, HoldingPoints
<1>4. \A q \in Runs, j \in Tasks : Away(q, j)' => Away(q, j)
  BY <1>0, <1>2, AwayBegins
<1>5. \A q \in Runs, j \in Tasks : q # r \/ j # k => (Away(q, j)' <=> Away(q, j))
  BY <1>0, <1>2, <1>3, <1>4, AwayEnds
<1>6. Away(r, k) /\ ~Away(r, k)'
  <2>1. Away(r, k) /\ ~Msg(r, k)
    BY <1>0, <1>3 DEF Away, HeldBy, MarksInv, FlightInv, Flight
  <2>2. ~Msg(r, k)'
    <3>1. ASSUME NEW v \in Schedulers PROVE ~PushTask(v)
      BY <1>0, <1>2 DEF PushTask
    <3>. QED BY <1>0, <2>1, <3>1, MsgMoves, NoResends
  <2>3. ~Holds(sched'[s], r, k)
    BY <1>0, HandleFlow DEF Moved, WithdrawsAll, Holds, HoldingPoints
  <2>. QED BY <1>2, <2>1, <2>2, <2>3 DEF Away, HeldBy, Holds
<1>7. Phase[r][k] = "active"
  BY <1>0, <1>6, PhaseIs DEF Staged, Stage
<1>8. Phase' = [Phase EXCEPT ![r][k] = Stage(Away(r, k)', task'[r][k].status)]
  <2>1. \A q \in Runs, j \in Tasks :
          q # r \/ j # k => /\ Away(q, j)' <=> Away(q, j)
                            /\ task'[q][j].status = task[q][j].status \/ Away(q, j)
    BY <1>1, <1>5
  <2>. QED BY <2>1, PhaseMoves
<1>9. task[r][k].status \in {"SUCCESS", "FAILED", "CANCELLED"}
  BY <1>0, HandleFlow DEF MarksInv, Marked, Says, Out
<1>10. Stage(Away(r, k)', task'[r][k].status) \in {"succeeded", "dead", "cancelled"}
  BY <1>1, <1>6, <1>9 DEF Stage
<1>11. Dag!Succeed(r, k) \/ Dag!Die(r, k) \/ Dag!Withdraw(r, k)
  BY <1>1, <1>7, <1>8, <1>10 DEF Dag!Succeed, Dag!Die, Dag!Withdraw, Dag!Move
<1>. QED BY <1>0, <1>11 DEF Dag!Next

LEMMA WritesRow ==
  ASSUME OneScheduler, NoReplay, NoCrash, ~External, MarksInv, [Next]_vars,
         NEW s \in Schedulers, UpsertTask(s)
  PROVE  [Dag!Next]_(Dag!vars)
<1>. DEFINE l == sched[s]
<1>0. TypeInv /\ Flight(l) /\ Marked(task, l) /\ StartOf(task, l)
  BY DEF MarksInv, FlightInv, StartInv, OrderInv
<1>1. l.pc = "taskUpdate" /\ Calling(l) /\ l.cont \in AfterTask
  BY <1>0, UpsertTaskFlow DEF Calling
<1>. PICK r \in Runs, k \in Tasks : l.run = r /\ l.task = k
  BY <1>0, UpsertTaskFlow
<1>2. \A q \in Runs, j \in Tasks :
        task'[q][j].status = IF q = r /\ j = k THEN l.status ELSE task[q][j].status
  BY <1>0, UpsertTaskFlow
<1>3. UNCHANGED runStatus
  BY DEF UpsertTask
<1>4. \A q \in Runs, j \in Tasks : Away(q, j)' <=> Away(q, j)
  <2>1. \A v \in Schedulers : sched[v].pc # "pick" /\ ~HandleSuccess(v) /\ ~HandleDead(v)
    BY <1>1 DEF OneScheduler, HandleSuccess, HandleDead
  <2>. QED BY <2>1, AwaySame
<1>5. \A q \in Runs, j \in Tasks :
        q # r \/ j # k => Stage(Away(q, j)', task'[q][j].status) = Stage(Away(q, j), task[q][j].status)
  BY <1>2, <1>4 DEF Stage
<1>6. Phase' = [Phase EXCEPT ![r][k] = Stage(Away(r, k)', task'[r][k].status)]
  BY <1>2, <1>4, PhaseMoves
<1>7. Phase[r][k] = Stage(Away(r, k), task[r][k].status)
  BY PhaseIs DEF Staged
<1>8. ASSUME Stage(Away(r, k)', task'[r][k].status) = Stage(Away(r, k), task[r][k].status)
      PROVE  UNCHANGED Dag!vars
  BY <1>3, <1>5, <1>8, PhasesStay DEF Dag!vars
<1>9. CASE l.cont \in HoldingPoints
  <2>1. Away(r, k)
    BY <1>1, <1>9 DEF Away, HeldBy, Holds, Calling
  <2>. QED BY <1>4, <1>8, <2>1 DEF Stage
<1>10. ASSUME l.cont \notin HoldingPoints PROVE ~Away(r, k) /\ ~Away(r, k)'
  BY <1>1, <1>4, <1>10, WritesApart DEF Away, HeldBy, Holds, HoldingPoints, OneScheduler
<1>11. CASE l.cont = "initTasks"
  <2>1. task[r][k].status = "none" /\ l.status = InitStatus(l, k) /\ k \in Keys(Plan[r])
    BY <1>0, <1>1, <1>11 DEF StartOf, Initialising, AtPoint
  <2>2. ~Away(r, k) /\ ~Away(r, k)'
    BY <1>10, <1>11 DEF HoldingPoints
  <2>3. Phase[r][k] = "waiting"
    BY <1>7, <2>1, <2>2 DEF Stage
  <2>4. CASE l.status = "PENDING"
    BY <1>2, <1>8, <2>1, <2>2, <2>4 DEF Stage
  <2>5. CASE l.status # "PENDING"
    <3>1. k \in Skipped(r) /\ l.status \in {"SUCCESS", "FAILED"}
      BY <2>1, <2>5 DEF InitStatus, Skipped, SkippedKeys, Selected
    <3>2. Stage(Away(r, k)', task'[r][k].status) \in {"succeeded", "dead"}
      BY <1>2, <2>2, <3>1 DEF Stage
    <3>3. Dag!TakeOver(r, k) \/ Dag!Refuse(r, k)
      BY <1>3, <1>6, <2>3, <3>1, <3>2 DEF Dag!TakeOver, Dag!Refuse, Dag!Move
    <3>. QED BY <3>3 DEF Dag!Next
  <2>. QED BY <2>4, <2>5
<1>12. CASE l.cont = "syncCancel"
  <2>1. l.status = "CANCELLED" /\ Says(task, r, k, {"none", "PENDING"})
    BY <1>0, <1>1, <1>12 DEF Flight, Asks, Marked
  <2>2. ~Away(r, k) /\ ~Away(r, k)'
    BY <1>10, <1>12 DEF HoldingPoints
  <2>3. Stage(Away(r, k)', task'[r][k].status) = "cancelled"
    BY <1>2, <2>1, <2>2 DEF Stage
  <2>4. CASE task[r][k].status = "CANCELLED"
    BY <1>8, <2>2, <2>3, <2>4 DEF Stage
  <2>5. CASE task[r][k].status # "CANCELLED"
    <3>. DEFINE K == {k}
                off == [j \in Tasks |-> IF j \in K THEN "cancelled" ELSE Phase[r][j]]
    <3>1. Phase[r][k] = "waiting"
      BY <1>7, <2>1, <2>2, <2>5 DEF Stage, Says, Out
    <3>2. K \in SUBSET {j \in Tasks : Phase[r][j] = "waiting"}
      BY <3>1
    <3>3. DOMAIN Phase = Runs /\ Phase[r] = [j \in Tasks |-> Stage(Away(r, j), task[r][j].status)]
      BY PhaseIs DEF Staged
    <3>4. [Phase[r] EXCEPT ![k] = "cancelled"] = off
      BY <3>3
    <3>5. Phase' = [Phase EXCEPT ![r] = off]
      BY <1>6, <2>3, <3>4
    <3>. QED BY <1>3, <3>2, <3>5 DEF Dag!CallOff, Dag!Next
  <2>. QED BY <2>4, <2>5
<1>. QED BY <1>1, <1>9, <1>11, <1>12 DEF AfterTask, HoldingPoints

LEMMA WritesVerdict ==
  ASSUME OneScheduler, NoReplay, NoCrash, ~External, MarksInv, SuccessIsEarned', FailureIsFinal', [Next]_vars,
         NEW s \in Schedulers, UpdateRunStatus(s)
  PROVE  [Dag!Next]_(Dag!vars)
<1>. DEFINE l == sched[s]
<1>0. TypeInv /\ l.pc = "runUpdate" /\ UNCHANGED task
  BY DEF MarksInv, FlightInv, StartInv, OrderInv, UpdateRunStatus
<1>. PICK r \in Runs : l.run = r
  BY <1>0, Locals DEF Sound
<1>. PICK v \in RunStatus : l.status = v
  BY <1>0, Locals DEF Sound
<1>1. runStatus' = [runStatus EXCEPT ![r] = v] /\ runStatus'[r] = v
  BY <1>0 DEF UpdateRunStatus, TypeInv, TypeOK
<1>2. \A w \in Schedulers : sched[w].pc = "runUpdate"
  BY <1>0 DEF OneScheduler
<1>3. Phase' = Phase
  <2>1. \A w \in Schedulers : sched[w].pc # "pick" /\ ~HandleSuccess(w) /\ ~HandleDead(w)
    BY <1>2 DEF HandleSuccess, HandleDead
  <2>. QED BY <1>0, <2>1, AwaySame, PhasesIdle
<1>4. \A q \in Runs, j \in Tasks, w \in Schedulers : ~Holds(sched[w], q, j)
  BY <1>2 DEF Holds, HoldingPoints
<1>5. \A k \in Keys(Plan[r]) : k \in Tasks
  BY KeysAreTasks
<1>6. ASSUME v = "SUCCESS", NEW k \in Keys(Plan[r]) PROVE Phase[r][k] = "succeeded"
  <2>1. task[r][k].status = "SUCCESS"
    BY <1>0, <1>1, <1>6 DEF SuccessIsEarned
  <2>. QED BY <1>4, <1>5, <2>1, DoneIsSpare, PhaseIs DEF Staged, Stage
<1>7. ASSUME v = "FAILED" PROVE \E k \in Keys(Plan[r]) : Phase[r][k] = "dead"
  <2>1. PICK k \in Keys(Plan[r]) : task[r][k].status = "FAILED"
    BY <1>0, <1>1, <1>7 DEF FailureIsFinal
  <2>. QED BY <1>4, <1>5, <2>1, DoneIsSpare, PhaseIs DEF Staged, Stage
<1>8. Dag!Conclude(r, v)
  BY <1>1, <1>3, <1>6, <1>7 DEF Dag!Conclude, Keys
<1>. QED BY <1>8 DEF Dag!Next, RunStatus

LEMMA WithdrawsTasks ==
  ASSUME OneScheduler, NoReplay, NoCrash, ~External, MarksInv, [Next]_vars,
         NEW s \in Schedulers, CancelRunTasks(s)
  PROVE  [Dag!Next]_(Dag!vars)
<1>0. TypeInv
  BY DEF MarksInv, FlightInv, StartInv, OrderInv
<1>1. /\ sched[s].pc = "cancelAll" /\ sched[s].run \in Runs
      /\ CancelRemaining(sched[s].run) /\ UNCHANGED runStatus
  BY <1>0, Locals DEF CancelRunTasks, Sound
<1>2. \A w \in Schedulers : sched[w].pc # "pick" /\ ~HandleSuccess(w) /\ ~HandleDead(w)
  BY <1>1 DEF OneScheduler, HandleSuccess, HandleDead
<1>3. Dag!CallOff(sched[s].run)
  BY <1>0, <1>1, <1>2, AwaySame, CallsOff
<1>. QED BY <1>1, <1>3 DEF Dag!Next

\* The other steps of the scheduler are not seen.
LEMMA LoopUnseen ==
  ASSUME OneScheduler, NoReplay, NoCrash, ~External, MarksInv, [Next]_vars,
         NEW s \in Schedulers, SchedulerStep(s),
         ~UpsertTask(s), ~UpdateRunStatus(s), ~CancelRunTasks(s), ~PickReady(s),
         ~HandleSuccess(s), ~HandleDead(s)
  PROVE  UNCHANGED Dag!vars
<1>1. UNCHANGED <<task, runStatus>>
  BY DEF SchedulerStep, PopRun, AdmitRun, SelectRunStatus, SelectTaskStatus, LoadPlan, InitTask, FinishInit,
         ReadStates, PushTask, PopDone, HandleRetry, WakeUp, SyncRead, SyncCancel, SyncVerdict, rows
<1>2. sched[s].pc # "pick"
  BY DEF SchedulerStep, PopRun, AdmitRun, SelectRunStatus, SelectTaskStatus, LoadPlan, InitTask, FinishInit,
         ReadStates, PushTask, PopDone, HandleRetry, WakeUp, SyncRead, SyncCancel, SyncVerdict
<1>3. \A w \in Schedulers : w = s
  BY DEF OneScheduler
<1>4. \A w \in Schedulers : sched[w].pc # "pick" /\ ~HandleSuccess(w) /\ ~HandleDead(w)
  BY <1>2, <1>3
<1>. QED BY <1>1, <1>4, AwaySame, PhasesIdle DEF Dag!vars

\* Nor are the executors; a handler is seen to write a run or to cancel.
LEMMA ExecutorsUnseen ==
  ASSUME OneScheduler, NoReplay, NoCrash, ~External, MarksInv, [Next]_vars,
         NEW e \in Executors, ExecutorStep(e)
  PROVE  UNCHANGED Dag!vars
<1>1. UNCHANGED <<task, runStatus, sched>>
  BY DEF ExecutorStep, TakeTask, FinishTask, rows
<1>. QED BY <1>1, AwaySame, PhasesIdle DEF Dag!vars

LEMMA HandlersConclude ==
  ASSUME OneScheduler, NoReplay, NoCrash, ~External, {"SUCCESS", "FAILED"} \cap ManualStatus = {},
         MarksInv, [Next]_vars, NEW c \in Clients, ClientCall(c) \/ ClientStep(c) \/ ClientCrash(c)
  PROVE  [Dag!Next]_(Dag!vars)
<1>0. TypeInv
  BY DEF MarksInv, FlightInv, StartInv, OrderInv
<1>1. UNCHANGED sched
  BY DEF ClientCall, ClientStep, ClientCrash, CreateRun, CancelRun, ReplayDlq, SetRunStatus,
         PublishRun, CancelTasks, ListDlq, RequeueItem, RemoveItem
<1>2. \A q \in Runs, j \in Tasks : Away(q, j)' <=> Away(q, j)
  BY <1>1, AwaySame
<1>3. CASE CancelTasks(c)
  <2>1. api[c].run \in Runs
    BY <1>0, <1>3 DEF CancelTasks, TypeInv, SoundHandler
  <2>2. Dag!CallOff(api[c].run)
    BY <1>0, <1>2, <1>3, <2>1, CallsOff DEF CancelTasks
  <2>. QED BY <2>1, <2>2 DEF Dag!Next
<1>4. CASE ClientCall(c)
  <2>1. Phase' = Phase
    <3>1. UNCHANGED task
      BY <1>4 DEF ClientCall, CreateRun, CancelRun, ReplayDlq, SetRunStatus
    <3>. QED BY <1>2, <3>1, PhasesIdle
  <2>2. \E r \in Runs, v \in {"PENDING", "RUNNING", "CANCELLED"} : runStatus' = [runStatus EXCEPT ![r] = v]
    <3>1. ASSUME NEW r \in Runs, NEW st \in ManualStatus, SetRunStatus(c, r, st)
          PROVE  /\ st \in {"PENDING", "RUNNING", "CANCELLED"}
                 /\ runStatus' = [runStatus EXCEPT ![r] = st]
      BY <3>1, ManualAssumption DEF SetRunStatus, RunStatus
    <3>2. ASSUME NEW r \in Runs PROVE ~ReplayDlq(c, r)
      BY DEF ReplayDlq, Call, NoReplay
    <3>3. ASSUME NEW r \in Runs, CreateRun(c, r) PROVE runStatus' = [runStatus EXCEPT ![r] = "PENDING"]
      BY <3>3 DEF CreateRun
    <3>4. ASSUME NEW r \in Runs, CancelRun(c, r) PROVE runStatus' = [runStatus EXCEPT ![r] = "CANCELLED"]
      BY <3>4 DEF CancelRun
    <3>. QED BY <1>4, <3>1, <3>2, <3>3, <3>4 DEF ClientCall
  <2>3. PICK r \in Runs, v \in {"PENDING", "RUNNING", "CANCELLED"} : runStatus' = [runStatus EXCEPT ![r] = v]
    BY <2>2
  <2>4. Dag!Conclude(r, v)
    BY <2>1, <2>3 DEF Dag!Conclude
  <2>. QED BY <2>4 DEF Dag!Next
<1>5. CASE ~CancelTasks(c) /\ ~ClientCall(c)
  <2>1. UNCHANGED <<task, runStatus>>
    BY <1>5 DEF ClientStep, ClientCrash, PublishRun, ListDlq, RequeueItem, RemoveItem, rows
  <2>. QED BY <1>2, <2>1, PhasesIdle DEF Dag!vars
<1>. QED BY <1>3, <1>4, <1>5

LEMMA StepsMap ==
  ASSUME OneScheduler, NoReplay, NoCrash, ~External, {"SUCCESS", "FAILED"} \cap ManualStatus = {}
  PROVE  MarksInv /\ SuccessIsEarned' /\ FailureIsFinal' /\ [Next]_vars => [Dag!Next]_(Dag!vars)
<1>. SUFFICES ASSUME MarksInv, SuccessIsEarned', FailureIsFinal', [Next]_vars PROVE [Dag!Next]_(Dag!vars)
  OBVIOUS
<1>0. TypeInv
  BY DEF MarksInv, FlightInv, StartInv, OrderInv
<1>1. ASSUME NEW s \in Schedulers, SchedulerStep(s) PROVE [Dag!Next]_(Dag!vars)
  BY <1>1, BeginsWork, EndsWork, WritesRow, WritesVerdict, WithdrawsTasks, LoopUnseen
<1>2. ASSUME NEW e \in Executors, ExecutorStep(e) PROVE [Dag!Next]_(Dag!vars)
  BY <1>2, ExecutorsUnseen
<1>3. ASSUME NEW c \in Clients, ClientCall(c) \/ ClientStep(c) \/ ClientCrash(c) PROVE [Dag!Next]_(Dag!vars)
  BY <1>3, HandlersConclude
<1>4. CASE UNCHANGED vars
  <2>1. UNCHANGED <<task, runStatus, sched>>
    BY <1>4 DEF vars
  <2>. QED BY <2>1, AwaySame, PhasesIdle DEF Dag!vars
<1>. QED BY <1>0, <1>1, <1>2, <1>3, <1>4, NobodyCrashes DEF Next

LEMMA InitMaps == Init => Dag!Init
<1>. SUFFICES ASSUME Init PROVE Dag!Init
  OBVIOUS
<1>1. \A r \in Runs, k \in Tasks : ~Away(r, k)
  <2>1. \A r \in Runs : \A k : ~Msg(r, k)
    BY NobodysMessage, HasEmpty DEF Init, Msg
  <2>. QED BY <2>1 DEF Init, AtTop, Away, HeldBy, Holds, HoldingPoints
<1>2. \A r \in Runs, k \in Tasks : Stage(Away(r, k), task[r][k].status) = "waiting"
  BY <1>1 DEF Init, NoRow, Stage
<1>3. Phase = [r \in Runs |-> [k \in Tasks |-> "waiting"]]
  BY <1>2, PhaseIs DEF Staged
<1>. QED BY <1>3 DEF Dag!Init, Init

(***************************************************************************)
(* The orchestration implements DagExecution: whatever goes through the    *)
(* rows and the queues, the tasks of a run are worked on one attempt chain *)
(* at a time, only after what they depend on, an ended task stays ended    *)
(* and the verdict is one its tasks bear out.  With cancels, status calls  *)
(* that claim no outcome, and replays of runs; without crashes, which lose *)
(* work, and replays of dead letters, which take an ended task up again.   *)
(***************************************************************************)
THEOREM OrchestrationImplementsDag ==
  ASSUME OneScheduler, NoReplay, NoCrash, ~External, {"SUCCESS", "FAILED"} \cap ManualStatus = {}
  PROVE  Spec => ImplementsDag
<1>1. MarksInv /\ [Next]_vars => MarksInv'
  BY MarksNext
<1>2. MarksInv /\ SuccessIsEarned' /\ FailureIsFinal' /\ [Next]_vars => [Dag!Next]_(Dag!vars)
  BY StepsMap
<1>3. "SUCCESS" \notin ManualStatus /\ "FAILED" \notin ManualStatus
  OBVIOUS
<1>4. Spec => []SuccessIsEarned
  BY <1>3, SuccessEarnedByAll
<1>5. Spec => []FailureIsFinal
  BY <1>3, FailuresEarned
<1>. QED
  BY InitMaps, MarksInit, <1>1, <1>2, <1>4, <1>5, PTL DEF Spec, ImplementsDag, Dag!Spec

-----------------------------------------------------------------------------
(***************************************************************************)
(* No run is forgotten.  A run is only looked at when its event or one of  *)
(* its outcomes is popped, so the scheduler may leave a run that has not   *)
(* ended only if one of its tasks is out.                                  *)
(***************************************************************************)

\* A plan that can be gone through: it has tasks, they depend on tasks of the
\* plan, and not in a circle.
Sensible(plan) ==
  /\ Keys(plan) # {}
  /\ \A k \in Keys(plan) : plan[k] \subseteq Keys(plan)
  /\ \A K \in SUBSET Keys(plan) : K # {} => \E k \in K : plan[k] \cap K = {}

Undisturbed ==
  /\ OneScheduler /\ NoReplay /\ NoCrash /\ NoRevival /\ Calm /\ ~External
  /\ \A q, r \in Runs : MaxParallel[q] = MaxParallel[r]
  /\ \A r \in Runs : Sensible(Plan[r])

Busy(r) == \E k \in Tasks : task[r][k].status = "RUNNING"

Untouched(t, r, k) == t[r][k].status \in {"none", "PENDING"}

\* Nothing of the run can be started.
Stuck(t, r) ==
  \A k \in Selected(r) : Untouched(t, r, k) => \E d \in Deps(r, k) : t[r][d].status # "SUCCESS"

Fresh(t, r) == \A k \in Selected(r) : Untouched(t, r, k)

Failing(t, r) == \E k \in Selected(r) : t[r][k].status = "FAILED"

Free(r) == RunningTasks < MaxParallel[r]

\* The loop over the ready tasks has not picked any.
Unpicked(t, l) ==
  /\ l.todo = Selected(l.run)
  /\ Free(l.run)
  /\ Ready(l.run, l.snap, l.todo) = {} => l.after = "sync" /\ Stuck(t, l.run)

Decided(l) == \/ \A k \in Selected(l.run) : l.snap[k].status = "SUCCESS"
              \/ \E k \in Selected(l.run) : l.snap[k].status = "FAILED"

\* What the scheduler brings along, from where it is.
Bound(l) ==
  /\ AtPoint(l, {"handle"}) => l.after = "sync"
  /\ l.pc \in {"runSelect", "runUpdate"} =>
       l.status \in (IF l.cont = "load" THEN {"RUNNING"} ELSE {"SUCCESS", "FAILED"})

\* A run that is being started has a slot to start with.
Opens(t, l) ==
  /\ (Before(l) /\ l.pc # "admit") \/ AtPoint(l, {"initTasks"}) => Free(l.run)
  /\ AtPoint(l, {"initTasks"}) \/ (l.pc = "ready" /\ l.after # "sync") => Fresh(t, l.run)

\* What the scheduler knows of a run that has not ended.
Pursues(t, l) ==
  l.pc \notin Top /\ Alive(l.run) =>
    /\ l.pc = "ready" => Free(l.run)
    /\ l.pc = "pick" => Busy(l.run) \/ Unpicked(t, l)
    /\ l.pc = "sync" => Busy(l.run) \/ Stuck(t, l.run) \/ Failing(t, l.run)
    /\ AtPoint(l, {"syncCancel"}) => Busy(l.run) \/ Decided(l)

\* The run has not been set going.
Ahead(r) == \/ Waiting(r)
            \/ \E s \in Schedulers : /\ On(sched[s], r) /\ Before(sched[s])
                                     /\ sched[s].pc # "load"

Watched(r) == Waiting(r) \/ (\E s \in Schedulers : On(sched[s], r)) \/ Busy(r)

\* Called off for a dependency that will never be there.
CalledFor(r, k) == \E d \in Deps(r, k) : Final(r, d) \/ task[r][d].status = "CANCELLED"

Causes == \A s \in Schedulers : \A r \in Runs : \A k \in Selected(r) :
            AtPoint(sched[s], {"syncCancel"}) /\ sched[s].run = r /\ CalledOff(sched[s], k) => CalledFor(r, k)

Midway == \A r \in Runs, k \in Tasks :
            task[r][k].status \in {"RETRY", "QUEUED"} => task[r][k].status = "RETRY" /\ HeldBy(r, k)

AttendInv ==
  /\ SlotsInv
  /\ Backed /\ Lettered
  /\ Midway
  /\ \A r \in Runs : \A k \in Selected(r) : task[r][k].status = "CANCELLED" => CalledFor(r, k)
  /\ Causes
  /\ \A s \in Schedulers : Bound(sched[s]) /\ Opens(task, sched[s]) /\ Pursues(task, sched[s])
  /\ \A r \in Runs : runStatus[r] = "PENDING" => Ahead(r)
  /\ \A r \in Runs : runStatus[r] = "RUNNING" => Watched(r)

LEMMA AttendFacts ==
  ASSUME AttendInv
  PROVE  TypeInv /\ TypeOK /\ OrderInv /\ StartInv /\ FlightInv /\ CalmInv /\ MarksInv /\ SlotsInv
BY DEF AttendInv, SlotsInv, MarksInv, FlightInv, StartInv, OrderInv, TypeInv

\* In a sensible plan every set of tasks has one that waits for none of them.
LEMMA FirstOf ==
  ASSUME Undisturbed, NEW r \in Runs, NEW K, K \subseteq Selected(r), K # {}
  PROVE  \E k \in K : Deps(r, k) \cap K = {} /\ \A d \in Deps(r, k) : d \in Selected(r) \/ d \in Skipped(r)
<1>1. K \subseteq Keys(Plan[r]) /\ Sensible(Plan[r])
  BY KeysAreTasks DEF Undisturbed
<1>2. PICK k \in K : Plan[r][k] \cap K = {}
  BY <1>1 DEF Sensible
<1>3. Plan[r][k] \subseteq Keys(Plan[r])
  BY <1>1, <1>2 DEF Sensible
<1>4. \A d \in Keys(Plan[r]) : d \in Selected(r) \/ d \in Skipped(r)
  BY DEF Selected, Skipped, SkippedKeys
<1>. QED BY <1>2, <1>3, <1>4 DEF Deps

LEMMA SomeSelected ==
  ASSUME Undisturbed, NEW r \in Runs
  PROVE  Selected(r) # {}
<1>1. Keys(Plan[r]) # {}
  BY DEF Undisturbed, Sensible
<1>2. ReplayFrom[r] \in Keys(Plan[r]) => ReplayFrom[r] \in Downstream(Plan[r], ReplayFrom[r])
  BY DEF Downstream
<1>. QED BY <1>1, <1>2 DEF Selected, SelectedKeys

\* The states as the scheduler reads them.
LEMMA StatesSay ==
  ASSUME TypeInv, NEW r \in Runs, NEW k \in Tasks
  PROVE  States(r)[k].status = IF task[r][k].status = "none" THEN "PENDING" ELSE task[r][k].status
<1>1. task[r][k] \in RowSet /\ States(r)[k] = Seen(task[r][k])
  BY DEF TypeInv, TypeOK, States
<1>2. [task[r][k] EXCEPT !.status = "PENDING"].status = "PENDING"
  BY <1>1 DEF RowSet
<1>. QED BY <1>1, <1>2 DEF Seen

LEMMA NoneReady ==
  ASSUME TypeInv, NEW r \in Runs, Ready(r, States(r), Selected(r)) = {}
  PROVE  Stuck(task, r)
<1>. SUFFICES ASSUME NEW k \in Selected(r), Untouched(task, r, k)
              PROVE  \E d \in Deps(r, k) : task[r][d].status # "SUCCESS"
  BY DEF Stuck
<1>1. k \in Tasks /\ Deps(r, k) \subseteq Tasks
  BY KeysAreTasks
<1>2. States(r)[k].status = "PENDING"
  BY <1>1, StatesSay DEF Untouched
<1>3. PICK d \in Deps(r, k) : States(r)[d].status # "SUCCESS"
  BY <1>2 DEF Ready
<1>. QED BY <1>1, <1>3, StatesSay

\* A run that was just gone through has a task to begin with.
LEMMA FreshReady ==
  ASSUME Undisturbed, TypeInv, NEW r \in Runs, Fresh(task, r), SkippedDone(task, r)
  PROVE  Ready(r, States(r), Selected(r)) # {}
<1>1. Selected(r) # {}
  BY SomeSelected
<1>2. PICK k \in Selected(r) : /\ Deps(r, k) \cap Selected(r) = {}
                               /\ \A d \in Deps(r, k) : d \in Selected(r) \/ d \in Skipped(r)
  BY <1>1, FirstOf
<1>3. k \in Tasks /\ Deps(r, k) \subseteq Tasks
  BY KeysAreTasks
<1>4. \A d \in Deps(r, k) : States(r)[d].status = "SUCCESS"
  BY <1>2, <1>3, StatesSay DEF SkippedDone
<1>5. States(r)[k].status = "PENDING"
  BY <1>3, StatesSay DEF Fresh, Untouched
<1>. QED BY <1>4, <1>5 DEF Ready

\* What the scheduler finds when it looks at the run: a task that is out, or
\* what it needs for a verdict.
LEMMA SyncSettles ==
  ASSUME Undisturbed, AttendInv, NEW s \in Schedulers, sched[s].pc = "sync",
         NEW r, r = sched[s].run, ~Busy(r), Stuck(task, r) \/ Failing(task, r)
  PROVE  \/ \A k \in Selected(r) : States(r)[k].status = "SUCCESS"
         \/ \E k \in Selected(r) : States(r)[k].status = "FAILED"
<1>0. TypeInv /\ TypeOK /\ r \in Runs
  BY AttendFacts, Locals DEF Top
<1>1. SkippedDone(task, r)
  BY AttendFacts DEF StartInv, StartOf, Past
<1>2. \A k \in Selected(r) : k \in Tasks
  BY <1>0, KeysAreTasks
<1>3. CASE Failing(task, r)
  BY <1>0, <1>2, <1>3, StatesSay DEF Failing
<1>4. CASE Stuck(task, r) /\ ~Failing(task, r)
  <2>. DEFINE K == {k \in Selected(r) : task[r][k].status # "SUCCESS"}
  <2>1. ASSUME NEW k \in K, Deps(r, k) \cap K = {},
               \A d \in Deps(r, k) : d \in Selected(r) \/ d \in Skipped(r)
        PROVE  FALSE
    <3>1. k \in Selected(r) /\ k \in Tasks /\ task[r][k].status # "SUCCESS"
      BY <1>2
    <3>2. \A d \in Deps(r, k) : task[r][d].status = "SUCCESS"
      BY <1>1, <2>1 DEF SkippedDone
    <3>3. ~Untouched(task, r, k)
      BY <1>4, <3>1, <3>2 DEF Stuck
    <3>4. task[r][k].status \notin {"RUNNING", "FAILED"}
      BY <1>4, <3>1 DEF Busy, Failing
    <3>5. ~HeldBy(r, k)
      BY DEF HeldBy, Holds, HoldingPoints, Undisturbed, OneScheduler
    <3>6. task[r][k].status \notin {"RETRY", "QUEUED"}
      BY <1>0, <3>1, <3>5 DEF AttendInv, Midway
    <3>7. task[r][k].status # "CANCELLED"
      <4>1. ASSUME CalledFor(r, k) PROVE FALSE
        BY <3>2, <4>1 DEF CalledFor, Final
      <4>. QED BY <1>0, <3>1, <4>1 DEF AttendInv
    <3>8. task[r][k].status \in TaskStatus \cup {"none"}
      BY <1>0, <3>1 DEF TypeOK, RowSet
    <3>. QED BY <3>1, <3>3, <3>4, <3>6, <3>7, <3>8 DEF Untouched, TaskStatus
  <2>2. K = {}
    BY <1>0, <2>1, FirstOf
  <2>3. \A k \in Selected(r) : task[r][k].status = "SUCCESS"
    BY <2>2
  <2>. QED BY <1>0, <1>2, <2>3, StatesSay
<1>. QED BY <1>3, <1>4

LEMMA AliveBack ==
  ASSUME Undisturbed, SlotsInv, [Next]_vars, NEW s \in Schedulers, sched[s].pc \notin Top,
         ~Before(sched[s]), NEW r, r = sched[s].run, Alive(r)'
  PROVE  Alive(r)
<1>1. r \in Runs /\ On(sched[s], r)
  BY Locals DEF On, SlotsInv, MarksInv, FlightInv, StartInv, OrderInv
<1>. QED BY <1>1, Revived DEF Undisturbed

\* With nobody cancelling, rows change where the scheduler writes them.
LEMMA CalmRow ==
  ASSUME Undisturbed, AttendInv, [Next]_vars, NEW r \in Runs, NEW k \in Tasks,
         \A s \in Schedulers : UpsertTask(s) => ~(sched[s].run = r /\ sched[s].task = k)
  PROVE  task'[r][k].status = task[r][k].status
<1>0. TypeInv /\ CalmInv /\ Calm
  BY AttendFacts DEF Undisturbed
<1>1. ~(\E s \in Schedulers : CancelRunTasks(s)) /\ ~(\E c \in Clients : CancelTasks(c))
  BY <1>0 DEF CalmInv, CancelRunTasks, CancelTasks
<1>. QED BY <1>0, <1>1, RowMoves

LEMMA CalmRows ==
  ASSUME Undisturbed, AttendInv, [Next]_vars, \A s \in Schedulers : ~UpsertTask(s)
  PROVE  \A r \in Runs, k \in Tasks : task'[r][k].status = task[r][k].status
BY CalmRow

\* What the scheduler writes, and over what.
LEMMA UpsertWrites ==
  ASSUME Undisturbed, AttendInv, NEW s \in Schedulers, UpsertTask(s)
  PROVE  LET l   == sched[s]
             cur == task[l.run][l.task].status
         IN  /\ l.run \in Runs /\ l.task \in Tasks
             /\ \/ l.cont = "initTasks" /\ cur = "none" /\ l.status = InitStatus(l, l.task)
                \/ l.cont = "push" /\ l.status = "RUNNING"
                     /\ cur \in (IF l.ret = "pick" THEN {"none", "PENDING"} ELSE {"RETRY"})
                \/ l.cont = "handle" /\ l.status \in {"SUCCESS", "FAILED"} /\ cur = "RUNNING"
                \/ l.cont = "sleep" /\ l.status = "RETRY" /\ cur = "FAILED"
                \/ l.cont = "syncCancel" /\ l.status = "CANCELLED" /\ cur \in {"none", "PENDING"}
             /\ task'[l.run][l.task].status = l.status
             /\ \A k \in Tasks : k # l.task => task'[l.run][k].status = task[l.run][k].status
             /\ \A q \in Runs, k \in Tasks : q # l.run => task'[q][k].status = task[q][k].status
<1>. DEFINE l == sched[s]
<1>0. TypeInv /\ Marked(task, l) /\ Asks(l) /\ StartOf(task, l) /\ Calm /\ ~External
  BY AttendFacts DEF Undisturbed, MarksInv, FlightInv, Flight, StartInv
<1>1. /\ l.pc = "taskUpdate" /\ Calling(l) /\ l.cont \in AfterTask
      /\ l.run \in Runs /\ l.task \in Tasks
      /\ \A r \in Runs, k \in Tasks :
           task'[r][k].status = IF r = l.run /\ k = l.task THEN l.status ELSE task[r][k].status
  BY <1>0, UpsertTaskFlow DEF Calling
<1>2. CASE l.cont = "initTasks"
  BY <1>0, <1>1, <1>2 DEF StartOf, Initialising, AtPoint
<1>3. CASE l.cont = "push"
  BY <1>0, <1>1, <1>3 DEF Marked, Asks, Says, Out, Dispatched
<1>4. CASE l.cont = "handle"
  BY <1>0, <1>1, <1>4 DEF Marked, Asks, Says, Out, AtPoint
<1>5. CASE l.cont = "sleep"
  BY <1>0, <1>1, <1>5 DEF Marked, Asks, Says, Out
<1>6. CASE l.cont = "syncCancel"
  BY <1>0, <1>1, <1>6 DEF Marked, Asks, Says, Out
<1>. QED BY <1>1, <1>2, <1>3, <1>4, <1>5, <1>6 DEF AfterTask

LEMMA CancelledStays ==
  ASSUME Undisturbed, AttendInv, [Next]_vars, NEW r \in Runs, NEW k \in Tasks,
         task[r][k].status = "CANCELLED"
  PROVE  task'[r][k].status = "CANCELLED"
<1>1. ASSUME NEW s \in Schedulers, UpsertTask(s) PROVE ~(sched[s].run = r /\ sched[s].task = k)
  BY <1>1, UpsertWrites
<1>. QED BY <1>1, CalmRow

LEMMA BusyStays ==
  ASSUME Undisturbed, AttendInv, [Next]_vars, NEW r \in Runs, Busy(r),
         \A s \in Schedulers : UpsertTask(s) /\ sched[s].cont = "handle" => sched[s].run # r
  PROVE  Busy(r)'
<1>1. PICK k \in Tasks : task[r][k].status = "RUNNING"
  BY DEF Busy
<1>2. ASSUME NEW s \in Schedulers, UpsertTask(s) PROVE ~(sched[s].run = r /\ sched[s].task = k)
  BY <1>1, <1>2, UpsertWrites
<1>3. task'[r][k].status = "RUNNING"
  BY <1>1, <1>2, CalmRow
<1>. QED BY <1>3 DEF Busy

LEMMA FreeStays ==
  ASSUME Undisturbed, SlotsInv, [Next]_vars, NEW r \in Runs, Free(r), \A s \in Schedulers : ~Gives(s)
  PROVE  Free(r)'
<1>1. Taken' \subseteq Taken
  <2>1. ASSUME NEW x \in Taken' PROVE x \in Taken
    <3>1. PICK q \in Runs, j \in Tasks : x = <<q, j>>
      BY TakenPairs
    <3>. QED BY <3>1, TakenMoves DEF Undisturbed
  <2>. QED BY <2>1
<1>2. IsFiniteSet(Taken') /\ Cardinality(Taken') <= Cardinality(Taken)
      /\ Cardinality(Taken) \in Nat /\ Cardinality(Taken') \in Nat
  BY <1>1, FS_Subset, FS_CardinalityType DEF SlotsInv
<1>3. RunningTasks' = Cardinality(Taken')
  BY DEF RunningTasks, Taken, Alive
<1>4. Cardinality(Taken) < MaxParallel[r] /\ MaxParallel[r] \in Nat
  BY TakenPairs, PlanAssumption DEF Free
<1>. QED BY <1>2, <1>3, <1>4 DEF Free

\* The scheduler that handles a success has freed the slot of the task.
LEMMA SlotFreed ==
  ASSUME Undisturbed, AttendInv, NEW s \in Schedulers, sched[s].pc = "handle", sched[s].status = "SUCCESS",
         NEW r, r = sched[s].run, Alive(r)
  PROVE  Free(r)
<1>. DEFINE k == sched[s].task
<1>0. TypeInv /\ r \in Runs /\ k \in Tasks
  BY AttendFacts, Locals DEF AtPoint, AfterTask
<1>1. task[r][k].status = "SUCCESS"
  BY AttendFacts DEF MarksInv, Marked, Says, Out, Undisturbed
<1>2. Room(r, k)
  <2>1. SlotsInv /\ AtPoint(sched[s], HoldingPoints)
    BY AttendFacts DEF AtPoint, HoldingPoints
  <2>. QED BY <1>1, <2>1 DEF SlotsInv, Reserved
<1>3. Taken \ {<<r, k>>} = Taken
  BY <1>1 DEF Taken, SlotStatus, Dispatched
<1>4. PICK q \in Runs : Cardinality(Taken) < MaxParallel[q]
  BY <1>2, <1>3 DEF Room
<1>5. MaxParallel[q] = MaxParallel[r]
  BY <1>0 DEF Undisturbed
<1>. QED BY <1>4, <1>5, TakenPairs DEF Free

LEMMA MidwayNext ==
  ASSUME Undisturbed, AttendInv, [Next]_vars
  PROVE  Midway'
<1>0. MarksInv /\ MarksInv' /\ TypeInv
  BY AttendFacts, MarksNext DEF Undisturbed
<1>1. ASSUME NEW r \in Runs, NEW k \in Tasks, task'[r][k].status \in {"RETRY", "QUEUED"}
      PROVE  task'[r][k].status = "RETRY" /\ (Msg(r, k)' \/ HeldBy(r, k)')
  <2>1. CASE task'[r][k].status = task[r][k].status
    <3>1. task[r][k].status = "RETRY" /\ HeldBy(r, k)
      BY <1>1, <2>1 DEF AttendInv, Midway
    <3>2. Away(r, k) /\ ~Says(task, r, k, {"SUCCESS"}) /\ ~Says(task, r, k, {"FAILED"})
          /\ ~Says(task, r, k, {"QUEUED"})
      BY <3>1 DEF Away, Says, Out, Undisturbed
    <3>3. Away(r, k)'
      BY <1>0, <3>2, AwayKept DEF Undisturbed
    <3>4. Away(r, k)' <=> Msg(r, k)' \/ HeldBy(r, k)'
      BY DEF Away
    <3>. QED BY <2>1, <3>1, <3>3, <3>4
  <2>2. CASE task'[r][k].status # task[r][k].status
    <3>1. PICK s \in Schedulers : UpsertTask(s) /\ sched[s].run = r /\ sched[s].task = k
      BY <2>2, CalmRow
    <3>2. sched[s].status = "RETRY" /\ sched[s].cont = "sleep" /\ task'[r][k].status = "RETRY"
      BY <1>1, <3>1, UpsertWrites DEF InitStatus
    <3>3. Moved(sched[s], sched'[s], "sleep")
      BY <1>0, <3>1, <3>2, UpsertTaskFlow
    <3>4. Holds(sched'[s], r, k)
      BY <3>1, <3>3 DEF Moved, Holds, HoldingPoints
    <3>5. HeldBy(r, k)' <=> \E v \in Schedulers : Holds(sched'[v], r, k)
      BY DEF HeldBy, Holds
    <3>. QED BY <3>2, <3>4, <3>5
  <2>. QED BY <2>1, <2>2
<1>2. \A r \in Runs, k \in Tasks : Msg(r, k)' => task'[r][k].status = "RUNNING"
  <2>1. \A r \in Runs, k \in Tasks : Says(task, r, k, {"RUNNING"})' => task'[r][k].status = "RUNNING"
    BY DEF Says, Out, Undisturbed
  <2>. QED BY <1>0, <2>1 DEF MarksInv
<1>3. Midway' <=> \A r \in Runs, k \in Tasks :
        task'[r][k].status \in {"RETRY", "QUEUED"} => task'[r][k].status = "RETRY" /\ HeldBy(r, k)'
  BY DEF Midway
<1>. QED BY <1>1, <1>2, <1>3

LEMMA CalledForStays ==
  ASSUME Undisturbed, AttendInv, [Next]_vars, NEW r \in Runs, NEW k \in Selected(r), CalledFor(r, k)
  PROVE  CalledFor(r, k)'
<1>1. PICK d \in Deps(r, k) : Final(r, d) \/ task[r][d].status = "CANCELLED"
  BY DEF CalledFor
<1>2. d \in Tasks
  BY KeysAreTasks
<1>3. Final(r, d) => Final(r, d)'
  BY <1>2, FinalStays, AttendFacts DEF Undisturbed
<1>4. task[r][d].status = "CANCELLED" => task'[r][d].status = "CANCELLED"
  BY <1>2, CancelledStays
<1>. QED BY <1>1, <1>3, <1>4 DEF CalledFor

\* At the time of a look at the run a failure is final.
LEMMA FailedIsFinal ==
  ASSUME Undisturbed, AttendInv, NEW s \in Schedulers, sched[s].pc = "sync",
         NEW r \in Runs, NEW d \in Tasks, task[r][d].status = "FAILED"
  PROVE  Final(r, d)
<1>1. ~Msg(r, d)
  BY AttendFacts DEF MarksInv, Says, Out, Undisturbed
<1>2. ~HeldBy(r, d)
  BY DEF HeldBy, Holds, HoldingPoints, Undisturbed, OneScheduler
<1>. QED BY <1>1, <1>2 DEF Final, Spare

LEMMA CausesNext ==
  ASSUME Undisturbed, AttendInv, [Next]_vars
  PROVE  Causes'
<1>0. TypeInv /\ OneScheduler
  BY AttendFacts DEF Undisturbed
<1>1. ASSUME NEW s \in Schedulers, NEW r \in Runs, NEW k \in Selected(r),
             AtPoint(sched'[s], {"syncCancel"}), sched'[s].run = r, CalledOff(sched'[s], k)
      PROVE  CalledFor(r, k)
  <2>1. CASE UNCHANGED sched
    BY <1>0, <1>1, <2>1, Locals DEF AttendInv, Causes, AtPoint, Calling, Top
  <2>2. CASE SchedulerStep(s)
    <3>1. CASE AtPoint(sched[s], {"syncCancel"}) /\ sched'[s].run = sched[s].run /\ CalledOff(sched[s], k)
      BY <1>0, <1>1, <3>1, Locals DEF AttendInv, Causes, AtPoint, Calling, Top
    <3>2. CASE SyncRead(s)
      <4>1. /\ sched[s].pc = "sync" /\ sched[s].run = r /\ ~Calling(sched'[s])
            /\ sched'[s].todo = Unreachable(r, States(r))
        BY <1>0, <1>1, <3>2, SyncFlow DEF Calling
      <4>2. PICK d \in Deps(r, k) : States(r)[d].status \in {"FAILED", "CANCELLED"}
        BY <1>1, <4>1 DEF CalledOff, Unreachable
      <4>3. d \in Tasks
        BY <1>1, <4>1, KeysAreTasks
      <4>4. task[r][d].status \in {"FAILED", "CANCELLED"}
        BY <1>0, <4>1, <4>2, <4>3, StatesTell
      <4>. QED BY <4>1, <4>3, <4>4, FailedIsFinal DEF CalledFor
    <3>. QED BY <1>0, <1>1, <2>2, <3>1, <3>2, SyncFrom
  <2>3. CASE sched'[s] = AtTop("pollRuns")
    BY <1>1, <2>3 DEF AtTop, AtPoint, Calling
  <2>. QED BY <1>0, <2>1, <2>2, <2>3, WhoActs
<1>2. ASSUME NEW s \in Schedulers, NEW r \in Runs, NEW k \in Selected(r),
             AtPoint(sched[s], {"syncCancel"})', sched'[s].run = r, CalledOff(sched[s], k)'
      PROVE  CalledFor(r, k)'
  <2>1. AtPoint(sched'[s], {"syncCancel"}) /\ CalledOff(sched'[s], k)
    BY <1>2 DEF AtPoint, Calling, CalledOff
  <2>. QED BY <1>1, <1>2, <2>1, CalledForStays
<1>. QED BY <1>2 DEF Causes

LEMMA CancelsNext ==
  ASSUME Undisturbed, AttendInv, [Next]_vars, NEW r \in Runs, NEW k \in Selected(r),
         task'[r][k].status = "CANCELLED"
  PROVE  CalledFor(r, k)'
<1>1. k \in Tasks
  BY KeysAreTasks
<1>2. CalledFor(r, k)
  <2>1. CASE task[r][k].status = "CANCELLED"
    BY <2>1 DEF AttendInv
  <2>2. CASE task[r][k].status # "CANCELLED"
    <3>1. PICK s \in Schedulers : UpsertTask(s) /\ sched[s].run = r /\ sched[s].task = k
      BY <1>1, <2>2, CalmRow
    <3>2. sched[s].cont = "syncCancel"
      BY <3>1, UpsertWrites DEF InitStatus
    <3>3. AtPoint(sched[s], {"syncCancel"}) /\ CalledOff(sched[s], k)
      BY <3>1, <3>2 DEF UpsertTask, AtPoint, Calling, CalledOff
    <3>. QED BY <3>1, <3>3 DEF AttendInv, Causes
  <2>. QED BY <2>1, <2>2
<1>. QED BY <1>2, CalledForStays

LEMMA WhoSteps ==
  ASSUME Undisturbed, TypeInv, [Next]_vars, NEW s \in Schedulers
  PROVE  UNCHANGED sched \/ SchedulerStep(s)
<1>1. \A v \in Schedulers : ~SchedulerCrash(v)
  BY NobodyCrashes DEF Undisturbed
<1>2. CASE \E v \in Schedulers : SchedulerStep(v) \/ SchedulerCrash(v)
  BY <1>1, <1>2 DEF Undisturbed, OneScheduler
<1>3. CASE \E e \in Executors : ExecutorStep(e) \/ ExecutorCrash(e)
  BY <1>3 DEF ExecutorStep, ExecutorCrash, TakeTask, FinishTask
<1>4. CASE \E c \in Clients : ClientCall(c) \/ ClientStep(c) \/ ClientCrash(c)
  BY <1>4 DEF ClientCall, ClientStep, ClientCrash, CreateRun, CancelRun, ReplayDlq, SetRunStatus,
     PublishRun, CancelTasks, ListDlq, RequeueItem, RemoveItem
<1>5. CASE UNCHANGED vars
  BY <1>5 DEF vars
<1>. QED BY <1>2, <1>3, <1>4, <1>5 DEF Next

\* Unless the scheduler is writing a row: the rows stay, and what is free or
\* busy remains so.
LEMMA NothingWritten ==
  ASSUME Undisturbed, AttendInv, [Next]_vars, \A v \in Schedulers : ~UpsertTask(v)
  PROVE  /\ \A r \in Runs, k \in Tasks : task'[r][k].status = task[r][k].status
         /\ \A r \in Runs : Free(r) => Free(r)'
         /\ \A r \in Runs : Busy(r) => Busy(r)'
<1>1. \A v \in Schedulers : ~Gives(v)
  BY DEF Gives
<1>2. ASSUME NEW r \in Runs, Free(r) PROVE Free(r)'
  BY <1>1, <1>2, FreeStays, AttendFacts
<1>3. ASSUME NEW r \in Runs, Busy(r) PROVE Busy(r)'
  BY <1>3, BusyStays
<1>. QED BY <1>2, <1>3, CalmRows

LEMMA SlotFree ==
  ASSUME NEW r \in Runs, ~SlotsFull(r), IsFiniteSet(Taken)
  PROVE  Free(r)
<1>1. Cardinality(Taken) \in Nat /\ RunningTasks = Cardinality(Taken) /\ MaxParallel[r] \in Nat
  BY TakenPairs, FS_CardinalityType, PlanAssumption
<1>. QED BY <1>1 DEF SlotsFull, Free

LEMMA NoWriter ==
  ASSUME Undisturbed, TypeInv, NEW s \in Schedulers, UNCHANGED sched \/ sched[s].pc # "taskUpdate"
  PROVE  \A v \in Schedulers : ~UpsertTask(v)
<1>1. ASSUME NEW v \in Schedulers, UpsertTask(v) PROVE FALSE
  <2>1. v = s
    BY DEF Undisturbed, OneScheduler
  <2>2. sched[v].pc = "taskUpdate" /\ sched'[v].pc \in AfterTask
    BY <1>1, UpsertTaskFlow DEF Moved
  <2>. QED BY <2>1, <2>2 DEF AfterTask
<1>. QED BY <1>1

LEMMA BoundStep ==
  ASSUME Undisturbed, AttendInv, NEW s \in Schedulers, SchedulerStep(s)
  PROVE  Bound(sched'[s])
<1>. DEFINE l == sched[s]
            m == sched'[s]
<1>0. TypeInv /\ Bound(l)
  BY AttendFacts DEF AttendInv
<1>. SUFFICES /\ AtPoint(m, {"handle"}) => m.after = "sync"
              /\ m.pc \in {"runSelect", "runUpdate"} =>
                   m.status \in (IF m.cont = "load" THEN {"RUNNING"} ELSE {"SUCCESS", "FAILED"})
  BY DEF Bound
<1>1. CASE PopRun(s) \/ LoadPlan(s)
  BY <1>0, <1>1, PopRunFlow, LoadPlanFlow DEF AtPoint, Calling, Top
<1>2. CASE AdmitRun(s)
  BY <1>0, <1>2, AdmitRunFlow DEF AtPoint, Calling, Top, WithdrawsAll, AskedRun
<1>3. CASE CancelRunTasks(s)
  BY <1>0, <1>3, CancelRunTasksFlow DEF AtPoint, Calling, Top, Went, Moved, AfterAll
<1>4. CASE SelectRunStatus(s) \/ UpdateRunStatus(s)
  BY <1>0, <1>4, RunStatusFlow DEF AtPoint, Calling, Top, Went, Moved, AfterRun, Bound
<1>5. CASE SelectTaskStatus(s)
  BY <1>0, <1>5, SelectTaskStatusFlow DEF AtPoint, Calling, Moved, AfterTask, Bound
<1>6. CASE UpsertTask(s)
  BY <1>0, <1>6, UpsertTaskFlow DEF AtPoint, Calling, Moved, AfterTask, Bound
<1>7. CASE InitTask(s) \/ FinishInit(s)
  BY <1>0, <1>7, InitTaskFlow, FinishInitFlow DEF AtPoint, Calling, Asked, AskedRun
<1>8. CASE ReadStates(s) \/ PickReady(s)
  BY <1>0, <1>8, ReadStatesFlow, PickReadyFlow
  DEF AtPoint, Calling, Asked, WithdrawsAll, Went, Moved, Top, AfterAll
<1>9. CASE PushTask(s)
  BY <1>0, <1>9, PushTaskFlow DEF AtPoint, Calling, Went, Moved, Top
<1>10. CASE PopDone(s)
  <2>1. m.pc \in Top \/ m.after = "sync"
    <3>1. CASE doneQ = <<>>
      BY <1>0, <1>10, <3>1, Locals DEF PopDone, Restart, AtTop, Top
    <3>2. CASE doneQ # <<>>
      <4>. DEFINE h == Head(doneQ)
      <4>1. m = [Upsert(s, h.task, h.status, h.attempt, "handle") EXCEPT !.run = h.run, !.after = "sync"]
        BY <1>0, <1>10, <3>2, Locals DEF PopDone
      <4>. HIDE DEF h
      <4>. QED BY <1>0, <4>1, Locals DEF Upsert, Local
    <3>. QED BY <3>1, <3>2
  <2>. QED BY <1>0, <1>10, <2>1, PopDoneFlow DEF AtPoint, Calling, Top
<1>11. CASE HandleSuccess(s) \/ HandleRetry(s) \/ WakeUp(s) \/ HandleDead(s)
  BY <1>0, <1>11, HandleFlow DEF AtPoint, Calling, Asked, WithdrawsAll, Moved
<1>12. CASE SyncRead(s) \/ SyncCancel(s) \/ SyncVerdict(s)
  BY <1>0, <1>12, SyncFlow DEF AtPoint, Calling, Asked, AskedRun, Top
<1>. QED BY <1>1, <1>2, <1>3, <1>4, <1>5, <1>6, <1>7, <1>8, <1>9, <1>10, <1>11, <1>12 DEF SchedulerStep

LEMMA BoundNext ==
  ASSUME Undisturbed, AttendInv, [Next]_vars, NEW s \in Schedulers
  PROVE  Bound(sched[s])'
<1>1. Bound(sched'[s])
  BY WhoSteps, BoundStep, AttendFacts DEF AttendInv
<1>. QED BY <1>1 DEF Bound, AtPoint, Calling

\* Where a run is being started.
Opening(l) == (Before(l) /\ l.pc # "admit") \/ AtPoint(l, {"initTasks"})
Opened(l)  == AtPoint(l, {"initTasks"}) \/ (l.pc = "ready" /\ l.after # "sync")

\* How the scheduler comes to start a run.
LEMMA OpeningFrom ==
  ASSUME Undisturbed, AttendInv, NEW s \in Schedulers, SchedulerStep(s)
  PROVE  LET l == sched[s]
             m == sched'[s]
         IN  /\ Opening(m) => /\ m.run = l.run /\ l.pc \notin Top
                              /\ \/ Opening(l)
                                 \/ l.pc = "admit" /\ ~SlotsFull(l.run)
                              /\ UpsertTask(s) => l.cont = "initTasks"
             /\ Opened(m) => /\ m.run = l.run /\ l.pc \notin Top
                             /\ \/ AtPoint(l, {"initTasks"})
                                \/ l.pc = "load"
                             /\ UpsertTask(s) => l.cont = "initTasks"
<1>. DEFINE l == sched[s]
            m == sched'[s]
<1>0. TypeInv /\ Bound(l)
  BY AttendFacts DEF AttendInv
<1>1. CASE PopRun(s) \/ LoadPlan(s)
  BY <1>0, <1>1, PopRunFlow, LoadPlanFlow DEF AtPoint, Calling, Top, Opening, Opened, Before, UpsertTask
<1>2. CASE AdmitRun(s)
  <2>1. m.pc = "runSelect" => ~SlotsFull(l.run)
    <3>1. CASE SlotsFull(l.run)
      BY <1>0, <1>2, <3>1, Locals, RunTransitionAsks DEF AdmitRun, Restart, AtTop, WithdrawsAll
    <3>. QED BY <3>1
  <2>. QED BY <1>0, <1>2, <2>1, AdmitRunFlow
           DEF AtPoint, Calling, Top, WithdrawsAll, AskedRun, Opening, Opened, Before, UpsertTask
<1>3. CASE CancelRunTasks(s)
  BY <1>0, <1>3, CancelRunTasksFlow DEF AtPoint, Calling, Top, Went, Moved, AfterAll, Opening, Opened, Before
<1>4. CASE SelectRunStatus(s) \/ UpdateRunStatus(s)
  BY <1>0, <1>4, RunStatusFlow
  DEF AtPoint, Calling, Top, Went, Moved, AfterRun, Opening, Opened, Before, UpsertTask
<1>5. CASE SelectTaskStatus(s)
  BY <1>0, <1>5, SelectTaskStatusFlow
  DEF AtPoint, Calling, Moved, AfterTask, Opening, Opened, Before, UpsertTask, Top
<1>6. CASE UpsertTask(s)
  BY <1>0, <1>6, UpsertTaskFlow DEF AtPoint, Calling, Moved, AfterTask, Opening, Opened, Before, Top
<1>7. CASE InitTask(s) \/ FinishInit(s)
  BY <1>0, <1>7, InitTaskFlow, FinishInitFlow
  DEF AtPoint, Calling, Asked, AskedRun, Opening, Opened, Before, UpsertTask, Top
<1>8. CASE ReadStates(s) \/ PickReady(s)
  BY <1>0, <1>8, ReadStatesFlow, PickReadyFlow
  DEF AtPoint, Calling, Asked, WithdrawsAll, Went, Moved, Top, AfterAll, Opening, Opened, Before
<1>9. CASE PushTask(s)
  BY <1>0, <1>9, PushTaskFlow DEF AtPoint, Calling, Went, Moved, Top, Opening, Opened, Before
<1>10. CASE PopDone(s)
  BY <1>0, <1>10, PopDoneFlow DEF AtPoint, Calling, Top, Opening, Opened, Before
<1>11. CASE HandleSuccess(s) \/ HandleRetry(s) \/ WakeUp(s) \/ HandleDead(s)
  BY <1>0, <1>11, HandleFlow DEF AtPoint, Calling, Asked, WithdrawsAll, Moved, Opening, Opened, Before, Bound
<1>12. CASE SyncRead(s) \/ SyncCancel(s) \/ SyncVerdict(s)
  BY <1>0, <1>12, SyncFlow DEF AtPoint, Calling, Asked, AskedRun, Top, Opening, Opened, Before
<1>. QED BY <1>1, <1>2, <1>3, <1>4, <1>5, <1>6, <1>7, <1>8, <1>9, <1>10, <1>11, <1>12 DEF SchedulerStep

LEMMA OpensNext ==
  ASSUME Undisturbed, AttendInv, [Next]_vars, NEW s \in Schedulers
  PROVE  Opens(task, sched[s])'
<1>. DEFINE l == sched[s]
            m == sched'[s]
<1>0. TypeInv /\ StartInv /\ Opens(task, l) /\ OneScheduler
  BY AttendFacts DEF AttendInv, Undisturbed
<1>1. Opens(task, l) <=> /\ Opening(l) => Free(l.run)
                         /\ Opened(l) => Fresh(task, l.run)
  BY DEF Opens, Opening, Opened
<1>2. ASSUME Opening(m) PROVE (RunningTasks' < MaxParallel[m.run])
  <2>1. m.run = l.run /\ l.run \in Runs /\ Free(l.run) /\ \A v \in Schedulers : ~Gives(v)
    <3>1. CASE UNCHANGED sched
      BY <1>0, <1>1, <1>2, <3>1, Locals, NoWriter
      DEF Opening, Before, AtPoint, Calling, Top, Gives
    <3>2. CASE SchedulerStep(s)
      <4>1. m.run = l.run /\ l.run \in Runs /\ (UpsertTask(s) => l.cont = "initTasks")
        BY <1>0, <1>2, <3>2, OpeningFrom, Locals
      <4>2. ~SlotsFull(l.run) => Free(l.run)
        BY <4>1, SlotFree DEF AttendInv, SlotsInv
      <4>3. Free(l.run)
        BY <1>0, <1>1, <1>2, <3>2, <4>2, OpeningFrom
      <4>. QED BY <1>0, <4>1, <4>3 DEF Gives, OneScheduler
    <3>. QED BY <1>0, <3>1, <3>2, WhoSteps
  <2>2. ASSUME NEW r \in Runs, r = l.run PROVE Free(r)'
    BY <2>1, <2>2, FreeStays, AttendFacts
  <2>. QED BY <2>1, <2>2 DEF Free
<1>3. ASSUME Opened(m) PROVE Fresh(task', m.run)
  <2>1. CASE UNCHANGED sched
    <3>1. Fresh(task, l.run) /\ m = l
      BY <1>0, <1>1, <1>3, <2>1
    <3>2. l.run \in Runs
      BY <1>0, <1>3, <3>1, Locals DEF Opened, AtPoint, Calling, Top
    <3>3. \A k \in Selected(l.run) : k \in Tasks
      BY <3>2, KeysAreTasks
    <3>. QED BY <1>0, <2>1, <3>1, <3>2, <3>3, NothingWritten, NoWriter DEF Fresh, Untouched
  <2>2. CASE SchedulerStep(s)
    <3>1. m.run = l.run /\ l.run \in Runs /\ (UpsertTask(s) => l.cont = "initTasks")
          /\ l.pc \notin Top
      BY <1>0, <1>3, <2>2, OpeningFrom, Locals
    <3>2. \A k \in Selected(l.run) : k \in Tasks
      BY <3>1, KeysAreTasks
    <3>3. Fresh(task, l.run)
      <4>1. CASE AtPoint(l, {"initTasks"})
        BY <1>0, <1>1, <4>1 DEF Opened
      <4>2. CASE l.pc = "load"
        <5>1. Unstarted(l.run)
          BY <3>1, <4>2 DEF Unstarted, On, Before
        <5>. QED BY <1>0, <3>1, <3>2, <5>1, UnstartedIdle DEF Pristine, Fresh, Untouched
      <4>. QED BY <1>3, <2>2, <4>1, <4>2, OpeningFrom
    <3>4. CASE UpsertTask(s)
      <4>1. /\ task'[l.run][l.task].status = InitStatus(l, l.task)
            /\ \A k \in Tasks : k # l.task => task'[l.run][k].status = task[l.run][k].status
        BY <3>1, <3>4, UpsertWrites
      <4>. QED BY <3>1, <3>2, <3>3, <4>1 DEF Fresh, Untouched, InitStatus
    <3>5. CASE ~UpsertTask(s)
      <4>1. \A v \in Schedulers : ~UpsertTask(v)
        BY <1>0, <3>5 DEF OneScheduler
      <4>. QED BY <3>1, <3>2, <3>3, <4>1, NothingWritten DEF Fresh, Untouched
    <3>. QED BY <3>4, <3>5
  <2>. QED BY <1>0, <2>1, <2>2, WhoSteps
<1>4. Opens(task, sched[s])' <=> /\ Opening(m) => (RunningTasks' < MaxParallel[m.run])
                                 /\ Opened(m) => Fresh(task', m.run)
  BY DEF Opens, Opening, Opened, Before, AtPoint, Calling, Fresh, Untouched, Free
<1>. QED BY <1>2, <1>3, <1>4

\* The loop over the ready tasks ends when there are none left, or no slots.
LEMMA PickExit ==
  ASSUME TypeInv, NEW s \in Schedulers, PickReady(s)
  PROVE  \/ sched'[s].pc = "taskSelect" /\ sched'[s].cont = "push"
         \/ /\ Ready(sched[s].run, sched[s].snap, sched[s].todo) = {} \/ SlotsFull(sched[s].run)
            /\ Went(sched[s], sched'[s], sched[s].after)
<1>1. CASE Ready(sched[s].run, sched[s].snap, sched[s].todo) = {} \/ SlotsFull(sched[s].run)
  BY <1>1, PickReadyFlow, Locals DEF Asked
<1>2. CASE ~(Ready(sched[s].run, sched[s].snap, sched[s].todo) = {} \/ SlotsFull(sched[s].run))
  <2>. DEFINE l == sched[s]
              next(k) == [Upsert(s, k, Dispatched, l.snap[k].attempt, "push")
                            EXCEPT !.todo = {j \in l.todo : j > k}, !.ret = "pick"]
  <2>1. PICK k \in Ready(sched[s].run, sched[s].snap, sched[s].todo) :
          sched' = [sched EXCEPT ![s] = next(k)]
    BY <1>2 DEF PickReady
  <2>2. sched'[s] = next(k)
    BY <2>1, Locals
  <2>. QED BY <2>2, Locals DEF Upsert, Local
<1>. QED BY <1>1, <1>2

\* The look at a run goes on with the states it read.
LEMMA SnapKept ==
  ASSUME TypeInv, NEW s \in Schedulers, SchedulerStep(s), ~SyncRead(s), AtPoint(sched'[s], {"syncCancel"})
  PROVE  /\ AtPoint(sched[s], {"syncCancel"})
         /\ sched'[s].run = sched[s].run /\ sched'[s].snap = sched[s].snap
<1>1. AtPoint(sched[s], {"syncCancel"})
  BY SyncFrom
<1>2. \/ SelectTaskStatus(s) \/ UpsertTask(s) \/ SyncCancel(s) \/ SyncVerdict(s)
  BY <1>1 DEF SchedulerStep, AtPoint, Calling, PopRun, AdmitRun, CancelRunTasks, SelectRunStatus,
     UpdateRunStatus, LoadPlan, InitTask, FinishInit, ReadStates, PickReady, PushTask, PopDone,
     HandleSuccess, HandleRetry, WakeUp, HandleDead
<1>3. CASE SelectTaskStatus(s) \/ UpsertTask(s)
  BY <1>1, <1>3, SelectTaskStatusFlow, UpsertTaskFlow DEF Moved
<1>4. CASE SyncCancel(s) \/ SyncVerdict(s)
  BY <1>1, <1>4, SyncFlow DEF Asked, AskedRun, AtPoint, Calling, Top
<1>. QED BY <1>1, <1>2, <1>3, <1>4

\* How the scheduler gets where it knows something of its run.
LEMMA PursuitFrom ==
  ASSUME TypeInv, CalmInv, Calm, NEW s \in Schedulers, SchedulerStep(s)
  PROVE  LET l == sched[s]
             m == sched'[s]
         IN  /\ m.pc = "ready" => FinishInit(s) \/ HandleSuccess(s)
             /\ m.pc = "pick" => ReadStates(s) \/ (PushTask(s) /\ l.ret = "pick")
             /\ m.pc = "sync" => PickReady(s) \/ HandleDead(s)
<1>. DEFINE l == sched[s]
            m == sched'[s]
<1>1. CASE PopRun(s) \/ LoadPlan(s) \/ AdmitRun(s)
  BY <1>1, PopRunFlow, LoadPlanFlow, AdmitRunFlow DEF Top, WithdrawsAll, AskedRun
<1>2. CASE CancelRunTasks(s)
  BY <1>2 DEF CalmInv, CancelRunTasks
<1>3. CASE SelectRunStatus(s) \/ UpdateRunStatus(s)
  BY <1>3, RunStatusFlow DEF Top, Went, Moved, AfterRun
<1>4. CASE SelectTaskStatus(s) \/ UpsertTask(s)
  BY <1>4, SelectTaskStatusFlow, UpsertTaskFlow DEF Moved, AfterTask
<1>5. CASE InitTask(s) \/ FinishInit(s)
  BY <1>5, InitTaskFlow, FinishInitFlow DEF Asked, AskedRun
<1>6. CASE ReadStates(s)
  BY <1>6, ReadStatesFlow DEF WithdrawsAll
<1>7. CASE PickReady(s)
  BY <1>7, PickReadyFlow DEF Asked, Went, Moved, Top, AfterAll
<1>8. CASE PushTask(s)
  BY <1>8, PushTaskFlow DEF Went, Moved, Top
<1>9. CASE PopDone(s)
  BY <1>9, PopDoneFlow DEF Top
<1>10. CASE HandleSuccess(s) \/ HandleRetry(s) \/ WakeUp(s) \/ HandleDead(s)
  BY <1>10, HandleFlow DEF Asked, WithdrawsAll, Moved
<1>11. CASE SyncRead(s) \/ SyncCancel(s) \/ SyncVerdict(s)
  BY <1>11, SyncFlow DEF Asked, AskedRun, Top
<1>. QED BY <1>1, <1>2, <1>3, <1>4, <1>5, <1>6, <1>7, <1>8, <1>9, <1>10, <1>11 DEF SchedulerStep

LEMMA ReadyStep ==
  ASSUME Undisturbed, AttendInv, [Next]_vars, NEW s \in Schedulers, SchedulerStep(s),
         sched'[s].pc = "ready", NEW r \in Runs, r = sched'[s].run, Alive(r)'
  PROVE  Free(r)'
<1>. DEFINE l == sched[s]
            m == sched'[s]
<1>0. TypeInv /\ CalmInv /\ Calm /\ SlotsInv
  BY AttendFacts DEF Undisturbed
<1>1. Free(r) /\ l.pc # "taskUpdate"
  <2>1. CASE FinishInit(s)
    <3>1. l.pc = "initTasks" /\ l.run = r
      BY <1>0, <2>1, FinishInitFlow DEF AskedRun
    <3>. QED BY <3>1 DEF AttendInv, Opens, AtPoint
  <2>2. CASE HandleSuccess(s)
    <3>1. l.pc = "handle" /\ l.status = "SUCCESS" /\ l.run = r
      BY <1>0, <2>2, HandleFlow DEF WithdrawsAll, Moved
    <3>2. Alive(r)
      BY <1>0, <3>1, AliveBack DEF Top, Before
    <3>. QED BY <3>1, <3>2, SlotFreed
  <2>. QED BY <1>0, <2>1, <2>2, PursuitFrom
<1>. QED BY <1>0, <1>1, NoWriter, NothingWritten

LEMMA PickStep ==
  ASSUME Undisturbed, AttendInv, [Next]_vars, NEW s \in Schedulers, SchedulerStep(s),
         sched'[s].pc = "pick", NEW r \in Runs, r = sched'[s].run, Alive(r)'
  PROVE  \/ Busy(r)'
         \/ /\ sched'[s].todo = Selected(r) /\ Free(r)'
            /\ Ready(r, sched'[s].snap, sched'[s].todo) = {} =>
                 sched'[s].after = "sync" /\ Stuck(task', r)
<1>. DEFINE l == sched[s]
            m == sched'[s]
<1>0. TypeInv /\ CalmInv /\ Calm /\ SlotsInv /\ StartInv /\ MarksInv /\ Pursues(task, l) /\ Opens(task, l)
      /\ l \in Local
  BY AttendFacts, Locals DEF Undisturbed, AttendInv
<1>1. CASE ReadStates(s)
  <2>1. /\ l.pc = "ready" /\ l.run = r /\ m.snap = States(r) /\ m.todo = Selected(r)
        /\ UNCHANGED task
    BY <1>0, <1>1, ReadStatesFlow DEF WithdrawsAll, ReadStates, rows
  <2>2. m.after = l.after
    <3>1. runStatus[l.run] # "CANCELLED"
      BY <1>0, <2>1 DEF CalmInv
    <3>. QED BY <1>0, <1>1, <3>1, Locals DEF ReadStates, Local
  <2>3. Free(r)
    <3>1. Alive(r)
      BY <1>0, <2>1, AliveBack DEF Top, Before
    <3>. QED BY <1>0, <2>1, <3>1 DEF Pursues, Top
  <2>4. Free(r)'
    BY <1>0, <2>1, <2>3, NoWriter, NothingWritten
  <2>5. ASSUME Ready(r, States(r), Selected(r)) = {} PROVE l.after = "sync" /\ Stuck(task, r)
    <3>1. Stuck(task, r)
      BY <1>0, <2>5, NoneReady
    <3>2. ASSUME l.after # "sync" PROVE FALSE
      <4>1. Fresh(task, r)
        BY <1>0, <2>1, <3>2 DEF Opens
      <4>2. SkippedDone(task, r)
        BY <1>0, <2>1 DEF StartInv, StartOf, Past
      <4>. QED BY <1>0, <2>5, <4>1, <4>2, FreshReady
    <3>. QED BY <3>1, <3>2
  <2>. QED BY <2>1, <2>2, <2>4, <2>5
<1>2. CASE PushTask(s) /\ l.ret = "pick"
  <2>1. l.pc = "push" /\ l.run = r /\ l.task \in Tasks /\ UNCHANGED task
    BY <1>0, <1>2, PushTaskFlow, PushSends DEF Went, Moved, Top
  <2>2. task[r][l.task].status = "RUNNING"
    BY <1>0, <2>1 DEF MarksInv, Marked, Says, Out, Dispatched, Undisturbed
  <2>3. task'[r][l.task].status = "RUNNING"
    BY <2>1, <2>2
  <2>4. Busy(r)'
    BY <2>1, <2>3 DEF Busy
  <2>. QED BY <2>4
<1>. QED BY <1>0, <1>1, <1>2, PursuitFrom

LEMMA SyncStep ==
  ASSUME Undisturbed, AttendInv, [Next]_vars, NEW s \in Schedulers, SchedulerStep(s),
         sched'[s].pc = "sync", NEW r \in Runs, r = sched'[s].run, Alive(r)'
  PROVE  Busy(r)' \/ Stuck(task', r) \/ Failing(task', r)
<1>. DEFINE l == sched[s]
            m == sched'[s]
<1>0. TypeInv /\ CalmInv /\ Calm /\ SlotsInv /\ StartInv /\ MarksInv /\ Pursues(task, l) /\ OrderInv
  BY AttendFacts DEF Undisturbed, AttendInv
<1>1. CASE PickReady(s)
  <2>1. l.pc = "pick" /\ l.run = r /\ UNCHANGED task
        /\ (Ready(r, l.snap, l.todo) = {} \/ SlotsFull(r))
    BY <1>0, <1>1, PickExit DEF Went, Moved, Top, PickReady, rows
  <2>2. Busy(r) \/ Unpicked(task, l)
    <3>1. Alive(r)
      BY <1>0, <2>1, AliveBack DEF Top, Before
    <3>. QED BY <1>0, <2>1, <3>1 DEF Pursues, Top
  <2>3. Busy(r) => Busy(r)'
    BY <1>0, <2>1, NoWriter, NothingWritten
  <2>4. Unpicked(task, l) => Stuck(task, r)
    <3>1. Free(r) => ~SlotsFull(r)
      <4>1. RunningTasks \in Nat /\ MaxParallel[r] \in Nat
        BY <1>0, TakenPairs, FS_CardinalityType, PlanAssumption DEF SlotsInv
      <4>. QED BY <4>1 DEF Free, SlotsFull
    <3>. QED BY <2>1, <3>1 DEF Unpicked
  <2>. QED BY <2>1, <2>2, <2>3, <2>4
<1>2. CASE HandleDead(s)
  <2>1. l.pc = "handle" /\ l.status = "FAILED" /\ l.run = r /\ UNCHANGED task
    BY <1>0, <1>2, HandleFlow DEF Moved, HandleDead, rows
  <2>2. task[r][l.task].status = "FAILED"
    BY <1>0, <2>1 DEF MarksInv, Marked, Says, Out
  <2>3. l.task \in Selected(r)
    BY <1>0, <2>1 DEF OrderInv, Order, May, AtPoint, HoldingPoints
  <2>. QED BY <2>1, <2>2, <2>3 DEF Failing
<1>. QED BY <1>0, <1>1, <1>2, PursuitFrom

LEMMA CancelStep ==
  ASSUME Undisturbed, AttendInv, [Next]_vars, NEW s \in Schedulers, SchedulerStep(s),
         AtPoint(sched'[s], {"syncCancel"}), NEW r \in Runs, r = sched'[s].run, Alive(r)'
  PROVE  Busy(r)' \/ Decided(sched'[s])
<1>. DEFINE l == sched[s]
            m == sched'[s]
<1>0. TypeInv /\ SlotsInv /\ Pursues(task, l) /\ OneScheduler
  BY AttendFacts DEF Undisturbed, AttendInv
<1>1. CASE SyncRead(s)
  <2>1. l.pc = "sync" /\ l.run = r /\ m.snap = States(r)
    BY <1>0, <1>1, SyncFlow
  <2>2. Busy(r) \/ Stuck(task, r) \/ Failing(task, r)
    <3>1. Alive(r)
      BY <1>0, <2>1, AliveBack DEF Top, Before
    <3>. QED BY <1>0, <2>1, <3>1 DEF Pursues, Top
  <2>3. Busy(r) => Busy(r)'
    BY <1>0, <2>1, NoWriter, NothingWritten
  <2>4. ~Busy(r) => Decided(m)
    BY <2>1, <2>2, SyncSettles DEF Decided
  <2>. QED BY <2>3, <2>4
<1>2. CASE ~SyncRead(s)
  <2>1. AtPoint(l, {"syncCancel"}) /\ l.run = r /\ m.snap = l.snap
    BY <1>0, <1>2, SnapKept
  <2>2. Busy(r) \/ Decided(l)
    <3>1. Alive(r)
      BY <1>0, <2>1, AliveBack DEF Top, Before, AtPoint, Calling
    <3>. QED BY <1>0, <2>1, <3>1 DEF Pursues, Top, AtPoint, Calling
  <2>3. Busy(r) => Busy(r)'
    <3>1. l.cont # "handle" \/ l.pc # "taskUpdate"
      BY <2>1 DEF AtPoint, Calling
    <3>. QED BY <1>0, <3>1, BusyStays DEF OneScheduler, UpsertTask
  <2>4. Decided(l) => Decided(m)
    BY <2>1 DEF Decided
  <2>. QED BY <2>2, <2>3, <2>4
<1>. QED BY <1>1, <1>2

LEMMA PursuesAside ==
  ASSUME Undisturbed, AttendInv, [Next]_vars, UNCHANGED sched, NEW s \in Schedulers,
         NEW r \in Runs, r = sched[s].run, Alive(r)'
  PROVE  LET l == sched[s]
         IN  /\ l.pc = "ready" => Free(r)'
             /\ l.pc = "pick" => \/ Busy(r)'
                                 \/ /\ l.todo = Selected(r) /\ Free(r)'
                                    /\ Ready(r, l.snap, l.todo) = {} => l.after = "sync" /\ Stuck(task', r)
             /\ l.pc = "sync" => Busy(r)' \/ Stuck(task', r) \/ Failing(task', r)
             /\ AtPoint(l, {"syncCancel"}) => Busy(r)' \/ Decided(l)
<1>. DEFINE l == sched[s]
<1>0. TypeInv /\ SlotsInv /\ Pursues(task, l)
  BY AttendFacts DEF Undisturbed, AttendInv
<1>1. /\ \A k \in Tasks : task'[r][k].status = task[r][k].status
      /\ Free(r) => Free(r)'
      /\ Busy(r) => Busy(r)'
  BY <1>0, NoWriter, NothingWritten
<1>2. l.pc \in {"ready", "pick", "sync"} \/ AtPoint(l, {"syncCancel"}) => l.pc \notin Top /\ Alive(r)
  BY <1>0, AliveBack DEF Top, Before, AtPoint, Calling
<1>3. \A k \in Selected(r) : k \in Tasks /\ Deps(r, k) \subseteq Tasks
  BY KeysAreTasks
<1>4. Stuck(task, r) => Stuck(task', r)
  BY <1>1, <1>3 DEF Stuck, Untouched
<1>5. Failing(task, r) => Failing(task', r)
  BY <1>1, <1>3 DEF Failing
<1>6. l.pc = "ready" => Free(r)'
  BY <1>0, <1>1, <1>2 DEF Pursues
<1>7. l.pc = "pick" => \/ Busy(r)'
                       \/ /\ l.todo = Selected(r) /\ Free(r)'
                          /\ Ready(r, l.snap, l.todo) = {} => l.after = "sync" /\ Stuck(task', r)
  BY <1>0, <1>1, <1>2, <1>4 DEF Pursues, Unpicked
<1>8. l.pc = "sync" => Busy(r)' \/ Stuck(task', r) \/ Failing(task', r)
  BY <1>0, <1>1, <1>2, <1>4, <1>5 DEF Pursues
<1>9. AtPoint(l, {"syncCancel"}) => Busy(r)' \/ Decided(l)
  BY <1>0, <1>1, <1>2 DEF Pursues
<1>. QED BY <1>6, <1>7, <1>8, <1>9

LEMMA PursuesNext ==
  ASSUME Undisturbed, AttendInv, [Next]_vars, NEW s \in Schedulers
  PROVE  Pursues(task, sched[s])'
<1>. DEFINE m == sched'[s]
<1>1. m.pc \notin Top => m.run \in Runs
  <2>1. TypeInv'
    BY AttendFacts, StepSound
  <2>. QED BY <2>1 DEF TypeInv, Sound, Top
<1>2. ASSUME NEW r \in Runs, r = m.run, Alive(r)'
      PROVE  /\ m.pc = "ready" => Free(r)'
             /\ m.pc = "pick" => \/ Busy(r)'
                                 \/ /\ m.todo = Selected(r) /\ Free(r)'
                                    /\ Ready(r, m.snap, m.todo) = {} => m.after = "sync" /\ Stuck(task', r)
             /\ m.pc = "sync" => Busy(r)' \/ Stuck(task', r) \/ Failing(task', r)
             /\ AtPoint(m, {"syncCancel"}) => Busy(r)' \/ Decided(m)
  <2>1. CASE UNCHANGED sched
    <3>1. r = sched[s].run /\ m = sched[s]
      BY <1>2, <2>1
    <3>. QED BY <1>2, <2>1, <3>1, PursuesAside
  <2>2. CASE SchedulerStep(s)
    <3>1. m.pc = "ready" => Free(r)'
      BY <1>2, <2>2, ReadyStep
    <3>2. m.pc = "pick" => \/ Busy(r)'
                           \/ /\ m.todo = Selected(r) /\ Free(r)'
                              /\ Ready(r, m.snap, m.todo) = {} => m.after = "sync" /\ Stuck(task', r)
      BY <1>2, <2>2, PickStep
    <3>3. m.pc = "sync" => Busy(r)' \/ Stuck(task', r) \/ Failing(task', r)
      BY <1>2, <2>2, SyncStep
    <3>4. AtPoint(m, {"syncCancel"}) => Busy(r)' \/ Decided(m)
      BY <1>2, <2>2, CancelStep
    <3>. QED BY <3>1, <3>2, <3>3, <3>4
  <2>. QED BY <2>1, <2>2, WhoSteps, AttendFacts
<1>. HIDE DEF m
<1>3. ASSUME NEW r, r = m.run
      PROVE  Pursues(task, sched[s])' <=>
               (m.pc \notin Top /\ Alive(r)' =>
                  /\ m.pc = "ready" => Free(r)'
                  /\ m.pc = "pick" => \/ Busy(r)'
                                      \/ /\ m.todo = Selected(r) /\ Free(r)'
                                         /\ Ready(r, m.snap, m.todo) = {} => m.after = "sync" /\ Stuck(task', r)
                  /\ m.pc = "sync" => Busy(r)' \/ Stuck(task', r) \/ Failing(task', r)
                  /\ AtPoint(m, {"syncCancel"}) => Busy(r)' \/ Decided(m))
  BY <1>3 DEF Pursues, Unpicked, Stuck, Failing, Decided, Ready, Busy, Free, Alive, AtPoint, Calling, Untouched, m
<1>. QED BY <1>1, <1>2, <1>3

\* A run comes into being with its event about to be published.
LEMMA BornWaiting ==
  ASSUME Undisturbed, AttendInv, [Next]_vars, NEW r \in Runs, runStatus[r] = "none", runStatus'[r] # "none"
  PROVE  runStatus'[r] = "PENDING" /\ Waiting(r)'
<1>0. TypeInv /\ StartInv
  BY AttendFacts
<1>1. ASSUME NEW s \in Schedulers, SchedulerStep(s) PROVE FALSE
  <2>1. UpdateRunStatus(s)
    BY <1>1 DEF SchedulerStep, PopRun, AdmitRun, CancelRunTasks, SelectRunStatus, SelectTaskStatus,
       UpsertTask, LoadPlan, InitTask, FinishInit, ReadStates, PickReady, PushTask, PopDone,
       HandleSuccess, HandleRetry, WakeUp, HandleDead, SyncRead, SyncCancel, SyncVerdict, rows
  <2>2. sched[s].run = r /\ sched[s].pc = "runUpdate"
    BY <1>0, <2>1 DEF UpdateRunStatus, TypeInv, TypeOK
  <2>. QED BY <1>0, <2>2 DEF StartInv, On, Top
<1>2. PICK c \in Clients, q \in Runs : CreateRun(c, q)
  <2>1. \E c \in Clients : ClientCall(c)
    BY <1>1 DEF Next, vars, SchedulerCrash, ExecutorCrash, ClientCrash, ExecutorStep, TakeTask, FinishTask,
       ClientStep, PublishRun, CancelTasks, ListDlq, RequeueItem, RemoveItem, rows
  <2>2. PICK c \in Clients : ClientCall(c)
    BY <2>1
  <2>3. PICK q \in Runs : \/ CreateRun(c, q) \/ CancelRun(c, q) \/ ReplayDlq(c, q)
                          \/ \E st \in ManualStatus : SetRunStatus(c, q, st)
    BY <2>2 DEF ClientCall
  <2>4. ~CancelRun(c, q) /\ ~ReplayDlq(c, q) /\ \A st \in ManualStatus : ~SetRunStatus(c, q, st)
    BY <1>0 DEF CancelRun, ReplayDlq, SetRunStatus, TypeInv, TypeOK
  <2>. QED BY <2>3, <2>4
<1>3. q = r /\ runStatus'[r] = "PENDING"
  BY <1>0, <1>2 DEF CreateRun, TypeInv, TypeOK
<1>4. Announced(c, r)'
  BY <1>0, <1>2, <1>3 DEF CreateRun, Announced, TypeInv, TypeOK
<1>. QED BY <1>3, <1>4 DEF Waiting

\* The event of a run waits until a scheduler has popped it.
LEMMA WaitingKept ==
  ASSUME Undisturbed, TypeInv, [Next]_vars, NEW r \in Runs, Waiting(r)
  PROVE  \/ Waiting(r)'
         \/ \E s \in Schedulers : sched'[s].pc = "admit" /\ sched'[s].run = r
<1>0. TypeOK /\ runQ \in Seq(Runs)
  BY DEF TypeInv, TypeOK
<1>1. ASSUME NEW c \in Clients, Announced(c, r) PROVE Announced(c, r)' \/ In(runQ', r)
  <2>1. CASE \E s \in Schedulers : SchedulerStep(s) \/ SchedulerCrash(s)
    <3>1. api' = api
      BY <2>1, LoopTraffic DEF SchedulerCrash
    <3>. QED BY <1>1, <3>1 DEF Announced
  <2>2. CASE \E e \in Executors : ExecutorStep(e) \/ ExecutorCrash(e)
    BY <1>1, <2>2 DEF Announced, ExecutorStep, TakeTask, FinishTask, ExecutorCrash
  <2>3. CASE \E d \in Clients : ClientCall(d) \/ ClientStep(d) \/ ClientCrash(d)
    <3>1. PICK d \in Clients : ClientCall(d) \/ ClientStep(d)
      BY <1>0, <2>3 DEF ClientCrash, Undisturbed, NoCrash, TypeOK
    <3>2. CASE d # c
      BY <1>0, <1>1, <3>1, <3>2
      DEF Announced, ClientCall, ClientStep, CreateRun, CancelRun, ReplayDlq, SetRunStatus,
          PublishRun, CancelTasks, ListDlq, RequeueItem, RemoveItem, TypeOK
    <3>3. CASE d = c
      <4>1. PublishRun(c)
        BY <1>1, <3>1, <3>3
        DEF Announced, ClientCall, ClientStep, CreateRun, CancelRun, ReplayDlq, SetRunStatus,
            CancelTasks, ListDlq, RequeueItem, RemoveItem
      <4>. QED BY <1>0, <1>1, <4>1, InAppend DEF PublishRun, Announced
    <3>. QED BY <3>2, <3>3
  <2>4. CASE UNCHANGED vars
    BY <1>1, <2>4 DEF vars, Announced
  <2>. QED BY <2>1, <2>2, <2>3, <2>4 DEF Next
<1>2. ASSUME In(runQ, r)
      PROVE  In(runQ', r) \/ \E s \in Schedulers : sched'[s].pc = "admit" /\ sched'[s].run = r
  <2>1. ASSUME NEW s \in Schedulers, Pops1(s)
        PROVE  In(runQ', r) \/ (sched'[s].pc = "admit" /\ sched'[s].run = r)
    BY <1>0, <1>2, <2>1, InTail, PopRunFlow DEF Pops1
  <2>2. \A q \in Runs : In(Append(runQ, q), r)
    BY <1>0, <1>2, InAppend
  <2>3. \/ \E s \in Schedulers : Pops1(s)
        \/ \E q \in Runs : runQ' = Append(runQ, q)
        \/ runQ' = runQ
    BY EventMoves DEF Requeues, Creates, Publishes
  <2>. QED BY <1>2, <2>1, <2>2, <2>3
<1>. QED BY <1>1, <1>2, WaitingPrimed DEF Waiting

LEMMA FreeSlot ==
  ASSUME NEW r \in Runs, Free(r), IsFiniteSet(Taken)
  PROVE  ~SlotsFull(r)
<1>1. Cardinality(Taken) \in Nat /\ RunningTasks = Cardinality(Taken) /\ MaxParallel[r] \in Nat
  BY TakenPairs, FS_CardinalityType, PlanAssumption
<1>. QED BY <1>1 DEF SlotsFull, Free

\* No verdict is given only over states that call for none.
LEMMA NoVerdict ==
  ASSUME TypeInv, NEW s \in Schedulers, SyncVerdict(s), sched'[s].pc \in Top,
         NEW r \in Runs, r = sched[s].run, Selected(r) # {}
  PROVE  /\ \E k \in Selected(r) : sched[s].snap[k].status # "SUCCESS"
         /\ \A k \in Selected(r) : sched[s].snap[k].status # "FAILED"
<1>. DEFINE l == sched[s]
            found == {l.snap[k].status : k \in Selected(r)}
<1>1. CASE found = {"SUCCESS"}
  <2>1. sched'[s] = RunTransition(s, "SUCCESS", "pollRuns")
    BY <1>1, Locals DEF SyncVerdict
  <2>. QED BY <2>1, Locals, RunTransitionAsks DEF AskedRun, Top
<1>2. CASE "FAILED" \in found
  <2>0. found # {"SUCCESS"}
    BY <1>2
  <2>1. sched'[s] = RunTransition(s, "FAILED", "pollRuns")
    BY <1>2, <2>0, Locals DEF SyncVerdict
  <2>. QED BY <2>1, Locals, RunTransitionAsks DEF AskedRun, Top
<1>3. CASE found # {"SUCCESS"} /\ "FAILED" \notin found
  BY <1>3
<1>. QED BY <1>1, <1>2, <1>3

\* Every way from which the scheduler leaves a run that is going on.
LEMMA Leaving ==
  ASSUME Undisturbed, AttendInv, [Next]_vars, NEW s \in Schedulers, SchedulerStep(s),
         NEW r \in Runs, On(sched[s], r), sched'[s].pc \in Top,
         runStatus[r] \in {"PENDING", "RUNNING"}, runStatus'[r] = runStatus[r]
  PROVE  \/ sched[s].pc = "admit" /\ Waiting(r)'
         \/ ~Before(sched[s]) /\ Busy(r)'
<1>. DEFINE l == sched[s]
            m == sched'[s]
<1>0. /\ TypeInv /\ CalmInv /\ Calm /\ SlotsInv /\ MarksInv /\ StartInv /\ Bound(l) /\ Pursues(task, l)
      /\ l \in Local /\ l.run = r /\ l.pc \notin Top
  BY AttendFacts, Locals DEF AttendInv, Undisturbed, On
<1>1. \/ AdmitRun(s) \/ CancelRunTasks(s) \/ SelectRunStatus(s) \/ UpdateRunStatus(s)
      \/ PickReady(s) \/ PushTask(s) \/ SyncVerdict(s)
  <2>1. ~PopRun(s) /\ ~PopDone(s)
    BY <1>0 DEF PopRun, PopDone, Top
  <2>2. ~LoadPlan(s) /\ ~InitTask(s) /\ ~FinishInit(s) /\ ~ReadStates(s)
    BY <1>0, LoadPlanFlow, InitTaskFlow, FinishInitFlow, ReadStatesFlow DEF Asked, AskedRun, WithdrawsAll, Top
  <2>3. ~SelectTaskStatus(s) /\ ~UpsertTask(s)
    BY <1>0, SelectTaskStatusFlow, UpsertTaskFlow DEF Moved, AfterTask, Top
  <2>4. ~HandleSuccess(s) /\ ~HandleRetry(s) /\ ~WakeUp(s) /\ ~HandleDead(s)
    BY <1>0, HandleFlow DEF Asked, WithdrawsAll, Moved, Top
  <2>5. ~SyncRead(s) /\ ~SyncCancel(s)
    BY <1>0, SyncFlow DEF Asked, Top
  <2>. QED BY <2>1, <2>2, <2>3, <2>4, <2>5 DEF SchedulerStep
<1>9. runStatus[r] = "PENDING" => Before(l)
  <2>1. ~Waiting(r)
    BY <1>0 DEF StartInv, OneEvent
  <2>. QED BY <2>1 DEF AttendInv, Ahead, Undisturbed, OneScheduler
<1>2. CASE AdmitRun(s)
  <2>1. runQ' = Append(runQ, r) /\ l.pc = "admit"
    BY <1>0, <1>2, AdmitRunFlow DEF WithdrawsAll, AskedRun, Top
  <2>2. In(runQ', r)
    BY <1>0, <2>1, InAppend DEF TypeInv, TypeOK
  <2>. QED BY <2>1, <2>2, WaitingPrimed
<1>3. CASE CancelRunTasks(s)
  BY <1>0, <1>3 DEF CalmInv, CancelRunTasks
<1>4. CASE SelectRunStatus(s)
  <2>1. l.pc = "runSelect"
    BY <1>4 DEF SelectRunStatus
  <2>2. l.cont # "load"
    BY <1>0, <1>4, <2>1, RunStatusFlow DEF Moved, Top, Went
  <2>3. l.status \in {"SUCCESS", "FAILED"} /\ runStatus[r] = "RUNNING"
    BY <1>0, <1>9, <2>1, <2>2 DEF Bound, Before
  <2>4. sched'[s] = [l EXCEPT !.pc = "runUpdate"]
    BY <1>0, <1>4, <2>3, Locals DEF SelectRunStatus, RunAllowed
  <2>. QED BY <1>0, <2>4 DEF Top, Local
<1>5. CASE UpdateRunStatus(s)
  <2>1. l.pc = "runUpdate" /\ l.cont # "load"
    BY <1>0, <1>5, RunStatusFlow DEF Moved, Top, Went, UpdateRunStatus
  <2>2. l.status \in {"SUCCESS", "FAILED"}
    BY <1>0, <2>1 DEF Bound
  <2>3. runStatus'[r] = l.status
    BY <1>0, <1>5 DEF UpdateRunStatus, TypeInv, TypeOK
  <2>. QED BY <2>2, <2>3
<1>6. CASE PickReady(s)
  <2>1. /\ l.pc = "pick" /\ l.after # "sync"
        /\ Ready(r, l.snap, l.todo) = {} \/ SlotsFull(r)
    BY <1>0, <1>6, PickExit DEF Went, Moved, Top, PickReady
  <2>2. Busy(r) \/ Unpicked(task, l)
    BY <1>0, <2>1 DEF Pursues, Alive
  <2>3. Free(r) => ~SlotsFull(r)
    BY <1>0, FreeSlot DEF SlotsInv
  <2>4. Busy(r)
    BY <1>0, <2>1, <2>2, <2>3 DEF Unpicked
  <2>. QED BY <1>0, <2>1, <2>4, NoWriter, NothingWritten DEF Before
<1>7. CASE PushTask(s)
  <2>1. l.pc = "push" /\ l.task \in Tasks /\ UNCHANGED task
    BY <1>0, <1>7, PushTaskFlow, PushSends
  <2>2. task[r][l.task].status = "RUNNING"
    BY <1>0, <2>1 DEF MarksInv, Marked, Says, Out, Dispatched, Undisturbed
  <2>3. Busy(r)'
    BY <2>1, <2>2 DEF Busy
  <2>. QED BY <2>1, <2>3 DEF Before
<1>8. CASE SyncVerdict(s)
  <2>1. l.pc = "syncCancel"
    BY <1>0, <1>8, SyncFlow
  <2>2. Busy(r) \/ Decided(l)
    BY <1>0, <2>1 DEF Pursues, Alive, AtPoint
  <2>3. ~Decided(l)
    BY <1>0, <1>8, SomeSelected, NoVerdict DEF Decided
  <2>. QED BY <1>0, <2>1, <2>2, <2>3, NoWriter, NothingWritten DEF Before
<1>. QED BY <1>1, <1>2, <1>3, <1>4, <1>5, <1>6, <1>7, <1>8

LEMMA WatchNext ==
  ASSUME Undisturbed, AttendInv, [Next]_vars, NEW r \in Runs
  PROVE  /\ runStatus'[r] = "PENDING" => Ahead(r)'
         /\ runStatus'[r] = "RUNNING" => Watched(r)'
<1>0. /\ TypeInv /\ StartInv /\ CalmInv /\ SlotsInv /\ OneScheduler
      /\ \A s \in Schedulers : Bound(sched[s]) /\ Starts(sched[s])
  BY AttendFacts DEF AttendInv, Undisturbed, SlotsInv
<1>1. /\ Ahead(r)' <=> \/ Waiting(r)'
                       \/ \E s \in Schedulers : /\ On(sched'[s], r) /\ Before(sched'[s])
                                                /\ sched'[s].pc # "load"
      /\ Watched(r)' <=> Waiting(r)' \/ (\E s \in Schedulers : On(sched'[s], r)) \/ Busy(r)'
  BY DEF Ahead, Watched, On, Before
<1>2. CASE runStatus[r] = "none" /\ runStatus'[r] # "none"
  BY <1>1, <1>2, BornWaiting
\* The scheduler sets the run going.
<1>3. ASSUME NEW s \in Schedulers, UpdateRunStatus(s), sched[s].run = r,
             runStatus'[r] \in {"PENDING", "RUNNING"}
      PROVE  runStatus'[r] = "RUNNING" /\ On(sched'[s], r)
  <2>1. runStatus'[r] = sched[s].status /\ sched[s].pc = "runUpdate"
    BY <1>0, <1>3 DEF UpdateRunStatus, TypeInv, TypeOK
  <2>2. sched[s].cont = "load" /\ sched[s].status = "RUNNING"
    BY <1>0, <1>3, <2>1 DEF Bound, Starts
  <2>. QED BY <1>0, <1>3, <2>1, <2>2, RunStatusFlow DEF Went, Moved, Top, On
<1>4. CASE runStatus'[r] = runStatus[r] /\ runStatus[r] \in {"PENDING", "RUNNING"}
           /\ Waiting(r)
  <2>1. \A s \in Schedulers : sched'[s].pc = "admit" /\ sched'[s].run = r => On(sched'[s], r) /\ Before(sched'[s])
    BY DEF On, Before, Top
  <2>. QED BY <1>0, <1>1, <1>4, <2>1, WaitingKept
<1>5. CASE runStatus'[r] = runStatus[r] /\ runStatus[r] \in {"PENDING", "RUNNING"}
           /\ ~Waiting(r) /\ \E s \in Schedulers : On(sched[s], r)
  <2>1. PICK s \in Schedulers : On(sched[s], r)
    BY <1>5
  <2>2. CASE UNCHANGED sched
    BY <1>0, <1>1, <1>5, <2>1, <2>2 DEF AttendInv, Ahead, Watched
  <2>3. CASE SchedulerStep(s) /\ sched'[s].pc \notin Top
    <3>1. /\ sched'[s].run = r /\ On(sched'[s], r)
      BY <1>0, <2>1, <2>3, SameRun DEF On, PopRun, PopDone, Top
    <3>2. ASSUME runStatus[r] = "PENDING" PROVE Before(sched'[s]) /\ sched'[s].pc # "load"
      <4>1. On(sched[s], r) /\ Before(sched[s]) /\ sched[s].pc # "load"
        BY <1>0, <1>5, <2>1, <3>2 DEF AttendInv, Ahead, OneScheduler
      <4>2. CASE sched[s].pc = "admit"
        <5>1. AdmitRun(s)
          BY <2>3, <4>2 DEF SchedulerStep, PopRun, CancelRunTasks, SelectRunStatus, UpdateRunStatus,
             SelectTaskStatus, UpsertTask, LoadPlan, InitTask, FinishInit, ReadStates, PickReady,
             PushTask, PopDone, HandleSuccess, HandleRetry, WakeUp, HandleDead, SyncRead, SyncCancel,
             SyncVerdict
        <5>. QED BY <1>0, <2>1, <2>3, <3>2, <5>1, AdmitRunFlow DEF On, AskedRun, Before
      <4>3. CASE sched[s].pc \in {"runSelect", "runUpdate"} /\ sched[s].cont = "load"
        <5>1. SelectRunStatus(s) \/ UpdateRunStatus(s)
          BY <2>3, <4>3 DEF SchedulerStep, PopRun, AdmitRun, CancelRunTasks,
             SelectTaskStatus, UpsertTask, LoadPlan, InitTask, FinishInit, ReadStates, PickReady,
             PushTask, PopDone, HandleSuccess, HandleRetry, WakeUp, HandleDead, SyncRead, SyncCancel,
             SyncVerdict
        <5>2. ~UpdateRunStatus(s)
          BY <1>3, <1>5, <2>1, <3>2 DEF On
        <5>3. sched[s].status = "RUNNING"
          BY <1>0, <4>3 DEF Bound
        <5>4. sched'[s] = [sched[s] EXCEPT !.pc = "runUpdate"]
          BY <1>0, <2>1, <3>2, <5>1, <5>2, <5>3, Locals DEF SelectRunStatus, RunAllowed, On
        <5>. QED BY <1>0, <4>3, <5>4, Locals DEF Before, Local
      <4>. QED BY <4>1, <4>2, <4>3 DEF Before
    <3>. QED BY <1>1, <1>5, <3>1, <3>2
  <2>4. CASE SchedulerStep(s) /\ sched'[s].pc \in Top
    <3>1. \/ sched[s].pc = "admit" /\ Waiting(r)'
          \/ ~Before(sched[s]) /\ Busy(r)'
      BY <1>5, <2>1, <2>4, Leaving
    <3>2. runStatus[r] = "PENDING" => Before(sched[s])
      BY <1>0, <1>5, <2>1 DEF AttendInv, Ahead, OneScheduler
    <3>. QED BY <1>1, <1>5, <3>1, <3>2
  <2>. QED BY <1>0, <2>2, <2>3, <2>4, WhoSteps
<1>6. CASE runStatus'[r] = runStatus[r] /\ runStatus[r] \in {"PENDING", "RUNNING"}
           /\ ~Waiting(r) /\ ~(\E s \in Schedulers : On(sched[s], r))
  <2>1. runStatus[r] = "RUNNING" /\ Busy(r)
    BY <1>6 DEF AttendInv, Ahead, Watched
  <2>2. \A s \in Schedulers : UpsertTask(s) => sched[s].run # r
    BY <1>6 DEF UpsertTask, On, Top
  <2>3. Busy(r)'
    BY <2>1, <2>2, BusyStays
  <2>. QED BY <1>1, <1>6, <2>1, <2>3
<1>7. CASE runStatus'[r] \in {"PENDING", "RUNNING"} /\ runStatus[r] # "none" /\ runStatus'[r] # runStatus[r]
  <2>1. PICK s \in Schedulers : UpdateRunStatus(s) /\ sched[s].run = r
    BY <1>0, <1>7, VerdictMoves DEF Undisturbed, NoReplay, NoRevival
  <2>. QED BY <1>1, <1>3, <1>7, <2>1
<1>. QED BY <1>2, <1>4, <1>5, <1>6, <1>7

LEMMA AttendNext == Undisturbed /\ AttendInv /\ [Next]_vars => AttendInv'
<1>. SUFFICES ASSUME Undisturbed, AttendInv, [Next]_vars PROVE AttendInv'
  OBVIOUS
<1>1. SlotsInv'
  BY AttendFacts, SlotsNext DEF Undisturbed
<1>2. Backed' /\ Lettered'
  BY AttendFacts, BackedNext DEF Undisturbed, AttendInv
<1>3. Midway' /\ Causes'
  BY MidwayNext, CausesNext
<1>4. (\A r \in Runs : \A k \in Selected(r) : task[r][k].status = "CANCELLED" => CalledFor(r, k))'
  BY CancelsNext
<1>5. (\A s \in Schedulers : Bound(sched[s]) /\ Opens(task, sched[s]) /\ Pursues(task, sched[s]))'
  BY BoundNext, OpensNext, PursuesNext
<1>6. /\ (\A r \in Runs : runStatus[r] = "PENDING" => Ahead(r))'
      /\ (\A r \in Runs : runStatus[r] = "RUNNING" => Watched(r))'
  BY WatchNext
<1>. QED BY <1>1, <1>2, <1>3, <1>4, <1>5, <1>6 DEF AttendInv

LEMMA AttendInit == Undisturbed /\ Runs # {} /\ Init => AttendInv
<1>. SUFFICES ASSUME Undisturbed, Runs # {}, Init PROVE AttendInv
  OBVIOUS
<1>1. SlotsInv /\ Backed /\ Lettered
  BY SlotsInit, BackedInit
<1>2. /\ \A r \in Runs : runStatus[r] = "none"
      /\ \A r \in Runs, k \in Tasks : task[r][k].status = "none"
      /\ \A s \in Schedulers : sched[s].pc = "pollRuns"
  BY DEF Init, NoRow, AtTop
<1>3. Midway /\ Causes
  BY <1>2 DEF Midway, Causes, AtPoint, Calling
<1>4. \A r \in Runs : \A k \in Selected(r) : task[r][k].status = "CANCELLED" => CalledFor(r, k)
  BY <1>2, KeysAreTasks
<1>5. \A s \in Schedulers : Bound(sched[s]) /\ Opens(task, sched[s]) /\ Pursues(task, sched[s])
  BY <1>2 DEF Bound, Opens, Pursues, AtPoint, Calling, Before, Top
<1>. QED BY <1>1, <1>2, <1>3, <1>4, <1>5 DEF AttendInv

LEMMA AttendImplies == Undisturbed /\ AttendInv => NoRunForgotten
<1>. SUFFICES ASSUME Undisturbed, AttendInv, NEW r \in Runs, runStatus[r] \in {"PENDING", "RUNNING"}
              PROVE  Attended(r)
  BY DEF NoRunForgotten
<1>1. Waiting(r) \/ (\E s \in Schedulers : On(sched[s], r)) \/ Busy(r)
  BY DEF AttendInv, Ahead, Watched
<1>2. Waiting(r) => Attended(r)
  BY DEF Waiting, In, Announced, Attended
<1>3. (\E s \in Schedulers : On(sched[s], r)) => Attended(r)
  BY DEF On, Attended
<1>4. Busy(r) => Attended(r)
  BY InFlightMeans DEF Busy, AttendInv, Backed, Away, Attended
<1>. QED BY <1>1, <1>2, <1>3, <1>4

(***************************************************************************)
(* Somebody will come back to every run that has not ended: its event is   *)
(* queued or about to be, a scheduler is on it, or one of its tasks is in  *)
(* flight.  A plan that is empty, that runs in a circle or that asks for a *)
(* task it does not have leaves a run with nothing to start and no         *)
(* verdict; a run with fewer slots than another may find them all taken    *)
(* when the last of its own tasks has succeeded; a cancel, a crash and a   *)
(* status call that sets a run going again leave runs nobody looks at.     *)
(***************************************************************************)
THEOREM NobodyForgotten ==
  ASSUME Undisturbed, Runs # {}
  PROVE  Spec => []NoRunForgotten
<1>1. Init => AttendInv
  BY AttendInit
<1>2. AttendInv /\ [Next]_vars => AttendInv'
  BY AttendNext
<1>3. AttendInv => NoRunForgotten
  BY AttendImplies
<1>. QED BY <1>1, <1>2, <1>3, PTL DEF Spec
=============================================================================
