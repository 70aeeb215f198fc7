------------------------------- MODULE Admission -------------------------------
(* Requests for runs of one tenant: the quota, the decision ACCEPT, DEFER or  *)
(* REJECT, the queue of deferred requests with the schedulers that flush it,  *)
(* and the trigger policy of one model, whose requests take the same way.     *)
(* Every statement is a transaction of its own.                               *)
EXTENDS Integers, FiniteSets

CONSTANTS
  Api,           \* handlers of POST .../run
  Schedulers,    \* scheduler replicas
  Requests,      \* what the users ask for: [key, size, auto |-> FALSE]
  NoKey,         \* a request without an idempotency key
  Capacity,      \* worker -> task slots of the cluster, from its environment
  Budget,        \* task slots of the tenant
  Quota,         \* max_runs_per_project
  Limit,         \* rows a flush takes
  Tau,           \* debounce_minutes
  Policy,        \* the model has a trigger policy
  Patient,       \* the scheduler's POST is answered before its timeout
  MaxRuns, MaxRows, MaxSends, MaxTime, MaxCrashes

ASSUME SizesAssumption ==
  /\ Capacity \in [Api \cup Schedulers -> Nat \ {0}]
  /\ {Budget, Quota, Limit, Tau} \subseteq Nat \ {0}
  /\ {MaxRuns, MaxRows, MaxSends, MaxTime, MaxCrashes} \subseteq Nat
  /\ {Policy, Patient} \subseteq BOOLEAN
ASSUME RequestsAssumption ==
  /\ \A r \in Requests : r = [key |-> r.key, size |-> r.size, auto |-> FALSE] /\ r.size \in Nat \ {0}
  /\ NoKey \notin Nat
ASSUME WorkersAssumption == Api \cap Schedulers = {}

VARIABLES
  runs,      \* the runs, in the order they were created
  rows,      \* admission_deferred, in the order of created_at
  job,       \* what every handler and scheduler is doing
  now,       \* time, in intervals of ML_AIR_TRIGGER_POLICY_TICK_SECONDS (30 s)
  lock,      \* when the tick lock was taken last; it expires within the interval
  sent,      \* requests the users have sent
  crashes

vars == <<runs, rows, job, now, lock, sent, crashes>>

RunIds  == 1..MaxRuns
RowIds  == 1..MaxRows
Workers == Api \cup Schedulers

\* An automatic request: its key is the minute it was made in.
Minute  == now \div 2
Trigger(minute) == [key |-> minute, size |-> 1, auto |-> TRUE]
Asked   == Requests \cup {Trigger(m) : m \in 0..MaxTime}

NoRun == [status |-> "none", req |-> Trigger(0), made |-> 0]
NoRow == [status |-> "none", req |-> Trigger(0), run |-> 0]
Idle  == [pc |-> "idle", req |-> Trigger(0), row |-> 0, todo |-> {}, run |-> 0]

Init ==
  /\ runs = [i \in RunIds |-> NoRun]
  /\ rows = [d \in RowIds |-> NoRow]
  /\ job = [w \in Workers |-> Idle]
  /\ now = 0
  /\ lock = -1
  /\ sent = 0
  /\ crashes = 0

Runs    == {i \in RunIds : runs[i].status # "none"}
Pending == {d \in RowIds : rows[d].status = "pending"}

At(w, label)   == job[w].pc = label
Goto(w, label) == job' = [job EXCEPT ![w].pc = label]
Done(w)        == job' = [job EXCEPT ![w] = Idle]
\* Mutant: a flush goes on though it has no row left.
FlushNextOn(s, rest) == job' = [job EXCEPT ![s] = [Idle EXCEPT !.pc = "flush", !.todo = rest]]

FlushNext(s, rest) ==
  job' = [job EXCEPT ![s] = IF rest = {} THEN Idle ELSE [Idle EXCEPT !.pc = "flush", !.todo = rest]]

\* Pending runs without a task and running tasks, whatever they asked for. A
\* run between its tasks takes no slot.
Reserved == Cardinality({i \in RunIds : runs[i].status \in {"PENDING", "BUSY"}})

\* A demand beyond the budget alone is never refused.
Decision(w, size) ==
  CASE size > Capacity[w] -> "REJECT"
    [] size <= Capacity[w] /\ (Reserved + size > Capacity[w] \/ Reserved + size > Budget) -> "DEFER"
    [] OTHER -> "ACCEPT"

-----------------------------------------------------------------------------
(* The request handler.                                                      *)

Send(a, r) ==
  /\ a \in Api /\ At(a, "idle")
  /\ r \in Requests /\ sent < MaxSends
  /\ sent' = sent + 1
  /\ job' = [job EXCEPT ![a] = [Idle EXCEPT !.pc = "quota", !.req = r]]
  /\ UNCHANGED <<runs, rows, now, lock, crashes>>

CheckQuota(a) ==
  /\ At(a, "quota")
  /\ IF Cardinality(Runs) >= Quota THEN Done(a) ELSE Goto(a, "admit")
  /\ UNCHANGED <<runs, rows, now, lock, sent, crashes>>

Admit(a) ==
  /\ At(a, "admit")
  /\ CASE Decision(a, job[a].req.size) = "REJECT" -> Done(a)
       [] Decision(a, job[a].req.size) = "DEFER" ->
            Goto(a, IF job[a].req.key = NoKey THEN "defer" ELSE "waiting")
       [] OTHER -> Goto(a, "find")
  /\ UNCHANGED <<runs, rows, now, lock, sent, crashes>>

\* A key that waits in the queue is not deferred again ...
FindWaiting(a) ==
  /\ At(a, "waiting")
  /\ IF \E d \in Pending : rows[d].req.key = job[a].req.key THEN Done(a) ELSE Goto(a, "defer")
  /\ UNCHANGED <<runs, rows, now, lock, sent, crashes>>

\* ... unless it came there since: no index keeps it out.
Defer(a, d) ==
  /\ At(a, "defer")
  /\ rows[d].status = "none" /\ \A e \in RowIds : e < d => rows[e].status # "none"
  /\ rows' = [rows EXCEPT ![d] = [status |-> "pending", req |-> job[a].req, run |-> 0]]
  /\ Done(a)
  /\ UNCHANGED <<runs, now, lock, sent, crashes>>

-----------------------------------------------------------------------------
(* create_run, called by a handler or by a flush.                            *)

SameKey(r, s) == r.key # NoKey /\ r.key = s.key

\* The caller has its run: a handler answers, a flush marks its row.
Answer(w, i) ==
  IF w \in Schedulers THEN job' = [job EXCEPT ![w].pc = "mark", ![w].run = i] ELSE Done(w)

\* It has none: a handler answers with an error, a flush leaves the row.
Fail(w) == IF w \in Schedulers THEN FlushNext(w, job[w].todo) ELSE Done(w)

\* Mutant: a flush leaves a row whose run is there already.
FindRunForeign(w) ==
  LET hits == {i \in Runs : SameKey(job[w].req, runs[i].req)} IN
  /\ At(w, "find")
  /\ IF hits = {} THEN Goto(w, "insert") ELSE Fail(w)
  /\ UNCHANGED <<runs, rows, now, lock, sent, crashes>>

FindRun(w) ==
  LET hits == {i \in Runs : SameKey(job[w].req, runs[i].req)} IN
  /\ At(w, "find")
  /\ IF hits = {} THEN Goto(w, "insert") ELSE \E i \in hits : Answer(w, i)
  /\ UNCHANGED <<runs, rows, now, lock, sent, crashes>>

\* Mutant: no unique index on the key.
InsertRunAlways(w, i) ==
  /\ At(w, "insert")
  /\ runs[i].status = "none" /\ \A j \in RunIds : j < i => runs[j].status # "none"
  /\ runs' = [runs EXCEPT ![i] = [status |-> "PENDING", req |-> job[w].req, made |-> now]]
  /\ Answer(w, i)
  /\ UNCHANGED <<rows, now, lock, sent, crashes>>

\* The unique index refuses a key that was taken meanwhile.
InsertRun(w, i) ==
  /\ At(w, "insert")
  /\ runs[i].status = "none" /\ \A j \in RunIds : j < i => runs[j].status # "none"
  /\ IF \E j \in Runs : SameKey(job[w].req, runs[j].req)
       THEN Fail(w) /\ UNCHANGED runs
       ELSE /\ runs' = [runs EXCEPT ![i] = [status |-> "PENDING", req |-> job[w].req, made |-> now]]
            /\ Answer(w, i)
  /\ UNCHANGED <<rows, now, lock, sent, crashes>>

-----------------------------------------------------------------------------
(* flush_deferred_admissions.                                                *)

\* Selects the oldest rows; nothing claims them.
StartFlush(s) ==
  /\ s \in Schedulers /\ At(s, "idle") /\ Pending # {}
  /\ job' = [job EXCEPT ![s] = [Idle EXCEPT !.pc = "flush",
               !.todo = {d \in Pending : Cardinality({e \in Pending : e <= d}) <= Limit}]]
  /\ UNCHANGED <<runs, rows, now, lock, sent, crashes>>

Examine(s, d) ==
  LET r == rows[d].req
      rest == job[s].todo \ {d} IN
  /\ At(s, "flush")
  /\ d \in job[s].todo /\ \A e \in job[s].todo : d <= e
  /\ IF Decision(s, r.size) = "DEFER" THEN FlushNext(s, rest)
     ELSE job' = [job EXCEPT ![s] =
                    [Idle EXCEPT !.pc = IF Decision(s, r.size) = "REJECT" THEN "cancel" ELSE "find",
                                 !.req = r, !.row = d, !.todo = rest]]
  /\ UNCHANGED <<runs, rows, now, lock, sent, crashes>>

\* Writes only if the row is still pending.
Settle(s, status, run) ==
  LET d == job[s].row IN
  /\ rows' = IF rows[d].status = "pending"
               THEN [rows EXCEPT ![d].status = status, ![d].run = run] ELSE rows
  /\ FlushNext(s, job[s].todo)

CancelRow(s) ==
  /\ At(s, "cancel")
  /\ Settle(s, "cancelled", 0)
  /\ UNCHANGED <<runs, now, lock, sent, crashes>>

MarkRow(s) ==
  /\ At(s, "mark")
  /\ Settle(s, "admitted", job[s].run)
  /\ UNCHANGED <<runs, now, lock, sent, crashes>>

-----------------------------------------------------------------------------
(* The trigger policy.                                                       *)

\* SET NX with one second less than the interval to live.
TakeLock(s) ==
  /\ Policy /\ s \in Schedulers /\ At(s, "idle") /\ lock < now
  /\ lock' = now
  /\ Goto(s, "debounce")
  /\ UNCHANGED <<runs, rows, now, sent, crashes>>

\* The newest run with this model's auto_trigger must be old enough.
Debounce(s) ==
  /\ At(s, "debounce")
  /\ IF \A i \in Runs : runs[i].req.auto => now - runs[i].made >= 2 * Tau
       THEN Goto(s, "post") ELSE Done(s)
  /\ UNCHANGED <<runs, rows, now, lock, sent, crashes>>

\* The data is not eligible or not ready.
SkipTrigger(s) ==
  /\ At(s, "post")
  /\ Done(s)
  /\ UNCHANGED <<runs, rows, now, lock, sent, crashes>>

Post(s, a) ==
  /\ At(s, "post") /\ a \in Api /\ At(a, "idle")
  /\ job' = [job EXCEPT ![s] = [Idle EXCEPT !.pc = "wait", !.req = Trigger(Minute)],
                        ![a] = [Idle EXCEPT !.pc = "quota", !.req = Trigger(Minute)]]
  /\ UNCHANGED <<runs, rows, now, lock, sent, crashes>>

\* A scheduler that gives up leaves the handler at work.
StopWaiting(s) ==
  /\ At(s, "wait")
  /\ Patient => \A a \in Api : ~At(a, "idle") => job[a].req # job[s].req
  /\ Done(s)
  /\ UNCHANGED <<runs, rows, now, lock, sent, crashes>>

-----------------------------------------------------------------------------
(* What happens around.                                                      *)

\* A run of one task: taken up, its task running, over.
Progress(i) ==
  /\ runs[i].status \in {"PENDING", "RUNNING", "BUSY"}
  /\ runs' = [runs EXCEPT ![i].status = CASE @ = "PENDING" -> "RUNNING"
                                          [] @ = "RUNNING" -> "BUSY"
                                          [] OTHER -> "DONE"]
  /\ UNCHANGED <<rows, job, now, lock, sent, crashes>>

TimePasses ==
  /\ now < MaxTime
  /\ now' = now + 1
  /\ UNCHANGED <<runs, rows, job, lock, sent, crashes>>

Crash(w) ==
  /\ ~At(w, "idle") /\ crashes < MaxCrashes
  /\ crashes' = crashes + 1
  /\ Done(w)
  /\ UNCHANGED <<runs, rows, now, lock, sent>>

Handle(a) ==
  \/ CheckQuota(a) \/ Admit(a) \/ FindWaiting(a) \/ \E d \in RowIds : Defer(a, d)

Create(w) == FindRun(w) \/ \E i \in RunIds : InsertRun(w, i)

Flush(s) == StartFlush(s) \/ (\E d \in RowIds : Examine(s, d)) \/ CancelRow(s) \/ MarkRow(s)

Tick(s) ==
  TakeLock(s) \/ Debounce(s) \/ SkipTrigger(s) \/ (\E a \in Api : Post(s, a)) \/ StopWaiting(s)

Next ==
  \/ \E a \in Api : (\E r \in Requests : Send(a, r)) \/ Handle(a)
  \/ \E w \in Workers : Create(w) \/ Crash(w)
  \/ \E s \in Schedulers : Flush(s) \/ Tick(s)
  \/ \E i \in RunIds : Progress(i)
  \/ TimePasses

Spec == Init /\ [][Next]_vars

\* Handlers and schedulers go on with what they do, a scheduler keeps flushing,
\* and runs end.
Fairness ==
  /\ \A a \in Api : WF_vars(Handle(a) \/ Create(a))
  /\ \A s \in Schedulers : WF_vars(Flush(s) \/ Create(s)) /\ WF_vars(Tick(s))
  /\ \A i \in RunIds : WF_vars(Progress(i))

FairSpec == Spec /\ Fairness
-----------------------------------------------------------------------------
(* What admission promises.                                                  *)

Labels == {"idle", "quota", "admit", "waiting", "defer", "find", "insert",
           "flush", "cancel", "mark", "debounce", "post", "wait"}

\* The types; a flush has a row of the queue in hand.
AdmissionTypeOK ==
  /\ runs \in [RunIds -> [status : {"none", "PENDING", "RUNNING", "BUSY", "DONE"}, req : Asked,
                          made : 0..MaxTime]]
  /\ rows \in [RowIds -> [status : {"none", "pending", "admitted", "cancelled"}, req : Asked,
                          run : 0..MaxRuns]]
  /\ job \in [Workers -> [pc : Labels, req : Asked, row : 0..MaxRows, todo : SUBSET RowIds,
                       run : 0..MaxRuns]]
  /\ \A w \in Workers :
       /\ At(w, "flush") => job[w].todo # {}
       /\ job[w].pc \in {"cancel", "mark"} => job[w].row \in RowIds
       /\ \A d \in job[w].todo \cup ({job[w].row} \ {0}) : rows[d].status # "none"
  /\ now \in 0..MaxTime /\ lock \in -1..MaxTime
  /\ sent \in 0..MaxSends /\ crashes \in 0..MaxCrashes

\* A keyed request has one run, however often it is sent, deferred and flushed,
\* by whatever replicas; and an admitted row names a run that was made for it.
OneRunPerKey ==
  /\ \A i, j \in Runs : SameKey(runs[i].req, runs[j].req) => i = j
  /\ \A d \in RowIds : rows[d].status = "admitted" =>
       /\ rows[d].run \in Runs
       /\ runs[rows[d].run].req = rows[d].req \/ SameKey(rows[d].req, runs[rows[d].run].req)

\* Every deferred request is admitted or refused in the end, also when a flush
\* dies half-way.
RequestsSettle ==
  \A d \in RowIds : rows[d].status = "pending" ~> rows[d].status \in {"admitted", "cancelled"}
=============================================================================
