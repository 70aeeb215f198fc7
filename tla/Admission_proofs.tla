--------------------------- MODULE Admission_proofs ---------------------------
(* Theorems about Admission for any number of handlers, schedulers, requests  *)
(* and queue rows, whatever the capacities and the limits.                    *)
EXTENDS Admission, FiniteSetTheorems, WellFoundedInduction, TLAPS

-----------------------------------------------------------------------------
(* The inductive invariant: what a worker has in hand stays true of the runs  *)
(* and the rows, whoever changes them meanwhile. rs stands for the runs, ds   *)
(* for the rows, before a step or after it.                                   *)

Jobs == [pc : Labels, req : Asked, row : 0..MaxRows, todo : SUBSET RowIds, run : 0..MaxRuns]
Run  == [status : {"none", "PENDING", "RUNNING", "BUSY", "DONE"}, req : Asked, made : 0..MaxTime]
Row  == [status : {"none", "pending", "admitted", "cancelled"}, req : Asked, run : 0..MaxRuns]

Made(rs)   == {i \in RunIds : rs[i].status # "none"}
Serves(rs, i, q) == i \in Made(rs) /\ (rs[i].req = q \/ SameKey(q, rs[i].req))

\* What worker w may have in hand.
Sound(w, r, rs, ds) ==
  /\ r \in Jobs
  /\ r.pc = "flush" => r.todo # {}
  /\ r.pc \in {"cancel", "mark"} => r.row \in RowIds
  /\ \A d \in r.todo \cup ({r.row} \ {0}) : ds[d].status # "none"
  /\ w \in Schedulers /\ r.pc \in {"find", "insert", "mark"} =>
       r.row \in RowIds /\ r.req = ds[r.row].req
  /\ w \in Schedulers /\ r.pc = "mark" => Serves(rs, r.run, r.req)

UniqueKeys(rs) == \A i, j \in Made(rs) : SameKey(rs[i].req, rs[j].req) => i = j
Admitted(rs, ds) == \A d \in RowIds : ds[d].status = "admitted" => Serves(rs, ds[d].run, ds[d].req)

Data(rs, ds) ==
  /\ rs \in [RunIds -> Run]
  /\ ds \in [RowIds -> Row]
  /\ UniqueKeys(rs)
  /\ Admitted(rs, ds)

Scalars == now \in 0..MaxTime /\ lock \in -1..MaxTime /\ sent \in 0..MaxSends /\ crashes \in 0..MaxCrashes

Inv ==
  /\ Data(runs, rows)
  /\ job \in [Workers -> Jobs]
  /\ \A w \in Workers : Sound(w, job[w], runs, rows)
  /\ Scalars

\* No run and no row goes away or turns into another request's.
Kept(rs, rs2, ds, ds2) ==
  /\ \A i \in RunIds : rs[i].status # "none" => rs2[i].status # "none" /\ rs2[i].req = rs[i].req
  /\ \A d \in RowIds : ds[d].status # "none" => ds2[d].status # "none" /\ ds2[d].req = ds[d].req

LEMMA Numbers ==
  /\ MaxRuns \in Nat /\ MaxRows \in Nat /\ MaxTime \in Nat /\ MaxSends \in Nat /\ MaxCrashes \in Nat
  /\ 0 \notin RowIds /\ RowIds \subseteq 0..MaxRows /\ RunIds \subseteq 0..MaxRuns
BY SizesAssumption DEF RowIds, RunIds

LEMMA TriggerAsked == \A m \in 0..MaxTime : Trigger(m) \in Asked
BY DEF Asked

LEMMA IdleSound ==
  ASSUME NEW w, NEW rs, NEW ds
  PROVE  Sound(w, Idle, rs, ds)
<1>1. 0 \in 0..MaxTime /\ 0 \in 0..MaxRows /\ 0 \in 0..MaxRuns
  BY Numbers
<1>2. Trigger(0) \in Asked
  BY <1>1, TriggerAsked
<1>. QED
  BY <1>1, <1>2 DEF Sound, Idle, Jobs, Labels

LEMMA InitInv == Init => Inv
<1>1. 0 \in 0..MaxTime /\ 0 \in 0..MaxRows /\ 0 \in 0..MaxRuns /\ 0 \in 0..MaxSends /\ 0 \in 0..MaxCrashes
  BY Numbers
<1>2. Trigger(0) \in Asked
  BY <1>1, TriggerAsked
<1>3. NoRun \in Run /\ NoRow \in Row /\ NoRun.status = "none" /\ NoRow.status = "none"
  BY <1>1, <1>2 DEF NoRun, NoRow, Run, Row
<1>4. Idle \in Jobs
  BY <1>1, <1>2 DEF Idle, Jobs, Labels
<1>. SUFFICES ASSUME Init PROVE Inv
  OBVIOUS
<1>5. Data(runs, rows)
  BY <1>3 DEF Init, Data, UniqueKeys, Admitted, Made
<1>6. Scalars
  BY <1>1, Numbers DEF Init, Scalars
<1>7. \A w \in Workers : Sound(w, job[w], runs, rows)
  BY IdleSound DEF Init
<1>. QED
  BY <1>4, <1>5, <1>6, <1>7 DEF Inv, Init

LEMMA Carried ==
  ASSUME NEW w, NEW r, NEW rs, NEW rs2, NEW ds, NEW ds2,
         Sound(w, r, rs, ds), Kept(rs, rs2, ds, ds2)
  PROVE  Sound(w, r, rs2, ds2)
<1>1. \A d \in r.todo \cup ({r.row} \ {0}) : d \in RowIds
  BY DEF Sound, Jobs, RowIds
<1>2. \A d \in r.todo \cup ({r.row} \ {0}) : ds2[d].status # "none"
  BY <1>1 DEF Sound, Kept
<1>3. r.row \in RowIds => ds2[r.row].req = ds[r.row].req
  BY Numbers DEF Sound, Kept
<1>4. Serves(rs, r.run, r.req) => Serves(rs2, r.run, r.req)
  BY DEF Serves, Made, Kept
<1>. QED
  BY <1>2, <1>3, <1>4 DEF Sound

\* Worker w takes r in hand.
LEMMA Moves ==
  ASSUME Inv, NEW w \in Workers, NEW r, job' = [job EXCEPT ![w] = r],
         Sound(w, r, runs', rows'), Kept(runs, runs', rows, rows'),
         Data(runs', rows'), Scalars'
  PROVE  Inv'
<1>1. r \in Jobs
  BY DEF Sound
<1>2. job' \in [Workers -> Jobs]
  BY <1>1 DEF Inv
<1>3. ASSUME NEW v \in Workers PROVE Sound(v, job'[v], runs', rows')
  <2>1. CASE v = w
    BY <2>1 DEF Inv
  <2>2. CASE v # w
    <3>1. job'[v] = job[v] /\ Sound(v, job[v], runs, rows)
      BY <2>2 DEF Inv
    <3>. QED
      BY <3>1, Carried
  <2>. QED
    BY <2>1, <2>2
<1>. QED
  BY <1>2, <1>3 DEF Inv

LEMMA Same == Kept(runs, runs, rows, rows)
BY DEF Kept

\* A step that changes no run and no row.
LEMMA OnlyMoves ==
  ASSUME Inv, NEW w \in Workers, NEW r, job' = [job EXCEPT ![w] = r],
         Sound(w, r, runs, rows), UNCHANGED <<runs, rows>>, Scalars'
  PROVE  Inv'
<1>1. Kept(runs, runs', rows, rows')
  BY Same
<1>2. Sound(w, r, runs', rows') /\ Data(runs', rows')
  BY DEF Inv
<1>. QED
  BY <1>1, <1>2, Moves

LEMMA DoneMoves ==
  ASSUME Inv, NEW w \in Workers, Done(w), UNCHANGED <<runs, rows>>, Scalars'
  PROVE  Inv'
BY IdleSound, OnlyMoves DEF Done

LEMMA NoTimePassed == ASSUME Inv, UNCHANGED <<now, lock, sent, crashes>> PROVE Scalars'
BY DEF Inv, Scalars

\* A worker that holds no rows goes on with its request.
LEMMA GotoSound ==
  ASSUME NEW w, NEW r, NEW rs, NEW ds, NEW label \in Labels \ {"flush", "cancel", "mark"},
         Sound(w, r, rs, ds),
         w \in Schedulers /\ label \in {"find", "insert"} => r.pc = "find"
  PROVE  Sound(w, [r EXCEPT !.pc = label], rs, ds)
<1>. DEFINE q == [r EXCEPT !.pc = label]
<1>1. q \in Jobs /\ q.pc = label /\ q.req = r.req /\ q.row = r.row /\ q.todo = r.todo /\ q.run = r.run
  BY DEF Sound, Jobs
<1>. HIDE DEF q
<1>2. Sound(w, q, rs, ds)
  BY <1>1 DEF Sound
<1>. QED
  BY <1>2 DEF q

LEMMA GotoMoves ==
  ASSUME Inv, NEW w \in Workers, NEW label \in Labels \ {"flush", "cancel", "mark"},
         Goto(w, label), UNCHANGED <<runs, rows>>, Scalars',
         w \in Schedulers /\ label \in {"find", "insert"} => At(w, "find")
  PROVE  Inv'
<1>1. Sound(w, job[w], runs, rows)
  BY DEF Inv
<1>2. Sound(w, [job[w] EXCEPT !.pc = label], runs, rows)
  BY <1>1, GotoSound DEF At
<1>3. job' = [job EXCEPT ![w] = [job[w] EXCEPT !.pc = label]]
  BY DEF Goto, Inv
<1>. QED
  BY <1>2, <1>3, OnlyMoves

LEMMA FlushSound ==
  ASSUME NEW s, NEW rest \in SUBSET RowIds, NEW rs, NEW ds,
         \A d \in rest : ds[d].status # "none"
  PROVE  Sound(s, IF rest = {} THEN Idle ELSE [Idle EXCEPT !.pc = "flush", !.todo = rest], rs, ds)
<1>1. CASE rest = {}
  BY <1>1, IdleSound
<1>2. CASE rest # {}
  <2>. DEFINE q == [Idle EXCEPT !.pc = "flush", !.todo = rest]
  <2>1. Idle \in Jobs
    BY IdleSound DEF Sound
  <2>2. q \in Jobs /\ q.pc = "flush" /\ q.todo = rest /\ q.row = 0
    BY <2>1 DEF Jobs, Idle, Labels
  <2>. HIDE DEF q
  <2>3. Sound(s, q, rs, ds)
    BY <1>2, <2>2 DEF Sound
  <2>. QED
    BY <1>2, <2>3 DEF q
<1>. QED
  BY <1>1, <1>2

\* The rest of a flush, after a step that changed the runs or the rows or not.
LEMMA FlushMoves ==
  ASSUME Inv, NEW s \in Workers, NEW rest \in SUBSET RowIds, FlushNext(s, rest),
         \A d \in rest : rows[d].status # "none",
         Kept(runs, runs', rows, rows'), Data(runs', rows'), Scalars'
  PROVE  Inv'
<1>. DEFINE q == IF rest = {} THEN Idle ELSE [Idle EXCEPT !.pc = "flush", !.todo = rest]
<1>1. \A d \in rest : rows'[d].status # "none"
  BY DEF Kept
<1>2. Sound(s, q, runs', rows')
  BY <1>1, FlushSound
<1>3. job' = [job EXCEPT ![s] = q]
  BY DEF FlushNext
<1>. HIDE DEF q
<1>. QED
  BY <1>2, <1>3, Moves

LEMMA TodoRows ==
  ASSUME Inv, NEW w \in Workers
  PROVE  job[w].todo \in SUBSET RowIds /\ \A d \in job[w].todo : rows[d].status # "none"
BY DEF Inv, Sound, Jobs

LEMMA FailMoves ==
  ASSUME Inv, NEW w \in Workers, Fail(w), UNCHANGED <<runs, rows>>, Scalars'
  PROVE  Inv'
<1>1. CASE w \in Schedulers
  <2>1. Data(runs', rows') /\ Kept(runs, runs', rows, rows')
    BY Same DEF Inv
  <2>2. FlushNext(w, job[w].todo)
    BY <1>1 DEF Fail
  <2>. QED
    BY <2>1, <2>2, TodoRows, FlushMoves
<1>2. CASE w \notin Schedulers
  BY <1>2, DoneMoves DEF Fail
<1>. QED
  BY <1>1, <1>2

\* A scheduler takes a run for its row, a handler is done with it.
LEMMA AnswerMoves ==
  ASSUME Inv, NEW w \in Workers, NEW i \in RunIds, Answer(w, i),
         job[w].pc \in {"find", "insert"}, Serves(runs', i, job[w].req),
         Kept(runs, runs', rows, rows'), Data(runs', rows'), Scalars'
  PROVE  Inv'
<1>1. CASE w \in Schedulers
  <2>. DEFINE q == [job[w] EXCEPT !.pc = "mark", !.run = i]
  <2>1. Sound(w, job[w], runs, rows)
    BY DEF Inv
  <2>2. q \in Jobs /\ q.pc = "mark" /\ q.req = job[w].req /\ q.row = job[w].row
        /\ q.todo = job[w].todo /\ q.run = i
    BY <2>1, Numbers DEF Sound, Jobs, Labels
  <2>3. Sound(w, job[w], runs', rows')
    BY <2>1, Carried
  <2>4. job' = [job EXCEPT ![w] = q]
    BY <1>1 DEF Answer, Inv
  <2>. HIDE DEF q
  <2>5. Sound(w, q, runs', rows')
    BY <1>1, <2>2, <2>3 DEF Sound
  <2>. QED
    BY <2>4, <2>5, Moves
<1>2. CASE w \notin Schedulers
  BY <1>2, IdleSound, Moves DEF Answer, Done
<1>. QED
  BY <1>1, <1>2

-----------------------------------------------------------------------------
(* The handlers of requests.                                                  *)

LEMMA AskSound ==
  ASSUME NEW a, NEW q \in Asked, NEW label \in {"quota", "wait"}, NEW rs, NEW ds
  PROVE  Sound(a, [Idle EXCEPT !.pc = label, !.req = q], rs, ds)
<1>. DEFINE r == [Idle EXCEPT !.pc = label, !.req = q]
<1>1. Idle \in Jobs
  BY IdleSound DEF Sound
<1>2. r \in Jobs /\ r.pc = label /\ r.row = 0 /\ r.todo = {}
  BY <1>1 DEF Jobs, Idle, Labels
<1>. HIDE DEF r
<1>3. Sound(a, r, rs, ds)
  BY <1>2 DEF Sound
<1>. QED
  BY <1>3 DEF r

LEMMA SendKeeps == ASSUME Inv, NEW a \in Api, NEW r \in Requests, Send(a, r) PROVE Inv'
<1>1. a \in Workers /\ r \in Asked
  BY DEF Workers, Asked
<1>2. Scalars'
  BY Numbers DEF Send, Inv, Scalars
<1>3. Sound(a, [Idle EXCEPT !.pc = "quota", !.req = r], runs, rows)
  BY <1>1, AskSound
<1>. QED
  BY <1>1, <1>2, <1>3, OnlyMoves DEF Send

LEMMA CheckQuotaKeeps == ASSUME Inv, NEW a \in Api, CheckQuota(a) PROVE Inv'
<1>1. a \in Workers /\ a \notin Schedulers
  BY WorkersAssumption DEF Workers
<1>2. Scalars' /\ UNCHANGED <<runs, rows>>
  BY NoTimePassed DEF CheckQuota
<1>3. Done(a) \/ Goto(a, "admit")
  BY DEF CheckQuota
<1>. QED
  BY <1>1, <1>2, <1>3, DoneMoves, GotoMoves DEF Labels

LEMMA AdmitKeeps == ASSUME Inv, NEW a \in Api, Admit(a) PROVE Inv'
<1>1. a \in Workers /\ a \notin Schedulers
  BY WorkersAssumption DEF Workers
<1>2. Scalars' /\ UNCHANGED <<runs, rows>>
  BY NoTimePassed DEF Admit
<1>3. Done(a) \/ Goto(a, "defer") \/ Goto(a, "waiting") \/ Goto(a, "find")
  BY DEF Admit
<1>. QED
  BY <1>1, <1>2, <1>3, DoneMoves, GotoMoves DEF Labels

LEMMA FindWaitingKeeps == ASSUME Inv, NEW a \in Api, FindWaiting(a) PROVE Inv'
<1>1. a \in Workers /\ a \notin Schedulers
  BY WorkersAssumption DEF Workers
<1>2. Scalars' /\ UNCHANGED <<runs, rows>>
  BY NoTimePassed DEF FindWaiting
<1>3. Done(a) \/ Goto(a, "defer")
  BY DEF FindWaiting
<1>. QED
  BY <1>1, <1>2, <1>3, DoneMoves, GotoMoves DEF Labels

LEMMA DeferKeeps == ASSUME Inv, NEW a \in Api, NEW d \in RowIds, Defer(a, d) PROVE Inv'
<1>1. a \in Workers
  BY DEF Workers
<1>2. Scalars'
  BY NoTimePassed DEF Defer
<1>. DEFINE e == [status |-> "pending", req |-> job[a].req, run |-> 0]
<1>3. e \in Row
  BY <1>1, Numbers DEF Inv, Jobs, Row
<1>4. rows' = [rows EXCEPT ![d] = e] /\ rows[d].status = "none" /\ runs' = runs
  BY DEF Defer
<1>5. Kept(runs, runs', rows, rows')
  BY <1>4 DEF Kept
<1>6. rows' \in [RowIds -> Row] /\ rows'[d].status = "pending"
      /\ \A c \in RowIds : c # d => rows'[c] = rows[c]
  BY <1>3, <1>4 DEF Inv, Data
<1>7. Data(runs', rows')
  BY <1>4, <1>6 DEF Inv, Data, Admitted
<1>. QED
  BY <1>1, <1>2, <1>5, <1>7, IdleSound, Moves DEF Defer, Done

-----------------------------------------------------------------------------
(* create_run.                                                                *)

LEMMA FindRunKeeps == ASSUME Inv, NEW w \in Workers, FindRun(w) PROVE Inv'
<1>1. Scalars' /\ UNCHANGED <<runs, rows>> /\ At(w, "find")
  BY NoTimePassed DEF FindRun
<1>2. CASE Goto(w, "insert")
  BY <1>1, <1>2, GotoMoves DEF Labels
<1>3. CASE \E i \in Runs : SameKey(job[w].req, runs[i].req) /\ Answer(w, i)
  <2>1. PICK i \in Runs : SameKey(job[w].req, runs[i].req) /\ Answer(w, i)
    BY <1>3
  <2>2. i \in RunIds /\ Serves(runs', i, job[w].req)
    BY <1>1, <2>1 DEF Serves, Made, Runs
  <2>3. Data(runs', rows') /\ Kept(runs, runs', rows, rows')
    BY <1>1, Same DEF Inv
  <2>4. job[w].pc \in {"find", "insert"}
    BY <1>1 DEF At
  <2>. QED
    BY <1>1, <2>1, <2>2, <2>3, <2>4, AnswerMoves
<1>. QED
  BY <1>2, <1>3 DEF FindRun

\* A new run, whose key no run has yet.
LEMMA NewRun ==
  ASSUME Inv, NEW i \in RunIds, NEW r \in Run, r.status # "none",
         runs[i].status = "none", runs' = [runs EXCEPT ![i] = r], rows' = rows,
         \A j \in Runs : ~SameKey(r.req, runs[j].req)
  PROVE  /\ Kept(runs, runs', rows, rows') /\ Data(runs', rows')
         /\ Serves(runs', i, r.req)
<1>1. runs' \in [RunIds -> Run] /\ runs'[i] = r
      /\ \A j \in RunIds : j # i => runs'[j] = runs[j]
  BY DEF Inv, Data
<1>2. Kept(runs, runs', rows, rows')
  BY <1>1 DEF Kept
<1>3. Serves(runs', i, r.req)
  BY <1>1 DEF Serves, Made
<1>4. ASSUME NEW j \in Made(runs'), NEW k \in Made(runs'), SameKey(runs'[j].req, runs'[k].req)
      PROVE  j = k
  <2>1. \A l \in Made(runs') : l # i => l \in Runs
    BY <1>1 DEF Made, Runs
  <2>2. CASE j # i /\ k # i
    <3>1. runs'[j] = runs[j] /\ runs'[k] = runs[k] /\ j \in Made(runs) /\ k \in Made(runs)
      BY <1>1, <2>2 DEF Made
    <3>. QED
      BY <1>4, <3>1 DEF Inv, Data, UniqueKeys
  <2>3. CASE j = i /\ k # i
    <3>1. runs'[j].req = r.req /\ runs'[k] = runs[k] /\ k \in Runs
      BY <1>1, <2>1, <2>3 DEF Made
    <3>. QED
      BY <1>4, <3>1
  <2>4. CASE j # i /\ k = i
    <3>1. runs'[k].req = r.req /\ runs'[j] = runs[j] /\ j \in Runs
      BY <1>1, <2>1, <2>4 DEF Made
    <3>. QED
      BY <1>4, <3>1 DEF SameKey
  <2>. QED
    BY <2>2, <2>3, <2>4
<1>5. \A j, q : Serves(runs, j, q) => Serves(runs', j, q)
  BY <1>2 DEF Serves, Made, Kept
<1>6. Admitted(runs', rows')
  <2>1. \A d \in RowIds : rows[d].status = "admitted" => rows[d].run \in RunIds
    BY DEF Inv, Data, Admitted, Serves, Made
  <2>. QED
    BY <1>5, <2>1 DEF Inv, Data, Admitted
<1>. QED
  BY <1>1, <1>2, <1>3, <1>4, <1>6 DEF Data, UniqueKeys, Inv

LEMMA InsertRunKeeps ==
  ASSUME Inv, NEW w \in Workers, NEW i \in RunIds, InsertRun(w, i)
  PROVE  Inv'
<1>. DEFINE r == [status |-> "PENDING", req |-> job[w].req, made |-> now]
<1>1. Scalars' /\ rows' = rows /\ At(w, "insert") /\ runs[i].status = "none"
  BY NoTimePassed DEF InsertRun
<1>2. CASE Fail(w) /\ UNCHANGED runs
  BY <1>1, <1>2, FailMoves
<1>3. CASE /\ \A j \in Runs : ~SameKey(job[w].req, runs[j].req)
           /\ runs' = [runs EXCEPT ![i] = r] /\ Answer(w, i)
  <2>1. r \in Run /\ r.status # "none" /\ r.req = job[w].req
    BY DEF Inv, Jobs, Run, Scalars
  <2>2. runs' = [runs EXCEPT ![i] = r]
    BY <1>3
  <2>. HIDE DEF r
  <2>3. Kept(runs, runs', rows, rows') /\ Data(runs', rows') /\ Serves(runs', i, job[w].req)
    BY <1>1, <1>3, <2>1, <2>2, NewRun
  <2>4. job[w].pc \in {"find", "insert"}
    BY <1>1 DEF At
  <2>. QED
    BY <1>1, <1>3, <2>3, <2>4, AnswerMoves
<1>. QED
  BY <1>2, <1>3 DEF InsertRun

-----------------------------------------------------------------------------
(* flush_deferred_admissions.                                                 *)

\* Of some rows one is the oldest.
LEMMA LeastRow ==
  ASSUME NEW S \in SUBSET Nat, S # {}
  PROVE  \E d \in S : \A e \in S : d <= e
<1>. DEFINE R == {ss \in Nat \X Nat : ss[1] < ss[2]}
<1>1. IsWellFoundedOn(R, Nat)
  BY NatLessThanWellFounded DEF OpToRel
<1>2. \A d, e \in Nat : ~(<<e, d>> \in R) => d <= e
  OBVIOUS
<1>. HIDE DEF R
<1>3. PICK d \in S : \A e \in S : ~(<<e, d>> \in R)
  BY <1>1, WFMin
<1>. QED
  BY <1>2, <1>3

LEMMA StartFlushKeeps == ASSUME Inv, NEW s \in Schedulers, StartFlush(s) PROVE Inv'
<1>. DEFINE first == {d \in Pending : Cardinality({e \in Pending : e <= d}) <= Limit}
            q == [Idle EXCEPT !.pc = "flush", !.todo = first]
<1>1. s \in Workers /\ Scalars' /\ UNCHANGED <<runs, rows>>
  BY NoTimePassed DEF StartFlush, Workers
<1>2. first \in SUBSET RowIds /\ \A d \in first : rows[d].status # "none"
  BY DEF Pending
<1>3. first # {}
  <2>1. PICK d \in Pending : \A e \in Pending : d <= e
    <3>1. Pending # {} /\ Pending \subseteq Nat
      BY DEF StartFlush, Pending, RowIds
    <3>. QED
      BY <3>1, LeastRow
  <2>2. {e \in Pending : e <= d} = {d}
    BY <2>1 DEF Pending, RowIds
  <2>3. Cardinality({e \in Pending : e <= d}) = 1
    BY <2>2, FS_Singleton
  <2>4. 1 <= Limit
    BY SizesAssumption
  <2>. QED
    BY <2>1, <2>3, <2>4
<1>4. job' = [job EXCEPT ![s] = q]
  BY DEF StartFlush
<1>5. Sound(s, IF first = {} THEN Idle ELSE q, runs, rows)
  BY <1>2, FlushSound
<1>. HIDE DEF q, first
<1>. QED
  BY <1>1, <1>3, <1>4, <1>5, OnlyMoves

LEMMA ExamineKeeps ==
  ASSUME Inv, NEW s \in Schedulers, NEW d \in RowIds, Examine(s, d)
  PROVE  Inv'
<1>. DEFINE rest == job[s].todo \ {d}
<1>1. s \in Workers /\ Scalars' /\ UNCHANGED <<runs, rows>> /\ d \in job[s].todo
  BY NoTimePassed DEF Examine, Workers
<1>2. rest \in SUBSET RowIds /\ (\A e \in rest : rows[e].status # "none") /\ rows[d].status # "none"
  BY <1>1, TodoRows
<1>3. CASE FlushNext(s, rest)
  <2>1. Data(runs', rows') /\ Kept(runs, runs', rows, rows')
    BY <1>1, Same DEF Inv
  <2>. HIDE DEF rest
  <2>. QED
    BY <1>1, <1>2, <1>3, <2>1, FlushMoves
<1>4. ASSUME NEW label \in {"cancel", "find"},
             job' = [job EXCEPT ![s] =
                       [Idle EXCEPT !.pc = label, !.req = rows[d].req, !.row = d, !.todo = rest]]
      PROVE  Inv'
  <2>. DEFINE q == [Idle EXCEPT !.pc = label, !.req = rows[d].req, !.row = d, !.todo = rest]
  <2>1. Idle \in Jobs
    BY IdleSound DEF Sound
  <2>2. rows[d].req \in Asked /\ d \in 0..MaxRows
    BY Numbers DEF Inv, Data, Row
  <2>3. q \in Jobs /\ q.pc = label /\ q.req = rows[d].req /\ q.row = d /\ q.todo = rest
    BY <1>2, <2>1, <2>2 DEF Jobs, Idle, Labels
  <2>4. job' = [job EXCEPT ![s] = q]
    BY <1>4
  <2>. HIDE DEF q, rest
  <2>5. Sound(s, q, runs, rows)
    BY <1>2, <2>3 DEF Sound
  <2>. QED
    BY <1>1, <2>4, <2>5, OnlyMoves
<1>. QED
  BY <1>3, <1>4 DEF Examine

LEMMA SettleKeeps ==
  ASSUME Inv, NEW s \in Schedulers, NEW status \in {"cancelled", "admitted"}, NEW run \in 0..MaxRuns,
         Settle(s, status, run), job[s].row \in RowIds,
         status = "admitted" => Serves(runs, run, rows[job[s].row].req),
         UNCHANGED runs, Scalars'
  PROVE  Inv'
<1>. DEFINE d == job[s].row
<1>1. s \in Workers
  BY DEF Workers
<1>2. CASE rows' = rows
  <2>1. Data(runs', rows') /\ Kept(runs, runs', rows, rows')
    BY <1>2, Same DEF Inv
  <2>. QED
    BY <1>1, <2>1, TodoRows, FlushMoves DEF Settle
<1>3. CASE rows[d].status = "pending" /\ rows' = [rows EXCEPT ![d].status = status, ![d].run = run]
  <2>1. /\ rows' \in [RowIds -> Row] /\ rows'[d].status = status /\ rows'[d].run = run
        /\ rows'[d].req = rows[d].req
        /\ \A e \in RowIds : e # d => rows'[e] = rows[e]
    BY <1>3 DEF Inv, Data, Row
  <2>. HIDE DEF d
  <2>2. Kept(runs, runs', rows, rows')
    BY <1>3, <2>1 DEF Kept
  <2>3. Admitted(runs', rows')
    <3>1. ASSUME NEW e \in RowIds, rows'[e].status = "admitted"
          PROVE  Serves(runs', rows'[e].run, rows'[e].req)
      <4>1. CASE e = d
        BY <2>1, <3>1, <4>1 DEF d
      <4>2. CASE e # d
        BY <2>1, <3>1, <4>2 DEF Inv, Data, Admitted
      <4>. QED
        BY <4>1, <4>2
    <3>. QED
      BY <3>1 DEF Admitted
  <2>4. Data(runs', rows')
    BY <2>1, <2>3 DEF Inv, Data
  <2>. QED
    BY <1>1, <2>2, <2>4, TodoRows, FlushMoves DEF Settle
<1>. QED
  BY <1>2, <1>3 DEF Settle

LEMMA CancelRowKeeps == ASSUME Inv, NEW s \in Schedulers, CancelRow(s) PROVE Inv'
<1>1. job[s].row \in RowIds
  BY DEF CancelRow, At, Inv, Sound, Workers
<1>2. Scalars' /\ UNCHANGED runs
  BY NoTimePassed DEF CancelRow
<1>3. 0 \in 0..MaxRuns
  BY Numbers
<1>. QED
  BY <1>1, <1>2, <1>3, SettleKeeps DEF CancelRow

LEMMA MarkRowKeeps == ASSUME Inv, NEW s \in Schedulers, MarkRow(s) PROVE Inv'
<1>1. Sound(s, job[s], runs, rows) /\ job[s].pc = "mark"
  BY DEF MarkRow, At, Inv, Workers
<1>2. job[s].row \in RowIds /\ Serves(runs, job[s].run, rows[job[s].row].req)
      /\ job[s].run \in 0..MaxRuns
  BY <1>1 DEF Sound, Jobs
<1>3. Scalars' /\ UNCHANGED runs
  BY NoTimePassed DEF MarkRow
<1>. QED
  BY <1>2, <1>3, SettleKeeps DEF MarkRow

-----------------------------------------------------------------------------
(* The trigger policy, and what happens around.                               *)

LEMMA TakeLockKeeps == ASSUME Inv, NEW s \in Schedulers, TakeLock(s) PROVE Inv'
<1>1. s \in Workers /\ UNCHANGED <<runs, rows>>
  BY DEF TakeLock, Workers
<1>2. Scalars'
  BY Numbers DEF TakeLock, Inv, Scalars
<1>. QED
  BY <1>1, <1>2, GotoMoves DEF TakeLock, Labels

LEMMA DebounceKeeps == ASSUME Inv, NEW s \in Schedulers, Debounce(s) PROVE Inv'
<1>1. s \in Workers /\ UNCHANGED <<runs, rows>> /\ Scalars'
  BY NoTimePassed DEF Debounce, Workers
<1>2. Goto(s, "post") \/ Done(s)
  BY DEF Debounce
<1>. QED
  BY <1>1, <1>2, GotoMoves, DoneMoves DEF Labels

LEMMA SkipOrStopKeeps ==
  ASSUME Inv, NEW s \in Schedulers, SkipTrigger(s) \/ StopWaiting(s)
  PROVE  Inv'
<1>1. s \in Workers /\ UNCHANGED <<runs, rows>> /\ Scalars'
  BY NoTimePassed DEF SkipTrigger, StopWaiting, Workers
<1>. QED
  BY <1>1, DoneMoves DEF SkipTrigger, StopWaiting

LEMMA PostKeeps == ASSUME Inv, NEW s \in Schedulers, NEW a \in Api, Post(s, a) PROVE Inv'
<1>. DEFINE q == Trigger(Minute)
            ask == [Idle EXCEPT !.pc = "quota", !.req = q]
            wait == [Idle EXCEPT !.pc = "wait", !.req = q]
<1>1. s \in Workers /\ a \in Workers /\ s # a
  BY WorkersAssumption DEF Workers
<1>2. q \in Asked
  <2>1. Minute \in 0..MaxTime
    BY Numbers DEF Inv, Scalars, Minute
  <2>. QED
    BY <2>1, TriggerAsked
<1>3. Sound(a, ask, runs, rows) /\ Sound(s, wait, runs, rows)
  BY <1>2, AskSound
<1>4. ask \in Jobs /\ wait \in Jobs
  BY <1>3 DEF Sound
<1>5. job' = [job EXCEPT ![s] = wait, ![a] = ask]
  BY DEF Post
<1>. HIDE DEF q, ask, wait
<1>6. /\ job' \in [Workers -> Jobs] /\ job'[s] = wait /\ job'[a] = ask
      /\ \A w \in Workers : w # s /\ w # a => job'[w] = job[w]
  BY <1>1, <1>4, <1>5 DEF Inv
<1>7. \A w \in Workers : Sound(w, job'[w], runs, rows)
  BY <1>3, <1>6 DEF Inv
<1>8. UNCHANGED <<runs, rows>> /\ Scalars'
  BY NoTimePassed DEF Post
<1>. QED
  BY <1>6, <1>7, <1>8 DEF Inv

LEMMA ProgressKeeps == ASSUME Inv, NEW i \in RunIds, Progress(i) PROVE Inv'
<1>1. /\ rows' = rows /\ job' = job /\ Scalars'
      /\ runs[i].status # "none"
  BY NoTimePassed DEF Progress
<1>2. /\ runs' \in [RunIds -> Run] /\ runs'[i].req = runs[i].req /\ runs'[i].status # "none"
      /\ \A j \in RunIds : j # i => runs'[j] = runs[j]
  BY DEF Progress, Inv, Data, Run
<1>3. Made(runs') = Made(runs) /\ \A j \in RunIds : runs'[j].req = runs[j].req
  BY <1>1, <1>2 DEF Made
<1>4. Kept(runs, runs', rows, rows')
  BY <1>1, <1>2 DEF Kept
<1>5. Data(runs', rows')
  <2>1. UniqueKeys(runs')
    BY <1>3 DEF Inv, Data, UniqueKeys, Made
  <2>2. \A j, r : Serves(runs', j, r) <=> Serves(runs, j, r)
    BY <1>3 DEF Serves, Made
  <2>3. Admitted(runs', rows')
    BY <1>1, <2>2 DEF Inv, Data, Admitted
  <2>. QED
    BY <1>1, <1>2, <2>1, <2>3 DEF Inv, Data
<1>6. \A w \in Workers : Sound(w, job'[w], runs', rows')
  BY <1>1, <1>4, Carried DEF Inv
<1>. QED
  BY <1>1, <1>5, <1>6 DEF Inv

LEMMA TimePassesKeeps == ASSUME Inv, TimePasses PROVE Inv'
<1>1. Scalars'
  BY Numbers DEF TimePasses, Inv, Scalars
<1>. QED
  BY <1>1 DEF TimePasses, Inv

LEMMA CrashKeeps == ASSUME Inv, NEW w \in Workers, Crash(w) PROVE Inv'
<1>1. Scalars'
  BY Numbers DEF Crash, Inv, Scalars
<1>. QED
  BY <1>1, DoneMoves DEF Crash

LEMMA StutterKeeps == ASSUME Inv, UNCHANGED vars PROVE Inv'
BY DEF vars, Inv, Scalars

-----------------------------------------------------------------------------
LEMMA InvKept == Inv /\ [Next]_vars => Inv'
<1>. SUFFICES ASSUME Inv, [Next]_vars PROVE Inv'
  OBVIOUS
<1>1. CASE \E a \in Api : (\E r \in Requests : Send(a, r)) \/ Handle(a)
  BY <1>1, SendKeeps, CheckQuotaKeeps, AdmitKeeps, FindWaitingKeeps, DeferKeeps DEF Handle
<1>2. CASE \E w \in Workers : Create(w) \/ Crash(w)
  BY <1>2, FindRunKeeps, InsertRunKeeps, CrashKeeps DEF Create
<1>3. CASE \E s \in Schedulers : Flush(s) \/ Tick(s)
  <2>1. PICK s \in Schedulers : Flush(s) \/ Tick(s)
    BY <1>3
  <2>2. CASE Flush(s)
    BY <2>2, StartFlushKeeps, ExamineKeeps, CancelRowKeeps, MarkRowKeeps DEF Flush
  <2>3. CASE Tick(s)
    BY <2>3, TakeLockKeeps, DebounceKeeps, SkipOrStopKeeps, PostKeeps DEF Tick
  <2>. QED
    BY <2>1, <2>2, <2>3
<1>4. CASE \E i \in RunIds : Progress(i)
  BY <1>4, ProgressKeeps
<1>5. CASE TimePasses
  BY <1>5, TimePassesKeeps
<1>6. CASE UNCHANGED vars
  BY <1>6, StutterKeeps
<1>. QED
  BY <1>1, <1>2, <1>3, <1>4, <1>5, <1>6 DEF Next

LEMMA Invariant == Spec => []Inv
<1>. QED
  BY InitInv, InvKept, PTL DEF Spec

\* The state of admission is typed, and a flush never runs out of its rows:
\* whatever it holds is a row of the queue (flush_deferred_admissions).
THEOREM AdmissionTypeCorrect == Spec => []AdmissionTypeOK
<1>1. Inv => AdmissionTypeOK
  BY DEF Inv, Data, Scalars, Sound, Jobs, Run, Row, AdmissionTypeOK, At
<1>. QED
  BY <1>1, Invariant, PTL

\* A keyed request has one run, whatever handlers, schedulers and crashes come
\* between: create_run's unique index decides, and a row is marked with the run
\* of its own request (admission_queue_service.py, run_service.py create_run).
THEOREM KeyedOnce == Spec => []OneRunPerKey
<1>1. Runs = Made(runs)
  BY DEF Runs, Made
<1>2. Inv => OneRunPerKey
  <2>1. ASSUME Inv, NEW d \in RowIds, rows[d].status = "admitted"
        PROVE  /\ rows[d].run \in Runs
               /\ \/ runs[rows[d].run].req = rows[d].req
                  \/ SameKey(rows[d].req, runs[rows[d].run].req)
    BY <1>1, <2>1 DEF Inv, Data, Admitted, Serves
  <2>. QED
    BY <1>1, <2>1 DEF Inv, Data, UniqueKeys, OneRunPerKey
<1>. QED
  BY <1>2, Invariant, PTL
=============================================================================
