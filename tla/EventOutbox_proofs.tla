------------------------- MODULE EventOutbox_proofs -------------------------
(***************************************************************************)
(* Theorems about EventOutbox for any number of events, handlers, drain    *)
(* loops and replay calls, and every bound.                                *)
(***************************************************************************)
EXTENDS EventOutbox, TLAPS

-----------------------------------------------------------------------------
(***************************************************************************)
(* Types.  What a loop writes to a row is the count it read, plus one: the *)
(* limit holds because only rows that are not settled are read, and a row  *)
(* at the limit is settled for good.                                       *)
(***************************************************************************)
Sound(self) ==
  /\ self \in WorkerSet
  /\ self.pc # "idle" => self.todo # << >>
  /\ self.pc = "claim" => self.handler \in Claiming
  /\ self.pc = "act" => self.handler \in Handlers
  /\ self.pc = "done" => self.handler = NumHandlers + 1

TypeInv ==
  /\ OutboxTypeOK
  /\ \A w \in Workers : Sound(worker[w])
  /\ \A e \in Events : row[e].attempts = MaxAttempts => Settled(e)

\* A worker that turns to handler h: its entry stays the same, and it acts at
\* once only if h is keyed.
LEMMA AtSound ==
  ASSUME NEW self \in WorkerSet, self.todo # << >>, NEW h \in 1..NumHandlers + 1
  PROVE  /\ Sound(At(self, h))
         /\ At(self, h).todo = self.todo
         /\ At(self, h).failed = self.failed
         /\ At(self, h).handler = h
         /\ At(self, h).pc # "idle"
         /\ At(self, h).pc = "act" => h \in Keyed
<1>0. h = NumHandlers + 1 \/ h \in Keyed \/ h \in Claiming
  BY SizesAssumption DEF Claiming, Handlers
<1>1. CASE h = NumHandlers + 1
  <2>1. h \in 0..NumHandlers + 1
    BY <1>1, SizesAssumption, KindsAssumption DEF Handlers, Claiming
  <2>2. /\ h > NumHandlers <=> h = NumHandlers + 1
        /\ h \in Keyed => h # NumHandlers + 1 /\ h \notin Claiming
        /\ h \in Claiming => h # NumHandlers + 1
    BY SizesAssumption, KindsAssumption DEF Handlers, Claiming
  <2>3. Label(h) = "done"
    BY <1>1, <2>2, Zenon DEF Label
  <2>4. At(self, h) = [self EXCEPT !.handler = h, !.pc = "done"]
    BY <2>3, Zenon DEF At
  <2>. QED
    BY <1>1, <2>1, <2>4 DEF Sound, WorkerSet
<1>2. CASE h \in Keyed
  <2>1. h \in 0..NumHandlers + 1 /\ h \in Handlers
    BY <1>2, SizesAssumption, KindsAssumption DEF Handlers, Claiming
  <2>2. /\ h > NumHandlers <=> h = NumHandlers + 1
        /\ h \in Keyed => h # NumHandlers + 1 /\ h \notin Claiming
        /\ h \in Claiming => h # NumHandlers + 1
    BY SizesAssumption, KindsAssumption DEF Handlers, Claiming
  <2>3. Label(h) = "act"
    BY <1>2, <2>2, Zenon DEF Label
  <2>4. At(self, h) = [self EXCEPT !.handler = h, !.pc = "act"]
    BY <2>3, Zenon DEF At
  <2>. QED
    BY <1>2, <2>1, <2>4 DEF Sound, WorkerSet
<1>3. CASE h \in Claiming
  <2>1. h \in 0..NumHandlers + 1 /\ h \in Handlers
    BY <1>3, SizesAssumption, KindsAssumption DEF Handlers, Claiming
  <2>2. /\ h > NumHandlers <=> h = NumHandlers + 1
        /\ h \in Keyed => h # NumHandlers + 1 /\ h \notin Claiming
        /\ h \in Claiming => h # NumHandlers + 1
    BY SizesAssumption, KindsAssumption DEF Handlers, Claiming
  <2>3. Label(h) = "claim"
    BY <1>3, <2>2, Zenon DEF Label
  <2>4. At(self, h) = [self EXCEPT !.handler = h, !.pc = "claim"]
    BY <2>3, Zenon DEF At
  <2>. QED
    BY <1>3, <2>1, <2>4 DEF Sound, WorkerSet
<1>. QED
  BY <1>0, <1>1, <1>2, <1>3

\* A worker that begins with todo has acted on nothing, and stands at the
\* first handler unless the envelope could not be decoded.
LEMMA StartOnSound ==
  ASSUME NEW todo \in Seq(Entries), NEW mark \in BOOLEAN
  PROVE  /\ Sound(StartOn(todo, mark))
         /\ StartOn(todo, mark).pc = "act" => StartOn(todo, mark).handler \in Keyed
         /\ StartOn(todo, mark).pc # "idle" /\ ~StartOn(todo, mark).failed =>
              StartOn(todo, mark).handler = 1
<1>. DEFINE fresh == [pc |-> "idle", todo |-> todo, handler |-> 0,
                      failed |-> FALSE, mark |-> mark]
<1>1. fresh \in WorkerSet /\ fresh.todo = todo
  BY SizesAssumption DEF WorkerSet
<1>2. CASE todo = << >>
  BY <1>2, SizesAssumption DEF StartOn, Idle, Sound, WorkerSet
<1>3. CASE todo # << >> /\ Head(todo).event \in Poison
  <2>. DEFINE last == At(fresh, NumHandlers + 1)
  <2>1. Sound(last) /\ last.pc = "done"
    <3>1. NumHandlers + 1 \in 1..NumHandlers + 1
      BY SizesAssumption
    <3>2. Sound(last) /\ last.handler = NumHandlers + 1 /\ last.pc # "idle"
      BY <1>1, <1>3, <3>1, AtSound
    <3>. HIDE DEF last
    <3>. QED
      BY <3>2, SizesAssumption DEF Sound, WorkerSet, Claiming, Handlers
  <2>2. StartOn(todo, mark) = [last EXCEPT !.failed = TRUE]
    BY <1>3 DEF StartOn
  <2>. QED
    BY <2>1, <2>2 DEF Sound, WorkerSet
<1>4. CASE todo # << >> /\ Head(todo).event \notin Poison
  <2>1. StartOn(todo, mark) = At(fresh, 1)
    BY <1>4 DEF StartOn
  <2>. QED
    BY <2>1, <1>1, <1>4, AtSound, SizesAssumption
<1>. QED
  BY <1>2, <1>3, <1>4

\* A worker that is through with a handler goes to a later one, keeps its
\* entry, and remembers any failure.
LEMMA AfterSound ==
  ASSUME NEW self, Sound(self), self.pc \in {"claim", "act"},
         NEW result \in {"ok", "timeout", "raised"}
  PROVE  /\ Sound(After(self, result))
         /\ After(self, result).todo = self.todo
         /\ After(self, result).pc # "idle"
         /\ After(self, result).pc = "act" => After(self, result).handler \in Keyed
         /\ ~After(self, result).failed =>
              /\ result = "ok"
              /\ ~self.failed
              /\ After(self, result).handler = self.handler + 1
<1>. DEFINE next == IF result = "raised" /\ self.handler \in Projections
                    THEN NumHandlers + 1 ELSE self.handler + 1
            noted == [self EXCEPT !.failed = @ \/ result # "ok"]
<1>1. self.handler \in Handlers
  BY DEF Sound, Claiming
<1>2. next \in 1..NumHandlers + 1
  BY <1>1, SizesAssumption DEF Handlers
<1>3. noted \in WorkerSet /\ noted.todo = self.todo /\ noted.todo # << >>
      /\ noted.failed = (self.failed \/ result # "ok")
  BY DEF Sound, WorkerSet
<1>4. After(self, result) = At(noted, next)
  BY DEF After
<1>. HIDE DEF next, noted
<1>5. /\ Sound(At(noted, next))
      /\ At(noted, next).todo = noted.todo
      /\ At(noted, next).failed = noted.failed
      /\ At(noted, next).handler = next
      /\ At(noted, next).pc # "idle"
      /\ At(noted, next).pc = "act" => next \in Keyed
  BY <1>2, <1>3, AtSound
<1>. QED
  BY <1>3, <1>4, <1>5 DEF next

\* The row a worker has in hand.
LEMMA CurrentType ==
  ASSUME TypeInv, NEW w \in Workers, worker[w].pc # "idle"
  PROVE  /\ worker[w].todo \in Seq(Entries)
         /\ Current(w) \in Entries
         /\ EventOf(w) \in Events
         /\ Tail(worker[w].todo) \in Seq(Entries)
<1>1. Sound(worker[w])
  BY DEF TypeInv
<1>2. worker[w].todo \in Seq(Entries) /\ worker[w].todo # << >>
  BY <1>1 DEF Sound, WorkerSet
<1>3. Current(w) \in Entries /\ Tail(worker[w].todo) \in Seq(Entries)
  BY <1>2 DEF Current
<1>. QED
  BY <1>2, <1>3 DEF EventOf, Entries

\* A step that changes one worker, and of the rows at most keeps them at or
\* brings them to what the invariant asks.
LEMMA WorkerStep ==
  ASSUME TypeInv, NEW w \in Workers, NEW self, Sound(self),
         worker' = [worker EXCEPT ![w] = self]
  PROVE  /\ worker' \in [Workers -> WorkerSet]
         /\ \A v \in Workers : Sound(worker'[v])
BY DEF TypeInv, OutboxTypeOK, Sound

LEMMA TypeInit ==
  ASSUME Init
  PROVE  TypeInv
<1>1. Sound(Idle)
  BY SizesAssumption DEF Idle, Sound, WorkerSet
<1>2. \A e \in Events : row[e].attempts = 0
  BY DEF Init, Unpublished
<1>. QED
  BY <1>1, <1>2, SizesAssumption
     DEF Init, TypeInv, OutboxTypeOK, RowSet, Unpublished, Sound

LEMMA PublishType ==
  ASSUME TypeInv, NEW e \in Events, Publish(e)
  PROVE  TypeInv'
BY DEF TypeInv, OutboxTypeOK, RowSet, Publish, Sound, Settled

LEMMA FetchType ==
  ASSUME TypeInv, NEW d \in Drainers, Fetch(d)
  PROVE  TypeInv'
<1>0. PICK n \in 1..Batch : \E batch \in [1..n -> Pending] :
        worker' = [worker EXCEPT ![d] = StartOn(
          [i \in 1..n |->
             [event |-> batch[i], attempts |-> row[batch[i]].attempts]], FALSE)]
  BY DEF Fetch
<1>1. PICK batch \in [1..n -> Pending] :
        worker' = [worker EXCEPT ![d] = StartOn(
          [i \in 1..n |->
             [event |-> batch[i], attempts |-> row[batch[i]].attempts]], FALSE)]
  BY <1>0
<1>. DEFINE todo == [i \in 1..n |->
               [event |-> batch[i], attempts |-> row[batch[i]].attempts]]
<1>2. \A e \in Pending :
        [event |-> e, attempts |-> row[e].attempts] \in Entries
  BY SizesAssumption DEF Pending, TypeInv, OutboxTypeOK, RowSet, Entries
<1>3. todo \in Seq(Entries)
  BY <1>2, SizesAssumption
<1>. HIDE DEF todo
<1>4. Sound(StartOn(todo, FALSE))
  BY <1>3, StartOnSound
<1>5. worker' = [worker EXCEPT ![d] = StartOn(todo, FALSE)]
  BY <1>1 DEF todo
<1>. QED
  BY <1>4, <1>5, WorkerStep
     DEF Fetch, TypeInv, OutboxTypeOK, Settled, Workers

LEMMA ClaimWonType ==
  ASSUME TypeInv, NEW w \in Workers, ClaimWon(w)
  PROVE  TypeInv'
<1>1. worker[w].pc = "claim" /\ Sound(worker[w]) /\ EventOf(w) \in Events
  BY CurrentType DEF ClaimWon, TypeInv
<1>2. Sound([worker[w] EXCEPT !.pc = "act"])
  BY <1>1 DEF Sound, WorkerSet, Claiming
<1>3. worker' = [worker EXCEPT ![w] = [worker[w] EXCEPT !.pc = "act"]]
  BY DEF ClaimWon
<1>4. acks' \in [Events -> SUBSET Claiming]
  BY <1>1 DEF ClaimWon, TypeInv, OutboxTypeOK, Sound
<1>. QED
  BY <1>2, <1>3, <1>4, WorkerStep DEF ClaimWon, TypeInv, OutboxTypeOK, Settled

LEMMA ClaimLostType ==
  ASSUME TypeInv, NEW w \in Workers, ClaimLost(w)
  PROVE  TypeInv'
<1>1. PICK result \in {"ok", "timeout"} :
        worker' = [worker EXCEPT ![w] = After(worker[w], result)]
  BY DEF ClaimLost, TypeInv, OutboxTypeOK
<1>2. Sound(After(worker[w], result))
  BY AfterSound DEF ClaimLost, TypeInv
<1>. QED
  BY <1>1, <1>2, WorkerStep DEF ClaimLost, TypeInv, OutboxTypeOK, Settled

LEMMA ClaimErrorType ==
  ASSUME TypeInv, NEW w \in Workers, ClaimError(w)
  PROVE  TypeInv'
<1>1. worker[w].pc = "claim" /\ Sound(worker[w]) /\ EventOf(w) \in Events
  BY CurrentType DEF ClaimError, TypeInv
<1>2. Sound([worker[w] EXCEPT !.pc = "act"])
  BY <1>1 DEF Sound, WorkerSet, Claiming
<1>3. worker' = [worker EXCEPT ![w] = [worker[w] EXCEPT !.pc = "act"]]
  BY DEF ClaimError
<1>4. blind' \in [Events -> SUBSET Claiming]
  BY <1>1 DEF ClaimError, TypeInv, OutboxTypeOK, Sound
<1>5. faults' \in 0..MaxFaults
  BY SizesAssumption DEF ClaimError, Fault, TypeInv, OutboxTypeOK
<1>. QED
  BY <1>2, <1>3, <1>4, <1>5, WorkerStep
     DEF ClaimError, TypeInv, OutboxTypeOK, Settled

LEMMA ActType ==
  ASSUME TypeInv, NEW w \in Workers, Act(w)
  PROVE  TypeInv'
<1>1. PICK result \in {"ok", "timeout", "raised"} :
        /\ worker' = [worker EXCEPT ![w] = After(worker[w], result)]
        /\ effects' = IF result = "raised" THEN effects
             ELSE [effects EXCEPT ![EventOf(w)][worker[w].handler] =
                     Acted(effects[EventOf(w)][worker[w].handler],
                           worker[w].handler)]
  BY DEF Act, TypeInv, OutboxTypeOK
<1>2. Sound(After(worker[w], result))
  BY AfterSound DEF Act, TypeInv
<1>3. effects' \in [Events -> [Handlers -> Nat]]
  <2>1. EventOf(w) \in Events /\ worker[w].handler \in Handlers
    BY CurrentType DEF Act, TypeInv, Sound
  <2>2. effects \in [Events -> [Handlers -> Nat]]
    BY DEF TypeInv, OutboxTypeOK
  <2>3. Acted(effects[EventOf(w)][worker[w].handler], worker[w].handler) \in Nat
    BY <2>1, <2>2 DEF Acted
  <2>. QED
    BY <1>1, <2>1, <2>2, <2>3
<1>. QED
  BY <1>1, <1>2, <1>3, WorkerStep DEF Act, TypeInv, OutboxTypeOK, Settled

LEMMA MarkErrorType ==
  ASSUME TypeInv, NEW w \in Workers, MarkError(w)
  PROVE  TypeInv'
<1>1. Sound([worker[w] EXCEPT !.failed = TRUE])
  BY DEF MarkError, TypeInv, Sound, WorkerSet
<1>2. worker' = [worker EXCEPT ![w] = [worker[w] EXCEPT !.failed = TRUE]]
  BY DEF MarkError
<1>3. faults' \in 0..MaxFaults
  BY SizesAssumption DEF MarkError, Fault, TypeInv, OutboxTypeOK
<1>. QED
  BY <1>1, <1>2, <1>3, WorkerStep DEF MarkError, TypeInv, OutboxTypeOK, Settled

LEMMA RecordDeliveredType ==
  ASSUME TypeInv, NEW d \in Drainers, RecordDelivered(d)
  PROVE  TypeInv'
<1>1. d \in Workers /\ EventOf(d) \in Events /\ Tail(worker[d].todo) \in Seq(Entries)
  BY CurrentType DEF RecordDelivered, Workers
<1>2. Sound(StartOn(Tail(worker[d].todo), FALSE))
  BY <1>1, StartOnSound
<1>3. worker' = [worker EXCEPT ![d] = StartOn(Tail(worker[d].todo), FALSE)]
  BY DEF RecordDelivered
<1>. HIDE DEF EventOf
<1>. QED
  BY <1>1, <1>2, <1>3, WorkerStep
     DEF RecordDelivered, TypeInv, OutboxTypeOK, RowSet, Settled

LEMMA RowFields ==
  ASSUME NEW r \in RowSet, NEW a \in 0..MaxAttempts, NEW b \in BOOLEAN
  PROVE  [r EXCEPT !.attempts = a, !.dlq = b] \in RowSet
BY DEF RowSet

LEMMA RecordFailureType ==
  ASSUME TypeInv, NEW d \in Drainers, RecordFailure(d)
  PROVE  TypeInv'
<1>. DEFINE attempts == Current(d).attempts + 1
<1>1. /\ d \in Workers
      /\ EventOf(d) \in Events
      /\ Current(d) \in Entries
      /\ Tail(worker[d].todo) \in Seq(Entries)
  BY CurrentType DEF RecordFailure, Workers
<1>2. attempts \in 0..MaxAttempts
  BY <1>1, SizesAssumption DEF Entries
<1>3. Sound(StartOn(Tail(worker[d].todo), FALSE))
  BY <1>1, StartOnSound
<1>4. /\ row' = [row EXCEPT ![EventOf(d)].attempts = attempts,
                            ![EventOf(d)].dlq = @ \/ attempts >= MaxAttempts]
      /\ worker' = [worker EXCEPT ![d] = StartOn(Tail(worker[d].todo), FALSE)]
      /\ UNCHANGED <<acks, blind, effects, replays, faults>>
  BY DEF RecordFailure
<1>. HIDE DEF attempts
<1>. DEFINE over == row[EventOf(d)].dlq \/ attempts >= MaxAttempts
<1>5. over \in BOOLEAN /\ (attempts = MaxAttempts => over)
  BY <1>2, SizesAssumption DEF attempts
<1>6. /\ row' = [row EXCEPT ![EventOf(d)] =
                   [row[EventOf(d)] EXCEPT !.attempts = attempts, !.dlq = over]]
      /\ row \in [Events -> RowSet]
  BY <1>4 DEF TypeInv, OutboxTypeOK
<1>. HIDE DEF over
<1>7. [row[EventOf(d)] EXCEPT !.attempts = attempts, !.dlq = over] \in RowSet
  BY <1>1, <1>2, <1>5, <1>6, RowFields
<1>8. row' \in [Events -> RowSet]
  BY <1>6, <1>7
<1>9. \A e \in Events :
        row'[e].attempts = MaxAttempts => row'[e].delivered \/ row'[e].dlq
  BY <1>1, <1>5, <1>6 DEF TypeInv, Settled, RowSet
<1>. QED
  BY <1>1, <1>3, <1>4, <1>8, <1>9, WorkerStep DEF TypeInv, OutboxTypeOK, Settled

LEMMA ReplayType ==
  ASSUME TypeInv, NEW c \in Replayers, NEW e \in Events, NEW mark \in BOOLEAN,
         Replay(c, e, mark)
  PROVE  TypeInv'
<1>1. <<[event |-> e, attempts |-> 0]>> \in Seq(Entries)
  BY SizesAssumption DEF Entries
<1>2. Sound(StartOn(<<[event |-> e, attempts |-> 0]>>, mark))
  BY <1>1, StartOnSound
<1>3. c \in Workers /\ replays' \in 0..MaxReplays
  BY SizesAssumption DEF Replay, TypeInv, OutboxTypeOK, Workers
<1>4. worker' = [worker EXCEPT
        ![c] = StartOn(<<[event |-> e, attempts |-> 0]>>, mark)]
  BY DEF Replay
<1>. QED
  BY <1>2, <1>3, <1>4, WorkerStep DEF Replay, TypeInv, OutboxTypeOK, Settled

LEMMA IdleSound == Sound(Idle)
BY SizesAssumption DEF Idle, Sound, WorkerSet

LEMMA RecordReplayType ==
  ASSUME TypeInv, NEW c \in Replayers, RecordReplay(c)
  PROVE  TypeInv'
<1>1. c \in Workers /\ EventOf(c) \in Events
  BY CurrentType DEF RecordReplay, Workers
<1>2. worker' = [worker EXCEPT ![c] = Idle]
  BY DEF RecordReplay
<1>3. row' \in [Events -> RowSet]
  BY <1>1 DEF RowSet, RecordReplay, TypeInv, OutboxTypeOK
<1>4. \A e \in Events :
        /\ row'[e].attempts = row[e].attempts
        /\ Settled(e) => row'[e].delivered \/ row'[e].dlq
  BY <1>1 DEF RecordReplay, TypeInv, OutboxTypeOK, RowSet, Settled
<1>. QED
  BY <1>1, <1>2, <1>3, <1>4, IdleSound, WorkerStep
     DEF RecordReplay, TypeInv, OutboxTypeOK, Settled

LEMMA CrashType ==
  ASSUME TypeInv, NEW w \in Workers, Crash(w)
  PROVE  TypeInv'
<1>1. faults' \in 0..MaxFaults
  BY SizesAssumption DEF Crash, Fault, TypeInv, OutboxTypeOK
<1>2. worker' = [worker EXCEPT ![w] = Idle]
  BY DEF Crash
<1>. QED
  BY <1>1, <1>2, IdleSound, WorkerStep DEF Crash, TypeInv, OutboxTypeOK, Settled

LEMMA TypeStutter ==
  ASSUME TypeInv, UNCHANGED vars
  PROVE  TypeInv'
BY DEF vars, TypeInv, OutboxTypeOK, Sound, Settled

\* The strengthened type invariant is kept by every step.
LEMMA TypeNext == TypeInv /\ [Next]_vars => TypeInv'
<1>. SUFFICES ASSUME TypeInv, [Next]_vars
              PROVE  TypeInv'
  OBVIOUS
<1>. USE DEF Workers
<1>1. ASSUME NEW e \in Events, Publish(e) PROVE TypeInv'
  BY <1>1, PublishType
<1>2. ASSUME NEW d \in Drainers, Fetch(d) PROVE TypeInv'
  BY <1>2, FetchType
<1>3. ASSUME NEW w \in Workers, Dispatch(w) PROVE TypeInv'
  BY <1>3, ClaimWonType, ClaimLostType, ActType DEF Dispatch
<1>4. ASSUME NEW d \in Drainers, RecordDelivered(d) PROVE TypeInv'
  BY <1>4, RecordDeliveredType
<1>5. ASSUME NEW d \in Drainers, RecordFailure(d) PROVE TypeInv'
  BY <1>5, RecordFailureType
<1>6. ASSUME NEW c \in Replayers, NEW e \in Events, NEW mark \in BOOLEAN,
             Replay(c, e, mark)
      PROVE  TypeInv'
  BY <1>6, ReplayType
<1>7. ASSUME NEW c \in Replayers, RecordReplay(c) PROVE TypeInv'
  BY <1>7, RecordReplayType
<1>8. ASSUME NEW w \in Workers, ClaimError(w) \/ MarkError(w) \/ Crash(w)
      PROVE  TypeInv'
  BY <1>8, ClaimErrorType, MarkErrorType, CrashType
<1>9. ASSUME UNCHANGED vars PROVE TypeInv'
  BY <1>9, TypeStutter
<1>. QED
  BY <1>1, <1>2, <1>3, <1>4, <1>5, <1>6, <1>7, <1>8, <1>9
     DEF Next, DrainStep

LEMMA TypeInvHolds == Spec => []TypeInv
BY TypeInit, TypeNext, PTL DEF Spec

\* The variables always have their types: no row collects more than
\* MaxAttempts attempts.
THEOREM OutboxTypeCorrect == Spec => []OutboxTypeOK
<1>1. TypeInv => OutboxTypeOK
  BY DEF TypeInv
<1>. QED
  BY <1>1, TypeInvHolds, PTL

-----------------------------------------------------------------------------
(* Settled rows.                                                           *)

LEMMA SettledStep ==
  ASSUME TypeInv, [Next]_vars, NEW e \in Events, Settled(e)
  PROVE  Settled(e)'
<1>. USE DEF Settled
<1>1. ASSUME UNCHANGED row PROVE Settled(e)'
  BY <1>1
<1>2. ASSUME NEW f \in Events, Publish(f) PROVE Settled(e)'
  BY <1>2 DEF Publish, TypeInv, OutboxTypeOK, RowSet
<1>3. ASSUME NEW d \in Drainers, RecordDelivered(d) PROVE Settled(e)'
  <2>1. EventOf(d) \in Events
    BY <1>3, CurrentType DEF RecordDelivered, Workers
  <2>. QED
    BY <1>3, <2>1 DEF RecordDelivered, TypeInv, OutboxTypeOK, RowSet
<1>4. ASSUME NEW d \in Drainers, RecordFailure(d) PROVE Settled(e)'
  <2>1. EventOf(d) \in Events
    BY <1>4, CurrentType DEF RecordFailure, Workers
  <2>. QED
    BY <1>4, <2>1 DEF RecordFailure, TypeInv, OutboxTypeOK, RowSet
<1>5. ASSUME NEW c \in Replayers, RecordReplay(c) PROVE Settled(e)'
  <2>1. EventOf(c) \in Events
    BY <1>5, CurrentType DEF RecordReplay, Workers
  <2>. QED
    BY <1>5, <2>1 DEF RecordReplay, TypeInv, OutboxTypeOK, RowSet
<1>. QED
  BY <1>1, <1>2, <1>3, <1>4, <1>5
     DEF Next, DrainStep, Dispatch, Fetch, ClaimWon, ClaimLost, Act, Replay,
         ClaimError, MarkError, Crash, vars

\* A settled row stays settled, whatever the other loops and replays do.
THEOREM SettledStays == Spec => SettledIsStable
<1>1. TypeInv /\ [Next]_vars =>
        [\A e \in Events : Settled(e) => Settled(e)']_vars
  BY SettledStep
<1>. QED
  BY <1>1, TypeInvHolds, PTL DEF Spec, SettledIsStable

-----------------------------------------------------------------------------
(***************************************************************************)
(* At most once.  The ack is the right to act: as long as no ack of a      *)
(* handler failed to be written, whoever acts on an event for it holds the *)
(* ack, holds it alone, and nobody acted before.                           *)
(***************************************************************************)
Acting(w, e, h) ==
  worker[w].pc = "act" /\ EventOf(w) = e /\ worker[w].handler = h

OnceInv ==
  \A e \in Events :
    /\ \A h \in Keyed : effects[e][h] <= 1
    /\ \A h \in Claiming \ blind[e] :
         /\ effects[e][h] <= 1
         /\ h \notin acks[e] => effects[e][h] = 0
         /\ \A w \in Workers : Acting(w, e, h) => h \in acks[e] /\ effects[e][h] = 0
         /\ \A v, w \in Workers : Acting(v, e, h) /\ Acting(w, e, h) => v = w

\* A step that begins with a row, or leaves the worker idle.
Starts(w) ==
  \/ w \in Drainers /\ (Fetch(w) \/ RecordDelivered(w) \/ RecordFailure(w))
  \/ w \in Replayers /\ RecordReplay(w)
  \/ w \in Replayers /\ \E e \in Events, mark \in BOOLEAN : Replay(w, e, mark)
  \/ Crash(w)

\* After such a step the worker stands at the first handler, unless the
\* envelope could not be decoded, and acts only for a keyed one.
LEMMA StartsAnew ==
  ASSUME TypeInv, NEW w \in Workers, Starts(w)
  PROVE  /\ UNCHANGED <<acks, blind, effects>>
         /\ \E self :
              /\ worker' = [worker EXCEPT ![w] = self]
              /\ self.pc = "act" => self.handler \in Keyed
              /\ self.pc # "idle" /\ ~self.failed => self.handler = 1
<1>0. UNCHANGED <<acks, blind, effects>>
  BY DEF Starts, Fetch, RecordDelivered, RecordFailure, RecordReplay, Replay, Crash
<1>. SUFFICES \E self :
              /\ worker' = [worker EXCEPT ![w] = self]
              /\ self.pc = "act" => self.handler \in Keyed
              /\ self.pc # "idle" /\ ~self.failed => self.handler = 1
  BY <1>0
<1>1. CASE Fetch(w)
  <2>1. PICK n \in 1..Batch : \E batch \in [1..n -> Pending] :
          worker' = [worker EXCEPT ![w] = StartOn(
            [i \in 1..n |->
               [event |-> batch[i], attempts |-> row[batch[i]].attempts]], FALSE)]
    BY <1>1 DEF Fetch
  <2>2. PICK batch \in [1..n -> Pending] :
          worker' = [worker EXCEPT ![w] = StartOn(
            [i \in 1..n |->
               [event |-> batch[i], attempts |-> row[batch[i]].attempts]], FALSE)]
    BY <2>1
  <2>. DEFINE todo == [i \in 1..n |->
                 [event |-> batch[i], attempts |-> row[batch[i]].attempts]]
  <2>3. todo \in Seq(Entries)
    BY SizesAssumption
       DEF Pending, Settled, TypeInv, OutboxTypeOK, RowSet, Entries
  <2>4. worker' = [worker EXCEPT ![w] = StartOn(todo, FALSE)]
    BY <2>2
  <2>. HIDE DEF todo
  <2>. QED
    BY <2>3, <2>4, StartOnSound
<1>2. CASE w \in Drainers /\ (RecordDelivered(w) \/ RecordFailure(w))
  <2>1. Tail(worker[w].todo) \in Seq(Entries)
    BY <1>2, CurrentType DEF RecordDelivered, RecordFailure
  <2>2. worker' = [worker EXCEPT ![w] = StartOn(Tail(worker[w].todo), FALSE)]
    BY <1>2 DEF RecordDelivered, RecordFailure
  <2>. QED
    BY <2>1, <2>2, StartOnSound
<1>3. CASE RecordReplay(w) \/ Crash(w)
  <2>1. worker' = [worker EXCEPT ![w] = Idle]
    BY <1>3 DEF RecordReplay, Crash
  <2>2. Idle.pc = "idle"
    BY DEF Idle
  <2>. QED
    BY <2>1, <2>2
<1>4. CASE \E e \in Events, mark \in BOOLEAN : Replay(w, e, mark)
  <2>1. PICK e \in Events, mark \in BOOLEAN : Replay(w, e, mark)
    BY <1>4
  <2>. DEFINE todo == <<[event |-> e, attempts |-> 0]>>
  <2>2. todo \in Seq(Entries)
    BY SizesAssumption DEF Entries
  <2>3. worker' = [worker EXCEPT ![w] = StartOn(todo, mark)]
    BY <2>1 DEF Replay
  <2>. HIDE DEF todo
  <2>. QED
    BY <2>2, <2>3, StartOnSound
<1>. QED
  BY <1>1, <1>2, <1>3, <1>4 DEF Starts

LEMMA OnceInit ==
  ASSUME Init
  PROVE  OnceInv
BY KindsAssumption, SizesAssumption
   DEF Init, OnceInv, Acting, Idle, Handlers, Claiming

\* A step that writes no ack and no effect, after which its worker acts at
\* most for a keyed handler.
LEMMA OnceQuiet ==
  ASSUME TypeInv, OnceInv, NEW w \in Workers, NEW self,
         worker' = [worker EXCEPT ![w] = self],
         self.pc = "act" => self.handler \in Keyed,
         UNCHANGED <<acks, blind, effects>>
  PROVE  OnceInv'
<1>1. \A v \in Workers, e \in Events, h \in Claiming :
        Acting(v, e, h)' => v # w /\ Acting(v, e, h)
  BY DEF TypeInv, OutboxTypeOK, Acting, EventOf, Current, Claiming
<1>. QED
  BY <1>1 DEF OnceInv

LEMMA OnceClaimWon ==
  ASSUME TypeInv, OnceInv, NEW w \in Workers, ClaimWon(w)
  PROVE  OnceInv'
<1>. DEFINE f == EventOf(w)
            g == worker[w].handler
<1>1. f \in Events /\ g \in Claiming /\ g \notin acks[f]
  BY CurrentType DEF ClaimWon, TypeInv, Sound
<1>2. /\ acks' = [acks EXCEPT ![f] = @ \cup {g}]
      /\ UNCHANGED <<blind, effects>>
      /\ acks \in [Events -> SUBSET Claiming]
  BY DEF ClaimWon, TypeInv, OutboxTypeOK
<1>3. \A v \in Workers, e \in Events, h \in Claiming :
        Acting(v, e, h)' =>
          \/ v # w /\ Acting(v, e, h)
          \/ v = w /\ e = f /\ h = g
  BY DEF ClaimWon, TypeInv, OutboxTypeOK, WorkerSet, Acting, EventOf, Current
<1>. HIDE DEF f, g
<1>4. ASSUME NEW e \in Events, NEW h \in Claiming \ blind[e]
      PROVE  /\ effects[e][h] <= 1
             /\ h \notin acks'[e] => effects[e][h] = 0
             /\ \A v \in Workers :
                  Acting(v, e, h)' => h \in acks'[e] /\ effects[e][h] = 0
             /\ \A v, u \in Workers : Acting(v, e, h)' /\ Acting(u, e, h)' => v = u
  BY <1>1, <1>2, <1>3, <1>4 DEF OnceInv
<1>. QED
  BY <1>2, <1>4 DEF OnceInv

LEMMA OnceClaimError ==
  ASSUME TypeInv, OnceInv, NEW w \in Workers, ClaimError(w)
  PROVE  OnceInv'
<1>. DEFINE f == EventOf(w)
            g == worker[w].handler
<1>1. f \in Events /\ g \in Claiming
  BY CurrentType DEF ClaimError, TypeInv, Sound
<1>2. /\ blind' = [blind EXCEPT ![f] = @ \cup {g}]
      /\ UNCHANGED <<acks, effects>>
      /\ blind \in [Events -> SUBSET Claiming]
  BY DEF ClaimError, TypeInv, OutboxTypeOK
<1>3. \A v \in Workers, e \in Events, h \in Claiming :
        Acting(v, e, h)' =>
          \/ v # w /\ Acting(v, e, h)
          \/ v = w /\ e = f /\ h = g
  BY DEF ClaimError, TypeInv, OutboxTypeOK, WorkerSet, Acting, EventOf, Current
<1>. HIDE DEF f, g
<1>. QED
  BY <1>1, <1>2, <1>3 DEF OnceInv

LEMMA OnceAct ==
  ASSUME TypeInv, OnceInv, NEW w \in Workers, Act(w)
  PROVE  OnceInv'
<1>. DEFINE f == EventOf(w)
            g == worker[w].handler
<1>0. PICK result \in {"ok", "timeout", "raised"} :
        /\ worker' = [worker EXCEPT ![w] = After(worker[w], result)]
        /\ effects' = IF result = "raised" THEN effects
             ELSE [effects EXCEPT ![f][g] = Acted(effects[f][g], g)]
  BY DEF Act, TypeInv, OutboxTypeOK
<1>1. f \in Events /\ g \in Handlers /\ Acting(w, f, g)
  BY CurrentType DEF Act, TypeInv, Sound, Acting
<1>2. UNCHANGED <<acks, blind>> /\ effects \in [Events -> [Handlers -> Nat]]
  BY DEF Act, TypeInv, OutboxTypeOK
<1>3. After(worker[w], result).pc = "act" => After(worker[w], result).handler \in Keyed
  BY AfterSound DEF Act, TypeInv
<1>4. \A v \in Workers, e \in Events, h \in Claiming :
        Acting(v, e, h)' => v # w /\ Acting(v, e, h)
  BY <1>0, <1>3 DEF TypeInv, OutboxTypeOK, Acting, EventOf, Current, Claiming
<1>5. \A e \in Events, h \in Handlers :
        \/ effects'[e][h] = effects[e][h]
        \/ e = f /\ h = g /\ effects'[e][h] = Acted(effects[f][g], g)
  BY <1>0, <1>1, <1>2
<1>. HIDE DEF f, g
<1>6. ASSUME NEW e \in Events, NEW h \in Keyed PROVE effects'[e][h] <= 1
  <2>1. h \in Handlers
    BY KindsAssumption, SizesAssumption DEF Handlers
  <2>. QED
    BY <1>5, <2>1 DEF OnceInv, Acted
<1>7. ASSUME NEW e \in Events, NEW h \in Claiming \ blind[e]
      PROVE  /\ effects'[e][h] <= 1
             /\ h \notin acks[e] => effects'[e][h] = 0
             /\ \A v \in Workers :
                  Acting(v, e, h)' => h \in acks[e] /\ effects'[e][h] = 0
             /\ \A v, u \in Workers : Acting(v, e, h)' /\ Acting(u, e, h)' => v = u
  <2>1. h \in Handlers
    BY DEF Claiming
  <2>2. CASE e = f /\ h = g
    <3>1. effects[e][h] = 0 /\ h \in acks[e]
      BY <1>1, <1>7, <2>2 DEF OnceInv
    <3>2. effects'[e][h] <= 1
      BY <1>5, <2>1, <2>2, <3>1 DEF Acted
    <3>3. \A v \in Workers : ~Acting(v, e, h)'
      BY <1>1, <1>4, <1>7, <2>2 DEF OnceInv
    <3>. QED
      BY <3>1, <3>2, <3>3
  <2>3. CASE ~(e = f /\ h = g)
    <3>1. effects'[e][h] = effects[e][h]
      BY <1>5, <2>1, <2>3
    <3>. QED
      BY <1>4, <1>7, <3>1 DEF OnceInv
  <2>. QED
    BY <2>2, <2>3
<1>. QED
  BY <1>2, <1>6, <1>7 DEF OnceInv

\* The other steps leave their worker idle, at a claim, done, or acting for a
\* keyed handler.
LEMMA OnceOther ==
  ASSUME TypeInv, OnceInv, NEW w \in Workers,
         Starts(w) \/ ClaimLost(w) \/ MarkError(w)
  PROVE  OnceInv'
<1>1. CASE Starts(w)
  BY <1>1, StartsAnew, OnceQuiet
<1>2. CASE ClaimLost(w)
  <2>1. PICK result \in {"ok", "timeout"} :
          worker' = [worker EXCEPT ![w] = After(worker[w], result)]
    BY <1>2 DEF ClaimLost, TypeInv, OutboxTypeOK
  <2>2. After(worker[w], result).pc = "act" =>
          After(worker[w], result).handler \in Keyed
    BY <1>2, AfterSound DEF ClaimLost, TypeInv
  <2>. QED
    BY <1>2, <2>1, <2>2, OnceQuiet DEF ClaimLost
<1>3. CASE MarkError(w)
  <2>1. worker' = [worker EXCEPT ![w] = [worker[w] EXCEPT !.failed = TRUE]]
    BY <1>3 DEF MarkError
  <2>2. [worker[w] EXCEPT !.failed = TRUE].pc # "act"
    BY <1>3 DEF MarkError, TypeInv, Sound, WorkerSet
  <2>. QED
    BY <1>3, <2>1, <2>2, OnceQuiet DEF MarkError
<1>. QED
  BY <1>1, <1>2, <1>3

LEMMA OnceNext == TypeInv /\ OnceInv /\ [Next]_vars => OnceInv'
<1>. SUFFICES ASSUME TypeInv, OnceInv, [Next]_vars
              PROVE  OnceInv'
  OBVIOUS
<1>. USE DEF Workers
<1>1. ASSUME UNCHANGED <<worker, acks, blind, effects>> PROVE OnceInv'
  BY <1>1 DEF OnceInv, Acting, EventOf, Current
<1>2. ASSUME NEW e \in Events, Publish(e) PROVE OnceInv'
  BY <1>1, <1>2 DEF Publish
<1>3. ASSUME NEW w \in Workers, Dispatch(w) PROVE OnceInv'
  BY <1>3, OnceClaimWon, OnceOther, OnceAct DEF Dispatch
<1>4. ASSUME NEW d \in Drainers, Fetch(d) \/ RecordDelivered(d) \/ RecordFailure(d)
      PROVE  OnceInv'
  BY <1>4, OnceOther DEF Starts
<1>5. ASSUME NEW c \in Replayers, NEW e \in Events, NEW mark \in BOOLEAN,
             Replay(c, e, mark)
      PROVE  OnceInv'
  BY <1>5, OnceOther DEF Starts
<1>6. ASSUME NEW c \in Replayers, RecordReplay(c) PROVE OnceInv'
  BY <1>6, OnceOther DEF Starts
<1>7. ASSUME NEW w \in Workers, ClaimError(w) \/ MarkError(w) \/ Crash(w)
      PROVE  OnceInv'
  BY <1>7, OnceClaimError, OnceOther DEF Starts
<1>8. ASSUME UNCHANGED vars PROVE OnceInv'
  BY <1>1, <1>8 DEF vars
<1>. QED
  BY <1>2, <1>3, <1>4, <1>5, <1>6, <1>7, <1>8 DEF Next, DrainStep

\* No handler acts twice on an event, unless it once went ahead without an
\* ack.
THEOREM EffectsAtMostOnce == Spec => []AtMostOnce
<1>1. TypeInv /\ OnceInv => AtMostOnce
  BY DEF OnceInv, AtMostOnce, Claiming
<1>. QED
  BY <1>1, OnceInit, OnceNext, TypeInvHolds, PTL DEF Spec

-----------------------------------------------------------------------------
(***************************************************************************)
(* Delivered events.  A worker without a failure so far has been through   *)
(* all handlers before the one it is at, and a handler that had its chance *)
(* once has had it for good.                                               *)
(***************************************************************************)
HandledInv ==
  /\ \A w \in Workers :
       /\ worker[w].pc # "idle" /\ ~worker[w].failed =>
            \A h \in Handlers : h < worker[w].handler => Tried(EventOf(w), h)
       /\ worker[w].pc = "act" /\ worker[w].handler \in Claiming =>
            worker[w].handler \in acks[EventOf(w)] \cup blind[EventOf(w)]
  /\ DeliveredIsHandled

LEMMA HandledInit ==
  ASSUME Init
  PROVE  HandledInv
BY DEF Init, HandledInv, Idle, DeliveredIsHandled, Unpublished

\* What every step has to show for its worker and for the rows it marks.
LEMMA HandledStep ==
  ASSUME TypeInv, HandledInv, NEW w \in Workers, NEW self,
         worker' = [worker EXCEPT ![w] = self],
         \A e \in Events, h \in Handlers : Tried(e, h) => Tried(e, h)',
         \A e \in Events : acks[e] \subseteq acks'[e] /\ blind[e] \subseteq blind'[e],
         self.pc # "idle" /\ ~self.failed =>
           \A h \in Handlers : h < self.handler => Tried(Head(self.todo).event, h)',
         self.pc = "act" /\ self.handler \in Claiming =>
           self.handler \in acks'[Head(self.todo).event] \cup
                             blind'[Head(self.todo).event],
         \A e \in Events : row'[e].delivered =>
           row[e].delivered \/ \A h \in Handlers : Tried(e, h)'
  PROVE  HandledInv'
<1>1. \A v \in Workers : v # w => worker'[v] = worker[v]
  BY DEF TypeInv, OutboxTypeOK
<1>2. worker'[w] = self
  BY DEF TypeInv, OutboxTypeOK
<1>3. DeliveredIsHandled'
  BY DEF HandledInv, DeliveredIsHandled
<1>4. ASSUME NEW v \in Workers, v # w, worker[v].pc # "idle"
      PROVE  EventOf(v) \in Events /\ EventOf(v)' = EventOf(v)
  BY <1>1, <1>4, CurrentType DEF EventOf, Current
<1>5. ASSUME NEW v \in Workers, worker'[v].pc # "idle", ~worker'[v].failed
      PROVE  \A h \in Handlers : h < worker'[v].handler => Tried(EventOf(v), h)'
  <2>1. CASE v = w
    BY <1>2, <1>5, <2>1 DEF EventOf, Current, Tried
  <2>2. CASE v # w
    <3>1. \A h \in Handlers : h < worker[v].handler => Tried(EventOf(v), h)
      BY <1>1, <1>5, <2>2 DEF HandledInv
    <3>2. EventOf(v) \in Events /\ EventOf(v)' = EventOf(v)
      BY <1>1, <1>4, <1>5, <2>2
    <3>. QED
      BY <1>1, <2>2, <3>1, <3>2 DEF Tried
  <2>. QED
    BY <2>1, <2>2
<1>6. ASSUME NEW v \in Workers, worker'[v].pc = "act", worker'[v].handler \in Claiming
      PROVE  worker'[v].handler \in acks'[EventOf(v)'] \cup blind'[EventOf(v)']
  <2>1. CASE v = w
    BY <1>2, <1>6, <2>1 DEF EventOf, Current
  <2>2. CASE v # w
    BY <1>1, <1>4, <1>6, <2>2 DEF HandledInv
  <2>. QED
    BY <2>1, <2>2
<1>. QED
  BY <1>3, <1>5, <1>6 DEF HandledInv

\* A worker that starts anew, or goes idle, owes nothing.
LEMMA HandledStart ==
  ASSUME TypeInv, HandledInv, NEW w \in Workers, NEW self,
         worker' = [worker EXCEPT ![w] = self],
         self.pc # "idle" /\ ~self.failed => self.handler = 1,
         self.pc = "act" => self.handler \in Keyed,
         UNCHANGED <<acks, blind, effects>>,
         \A e \in Events : row'[e].delivered =>
           row[e].delivered \/ \A h \in Handlers : Tried(e, h)
  PROVE  HandledInv'
<1>1. \A e \in Events, h \in Handlers : Tried(e, h)' <=> Tried(e, h)
  BY DEF Tried
<1>2. \A h \in Handlers : ~(h < 1)
  BY SizesAssumption DEF Handlers
<1>3. self.pc = "act" => self.handler \notin Claiming
  BY DEF Claiming
<1>4. self.pc # "idle" /\ ~self.failed =>
        \A h \in Handlers : h < self.handler => Tried(Head(self.todo).event, h)'
  BY <1>2
<1>. QED
  BY <1>1, <1>3, <1>4, HandledStep

\* A worker that is through with its handler, which had its chance if nothing
\* went wrong.
LEMMA HandledAfter ==
  ASSUME TypeInv, HandledInv, NEW w \in Workers, worker[w].pc \in {"claim", "act"},
         NEW f, f = EventOf(w), NEW g, g = worker[w].handler,
         NEW result \in {"ok", "timeout", "raised"},
         NEW self, self = After(worker[w], result),
         worker' = [worker EXCEPT ![w] = self],
         UNCHANGED <<row, acks, blind>>,
         \A e \in Events, h \in Handlers : Tried(e, h) => Tried(e, h)',
         result = "ok" => Tried(f, g)'
  PROVE  HandledInv'
<1>1. f \in Events /\ Sound(worker[w]) /\ g \in Handlers
  BY CurrentType DEF TypeInv, Sound, Claiming
<1>2. /\ self.todo = worker[w].todo
      /\ self.pc = "act" => self.handler \in Keyed
      /\ ~self.failed => result = "ok" /\ ~worker[w].failed /\ self.handler = g + 1
  BY <1>1, AfterSound
<1>3. Head(self.todo).event = f
  BY <1>2 DEF EventOf, Current
<1>4. ASSUME ~self.failed, NEW h \in Handlers, h < self.handler
      PROVE  Tried(f, h)'
  <2>1. h < g \/ h = g
    BY <1>1, <1>2, <1>4, SizesAssumption DEF Handlers
  <2>2. CASE h = g
    BY <1>2, <1>4, <2>2
  <2>3. CASE h < g
    <3>1. Tried(f, h)
      BY <1>2, <1>4, <2>3 DEF HandledInv
    <3>. QED
      BY <1>1, <3>1
  <2>. QED
    BY <2>1, <2>2, <2>3
<1>5. self.pc = "act" => self.handler \notin Claiming
  BY <1>2 DEF Claiming
<1>6. self.pc # "idle" /\ ~self.failed =>
        \A h \in Handlers : h < self.handler => Tried(Head(self.todo).event, h)'
  BY <1>3, <1>4
<1>. QED
  BY <1>5, <1>6, HandledStep

LEMMA HandledClaimWon ==
  ASSUME TypeInv, HandledInv, NEW w \in Workers, ClaimWon(w)
  PROVE  HandledInv'
<1>1. PICK f, g, self :
        /\ f \in Events /\ g \in Claiming
        /\ f = EventOf(w) /\ g = worker[w].handler
        /\ self = [worker[w] EXCEPT !.pc = "act"]
  BY CurrentType DEF ClaimWon, TypeInv, Sound
<1>2. /\ acks' = [acks EXCEPT ![f] = @ \cup {g}]
      /\ worker' = [worker EXCEPT ![w] = self]
      /\ UNCHANGED <<row, blind, effects>>
  BY <1>1 DEF ClaimWon
<1>3. acks \in [Events -> SUBSET Claiming]
  BY DEF TypeInv, OutboxTypeOK
<1>4. /\ \A e \in Events : acks[e] \subseteq acks'[e]
      /\ g \in acks'[f]
  BY <1>1, <1>2, <1>3
<1>5. \A e \in Events, h \in Handlers : Tried(e, h) => Tried(e, h)'
  BY <1>2, <1>4 DEF Tried
<1>6. /\ self.todo = worker[w].todo
      /\ self.handler = g
      /\ self.failed = worker[w].failed
      /\ worker[w].pc # "idle"
  BY <1>1 DEF ClaimWon, TypeInv, Sound, WorkerSet
<1>7. Head(self.todo).event = f
  BY <1>1, <1>6 DEF EventOf, Current
<1>8. ASSUME ~self.failed, NEW h \in Handlers, h < self.handler
      PROVE  Tried(f, h)'
  <2>1. Tried(f, h)
    BY <1>1, <1>6, <1>8 DEF HandledInv
  <2>. QED
    BY <1>1, <1>5, <2>1
<1>9. self.pc # "idle" /\ ~self.failed =>
        \A h \in Handlers : h < self.handler => Tried(Head(self.todo).event, h)'
  BY <1>7, <1>8
<1>. QED
  BY <1>2, <1>4, <1>5, <1>6, <1>7, <1>9, HandledStep

LEMMA HandledClaimError ==
  ASSUME TypeInv, HandledInv, NEW w \in Workers, ClaimError(w)
  PROVE  HandledInv'
<1>1. PICK f, g, self :
        /\ f \in Events /\ g \in Claiming
        /\ f = EventOf(w) /\ g = worker[w].handler
        /\ self = [worker[w] EXCEPT !.pc = "act"]
  BY CurrentType DEF ClaimError, TypeInv, Sound
<1>2. /\ blind' = [blind EXCEPT ![f] = @ \cup {g}]
      /\ worker' = [worker EXCEPT ![w] = self]
      /\ UNCHANGED <<row, acks, effects>>
  BY <1>1 DEF ClaimError
<1>3. blind \in [Events -> SUBSET Claiming]
  BY DEF TypeInv, OutboxTypeOK
<1>4. /\ \A e \in Events : blind[e] \subseteq blind'[e]
      /\ g \in blind'[f]
  BY <1>1, <1>2, <1>3
<1>5. \A e \in Events, h \in Handlers : Tried(e, h) => Tried(e, h)'
  BY <1>2, <1>4 DEF Tried
<1>6. /\ self.todo = worker[w].todo
      /\ self.handler = g
      /\ self.failed = worker[w].failed
      /\ worker[w].pc # "idle"
  BY <1>1 DEF ClaimError, TypeInv, Sound, WorkerSet
<1>7. Head(self.todo).event = f
  BY <1>1, <1>6 DEF EventOf, Current
<1>8. ASSUME ~self.failed, NEW h \in Handlers, h < self.handler
      PROVE  Tried(f, h)'
  <2>1. Tried(f, h)
    BY <1>1, <1>6, <1>8 DEF HandledInv
  <2>. QED
    BY <1>1, <1>5, <2>1
<1>9. self.pc # "idle" /\ ~self.failed =>
        \A h \in Handlers : h < self.handler => Tried(Head(self.todo).event, h)'
  BY <1>7, <1>8
<1>. QED
  BY <1>2, <1>4, <1>5, <1>6, <1>7, <1>9, HandledStep

LEMMA HandledClaimLost ==
  ASSUME TypeInv, HandledInv, NEW w \in Workers, ClaimLost(w)
  PROVE  HandledInv'
<1>1. PICK f \in Events, g \in Claiming :
        f = EventOf(w) /\ g = worker[w].handler /\ g \in acks[f]
  BY CurrentType DEF ClaimLost, TypeInv, Sound
<1>2. PICK result \in {"ok", "timeout"} :
        worker' = [worker EXCEPT ![w] = After(worker[w], result)]
  BY DEF ClaimLost, TypeInv, OutboxTypeOK
<1>3. PICK self : self = After(worker[w], result)
  OBVIOUS
<1>4. \A e \in Events, h \in Handlers : Tried(e, h) => Tried(e, h)'
  BY DEF ClaimLost, Tried
<1>5. Tried(f, g)'
  BY <1>1 DEF ClaimLost, Tried, Claiming
<1>. QED
  BY <1>1, <1>2, <1>3, <1>4, <1>5, HandledAfter DEF ClaimLost

LEMMA HandledAct ==
  ASSUME TypeInv, HandledInv, NEW w \in Workers, Act(w)
  PROVE  HandledInv'
<1>1. PICK f \in Events, g \in Handlers : f = EventOf(w) /\ g = worker[w].handler
  BY CurrentType DEF Act, TypeInv, Sound
<1>2. PICK result \in {"ok", "timeout", "raised"} :
        /\ worker' = [worker EXCEPT ![w] = After(worker[w], result)]
        /\ effects' = IF result = "raised" THEN effects
             ELSE [effects EXCEPT ![f][g] = Acted(effects[f][g], g)]
  BY <1>1 DEF Act, TypeInv, OutboxTypeOK
<1>3. PICK self : self = After(worker[w], result)
  OBVIOUS
<1>4. UNCHANGED <<row, acks, blind>> /\ effects \in [Events -> [Handlers -> Nat]]
  BY DEF Act, TypeInv, OutboxTypeOK
<1>5. \A e \in Events, h \in Handlers :
        \/ effects'[e][h] = effects[e][h]
        \/ h \in Keyed => effects'[e][h] = 1
  BY <1>1, <1>2, <1>4 DEF Acted
<1>6. \A e \in Events, h \in Handlers : Tried(e, h) => Tried(e, h)'
  BY <1>4, <1>5 DEF Tried
<1>7. ASSUME result = "ok" PROVE Tried(f, g)'
  <2>1. CASE g \in Keyed
    <3>1. effects'[f][g] = 1
      BY <1>1, <1>2, <1>4, <1>7, <2>1 DEF Acted
    <3>. QED
      BY <2>1, <3>1 DEF Tried
  <2>2. CASE g \notin Keyed
    <3>1. g \in acks[f] \cup blind[f]
      BY <1>1, <2>2 DEF HandledInv, Claiming, Act
    <3>. QED
      BY <1>4, <2>2, <3>1 DEF Tried
  <2>. QED
    BY <2>1, <2>2
<1>. QED
  BY <1>1, <1>2, <1>3, <1>4, <1>6, <1>7, HandledAfter DEF Act

LEMMA HandledMarkError ==
  ASSUME TypeInv, HandledInv, NEW w \in Workers, MarkError(w)
  PROVE  HandledInv'
<1>1. PICK self : self = [worker[w] EXCEPT !.failed = TRUE]
  OBVIOUS
<1>2. self.failed /\ self.pc # "act"
  BY <1>1 DEF MarkError, TypeInv, Sound, WorkerSet
<1>3. worker' = [worker EXCEPT ![w] = self] /\ UNCHANGED <<row, acks, blind, effects>>
  BY <1>1 DEF MarkError
<1>4. \A e \in Events, h \in Handlers : Tried(e, h) => Tried(e, h)'
  BY <1>3 DEF Tried
<1>. QED
  BY <1>2, <1>3, <1>4, HandledStep

\* A worker that is done and saw no failure: every handler had its chance.
LEMMA DoneIsHandled ==
  ASSUME TypeInv, HandledInv, NEW w \in Workers,
         worker[w].pc = "done", ~worker[w].failed
  PROVE  \A h \in Handlers : Tried(EventOf(w), h)
<1>1. worker[w].handler = NumHandlers + 1
  BY DEF TypeInv, Sound
<1>2. \A h \in Handlers : h < NumHandlers + 1
  BY SizesAssumption DEF Handlers
<1>. QED
  BY <1>1, <1>2 DEF HandledInv

LEMMA HandledStarts ==
  ASSUME TypeInv, HandledInv, NEW w \in Workers, Starts(w)
  PROVE  HandledInv'
<1>1. PICK self :
        /\ worker' = [worker EXCEPT ![w] = self]
        /\ self.pc = "act" => self.handler \in Keyed
        /\ self.pc # "idle" /\ ~self.failed => self.handler = 1
  BY StartsAnew
<1>2. UNCHANGED <<acks, blind, effects>>
  BY StartsAnew
<1>3. ASSUME NEW e \in Events, row'[e].delivered
      PROVE  row[e].delivered \/ \A h \in Handlers : Tried(e, h)
  <2>1. CASE worker[w].pc = "done" /\ ~worker[w].failed
    <3>1. EventOf(w) \in Events /\ \A h \in Handlers : Tried(EventOf(w), h)
      BY <2>1, CurrentType, DoneIsHandled
    <3>2. e # EventOf(w) => row'[e].delivered = row[e].delivered
      BY <2>1, <3>1
         DEF Starts, Fetch, RecordDelivered, RecordFailure, RecordReplay, Replay,
             Crash, TypeInv, OutboxTypeOK, RowSet
    <3>. QED
      BY <1>3, <3>1, <3>2
  <2>2. CASE ~(worker[w].pc = "done" /\ ~worker[w].failed)
    <3>1. worker[w].pc # "idle" => EventOf(w) \in Events
      BY CurrentType
    <3>2. ~RecordDelivered(w)
      BY <2>2 DEF RecordDelivered
    <3>3. CASE RecordFailure(w)
      BY <1>3, <3>1, <3>3 DEF RecordFailure, TypeInv, OutboxTypeOK, RowSet
    <3>4. CASE ~RecordFailure(w)
      <4>1. UNCHANGED row
        BY <2>2, <3>2, <3>4 DEF Starts, Fetch, RecordReplay, Replay, Crash
      <4>. QED
        BY <1>3, <4>1
    <3>. QED
      BY <3>3, <3>4
  <2>. QED
    BY <2>1, <2>2
<1>. QED
  BY <1>1, <1>2, <1>3, HandledStart

LEMMA HandledPublish ==
  ASSUME TypeInv, HandledInv, NEW e \in Events, Publish(e)
  PROVE  HandledInv'
<1>1. \A f \in Events : row'[f].delivered = row[f].delivered
  BY DEF Publish, TypeInv, OutboxTypeOK, RowSet
<1>. QED
  BY <1>1 DEF Publish, HandledInv, DeliveredIsHandled, Tried, EventOf, Current

LEMMA HandledNext == TypeInv /\ HandledInv /\ [Next]_vars => HandledInv'
<1>. SUFFICES ASSUME TypeInv, HandledInv, [Next]_vars
              PROVE  HandledInv'
  OBVIOUS
<1>. USE DEF Workers
<1>1. ASSUME NEW e \in Events, Publish(e) PROVE HandledInv'
  BY <1>1, HandledPublish
<1>2. ASSUME NEW w \in Workers, Dispatch(w) PROVE HandledInv'
  BY <1>2, HandledClaimWon, HandledClaimLost, HandledAct DEF Dispatch
<1>3. ASSUME NEW w \in Workers, Starts(w) PROVE HandledInv'
  BY <1>3, HandledStarts
<1>4. ASSUME NEW w \in Workers, ClaimError(w) \/ MarkError(w) PROVE HandledInv'
  BY <1>4, HandledClaimError, HandledMarkError
<1>5. ASSUME UNCHANGED vars PROVE HandledInv'
  BY <1>5 DEF vars, HandledInv, DeliveredIsHandled, Tried, EventOf, Current
<1>. QED
  BY <1>1, <1>2, <1>3, <1>4, <1>5 DEF Next, DrainStep, Starts

\* A delivered event is in the audit log, and every other handler had its
\* chance at it.
THEOREM DeliveredMeansHandled == Spec => []DeliveredIsHandled
<1>1. HandledInv => DeliveredIsHandled
  BY DEF HandledInv
<1>. QED
  BY <1>1, HandledInit, HandledNext, TypeInvHolds, PTL DEF Spec

-----------------------------------------------------------------------------
(***************************************************************************)
(* A failure tries the rest.  An event with n attempts on record has all   *)
(* its handlers before the n-th projection in its acks.  A loop that has   *)
(* the event in hand writes n + 1, and only an exception of a projection   *)
(* cuts its walk short: of one whose claim it won, so of a later one than  *)
(* those n.                                                                *)
(***************************************************************************)
Covers(a, e, n) ==
  n > 0 => \A h \in Claiming : h < FirstProjection + n => h \in a[e]

Plain(b, e) == e \notin Poison /\ b[e] = {}

Known(a, b, todo) ==
  \A i \in DOMAIN todo :
    Plain(b, todo[i].event) => Covers(a, todo[i].event, todo[i].attempts)

Walk(a, b, self) ==
  LET e == Head(self.todo).event
      n == Head(self.todo).attempts
      g == self.handler IN
  self.pc # "idle" /\ Plain(b, e) =>
    /\ self.pc \in {"claim", "act"} => \A h \in Claiming : h < g => h \in a[e]
    /\ self.pc = "act" /\ g \in Claiming =>
         g \in a[e] /\ (g \in Projections => g >= FirstProjection + n)
    /\ self.pc = "done" => Covers(a, e, n + 1)

TriesInv ==
  /\ \A e \in Events : Plain(blind, e) => Covers(acks, e, row[e].attempts)
  /\ \A w \in Workers : Known(acks, blind, worker[w].todo) /\ Walk(acks, blind, worker[w])

\* Acks and blind handlers only come to more.
Grow(a, b, c, d) == \A e \in Events : a[e] \subseteq c[e] /\ b[e] \subseteq d[e]

LEMMA KnownGrows ==
  ASSUME NEW a, NEW b, NEW c, NEW d, Grow(a, b, c, d),
         NEW todo \in Seq(Entries), Known(a, b, todo)
  PROVE  Known(c, d, todo)
<1>1. \A i \in DOMAIN todo : todo[i].event \in Events
  <2>1. \A i \in DOMAIN todo : todo[i] \in Entries
    OBVIOUS
  <2>. QED
    BY <2>1 DEF Entries
<1>. QED
  BY <1>1 DEF Known, Plain, Covers, Grow

LEMMA WalkGrows ==
  ASSUME NEW a, NEW b, NEW c, NEW d, Grow(a, b, c, d),
         NEW self, Sound(self), Walk(a, b, self)
  PROVE  Walk(c, d, self)
<1>1. self.pc # "idle" => Head(self.todo) \in Entries /\ Head(self.todo).event \in Events
  <2>1. self.pc # "idle" => self.todo \in Seq(Entries) /\ self.todo # << >>
    BY DEF Sound, WorkerSet
  <2>2. self.pc # "idle" => Head(self.todo) \in Entries
    BY <2>1
  <2>. QED
    BY <2>2 DEF Entries
<1>. DEFINE e == Head(self.todo).event
            n == Head(self.todo).attempts
<1>2. ASSUME self.pc # "idle", Plain(d, e)
      PROVE  /\ Plain(b, e) /\ a[e] \subseteq c[e]
             /\ Covers(a, e, n + 1) => Covers(c, e, n + 1)
  <2>1. Plain(b, e) /\ a[e] \subseteq c[e]
    BY <1>1, <1>2 DEF Plain, Grow
  <2>. QED
    BY <2>1 DEF Covers
<1>. QED
  BY <1>2 DEF Walk

\* What every step has to show for its worker and for the rows it writes.
LEMMA TriesStep ==
  ASSUME TypeInv, TriesInv, NEW w \in Workers, NEW self,
         worker' = [worker EXCEPT ![w] = self],
         Grow(acks, blind, acks', blind'),
         Known(acks', blind', self.todo), Walk(acks', blind', self),
         \A e \in Events : Plain(blind', e) =>
           \/ row'[e].attempts = row[e].attempts
           \/ Covers(acks', e, row'[e].attempts)
  PROVE  TriesInv'
<1>1. ASSUME NEW e \in Events, Plain(blind', e)
      PROVE  Covers(acks', e, row'[e].attempts)
  <2>1. Plain(blind, e) /\ acks[e] \subseteq acks'[e]
    BY <1>1 DEF Plain, Grow
  <2>2. Covers(acks, e, row[e].attempts)
    BY <2>1 DEF TriesInv
  <2>3. Covers(acks', e, row[e].attempts)
    BY <2>1, <2>2 DEF Covers
  <2>. QED
    BY <1>1, <2>3
<1>2. ASSUME NEW v \in Workers
      PROVE  Known(acks', blind', worker'[v].todo) /\ Walk(acks', blind', worker'[v])
  <2>1. CASE v = w
    <3>1. worker'[v] = self
      BY <2>1 DEF TypeInv, OutboxTypeOK
    <3>. QED
      BY <3>1
  <2>2. CASE v # w
    <3>1. worker'[v] = worker[v]
      BY <2>2 DEF TypeInv, OutboxTypeOK
    <3>2. Sound(worker[v]) /\ worker[v].todo \in Seq(Entries)
      BY DEF TypeInv, Sound, WorkerSet
    <3>3. Known(acks, blind, worker[v].todo) /\ Walk(acks, blind, worker[v])
      BY DEF TriesInv
    <3>. QED
      BY <3>1, <3>2, <3>3, KnownGrows, WalkGrows
  <2>. QED
    BY <2>1, <2>2
<1>. QED
  BY <1>1, <1>2 DEF TriesInv

\* What a worker has in hand: its entry is one of those it knows of.
LEMMA HeadKnown ==
  ASSUME NEW a, NEW b, NEW self, Sound(self), self.pc # "idle",
         Known(a, b, self.todo), Plain(b, Head(self.todo).event)
  PROVE  /\ Head(self.todo) \in Entries
         /\ Covers(a, Head(self.todo).event, Head(self.todo).attempts)
<1>1. self.todo \in Seq(Entries) /\ self.todo # << >>
  BY DEF Sound, WorkerSet
<1>2. Head(self.todo) = self.todo[1] /\ 1 \in DOMAIN self.todo /\ Head(self.todo) \in Entries
  BY <1>1
<1>. QED
  BY <1>2 DEF Known

\* A worker that is through with its handler, which has the event in its acks.
LEMMA WalkAfter ==
  ASSUME NEW a, NEW b, NEW self, Sound(self), self.pc \in {"claim", "act"},
         Walk(a, b, self), NEW result \in {"ok", "timeout", "raised"},
         result = "raised" => self.pc = "act",
         Plain(b, Head(self.todo).event) /\ self.handler \in Claiming =>
           self.handler \in a[Head(self.todo).event]
  PROVE  Walk(a, b, After(self, result))
<1>. DEFINE next == IF result = "raised" /\ self.handler \in Projections
                    THEN NumHandlers + 1 ELSE self.handler + 1
            noted == [self EXCEPT !.failed = @ \/ result # "ok"]
            new == After(self, result)
            e == Head(self.todo).event
            n == Head(self.todo).attempts
            g == self.handler
<1>1. g \in Handlers
  BY DEF Sound, Claiming
<1>2. next \in 1..NumHandlers + 1
  BY <1>1, SizesAssumption DEF Handlers
<1>3. noted \in WorkerSet /\ noted.todo = self.todo /\ noted.todo # << >>
  BY DEF Sound, WorkerSet
<1>4. new = At(noted, next)
  BY DEF After
<1>5. /\ Sound(new) /\ new.todo = self.todo /\ new.handler = next
      /\ new.pc = "act" => next \in Keyed
  <2>. HIDE DEF next, noted, new
  <2>. QED
    BY <1>2, <1>3, <1>4, AtSound
<1>6. n \in Nat /\ FirstProjection \in Nat /\ NumHandlers \in Nat
  <2>1. Head(self.todo) \in Entries
    BY DEF Sound, WorkerSet
  <2>. QED
    BY <2>1, SizesAssumption DEF Entries
<1>. SUFFICES ASSUME new.pc # "idle", Plain(b, e)
              PROVE  /\ new.pc \in {"claim", "act"} => \A h \in Claiming : h < next => h \in a[e]
                     /\ new.pc = "act" => next \notin Claiming
                     /\ new.pc = "done" => Covers(a, e, n + 1)
  <2>. HIDE DEF next
  <2>. QED
    BY <1>5 DEF Walk
<1>7. \A h \in Claiming : h < g + 1 => h \in a[e]
  <2>1. \A h \in Claiming : h < g => h \in a[e]
    BY DEF Walk
  <2>2. g \in Claiming => g \in a[e]
    OBVIOUS
  <2>. QED
    BY <1>1, <2>1, <2>2 DEF Claiming, Handlers
<1>8. new.pc = "act" => next \notin Claiming
  BY <1>5 DEF Claiming
<1>9. CASE ~(result = "raised" /\ g \in Projections)
  <2>1. next = g + 1
    BY <1>9
  <2>2. new.pc = "done" => Covers(a, e, n + 1)
    <3>1. new.pc = "done" => g + 1 = NumHandlers + 1
      BY <1>5, <2>1 DEF Sound
    <3>2. \A h \in Claiming : h < NumHandlers + 1
      BY <1>6 DEF Claiming, Handlers
    <3>. QED
      BY <1>7, <3>1, <3>2 DEF Covers
  <2>. QED
    BY <1>7, <1>8, <2>1, <2>2
<1>10. CASE result = "raised" /\ g \in Projections
  <2>1. next = NumHandlers + 1 /\ self.pc = "act" /\ g \in Claiming
    BY <1>10, <1>1, <1>6, KindsAssumption DEF Claiming, Projections, Handlers
  <2>2. new.pc = "done"
    <3>1. Sound(new) /\ new.handler = NumHandlers + 1 /\ new.pc # "idle"
      BY <1>5, <2>1
    <3>2. new.pc \in {"claim", "act", "done"}
      BY <3>1 DEF Sound, WorkerSet
    <3>. QED
      BY <1>6, <3>1, <3>2 DEF Sound, Claiming, Handlers
  <2>3. g >= FirstProjection + n
    BY <1>10, <2>1 DEF Walk
  <2>4. \A h \in Claiming : h < FirstProjection + (n + 1) => h < g + 1
    BY <1>1, <1>6, <2>3 DEF Claiming, Handlers
  <2>5. Covers(a, e, n + 1)
    BY <1>7, <2>4 DEF Covers
  <2>. QED
    BY <2>2, <2>5
<1>. QED
  BY <1>9, <1>10

\* A worker that begins with entries it knows of.
LEMMA WalkStart ==
  ASSUME NEW a, NEW b, NEW todo \in Seq(Entries), NEW mark \in BOOLEAN, Known(a, b, todo)
  PROVE  /\ Known(a, b, StartOn(todo, mark).todo)
         /\ Walk(a, b, StartOn(todo, mark))
<1>. DEFINE fresh == [pc |-> "idle", todo |-> todo, handler |-> 0,
                      failed |-> FALSE, mark |-> mark]
<1>0. fresh \in WorkerSet /\ fresh.todo = todo
  BY SizesAssumption DEF WorkerSet
<1>1. CASE todo = << >>
  BY <1>1 DEF StartOn, Idle, Walk
<1>2. CASE todo # << >> /\ Head(todo).event \in Poison
  <2>1. StartOn(todo, mark) = [At(fresh, NumHandlers + 1) EXCEPT !.failed = TRUE]
    BY <1>2 DEF StartOn
  <2>2. StartOn(todo, mark).todo = todo
    BY <2>1 DEF At
  <2>. QED
    BY <1>2, <2>2 DEF Walk, Plain
<1>3. CASE todo # << >> /\ Head(todo).event \notin Poison
  <2>. DEFINE new == At(fresh, 1)
  <2>1. StartOn(todo, mark) = new
    BY <1>3 DEF StartOn
  <2>2. /\ Sound(new) /\ new.todo = todo /\ new.handler = 1
        /\ new.pc = "act" => new.handler \in Keyed
    <3>1. 1 \in 1..NumHandlers + 1
      BY SizesAssumption
    <3>. QED
      BY <1>0, <1>3, <3>1, AtSound
  <2>. HIDE DEF new
  <2>3. new.pc # "done" /\ \A h \in Claiming : ~(h < 1)
    BY <2>2, SizesAssumption DEF Sound, Claiming, Handlers
  <2>4. new.pc = "act" => new.handler \notin Claiming
    BY <2>2 DEF Claiming
  <2>. QED
    BY <2>1, <2>2, <2>3, <2>4 DEF Walk
<1>. QED
  BY <1>1, <1>2, <1>3

LEMMA TailKnown ==
  ASSUME NEW a, NEW b, NEW todo \in Seq(Entries), todo # << >>, Known(a, b, todo)
  PROVE  Known(a, b, Tail(todo))
<1>1. \A i \in DOMAIN Tail(todo) : Tail(todo)[i] = todo[i + 1] /\ i + 1 \in DOMAIN todo
  OBVIOUS
<1>. QED
  BY <1>1 DEF Known

LEMMA TriesStarts ==
  ASSUME TypeInv, TriesInv, NEW w \in Workers, Starts(w)
  PROVE  TriesInv'
<1>0. UNCHANGED <<acks, blind>> /\ Grow(acks, blind, acks', blind')
  BY DEF Starts, Fetch, RecordDelivered, RecordFailure, RecordReplay, Replay, Crash, Grow
<1>. DEFINE begins == \E todo \in Seq(Entries), mark \in BOOLEAN :
                        /\ Known(acks, blind, todo)
                        /\ worker' = [worker EXCEPT ![w] = StartOn(todo, mark)]
            written == \A e \in Events : Plain(blind, e) =>
                         \/ row'[e].attempts = row[e].attempts
                         \/ Covers(acks, e, row'[e].attempts)
<1>1. ASSUME begins, written PROVE TriesInv'
  <2>1. PICK todo \in Seq(Entries), mark \in BOOLEAN :
          Known(acks, blind, todo) /\ worker' = [worker EXCEPT ![w] = StartOn(todo, mark)]
    BY <1>1
  <2>2. PICK self : self = StartOn(todo, mark)
    OBVIOUS
  <2>3. Known(acks, blind, self.todo) /\ Walk(acks, blind, self)
    BY <2>1, <2>2, WalkStart
  <2>. QED
    BY <1>0, <1>1, <2>1, <2>2, <2>3, TriesStep
<1>2. StartOn(<< >>, FALSE) = Idle /\ Known(acks, blind, << >>) /\ << >> \in Seq(Entries)
  BY DEF StartOn, Known
<1>3. CASE Fetch(w)
  <2>1. PICK n \in 1..Batch : \E batch \in [1..n -> Pending] :
          worker' = [worker EXCEPT ![w] = StartOn(
            [i \in 1..n |->
               [event |-> batch[i], attempts |-> row[batch[i]].attempts]], FALSE)]
    BY <1>3 DEF Fetch
  <2>2. PICK batch \in [1..n -> Pending] :
          worker' = [worker EXCEPT ![w] = StartOn(
            [i \in 1..n |->
               [event |-> batch[i], attempts |-> row[batch[i]].attempts]], FALSE)]
    BY <2>1
  <2>. DEFINE todo == [i \in 1..n |->
                 [event |-> batch[i], attempts |-> row[batch[i]].attempts]]
  <2>3. todo \in Seq(Entries)
    BY SizesAssumption
       DEF Pending, Settled, TypeInv, OutboxTypeOK, RowSet, Entries
  <2>4. Known(acks, blind, todo)
    BY DEF Known, TriesInv, Pending
  <2>5. worker' = [worker EXCEPT ![w] = StartOn(todo, FALSE)]
    BY <2>2
  <2>. HIDE DEF todo
  <2>. QED
    BY <1>1, <1>3, <2>3, <2>4, <2>5 DEF Fetch
<1>4. CASE w \in Drainers /\ (RecordDelivered(w) \/ RecordFailure(w))
  <2>1. worker[w].pc = "done"
    BY <1>4 DEF RecordDelivered, RecordFailure
  <2>2. /\ worker[w].todo \in Seq(Entries) /\ worker[w].todo # << >>
        /\ Tail(worker[w].todo) \in Seq(Entries) /\ EventOf(w) \in Events
    BY <2>1, CurrentType DEF TypeInv, Sound
  <2>3. Known(acks, blind, Tail(worker[w].todo))
    BY <2>2, TailKnown DEF TriesInv
  <2>4. worker' = [worker EXCEPT ![w] = StartOn(Tail(worker[w].todo), FALSE)]
    BY <1>4 DEF RecordDelivered, RecordFailure
  <2>5. begins
    BY <2>2, <2>3, <2>4
  <2>6. written
    <3>1. CASE RecordDelivered(w)
      BY <2>2, <3>1 DEF RecordDelivered, TypeInv, OutboxTypeOK, RowSet
    <3>2. CASE RecordFailure(w)
      <4>1. Plain(blind, EventOf(w)) => Covers(acks, EventOf(w), Current(w).attempts + 1)
        BY <2>1 DEF TriesInv, Walk, EventOf, Current
      <4>2. /\ row'[EventOf(w)].attempts = Current(w).attempts + 1
            /\ \A e \in Events : e # EventOf(w) => row'[e] = row[e]
        BY <2>2, <3>2 DEF RecordFailure, TypeInv, OutboxTypeOK, RowSet
      <4>. QED
        BY <4>1, <4>2
    <3>. QED
      BY <1>4, <3>1, <3>2
  <2>. QED
    BY <1>1, <2>5, <2>6
<1>5. CASE RecordReplay(w) \/ Crash(w)
  <2>1. worker' = [worker EXCEPT ![w] = StartOn(<< >>, FALSE)]
    BY <1>2, <1>5 DEF RecordReplay, Crash
  <2>2. written
    <3>1. CASE RecordReplay(w)
      <4>1. EventOf(w) \in Events
        BY <3>1, CurrentType DEF RecordReplay
      <4>. QED
        BY <3>1, <4>1 DEF RecordReplay, TypeInv, OutboxTypeOK, RowSet
    <3>2. CASE Crash(w)
      BY <3>2 DEF Crash
    <3>. QED
      BY <1>5, <3>1, <3>2
  <2>. QED
    BY <1>1, <1>2, <2>1, <2>2
<1>6. CASE \E e \in Events, mark \in BOOLEAN : Replay(w, e, mark)
  <2>1. PICK e \in Events, mark \in BOOLEAN : Replay(w, e, mark)
    BY <1>6
  <2>. DEFINE todo == <<[event |-> e, attempts |-> 0]>>
  <2>2. todo \in Seq(Entries)
    BY SizesAssumption DEF Entries
  <2>3. Known(acks, blind, todo)
    BY DEF Known, Covers
  <2>4. worker' = [worker EXCEPT ![w] = StartOn(todo, mark)]
    BY <2>1 DEF Replay
  <2>. HIDE DEF todo
  <2>. QED
    BY <1>1, <2>1, <2>2, <2>3, <2>4 DEF Replay
<1>. QED
  BY <1>3, <1>4, <1>5, <1>6 DEF Starts

LEMMA TriesClaimWon ==
  ASSUME TypeInv, TriesInv, NEW w \in Workers, ClaimWon(w)
  PROVE  TriesInv'
<1>0. /\ Sound(worker[w]) /\ worker[w].pc = "claim" /\ worker[w].handler \in Claiming
      /\ Head(worker[w].todo).event \in Events
  BY CurrentType DEF ClaimWon, TypeInv, Sound, EventOf, Current
<1>1. PICK f, g, self, old :
        /\ f \in Events /\ g \in Claiming /\ old = worker[w] /\ Sound(old)
        /\ f = Head(old.todo).event /\ g = old.handler /\ old.pc = "claim"
        /\ self = [old EXCEPT !.pc = "act"]
  BY <1>0
<1>2. /\ acks' = [acks EXCEPT ![f] = @ \cup {g}] /\ g \notin acks[f]
      /\ worker' = [worker EXCEPT ![w] = self]
      /\ UNCHANGED <<row, blind>>
  BY <1>1 DEF ClaimWon, EventOf, Current
<1>3. Grow(acks, blind, acks', blind') /\ g \in acks'[f]
  BY <1>1, <1>2 DEF Grow, TypeInv, OutboxTypeOK
<1>4. self.todo = old.todo /\ self.handler = g /\ self.pc = "act" /\ old.todo \in Seq(Entries)
  BY <1>1 DEF Sound, WorkerSet
<1>5. Known(acks, blind, old.todo) /\ Walk(acks, blind, old)
  BY <1>1 DEF TriesInv
<1>6. Known(acks', blind', self.todo)
  BY <1>3, <1>4, <1>5, KnownGrows
<1>7. ASSUME Plain(blind, f)
      PROVE  /\ \A h \in Claiming : h < g => h \in acks'[f]
             /\ g \in Projections => g >= FirstProjection + Head(old.todo).attempts
  <2>1. Head(old.todo) \in Entries /\ Covers(acks, f, Head(old.todo).attempts)
    BY <1>1, <1>5, <1>7, HeadKnown
  <2>2. \A h \in Claiming : h < g => h \in acks[f]
    BY <1>1, <1>5, <1>7 DEF Walk
  <2>3. g \in Projections => g >= FirstProjection + Head(old.todo).attempts
    <3>. DEFINE n == Head(old.todo).attempts
    <3>1. n \in Nat
      BY <2>1, SizesAssumption DEF Entries
    <3>2. n > 0 => ~(g < FirstProjection + n)
      BY <1>1, <1>2, <2>1 DEF Covers
    <3>3. g \in Projections => g \in Int /\ g >= FirstProjection
      BY DEF Projections
    <3>. HIDE DEF n
    <3>. QED
      BY <3>1, <3>2, <3>3, SizesAssumption DEF n
  <2>. QED
    BY <1>1, <1>3, <2>2, <2>3 DEF Grow
<1>8. Walk(acks', blind', self)
  BY <1>1, <1>2, <1>3, <1>4, <1>7 DEF Walk
<1>. QED
  BY <1>2, <1>3, <1>6, <1>8, TriesStep

LEMMA TriesClaimError ==
  ASSUME TypeInv, TriesInv, NEW w \in Workers, ClaimError(w)
  PROVE  TriesInv'
<1>0. /\ Sound(worker[w]) /\ worker[w].pc = "claim" /\ worker[w].handler \in Claiming
      /\ Head(worker[w].todo).event \in Events
  BY CurrentType DEF ClaimError, TypeInv, Sound, EventOf, Current
<1>1. PICK f, g, self, old :
        /\ f \in Events /\ g \in Claiming /\ old = worker[w] /\ Sound(old)
        /\ f = Head(old.todo).event /\ g = old.handler /\ old.pc = "claim"
        /\ self = [old EXCEPT !.pc = "act"]
  BY <1>0
<1>2. /\ blind' = [blind EXCEPT ![f] = @ \cup {g}]
      /\ worker' = [worker EXCEPT ![w] = self]
      /\ UNCHANGED <<row, acks>>
  BY <1>1 DEF ClaimError, EventOf, Current
<1>3. Grow(acks, blind, acks', blind') /\ g \in blind'[f]
  BY <1>1, <1>2 DEF Grow, TypeInv, OutboxTypeOK
<1>4. self.todo = old.todo /\ old.todo \in Seq(Entries)
  BY <1>1 DEF Sound, WorkerSet
<1>5. Known(acks', blind', self.todo)
  BY <1>1, <1>3, <1>4, KnownGrows DEF TriesInv
<1>6. Walk(acks', blind', self)
  BY <1>1, <1>3, <1>4 DEF Walk, Plain
<1>. QED
  BY <1>2, <1>3, <1>5, <1>6, TriesStep

LEMMA TriesAfter ==
  ASSUME TypeInv, TriesInv, NEW w \in Workers, ClaimLost(w) \/ Act(w)
  PROVE  TriesInv'
<1>1. PICK old : old = worker[w] /\ Sound(old) /\ old.pc \in {"claim", "act"}
  BY DEF ClaimLost, Act, TypeInv
<1>2. PICK result \in {"ok", "timeout", "raised"} :
        /\ worker' = [worker EXCEPT ![w] = After(old, result)]
        /\ result = "raised" => old.pc = "act"
  BY <1>1 DEF ClaimLost, Act, TypeInv, OutboxTypeOK
<1>3. PICK self : self = After(old, result)
  OBVIOUS
<1>4. UNCHANGED <<row, acks, blind>> /\ Grow(acks, blind, acks', blind')
  BY DEF ClaimLost, Act, Grow
<1>5. Known(acks, blind, old.todo) /\ Walk(acks, blind, old)
  BY <1>1 DEF TriesInv
<1>6. Plain(blind, Head(old.todo).event) /\ old.handler \in Claiming =>
        old.handler \in acks[Head(old.todo).event]
  <2>1. CASE ClaimLost(w)
    BY <1>1, <2>1 DEF ClaimLost, EventOf, Current
  <2>2. CASE Act(w)
    BY <1>1, <1>5, <2>2 DEF Act, Walk
  <2>. QED
    BY <2>1, <2>2
<1>7. Walk(acks, blind, self) /\ self.todo = old.todo
  BY <1>1, <1>2, <1>3, <1>5, <1>6, WalkAfter, AfterSound
<1>. QED
  BY <1>2, <1>3, <1>4, <1>5, <1>7, TriesStep

LEMMA TriesMarkError ==
  ASSUME TypeInv, TriesInv, NEW w \in Workers, MarkError(w)
  PROVE  TriesInv'
<1>1. PICK self, old : self = [old EXCEPT !.failed = TRUE] /\ old = worker[w] /\ Sound(old)
  BY DEF TypeInv
<1>2. worker' = [worker EXCEPT ![w] = self] /\ UNCHANGED <<row, acks, blind>>
  BY <1>1 DEF MarkError
<1>3. self.todo = old.todo /\ self.pc = old.pc /\ self.handler = old.handler
  BY <1>1 DEF Sound, WorkerSet
<1>4. Known(acks, blind, self.todo) /\ Walk(acks, blind, self)
  BY <1>1, <1>3 DEF TriesInv, Walk
<1>5. Grow(acks, blind, acks', blind')
  BY <1>2 DEF Grow
<1>. QED
  BY <1>2, <1>4, <1>5, TriesStep

LEMMA TriesInit ==
  ASSUME Init
  PROVE  TriesInv
BY DEF Init, TriesInv, Covers, Known, Walk, Idle, Unpublished

LEMMA TriesNext == TypeInv /\ TriesInv /\ [Next]_vars => TriesInv'
<1>. SUFFICES ASSUME TypeInv, TriesInv, [Next]_vars
              PROVE  TriesInv'
  OBVIOUS
<1>. USE DEF Workers
<1>1. ASSUME NEW e \in Events, Publish(e) PROVE TriesInv'
  <2>1. \A f \in Events : row'[f].attempts = row[f].attempts
    BY <1>1 DEF Publish, TypeInv, OutboxTypeOK, RowSet
  <2>. QED
    BY <1>1, <2>1 DEF Publish, TriesInv
<1>2. ASSUME NEW w \in Workers, Dispatch(w) PROVE TriesInv'
  BY <1>2, TriesClaimWon, TriesAfter DEF Dispatch
<1>3. ASSUME NEW w \in Workers, Starts(w) PROVE TriesInv'
  BY <1>3, TriesStarts
<1>4. ASSUME NEW w \in Workers, ClaimError(w) \/ MarkError(w) PROVE TriesInv'
  BY <1>4, TriesClaimError, TriesMarkError
<1>5. ASSUME UNCHANGED vars PROVE TriesInv'
  BY <1>5 DEF vars, TriesInv
<1>. QED
  BY <1>1, <1>2, <1>3, <1>4, <1>5 DEF Next, DrainStep, Starts

\* Once a failure is on record every webhook and metrics handler had its
\* chance, and after n of them n projections had theirs, whatever loops and
\* replay calls shared the event.
THEOREM FailureTriesAll == Spec => []FailureTriesTheRest
<1>1. TypeInv /\ TriesInv => FailureTriesTheRest
  <2>. SUFFICES ASSUME TriesInv, NEW e \in Events \ Poison, row[e].attempts > 0, blind[e] = {},
                       NEW h \in Claiming, h < FirstProjection + row[e].attempts
                PROVE  Tried(e, h)
    BY DEF FailureTriesTheRest
  <2>1. Covers(acks, e, row[e].attempts)
    BY DEF TriesInv, Plain
  <2>2. h \in acks[e] /\ h \notin Keyed
    BY <2>1 DEF Covers, Claiming
  <2>. QED
    BY <2>2 DEF Tried
<1>. QED
  BY <1>1, TriesInit, TriesNext, TypeInvHolds, PTL DEF Spec
=============================================================================
