----------------------------- MODULE EventOutbox -----------------------------
(***************************************************************************)
(* The durable outbox of Domain Events (api/app/domains/shared/events):    *)
(* rows of domain_event_outbox, the drain loops of the API replicas, the   *)
(* replay call, and the handlers an event is dispatched to.                *)
(*                                                                         *)
(* Every statement commits by itself (db_service.py opens connections with *)
(* autocommit), so FOR UPDATE SKIP LOCKED holds no lock once the SELECT    *)
(* has returned: two loops can have the same rows in hand.                 *)
(*                                                                         *)
(* A handler is either keyed (audit: one INSERT, unique per event) or      *)
(* claiming (webhook, metrics, projections: INSERT an ack, then act).  The *)
(* projections come last and are one subscriber: an exception of one skips *)
(* those after it, in this attempt.                                        *)
(***************************************************************************)
EXTENDS Integers, Sequences

CONSTANTS
  NumEvents,        \* the events, in the order of created_at
  Poison,           \* events whose stored envelope cannot be decoded
  NumHandlers,      \* the subscribers, in the order of subscription
  Keyed,            \* handlers whose effect is a keyed insert
  FirstProjection,  \* the projections are the handlers from this one on
  Drainers,         \* drain loops, one per API replica
  Replayers,        \* handlers of replay calls
  MaxAttempts,      \* ML_AIR_DOMAIN_EVENT_OUTBOX_MAX_ATTEMPTS
  Batch,            \* ML_AIR_DOMAIN_EVENT_OUTBOX_BATCH_SIZE
  MaxReplays,       \* bound: replay calls
  MaxFaults         \* bound: crashes, and acks that could not be written

ASSUME SizesAssumption ==
  /\ NumEvents \in Nat \ {0} /\ NumHandlers \in Nat \ {0}
  /\ MaxAttempts \in Nat \ {0} /\ Batch \in Nat \ {0}
  /\ MaxReplays \in Nat /\ MaxFaults \in Nat
  /\ FirstProjection \in 1..NumHandlers
ASSUME KindsAssumption ==
  /\ Poison \subseteq 1..NumEvents
  /\ Keyed \subseteq 1..(FirstProjection - 1)
  /\ Drainers \cap Replayers = {}

Events      == 1..NumEvents
Handlers    == 1..NumHandlers
Projections == FirstProjection..NumHandlers
Claiming    == Handlers \ Keyed
Workers     == Drainers \cup Replayers

VARIABLES
  row,       \* row[e]: the row of domain_event_outbox
  acks,      \* acks[e]: handlers with a row in domain_event_handler_acks
  blind,     \* blind[e]: handlers that went ahead though their ack could not
             \* be written
  effects,   \* effects[e][h]: how often handler h has acted on event e
  worker,    \* worker[w]: where a drain loop or a replay call is
  replays, faults

vars == <<row, acks, blind, effects, worker, replays, faults>>

Unpublished ==
  [published |-> FALSE, delivered |-> FALSE, dlq |-> FALSE, attempts |-> 0]
Idle ==
  [pc |-> "idle", todo |-> << >>, handler |-> 0, failed |-> FALSE,
   mark |-> FALSE]

Init ==
  /\ row = [e \in Events |-> Unpublished]
  /\ acks = [e \in Events |-> {}]
  /\ blind = [e \in Events |-> {}]
  /\ effects = [e \in Events |-> [h \in Handlers |-> 0]]
  /\ worker = [w \in Workers |-> Idle]
  /\ replays = 0
  /\ faults = 0

Fault == faults < MaxFaults /\ faults' = faults + 1

Settled(e) == row[e].delivered \/ row[e].dlq
Pending    == {e \in Events : row[e].published /\ ~Settled(e)}

\* The entry worker w is at: an event, and its attempt_count as it was read.
Current(w) == Head(worker[w].todo)
EventOf(w) == Current(w).event

-----------------------------------------------------------------------------
(* Dispatch of one event: dispatch_envelope_to_handlers.                   *)

\* The worker turns to handler h, or has called them all.
Label(h) ==
  CASE h > NumHandlers  -> "done"
    [] h \in Keyed      -> "act"
    [] h \in Claiming   -> "claim"

At(self, h) == [self EXCEPT !.handler = h, !.pc = Label(h)]

\* The worker turns to the first entry of todo, if there is one.  An envelope
\* that cannot be decoded raises before any handler is called.
StartOn(todo, mark) ==
  LET fresh == [pc |-> "idle", todo |-> todo, handler |-> 0, failed |-> FALSE,
                mark |-> mark]
  IN  IF todo = << >> THEN Idle
      ELSE IF Head(todo).event \in Poison
           THEN [At(fresh, NumHandlers + 1) EXCEPT !.failed = TRUE]
           ELSE At(fresh, 1)

\* Mutant: An exception of a handler is logged and forgotten.
AfterSwallowing(self, result) ==
  At([self EXCEPT !.failed = @ \/ result = "timeout"], self.handler + 1)

\* Mutant: The first exception ends the dispatch.
AfterStopping(self, result) ==
  At([self EXCEPT !.failed = @ \/ result # "ok"],
     IF result = "raised" THEN NumHandlers + 1 ELSE self.handler + 1)

\* What happens next when the handler returned, timed out or raised.  The
\* handler that times out is waited for all the same.  The other handlers are
\* called, whatever happened; of the projections only an exception stops the
\* rest.
After(self, result) ==
  LET next == IF result = "raised" /\ self.handler \in Projections
              THEN NumHandlers + 1 ELSE self.handler + 1
  IN  At([self EXCEPT !.failed = @ \/ result # "ok"], next)

\* try_claim_handler_ack by a handler nobody claimed the event for.
ClaimWon(w) ==
  /\ worker[w].pc = "claim"
  /\ worker[w].handler \notin acks[EventOf(w)]
  /\ acks' = [acks EXCEPT ![EventOf(w)] = @ \cup {worker[w].handler}]
  /\ worker' = [worker EXCEPT ![w].pc = "act"]
  /\ UNCHANGED <<row, blind, effects, replays, faults>>

\* Mutant: A handler goes ahead when it lost the claim.
ClaimIgnored(w) ==
  /\ worker[w].pc = "claim"
  /\ worker[w].handler \in acks[EventOf(w)]
  /\ worker' = [worker EXCEPT ![w].pc = "act"]
  /\ UNCHANGED <<row, acks, blind, effects, replays, faults>>

\* The event was claimed before: the handler does nothing.
ClaimLost(w) ==
  /\ worker[w].pc = "claim"
  /\ worker[w].handler \in acks[EventOf(w)]
  /\ \E result \in {"ok", "timeout"} :
       worker' = [worker EXCEPT ![w] = After(@, result)]
  /\ UNCHANGED <<row, acks, blind, effects, replays, faults>>

\* The ack cannot be written: the handler goes ahead without.
ClaimError(w) ==
  /\ worker[w].pc = "claim"
  /\ Fault
  /\ blind' = [blind EXCEPT ![EventOf(w)] = @ \cup {worker[w].handler}]
  /\ worker' = [worker EXCEPT ![w].pc = "act"]
  /\ UNCHANGED <<row, acks, effects, replays>>

Acted(count, h) == IF h \in Keyed THEN 1 ELSE count + 1

\* The handler acts, and may take too long; or it raises and has no effect.
Act(w) ==
  /\ worker[w].pc = "act"
  /\ \E result \in {"ok", "timeout", "raised"} :
       /\ worker' = [worker EXCEPT ![w] = After(@, result)]
       /\ effects' =
            IF result = "raised" THEN effects
            ELSE [effects EXCEPT ![EventOf(w)][worker[w].handler] =
                    Acted(@, worker[w].handler)]
  /\ UNCHANGED <<row, acks, blind, replays, faults>>

-----------------------------------------------------------------------------
(* Publishing, the drain loop and the replay call.                         *)

\* _persist_envelope.  A transaction that began earlier may commit later, so
\* rows need not appear in the order of created_at.
Publish(e) ==
  /\ ~row[e].published
  /\ row' = [row EXCEPT ![e].published = TRUE]
  /\ UNCHANGED <<acks, blind, effects, worker, replays, faults>>

\* The SELECT of drain_pending_batch: pending rows, the oldest first, and more
\* are left only if the batch is full.
IsOldest(batch) ==
  LET taken == {batch[i] : i \in DOMAIN batch}
  IN  /\ \A i, j \in DOMAIN batch : i < j => batch[i] < batch[j]
      /\ \A e \in Pending \ taken :
           DOMAIN batch = 1..Batch /\ \A f \in taken : f < e

Fetch(d) ==
  /\ worker[d].pc = "idle"
  /\ \E n \in 1..Batch : \E batch \in [1..n -> Pending] :
       /\ IsOldest(batch)
       /\ worker' = [worker EXCEPT ![d] = StartOn(
            [i \in 1..n |->
               [event |-> batch[i], attempts |-> row[batch[i]].attempts]], FALSE)]
  /\ UNCHANGED <<row, acks, blind, effects, replays, faults>>

\* All handlers returned: the row is marked, and the loop goes on.
RecordDelivered(d) ==
  /\ worker[d].pc = "done"
  /\ ~worker[d].failed
  /\ row' = [row EXCEPT ![EventOf(d)].delivered = TRUE]
  /\ worker' = [worker EXCEPT ![d] = StartOn(Tail(@.todo), FALSE)]
  /\ UNCHANGED <<acks, blind, effects, replays, faults>>

\* The UPDATE that marks the row raises: the dispatch counts as failed.
MarkError(w) ==
  /\ worker[w].pc = "done"
  /\ ~worker[w].failed
  /\ Fault
  /\ worker' = [worker EXCEPT ![w].failed = TRUE]
  /\ UNCHANGED <<row, acks, blind, effects, replays>>

\* Mutant: A row is given up one attempt late.
RecordFailureLate(d) ==
  LET attempts == Current(d).attempts + 1
  IN  /\ worker[d].pc = "done"
      /\ worker[d].failed
      /\ row' = [row EXCEPT ![EventOf(d)].attempts = attempts,
                            ![EventOf(d)].dlq = @ \/ attempts > MaxAttempts]
      /\ worker' = [worker EXCEPT ![d] = StartOn(Tail(@.todo), FALSE)]
      /\ UNCHANGED <<acks, blind, effects, replays, faults>>

\* Mutant: The failure of a dispatch is not counted.
RecordFailureUncounted(d) ==
  /\ worker[d].pc = "done"
  /\ worker[d].failed
  /\ worker' = [worker EXCEPT ![d] = StartOn(Tail(@.todo), FALSE)]
  /\ UNCHANGED <<row, acks, blind, effects, replays, faults>>

\* Something raised or timed out: the count that was read, plus one, is
\* written whatever the row holds now; at the limit the row is given up.
RecordFailure(d) ==
  LET attempts == Current(d).attempts + 1
  IN  /\ worker[d].pc = "done"
      /\ worker[d].failed
      /\ row' = [row EXCEPT ![EventOf(d)].attempts = attempts,
                            ![EventOf(d)].dlq = @ \/ attempts >= MaxAttempts]
      /\ worker' = [worker EXCEPT ![d] = StartOn(Tail(@.todo), FALSE)]
      /\ UNCHANGED <<acks, blind, effects, replays, faults>>

\* Mutant: a replay takes the row out of the dead-letter queue even if a
\* handler failed.
RecordReplayAlways(c) ==
  /\ worker[c].pc = "done"
  /\ row' = IF worker[c].mark
            THEN [row EXCEPT ![EventOf(c)].delivered = @ \/ ~worker[c].failed,
                             ![EventOf(c)].dlq = FALSE]
            ELSE row
  /\ worker' = [worker EXCEPT ![c] = Idle]
  /\ UNCHANGED <<acks, blind, effects, replays, faults>>

\* replay_outbox_by_ids.  A call with many ids is as many calls: nothing is
\* kept from one to the next.
Replay(c, e, mark) ==
  /\ worker[c].pc = "idle"
  /\ row[e].published
  /\ replays < MaxReplays
  /\ replays' = replays + 1
  /\ worker' = [worker EXCEPT ![c] =
                  StartOn(<<[event |-> e, attempts |-> 0]>>, mark)]
  /\ UNCHANGED <<row, acks, blind, effects, faults>>

RecordReplay(c) ==
  /\ worker[c].pc = "done"
  /\ row' = IF worker[c].mark /\ ~worker[c].failed
            THEN [row EXCEPT ![EventOf(c)].delivered = TRUE,
                             ![EventOf(c)].dlq = FALSE]
            ELSE row
  /\ worker' = [worker EXCEPT ![c] = Idle]
  /\ UNCHANGED <<acks, blind, effects, replays, faults>>

\* The API process dies, or its database connection does and the exception
\* ends the batch.
Crash(w) ==
  /\ worker[w].pc # "idle"
  /\ Fault
  /\ worker' = [worker EXCEPT ![w] = Idle]
  /\ UNCHANGED <<row, acks, blind, effects, replays>>

-----------------------------------------------------------------------------
Dispatch(w) == ClaimWon(w) \/ ClaimLost(w) \/ Act(w)

DrainStep(d) == Fetch(d) \/ Dispatch(d) \/ RecordDelivered(d) \/ RecordFailure(d)

Next ==
  \/ \E e \in Events : Publish(e)
  \/ \E d \in Drainers : DrainStep(d)
  \/ \E c \in Replayers :
       \/ \E e \in Events, mark \in BOOLEAN : Replay(c, e, mark)
       \/ Dispatch(c)
       \/ RecordReplay(c)
  \/ \E w \in Workers : ClaimError(w) \/ MarkError(w) \/ Crash(w)

Spec     == Init /\ [][Next]_vars
FairSpec == Spec /\ \A d \in Drainers : WF_vars(DrainStep(d))

-----------------------------------------------------------------------------
(* Properties.                                                             *)

\* What a loop has in hand was pending when it was read, so below the limit.
Entries == [event : Events, attempts : 0..MaxAttempts - 1]
RowSet ==
  [published : BOOLEAN, delivered : BOOLEAN, dlq : BOOLEAN,
   attempts : 0..MaxAttempts]

WorkerSet ==
  [pc : {"idle", "claim", "act", "done"}, todo : Seq(Entries),
   handler : 0..NumHandlers + 1, failed : BOOLEAN, mark : BOOLEAN]

\* The variables have their types: in particular no row collects more than
\* MaxAttempts attempts, though the count is written from a stale read.
OutboxTypeOK ==
  /\ row \in [Events -> RowSet]
  /\ acks \in [Events -> SUBSET Claiming]
  /\ blind \in [Events -> SUBSET Claiming]
  /\ effects \in [Events -> [Handlers -> Nat]]
  /\ worker \in [Workers -> WorkerSet]
  /\ replays \in 0..MaxReplays
  /\ faults \in 0..MaxFaults

\* No handler acts twice on an event, whatever loops and replay calls
\* dispatch it at the same time or again after a failure or a crash; unless
\* the handler once went ahead without an ack (handler_ack.py, first claim
\* wins; docs/architecture/event-processing.md, Idempotency on replay).
AtMostOnce ==
  \A e \in Events, h \in Handlers : h \notin blind[e] => effects[e][h] <= 1

Tried(e, h) ==
  IF h \in Keyed THEN effects[e][h] = 1 ELSE h \in acks[e] \cup blind[e]

\* A delivered event is in the audit log, and every other handler had its
\* chance at it, also when several loops and replays shared the work
\* (drain_pending_batch marks a row only when the dispatch did not raise).
DeliveredIsHandled ==
  \A e \in Events : row[e].delivered => \A h \in Handlers : Tried(e, h)

\* A handler that fails does not keep the event from the others: once a
\* failure is on record every webhook and metrics handler had its chance, and
\* after n of them n projections had theirs.  Rows that cannot be decoded
\* reach no handler.
FailureTriesTheRest ==
  \A e \in Events \ Poison :
    row[e].attempts > 0 /\ blind[e] = {} =>
      \A h \in Claiming :
        h < FirstProjection + row[e].attempts => Tried(e, h)

\* Every event is delivered or given up in the end, also one behind events
\* that cannot be decoded: the drain loops take the oldest rows first.
SettledEventually ==
  \A e \in Events : row[e].published ~> Settled(e)

\* A row that is settled stays so: the drain never takes it up again, neither
\* after a late failure of another loop nor after a replay that takes the row
\* out of the dead-letter queue (replay_outbox_by_ids).
SettledIsStable == [][\A e \in Events : Settled(e) => Settled(e)']_vars
=============================================================================
