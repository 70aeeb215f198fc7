---------------------------- MODULE DagExecution ----------------------------
(***************************************************************************)
(* What the orchestration of runs promises, whatever goes through the      *)
(* database rows and the queues: the tasks of a run are worked on one      *)
(* attempt chain at a time, only after what they depend on succeeded, an   *)
(* ended task stays ended, and the verdict on the run is one its tasks     *)
(* bear out.  Cancelling is best effort: a task that was called off may    *)
(* still be worked on.                                                     *)
(***************************************************************************)
CONSTANTS Runs, Tasks, Plan, Skippable(_)

VARIABLES
  phase,    \* phase[r][k]: where task k of run r is
  verdict   \* verdict[r]: the status of run r

vars == <<phase, verdict>>

Phases == {"waiting", "active", "succeeded", "dead", "cancelled"}

Init ==
  /\ phase = [r \in Runs |-> [k \in Tasks |-> "waiting"]]
  /\ verdict = [r \in Runs |-> "none"]

Move(r, k, from, to) ==
  /\ phase[r][k] \in from
  /\ phase' = [phase EXCEPT ![r][k] = to]
  /\ UNCHANGED verdict

Begin(r, k) ==
  /\ k \in DOMAIN Plan[r]
  /\ \A d \in Plan[r][k] : phase[r][d] = "succeeded"
  /\ Move(r, k, {"waiting", "cancelled"}, "active")

Succeed(r, k)  == Move(r, k, {"active"}, "succeeded")
Die(r, k)      == Move(r, k, {"active"}, "dead")
Withdraw(r, k) == Move(r, k, {"active"}, "cancelled")

\* A replay takes the outcome of an upstream task over from its parent run.
TakeOver(r, k) ==
  k \in Skippable(r) /\ Move(r, k, {"waiting"}, "succeeded")
Refuse(r, k) ==
  k \in Skippable(r) /\ Move(r, k, {"waiting"}, "dead")

\* Any set of waiting tasks of a run is called off at once.
CallOff(r) ==
  /\ \E K \in SUBSET {k \in Tasks : phase[r][k] = "waiting"} :
       phase' = [phase EXCEPT ![r] =
                   [k \in Tasks |-> IF k \in K THEN "cancelled" ELSE phase[r][k]]]
  /\ UNCHANGED verdict

Conclude(r, v) ==
  /\ v = "SUCCESS" => \A k \in DOMAIN Plan[r] : phase[r][k] = "succeeded"
  /\ v = "FAILED"  => \E k \in DOMAIN Plan[r] : phase[r][k] = "dead"
  /\ verdict' = [verdict EXCEPT ![r] = v]
  /\ UNCHANGED phase

Next ==
  \E r \in Runs :
    \/ \E k \in Tasks : \/ Begin(r, k) \/ Succeed(r, k) \/ Die(r, k)
                        \/ Withdraw(r, k) \/ TakeOver(r, k) \/ Refuse(r, k)
    \/ CallOff(r)
    \/ \E v \in {"PENDING", "RUNNING", "SUCCESS", "FAILED", "CANCELLED"} :
         Conclude(r, v)

Spec == Init /\ [][Next]_vars
=============================================================================
