------------------------------ MODULE TaskPlan ------------------------------
(***************************************************************************)
(* The data the scheduler decides from: the transition tables of runs and  *)
(* tasks, and the task plan of a run (scheduler/main.py).                   *)
(*                                                                         *)
(* A plan is a function from the task keys of a run to the keys each of    *)
(* them depends on.  A dependency may name a key the plan does not have:   *)
(* the code never checks it.                                               *)
(***************************************************************************)
EXTENDS Naturals, FiniteSets

RunStatus  == {"PENDING", "RUNNING", "SUCCESS", "FAILED", "CANCELLED"}
TaskStatus == {"PENDING", "QUEUED", "RUNNING", "SUCCESS", "FAILED", "RETRY",
               "CANCELLED"}

\* RUN_ALLOWED_TRANSITIONS
RunAllowed(from) ==
  CASE from = "PENDING" -> {"RUNNING", "FAILED", "CANCELLED"}
    [] from = "RUNNING" -> {"SUCCESS", "FAILED", "CANCELLED"}
    [] from = "FAILED"  -> {"RUNNING"}
    [] OTHER            -> {}

\* Mutants: a row of the table is missing an entry.
NoWayOutOfRetry(from) ==
  CASE from = "PENDING" -> {"RUNNING", "QUEUED", "FAILED", "SUCCESS", "CANCELLED"}
    [] from = "QUEUED"  -> {"RUNNING", "FAILED", "CANCELLED"}
    [] from = "RUNNING" -> {"SUCCESS", "FAILED", "PENDING", "CANCELLED"}
    [] from = "FAILED"  -> {"RETRY"}
    [] from = "RETRY"   -> {"QUEUED", "CANCELLED"}
    [] OTHER            -> {}
NoSuccessOfRunning(from) ==
  CASE from = "PENDING" -> {"RUNNING", "QUEUED", "FAILED", "SUCCESS", "CANCELLED"}
    [] from = "QUEUED"  -> {"RUNNING", "FAILED", "CANCELLED"}
    [] from = "RUNNING" -> {"FAILED", "PENDING", "CANCELLED"}
    [] from = "FAILED"  -> {"RETRY"}
    [] from = "RETRY"   -> {"RUNNING", "QUEUED", "CANCELLED"}
    [] OTHER            -> {}

\* TASK_ALLOWED_TRANSITIONS
TaskAllowed(from) ==
  CASE from = "PENDING" -> {"RUNNING", "QUEUED", "FAILED", "SUCCESS", "CANCELLED"}
    [] from = "QUEUED"  -> {"RUNNING", "FAILED", "CANCELLED"}
    [] from = "RUNNING" -> {"SUCCESS", "FAILED", "PENDING", "CANCELLED"}
    [] from = "FAILED"  -> {"RETRY"}
    [] from = "RETRY"   -> {"RUNNING", "QUEUED", "CANCELLED"}
    [] OTHER            -> {}

-----------------------------------------------------------------------------
Keys(plan) == DOMAIN plan

Children(plan, k) == {n \in Keys(plan) : k \in plan[n]}

ClosedDownward(plan, C) == \A k \in C : Children(plan, k) \subseteq C

(***************************************************************************)
(* The keys reachable from start along dependency edges, start included:   *)
(* the intersection of all the sets that hold start and are closed under   *)
(* Children.  _apply_replay_filter computes it with a worklist.            *)
(***************************************************************************)
Downstream(plan, start) ==
  {k \in Keys(plan) : \A C \in SUBSET Keys(plan) :
                         start \in C /\ ClosedDownward(plan, C) => k \in C}

\* _apply_replay_filter: an unknown start selects everything.
SelectedKeys(plan, start) ==
  IF start \in Keys(plan) THEN Downstream(plan, start) ELSE Keys(plan)

SkippedKeys(plan, start) == Keys(plan) \ SelectedKeys(plan, start)
=============================================================================
