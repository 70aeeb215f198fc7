----------------------------- MODULE ModelRegistry -----------------------------
(* The versions of one model: their numbers, approval, evaluations, stages    *)
(* and serving slots, and the closed loop that promotes and rolls back.       *)
(* Every statement is a transaction of its own.                               *)
EXTENDS Integers, Sequences

CONSTANTS
  MaxVersions,       \* registrations at most
  Promoters,         \* calls of promote and the closed loop, one at a time each
  Editors,           \* every other call
  Order,             \* promotion_stage_order, "production" its last
  Gated,             \* promotion_approval_stages
  AllowSkip, RollbackEnabled, RollbackApproval,
  EvalToPromote,     \* governance.evaluation.require_before_promote
  EvalToApprove,     \* ML_AIR_REQUIRE_EVALUATION_FOR_APPROVAL
  Staffed,           \* the model starts with a reviewer or an approver
  Ops,               \* what the editors do
  Manual,            \* the serving slots they set
  MaxCrashes

ASSUME NumbersAssumption == MaxVersions \in Nat \ {0} /\ MaxCrashes \in Nat
ASSUME OrderAssumption ==
  /\ Order \in Seq(STRING) /\ Order # <<>>
  /\ Order[Len(Order)] = "production"
  /\ \A i, j \in 1..Len(Order) : Order[i] = Order[j] => i = j
  /\ \A i \in 1..Len(Order) : Order[i] # "archived"
ASSUME ManualAssumption == Manual \subseteq {"candidate", "challenger", "canary"}
ASSUME FlagsAssumption ==
  {AllowSkip, RollbackEnabled, RollbackApproval, EvalToPromote, EvalToApprove, Staffed}
    \subseteq BOOLEAN

VARIABLES
  made,       \* versions registered so far
  row,        \* number -> the version it stands for, 0 when there is no row
  version,    \* version -> stage and approval_status
  evals,      \* number -> the latest evaluation and whether one ever passed
  slot,       \* serving slot -> version, or 0
  staffed,    \* a stakeholder is assigned
  req,        \* the request in hand of every client
  past,       \* history: what a version has been through
  crashes

vars == <<made, row, version, evals, slot, staffed, req, past, crashes>>

Versions == 1..MaxVersions
Clients  == Promoters \cup Editors
Listed   == {Order[i] : i \in 1..Len(Order)}
Stages   == Listed \cup {"archived"}
Slots    == {"candidate", "challenger", "champion", "canary"}
\* pending_manual_approval passes the same guards as pending_reviewer.
Pending  == {"pending_reviewer", "pending_approver"}
Statuses == Pending \cup {"approved", "rejected"}
Results  == {"passed", "failed"}
Labels   == {"idle", "insert", "record", "status", "decide", "restaff",
             "load", "gate", "archive", "move", "slot", "fill"}

Live == {row[n] : n \in Versions} \ {0}

\* MAX(version) + 1.
IsNext(n) == /\ \A m \in Versions : row[m] # 0 => m < n
             /\ n > 1 => row[n - 1] # 0

\* An unlisted or archived version ranks below every stage.
Rank(s) == IF s \in Listed THEN CHOOSE i \in 1..Len(Order) : Order[i] = s ELSE 0

Rollback(from, to) == Rank(to) < Rank(from)

\* Mutant: a forward move may skip stages.
AllowedForward(from, to) == Rank(to) > Rank(from) \/ Rollback(from, to)

Allowed(from, to) ==
  \/ Rank(to) > Rank(from) /\ (Rank(to) = Rank(from) + 1 \/ AllowSkip)
  \/ Rollback(from, to) /\ RollbackEnabled

NeedsApproval(from, to) == IF Rollback(from, to) THEN RollbackApproval ELSE to \in Gated

\* Mutant: with a reviewer assigned, any pending version may be approved.
PermittedUnreviewed(ask, current, isStaffed, latest) ==
  CASE ask \in {"pending_approver", "approved"} -> current \in Pending
    [] ask = "rejected" -> current \in Pending \cup {"approved"}
    [] OTHER -> TRUE

\* What PUT .../approval lets through.
Permitted(ask, current, isStaffed, latest) ==
  CASE ask = "pending_approver" -> current \in Pending
    [] ask = "approved" -> /\ current \in (IF isStaffed THEN {"pending_approver"} ELSE Pending)
                           /\ EvalToApprove => latest = "passed"
    [] ask = "rejected" -> current \in Pending \cup {"approved"}
    [] OTHER -> TRUE

Idle == [pc |-> "idle", id |-> 0, number |-> 1, stage |-> "archived", approval |-> "rejected",
         ask |-> "rejected", slot |-> "champion", staffed |-> FALSE]

Init ==
  /\ made = 0
  /\ row = [n \in Versions |-> 0]
  /\ version = [v \in Versions |-> [stage |-> "archived", approval |-> "rejected"]]
  /\ evals = [n \in Versions |-> [latest |-> "none", passed |-> FALSE]]
  /\ slot = [s \in Slots |-> 0]
  /\ staffed = Staffed
  /\ req = [c \in Clients |-> Idle]
  /\ past = [v \in Versions |-> [reviewed |-> FALSE, approved |-> FALSE, passed |-> FALSE]]
  /\ crashes = 0

At(c, label) == req[c].pc = label
Done(c)      == req' = [req EXCEPT ![c] = Idle]
Goto(c, label) == req' = [req EXCEPT ![c].pc = label]
May(c, op)   == c \in Editors /\ At(c, "idle") /\ op \in Ops

-----------------------------------------------------------------------------
(* Registering and deleting.                                                 *)

\* Reads the next number; an upload then writes its files under it.
ReadNext(c, n) ==
  /\ May(c, "register") /\ made < MaxVersions /\ IsNext(n)
  /\ made' = made + 1
  /\ req' = [req EXCEPT ![c] = [Idle EXCEPT !.pc = "insert", !.id = made', !.number = n]]
  /\ UNCHANGED <<row, version, evals, slot, staffed, past, crashes>>

\* The unique index on model and version refuses a number that was taken.
Insert(c) ==
  LET n == req[c].number IN
  /\ At(c, "insert")
  /\ IF row[n] = 0
       THEN /\ row' = [row EXCEPT ![n] = req[c].id]
            /\ version' = [version EXCEPT ![req[c].id] =
                             [stage |-> Order[1], approval |-> "pending_reviewer"]]
       ELSE UNCHANGED <<row, version>>
  /\ Done(c)
  /\ UNCHANGED <<made, evals, slot, staffed, past, crashes>>

\* The slots go with the row, the evaluations stay: they hang on the number.
DeleteVersion(c, n) ==
  /\ May(c, "delete") /\ row[n] # 0
  /\ row' = [row EXCEPT ![n] = 0]
  /\ slot' = [s \in Slots |-> IF slot[s] = row[n] THEN 0 ELSE slot[s]]
  /\ UNCHANGED <<made, version, evals, staffed, req, past, crashes>>

-----------------------------------------------------------------------------
(* Evaluation and approval.                                                  *)

FindVersion(c, n, result) ==
  /\ May(c, "evaluate") /\ row[n] # 0
  /\ req' = [req EXCEPT ![c] = [Idle EXCEPT !.pc = "record", !.id = row[n], !.number = n,
                                            !.ask = result]]
  /\ UNCHANGED <<made, row, version, evals, slot, staffed, past, crashes>>

RecordEvaluation(c) ==
  LET r == req[c] IN
  /\ At(c, "record")
  /\ evals' = [evals EXCEPT ![r.number] =
                 [latest |-> r.ask, passed |-> @.passed \/ r.ask = "passed"]]
  /\ past' = [past EXCEPT ![r.id].passed = @ \/ r.ask = "passed"]
  /\ Done(c)
  /\ UNCHANGED <<made, row, version, slot, staffed, crashes>>

\* _two_step_approval_required, on a connection of its own.
ReadStakeholders(c, n, ask) ==
  /\ May(c, "approve")
  /\ req' = [req EXCEPT ![c] = [Idle EXCEPT !.pc = "status", !.number = n, !.ask = ask,
                                            !.staffed = staffed]]
  /\ UNCHANGED <<made, row, version, evals, slot, staffed, past, crashes>>

CheckApproval(c) ==
  LET r == req[c]
      v == row[r.number] IN
  /\ At(c, "status")
  /\ IF v # 0 /\ Permitted(r.ask, version[v].approval, r.staffed, evals[r.number].latest)
       THEN req' = [req EXCEPT ![c] = [Idle EXCEPT !.pc = "decide", !.number = r.number,
                                                   !.ask = r.ask]]
       ELSE Done(c)
  /\ UNCHANGED <<made, row, version, evals, slot, staffed, past, crashes>>

\* The UPDATE finds its row by number and does not look at the status again.
WriteApproval(c) ==
  LET ask == req[c].ask
      v   == row[req[c].number] IN
  /\ At(c, "decide")
  /\ IF v # 0
       THEN /\ version' = [version EXCEPT ![v].approval = ask]
            /\ past' = [past EXCEPT ![v].reviewed = @ \/ ask = "pending_approver",
                                    ![v].approved = @ \/ ask = "approved"]
       ELSE UNCHANGED <<version, past>>
  /\ Done(c)
  /\ UNCHANGED <<made, row, evals, slot, staffed, crashes>>

\* replace_model_stakeholders: a DELETE, and then the INSERTs.
ClearStakeholders(c) ==
  /\ May(c, "replace")
  /\ staffed' = FALSE
  /\ req' = [req EXCEPT ![c] = [Idle EXCEPT !.pc = "restaff"]]
  /\ UNCHANGED <<made, row, version, evals, slot, past, crashes>>

AssignStakeholders(c) ==
  /\ At(c, "restaff")
  /\ staffed' \in BOOLEAN
  /\ Done(c)
  /\ UNCHANGED <<made, row, version, evals, slot, past, crashes>>

-----------------------------------------------------------------------------
(* Promotion.                                                                *)

Ask(p, n, stage) ==
  req' = [req EXCEPT ![p] = [Idle EXCEPT !.pc = "load", !.number = n, !.stage = stage]]

Promote(p, n, stage) ==
  /\ p \in Promoters /\ At(p, "idle")
  /\ Ask(p, n, stage)
  /\ UNCHANGED <<made, row, version, evals, slot, staffed, past, crashes>>

\* The closed loop promotes the challenger when its latest evaluation passed ...
LoopPromote(p, n) ==
  /\ p \in Promoters /\ At(p, "idle")
  /\ row[n] # 0 /\ slot["challenger"] = row[n]
  /\ evals[n].latest = "passed"
  /\ Ask(p, n, "production")
  /\ UNCHANGED <<made, row, version, evals, slot, staffed, past, crashes>>

\* ... and on a breach the version before the newest in production.
LoopRollback(p, n) ==
  /\ p \in Promoters /\ At(p, "idle")
  /\ row[n] # 0
  /\ \E m \in Versions :
       /\ n < m /\ row[m] # 0 /\ version[row[m]].stage = "production"
       /\ \A k \in Versions : k > m /\ row[k] # 0 => version[row[k]].stage # "production"
       /\ \A k \in Versions : n < k /\ k < m => row[k] = 0
  /\ Ask(p, n, "production")
  /\ UNCHANGED <<made, row, version, evals, slot, staffed, past, crashes>>

LoadVersion(p) ==
  LET v == row[req[p].number] IN
  /\ At(p, "load")
  /\ IF v # 0
       THEN req' = [req EXCEPT ![p].pc = "gate",
                               ![p].approval = version[v].approval,
                               ![p].ask = version[v].stage]
       ELSE Done(p)
  /\ UNCHANGED <<made, row, version, evals, slot, staffed, past, crashes>>

\* Mutant: whatever is not rejected passes for approved.
EligiblePending(r) ==
  /\ Allowed(r.ask, r.stage)
  /\ EvalToPromote /\ r.stage = "production" => evals[r.number].passed
  /\ NeedsApproval(r.ask, r.stage) => r.approval # "rejected"

\* The gate decides from the stage and approval that were read (kept in ask
\* and approval) and looks the evaluations up.
Eligible(r) ==
  /\ Allowed(r.ask, r.stage)
  /\ EvalToPromote /\ r.stage = "production" => evals[r.number].passed
  /\ NeedsApproval(r.ask, r.stage) => r.approval = "approved"

Gate(p) ==
  /\ At(p, "gate")
  /\ IF Eligible(req[p])
       THEN req' = [req EXCEPT ![p] = [Idle EXCEPT !.pc = "archive", !.number = req[p].number,
                                                   !.stage = req[p].stage]]
       ELSE Done(p)
  /\ UNCHANGED <<made, row, version, evals, slot, staffed, past, crashes>>

\* Mutant: archives the champion instead of what stands at the stage.
ArchiveChampion(p) ==
  /\ At(p, "archive")
  /\ version' = [v \in Versions |->
                   IF v = slot["champion"] /\ req[p].stage = "production"
                     THEN [version[v] EXCEPT !.stage = "archived"]
                     ELSE version[v]]
  /\ Goto(p, "move")
  /\ UNCHANGED <<made, row, evals, slot, staffed, past, crashes>>

ArchiveStage(p) ==
  /\ At(p, "archive")
  /\ version' = [v \in Versions |->
                   IF v \in Live /\ version[v].stage = req[p].stage
                     THEN [version[v] EXCEPT !.stage = "archived"]
                     ELSE version[v]]
  /\ Goto(p, "move")
  /\ UNCHANGED <<made, row, evals, slot, staffed, past, crashes>>

Serve(c, s, n) == req' = [req EXCEPT ![c] = [Idle EXCEPT !.pc = "slot", !.number = n, !.slot = s]]

\* Mutant: a champion that is there already stays.
SetStageOnly(p) ==
  LET r == req[p]
      v == row[r.number] IN
  /\ At(p, "move")
  /\ IF v # 0 THEN version' = [version EXCEPT ![v].stage = r.stage] ELSE UNCHANGED version
  /\ IF v # 0 /\ r.stage = "production" /\ slot["champion"] = 0
       THEN Serve(p, "champion", r.number) ELSE Done(p)
  /\ UNCHANGED <<made, row, evals, slot, staffed, past, crashes>>

SetStage(p) ==
  LET r == req[p]
      v == row[r.number] IN
  /\ At(p, "move")
  /\ IF v # 0 THEN version' = [version EXCEPT ![v].stage = r.stage] ELSE UNCHANGED version
  /\ IF v # 0 /\ r.stage = "production" THEN Serve(p, "champion", r.number) ELSE Done(p)
  /\ UNCHANGED <<made, row, evals, slot, staffed, past, crashes>>

-----------------------------------------------------------------------------
(* Serving slots: set by a call, and "champion" by a promotion.              *)

SetSlot(c, s, n) ==
  /\ May(c, "slot")
  /\ Serve(c, s, n)
  /\ UNCHANGED <<made, row, version, evals, slot, staffed, past, crashes>>

ReadVersionId(c) ==
  LET v == row[req[c].number] IN
  /\ At(c, "slot")
  /\ IF v # 0 THEN req' = [req EXCEPT ![c] = [Idle EXCEPT !.pc = "fill", !.id = v, !.slot = req[c].slot]]
            ELSE Done(c)
  /\ UNCHANGED <<made, row, version, evals, slot, staffed, past, crashes>>

\* Mutant: no foreign key.
FillSlotStale(c) ==
  /\ At(c, "fill")
  /\ slot' = [slot EXCEPT ![req[c].slot] = req[c].id]
  /\ Done(c)
  /\ UNCHANGED <<made, row, version, evals, staffed, past, crashes>>

\* The foreign key refuses a version that was deleted.
FillSlot(c) ==
  /\ At(c, "fill")
  /\ IF req[c].id \in Live THEN slot' = [slot EXCEPT ![req[c].slot] = req[c].id]
                           ELSE UNCHANGED slot
  /\ Done(c)
  /\ UNCHANGED <<made, row, version, evals, staffed, past, crashes>>

\* A process dies with its request.
Crash(c) ==
  /\ ~At(c, "idle") /\ crashes < MaxCrashes
  /\ crashes' = crashes + 1
  /\ Done(c)
  /\ UNCHANGED <<made, row, version, evals, slot, staffed, past>>

ClientNext(c) ==
  \/ \E n \in Versions : ReadNext(c, n) \/ DeleteVersion(c, n)
  \/ Insert(c)
  \/ \E n \in Versions, result \in Results : FindVersion(c, n, result)
  \/ RecordEvaluation(c)
  \/ \E n \in Versions, ask \in Statuses : ReadStakeholders(c, n, ask)
  \/ CheckApproval(c) \/ WriteApproval(c)
  \/ ClearStakeholders(c) \/ AssignStakeholders(c)
  \/ \E n \in Versions, stage \in Listed : Promote(c, n, stage)
  \/ \E n \in Versions : LoopPromote(c, n) \/ LoopRollback(c, n)
  \/ LoadVersion(c) \/ Gate(c) \/ ArchiveStage(c) \/ SetStage(c)
  \/ \E n \in Versions, s \in Manual : SetSlot(c, s, n)
  \/ ReadVersionId(c) \/ FillSlot(c)
  \/ Crash(c)

Next == \E c \in Clients : ClientNext(c)

Spec == Init /\ [][Next]_vars
-----------------------------------------------------------------------------
(* What the registry promises.                                               *)

StageOf(v)   == version[v].stage
InProduction == {v \in Live : StageOf(v) = "production"}

Request == [pc : Labels, id : 0..MaxVersions, number : Versions, stage : Stages,
            approval : Statuses, ask : Statuses \cup Results \cup Stages, slot : Slots,
            staffed : BOOLEAN]

\* The types, and what a row refers to: a slot stands for a version that is
\* there, and a version stands under one number.
RegistryTypeOK ==
  /\ made \in 0..MaxVersions
  /\ row \in [Versions -> 0..made]
  /\ \A m, n \in Versions : row[m] = row[n] /\ row[m] # 0 => m = n
  /\ \A s \in Slots : slot[s] \in Live \cup {0}
  /\ version \in [Versions -> [stage : Stages, approval : Statuses]]
  /\ evals \in [Versions -> [latest : Results \cup {"none"}, passed : BOOLEAN]]
  /\ slot \in [Slots -> 0..MaxVersions]
  /\ staffed \in BOOLEAN
  /\ req \in [Clients -> Request]
  /\ past \in [Versions -> [reviewed : BOOLEAN, approved : BOOLEAN, passed : BOOLEAN]]
  /\ crashes \in 0..MaxCrashes

\* A promotion archives what it replaces: at most one version is in production.
OneProduction == \A v, w \in InProduction : v = w

\* A version came into production approved, and with a passed evaluation where
\* the policy asks for one.
ProductionIsEarned ==
  \A v \in InProduction : past[v].approved /\ (EvalToPromote => past[v].passed)

\* Approval takes two steps when somebody is assigned: a reviewer passes the
\* version on before it is approved.
ReviewedFirst == Staffed => \A v \in Versions : past[v].approved => past[v].reviewed

\* Once the promotion is through, what is in production is the champion.
ProductionIsChampion ==
  crashes = 0 =>
    \A v \in InProduction :
      slot["champion"] = v \/ \E p \in Promoters : req[p].pc \in {"archive", "move", "slot", "fill"}

\* A version climbs one stage at a time, and an archived one starts again at
\* the bottom, in whatever order the calls interleave.
Climbs == \A v \in Versions : Rank(version'[v].stage) <= Rank(StageOf(v)) + 1
StageOrder == [][Climbs]_vars
=============================================================================
