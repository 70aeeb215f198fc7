------------------------ MODULE ModelRegistry_proofs ------------------------
(* Theorems about ModelRegistry for any number of versions, clients and      *)
(* stages, and every setting of the policies.                                *)
EXTENDS ModelRegistry, TLAPS

-----------------------------------------------------------------------------
(* Types.  A registration has an id of its own until its row is there; that  *)
(* makes a version stand under one number only.                              *)

Fresh(c) == req[c].id \in 1..made /\ req[c].id \notin Live

TypeInv ==
  /\ RegistryTypeOK
  /\ \A c \in Clients : At(c, "insert") => Fresh(c)
  /\ \A c, d \in Clients : At(c, "insert") /\ At(d, "insert") /\ req[c].id = req[d].id => c = d
  /\ \A c \in Clients : At(c, "record") => req[c].id \in Versions /\ req[c].ask \in Results
  /\ \A c \in Clients : req[c].pc \in {"status", "decide"} => req[c].ask \in Statuses

LEMMA Constants ==
  /\ MaxVersions \in Nat \ {0} /\ MaxCrashes \in Nat
  /\ 1 \in Versions /\ Versions \subseteq Nat \ {0}
  /\ Order[1] \in Listed /\ Order[1] \in Stages
  /\ "archived" \in Stages /\ "archived" \notin Listed
  /\ Staffed \in BOOLEAN
<1>1. Len(Order) \in Nat /\ Len(Order) # 0
  BY OrderAssumption
<1>2. 1 \in 1..Len(Order)
  BY <1>1
<1>. QED
  BY <1>2, NumbersAssumption, OrderAssumption, FlagsAssumption DEF Versions, Listed, Stages

LEMMA IdleTyped == Idle \in Request /\ Idle.pc = "idle"
BY Constants DEF Idle, Request, Labels, Slots, Statuses, Pending

LEMMA FreshRequest ==
  ASSUME NEW label \in Labels, NEW n \in Versions
  PROVE  /\ [Idle EXCEPT !.pc = label, !.number = n] \in Request
         /\ \A v \in 0..MaxVersions :
              [Idle EXCEPT !.pc = label, !.id = v, !.number = n] \in Request
         /\ \A a \in Statuses \cup Results \cup Stages :
              [Idle EXCEPT !.pc = label, !.number = n, !.ask = a] \in Request
BY IdleTyped DEF Request

LEMMA InitTyped == Init => TypeInv
BY Constants, IdleTyped, FlagsAssumption
DEF Init, TypeInv, RegistryTypeOK, Live, At, Idle, Statuses, Fresh

\* The client a step leaves with r in hand.
Holds(c, r) ==
  /\ r \in Request
  /\ r.pc # "insert"
  /\ r.pc = "record" => r.id \in Versions /\ r.ask \in Results
  /\ r.pc \in {"status", "decide"} => r.ask \in Statuses
  /\ req' = [req EXCEPT ![c] = r]

LEMMA ClientMoves ==
  ASSUME TypeInv, NEW c \in Clients, NEW r, Holds(c, r), UNCHANGED <<made, row>>, RegistryTypeOK'
  PROVE  TypeInv'
<1>1. req'[c] = r /\ \A d \in Clients : d # c => req'[d] = req[d]
  BY DEF Holds, TypeInv, RegistryTypeOK
<1>2. UNCHANGED Live
  BY DEF Live
<1>3. \A d \in Clients : At(d, "insert")' => Fresh(d)'
  BY <1>1, <1>2 DEF TypeInv, At, Fresh, Holds
<1>. QED
  BY <1>1, <1>3 DEF TypeInv, At, Holds

LEMMA OnlyMoves ==
  ASSUME TypeInv, NEW c \in Clients, NEW r, Holds(c, r),
         UNCHANGED <<made, row, version, evals, slot, staffed, past, crashes>>
  PROVE  TypeInv'
<1>1. RegistryTypeOK'
  BY DEF TypeInv, RegistryTypeOK, Live, Holds
<1>. QED
  BY <1>1, ClientMoves

LEMMA DoneHolds == ASSUME NEW c \in Clients, Done(c) PROVE Holds(c, Idle)
BY IdleTyped DEF Holds, Done

LEMMA ReadNextTyped ==
  ASSUME TypeInv, NEW c \in Clients, NEW n \in Versions, ReadNext(c, n)
  PROVE  TypeInv'
<1>1. made' = made + 1 /\ made \in Nat /\ made' \in Versions
  BY Constants DEF TypeInv, RegistryTypeOK, ReadNext, Versions
<1>2. Live \subseteq 1..made
  BY <1>1 DEF TypeInv, RegistryTypeOK, Live
<1>3. req'[c] = [Idle EXCEPT !.pc = "insert", !.id = made', !.number = n]
      /\ \A d \in Clients : d # c => req'[d] = req[d]
  BY DEF TypeInv, RegistryTypeOK, ReadNext
<1>4. [Idle EXCEPT !.pc = "insert", !.id = made', !.number = n] \in Request
  <2>1. made' \in 0..MaxVersions /\ "insert" \in Labels
    BY <1>1, Constants DEF Labels, Versions
  <2>. QED
    BY <2>1, FreshRequest, Zenon
<1>5. req' \in [Clients -> Request]
  BY <1>3, <1>4 DEF TypeInv, RegistryTypeOK, ReadNext
<1>6. RegistryTypeOK'
  BY <1>1, <1>5, Constants DEF TypeInv, RegistryTypeOK, ReadNext, Live, Versions
<1>7. req'[c].pc = "insert" /\ req'[c].id = made'
  BY <1>3 DEF Idle
<1>8. UNCHANGED Live
  BY DEF ReadNext, Live
<1>9. ASSUME NEW d \in Clients, At(d, "insert")' PROVE Fresh(d)'
  <2>1. CASE d = c
    BY <1>1, <1>2, <1>7, <1>8, <2>1 DEF Fresh
  <2>2. CASE d # c
    <3>1. req'[d] = req[d] /\ At(d, "insert")
      BY <1>3, <1>9, <2>2 DEF At
    <3>2. Fresh(d)
      BY <3>1 DEF TypeInv
    <3>. QED
      BY <1>1, <1>8, <3>1, <3>2 DEF Fresh
  <2>. QED
    BY <2>1, <2>2
<1>10. ASSUME NEW d \in Clients, NEW e \in Clients,
              At(d, "insert")', At(e, "insert")', req'[d].id = req'[e].id
       PROVE  d = e
  <2>1. ASSUME NEW f \in Clients, f # c, At(f, "insert")' PROVE req'[f].id \in 1..made
    <3>1. req'[f] = req[f] /\ At(f, "insert")
      BY <1>3, <2>1 DEF At
    <3>. QED
      BY <3>1 DEF TypeInv, Fresh
  <2>2. made' \notin 1..made
    BY <1>1
  <2>3. CASE d = c \/ e = c
    BY <1>7, <1>10, <2>1, <2>2, <2>3
  <2>4. CASE d # c /\ e # c
    <3>1. req'[d] = req[d] /\ req'[e] = req[e]
      BY <1>3, <2>4
    <3>. QED
      BY <1>10, <3>1 DEF TypeInv, At
  <2>. QED
    BY <2>3, <2>4
<1>. QED
  BY <1>3, <1>6, <1>7, <1>9, <1>10 DEF TypeInv, At

LEMMA DoneMoves ==
  ASSUME TypeInv, NEW c \in Clients, Done(c)
  PROVE  /\ req' \in [Clients -> Request]
         /\ req'[c].pc = "idle"
         /\ \A d \in Clients : d # c => req'[d] = req[d]
BY IdleTyped DEF TypeInv, RegistryTypeOK, Done

LEMMA InsertTyped ==
  ASSUME TypeInv, NEW c \in Clients, Insert(c)
  PROVE  TypeInv'
<1>. DEFINE n == req[c].number
            v == req[c].id
<1>1. n \in Versions /\ v \in 1..made /\ v \notin Live /\ v \in Versions
  BY Constants DEF TypeInv, RegistryTypeOK, Insert, Fresh, Request, Versions
<1>2. /\ req' \in [Clients -> Request]
      /\ req'[c].pc = "idle"
      /\ \A d \in Clients : d # c => req'[d] = req[d]
  BY DoneMoves DEF Insert
<1>3. CASE row[n] # 0
  <2>1. UNCHANGED <<made, row, version, evals, slot, staffed, past, crashes>>
    BY <1>3 DEF Insert
  <2>2. UNCHANGED Live /\ RegistryTypeOK'
    BY <1>2, <2>1 DEF TypeInv, RegistryTypeOK, Live
  <2>3. \A d \in Clients : At(d, "insert")' => Fresh(d)'
    BY <1>2, <2>1, <2>2 DEF TypeInv, At, Fresh
  <2>. QED
    BY <1>2, <2>2, <2>3 DEF TypeInv, At
<1>4. CASE row[n] = 0
  <2>1. /\ row' = [row EXCEPT ![n] = v]
        /\ version' = [version EXCEPT ![v] = [stage |-> Order[1], approval |-> "pending_reviewer"]]
        /\ UNCHANGED <<made, evals, slot, staffed, past, crashes>>
    BY <1>4 DEF Insert
  <2>2. row' \in [Versions -> 0..made]
    BY <1>1, <2>1 DEF TypeInv, RegistryTypeOK
  <2>3. Live' = Live \cup {v}
    BY <1>1, <1>4, <2>1 DEF TypeInv, RegistryTypeOK, Live
  <2>4. \A m, k \in Versions : row'[m] = row'[k] /\ row'[m] # 0 => m = k
    BY <1>1, <2>1 DEF TypeInv, RegistryTypeOK, Live
  <2>5. version' \in [Versions -> [stage : Stages, approval : Statuses]]
    BY <1>1, <2>1, Constants DEF TypeInv, RegistryTypeOK, Statuses, Pending
  <2>6. RegistryTypeOK'
    BY <1>2, <2>1, <2>2, <2>3, <2>4, <2>5 DEF TypeInv, RegistryTypeOK
  <2>7. \A d \in Clients : At(d, "insert")' => Fresh(d)'
    BY <1>2, <2>1, <2>3 DEF TypeInv, At, Fresh, Insert
  <2>. QED
    BY <1>2, <2>6, <2>7 DEF TypeInv, At
<1>. QED
  BY <1>3, <1>4

LEMMA DeleteTyped ==
  ASSUME TypeInv, NEW c \in Clients, NEW n \in Versions, DeleteVersion(c, n)
  PROVE  TypeInv'
<1>1. /\ row' = [row EXCEPT ![n] = 0] /\ row[n] # 0
      /\ slot' = [s \in Slots |-> IF slot[s] = row[n] THEN 0 ELSE slot[s]]
      /\ UNCHANGED <<made, version, evals, staffed, req, past, crashes>>
  BY DEF DeleteVersion
<1>2. Live' = Live \ {row[n]}
  BY <1>1 DEF TypeInv, RegistryTypeOK, Live
<1>3. \A s \in Slots : slot'[s] \in Live' \cup {0}
  BY <1>1, <1>2 DEF TypeInv, RegistryTypeOK
<1>4. slot' \in [Slots -> 0..MaxVersions]
  BY <1>1, Constants DEF TypeInv, RegistryTypeOK
<1>5. row' \in [Versions -> 0..made]
  BY <1>1, Constants DEF TypeInv, RegistryTypeOK
<1>6. \A m, k \in Versions : row'[m] = row'[k] /\ row'[m] # 0 => m = k
  BY <1>1 DEF TypeInv, RegistryTypeOK
<1>7. RegistryTypeOK'
  BY <1>1, <1>3, <1>4, <1>5, <1>6 DEF TypeInv, RegistryTypeOK
<1>. QED
  BY <1>1, <1>2, <1>7 DEF TypeInv, At, Fresh

LEMMA FindTyped ==
  ASSUME TypeInv, NEW c \in Clients, NEW n \in Versions, NEW result \in Results,
         FindVersion(c, n, result)
  PROVE  TypeInv'
<1>. DEFINE r == [Idle EXCEPT !.pc = "record", !.id = row[n], !.number = n, !.ask = result]
<1>1. row[n] \in 0..MaxVersions /\ row[n] \in Versions
  BY Constants DEF TypeInv, RegistryTypeOK, FindVersion, Versions
<1>2. r \in Request
  BY <1>1, IdleTyped DEF Request, Labels
<1>3. r.pc = "record" /\ r.id = row[n] /\ r.ask = result
  BY IdleTyped DEF Request
<1>4. Holds(c, r)
  BY <1>1, <1>2, <1>3 DEF Holds, FindVersion
<1>. QED
  BY <1>4, OnlyMoves DEF FindVersion

LEMMA RecordTyped ==
  ASSUME TypeInv, NEW c \in Clients, RecordEvaluation(c)
  PROVE  TypeInv'
<1>1. req[c].number \in Versions /\ req[c].id \in Versions /\ req[c].ask \in Results
  BY DEF TypeInv, RegistryTypeOK, RecordEvaluation, Request, At
<1>2. Holds(c, Idle)
  BY DoneHolds DEF RecordEvaluation
<1>3. evals' \in [Versions -> [latest : Results \cup {"none"}, passed : BOOLEAN]]
  BY <1>1 DEF TypeInv, RegistryTypeOK, RecordEvaluation
<1>4. past' \in [Versions -> [reviewed : BOOLEAN, approved : BOOLEAN, passed : BOOLEAN]]
  BY <1>1 DEF TypeInv, RegistryTypeOK, RecordEvaluation
<1>5. RegistryTypeOK'
  BY <1>2, <1>3, <1>4 DEF TypeInv, RegistryTypeOK, RecordEvaluation, Live, Holds
<1>. QED
  BY <1>2, <1>5, ClientMoves DEF RecordEvaluation

LEMMA StakeholdersTyped ==
  ASSUME TypeInv, NEW c \in Clients, NEW n \in Versions, NEW ask \in Statuses,
         ReadStakeholders(c, n, ask)
  PROVE  TypeInv'
<1>. DEFINE r == [Idle EXCEPT !.pc = "status", !.number = n, !.ask = ask, !.staffed = staffed]
<1>1. r \in Request /\ r.pc = "status" /\ r.ask = ask
  BY IdleTyped DEF Request, Labels, TypeInv, RegistryTypeOK
<1>2. Holds(c, r)
  BY <1>1 DEF Holds, ReadStakeholders
<1>. QED
  BY <1>2, OnlyMoves DEF ReadStakeholders

\* What an approval asks for is a status: that is what Permitted lets through.
LEMMA CheckTyped ==
  ASSUME TypeInv, NEW c \in Clients, CheckApproval(c)
  PROVE  TypeInv'
<1>. DEFINE r == [Idle EXCEPT !.pc = "decide", !.number = req[c].number, !.ask = req[c].ask]
<1>1. req[c].number \in Versions /\ req[c].ask \in Statuses
  BY DEF TypeInv, RegistryTypeOK, Request, CheckApproval, At
<1>2. r \in Request /\ r.pc = "decide" /\ r.ask = req[c].ask
  BY <1>1, IdleTyped DEF Request, Labels
<1>3. Holds(c, r) \/ Holds(c, Idle)
  BY <1>1, <1>2, IdleTyped DEF Holds, CheckApproval, Done
<1>. QED
  BY <1>3, OnlyMoves DEF CheckApproval

LEMMA WriteApprovalTyped ==
  ASSUME TypeInv, NEW c \in Clients, WriteApproval(c)
  PROVE  TypeInv'
<1>. DEFINE v == row[req[c].number]
<1>1. req[c].number \in Versions /\ req[c].ask \in Statuses
  BY DEF TypeInv, RegistryTypeOK, WriteApproval, Request, At
<1>2. v = 0 \/ v \in Versions
  BY <1>1, Constants DEF TypeInv, RegistryTypeOK, Versions
<1>3. Holds(c, Idle)
  BY DoneHolds DEF WriteApproval
<1>4. version' \in [Versions -> [stage : Stages, approval : Statuses]]
  <2>1. CASE v = 0
    BY <2>1 DEF TypeInv, RegistryTypeOK, WriteApproval
  <2>2. CASE v \in Versions
    <3>1. version' = [version EXCEPT ![v].approval = req[c].ask]
      BY <2>2, Constants DEF WriteApproval
    <3>. QED
      BY <1>1, <2>2, <3>1 DEF TypeInv, RegistryTypeOK
  <2>. QED
    BY <1>2, <2>1, <2>2
<1>5. past' \in [Versions -> [reviewed : BOOLEAN, approved : BOOLEAN, passed : BOOLEAN]]
  <2>1. CASE v = 0
    BY <2>1 DEF TypeInv, RegistryTypeOK, WriteApproval
  <2>2. CASE v \in Versions
    <3>. DEFINE seen == past[v].reviewed \/ req[c].ask = "pending_approver"
                done == past[v].approved \/ req[c].ask = "approved"
    <3>1. past' = [past EXCEPT ![v].reviewed = seen, ![v].approved = done]
      BY <2>2, Constants DEF WriteApproval
    <3>2. seen \in BOOLEAN /\ done \in BOOLEAN
      OBVIOUS
    <3>3. past \in [Versions -> [reviewed : BOOLEAN, approved : BOOLEAN, passed : BOOLEAN]]
      BY DEF TypeInv, RegistryTypeOK
    <3>. HIDE DEF seen, done
    <3>. QED
      BY <2>2, <3>1, <3>2, <3>3
  <2>. QED
    BY <1>2, <2>1, <2>2
<1>6. RegistryTypeOK'
  BY <1>3, <1>4, <1>5 DEF TypeInv, RegistryTypeOK, WriteApproval, Live, Holds
<1>. QED
  BY <1>3, <1>6, ClientMoves DEF WriteApproval

LEMMA StaffTyped ==
  ASSUME TypeInv, NEW c \in Clients, NEW r, Holds(c, r), staffed' \in BOOLEAN,
         UNCHANGED <<made, row, version, evals, slot, past, crashes>>
  PROVE  TypeInv'
<1>1. RegistryTypeOK'
  BY DEF TypeInv, RegistryTypeOK, Live, Holds
<1>. QED
  BY <1>1, ClientMoves

LEMMA ReplaceTyped ==
  ASSUME TypeInv, NEW c \in Clients, ClearStakeholders(c) \/ AssignStakeholders(c)
  PROVE  TypeInv'
<1>. DEFINE r == [Idle EXCEPT !.pc = "restaff"]
<1>1. r \in Request /\ r.pc = "restaff"
  BY IdleTyped DEF Request, Labels
<1>2. CASE ClearStakeholders(c)
  <2>1. Holds(c, r)
    BY <1>1, <1>2 DEF Holds, ClearStakeholders
  <2>. QED
    BY <1>2, <2>1, StaffTyped DEF ClearStakeholders
<1>3. CASE AssignStakeholders(c)
  <2>1. Holds(c, Idle)
    BY <1>3, DoneHolds DEF AssignStakeholders
  <2>. QED
    BY <1>3, <2>1, StaffTyped DEF AssignStakeholders
<1>. QED
  BY <1>2, <1>3

LEMMA AskTyped ==
  ASSUME TypeInv, NEW c \in Clients, NEW n \in Versions, NEW stage \in Listed, Ask(c, n, stage),
         UNCHANGED <<made, row, version, evals, slot, staffed, past, crashes>>
  PROVE  TypeInv'
<1>. DEFINE r == [Idle EXCEPT !.pc = "load", !.number = n, !.stage = stage]
<1>1. r \in Request /\ r.pc = "load"
  BY IdleTyped DEF Request, Labels, Stages
<1>2. Holds(c, r)
  BY <1>1 DEF Holds, Ask
<1>. QED
  BY <1>2, OnlyMoves

LEMMA LoadTyped ==
  ASSUME TypeInv, NEW c \in Clients, LoadVersion(c)
  PROVE  TypeInv'
<1>. DEFINE v == row[req[c].number]
            r == [req[c] EXCEPT !.pc = "gate", !.approval = version[v].approval,
                                !.ask = version[v].stage]
<1>1. req[c] \in Request /\ req[c].number \in Versions
  BY DEF TypeInv, RegistryTypeOK, Request
<1>2. v = 0 \/ v \in Versions
  BY <1>1, Constants DEF TypeInv, RegistryTypeOK, Versions
<1>3. CASE v = 0
  <2>1. Holds(c, Idle)
    BY <1>3, DoneHolds DEF LoadVersion
  <2>. QED
    BY <2>1, OnlyMoves DEF LoadVersion
<1>4. CASE v \in Versions
  <2>1. version[v].approval \in Statuses /\ version[v].stage \in Stages
    BY <1>4 DEF TypeInv, RegistryTypeOK
  <2>2. r \in Request /\ r.pc = "gate"
    BY <1>1, <2>1 DEF Request, Labels
  <2>3. req' = [req EXCEPT ![c] = r]
    BY <1>4, Constants DEF LoadVersion, TypeInv, RegistryTypeOK
  <2>4. Holds(c, r)
    BY <2>2, <2>3 DEF Holds
  <2>. QED
    BY <2>4, OnlyMoves DEF LoadVersion
<1>. QED
  BY <1>2, <1>3, <1>4

LEMMA GateTyped ==
  ASSUME TypeInv, NEW c \in Clients, Gate(c)
  PROVE  TypeInv'
<1>. DEFINE r == [Idle EXCEPT !.pc = "archive", !.number = req[c].number, !.stage = req[c].stage]
<1>1. req[c].number \in Versions /\ req[c].stage \in Stages
  BY DEF TypeInv, RegistryTypeOK, Request
<1>2. r \in Request /\ r.pc = "archive"
  BY <1>1, IdleTyped DEF Request, Labels
<1>3. Holds(c, r) \/ Holds(c, Idle)
  BY <1>2, IdleTyped DEF Holds, Gate, Done
<1>. QED
  BY <1>3, OnlyMoves DEF Gate

LEMMA ArchiveTyped ==
  ASSUME TypeInv, NEW c \in Clients, ArchiveStage(c)
  PROVE  TypeInv'
<1>. DEFINE r == [req[c] EXCEPT !.pc = "move"]
<1>1. r \in Request /\ r.pc = "move"
  BY DEF TypeInv, RegistryTypeOK, Request, Labels
<1>2. Holds(c, r)
  BY <1>1 DEF Holds, ArchiveStage, Goto, TypeInv, RegistryTypeOK
<1>3. version' \in [Versions -> [stage : Stages, approval : Statuses]]
  BY Constants DEF TypeInv, RegistryTypeOK, ArchiveStage
<1>4. RegistryTypeOK'
  BY <1>2, <1>3 DEF TypeInv, RegistryTypeOK, ArchiveStage, Live, Holds
<1>. QED
  BY <1>2, <1>4, ClientMoves DEF ArchiveStage

LEMMA ServeHolds ==
  ASSUME NEW c \in Clients, NEW s \in Slots, NEW n \in Versions, Serve(c, s, n)
  PROVE  Holds(c, [Idle EXCEPT !.pc = "slot", !.number = n, !.slot = s])
<1>. DEFINE r == [Idle EXCEPT !.pc = "slot", !.number = n, !.slot = s]
<1>1. r \in Request /\ r.pc = "slot"
  BY IdleTyped DEF Request, Labels
<1>. QED
  BY <1>1 DEF Holds, Serve

LEMMA SetStageTyped ==
  ASSUME TypeInv, NEW c \in Clients, SetStage(c)
  PROVE  TypeInv'
<1>. DEFINE v == row[req[c].number]
<1>1. req[c].number \in Versions /\ req[c].stage \in Stages
  BY DEF TypeInv, RegistryTypeOK, Request
<1>2. v = 0 \/ v \in Versions
  BY <1>1, Constants DEF TypeInv, RegistryTypeOK, Versions
<1>3. "champion" \in Slots
  BY DEF Slots
<1>4. Serve(c, "champion", req[c].number) \/ Done(c)
  BY DEF SetStage
<1>5. PICK r \in Request : Holds(c, r)
  BY <1>1, <1>3, <1>4, ServeHolds, DoneHolds DEF Holds
<1>6. version' \in [Versions -> [stage : Stages, approval : Statuses]]
  <2>1. CASE v = 0
    BY <2>1 DEF TypeInv, RegistryTypeOK, SetStage
  <2>2. CASE v \in Versions
    <3>1. version' = [version EXCEPT ![v].stage = req[c].stage]
      BY <2>2, Constants DEF SetStage
    <3>. QED
      BY <1>1, <2>2, <3>1 DEF TypeInv, RegistryTypeOK
  <2>. QED
    BY <1>2, <2>1, <2>2
<1>7. RegistryTypeOK'
  BY <1>5, <1>6 DEF TypeInv, RegistryTypeOK, SetStage, Live, Holds
<1>. QED
  BY <1>5, <1>7, ClientMoves DEF SetStage

LEMMA SetSlotTyped ==
  ASSUME TypeInv, NEW c \in Clients, NEW s \in Manual, NEW n \in Versions, SetSlot(c, s, n)
  PROVE  TypeInv'
<1>1. s \in Slots
  BY ManualAssumption DEF Slots
<1>2. PICK r \in Request : Holds(c, r)
  BY <1>1, ServeHolds DEF SetSlot, Holds
<1>. QED
  BY <1>2, OnlyMoves DEF SetSlot

LEMMA ReadIdTyped ==
  ASSUME TypeInv, NEW c \in Clients, ReadVersionId(c)
  PROVE  TypeInv'
<1>. DEFINE v == row[req[c].number]
            r == [Idle EXCEPT !.pc = "fill", !.id = v, !.slot = req[c].slot]
<1>1. req[c].number \in Versions /\ req[c].slot \in Slots
  BY DEF TypeInv, RegistryTypeOK, Request
<1>2. v \in 0..MaxVersions
  <2>1. v \in 0..made /\ made \in 0..MaxVersions
    BY <1>1 DEF TypeInv, RegistryTypeOK
  <2>. QED
    BY <2>1, Constants
<1>3. r \in Request /\ r.pc = "fill"
  BY <1>1, <1>2, IdleTyped DEF Request, Labels
<1>4. Holds(c, r) \/ Holds(c, Idle)
  BY <1>3, IdleTyped DEF Holds, ReadVersionId, Done
<1>. QED
  BY <1>4, OnlyMoves DEF ReadVersionId

LEMMA FillTyped ==
  ASSUME TypeInv, NEW c \in Clients, FillSlot(c)
  PROVE  TypeInv'
<1>1. req[c].slot \in Slots /\ req[c].id \in 0..MaxVersions
  BY DEF TypeInv, RegistryTypeOK, Request
<1>2. Holds(c, Idle)
  BY DoneHolds DEF FillSlot
<1>3. slot' \in [Slots -> 0..MaxVersions] /\ \A s \in Slots : slot'[s] \in Live \cup {0}
  BY <1>1 DEF TypeInv, RegistryTypeOK, FillSlot
<1>4. RegistryTypeOK'
  BY <1>2, <1>3 DEF TypeInv, RegistryTypeOK, FillSlot, Live, Holds
<1>. QED
  BY <1>2, <1>4, ClientMoves DEF FillSlot

LEMMA CrashTyped ==
  ASSUME TypeInv, NEW c \in Clients, Crash(c)
  PROVE  TypeInv'
<1>1. Holds(c, Idle)
  BY DoneHolds DEF Crash
<1>2. crashes' \in 0..MaxCrashes
  BY Constants DEF TypeInv, RegistryTypeOK, Crash
<1>3. RegistryTypeOK'
  BY <1>1, <1>2 DEF TypeInv, RegistryTypeOK, Crash, Live, Holds
<1>. QED
  BY <1>1, <1>3, ClientMoves DEF Crash

LEMMA NextTyped == TypeInv /\ [Next]_vars => TypeInv'
<1>1. ASSUME TypeInv, NEW c \in Clients, ClientNext(c) PROVE TypeInv'
  <2>1. "production" \in Listed
    BY OrderAssumption DEF Listed
  <2>2. ASSUME NEW n \in Versions, ReadNext(c, n) \/ DeleteVersion(c, n) PROVE TypeInv'
    BY <1>1, <2>2, ReadNextTyped, DeleteTyped
  <2>3. ASSUME Insert(c) \/ RecordEvaluation(c) \/ CheckApproval(c) \/ WriteApproval(c)
               \/ ClearStakeholders(c) \/ AssignStakeholders(c)
        PROVE  TypeInv'
    BY <1>1, <2>3, InsertTyped, RecordTyped, CheckTyped, WriteApprovalTyped, ReplaceTyped
  <2>4. ASSUME NEW n \in Versions, NEW result \in Results, FindVersion(c, n, result) PROVE TypeInv'
    BY <1>1, <2>4, FindTyped
  <2>5. ASSUME NEW n \in Versions, NEW ask \in Statuses, ReadStakeholders(c, n, ask) PROVE TypeInv'
    BY <1>1, <2>5, StakeholdersTyped
  <2>6. ASSUME NEW n \in Versions, NEW stage \in Listed, Promote(c, n, stage) PROVE TypeInv'
    BY <1>1, <2>6, AskTyped DEF Promote
  <2>7. ASSUME NEW n \in Versions, LoopPromote(c, n) \/ LoopRollback(c, n) PROVE TypeInv'
    BY <1>1, <2>1, <2>7, AskTyped DEF LoopPromote, LoopRollback
  <2>8. ASSUME LoadVersion(c) \/ Gate(c) \/ ArchiveStage(c) \/ SetStage(c) PROVE TypeInv'
    BY <1>1, <2>8, LoadTyped, GateTyped, ArchiveTyped, SetStageTyped
  <2>9. ASSUME NEW n \in Versions, NEW s \in Manual, SetSlot(c, s, n) PROVE TypeInv'
    BY <1>1, <2>9, SetSlotTyped
  <2>10. ASSUME ReadVersionId(c) \/ FillSlot(c) \/ Crash(c) PROVE TypeInv'
    BY <1>1, <2>10, ReadIdTyped, FillTyped, CrashTyped
  <2>. QED
    BY <1>1, <2>2, <2>3, <2>4, <2>5, <2>6, <2>7, <2>8, <2>9, <2>10 DEF ClientNext
<1>2. ASSUME TypeInv, UNCHANGED vars PROVE TypeInv'
  BY <1>2 DEF vars, TypeInv, RegistryTypeOK, Live, At, Fresh
<1>. QED
  BY <1>1, <1>2 DEF Next

\* Whatever the clients do, a slot stands for a version that is there and a
\* version stands under one number.
THEOREM RegistryTypeCorrect == Spec => []RegistryTypeOK
<1>1. TypeInv => RegistryTypeOK
  BY DEF TypeInv
<1>. QED
  BY <1>1, InitTyped, NextTyped, PTL DEF Spec

-----------------------------------------------------------------------------
(* Where no version is deleted, a number stands for the same version for     *)
(* good.  What a request read about a version is then still true of it when  *)
(* the request writes: approvals and passed evaluations are remembered in    *)
(* past, which only grows.                                                   *)

Kept         == "delete" \notin Ops
Guarded      == "production" \in Gated /\ Order[1] # "production"
StaysStaffed == Staffed /\ "replace" \notin Ops

Earned(v) == past[v].approved /\ (EvalToPromote => past[v].passed)

\* What a request in hand may rely on.
Ready(c) ==
  LET r == req[c]
      v == row[r.number] IN
  /\ r.pc = "record" => v = r.id
  /\ r.pc = "status" => (StaysStaffed => r.staffed)
  /\ r.pc = "decide" => v # 0 /\ (StaysStaffed /\ r.ask = "approved" => past[v].reviewed)
  /\ r.pc = "gate" => v # 0 /\ (r.approval = "approved" => past[v].approved)
  /\ r.pc \in {"archive", "move"} /\ r.stage = "production" /\ Guarded => v # 0 /\ Earned(v)
  /\ r.pc = "restaff" => "replace" \in Ops

Remembered ==
  /\ StaysStaffed => staffed
  /\ \A v \in Live : /\ version[v].approval = "approved" => past[v].approved
                     /\ version[v].approval = "pending_approver" => past[v].reviewed
  /\ \A n \in Versions : evals[n].passed => row[n] # 0 /\ past[row[n]].passed
  /\ \A v \in Versions : StaysStaffed /\ past[v].approved => past[v].reviewed

KeptInv ==
  /\ TypeInv
  /\ Remembered
  /\ \A c \in Clients : Ready(c)
  /\ Guarded => \A v \in InProduction : Earned(v)

\* production is the last stage: moving there is never a rollback.
LEMMA ProductionNeeds ==
  ASSUME Guarded, NEW from PROVE NeedsApproval(from, "production")
<1>1. Len(Order) \in 1..Len(Order)
  BY OrderAssumption
<1>2. Rank("production") = Len(Order)
  <2>1. "production" \in Listed
    BY <1>1, OrderAssumption DEF Listed
  <2>2. \A i \in 1..Len(Order) : Order[i] = "production" => i = Len(Order)
    BY <1>1, OrderAssumption
  <2>. QED
    BY <1>1, <2>1, <2>2, OrderAssumption DEF Rank
<1>3. Rank(from) = 0 \/ Rank(from) \in 1..Len(Order)
  BY DEF Rank, Listed
<1>4. ~ Rollback(from, "production")
  BY <1>1, <1>2, <1>3 DEF Rollback
<1>. QED
  BY <1>4 DEF NeedsApproval, Guarded

Grows ==
  /\ \A n \in Versions : row[n] # 0 => row'[n] = row[n]
  /\ \A v \in Versions : /\ past[v].approved => past'[v].approved
                         /\ past[v].reviewed => past'[v].reviewed
                         /\ past[v].passed => past'[v].passed

LEMMA RowTyped ==
  ASSUME TypeInv, NEW n \in Versions
  PROVE  row[n] # 0 => row[n] \in Versions /\ row[n] \in Live
<1>1. row[n] \in 0..made /\ made \in 0..MaxVersions
  BY DEF TypeInv, RegistryTypeOK
<1>. QED
  BY <1>1, Constants DEF Versions, Live

LEMMA LiveTyped == ASSUME TypeInv PROVE Live \subseteq Versions
BY RowTyped DEF Live

\* A request that is not touched stays ready.
LEMMA StaysReady ==
  ASSUME TypeInv, Grows, NEW d \in Clients, Ready(d), req'[d] = req[d]
  PROVE  Ready(d)'
<1>. DEFINE n == req[d].number
<1>1. n \in Versions
  BY DEF TypeInv, RegistryTypeOK, Request
<1>2. row[n] # 0 => row[n] \in Versions /\ row'[n] = row[n]
  BY <1>1, RowTyped DEF Grows
<1>3. req[d].pc = "record" => req[d].id \in Versions
  BY DEF TypeInv, At
<1>4. row[n] # 0 /\ Earned(row[n]) => Earned(row[n])'
  BY <1>2 DEF Grows, Earned
<1>. QED
  BY <1>2, <1>3, <1>4, Constants DEF Ready, Grows

LEMMA QuietKept ==
  ASSUME KeptInv, TypeInv', NEW c \in Clients, Ready(c)',
         \A d \in Clients : d # c => req'[d] = req[d],
         UNCHANGED <<row, version, evals, staffed, past>>
  PROVE  KeptInv'
<1>1. Grows
  BY DEF Grows
<1>2. \A d \in Clients : Ready(d)'
  BY <1>1, StaysReady DEF KeptInv
<1>3. UNCHANGED <<Live, InProduction>>
  BY DEF Live, InProduction, StageOf
<1>4. Remembered'
  BY <1>3 DEF KeptInv, Remembered
<1>. QED
  BY <1>2, <1>3, <1>4 DEF KeptInv, Earned

LEMMA IdleReady == ASSUME TypeInv, NEW c \in Clients, Done(c)
                   PROVE  Ready(c)' /\ \A d \in Clients : d # c => req'[d] = req[d]
<1>1. req'[c] = Idle /\ \A d \in Clients : d # c => req'[d] = req[d]
  BY DEF TypeInv, RegistryTypeOK, Done
<1>. QED
  BY <1>1, IdleTyped DEF Ready

\* What a client has in hand after its step.
LEMMA HeldReq ==
  ASSUME TypeInv, NEW c \in Clients, NEW r, req' = [req EXCEPT ![c] = r]
  PROVE  req'[c] = r /\ \A d \in Clients : d # c => req'[d] = req[d]
BY DEF TypeInv, RegistryTypeOK

LEMMA InsertKept ==
  ASSUME KeptInv, TypeInv', NEW c \in Clients, Insert(c)
  PROVE  KeptInv'
<1>. DEFINE n == req[c].number
            v == req[c].id
<1>1. TypeInv /\ n \in Versions /\ v \in Versions /\ v \notin Live
  <2>1. TypeInv
    BY DEF KeptInv
  <2>2. n \in Versions /\ v \in 1..made /\ v \notin Live /\ made \in 0..MaxVersions
    BY <2>1 DEF TypeInv, RegistryTypeOK, Insert, Fresh, Request
  <2>. QED
    BY <2>1, <2>2, Constants DEF Versions
<1>2. Ready(c)' /\ \A d \in Clients : d # c => req'[d] = req[d]
  BY <1>1, IdleReady DEF Insert
<1>3. CASE row[n] # 0
  BY <1>2, <1>3, QuietKept DEF Insert
<1>4. CASE row[n] = 0
  <2>1. /\ row' = [row EXCEPT ![n] = v]
        /\ version' = [version EXCEPT ![v] = [stage |-> Order[1], approval |-> "pending_reviewer"]]
        /\ UNCHANGED <<made, evals, slot, staffed, past, crashes>>
    BY <1>4 DEF Insert
  <2>2. row \in [Versions -> 0..made] /\ version \in [Versions -> [stage : Stages, approval : Statuses]]
    BY <1>1 DEF TypeInv, RegistryTypeOK
  <2>3. Grows
    BY <1>4, <2>1, <2>2 DEF Grows
  <2>4. \A d \in Clients : Ready(d)'
    BY <1>1, <1>2, <2>3, StaysReady DEF KeptInv
  <2>5. Live' = Live \cup {v}
    BY <1>1, <1>4, <2>1, <2>2, Constants DEF Live
  <2>6. \A w \in Live : w # v /\ w \in Versions /\ version'[w] = version[w]
    BY <1>1, <2>1, <2>2, LiveTyped
  <2>7. version'[v] = [stage |-> Order[1], approval |-> "pending_reviewer"]
    BY <1>1, <2>1, <2>2
  <2>8. Remembered'
    <3>1. \A w \in Live' : /\ version'[w].approval = "approved" => past'[w].approved
                           /\ version'[w].approval = "pending_approver" => past'[w].reviewed
      BY <2>1, <2>5, <2>6, <2>7 DEF KeptInv, Remembered
    <3>2. \A m \in Versions : evals'[m].passed => row'[m] # 0 /\ past'[row'[m]].passed
      BY <1>4, <2>1, <2>2 DEF KeptInv, Remembered
    <3>. QED
      BY <2>1, <3>1, <3>2 DEF KeptInv, Remembered
  <2>9. Guarded => \A w \in InProduction' : Earned(w)'
    BY <2>1, <2>5, <2>6, <2>7 DEF KeptInv, InProduction, StageOf, Guarded, Earned
  <2>. QED
    BY <2>4, <2>8, <2>9 DEF KeptInv
<1>. QED
  BY <1>3, <1>4

LEMMA RecordKept ==
  ASSUME KeptInv, TypeInv', NEW c \in Clients, RecordEvaluation(c)
  PROVE  KeptInv'
<1>. DEFINE n == req[c].number
            v == req[c].id
            is == req[c].ask = "passed"
<1>1. TypeInv /\ n \in Versions /\ v \in Versions /\ row[n] = v
  BY DEF KeptInv, TypeInv, RegistryTypeOK, RecordEvaluation, Request, At, Ready
<1>2. Ready(c)' /\ \A d \in Clients : d # c => req'[d] = req[d]
  BY <1>1, IdleReady DEF RecordEvaluation
<1>3. /\ evals' = [evals EXCEPT ![n] = [latest |-> req[c].ask, passed |-> @.passed \/ is]]
      /\ past' = [past EXCEPT ![v].passed = @ \/ is]
      /\ UNCHANGED <<made, row, version, slot, staffed, crashes>>
  BY DEF RecordEvaluation
<1>4. /\ evals \in [Versions -> [latest : Results \cup {"none"}, passed : BOOLEAN]]
      /\ past \in [Versions -> [reviewed : BOOLEAN, approved : BOOLEAN, passed : BOOLEAN]]
  BY <1>1 DEF TypeInv, RegistryTypeOK
<1>5. /\ \A w \in Versions : /\ past'[w].approved = past[w].approved
                             /\ past'[w].reviewed = past[w].reviewed
                             /\ past[w].passed => past'[w].passed
      /\ is => past'[v].passed
  BY <1>1, <1>3, <1>4
<1>6. Grows
  BY <1>3, <1>5 DEF Grows
<1>7. \A d \in Clients : Ready(d)'
  BY <1>1, <1>2, <1>6, StaysReady DEF KeptInv
<1>8. Live' = Live /\ Live \subseteq Versions
  BY <1>1, <1>3, LiveTyped DEF Live
<1>9. \A m \in Versions : evals'[m].passed => row'[m] # 0 /\ past'[row'[m]].passed
  <2>1. ASSUME NEW m \in Versions, evals'[m].passed PROVE row[m] # 0 /\ past'[row[m]].passed
    <3>1. CASE m = n /\ ~ evals[m].passed
      <4>1. is
        BY <1>1, <1>3, <1>4, <2>1, <3>1
      <4>. QED
        BY <1>1, <1>5, <3>1, <4>1, Constants
    <3>2. CASE evals[m].passed
      BY <1>1, <1>5, <3>2, RowTyped DEF KeptInv, Remembered
    <3>3. CASE m # n
      BY <1>1, <1>3, <1>4, <2>1, <3>2, <3>3
    <3>. QED
      BY <3>1, <3>2, <3>3
  <2>. QED
    BY <1>3, <2>1
<1>10. Remembered'
  BY <1>3, <1>5, <1>8, <1>9 DEF KeptInv, Remembered
<1>11. Guarded => \A w \in InProduction' : Earned(w)'
  BY <1>3, <1>5, <1>8 DEF KeptInv, InProduction, StageOf, Earned
<1>. QED
  BY <1>7, <1>10, <1>11 DEF KeptInv

LEMMA WriteApprovalKept ==
  ASSUME KeptInv, TypeInv', NEW c \in Clients, WriteApproval(c)
  PROVE  KeptInv'
<1>. DEFINE v    == row[req[c].number]
            ask  == req[c].ask
            seen == past[v].reviewed \/ ask = "pending_approver"
            done == past[v].approved \/ ask = "approved"
<1>1. TypeInv /\ req[c].number \in Versions /\ At(c, "decide") /\ Ready(c)
  BY DEF KeptInv, TypeInv, RegistryTypeOK, WriteApproval, Request
<1>2. v # 0 /\ v \in Versions /\ v \in Live /\ (StaysStaffed /\ ask = "approved" => past[v].reviewed)
  BY <1>1, RowTyped DEF Ready, At
<1>3. Ready(c)' /\ \A d \in Clients : d # c => req'[d] = req[d]
  BY <1>1, IdleReady DEF WriteApproval
<1>4. /\ version' = [version EXCEPT ![v].approval = ask]
      /\ past' = [past EXCEPT ![v].reviewed = seen, ![v].approved = done]
      /\ UNCHANGED <<made, row, evals, slot, staffed, crashes>>
  BY <1>2 DEF WriteApproval
<1>5. /\ version \in [Versions -> [stage : Stages, approval : Statuses]]
      /\ past \in [Versions -> [reviewed : BOOLEAN, approved : BOOLEAN, passed : BOOLEAN]]
      /\ seen \in BOOLEAN /\ done \in BOOLEAN
  BY <1>1 DEF TypeInv, RegistryTypeOK
<1>. HIDE DEF seen, done
<1>6. /\ past'[v].reviewed = seen /\ past'[v].approved = done /\ past'[v].passed = past[v].passed
      /\ \A w \in Versions : w # v => past'[w] = past[w]
      /\ version'[v].approval = ask /\ version'[v].stage = version[v].stage
      /\ \A w \in Versions : w # v => version'[w] = version[w]
  BY <1>2, <1>4, <1>5
<1>7. Grows
  BY <1>4, <1>6 DEF Grows, seen, done
<1>8. \A d \in Clients : Ready(d)'
  BY <1>1, <1>3, <1>7, StaysReady DEF KeptInv
<1>9. Live' = Live /\ Live \subseteq Versions
  BY <1>1, <1>4, LiveTyped DEF Live
<1>10. Remembered'
  <2>1. \A w \in Live : /\ version'[w].approval = "approved" => past'[w].approved
                        /\ version'[w].approval = "pending_approver" => past'[w].reviewed
    BY <1>6, <1>9 DEF KeptInv, Remembered, seen, done
  <2>2. \A m \in Versions : evals[m].passed => row[m] # 0 /\ past'[row[m]].passed
    BY <1>1, <1>7, RowTyped DEF KeptInv, Remembered, Grows
  <2>3. \A w \in Versions : StaysStaffed /\ past'[w].approved => past'[w].reviewed
    <3>1. StaysStaffed /\ done => seen
      BY <1>2 DEF KeptInv, Remembered, seen, done
    <3>. QED
      BY <1>6, <3>1 DEF KeptInv, Remembered
  <2>. QED
    BY <1>4, <1>9, <2>1, <2>2, <2>3 DEF KeptInv, Remembered
<1>11. Guarded => \A w \in InProduction' : Earned(w)'
  BY <1>6, <1>7, <1>9 DEF KeptInv, InProduction, StageOf, Earned, Grows
<1>. QED
  BY <1>8, <1>10, <1>11 DEF KeptInv

\* Reading the stakeholders, and the approval that relies on them.
LEMMA ApproveKept ==
  ASSUME KeptInv, TypeInv', NEW c \in Clients,
         CheckApproval(c) \/ \E n \in Versions, ask \in Statuses : ReadStakeholders(c, n, ask)
  PROVE  KeptInv'
<1>1. TypeInv /\ Ready(c) /\ req[c].number \in Versions
  BY DEF KeptInv, TypeInv, RegistryTypeOK, Request
<1>2. CASE CheckApproval(c)
  <2>. DEFINE v == row[req[c].number]
              r == [Idle EXCEPT !.pc = "decide", !.number = req[c].number, !.ask = req[c].ask]
  <2>1. CASE Done(c)
    BY <1>1, <1>2, <2>1, IdleReady, QuietKept DEF CheckApproval
  <2>2. CASE /\ v # 0 /\ Permitted(req[c].ask, version[v].approval, req[c].staffed,
                                   evals[req[c].number].latest)
             /\ req' = [req EXCEPT ![c] = r]
    <3>1. v \in Versions /\ v \in Live
      BY <1>1, <2>2, RowTyped
    <3>2. StaysStaffed => req[c].staffed
      BY <1>1, <1>2 DEF Ready, CheckApproval, At
    <3>3. StaysStaffed /\ req[c].ask = "approved" => past[v].reviewed
      BY <2>2, <3>1, <3>2 DEF Permitted, KeptInv, Remembered
    <3>4. req'[c] = r /\ \A d \in Clients : d # c => req'[d] = req[d]
      BY <1>1, <2>2, HeldReq
    <3>5. r.pc = "decide" /\ r.number = req[c].number /\ r.ask = req[c].ask
      BY IdleTyped DEF Request
    <3>6. Ready(c)'
      BY <1>2, <2>2, <3>3, <3>4, <3>5 DEF Ready, CheckApproval
    <3>. QED
      BY <1>2, <3>4, <3>6, QuietKept DEF CheckApproval
  <2>. QED
    BY <1>2, <2>1, <2>2 DEF CheckApproval
<1>3. ASSUME NEW n \in Versions, NEW ask \in Statuses, ReadStakeholders(c, n, ask) PROVE KeptInv'
  <2>. DEFINE r == [Idle EXCEPT !.pc = "status", !.number = n, !.ask = ask, !.staffed = staffed]
  <2>1. req'[c] = r /\ \A d \in Clients : d # c => req'[d] = req[d]
    BY <1>1, <1>3, HeldReq DEF ReadStakeholders
  <2>2. r.pc = "status" /\ r.staffed = staffed
    BY IdleTyped DEF Request
  <2>3. Ready(c)'
    BY <2>1, <2>2 DEF Ready, KeptInv, Remembered
  <2>. QED
    BY <1>3, <2>1, <2>3, QuietKept DEF ReadStakeholders
<1>. QED
  BY <1>2, <1>3

\* Without replacements, nobody unassigns a reviewer.
LEMMA ReplaceKept ==
  ASSUME KeptInv, TypeInv', NEW c \in Clients, ClearStakeholders(c) \/ AssignStakeholders(c)
  PROVE  KeptInv'
<1>. DEFINE r == [Idle EXCEPT !.pc = "restaff"]
<1>1. TypeInv /\ Ready(c)
  BY DEF KeptInv
<1>2. "replace" \in Ops
  BY <1>1 DEF ClearStakeholders, AssignStakeholders, Ready, At, May
<1>3. Ready(c)' /\ \A d \in Clients : d # c => req'[d] = req[d]
  <2>1. CASE ClearStakeholders(c)
    <3>1. req'[c] = r /\ \A d \in Clients : d # c => req'[d] = req[d]
      BY <1>1, <2>1, HeldReq DEF ClearStakeholders
    <3>2. r.pc = "restaff"
      BY IdleTyped DEF Request
    <3>. QED
      BY <1>2, <3>1, <3>2 DEF Ready
  <2>2. CASE AssignStakeholders(c)
    BY <1>1, <2>2, IdleReady DEF AssignStakeholders
  <2>. QED
    BY <2>1, <2>2
<1>4. UNCHANGED <<made, row, version, evals, slot, past, crashes>>
  BY DEF ClearStakeholders, AssignStakeholders
<1>5. Grows
  BY <1>4 DEF Grows
<1>6. \A d \in Clients : Ready(d)'
  BY <1>1, <1>3, <1>5, StaysReady DEF KeptInv
<1>7. UNCHANGED <<Live, InProduction>>
  BY <1>4 DEF Live, InProduction, StageOf
<1>. QED
  BY <1>2, <1>4, <1>6, <1>7 DEF KeptInv, Remembered, StaysStaffed, Earned

\* A request that relies on nothing yet.
LEMMA EasyKept ==
  ASSUME KeptInv, TypeInv', NEW c \in Clients, NEW r, req' = [req EXCEPT ![c] = r],
         r.pc \in {"idle", "insert", "load", "slot", "fill"},
         UNCHANGED <<row, version, evals, staffed, past>>
  PROVE  KeptInv'
<1>1. req'[c] = r /\ \A d \in Clients : d # c => req'[d] = req[d]
  BY HeldReq DEF KeptInv
<1>2. Ready(c)'
  BY <1>1 DEF Ready
<1>. QED
  BY <1>1, <1>2, QuietKept

LEMMA EasySteps ==
  ASSUME KeptInv, TypeInv', NEW c \in Clients, NEW n \in Versions, NEW stage, NEW s,
         \/ ReadNext(c, n) \/ Promote(c, n, stage) \/ LoopPromote(c, n) \/ LoopRollback(c, n)
         \/ SetSlot(c, s, n) \/ ReadVersionId(c) \/ FillSlot(c) \/ Crash(c)
  PROVE  KeptInv'
<1>1. \A label \in Labels : /\ [Idle EXCEPT !.pc = label, !.id = made', !.number = n].pc = label
                            /\ [Idle EXCEPT !.pc = label, !.number = n, !.slot = s].pc = label
                            /\ [Idle EXCEPT !.pc = label, !.id = row[req[c].number],
                                            !.slot = req[c].slot].pc = label
                            /\ \A to : [Idle EXCEPT !.pc = label, !.number = n, !.stage = to].pc = label
  BY IdleTyped DEF Request
<1>2. {"idle", "insert", "load", "slot", "fill"} \subseteq Labels
  BY DEF Labels
<1>3. CASE ReadNext(c, n)
  <2>. DEFINE r == [Idle EXCEPT !.pc = "insert", !.id = made', !.number = n]
  <2>1. r.pc = "insert"
    BY <1>1, <1>2
  <2>2. req' = [req EXCEPT ![c] = r] /\ UNCHANGED <<row, version, evals, staffed, past>>
    BY <1>3 DEF ReadNext
  <2>. QED
    BY <2>1, <2>2, EasyKept
<1>4. CASE Promote(c, n, stage) \/ LoopPromote(c, n) \/ LoopRollback(c, n)
  <2>1. PICK to : /\ req' = [req EXCEPT ![c] = [Idle EXCEPT !.pc = "load", !.number = n, !.stage = to]]
                  /\ UNCHANGED <<row, version, evals, staffed, past>>
    BY <1>4 DEF Promote, LoopPromote, LoopRollback, Ask
  <2>2. [Idle EXCEPT !.pc = "load", !.number = n, !.stage = to].pc = "load"
    BY <1>1, <1>2
  <2>. QED
    BY <2>1, <2>2, EasyKept
<1>5. CASE SetSlot(c, s, n)
  <2>. DEFINE r == [Idle EXCEPT !.pc = "slot", !.number = n, !.slot = s]
  <2>1. r.pc = "slot"
    BY <1>1, <1>2
  <2>2. req' = [req EXCEPT ![c] = r] /\ UNCHANGED <<row, version, evals, staffed, past>>
    BY <1>5 DEF SetSlot, Serve
  <2>. QED
    BY <2>1, <2>2, EasyKept
<1>6. CASE ReadVersionId(c)
  <2>. DEFINE r == [Idle EXCEPT !.pc = "fill", !.id = row[req[c].number], !.slot = req[c].slot]
  <2>1. r.pc = "fill"
    BY <1>1, <1>2
  <2>2. /\ req' = [req EXCEPT ![c] = r] \/ req' = [req EXCEPT ![c] = Idle]
        /\ UNCHANGED <<row, version, evals, staffed, past>>
    BY <1>6 DEF ReadVersionId, Done
  <2>. QED
    BY <2>1, <2>2, EasyKept, IdleTyped
<1>7. CASE FillSlot(c) \/ Crash(c)
  BY <1>7, EasyKept, IdleTyped DEF FillSlot, Crash, Done
<1>. QED
  BY <1>3, <1>4, <1>5, <1>6, <1>7

LEMMA FindKept ==
  ASSUME KeptInv, TypeInv', NEW c \in Clients, NEW n \in Versions, NEW result,
         FindVersion(c, n, result)
  PROVE  KeptInv'
<1>. DEFINE r == [Idle EXCEPT !.pc = "record", !.id = row[n], !.number = n, !.ask = result]
<1>1. req'[c] = r /\ \A d \in Clients : d # c => req'[d] = req[d]
  BY HeldReq DEF KeptInv, FindVersion
<1>2. r.pc = "record" /\ r.id = row[n] /\ r.number = n
  BY IdleTyped DEF Request
<1>3. UNCHANGED <<row, version, evals, staffed, past>>
  BY DEF FindVersion
<1>4. Ready(c)'
  BY <1>1, <1>2, <1>3 DEF Ready
<1>. QED
  BY <1>1, <1>3, <1>4, QuietKept

LEMMA LoadKept ==
  ASSUME KeptInv, TypeInv', NEW c \in Clients, LoadVersion(c)
  PROVE  KeptInv'
<1>. DEFINE v == row[req[c].number]
            r == [req[c] EXCEPT !.pc = "gate", !.approval = version[v].approval,
                                !.ask = version[v].stage]
<1>1. TypeInv /\ req[c] \in Request /\ req[c].number \in Versions
  BY DEF KeptInv, TypeInv, RegistryTypeOK, Request
<1>2. UNCHANGED <<row, version, evals, staffed, past>>
  BY DEF LoadVersion
<1>3. CASE v = 0
  BY <1>1, <1>2, <1>3, IdleReady, QuietKept DEF LoadVersion
<1>4. CASE v # 0
  <2>1. req' = [req EXCEPT ![c] = r]
    BY <1>4 DEF LoadVersion, KeptInv, TypeInv, RegistryTypeOK
  <2>2. req'[c] = r /\ \A d \in Clients : d # c => req'[d] = req[d]
    BY <1>1, <2>1, HeldReq
  <2>3. r.pc = "gate" /\ r.number = req[c].number /\ r.approval = version[v].approval
    BY <1>1 DEF Request
  <2>4. version[v].approval = "approved" => past[v].approved
    BY <1>1, <1>4, RowTyped DEF KeptInv, Remembered
  <2>5. Ready(c)'
    BY <1>2, <1>4, <2>2, <2>3, <2>4 DEF Ready
  <2>. QED
    BY <1>2, <2>2, <2>5, QuietKept
<1>. QED
  BY <1>3, <1>4

LEMMA GateKept ==
  ASSUME KeptInv, TypeInv', NEW c \in Clients, Gate(c)
  PROVE  KeptInv'
<1>. DEFINE v == row[req[c].number]
            r == [Idle EXCEPT !.pc = "archive", !.number = req[c].number, !.stage = req[c].stage]
<1>1. TypeInv /\ Ready(c) /\ req[c].number \in Versions
  BY DEF KeptInv, TypeInv, RegistryTypeOK, Request
<1>2. UNCHANGED <<row, version, evals, staffed, past>>
  BY DEF Gate
<1>3. CASE Done(c)
  BY <1>1, <1>2, <1>3, IdleReady, QuietKept
<1>4. CASE Eligible(req[c]) /\ req' = [req EXCEPT ![c] = r]
  <2>1. req'[c] = r /\ \A d \in Clients : d # c => req'[d] = req[d]
    BY <1>1, <1>4, HeldReq
  <2>2. r.pc = "archive" /\ r.number = req[c].number /\ r.stage = req[c].stage
    BY IdleTyped DEF Request
  <2>3. v # 0 /\ (req[c].approval = "approved" => past[v].approved)
    BY <1>1 DEF Ready, Gate, At
  <2>4. req[c].stage = "production" /\ Guarded => Earned(v)
    <3>1. req[c].stage = "production" /\ Guarded => req[c].approval = "approved"
      BY <1>4, ProductionNeeds DEF Eligible
    <3>2. req[c].stage = "production" /\ EvalToPromote => past[v].passed
      BY <1>1, <1>4 DEF Eligible, KeptInv, Remembered
    <3>. QED
      BY <2>3, <3>1, <3>2 DEF Earned
  <2>5. Ready(c)'
    BY <1>2, <2>1, <2>2, <2>3, <2>4 DEF Ready, Earned
  <2>. QED
    BY <1>2, <2>1, <2>5, QuietKept
<1>. QED
  BY <1>3, <1>4 DEF Gate

LEMMA MoveKept ==
  ASSUME KeptInv, TypeInv', NEW c \in Clients, ArchiveStage(c) \/ SetStage(c)
  PROVE  KeptInv'
<1>. DEFINE v == row[req[c].number]
<1>1. TypeInv /\ Ready(c) /\ req[c] \in Request /\ req[c].number \in Versions
  BY DEF KeptInv, TypeInv, RegistryTypeOK, Request
<1>2. UNCHANGED <<made, row, evals, slot, staffed, past, crashes>>
  BY DEF ArchiveStage, SetStage
<1>3. Grows /\ Live' = Live /\ Live \subseteq Versions
  BY <1>1, <1>2, LiveTyped DEF Grows, Live
<1>4. Ready(c)' /\ \A d \in Clients : d # c => req'[d] = req[d]
  <2>1. CASE ArchiveStage(c)
    <3>. DEFINE r == [req[c] EXCEPT !.pc = "move"]
    <3>1. req' = [req EXCEPT ![c] = r]
      BY <2>1 DEF ArchiveStage, Goto, KeptInv, TypeInv, RegistryTypeOK
    <3>2. req'[c] = r /\ \A d \in Clients : d # c => req'[d] = req[d]
      BY <1>1, <3>1, HeldReq
    <3>3. r.pc = "move" /\ r.number = req[c].number /\ r.stage = req[c].stage
      BY <1>1 DEF Request
    <3>4. req[c].pc = "archive"
      BY <2>1 DEF ArchiveStage, At
    <3>. QED
      BY <1>1, <1>2, <3>2, <3>3, <3>4 DEF Ready, Earned
  <2>2. CASE SetStage(c) /\ Done(c)
    BY <1>1, <2>2, IdleReady
  <2>3. CASE SetStage(c) /\ Serve(c, "champion", req[c].number)
    <3>. DEFINE r == [Idle EXCEPT !.pc = "slot", !.number = req[c].number, !.slot = "champion"]
    <3>1. req'[c] = r /\ \A d \in Clients : d # c => req'[d] = req[d]
      BY <1>1, <2>3, HeldReq DEF Serve
    <3>2. r.pc = "slot"
      BY IdleTyped DEF Request
    <3>. QED
      BY <3>1, <3>2 DEF Ready
  <2>. QED
    BY <2>1, <2>2, <2>3 DEF SetStage
<1>5. \A d \in Clients : Ready(d)'
  BY <1>1, <1>3, <1>4, StaysReady DEF KeptInv
<1>6. \A w \in Versions :
        /\ version'[w].approval = version[w].approval
        /\ version'[w].stage # version[w].stage =>
             \/ version'[w].stage = "archived"
             \/ SetStage(c) /\ w = v /\ version'[w].stage = req[c].stage
  <2>1. version \in [Versions -> [stage : Stages, approval : Statuses]]
    BY <1>1 DEF TypeInv, RegistryTypeOK
  <2>2. CASE ArchiveStage(c)
    BY <2>1, <2>2 DEF ArchiveStage
  <2>3. CASE SetStage(c) /\ v # 0
    BY <2>1, <2>3 DEF SetStage
  <2>4. CASE SetStage(c) /\ v = 0
    BY <2>4 DEF SetStage
  <2>. QED
    BY <2>2, <2>3, <2>4
<1>7. Remembered'
  BY <1>2, <1>3, <1>6 DEF KeptInv, Remembered
<1>8. ASSUME Guarded, NEW w \in InProduction' PROVE Earned(w)'
  <2>1. w \in Live /\ w \in Versions /\ version'[w].stage = "production"
    BY <1>3, <1>8 DEF InProduction, StageOf
  <2>2. CASE version[w].stage = "production"
    BY <1>2, <1>8, <2>1, <2>2 DEF KeptInv, InProduction, StageOf, Earned
  <2>3. CASE version[w].stage # "production"
    <3>1. SetStage(c) /\ w = v /\ req[c].stage = "production"
      BY <1>6, <2>1, <2>3
    <3>2. Earned(v)
      BY <1>1, <1>8, <3>1 DEF Ready, SetStage, At
    <3>. QED
      BY <1>2, <3>1, <3>2 DEF Earned
  <2>. QED
    BY <2>2, <2>3
<1>. QED
  BY <1>5, <1>7, <1>8 DEF KeptInv

LEMMA InitKept == Init => KeptInv
<1>. SUFFICES ASSUME Init PROVE KeptInv
  OBVIOUS
<1>1. TypeInv
  BY InitTyped
<1>2. Live = {}
  BY DEF Init, Live
<1>3. Remembered
  BY <1>2 DEF Init, Remembered, StaysStaffed
<1>4. \A c \in Clients : Ready(c)
  BY IdleTyped DEF Init, Ready
<1>. QED
  BY <1>1, <1>2, <1>3, <1>4 DEF KeptInv, InProduction

LEMMA NextKept == Kept /\ KeptInv /\ [Next]_vars => KeptInv'
<1>. SUFFICES ASSUME Kept, KeptInv, [Next]_vars PROVE KeptInv'
  OBVIOUS
<1>1. TypeInv'
  BY NextTyped DEF KeptInv
<1>2. ASSUME NEW c \in Clients, ClientNext(c) PROVE KeptInv'
  <2>1. \A n \in Versions : ~ DeleteVersion(c, n)
    BY DEF DeleteVersion, May, Kept
  <2>2. ASSUME NEW n \in Versions, ReadNext(c, n) \/ LoopPromote(c, n) \/ LoopRollback(c, n)
        PROVE  KeptInv'
    BY <1>1, <1>2, <2>2, EasySteps
  <2>3. ASSUME Insert(c) \/ RecordEvaluation(c) \/ CheckApproval(c) \/ WriteApproval(c)
               \/ ClearStakeholders(c) \/ AssignStakeholders(c)
        PROVE  KeptInv'
    BY <1>1, <1>2, <2>3, InsertKept, RecordKept, ApproveKept, WriteApprovalKept, ReplaceKept
  <2>4. ASSUME NEW n \in Versions, NEW result \in Results, FindVersion(c, n, result) PROVE KeptInv'
    BY <1>1, <1>2, <2>4, FindKept
  <2>5. ASSUME NEW n \in Versions, NEW ask \in Statuses, ReadStakeholders(c, n, ask) PROVE KeptInv'
    BY <1>1, <1>2, <2>5, ApproveKept
  <2>6. ASSUME NEW n \in Versions, NEW stage \in Listed, Promote(c, n, stage) PROVE KeptInv'
    BY <1>1, <1>2, <2>6, EasySteps
  <2>7. ASSUME LoadVersion(c) \/ Gate(c) \/ ArchiveStage(c) \/ SetStage(c) PROVE KeptInv'
    BY <1>1, <1>2, <2>7, LoadKept, GateKept, MoveKept
  <2>8. ASSUME NEW n \in Versions, NEW s \in Manual, SetSlot(c, s, n) PROVE KeptInv'
    BY <1>1, <1>2, <2>8, EasySteps
  <2>9. ASSUME ReadVersionId(c) \/ FillSlot(c) \/ Crash(c) PROVE KeptInv'
    BY <1>1, <1>2, <2>9, EasySteps, Constants
  <2>. QED
    BY <1>2, <2>1, <2>2, <2>3, <2>4, <2>5, <2>6, <2>7, <2>8, <2>9 DEF ClientNext
<1>3. CASE UNCHANGED vars
  <2>1. UNCHANGED <<Live, InProduction>>
    BY <1>3 DEF vars, Live, InProduction, StageOf
  <2>. QED
    BY <1>1, <1>3, <2>1 DEF vars, KeptInv, Remembered, Ready, Earned
<1>. QED
  BY <1>2, <1>3 DEF Next

\* As long as versions are not deleted, nothing unapproved and nothing without
\* a passed evaluation comes into production, by whatever interleaving of
\* promotions, approvals, evaluations and the closed loop.
THEOREM ProductionEarned == ASSUME Kept, Guarded PROVE Spec => []ProductionIsEarned
<1>1. KeptInv => ProductionIsEarned
  BY DEF KeptInv, ProductionIsEarned, Earned
<1>2. KeptInv /\ [Next]_vars => KeptInv'
  BY NextKept
<1>. QED
  BY <1>1, <1>2, InitKept, PTL DEF Spec

\* As long as, besides, the stakeholders are not replaced, an approved version
\* was passed on by a reviewer before.
THEOREM ReviewComesFirst == ASSUME Kept, "replace" \notin Ops PROVE Spec => []ReviewedFirst
<1>1. KeptInv => ReviewedFirst
  BY DEF KeptInv, Remembered, ReviewedFirst, StaysStaffed
<1>2. KeptInv /\ [Next]_vars => KeptInv'
  BY NextKept
<1>. QED
  BY <1>1, <1>2, InitKept, PTL DEF Spec

-----------------------------------------------------------------------------
(* One promoter.  The stages are written by promotions only, so with one at  *)
(* a time what the promoter read about stages stays true until it writes.    *)

Solo == \A p, q \in Promoters : p = q

Promoting(c) == req[c].pc \in {"load", "gate", "archive", "move"}

\* What the promoter knows about stages.
Knows(c) ==
  LET r == req[c]
      v == row[r.number] IN
  /\ Promoting(c) => c \in Promoters
  /\ r.pc = "gate" => r.ask = version[v].stage
  /\ r.pc = "archive" => r.stage # version[v].stage
  /\ r.pc \in {"archive", "move"} => v # 0 /\ Rank(r.stage) <= Rank(version[v].stage) + 1

LEMMA RankTyped == ASSUME NEW s PROVE Rank(s) \in Nat /\ (s \notin Listed => Rank(s) = 0)
<1>1. Len(Order) \in Nat
  BY OrderAssumption
<1>2. Rank(s) = 0 \/ Rank(s) \in 1..Len(Order)
  BY DEF Rank, Listed
<1>3. s \notin Listed => Rank(s) = 0
  BY DEF Rank
<1>. QED
  BY <1>1, <1>2, <1>3

LEMMA FirstRank == Rank(Order[1]) = 1
<1>1. 1 \in 1..Len(Order)
  <2>1. Len(Order) \in Nat /\ Len(Order) # 0
    BY OrderAssumption
  <2>. QED
    BY <2>1
<1>2. \A i \in 1..Len(Order) : Order[i] = Order[1] => i = 1
  BY <1>1, OrderAssumption
<1>3. Order[1] \in Listed
  BY Constants
<1>4. Rank(Order[1]) = CHOOSE i \in 1..Len(Order) : Order[i] = Order[1]
  BY <1>3 DEF Rank
<1>. QED
  BY <1>1, <1>2, <1>4

StageInv == KeptInv /\ \A c \in Clients : Knows(c)

RowsStay == \A n \in Versions : row[n] # 0 => row'[n] = row[n]

\* A client that is not the promoter, or did not move, knows what it knew.
LEMMA StaysKnowing ==
  ASSUME KeptInv, RowsStay, NEW d \in Clients, Knows(d), req'[d] = req[d],
         Promoting(d) => \A v \in Live : version'[v].stage = version[v].stage
  PROVE  Knows(d)'
<1>1. TypeInv /\ Ready(d) /\ req[d].number \in Versions
  BY DEF KeptInv, TypeInv, RegistryTypeOK, Request
<1>2. req[d].pc \in {"gate", "archive", "move"} => row[req[d].number] # 0
  BY <1>1 DEF Ready, Knows
<1>3. row[req[d].number] # 0 => /\ row'[req[d].number] = row[req[d].number]
                                /\ row[req[d].number] \in Live
  BY <1>1, RowTyped DEF RowsStay
<1>. QED
  BY <1>2, <1>3 DEF Knows, Promoting

\* The steps that leave the stages alone and the client outside a promotion.
LEMMA ElseKnows ==
  ASSUME StageInv, RowsStay, NEW c \in Clients, ~ Promoting(c)',
         \A d \in Clients : d # c => req'[d] = req[d],
         \A v \in Live : version'[v].stage = version[v].stage
  PROVE  \A d \in Clients : Knows(d)'
<1>1. Knows(c)'
  BY DEF Knows, Promoting
<1>2. ASSUME NEW d \in Clients, d # c PROVE Knows(d)'
  BY <1>2, StaysKnowing DEF StageInv
<1>. QED
  BY <1>1, <1>2

LEMMA IdleOut ==
  ASSUME TypeInv, NEW c \in Clients, NEW r, req' = [req EXCEPT ![c] = r],
         r.pc \notin {"load", "gate", "archive", "move"}
  PROVE  ~ Promoting(c)' /\ \A d \in Clients : d # c => req'[d] = req[d]
<1>1. req'[c] = r /\ \A d \in Clients : d # c => req'[d] = req[d]
  BY HeldReq
<1>. QED
  BY <1>1 DEF Promoting

\* Editors' steps and the slots.
LEMMA EditKnows ==
  ASSUME TypeInv, NEW c \in Clients, NEW n \in Versions, NEW x, NEW s,
         \/ ReadNext(c, n) \/ FindVersion(c, n, x) \/ ReadStakeholders(c, n, x)
         \/ Insert(c) \/ RecordEvaluation(c) \/ CheckApproval(c) \/ WriteApproval(c)
         \/ ClearStakeholders(c) \/ AssignStakeholders(c)
         \/ SetSlot(c, s, n) \/ ReadVersionId(c) \/ FillSlot(c) \/ Crash(c)
  PROVE  \E r : /\ req' = [req EXCEPT ![c] = r]
                /\ r.pc \notin {"load", "gate", "archive", "move"}
<1>. DEFINE Out(r) == /\ req' = [req EXCEPT ![c] = r]
                      /\ r.pc \notin {"load", "gate", "archive", "move"}
<1>1. TypeInv
  OBVIOUS
<1>2. \A label \in Labels :
        /\ [Idle EXCEPT !.pc = label, !.id = made', !.number = n].pc = label
        /\ [Idle EXCEPT !.pc = label, !.id = row[n], !.number = n, !.ask = x].pc = label
        /\ [Idle EXCEPT !.pc = label, !.number = n, !.ask = x, !.staffed = staffed].pc = label
        /\ [Idle EXCEPT !.pc = label, !.number = req[c].number, !.ask = req[c].ask].pc = label
        /\ [Idle EXCEPT !.pc = label].pc = label
        /\ [Idle EXCEPT !.pc = label, !.number = n, !.slot = s].pc = label
        /\ [Idle EXCEPT !.pc = label, !.id = row[req[c].number], !.slot = req[c].slot].pc = label
  BY IdleTyped DEF Request
<1>3. {"idle", "insert", "record", "status", "decide", "restaff", "slot", "fill"} \subseteq Labels
  BY DEF Labels
<1>4. CASE Insert(c) \/ RecordEvaluation(c) \/ WriteApproval(c) \/ AssignStakeholders(c)
           \/ FillSlot(c) \/ Crash(c)
  BY <1>4, IdleTyped DEF Insert, RecordEvaluation, WriteApproval, AssignStakeholders, FillSlot,
     Crash, Done
<1>5. CASE ReadNext(c, n)
  <2>. DEFINE r == [Idle EXCEPT !.pc = "insert", !.id = made', !.number = n]
  <2>1. Out(r)
    BY <1>2, <1>3, <1>5 DEF ReadNext
  <2>. QED
    BY <2>1
<1>6. CASE FindVersion(c, n, x)
  <2>. DEFINE r == [Idle EXCEPT !.pc = "record", !.id = row[n], !.number = n, !.ask = x]
  <2>1. Out(r)
    BY <1>2, <1>3, <1>6 DEF FindVersion
  <2>. QED
    BY <2>1
<1>7. CASE ReadStakeholders(c, n, x)
  <2>. DEFINE r == [Idle EXCEPT !.pc = "status", !.number = n, !.ask = x, !.staffed = staffed]
  <2>1. Out(r)
    BY <1>2, <1>3, <1>7 DEF ReadStakeholders
  <2>. QED
    BY <2>1
<1>8. CASE CheckApproval(c)
  <2>. DEFINE r == [Idle EXCEPT !.pc = "decide", !.number = req[c].number, !.ask = req[c].ask]
  <2>1. Out(r) \/ Out(Idle)
    BY <1>2, <1>3, <1>8, IdleTyped DEF CheckApproval, Done
  <2>. QED
    BY <2>1
<1>9. CASE ClearStakeholders(c)
  <2>. DEFINE r == [Idle EXCEPT !.pc = "restaff"]
  <2>1. Out(r)
    BY <1>2, <1>3, <1>9 DEF ClearStakeholders
  <2>. QED
    BY <2>1
<1>10. CASE SetSlot(c, s, n)
  <2>. DEFINE r == [Idle EXCEPT !.pc = "slot", !.number = n, !.slot = s]
  <2>1. Out(r)
    BY <1>2, <1>3, <1>10 DEF SetSlot, Serve
  <2>. QED
    BY <2>1
<1>11. CASE ReadVersionId(c)
  <2>. DEFINE r == [Idle EXCEPT !.pc = "fill", !.id = row[req[c].number], !.slot = req[c].slot]
  <2>1. Out(r) \/ Out(Idle)
    BY <1>2, <1>3, <1>11, IdleTyped DEF ReadVersionId, Done
  <2>. QED
    BY <2>1
<1>. QED
  BY <1>4, <1>5, <1>6, <1>7, <1>8, <1>9, <1>10, <1>11

\* What the stages look like after such a step.
LEMMA EditStages ==
  ASSUME TypeInv, NEW c \in Clients, NEW n \in Versions, NEW x, NEW s,
         \/ ReadNext(c, n) \/ FindVersion(c, n, x) \/ ReadStakeholders(c, n, x)
         \/ Insert(c) \/ RecordEvaluation(c) \/ CheckApproval(c) \/ WriteApproval(c)
         \/ ClearStakeholders(c) \/ AssignStakeholders(c)
         \/ SetSlot(c, s, n) \/ ReadVersionId(c) \/ FillSlot(c) \/ Crash(c)
  PROVE  /\ RowsStay
         /\ \A v \in Live : version'[v].stage = version[v].stage
         /\ \A v \in Versions : \/ version'[v].stage = version[v].stage
                                \/ version'[v].stage = Order[1]
<1>1. TypeInv
  OBVIOUS
<1>2. /\ version \in [Versions -> [stage : Stages, approval : Statuses]]
      /\ row \in [Versions -> 0..made] /\ Live \subseteq Versions
  BY <1>1, LiveTyped DEF TypeInv, RegistryTypeOK
<1>3. CASE Insert(c)
  <2>1. req[c].id \in Versions /\ req[c].id \notin Live
    <3>1. req[c].id \in 1..made /\ req[c].id \notin Live /\ made \in 0..MaxVersions
      BY <1>1, <1>3 DEF TypeInv, RegistryTypeOK, Insert, Fresh
    <3>. QED
      BY <3>1, Constants DEF Versions
  <2>2. CASE row[req[c].number] # 0
    BY <1>3, <2>2 DEF Insert, RowsStay
  <2>3. CASE row[req[c].number] = 0
    BY <1>2, <1>3, <2>1, <2>3 DEF Insert, RowsStay
  <2>. QED
    BY <2>2, <2>3
<1>4. CASE WriteApproval(c)
  <2>1. row' = row
    BY <1>4 DEF WriteApproval
  <2>2. version' = version \/ \E v : version' = [version EXCEPT ![v].approval = req[c].ask]
    BY <1>4 DEF WriteApproval
  <2>. QED
    BY <1>2, <2>1, <2>2 DEF RowsStay
<1>5. CASE UNCHANGED <<row, version>>
  BY <1>5 DEF RowsStay
<1>. QED
  BY <1>3, <1>4, <1>5 DEF ReadNext, FindVersion, ReadStakeholders, RecordEvaluation,
     CheckApproval, ClearStakeholders, AssignStakeholders, SetSlot, ReadVersionId, FillSlot, Crash

\* Nobody else is promoting.
LEMMA OthersOut ==
  ASSUME Solo, StageInv, NEW c \in Clients, c \in Promoters, NEW d \in Clients, d # c
  PROVE  ~ Promoting(d)
BY DEF Solo, StageInv, Knows

LEMMA PromoteKnows ==
  ASSUME Solo, ~ AllowSkip, StageInv, NEW c \in Clients, NEW n \in Versions, NEW stage,
         \/ Promote(c, n, stage) \/ LoopPromote(c, n) \/ LoopRollback(c, n)
         \/ LoadVersion(c) \/ Gate(c) \/ ArchiveStage(c) \/ SetStage(c)
  PROVE  (\A d \in Clients : Knows(d)') /\ Climbs
<1>. DEFINE k == req[c].number
            v == row[k]
<1>1. TypeInv /\ Ready(c) /\ Knows(c) /\ req[c] \in Request /\ k \in Versions
  BY DEF StageInv, KeptInv, TypeInv, RegistryTypeOK, Request
<1>2. c \in Promoters
  BY <1>1 DEF Knows, Promoting, At, Promote, LoopPromote, LoopRollback, LoadVersion, Gate,
     ArchiveStage, SetStage
<1>3. UNCHANGED <<row, past>>
  BY DEF Promote, LoopPromote, LoopRollback, LoadVersion, Gate, ArchiveStage, SetStage
<1>4. RowsStay
  BY <1>3 DEF RowsStay
<1>5. v # 0 => v \in Versions /\ v \in Live
  BY <1>1, RowTyped
<1>6. version \in [Versions -> [stage : Stages, approval : Statuses]]
  BY <1>1 DEF TypeInv, RegistryTypeOK
<1>7. /\ \E r : req' = [req EXCEPT ![c] = r]
      /\ Knows(c)'
      /\ Climbs
  <2>0. UNCHANGED version => Climbs
    <3>1. \A w \in Versions : Rank(version[w].stage) <= Rank(version[w].stage) + 1
      BY RankTyped
    <3>. QED
      BY <3>1 DEF Climbs, StageOf
  <2>1. CASE Promote(c, n, stage) \/ LoopPromote(c, n) \/ LoopRollback(c, n)
    <3>1. PICK to : req' = [req EXCEPT ![c] = [Idle EXCEPT !.pc = "load", !.number = n, !.stage = to]]
      BY <2>1 DEF Promote, LoopPromote, LoopRollback, Ask
    <3>2. req'[c] = [Idle EXCEPT !.pc = "load", !.number = n, !.stage = to]
      BY <1>1, <3>1, HeldReq
    <3>3. req'[c].pc = "load"
      BY <3>2, IdleTyped DEF Request
    <3>4. UNCHANGED version
      BY <2>1 DEF Promote, LoopPromote, LoopRollback
    <3>. QED
      BY <1>2, <2>0, <3>1, <3>3, <3>4 DEF Knows
  <2>2. ASSUME Done(c) PROVE (\E r : req' = [req EXCEPT ![c] = r]) /\ Knows(c)'
    <3>1. req' = [req EXCEPT ![c] = Idle]
      BY <2>2 DEF Done
    <3>2. req'[c].pc = "idle"
      BY <1>1, <3>1, HeldReq, IdleTyped
    <3>. QED
      BY <3>1, <3>2 DEF Knows, Promoting
  <2>3. CASE LoadVersion(c)
    <3>1. UNCHANGED version
      BY <2>3 DEF LoadVersion
    <3>2. CASE v = 0
      BY <2>0, <2>2, <2>3, <3>1, <3>2 DEF LoadVersion
    <3>3. CASE v # 0
      <4>. DEFINE r == [req[c] EXCEPT !.pc = "gate", !.approval = version[v].approval,
                                      !.ask = version[v].stage]
      <4>1. req' = [req EXCEPT ![c] = r]
        BY <1>1, <2>3, <3>3 DEF LoadVersion, TypeInv, RegistryTypeOK
      <4>2. req'[c] = r
        BY <1>1, <4>1, HeldReq
      <4>3. r.pc = "gate" /\ r.number = k /\ r.ask = version[v].stage
        BY <1>1 DEF Request
      <4>. QED
        BY <1>2, <1>3, <2>0, <3>1, <4>1, <4>2, <4>3 DEF Knows
    <3>. QED
      BY <3>2, <3>3
  <2>4. CASE Gate(c)
    <3>1. UNCHANGED version
      BY <2>4 DEF Gate
    <3>2. CASE Done(c)
      BY <2>0, <2>2, <3>1, <3>2
    <3>3. CASE ~ Done(c)
      <4>. DEFINE r == [Idle EXCEPT !.pc = "archive", !.number = k, !.stage = req[c].stage]
      <4>1. Eligible(req[c]) /\ req' = [req EXCEPT ![c] = r]
        BY <2>4, <3>3 DEF Gate
      <4>2. req'[c] = r
        BY <1>1, <4>1, HeldReq
      <4>3. r.pc = "archive" /\ r.number = k /\ r.stage = req[c].stage
        BY IdleTyped DEF Request
      <4>4. v # 0 /\ req[c].ask = version[v].stage
        BY <1>1, <2>4 DEF Ready, Knows, Gate, At
      <4>5. Allowed(version[v].stage, req[c].stage)
        BY <4>1, <4>4 DEF Eligible
      <4>6. /\ req[c].stage # version[v].stage
            /\ Rank(req[c].stage) <= Rank(version[v].stage) + 1
        BY <4>5, RankTyped DEF Allowed, Rollback
      <4>. QED
        BY <1>2, <1>3, <2>0, <3>1, <4>1, <4>2, <4>3, <4>4, <4>6 DEF Knows
    <3>. QED
      BY <3>2, <3>3
  <2>5. CASE ArchiveStage(c)
    <3>. DEFINE r == [req[c] EXCEPT !.pc = "move"]
    <3>1. req' = [req EXCEPT ![c] = r]
      BY <1>1, <2>5 DEF ArchiveStage, Goto, TypeInv, RegistryTypeOK
    <3>2. req'[c] = r
      BY <1>1, <3>1, HeldReq
    <3>3. r.pc = "move" /\ r.number = k /\ r.stage = req[c].stage
      BY <1>1 DEF Request
    <3>4. /\ v # 0 /\ req[c].stage # version[v].stage
          /\ Rank(req[c].stage) <= Rank(version[v].stage) + 1
      BY <1>1, <2>5 DEF Knows, ArchiveStage, At
    <3>5. \A w \in Versions : version'[w].stage \in {version[w].stage, "archived"}
      BY <1>6, <2>5 DEF ArchiveStage
    <3>6. version'[v].stage = version[v].stage
      BY <1>5, <1>6, <2>5, <3>4 DEF ArchiveStage
    <3>7. Rank("archived") = 0
      BY Constants, RankTyped
    <3>8. Climbs
      <4>1. \A w \in Versions : /\ Rank(version[w].stage) <= Rank(version[w].stage) + 1
                                /\ Rank("archived") <= Rank(version[w].stage) + 1
        BY <3>7, RankTyped
      <4>. QED
        BY <3>5, <4>1 DEF Climbs, StageOf
    <3>. QED
      BY <1>2, <1>3, <3>1, <3>2, <3>3, <3>4, <3>6, <3>8 DEF Knows
  <2>6. CASE SetStage(c)
    <3>1. v # 0 /\ Rank(req[c].stage) <= Rank(version[v].stage) + 1
      BY <1>1, <2>6 DEF Knows, SetStage, At
    <3>2. version' = [version EXCEPT ![v].stage = req[c].stage]
      BY <2>6, <3>1 DEF SetStage
    <3>3. Climbs
      <4>1. \A w \in Versions : Rank(version[w].stage) <= Rank(version[w].stage) + 1
        BY RankTyped
      <4>2. version'[v].stage = req[c].stage
        BY <1>5, <1>6, <3>1, <3>2
      <4>3. \A w \in Versions : w # v => version'[w] = version[w]
        BY <1>6, <3>2
      <4>. QED
        BY <3>1, <4>1, <4>2, <4>3 DEF Climbs, StageOf
    <3>4. CASE Done(c)
      BY <2>2, <3>3, <3>4
    <3>5. CASE Serve(c, "champion", k)
      <4>. DEFINE r == [Idle EXCEPT !.pc = "slot", !.number = k, !.slot = "champion"]
      <4>1. req' = [req EXCEPT ![c] = r]
        BY <3>5 DEF Serve
      <4>2. req'[c] = r /\ r.pc = "slot"
        BY <1>1, <4>1, HeldReq, IdleTyped DEF Request
      <4>. QED
        BY <3>3, <4>1, <4>2 DEF Knows, Promoting
    <3>. QED
      BY <2>6, <3>4, <3>5 DEF SetStage
  <2>. QED
    BY <2>1, <2>3, <2>4, <2>5, <2>6
<1>8. ASSUME NEW d \in Clients, d # c PROVE Knows(d)'
  <2>1. req'[d] = req[d]
    BY <1>1, <1>7, <1>8, HeldReq
  <2>2. ~ Promoting(d)
    BY <1>2, <1>8, OthersOut
  <2>. QED
    BY <1>4, <1>8, <2>1, <2>2, StaysKnowing DEF StageInv
<1>. QED
  BY <1>7, <1>8

LEMMA EditClimbs ==
  ASSUME StageInv, \A v \in Versions : \/ version'[v].stage = version[v].stage
                                       \/ version'[v].stage = Order[1]
  PROVE  Climbs
<1>1. \A v \in Versions : /\ Rank(version[v].stage) <= Rank(version[v].stage) + 1
                          /\ Rank(Order[1]) <= Rank(version[v].stage) + 1
  BY RankTyped, FirstRank
<1>. QED
  BY <1>1 DEF Climbs, StageOf

LEMMA NextKnows ==
  ASSUME Kept, Solo, ~ AllowSkip, StageInv, [Next]_vars
  PROVE  StageInv' /\ Climbs
<1>1. KeptInv' /\ TypeInv
  BY NextKept DEF StageInv, KeptInv
<1>2. ASSUME NEW c \in Clients, ClientNext(c) PROVE (\A d \in Clients : Knows(d)') /\ Climbs
  <2>. DEFINE Edit(n, x, s) ==
         \/ ReadNext(c, n) \/ FindVersion(c, n, x) \/ ReadStakeholders(c, n, x)
         \/ Insert(c) \/ RecordEvaluation(c) \/ CheckApproval(c) \/ WriteApproval(c)
         \/ ClearStakeholders(c) \/ AssignStakeholders(c)
         \/ SetSlot(c, s, n) \/ ReadVersionId(c) \/ FillSlot(c) \/ Crash(c)
         Promotion(n, x) ==
         \/ Promote(c, n, x) \/ LoopPromote(c, n) \/ LoopRollback(c, n)
         \/ LoadVersion(c) \/ Gate(c) \/ ArchiveStage(c) \/ SetStage(c)
  <2>1. ASSUME NEW n \in Versions, NEW x, NEW s, Edit(n, x, s)
        PROVE  (\A d \in Clients : Knows(d)') /\ Climbs
    <3>1. PICK r : req' = [req EXCEPT ![c] = r] /\ r.pc \notin {"load", "gate", "archive", "move"}
      BY <1>1, <1>2, <2>1, EditKnows
    <3>2. ~ Promoting(c)' /\ \A d \in Clients : d # c => req'[d] = req[d]
      BY <1>2, <3>1, IdleOut DEF StageInv, KeptInv
    <3>3. /\ RowsStay
          /\ \A v \in Live : version'[v].stage = version[v].stage
          /\ \A v \in Versions : \/ version'[v].stage = version[v].stage
                                 \/ version'[v].stage = Order[1]
      BY <1>1, <1>2, <2>1, EditStages
    <3>. QED
      BY <1>2, <3>2, <3>3, ElseKnows, EditClimbs
  <2>2. ASSUME NEW n \in Versions, NEW x, Promotion(n, x)
        PROVE  (\A d \in Clients : Knows(d)') /\ Climbs
    BY <1>2, <2>2, PromoteKnows
  <2>3. \A n \in Versions : ~ DeleteVersion(c, n)
    BY DEF DeleteVersion, May, Kept
  <2>4. \E n \in Versions : \E x, s : Edit(n, x, s) \/ Promotion(n, x)
    BY <1>2, <2>3, Constants DEF ClientNext
  <2>. HIDE DEF Edit, Promotion
  <2>. QED
    BY <2>1, <2>2, <2>4
<1>3. CASE UNCHANGED vars
  <2>1. \A v \in Versions : Rank(version[v].stage) <= Rank(version[v].stage) + 1
    BY RankTyped
  <2>2. Climbs
    BY <1>3, <2>1 DEF vars, Climbs, StageOf
  <2>3. \A d \in Clients : Knows(d)'
    BY <1>3 DEF vars, StageInv, Knows, Promoting
  <2>. QED
    BY <1>1, <2>2, <2>3 DEF StageInv
<1>. QED
  BY <1>1, <1>2, <1>3 DEF Next, StageInv

\* With one promoter and no deletions, versions climb stage by stage, whatever
\* else happens meanwhile.
THEOREM StagesInOrder == ASSUME Kept, Solo, ~ AllowSkip PROVE Spec => StageOrder
<1>1. Init => StageInv
  BY InitKept, IdleTyped DEF Init, StageInv, Knows, Promoting
<1>2. StageInv /\ [Next]_vars => StageInv' /\ [Climbs]_vars
  BY NextKnows
<1>. QED
  BY <1>1, <1>2, PTL DEF Spec, StageOrder

\* With one promoter, who archives what stands in production before it moves
\* a version there.
SoleInv ==
  /\ TypeInv
  /\ OneProduction
  /\ \A c \in Clients : /\ Promoting(c) => c \in Promoters
                        /\ At(c, "move") /\ req[c].stage = "production" => InProduction = {}

\* A step that brings nothing into production and leaves the client outside a
\* promotion.
LEMMA ElseSole ==
  ASSUME SoleInv, TypeInv', NEW c \in Clients, ~ Promoting(c)',
         \A d \in Clients : d # c => req'[d] = req[d],
         InProduction' \subseteq InProduction
  PROVE  SoleInv'
<1>1. OneProduction'
  BY DEF SoleInv, OneProduction
<1>2. ASSUME NEW d \in Clients
      PROVE  /\ Promoting(d)' => d \in Promoters
             /\ At(d, "move")' /\ req'[d].stage = "production" => InProduction' = {}
  <2>1. CASE d = c
    BY <2>1 DEF Promoting, At
  <2>2. CASE d # c
    BY <2>2 DEF SoleInv, Promoting, At
  <2>. QED
    BY <2>1, <2>2
<1>. QED
  BY <1>1, <1>2 DEF SoleInv

\* Edits bring nothing into production.
LEMMA EditProduction ==
  ASSUME Order[1] # "production", TypeInv, NEW c \in Clients, NEW n \in Versions,
         NEW x, NEW s,
         \/ ReadNext(c, n) \/ FindVersion(c, n, x) \/ ReadStakeholders(c, n, x)
         \/ Insert(c) \/ RecordEvaluation(c) \/ CheckApproval(c) \/ WriteApproval(c)
         \/ ClearStakeholders(c) \/ AssignStakeholders(c)
         \/ SetSlot(c, s, n) \/ ReadVersionId(c) \/ FillSlot(c) \/ Crash(c)
  PROVE  InProduction' \subseteq InProduction
<1>1. \A v \in Live : version'[v].stage = version[v].stage
  BY EditStages
<1>2. ASSUME NEW v \in Live', v \notin Live PROVE version'[v].stage = Order[1]
  <2>1. Insert(c)
    BY <1>2 DEF Live, ReadNext, FindVersion, ReadStakeholders, RecordEvaluation, CheckApproval,
       WriteApproval, ClearStakeholders, AssignStakeholders, SetSlot, ReadVersionId, FillSlot, Crash
  <2>2. row[req[c].number] = 0
    BY <1>2, <2>1 DEF Insert, Live
  <2>3. row' = [row EXCEPT ![req[c].number] = req[c].id] /\ row \in [Versions -> 0..made]
    BY <2>1, <2>2 DEF Insert, TypeInv, RegistryTypeOK
  <2>4. v = req[c].id
    BY <1>2, <2>3 DEF Live
  <2>5. version' = [version EXCEPT ![v] = [stage |-> Order[1], approval |-> "pending_reviewer"]]
    BY <2>1, <2>2, <2>4 DEF Insert
  <2>6. v \in Versions
    <3>1. v \in 1..made /\ made \in 0..MaxVersions
      BY <2>1, <2>4 DEF TypeInv, RegistryTypeOK, Insert, Fresh
    <3>. QED
      BY <3>1, Constants DEF Versions
  <2>. QED
    BY <2>5, <2>6 DEF TypeInv, RegistryTypeOK
<1>. QED
  BY <1>1, <1>2 DEF InProduction, StageOf

LEMMA EditSole ==
  ASSUME Order[1] # "production", SoleInv, TypeInv', NEW c \in Clients, NEW n \in Versions,
         NEW x, NEW s,
         \/ ReadNext(c, n) \/ FindVersion(c, n, x) \/ ReadStakeholders(c, n, x)
         \/ Insert(c) \/ RecordEvaluation(c) \/ CheckApproval(c) \/ WriteApproval(c)
         \/ ClearStakeholders(c) \/ AssignStakeholders(c)
         \/ SetSlot(c, s, n) \/ ReadVersionId(c) \/ FillSlot(c) \/ Crash(c)
  PROVE  SoleInv'
<1>1. TypeInv
  BY DEF SoleInv
<1>2. PICK r : req' = [req EXCEPT ![c] = r] /\ r.pc \notin {"load", "gate", "archive", "move"}
  BY <1>1, EditKnows
<1>3. ~ Promoting(c)' /\ \A d \in Clients : d # c => req'[d] = req[d]
  BY <1>1, <1>2, IdleOut
<1>4. InProduction' \subseteq InProduction
  BY <1>1, EditProduction
<1>. QED
  BY <1>3, <1>4, ElseSole

LEMMA DeleteSole ==
  ASSUME SoleInv, TypeInv', NEW c \in Clients, NEW n \in Versions, DeleteVersion(c, n)
  PROVE  SoleInv'
<1>1. row' = [row EXCEPT ![n] = 0] /\ UNCHANGED <<version, req>>
  BY DEF DeleteVersion
<1>2. Live' \subseteq Live
  BY <1>1 DEF Live, SoleInv, TypeInv, RegistryTypeOK
<1>3. InProduction' \subseteq InProduction
  BY <1>1, <1>2 DEF InProduction, StageOf
<1>. QED
  BY <1>1, <1>3 DEF SoleInv, OneProduction, Promoting, At

\* Another promoter there is not.
LEMMA OnlyOne ==
  ASSUME Solo, SoleInv, NEW c \in Promoters, NEW d \in Clients, d # c, At(d, "move")
  PROVE  FALSE
BY DEF Solo, SoleInv, Promoting, At

LEMMA PromoteSole ==
  ASSUME Solo, SoleInv, TypeInv', NEW c \in Clients, NEW n \in Versions, NEW stage,
         \/ Promote(c, n, stage) \/ LoopPromote(c, n) \/ LoopRollback(c, n)
         \/ LoadVersion(c) \/ Gate(c) \/ ArchiveStage(c) \/ SetStage(c)
  PROVE  SoleInv'
<1>. DEFINE v == row[req[c].number]
<1>1. TypeInv /\ req[c] \in Request /\ req[c].number \in Versions
  BY DEF SoleInv, TypeInv, RegistryTypeOK, Request
<1>2. c \in Promoters
  BY DEF SoleInv, Promoting, At, Promote, LoopPromote, LoopRollback, LoadVersion, Gate,
     ArchiveStage, SetStage
<1>3. row' = row /\ Live' = Live
  BY DEF Promote, LoopPromote, LoopRollback, LoadVersion, Gate, ArchiveStage, SetStage, Live
<1>4. PICK r : req' = [req EXCEPT ![c] = r]
  BY DEF Promote, LoopPromote, LoopRollback, LoadVersion, Gate, ArchiveStage, SetStage, Ask, Done,
     Goto, Serve
<1>5. req'[c] = r /\ \A d \in Clients : d # c => req'[d] = req[d] /\ ~ At(d, "move")
  BY <1>1, <1>2, <1>4, HeldReq, OnlyOne
<1>6. ASSUME OneProduction', At(c, "move")' /\ req'[c].stage = "production" => InProduction' = {}
      PROVE  SoleInv'
  <2>1. ASSUME NEW d \in Clients
        PROVE  /\ Promoting(d)' => d \in Promoters
               /\ At(d, "move")' /\ req'[d].stage = "production" => InProduction' = {}
    <3>1. CASE d = c
      BY <1>2, <1>6, <3>1
    <3>2. CASE d # c
      BY <1>5, <3>2 DEF SoleInv, Promoting, At
    <3>. QED
      BY <3>1, <3>2
  <2>. QED
    BY <1>6, <2>1 DEF SoleInv
<1>7. version \in [Versions -> [stage : Stages, approval : Statuses]] /\ Live \subseteq Versions
  BY <1>1, LiveTyped DEF TypeInv, RegistryTypeOK
<1>8. CASE ArchiveStage(c)
  <2>1. \A w \in Live : version'[w].stage = IF version[w].stage = req[c].stage THEN "archived"
                                            ELSE version[w].stage
    BY <1>7, <1>8 DEF ArchiveStage
  <2>2. InProduction' \subseteq InProduction
    BY <1>3, <2>1 DEF InProduction, StageOf
  <2>3. req'[c].stage = req[c].stage
    BY <1>1, <1>8 DEF ArchiveStage, Goto, TypeInv, RegistryTypeOK, Request
  <2>4. req[c].stage = "production" => InProduction' = {}
    BY <1>3, <2>1 DEF InProduction, StageOf
  <2>. QED
    BY <1>6, <2>2, <2>3, <2>4 DEF SoleInv, OneProduction
<1>9. CASE SetStage(c)
  <2>1. ~ At(c, "move")'
    <3>1. r.pc # "move"
      <4>1. CASE Done(c)
        BY <1>1, <1>4, <1>5, <4>1, HeldReq, IdleTyped DEF Done
      <4>2. CASE Serve(c, "champion", req[c].number)
        <5>1. req'[c] = [Idle EXCEPT !.pc = "slot", !.number = req[c].number, !.slot = "champion"]
          BY <1>1, <4>2, HeldReq DEF Serve
        <5>. QED
          BY <1>5, <5>1, IdleTyped DEF Request
      <4>. QED
        BY <1>9, <4>1, <4>2 DEF SetStage
    <3>. QED
      BY <1>5, <3>1 DEF At
  <2>2. CASE req[c].stage = "production"
    <3>1. InProduction = {}
      BY <1>9, <2>2 DEF SoleInv, SetStage
    <3>2. \A w \in Live : w # v => version'[w].stage = version[w].stage
      BY <1>7, <1>9 DEF SetStage
    <3>3. InProduction' \subseteq {v}
      BY <1>3, <3>1, <3>2 DEF InProduction, StageOf
    <3>. QED
      BY <1>6, <2>1, <3>3 DEF OneProduction
  <2>3. CASE req[c].stage # "production"
    <3>1. \A w \in Live : version'[w].stage \in {version[w].stage, req[c].stage}
      BY <1>7, <1>9 DEF SetStage
    <3>2. InProduction' \subseteq InProduction
      BY <1>3, <2>3, <3>1 DEF InProduction, StageOf
    <3>. QED
      BY <1>6, <2>1, <3>2 DEF SoleInv, OneProduction
  <2>. QED
    BY <2>2, <2>3
<1>10. CASE Promote(c, n, stage) \/ LoopPromote(c, n) \/ LoopRollback(c, n) \/ LoadVersion(c) \/ Gate(c)
  <2>1. UNCHANGED version
    BY <1>10 DEF Promote, LoopPromote, LoopRollback, LoadVersion, Gate
  <2>2. InProduction' = InProduction
    BY <1>3, <2>1 DEF InProduction, StageOf
  <2>3. ~ At(c, "move")'
    <3>1. CASE Done(c)
      BY <1>1, <3>1, HeldReq, IdleTyped DEF Done, At
    <3>2. ASSUME NEW k, NEW to, NEW label \in {"load", "archive"},
                 req' = [req EXCEPT ![c] = [Idle EXCEPT !.pc = label, !.number = k, !.stage = to]]
          PROVE  ~ At(c, "move")'
      <4>1. req'[c] = [Idle EXCEPT !.pc = label, !.number = k, !.stage = to]
        BY <1>1, <3>2, HeldReq
      <4>2. req'[c].pc = label
        BY <4>1 DEF Idle
      <4>3. label # "move"
        OBVIOUS
      <4>. QED
        BY <4>2, <4>3 DEF At
    <3>3. CASE LoadVersion(c) /\ ~ Done(c)
      BY <1>1, <3>3 DEF LoadVersion, At, TypeInv, RegistryTypeOK, Request
    <3>4. CASE Gate(c) /\ ~ Done(c)
      <4>1. req' = [req EXCEPT ![c] = [Idle EXCEPT !.pc = "archive", !.number = req[c].number,
                                                   !.stage = req[c].stage]]
        BY <3>4 DEF Gate
      <4>. QED
        BY <3>2, <4>1
    <3>. QED
      BY <3>4, <1>10, <3>1, <3>2, <3>3 DEF Promote, LoopPromote, LoopRollback, LoadVersion, Gate, Ask
  <2>. QED
    BY <1>6, <2>2, <2>3 DEF SoleInv, OneProduction
<1>. QED
  BY <1>8, <1>9, <1>10

LEMMA NextSole ==
  ASSUME Solo, Order[1] # "production", SoleInv, [Next]_vars
  PROVE  SoleInv'
<1>1. TypeInv'
  BY NextTyped DEF SoleInv
<1>2. ASSUME NEW c \in Clients, ClientNext(c) PROVE SoleInv'
  <2>. DEFINE Edit(n, x, s) ==
         \/ ReadNext(c, n) \/ FindVersion(c, n, x) \/ ReadStakeholders(c, n, x)
         \/ Insert(c) \/ RecordEvaluation(c) \/ CheckApproval(c) \/ WriteApproval(c)
         \/ ClearStakeholders(c) \/ AssignStakeholders(c)
         \/ SetSlot(c, s, n) \/ ReadVersionId(c) \/ FillSlot(c) \/ Crash(c)
         Promotion(n, x) ==
         \/ Promote(c, n, x) \/ LoopPromote(c, n) \/ LoopRollback(c, n)
         \/ LoadVersion(c) \/ Gate(c) \/ ArchiveStage(c) \/ SetStage(c)
  <2>1. ASSUME NEW n \in Versions, NEW x, NEW s, Edit(n, x, s) PROVE SoleInv'
    BY <1>1, <1>2, <2>1, EditSole
  <2>2. ASSUME NEW n \in Versions, NEW x, Promotion(n, x) PROVE SoleInv'
    BY <1>1, <1>2, <2>2, PromoteSole
  <2>3. ASSUME NEW n \in Versions, DeleteVersion(c, n) PROVE SoleInv'
    BY <1>1, <1>2, <2>3, DeleteSole
  <2>4. \E n \in Versions : \/ DeleteVersion(c, n)
                            \/ \E x, s : Edit(n, x, s) \/ Promotion(n, x)
    BY <1>2, Constants DEF ClientNext
  <2>. HIDE DEF Edit, Promotion
  <2>. QED
    BY <2>1, <2>2, <2>3, <2>4
<1>3. CASE UNCHANGED vars
  BY <1>1, <1>3 DEF vars, SoleInv, OneProduction, InProduction, StageOf, Live, Promoting, At
<1>. QED
  BY <1>2, <1>3 DEF Next

\* With one promoter at most one version is in production, whatever is deleted,
\* re-registered or rolled back meanwhile.
THEOREM OneInProduction ==
  ASSUME Solo, Order[1] # "production" PROVE Spec => []OneProduction
<1>1. Init => SoleInv
  BY InitTyped, IdleTyped DEF Init, SoleInv, OneProduction, InProduction, Live, Promoting, At
<1>2. SoleInv /\ [Next]_vars => SoleInv'
  BY NextSole
<1>3. SoleInv => OneProduction
  BY DEF SoleInv
<1>. QED
  BY <1>1, <1>2, <1>3, PTL DEF Spec

-----------------------------------------------------------------------------
(* The champion.  A promotion that reaches production goes on to the serving *)
(* slot; until it is there the promoter has the version in hand.             *)

Serving(c) == req[c].pc \in {"slot", "fill"} /\ req[c].slot = "champion"

\* The version that will be the champion.
Target(c) == IF At(c, "slot") THEN row[req[c].number] ELSE req[c].id

ChampInv ==
  /\ SoleInv
  /\ \A c \in Clients : Serving(c) => c \in Promoters /\ InProduction \subseteq {Target(c)}
  /\ crashes = 0 => \A v \in InProduction :
       slot["champion"] = v \/ \E p \in Promoters : Serving(p)

\* A request that is not touched has the same version in hand.
LEMMA StaysServing ==
  ASSUME ChampInv, NEW d \in Clients, req'[d] = req[d], Serving(d)',
         InProduction' \subseteq InProduction,
         \A n \in Versions : row[n] \in InProduction' => row'[n] = row[n]
  PROVE  d \in Promoters /\ InProduction' \subseteq {Target(d)'}
<1>1. Serving(d) /\ (At(d, "slot")' <=> At(d, "slot")) /\ req[d].number \in Versions
  BY DEF Serving, At, ChampInv, SoleInv, TypeInv, RegistryTypeOK, Request
<1>2. d \in Promoters /\ InProduction \subseteq {Target(d)}
  BY <1>1 DEF ChampInv
<1>3. ASSUME NEW v \in InProduction' PROVE v = Target(d)'
  BY <1>1, <1>2, <1>3 DEF Target
<1>. QED
  BY <1>2, <1>3

\* A step that is no promotion's last steps: production and its champion stay.
LEMMA ElseChampion ==
  ASSUME ChampInv, SoleInv', NEW c \in Clients, ~ Serving(c)',
         crashes' = 0 => crashes = 0 /\ ~ Serving(c),
         \A d \in Clients : d # c => req'[d] = req[d],
         InProduction' \subseteq InProduction,
         \A n \in Versions : row[n] \in InProduction' => row'[n] = row[n],
         slot["champion"] \in InProduction' => slot'["champion"] = slot["champion"]
  PROVE  ChampInv'
<1>1. ASSUME NEW d \in Clients, Serving(d)'
      PROVE  d \in Promoters /\ InProduction' \subseteq {Target(d)'}
  BY <1>1, StaysServing
<1>2. ASSUME crashes' = 0, NEW v \in InProduction'
      PROVE  slot'["champion"] = v \/ \E p \in Promoters : Serving(p)'
  <2>1. CASE slot["champion"] = v
    BY <2>1
  <2>2. ASSUME NEW p \in Promoters, Serving(p) PROVE Serving(p)'
    BY <1>2, <2>2 DEF Serving, Clients
  <2>. QED
    BY <1>2, <2>1, <2>2 DEF ChampInv
<1>. QED
  BY <1>1, <1>2 DEF ChampInv

\* What a client has in hand after an edit: a slot it fills is not the
\* champion's, unless a promotion set out to.
LEMMA EditServes ==
  ASSUME TypeInv, NEW c \in Clients, NEW n \in Versions, NEW x, NEW s,
         \/ ReadNext(c, n) \/ FindVersion(c, n, x) \/ ReadStakeholders(c, n, x)
         \/ Insert(c) \/ RecordEvaluation(c) \/ CheckApproval(c) \/ WriteApproval(c)
         \/ ClearStakeholders(c) \/ AssignStakeholders(c)
         \/ (s \in Manual /\ SetSlot(c, s, n)) \/ Crash(c)
  PROVE  /\ ~ Serving(c)'
         /\ slot' = slot
         /\ crashes' = 0 => crashes = 0 /\ ~ Serving(c)
<1>1. s \in Manual => s # "champion"
  BY ManualAssumption
<1>2. ASSUME Done(c) PROVE ~ Serving(c)'
  BY <1>2, DoneMoves DEF Serving
<1>3. ASSUME NEW r, req' = [req EXCEPT ![c] = r],
             r.pc \notin {"slot", "fill"} \/ r.slot # "champion"
      PROVE  ~ Serving(c)'
  BY <1>3, HeldReq DEF Serving
<1>4. ~ Serving(c)'
  <2>1. CASE ReadNext(c, n)
    <3>1. req' = [req EXCEPT ![c] = [Idle EXCEPT !.pc = "insert", !.id = made', !.number = n]]
      BY <2>1 DEF ReadNext
    <3>. QED
      BY <1>3, <3>1 DEF Idle
  <2>2. CASE FindVersion(c, n, x)
    <3>1. req' = [req EXCEPT ![c] = [Idle EXCEPT !.pc = "record", !.id = row[n], !.number = n,
                                                 !.ask = x]]
      BY <2>2 DEF FindVersion
    <3>. QED
      BY <1>3, <3>1 DEF Idle
  <2>3. CASE ReadStakeholders(c, n, x)
    <3>1. req' = [req EXCEPT ![c] = [Idle EXCEPT !.pc = "status", !.number = n, !.ask = x,
                                                 !.staffed = staffed]]
      BY <2>3 DEF ReadStakeholders
    <3>. QED
      BY <1>3, <3>1 DEF Idle
  <2>4. CASE CheckApproval(c) /\ ~ Done(c)
    <3>1. req' = [req EXCEPT ![c] = [Idle EXCEPT !.pc = "decide", !.number = req[c].number,
                                                 !.ask = req[c].ask]]
      BY <2>4 DEF CheckApproval
    <3>. QED
      BY <1>3, <3>1 DEF Idle
  <2>5. CASE ClearStakeholders(c)
    <3>1. req' = [req EXCEPT ![c] = [Idle EXCEPT !.pc = "restaff"]]
      BY <2>5 DEF ClearStakeholders
    <3>. QED
      BY <1>3, <3>1 DEF Idle
  <2>6. CASE s \in Manual /\ SetSlot(c, s, n)
    <3>1. req' = [req EXCEPT ![c] = [Idle EXCEPT !.pc = "slot", !.number = n, !.slot = s]]
      BY <2>6 DEF SetSlot, Serve
    <3>. QED
      BY <1>1, <1>3, <2>6, <3>1 DEF Idle
  <2>. QED
    BY <1>2, <2>1, <2>2, <2>3, <2>4, <2>5, <2>6
       DEF Insert, RecordEvaluation, WriteApproval, AssignStakeholders, Crash
<1>5. slot' = slot
  BY DEF ReadNext, FindVersion, ReadStakeholders, Insert, RecordEvaluation, CheckApproval,
     WriteApproval, ClearStakeholders, AssignStakeholders, SetSlot, Crash
<1>6. crashes' = 0 => crashes = 0 /\ ~ Serving(c)
  <2>1. CASE Crash(c)
    <3>1. crashes \in Nat /\ crashes' = crashes + 1
      BY <2>1, Constants DEF Crash, TypeInv, RegistryTypeOK
    <3>. QED
      BY <3>1
  <2>2. CASE ~ Crash(c)
    BY <2>2 DEF ReadNext, FindVersion, ReadStakeholders, Insert, RecordEvaluation, CheckApproval,
       WriteApproval, ClearStakeholders, AssignStakeholders, SetSlot, May, At, Serving
  <2>. QED
    BY <2>1, <2>2
<1>. QED
  BY <1>4, <1>5, <1>6

LEMMA EditChampion ==
  ASSUME Order[1] # "production", ChampInv, SoleInv', NEW c \in Clients, NEW n \in Versions,
         NEW x, NEW s,
         \/ ReadNext(c, n) \/ FindVersion(c, n, x) \/ ReadStakeholders(c, n, x)
         \/ Insert(c) \/ RecordEvaluation(c) \/ CheckApproval(c) \/ WriteApproval(c)
         \/ ClearStakeholders(c) \/ AssignStakeholders(c)
         \/ (s \in Manual /\ SetSlot(c, s, n)) \/ Crash(c)
  PROVE  ChampInv'
<1>1. TypeInv
  BY DEF ChampInv, SoleInv
<1>2. PICK r : req' = [req EXCEPT ![c] = r]
  BY <1>1, EditKnows
<1>3. \A d \in Clients : d # c => req'[d] = req[d]
  BY <1>1, <1>2, HeldReq
<1>4. InProduction' \subseteq InProduction
  BY <1>1, EditProduction
<1>5. RowsStay
  BY <1>1, EditStages
<1>6. \A m \in Versions : row[m] \in InProduction' => row'[m] = row[m]
  BY <1>4, <1>5 DEF RowsStay, InProduction, Live
<1>7. /\ ~ Serving(c)'
      /\ slot' = slot
      /\ crashes' = 0 => crashes = 0 /\ ~ Serving(c)
  BY <1>1, EditServes
<1>. QED
  BY <1>3, <1>4, <1>6, <1>7, ElseChampion

\* A deleted version leaves production and its slots together.
LEMMA DeleteChampion ==
  ASSUME ChampInv, SoleInv', NEW c \in Clients, NEW n \in Versions, DeleteVersion(c, n)
  PROVE  ChampInv'
<1>1. /\ row[n] # 0 /\ row' = [row EXCEPT ![n] = 0]
      /\ slot' = [s \in Slots |-> IF slot[s] = row[n] THEN 0 ELSE slot[s]]
      /\ UNCHANGED <<version, req, crashes>> /\ At(c, "idle")
  BY DEF DeleteVersion, May
<1>2. /\ row \in [Versions -> 0..made]
      /\ \A k, m \in Versions : row[k] = row[m] /\ row[k] # 0 => k = m
  BY DEF ChampInv, SoleInv, TypeInv, RegistryTypeOK
<1>3. Live' \subseteq Live /\ row[n] \notin Live'
  BY <1>1, <1>2 DEF Live
<1>4. InProduction' \subseteq InProduction /\ row[n] \notin InProduction'
  BY <1>1, <1>3 DEF InProduction, StageOf
<1>5. \A m \in Versions : row[m] \in InProduction' => row'[m] = row[m]
  BY <1>1, <1>2, <1>4
<1>6. slot["champion"] \in InProduction' => slot'["champion"] = slot["champion"]
  BY <1>1, <1>4 DEF Slots
<1>7. ~ Serving(c) /\ ~ Serving(c)'
  BY <1>1 DEF Serving, At
<1>. QED
  BY <1>1, <1>4, <1>5, <1>6, <1>7, ElseChampion

\* The two steps that put the champion into its slot, and any other version
\* into another slot.
LEMMA SlotChampion ==
  ASSUME ChampInv, SoleInv', NEW c \in Clients, ReadVersionId(c) \/ FillSlot(c)
  PROVE  ChampInv'
<1>1. TypeInv /\ req[c] \in Request
  BY DEF ChampInv, SoleInv, TypeInv, RegistryTypeOK
<1>2. UNCHANGED <<row, version, crashes>>
  BY DEF ReadVersionId, FillSlot
<1>3. InProduction' = InProduction /\ Live' = Live /\ 0 \notin InProduction
  BY <1>2 DEF InProduction, StageOf, Live
<1>4. PICK r : req' = [req EXCEPT ![c] = r]
  BY DEF ReadVersionId, FillSlot, Done
<1>5. req'[c] = r /\ \A d \in Clients : d # c => req'[d] = req[d]
  BY <1>1, <1>4, HeldReq
<1>6. CASE ~ Serving(c)
  <2>1. ~ Serving(c)'
    <3>1. CASE Done(c)
      BY <1>1, <3>1, DoneMoves DEF Serving
    <3>2. CASE ~ Done(c)
      <4>1. req' = [req EXCEPT ![c] = [Idle EXCEPT !.pc = "fill", !.id = row[req[c].number],
                                                   !.slot = req[c].slot]]
        BY <3>2 DEF ReadVersionId, FillSlot
      <4>2. req'[c].slot = req[c].slot
        BY <1>1, <4>1, HeldReq DEF Idle
      <4>3. req[c].slot # "champion"
        BY <1>6, <3>2 DEF Serving, ReadVersionId, FillSlot, At
      <4>. QED
        BY <4>2, <4>3 DEF Serving
    <3>. QED
      BY <3>1, <3>2
  <2>2. slot'["champion"] = slot["champion"]
    <3>1. CASE ReadVersionId(c)
      BY <3>1 DEF ReadVersionId
    <3>2. CASE FillSlot(c)
      <4>1. req[c].slot # "champion"
        BY <1>6, <3>2 DEF Serving, FillSlot, At
      <4>. QED
        BY <1>1, <3>2, <4>1 DEF FillSlot, TypeInv, RegistryTypeOK, Slots
    <3>. QED
      BY <3>1, <3>2
  <2>. QED
    BY <1>2, <1>3, <1>5, <1>6, <2>1, <2>2, ElseChampion
<1>7. CASE Serving(c)
  <2>1. c \in Promoters /\ InProduction \subseteq {Target(c)}
    BY <1>7 DEF ChampInv
  <2>2. ASSUME NEW d \in Clients, d # c, Serving(d)'
        PROVE  d \in Promoters /\ InProduction' \subseteq {Target(d)'}
    BY <1>2, <1>3, <1>5, <2>2, StaysServing
  <2>3. CASE ReadVersionId(c)
    <3>1. Target(c) = row[req[c].number]
      BY <2>3 DEF ReadVersionId, Target
    <3>2. CASE row[req[c].number] = 0
      <4>1. InProduction' = {}
        BY <1>3, <2>1, <3>1, <3>2
      <4>2. ~ Serving(c)'
        BY <1>1, <2>3, <3>2, DoneMoves DEF ReadVersionId, Serving
      <4>. QED
        BY <2>2, <4>1, <4>2 DEF ChampInv
    <3>3. CASE row[req[c].number] # 0
      <4>1. req' = [req EXCEPT ![c] = [Idle EXCEPT !.pc = "fill", !.id = row[req[c].number],
                                                   !.slot = req[c].slot]]
        BY <2>3, <3>3 DEF ReadVersionId
      <4>2. req'[c].pc = "fill" /\ req'[c].id = row[req[c].number] /\ req'[c].slot = "champion"
        <5>1. req'[c] = [Idle EXCEPT !.pc = "fill", !.id = row[req[c].number],
                                     !.slot = req[c].slot]
          BY <1>1, <4>1, HeldReq
        <5>. QED
          BY <1>7, <5>1 DEF Idle, Serving
      <4>3. Serving(c)' /\ Target(c)' = row[req[c].number]
        BY <4>2 DEF Serving, Target, At
      <4>4. c \in Promoters /\ InProduction' \subseteq {Target(c)'}
        BY <1>3, <2>1, <3>1, <4>3
      <4>. QED
        BY <2>1, <2>2, <4>3, <4>4 DEF ChampInv
    <3>. QED
      BY <3>2, <3>3
  <2>4. CASE FillSlot(c)
    <3>1. Target(c) = req[c].id
      BY <2>4 DEF FillSlot, Target, At
    <3>2. ~ Serving(c)'
      BY <1>1, <2>4, DoneMoves DEF FillSlot, Serving
    <3>3. ASSUME NEW v \in InProduction PROVE slot'["champion"] = v
      <4>1. v = req[c].id /\ v \in Live
        BY <2>1, <3>1, <3>3 DEF InProduction
      <4>2. slot' = [slot EXCEPT !["champion"] = req[c].id]
        BY <1>7, <2>4, <4>1 DEF FillSlot, Serving
      <4>. QED
        BY <1>1, <4>1, <4>2 DEF TypeInv, RegistryTypeOK, Slots
    <3>. QED
      BY <1>3, <2>2, <3>2, <3>3 DEF ChampInv
  <2>. QED
    BY <2>3, <2>4
<1>. QED
  BY <1>6, <1>7

\* The promotion itself: what reaches production is in the promoter's hand.
LEMMA PromoteChampion ==
  ASSUME Solo, ChampInv, SoleInv', NEW c \in Clients, NEW n \in Versions, NEW stage,
         \/ Promote(c, n, stage) \/ LoopPromote(c, n) \/ LoopRollback(c, n)
         \/ LoadVersion(c) \/ Gate(c) \/ ArchiveStage(c) \/ SetStage(c)
  PROVE  ChampInv'
<1>. DEFINE v == row[req[c].number]
<1>1. SoleInv /\ TypeInv /\ req[c] \in Request
  BY DEF ChampInv, SoleInv, TypeInv, RegistryTypeOK
<1>2. c \in Promoters
  BY <1>1 DEF SoleInv, Promoting, At, Promote, LoopPromote, LoopRollback, LoadVersion, Gate,
     ArchiveStage, SetStage
<1>3. UNCHANGED <<row, slot, crashes>> /\ Live' = Live /\ ~ Serving(c)
  BY DEF Promote, LoopPromote, LoopRollback, LoadVersion, Gate, ArchiveStage, SetStage, Live,
     Serving, At
<1>4. PICK r : req' = [req EXCEPT ![c] = r]
  BY DEF Promote, LoopPromote, LoopRollback, LoadVersion, Gate, ArchiveStage, SetStage, Ask, Done,
     Goto, Serve
<1>5. req'[c] = r /\ \A d \in Clients : d # c => req'[d] = req[d]
  BY <1>1, <1>4, HeldReq
<1>6. version \in [Versions -> [stage : Stages, approval : Statuses]] /\ Live \subseteq Versions
  BY <1>1, LiveTyped DEF TypeInv, RegistryTypeOK
<1>7. ASSUME NEW label \in Labels, NEW k, NEW to,
             req' = [req EXCEPT ![c] = [Idle EXCEPT !.pc = label, !.number = k, !.stage = to]],
             label \notin {"slot", "fill"}
      PROVE  ~ Serving(c)'
  <2>1. req'[c] = [Idle EXCEPT !.pc = label, !.number = k, !.stage = to]
    BY <1>1, <1>7, HeldReq
  <2>2. req'[c].pc = label
    BY <2>1 DEF Idle
  <2>. QED
    BY <1>7, <2>2 DEF Serving
<1>8. CASE Done(c)
  <2>1. ~ Serving(c)'
    BY <1>1, <1>8, DoneMoves DEF Serving
  <2>2. ~ ArchiveStage(c)
    BY <1>1, <1>8, DoneMoves, HeldReq DEF ArchiveStage, Goto, TypeInv, RegistryTypeOK, Request
  <2>3. InProduction' \subseteq InProduction
    <3>1. CASE ~ SetStage(c)
      BY <1>3, <2>2, <3>1 DEF Promote, LoopPromote, LoopRollback, LoadVersion, Gate, InProduction, StageOf
    <3>2. CASE SetStage(c)
      <4>1. \A w \in Live : version'[w].stage \in {version[w].stage, req[c].stage}
        BY <1>6, <3>2 DEF SetStage
      <4>2. v # 0 => req[c].stage # "production"
        <5>1. ASSUME Serve(c, "champion", req[c].number) PROVE FALSE
          <6>1. req'[c] = [Idle EXCEPT !.pc = "slot", !.number = req[c].number, !.slot = "champion"]
            BY <1>1, <5>1, HeldReq DEF Serve
          <6>. QED
            BY <2>1, <6>1 DEF Serving, Idle
        <5>. QED
          BY <3>2, <5>1 DEF SetStage
      <4>3. v = 0 => UNCHANGED version
        BY <3>2 DEF SetStage
      <4>. QED
        BY <1>3, <4>1, <4>2, <4>3 DEF InProduction, StageOf
    <3>. QED
      BY <3>1, <3>2
  <2>. QED
    BY <1>3, <1>5, <2>1, <2>3, ElseChampion
<1>9. CASE SetStage(c) /\ ~ Done(c)
  <2>1. v # 0 /\ req[c].stage = "production" /\ Serve(c, "champion", req[c].number)
    BY <1>9 DEF SetStage
  <2>2. InProduction = {}
    BY <1>1, <1>9, <2>1 DEF SoleInv, SetStage
  <2>3. \A w \in Live : w # v => version'[w].stage = version[w].stage
    BY <1>6, <1>9 DEF SetStage
  <2>4. InProduction' \subseteq {v}
    BY <1>3, <2>2, <2>3 DEF InProduction, StageOf
  <2>5. req'[c] = [Idle EXCEPT !.pc = "slot", !.number = req[c].number, !.slot = "champion"]
    BY <1>1, <2>1, HeldReq DEF Serve
  <2>6. Serving(c)' /\ Target(c)' = v
    BY <1>3, <2>5 DEF Serving, Target, At, Idle
  <2>7. ASSUME NEW d \in Clients, d # c PROVE ~ Serving(d)'
    <3>1. ~ Serving(d)
      BY <1>2, <2>7 DEF Solo, ChampInv
    <3>. QED
      BY <1>5, <2>7, <3>1 DEF Serving
  <2>8. ASSUME NEW d \in Clients, Serving(d)'
        PROVE  d \in Promoters /\ InProduction' \subseteq {Target(d)'}
    BY <1>2, <2>4, <2>6, <2>7, <2>8
  <2>. QED
    BY <1>2, <2>6, <2>8 DEF ChampInv
<1>10. CASE ArchiveStage(c)
  <2>1. \A w \in Live : version'[w].stage \in {"archived", version[w].stage}
    BY <1>6, <1>10 DEF ArchiveStage
  <2>2. InProduction' \subseteq InProduction
    BY <1>3, <2>1 DEF InProduction, StageOf
  <2>3. ~ Serving(c)'
    BY <1>1, <1>10, HeldReq DEF ArchiveStage, Goto, Serving, TypeInv, RegistryTypeOK, Request
  <2>. QED
    BY <1>3, <1>5, <2>2, <2>3, ElseChampion
<1>11. CASE /\ Promote(c, n, stage) \/ LoopPromote(c, n) \/ LoopRollback(c, n) \/ LoadVersion(c) \/ Gate(c)
            /\ ~ Done(c)
  <2>1. InProduction' = InProduction
    BY <1>3, <1>11 DEF Promote, LoopPromote, LoopRollback, LoadVersion, Gate, InProduction, StageOf
  <2>2. ~ Serving(c)'
    <3>1. CASE LoadVersion(c)
      BY <1>1, <1>11, <3>1, HeldReq DEF LoadVersion, Serving, TypeInv, RegistryTypeOK, Request
    <3>2. CASE Gate(c)
      <4>1. req' = [req EXCEPT ![c] = [Idle EXCEPT !.pc = "archive", !.number = req[c].number,
                                                   !.stage = req[c].stage]]
        BY <1>11, <3>2 DEF Gate
      <4>. QED
        BY <1>7, <4>1 DEF Labels
    <3>3. CASE ~ LoadVersion(c) /\ ~ Gate(c)
      <4>1. \E to : Ask(c, n, to)
        BY <1>11, <3>3 DEF Promote, LoopPromote, LoopRollback
      <4>. QED
        BY <1>7, <4>1 DEF Labels, Ask
    <3>. QED
      BY <3>1, <3>2, <3>3
  <2>. QED
    BY <1>3, <1>5, <2>1, <2>2, ElseChampion
<1>. QED
  BY <1>8, <1>9, <1>10, <1>11

LEMMA NextChampion ==
  ASSUME Solo, Order[1] # "production", ChampInv, [Next]_vars
  PROVE  ChampInv'
<1>1. SoleInv'
  BY NextSole DEF ChampInv
<1>2. ASSUME NEW c \in Clients, ClientNext(c) PROVE ChampInv'
  <2>. DEFINE Edit(n, x) ==
         \/ ReadNext(c, n) \/ FindVersion(c, n, x) \/ ReadStakeholders(c, n, x)
         \/ Insert(c) \/ RecordEvaluation(c) \/ CheckApproval(c) \/ WriteApproval(c)
         \/ ClearStakeholders(c) \/ AssignStakeholders(c) \/ Crash(c)
         Promotion(n, x) ==
         \/ Promote(c, n, x) \/ LoopPromote(c, n) \/ LoopRollback(c, n)
         \/ LoadVersion(c) \/ Gate(c) \/ ArchiveStage(c) \/ SetStage(c)
  <2>1. ASSUME NEW n \in Versions, NEW x, Edit(n, x) PROVE ChampInv'
    BY <1>1, <1>2, <2>1, EditChampion
  <2>2. ASSUME NEW n \in Versions, NEW s \in Manual, SetSlot(c, s, n) PROVE ChampInv'
    BY <1>1, <1>2, <2>2, EditChampion
  <2>3. ASSUME NEW n \in Versions, NEW x, Promotion(n, x) PROVE ChampInv'
    BY <1>1, <1>2, <2>3, PromoteChampion
  <2>4. ASSUME NEW n \in Versions, DeleteVersion(c, n) PROVE ChampInv'
    BY <1>1, <1>2, <2>4, DeleteChampion
  <2>5. ASSUME ReadVersionId(c) \/ FillSlot(c) PROVE ChampInv'
    BY <1>1, <1>2, <2>5, SlotChampion
  <2>6. \/ \E n \in Versions : \/ DeleteVersion(c, n)
                               \/ \E x : Edit(n, x) \/ Promotion(n, x)
                               \/ \E s \in Manual : SetSlot(c, s, n)
        \/ ReadVersionId(c) \/ FillSlot(c)
    BY <1>2, Constants DEF ClientNext
  <2>. HIDE DEF Edit, Promotion
  <2>. QED
    BY <2>1, <2>2, <2>3, <2>4, <2>5, <2>6
<1>3. CASE UNCHANGED vars
  BY <1>1, <1>3 DEF vars, ChampInv, InProduction, StageOf, Live, Serving, Target, At
<1>. QED
  BY <1>2, <1>3 DEF Next

\* With one promoter, whatever is deleted, re-registered, rolled back or served
\* from other slots meanwhile, what is in production is the champion as soon as
\* the promotion is through, unless the process died on the way.
THEOREM ChampionServes ==
  ASSUME Solo, Order[1] # "production" PROVE Spec => []ProductionIsChampion
<1>1. Init => ChampInv
  BY InitTyped, IdleTyped
     DEF Init, ChampInv, SoleInv, OneProduction, InProduction, Live, Promoting, At, Serving
<1>2. ChampInv /\ [Next]_vars => ChampInv'
  BY NextChampion
<1>3. ChampInv => ProductionIsChampion
  BY DEF ChampInv, ProductionIsChampion, Serving
<1>. QED
  BY <1>1, <1>2, <1>3, PTL DEF Spec
=============================================================================
