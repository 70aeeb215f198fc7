SPECIFICATION Spec
CONSTANTS
  r1 = r1
  r2 = r2
  none = none
  NoRun = none
  Runs = {r1, r2}
  Tasks = {1, 2, 3}
  Schedulers = {s1}
  Executors = {e1}
  Clients = {c1}
  Plan <- ReplayPlan
  ReplayFrom <- SecondOfR1
  ReplayOf <- R2ReplaysR1
  Evidence <- OthersProven
  MaxParallel <- TwoSlots
  Queue <- Default
  External = FALSE
  MaxAttempts = 2
  Ops = {"cancel"}
  ManualStatus = {}
  MaxCalls = 1
  MaxCrashes = 0
INVARIANTS TypeOK RunningIsBacked SuccessIsEarned SuccessIsRecorded ReplayIsProven
PROPERTIES SuccessIsStable ImplementsDag
