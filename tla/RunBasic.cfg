SPECIFICATION FairSpec
CONSTANTS
  r1 = r1
  r2 = r2
  none = none
  NoRun = none
  Runs = {r1, r2}
  Tasks = {1, 2, 3}
  Schedulers = {s1}
  Executors = {e1, e2}
  Clients = {c1}
  Plan <- ForkAndSingle
  ReplayFrom <- FromTop
  ReplayOf <- Fresh
  Evidence <- NoProof
  MaxParallel <- TwoSlots
  Queue <- HighLow
  External = FALSE
  MaxAttempts = 2
  Ops = {}
  ManualStatus = {}
  MaxCalls = 0
  MaxCrashes = 0
INVARIANTS SlotsRespected FailureIsFinal DeadIsLettered NoRunForgotten DispatchIsMarked
PROPERTIES RunsEnd BlockedTasksEnd
