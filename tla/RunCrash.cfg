SPECIFICATION Spec
CONSTANTS
  r1 = r1
  r2 = r2
  none = none
  NoRun = none
  Runs = {r1}
  Tasks = {1, 2, 3, 4}
  Schedulers = {s1}
  Executors = {e1}
  Clients = {c1}
  Plan <- OnlyDiamond
  ReplayFrom <- FromTop
  ReplayOf <- Fresh
  Evidence <- NoProof
  MaxParallel <- TwoSlots
  Queue <- Default
  External = FALSE
  MaxAttempts = 2
  Ops = {"status", "cancel", "replay"}
  ManualStatus = {"RUNNING", "FAILED"}
  MaxCalls = 1
  MaxCrashes = 1
INVARIANTS OneCopy DepsDone
