SPECIFICATION FairSpec
CONSTANTS
  r1 = r1
  r2 = r2
  none = none
  NoRun = none
  Runs = {r1}
  Tasks = {1, 2, 3}
  Schedulers = {s1}
  Executors = {e1, e2}
  Clients = {c1}
  Plan <- OnlyChain3
  ReplayFrom <- FromTop
  ReplayOf <- Fresh
  Evidence <- NoProof
  MaxParallel <- TwoSlots
  Queue <- Default
  External = FALSE
  MaxAttempts = 2
  Ops = {}
  ManualStatus = {}
  MaxCalls = 0
  MaxCrashes = 0
PROPERTY BlockedTasksEnd
