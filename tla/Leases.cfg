SPECIFICATION FairLeaseSpec
CONSTANTS
  r1 = r1
  r2 = r2
  none = none
  NoRun = none
  NoWorker = none
  Runs = {r1}
  Tasks = {1, 2}
  Schedulers = {s1}
  Executors = {}
  Clients = {c1}
  Workers = {w1, w2}
  Handlers = {h1, h2}
  Plan <- OnlyChain2
  ReplayFrom <- FromTop
  ReplayOf <- Fresh
  Evidence <- NoProof
  MaxParallel <- TwoSlots
  Queue <- Default
  External = TRUE
  MaxAttempts = 2
  Ops = {"cancel"}
  ManualStatus = {}
  MaxCalls = 1
  MaxCrashes = 1
  MaxLosses = 1
INVARIANTS LeaseTypeOK RunningIsLeased OutcomeCloses OfferedAfterDeps
PROPERTIES SuccessIsStable RunsEndUnlessCrash
