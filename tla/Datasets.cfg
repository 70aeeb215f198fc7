SPECIFICATION Spec
CONSTANTS
  c1 = c1
  c2 = c2
  Clients = {c1, c2}
  Ops <- Workloads
  Limits = {2}
  Strategies = {"threshold", "schedule"}
  Sizes = {2}
  Legacy = FALSE
  MaxVersions = 2
  MaxWindows = 3
  MaxRows = 2
  MaxUploads = 2
  MaxCrashes = 1
CHECK_DEADLOCK FALSE
INVARIANTS BufferTypeOK OnePerWindow
 
