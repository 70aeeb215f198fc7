SPECIFICATION Spec
CONSTANTS
  c1 = c1
  c2 = c2
  Clients = {c1}
  Ops <- AppendAndTick
  Limits = {2}
  Strategies = {"schedule"}
  Sizes = {2}
  Legacy = FALSE
  MaxVersions = 3
  MaxWindows = 3
  MaxRows = 3
  MaxUploads = 0
  MaxCrashes = 0
CHECK_DEADLOCK FALSE
PROPERTY TickSnapshots
