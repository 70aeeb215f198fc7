SPECIFICATION FairSpec
CONSTANTS
  NumEvents = 1
  Poison <- None
  NumHandlers = 4
  Keyed <- Audit
  FirstProjection = 3
  Drainers = {d1, d2}
  Replayers = {c1}
  MaxAttempts = 2
  Batch = 1
  MaxReplays = 1
  MaxFaults = 1
CHECK_DEADLOCK FALSE
INVARIANTS AtMostOnce DeliveredIsHandled
PROPERTIES SettledIsStable
