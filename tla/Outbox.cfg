SPECIFICATION FairSpec
CONSTANTS
  NumEvents = 2
  Poison <- First
  NumHandlers = 4
  Keyed <- Audit
  FirstProjection = 3
  Drainers = {d1, d2}
  Replayers = {}
  MaxAttempts = 2
  Batch = 2
  MaxReplays = 0
  MaxFaults = 1
CHECK_DEADLOCK FALSE
INVARIANTS OutboxTypeOK FailureTriesTheRest
PROPERTIES SettledEventually
