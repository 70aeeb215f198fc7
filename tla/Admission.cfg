SPECIFICATION FairSpec
CONSTANTS
  k1 = k1
  NoKey = NoKey
  Api = {a1, a2}
  Schedulers = {s1, s2}
  Requests <- TwoSlots
  Capacity <- Uneven
  Budget = 2
  s2 = s2
  Quota = 5
  Limit = 1
  Tau = 1
  Policy = TRUE
  Patient = FALSE
  MaxRuns = 4
  MaxRows = 2
  MaxSends = 2
  MaxTime = 1
  MaxCrashes = 1
CHECK_DEADLOCK FALSE
INVARIANTS AdmissionTypeOK OneRunPerKey
PROPERTY RequestsSettle
