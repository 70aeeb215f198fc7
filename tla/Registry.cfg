SPECIFICATION Spec
CONSTANTS
  MaxVersions = 2
  Promoters = {p1}
  Editors = {a1}
  Order <- ThreeStages
  Gated = {"production"}
  AllowSkip = FALSE
  RollbackEnabled = TRUE
  RollbackApproval = FALSE
  EvalToPromote = TRUE
  EvalToApprove = TRUE
  Staffed = TRUE
  Ops = {"register", "evaluate", "approve"}
  Manual = {}
  MaxCrashes = 0
INVARIANTS  ReviewedFirst
 
