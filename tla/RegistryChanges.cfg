SPECIFICATION Spec
CONSTANTS
  MaxVersions = 2
  Promoters = {p1}
  Editors = {a1}
  Order <- TwoStages
  Gated = {}
  AllowSkip = FALSE
  RollbackEnabled = TRUE
  RollbackApproval = FALSE
  EvalToPromote = FALSE
  EvalToApprove = FALSE
  Staffed = TRUE
  Ops = {"register", "delete", "evaluate", "replace", "slot"}
  Manual = {"challenger"}
  MaxCrashes = 1
INVARIANTS RegistryTypeOK  
