-------------------------- MODULE MCModelRegistry --------------------------
(* Small instances of ModelRegistry.                                       *)
EXTENDS ModelRegistry

ThreeStages == <<"staging", "review", "production">>
TwoStages   == <<"staging", "production">>
=============================================================================
