--------------------------- MODULE MCWorkerLeases ---------------------------
(* Small instances of WorkerLeases.                                        *)
EXTENDS WorkerLeases, TLC

CONSTANTS r1, r2, none

\* One run, whose second task needs the result of the first.
OnlyChain2 == (r1 :> (1 :> {} @@ 2 :> {1}))

Fresh    == [r \in Runs |-> none]
FromTop  == [r \in Runs |-> 0]
NoProof  == [r \in Runs |-> {}]
TwoSlots == [r \in Runs |-> 2]
Default  == [r \in Runs |-> "default"]
=============================================================================
