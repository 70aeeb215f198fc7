--------------------------- MODULE MCRunScheduling ---------------------------
(* Small instances of RunScheduling.                                       *)
EXTENDS RunScheduling, TLC

CONSTANTS r1, r2, none

\* Task graphs.
Single  == (1 :> {})
Chain3  == (1 :> {} @@ 2 :> {1} @@ 3 :> {2})
Fork    == (1 :> {} @@ 2 :> {1} @@ 3 :> {1})
Diamond == (1 :> {} @@ 2 :> {1} @@ 3 :> {1} @@ 4 :> {2, 3})

\* Two runs, or one: what each of them is.
ForkAndSingle == (r1 :> Fork @@ r2 :> Single)
OnlyChain3    == (r1 :> Chain3)
OnlyDiamond   == (r1 :> Diamond)

\* r2 replays r1 from its second task; the first and the third left their
\* evidence.
ReplayPlan   == LET plan == (1 :> {} @@ 2 :> {1} @@ 3 :> {}) IN (r1 :> plan @@ r2 :> plan)
SecondOfR1   == (r1 :> 0 @@ r2 :> 2)
R2ReplaysR1  == (r1 :> none @@ r2 :> r1)
OthersProven == (r1 :> {} @@ r2 :> {1, 3})

Fresh    == [r \in Runs |-> none]
FromTop  == [r \in Runs |-> 0]
NoProof  == [r \in Runs |-> {}]
TwoSlots == [r \in Runs |-> 2]
Default  == [r \in Runs |-> "default"]
HighLow  == (r1 :> "high" @@ r2 :> "low")
=============================================================================
