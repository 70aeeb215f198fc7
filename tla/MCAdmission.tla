------------------------------ MODULE MCAdmission ------------------------------
(* Small instances of Admission.                                           *)
EXTENDS Admission

CONSTANTS k1, s2

Keyed(k, n) == [key |-> k, size |-> n, auto |-> FALSE]

TwoSlots     == {Keyed(k1, 2)}

\* The second scheduler runs on a smaller machine.
Uneven  == [w \in Workers |-> IF w = s2 THEN 1 ELSE 2]
=============================================================================
