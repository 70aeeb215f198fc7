--------------------------- MODULE MCEventOutbox ---------------------------
(* Small instances of EventOutbox.                                         *)
EXTENDS EventOutbox

\* The order of app/main.py: audit, one claiming handler, the projections.
Audit == {1}
None  == {}
First == {1}
=============================================================================
