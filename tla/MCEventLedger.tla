---------------------------- MODULE MCEventLedger ----------------------------
(* Events of different ages: one may expire before another is recorded.    *)
EXTENDS EventLedger, TLC

CONSTANTS e1, e2

MCTime == [e \in Events |-> IF e = e1 THEN 0 ELSE 1]
=============================================================================
