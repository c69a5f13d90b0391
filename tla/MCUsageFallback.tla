-------------------------- MODULE MCUsageFallback --------------------------
EXTENDS UsageFallback, TLC

CONSTANTS f1, f2, f3, n1, n2, k1, k2, a, q1, q2, s1

AllRecords == {f1, f2, f3, n1, n2}

(***************************************************************************)
(* Two requests with equal tokens, q1 and q2, each with a fallback record  *)
(* and a native record, of one client whose key one record lacks.          *)
(***************************************************************************)
MCFallbacks == {f1, f2}
MCNatives == {n1, n2}
MCRequest == [r \in AllRecords |-> IF r \in {f1, n1} THEN q1 ELSE q2]
OneKey == [r \in AllRecords |-> k1]
MCClient == [r \in AllRecords |-> IF r = f1 THEN Unknown ELSE a]
NoStream == [f \in MCFallbacks |-> None]
NoEarlier == [f \in MCFallbacks |-> {}]

(***************************************************************************)
(* Two streams: f1 and f2 are snapshots of one with a correlation ID, f3   *)
(* of one without, taken from its history chunks.  The native record is    *)
(* that of f2 or, which the keys cannot tell, of f3.                       *)
(***************************************************************************)
StreamFallbacks == {f1, f2, f3}
StreamNatives == {n1}
StreamRequest == [r \in AllRecords |-> IF r = f3 THEN q2 ELSE q1]
TwoKeys == [r \in AllRecords |-> IF r = f1 THEN k1 ELSE k2]
TwoStreams == [f \in StreamFallbacks |-> IF f \in {f1, f2} THEN s1 ELSE None]
History == [f \in StreamFallbacks |-> IF f = f3 THEN {f3} ELSE {}]
=============================================================================
