----------------------------- MODULE MCExportJobs -----------------------------
(* Three events of which two share a timestamp, one that is stored late.   *)
EXTENDS ExportJobs, TLC

CONSTANTS j1, j2, e1, e2, e3, e4

MCLimit == [j \in Jobs |-> IF j = j1 THEN 0 ELSE 1]
MCTime == (e1 :> 1) @@ (e2 :> 2) @@ (e3 :> 2) @@ (e4 :> 1)
MCInitial == <<e1, e2, e3>>
=============================================================================
