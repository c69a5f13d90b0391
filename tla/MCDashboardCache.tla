--------------------------- MODULE MCDashboardCache ---------------------------
(* Two readers of summaries and of pages, in both modes.                   *)
EXTENDS DashboardCache, TLC

CONSTANTS e1, e2, r1, r2

View(kind, scoped) == [kind |-> kind, scoped |-> scoped]
SummaryViews == {View("summary", FALSE), View("summary", TRUE)}
MCViews == [database \in BOOLEAN |->
              SummaryViews \cup IF database THEN {View("events", FALSE)}
                               ELSE {View("events", TRUE), View("detail", FALSE)}]
MCModes == {TRUE, FALSE}
Symmetric == Permutations({e1, e2}) \cup Permutations({r1, r2})

(* A range, with a database only.                                          *)
MCRangeViews == [database \in BOOLEAN |-> {View("summary", TRUE)}]
MCStored == {TRUE}
=============================================================================
