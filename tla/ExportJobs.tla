------------------------------ MODULE ExportJobs ------------------------------
(***************************************************************************)
(* dashboardExportJobManager (go/dashboard_export_jobs.go): export jobs    *)
(* run in goroutines of their own, write pages of events to a temporary    *)
(* file and rename it when it is complete; a job can be deleted, expire or *)
(* be dropped by a shutdown at any moment of that.  The pages come from    *)
(* the database (go/event_store.go), or from memory when none is           *)
(* configured, while events are inserted and expire there.                 *)
(*                                                                         *)
(* Removing a job, its temporary file and its file are three steps under   *)
(* m.mu; the goroutine's work on the files holds no lock.  What a file     *)
(* contains is what its goroutine has written.  An export's formats and    *)
(* filters are left out: every event of the snapshot matches.              *)
(***************************************************************************)
EXTENDS Integers, Sequences, FiniteSets, SequencesExt

CONSTANTS
  Jobs,
  Limit,             (* the limit of a job, 0: none                          *)
  MaxActive, MaxStored, PageSize,
  Events, Time,      (* the events and their timestamps, 0: none             *)
  Initial,           (* the events stored at the start, in order, each once  *)
  Snapshot,          (* the time at which the jobs are created               *)
  None,
  MaxChanges         (* bound: file errors and changes of the store          *)

ASSUME ExportAssumption ==
  /\ None \notin Events /\ Limit \in [Jobs -> Nat] /\ Time \in [Events -> Nat]
  /\ MaxActive \in Nat \ {0} /\ MaxStored \in Nat \ {0} /\ PageSize \in Nat \ {0}
  /\ Initial \in Seq(Events) /\ Snapshot \in Nat
  /\ \A m, n \in DOMAIN Initial : Initial[m] = Initial[n] => m = n
  /\ MaxChanges \in Nat

VARIABLES
  table,      (* m.jobs                                                      *)
  status,     (* the status of each job, "none" before its creation          *)
  due,        (* finished jobs whose ExpiresAt has passed                    *)
  cancelled,  (* jobs whose context is cancelled                             *)
  closed,
  sweep,      (* who removes jobs under m.mu: the jobs left, and the one     *)
              (* whose files are being removed                               *)
  pc,         (* where the goroutine of each job stands                      *)
  written,    (* the events it has written                                   *)
  cursor,     (* where its next page starts                                  *)
  tmp, file,  (* the jobs whose temporary file, or file, exists              *)
  rows,       (* the event of each row by its ID, None when deleted          *)
  database,   (* a database is configured                                    *)
  stable,     (* observer: of each export, the events of its first page's    *)
              (* moment that have stayed since                               *)
  disturbed,  (* observer: exports whose source changed in a way that        *)
              (* cursors do not follow                                       *)
  changes     (* file errors and changes of the store so far                 *)

jobVars == <<table, status, due, cancelled, closed, sweep>>
runVars == <<pc, written, cursor>>
files == <<tmp, file>>
storeVars == <<rows, database>>
observers == <<stable, disturbed>>
vars == <<jobVars, runVars, files, storeVars, observers, changes>>

Statuses == {"none", "queued", "running", "succeeded", "failed"}
Positions == {"none", "start", "check", "open", "page", "recheck", "hash",
              "rename", "update", "error", "fail", "done"}
NoCursor == [time |-> 0, id |-> 0, offset |-> 0]
Changed == changes < MaxChanges /\ changes' = changes + 1
Idle == [jobs |-> {}, at |-> None, step |-> "idle"]

Active == {j \in table : status[j] \in {"queued", "running"}}

\* Every variable has its type, and the table keeps the limits of create.
TypeOK ==
  /\ Cardinality(table) <= MaxStored /\ Cardinality(Active) <= MaxActive
  /\ table \subseteq Jobs /\ status \in [Jobs -> Statuses]
  /\ due \subseteq Jobs /\ cancelled \subseteq Jobs /\ closed \in BOOLEAN
  /\ sweep \in [jobs : SUBSET Jobs, at : Jobs \cup {None},
                step : {"idle", "next", "tmp", "file"}]
  /\ pc \in [Jobs -> Positions] /\ written \in [Jobs -> Seq(Events)]
  /\ cursor \in [Jobs -> [time : Nat, id : Nat, offset : Nat]]
  /\ tmp \subseteq Jobs /\ file \subseteq Jobs
  /\ rows \in Seq(Events \cup {None}) /\ database \in BOOLEAN
  /\ stable \in [Jobs -> SUBSET Events] /\ disturbed \subseteq Jobs
  /\ changes \in 0..MaxChanges

Init ==
  /\ table = {} /\ status = [j \in Jobs |-> "none"] /\ due = {}
  /\ cancelled = {} /\ closed = FALSE /\ sweep = Idle
  /\ pc = [j \in Jobs |-> "none"] /\ written = [j \in Jobs |-> <<>>]
  /\ cursor = [j \in Jobs |-> NoCursor]
  /\ tmp = {} /\ file = {}
  /\ rows = Initial /\ database \in BOOLEAN
  /\ stable = [j \in Jobs |-> {}] /\ disturbed = {}
  /\ changes = 0

-----------------------------------------------------------------------------
(***************************************************************************)
(* The manager's operations.  Whoever needs m.mu waits for the sweep.      *)
(***************************************************************************)
Unlocked == sweep = Idle

\* create, get and list remove what is due first.
Cleanup ==
  /\ Unlocked /\ table \cap due # {}
  /\ sweep' = [jobs |-> table \cap due, at |-> None, step |-> "next"]
  /\ UNCHANGED <<table, status, due, cancelled, closed, runVars, files,
                 storeVars, observers, changes>>

HasSlotQueued == Cardinality({j \in table : status[j] = "queued"}) < MaxActive \* mutant
HasSlot == Cardinality(Active) < MaxActive

Create(j) ==
  /\ Unlocked /\ pc[j] = "none" /\ table \cap due = {} /\ ~closed
  /\ HasSlot /\ Cardinality(table) < MaxStored
  /\ table' = table \cup {j} /\ status' = [status EXCEPT ![j] = "queued"]
  /\ pc' = [pc EXCEPT ![j] = "start"]
  /\ UNCHANGED <<due, cancelled, closed, sweep, written, cursor, files,
                 storeVars, observers, changes>>

Delete(j) ==
  /\ Unlocked /\ j \in table
  /\ sweep' = [jobs |-> {j}, at |-> None, step |-> "next"]
  /\ UNCHANGED <<table, status, due, cancelled, closed, runVars, files,
                 storeVars, observers, changes>>

Close ==
  /\ Unlocked /\ ~closed
  /\ closed' = TRUE
  /\ sweep' = IF table = {} THEN Idle
              ELSE [jobs |-> table, at |-> None, step |-> "next"]
  /\ UNCHANGED <<table, status, due, cancelled, runVars, files, storeVars,
                 observers, changes>>

SweepNext(j) ==
  /\ sweep.step = "next" /\ j \in sweep.jobs
  /\ table' = table \ {j} /\ cancelled' = cancelled \cup {j}
  /\ sweep' = [jobs |-> sweep.jobs \ {j}, at |-> j, step |-> "tmp"]
  /\ UNCHANGED <<status, due, closed, runVars, files, storeVars, observers, changes>>

SweepTmp ==
  /\ sweep.step = "tmp"
  /\ tmp' = tmp \ {sweep.at}
  /\ sweep' = [sweep EXCEPT !.step = "file"]
  /\ UNCHANGED <<table, status, due, cancelled, closed, runVars, file,
                 storeVars, observers, changes>>

SweepFile ==
  /\ sweep.step = "file"
  /\ file' = file \ {sweep.at}
  /\ sweep' = IF sweep.jobs = {} THEN Idle
              ELSE [sweep EXCEPT !.at = None, !.step = "next"]
  /\ UNCHANGED <<table, status, due, cancelled, closed, runVars, tmp,
                 storeVars, observers, changes>>

\* A finished job has outlived its time.
BecomesDue(j) ==
  /\ j \in table \ due /\ status[j] \in {"succeeded", "failed"}
  /\ due' = due \cup {j}
  /\ UNCHANGED <<table, status, cancelled, closed, sweep, runVars, files,
                 storeVars, observers, changes>>

-----------------------------------------------------------------------------
(***************************************************************************)
(* Pages.  Rows are ordered by timestamp and ID, the newest first.         *)
(***************************************************************************)
TimeOf(i) == Time[rows[i]]
Newer(i, j) == TimeOf(i) > TimeOf(j) \/ (TimeOf(i) = TimeOf(j) /\ i > j)
Matching == {i \in DOMAIN rows : rows[i] # None /\ TimeOf(i) <= Snapshot}

Least(m, n) == IF m < n THEN m ELSE n

\* Of S, in the order newest first, the n rows after the first ones.
Newest(S, first, n) ==
  [k \in 1..n |-> CHOOSE i \in S : Cardinality({x \in S : Newer(x, i)}) = first + k - 1]

PastTime(i, at) == at.id = 0 \/ TimeOf(i) < at.time           \* mutant
PastCursor(i, at) ==
  at.id = 0 \/ TimeOf(i) < at.time \/ (TimeOf(i) = at.time /\ i < at.id)

Capacity(j) == IF Limit[j] \in 1..PageSize THEN Limit[j] ELSE PageSize
StorePage(j) ==
  LET past == {i \in Matching : PastCursor(i, cursor[j])}
  IN Newest(past, 0, Least(Capacity(j), Cardinality(past)))

Offset(j) == IF cursor[j].id = 0 THEN cursor[j].offset ELSE 0
MemoryPage(j) ==
  LET matching  == Cardinality(Matching)
      reachable == IF Limit[j] = 0 THEN matching ELSE Least(Limit[j], matching)
  IN Newest(Matching, Offset(j), Least(PageSize, reachable - Offset(j)))

CursorAfter(j, page) ==
  IF database
  THEN [time |-> TimeOf(Last(page)), id |-> Last(page), offset |-> 0]
  ELSE [NoCursor EXCEPT !.offset = Offset(j) + Len(page)]

-----------------------------------------------------------------------------
(***************************************************************************)
(* The goroutine of a job.                                                 *)
(***************************************************************************)
Goto(j, p) == pc' = [pc EXCEPT ![j] = p]
Gone(j) == closed \/ j \in cancelled
\* update: what it does to a job that still exists.
Present(j) == ~closed /\ j \in table
SetStatus(j, s) ==
  status' = IF Present(j) THEN [status EXCEPT ![j] = s] ELSE status

RunStart(j) ==
  /\ pc[j] = "start" /\ Unlocked
  /\ SetStatus(j, "running") /\ Goto(j, "check")
  /\ UNCHANGED <<table, due, cancelled, closed, sweep, written, cursor, files,
                 storeVars, observers, changes>>

RunCheck(j, from, to) ==
  /\ pc[j] = from /\ Unlocked
  /\ IF Gone(j)
     THEN Goto(j, "done") /\ tmp' = tmp \ {j} /\ file' = file \ {j}
     ELSE Goto(j, to) /\ UNCHANGED files
  /\ UNCHANGED <<jobVars, written, cursor, storeVars, observers, changes>>

Open(j) ==
  /\ pc[j] = "open"
  /\ tmp' = tmp \cup {j} /\ Goto(j, "page")
  /\ UNCHANGED <<jobVars, written, cursor, file, storeVars, observers, changes>>

Stops(j, page) ==
  page = <<>> \/ (Limit[j] > 0 /\ Len(written[j]) + Len(page) >= Limit[j])

Page(j) ==
  /\ pc[j] = "page" /\ j \notin cancelled
  /\ LET page == IF database THEN StorePage(j) ELSE MemoryPage(j)
     IN /\ written' = [written EXCEPT ![j] = @ \o [i \in DOMAIN page |-> rows[page[i]]]]
        /\ cursor' = IF page = <<>> THEN cursor
                     ELSE [cursor EXCEPT ![j] = CursorAfter(j, page)]
        /\ Goto(j, IF Stops(j, page) THEN "recheck" ELSE "page")
  /\ stable' = IF cursor[j] = NoCursor
               THEN [stable EXCEPT ![j] = {rows[i] : i \in Matching}] ELSE stable
  /\ UNCHANGED <<jobVars, files, storeVars, disturbed, changes>>

PageCancelled(j) ==
  /\ pc[j] = "page" /\ j \in cancelled
  /\ Goto(j, "error")
  /\ UNCHANGED <<jobVars, written, cursor, files, storeVars, observers, changes>>

\* The file's hash is read, then the file is renamed, while it exists.
Hash(j) ==
  /\ pc[j] = "hash"
  /\ Goto(j, IF j \in tmp THEN "rename" ELSE "error")
  /\ UNCHANGED <<jobVars, written, cursor, files, storeVars, observers, changes>>

Rename(j) ==
  /\ pc[j] = "rename"
  /\ IF j \in tmp
     THEN tmp' = tmp \ {j} /\ file' = file \cup {j} /\ Goto(j, "update")
     ELSE Goto(j, "error") /\ UNCHANGED files
  /\ UNCHANGED <<jobVars, written, cursor, storeVars, observers, changes>>

RunUpdate(j) ==
  /\ pc[j] = "update" /\ Unlocked
  /\ SetStatus(j, "succeeded") /\ Goto(j, "done")
  /\ UNCHANGED <<table, due, cancelled, closed, sweep, written, cursor, files,
                 storeVars, observers, changes>>

\* Opening, writing, reading or renaming the file fails.
Fault(j) ==
  /\ pc[j] \in {"open", "page", "hash", "rename"} /\ Changed /\ Goto(j, "error")
  /\ UNCHANGED <<jobVars, written, cursor, files, storeVars, observers>>

Kept(j) == tmp                                                 \* mutant
Discarded(j) == tmp \ {j}

Discard(j) ==
  /\ pc[j] = "error"
  /\ tmp' = Discarded(j) /\ Goto(j, "fail")
  /\ UNCHANGED <<jobVars, written, cursor, file, storeVars, observers, changes>>

StatusKept(j) == UNCHANGED status                              \* mutant
StatusFailed(j) == SetStatus(j, "failed")

\* A cancelled job is left as it is; another one has failed.
Fail(j) ==
  /\ pc[j] = "fail" /\ (j \notin cancelled => Unlocked)
  /\ Goto(j, "done")
  /\ IF j \in cancelled \/ ~Present(j)
     THEN UNCHANGED <<status, files>>
     ELSE StatusFailed(j) /\ tmp' = tmp \ {j} /\ file' = file \ {j}
  /\ UNCHANGED <<table, due, cancelled, closed, sweep, written, cursor,
                 storeVars, observers, changes>>

-----------------------------------------------------------------------------
(***************************************************************************)
(* The store meanwhile.                                                    *)
(***************************************************************************)
Exporting == {j \in Jobs : cursor[j] # NoCursor}

\* An event is stored; the writer may be late with it.
Insert(e) ==
  /\ Changed /\ e \notin ToSet(rows) /\ e \notin ToSet(Initial)
  /\ rows' = Append(rows, e)
  /\ disturbed' = IF ~database /\ Time[e] <= Snapshot
                  THEN disturbed \cup Exporting ELSE disturbed
  /\ UNCHANGED <<jobVars, runVars, files, database, stable>>

\* Retention deletes the events before a cutoff.
Retention(cutoff) ==
  LET old == {i \in DOMAIN rows : rows[i] # None /\ TimeOf(i) < cutoff}
  IN /\ Changed /\ old # {}
     /\ rows' = [i \in DOMAIN rows |-> IF i \in old THEN None ELSE rows[i]]
     /\ stable' = [j \in Jobs |-> stable[j] \ {rows[i] : i \in old}]
     /\ UNCHANGED <<jobVars, runVars, files, database, disturbed>>

\* Another database takes over the rows under new IDs, or none is configured.
SwitchDatabase ==
  /\ Changed
  /\ database' \in BOOLEAN /\ (~database => database')
  /\ LET ids == {i \in DOMAIN rows : rows[i] # None}
     IN rows' = [k \in 1..Cardinality(ids) |->
                   rows[CHOOSE i \in ids : Cardinality({x \in ids : x < i}) = k - 1]]
  /\ disturbed' = disturbed \cup Exporting
  /\ UNCHANGED <<jobVars, runVars, files, stable>>

-----------------------------------------------------------------------------
SweepStep == (\E j \in Jobs : SweepNext(j)) \/ SweepTmp \/ SweepFile
RunStep(j) ==
  \/ RunStart(j) \/ RunCheck(j, "check", "open") \/ Open(j)
  \/ Page(j) \/ PageCancelled(j) \/ RunCheck(j, "recheck", "hash")
  \/ Hash(j) \/ Rename(j) \/ RunUpdate(j) \/ Fault(j) \/ Discard(j) \/ Fail(j)

Next ==
  \/ Cleanup \/ Close \/ SweepStep
  \/ \E j \in Jobs : Create(j) \/ Delete(j) \/ BecomesDue(j) \/ RunStep(j)
  \/ (\E e \in Events : Insert(e) \/ Retention(Time[e])) \/ SwitchDatabase

\* The goroutines and whoever holds m.mu run on; m.mu is fair.
Fairness == WF_vars(SweepStep) /\ \A j \in Jobs : SF_vars(RunStep(j))

Spec == Init /\ [][Next]_vars /\ Fairness

-----------------------------------------------------------------------------
(***************************************************************************)
(* Properties.                                                             *)
(***************************************************************************)
\* A job that succeeded has its file as long as it can be asked for.  When
\* a job is gone and its goroutine has ended, it has left no file behind,
\* whichever of its steps the removal met.
FilesFollowJobs ==
  \A j \in Jobs :
    /\ j \in table /\ status[j] = "succeeded" => j \in file /\ j \notin tmp
    /\ pc[j] = "done" /\ j \notin table /\ sweep.at # j => j \notin tmp \cup file

\* An export lists each event once, the newest first, and leaves out none
\* that was there from its first page to its end, except older ones when it
\* reached its limit: inserts and retention between two pages do not shift
\* the next one.
Exported(j) == pc[j] \in {"recheck", "hash", "rename", "update"}
ExportFaithful ==
  \A j \in Jobs : Exported(j) /\ j \notin disturbed =>
    /\ \A m, n \in DOMAIN written[j] : m < n =>
         written[j][m] # written[j][n] /\ Time[written[j][m]] >= Time[written[j][n]]
    /\ \A e \in stable[j] \ ToSet(written[j]) :
         /\ Limit[j] > 0 /\ Len(written[j]) >= Limit[j]
         /\ \A w \in ToSet(written[j]) : Time[w] >= Time[e]

\* A job gives its slot back: no goroutine ends, or waits for ever, with its
\* job queued or running.
SlotsReturn == \A j \in Jobs : j \in Active ~> j \notin Active

=============================================================================
