-------------------------- MODULE ExportJobsProofs --------------------------
(***************************************************************************)
(* What holds of the export jobs for every set of jobs and every limit:    *)
(* which files a job has, at any moment of its goroutine and of its        *)
(* removal, that its slot is free when it ends, and that an export         *)
(* contains what it should, whatever happens to the table between pages.   *)
(***************************************************************************)
EXTENDS ExportJobs, DataLemmas

\* The types of what the files depend on.
FileTypes ==
  /\ table \subseteq Jobs /\ cancelled \subseteq Jobs
  /\ tmp \subseteq Jobs /\ file \subseteq Jobs
  /\ status \in [Jobs -> Statuses] /\ pc \in [Jobs -> Positions]
  /\ sweep \in [jobs : SUBSET Jobs, at : Jobs \cup {None},
                step : {"idle", "next", "tmp", "file"}]

\* Whoever removes a job took it from the table before its files go.
Sweeping ==
  /\ sweep.step = "idle" <=> sweep = Idle
  /\ sweep.step \in {"tmp", "file"} => sweep.at \notin table
  /\ \A j \in Jobs : pc[j] = "none" => j \notin table
  /\ \A j \in Jobs : pc[j] # "none" /\ j \notin table => j \in cancelled

\* A file exists only where the goroutine can have made it.
OwnFiles ==
  /\ \A j \in tmp : pc[j] \in {"page", "recheck", "hash", "rename", "error"}
  /\ \A j \in file : pc[j] \in {"update", "done"}

\* Of a job that is gone, the sweep that took it still has to remove its file,
\* and the temporary file that could become that file.
NoneForgotten ==
  \A j \in Jobs \ table :
    /\ j \in file => sweep.at = j /\ sweep.step \in {"tmp", "file"}
    /\ j \in tmp /\ pc[j] \in {"hash", "rename"} => sweep.at = j /\ sweep.step = "tmp"

\* What a job in the table is said to have it has.
Finished ==
  \A j \in Jobs :
    /\ pc[j] = "update" /\ j \in table => j \in file
    /\ status[j] = "succeeded" => pc[j] = "done" /\ (j \in table => j \in file)

FileInv == FileTypes /\ Sweeping /\ OwnFiles /\ NoneForgotten /\ Finished

\* No job, no file.
LEMMA InitFiles == Init => FileInv
  BY DEF Init, FileInv, FileTypes, Sweeping, OwnFiles, NoneForgotten, Finished, Idle,
         Statuses, Positions

\* The steps of the manager and of whoever removes jobs.
LEMMA ManagerFiles ==
  ASSUME FileInv, Cleanup \/ Close \/ SweepStep
  PROVE  FileInv'
<1> USE DEF FileInv, FileTypes, Sweeping, OwnFiles, NoneForgotten, Finished, Unlocked,
            Idle, Statuses, Positions, runVars, files
<1>1. CASE Cleanup
  BY <1>1 DEF Cleanup
<1>2. CASE Close
  BY <1>2 DEF Close
<1>3. ASSUME NEW j \in Jobs, SweepNext(j) PROVE FileInv'
  BY <1>3 DEF SweepNext
<1>4. CASE SweepTmp
  BY <1>4 DEF SweepTmp
<1>5. CASE SweepFile
  BY <1>5 DEF SweepFile
<1>6. QED
  BY <1>1, <1>2, <1>3, <1>4, <1>5 DEF SweepStep

\* A job is created, asked to be removed, or outlives its time.
LEMMA RequestFiles ==
  ASSUME FileInv, NEW j \in Jobs, Create(j) \/ Delete(j) \/ BecomesDue(j)
  PROVE  FileInv'
<1> USE DEF FileInv, FileTypes, Sweeping, OwnFiles, NoneForgotten, Finished, Unlocked,
            Idle, Statuses, Positions, runVars, files
<1>1. CASE Create(j)
  BY <1>1 DEF Create
<1>2. CASE Delete(j)
  BY <1>2 DEF Delete
<1>3. CASE BecomesDue(j)
  BY <1>3 DEF BecomesDue
<1>4. QED
  BY <1>1, <1>2, <1>3

\* The goroutine of a job, whatever was removed meanwhile.
LEMMA RunFiles ==
  ASSUME FileInv, NEW j \in Jobs, RunStep(j)
  PROVE  FileInv'
<1> USE DEF FileInv, FileTypes, Sweeping, OwnFiles, NoneForgotten, Finished, Unlocked,
            Idle, Statuses, Positions, jobVars, files, Goto, Gone, Present, SetStatus
<1>1. CASE RunStart(j)
  BY <1>1 DEF RunStart
<1>2. CASE RunCheck(j, "check", "open")
  BY <1>2 DEF RunCheck
<1>3. CASE Open(j)
  BY <1>3 DEF Open
<1>4. CASE Page(j)
  BY <1>4 DEF Page
<1>5. CASE PageCancelled(j)
  BY <1>5 DEF PageCancelled
<1>6. CASE RunCheck(j, "recheck", "hash")
  BY <1>6 DEF RunCheck
<1>7. CASE Hash(j)
  BY <1>7 DEF Hash
<1>8. CASE Rename(j)
  BY <1>8 DEF Rename
<1>9. CASE RunUpdate(j)
  BY <1>9 DEF RunUpdate
<1>10. CASE Fault(j)
  BY <1>10 DEF Fault
<1>11. CASE Discard(j)
  BY <1>11 DEF Discard, Discarded
<1>12. CASE Fail(j)
  BY <1>12 DEF Fail, StatusFailed
<1>13. QED
  BY <1>1, <1>2, <1>3, <1>4, <1>5, <1>6, <1>7, <1>8, <1>9, <1>10, <1>11, <1>12
  DEF RunStep

\* The store has no part in the files of the jobs.
LEMMA StoreFiles ==
  ASSUME FileInv,
         (\E e \in Events : Insert(e) \/ Retention(Time[e])) \/ SwitchDatabase \/ UNCHANGED vars
  PROVE  FileInv'
<1>1. UNCHANGED <<jobVars, runVars, files>>
  BY DEF Insert, Retention, SwitchDatabase, vars
<1>2. QED
  BY <1>1 DEF FileInv, FileTypes, Sweeping, OwnFiles, NoneForgotten, Finished,
              jobVars, runVars, files

\* Every step keeps the invariant of the files.
LEMMA NextFiles == FileInv /\ [Next]_vars => FileInv'
  BY ManagerFiles, RequestFiles, RunFiles, StoreFiles DEF Next

\* A job that succeeded has its file, and one that is gone leaves none, for
\* every set of jobs and whatever a removal meets.
THEOREM FilesKept == Spec => []FilesFollowJobs
<1>1. FileInv => FilesFollowJobs
  BY DEF FileInv, FileTypes, Sweeping, OwnFiles, NoneForgotten, Finished, FilesFollowJobs
<1>2. QED
  BY InitFiles, NextFiles, <1>1, PTL DEF Spec

-----------------------------------------------------------------------------
(***************************************************************************)
(* The slots.                                                              *)
(***************************************************************************)
\* create keeps both limits of the table.
Limits ==
  /\ IsFiniteSet(table)
  /\ Cardinality(table) <= MaxStored /\ Cardinality(Active) <= MaxActive

\* A job whose goroutine has ended occupies no slot.
SlotFree == \A j \in Jobs : pc[j] = "done" => j \notin Active

\* Who is gone was removed, and after close whoever is left is being removed:
\* when a goroutine finds the mutex free its job is in the table, or gone.
Removal ==
  /\ table \cap cancelled = {}
  /\ \A j \in cancelled : pc[j] # "none"
  /\ sweep.jobs \subseteq table
  /\ closed => table \subseteq sweep.jobs
  /\ \A j \in Jobs : pc[j] = "start" /\ j \in table => status[j] = "queued"

SlotInv == FileInv /\ Removal /\ SlotFree

\* No job, no slot taken.
LEMMA InitSlots == Init => SlotInv /\ Limits
<1> SUFFICES ASSUME Init PROVE SlotInv /\ Limits
  OBVIOUS
<1>1. Removal /\ SlotFree
  BY DEF Init, Removal, SlotFree, Idle
<1>2. table = {} /\ Active = {}
  BY DEF Init, Active
<1>3. Limits
  BY <1>2, FS_EmptySet, ExportAssumption DEF Limits
<1>4. QED
  BY <1>1, <1>3, InitFiles DEF SlotInv

\* The steps of the manager.
LEMMA ManagerSlots ==
  ASSUME SlotInv, Cleanup \/ Close \/ SweepStep
  PROVE  Removal' /\ SlotFree'
<1> USE DEF SlotInv, FileInv, FileTypes, Sweeping, Removal, SlotFree, Active, Unlocked,
            Idle, runVars
<1>1. CASE Cleanup
  BY <1>1 DEF Cleanup
<1>2. CASE Close
  BY <1>2 DEF Close
<1>3. ASSUME NEW j \in Jobs, SweepNext(j) PROVE Removal' /\ SlotFree'
  BY <1>3 DEF SweepNext
<1>4. CASE SweepTmp
  BY <1>4 DEF SweepTmp
<1>5. CASE SweepFile
  BY <1>5 DEF SweepFile
<1>6. QED
  BY <1>1, <1>2, <1>3, <1>4, <1>5 DEF SweepStep

\* A job is created, asked to be removed, or outlives its time.
LEMMA RequestSlots ==
  ASSUME SlotInv, NEW j \in Jobs, Create(j) \/ Delete(j) \/ BecomesDue(j)
  PROVE  Removal' /\ SlotFree'
<1> USE DEF SlotInv, FileInv, FileTypes, Sweeping, Removal, SlotFree, Active, Unlocked,
            Idle, runVars
<1>1. CASE Create(j)
  BY <1>1 DEF Create, Positions
<1>2. CASE Delete(j)
  BY <1>2 DEF Delete
<1>3. CASE BecomesDue(j)
  BY <1>3 DEF BecomesDue
<1>4. QED
  BY <1>1, <1>2, <1>3

\* The goroutine of a job ends when the job is gone, or settles its status.
LEMMA RunSlots ==
  ASSUME SlotInv, NEW j \in Jobs, RunStep(j)
  PROVE  Removal' /\ SlotFree'
<1> USE DEF SlotInv, FileInv, FileTypes, Sweeping, Removal, SlotFree, Active, Unlocked,
            Idle, Positions, Statuses, jobVars, Goto, Gone, Present, SetStatus
<1>1. CASE RunStart(j)
  BY <1>1 DEF RunStart
<1>2. CASE RunCheck(j, "check", "open") \/ RunCheck(j, "recheck", "hash")
  BY <1>2 DEF RunCheck
<1>3. CASE Open(j) \/ Page(j) \/ PageCancelled(j) \/ Hash(j)
  BY <1>3 DEF Open, Page, PageCancelled, Hash
<1>4. CASE Rename(j)
  BY <1>4 DEF Rename
<1>5. CASE RunUpdate(j)
  BY <1>5 DEF RunUpdate
<1>6. CASE Fault(j) \/ Discard(j)
  BY <1>6 DEF Fault, Discard
<1>7. CASE Fail(j)
  BY <1>7 DEF Fail, StatusFailed
<1>8. QED
  BY <1>1, <1>2, <1>3, <1>4, <1>5, <1>6, <1>7 DEF RunStep

\* Every step lets who ends leave its slot.
LEMMA NextSlots == SlotInv /\ [Next]_vars => SlotInv'
<1> SUFFICES ASSUME SlotInv, [Next]_vars PROVE Removal' /\ SlotFree'
  BY NextFiles DEF SlotInv
<1>1. CASE (\E e \in Events : Insert(e) \/ Retention(Time[e])) \/ SwitchDatabase
           \/ UNCHANGED vars
  <2>1. UNCHANGED <<jobVars, runVars>>
    BY <1>1 DEF Insert, Retention, SwitchDatabase, vars
  <2>2. QED
    BY <2>1 DEF SlotInv, Removal, SlotFree, Active, jobVars, runVars
<1>2. QED
  BY <1>1, ManagerSlots, RequestSlots, RunSlots DEF Next

\* Only create adds a job to the table or to the active ones.
LEMMA OnlyCreateAdds ==
  ASSUME SlotInv, [Next]_vars, ~\E j \in Jobs : Create(j)
  PROVE  table' \subseteq table /\ Active' \subseteq Active
<1> USE DEF SlotInv, FileInv, FileTypes, Removal, Active, Goto, SetStatus, jobVars, runVars
<1>1. CASE Cleanup \/ Close \/ SweepStep
  BY <1>1 DEF Cleanup, Close, SweepStep, SweepNext, SweepTmp, SweepFile
<1>2. ASSUME NEW j \in Jobs, Delete(j) \/ BecomesDue(j)
      PROVE  table' \subseteq table /\ Active' \subseteq Active
  BY <1>2 DEF Delete, BecomesDue
<1>3. ASSUME NEW j \in Jobs, RunStep(j)
      PROVE  table' \subseteq table /\ Active' \subseteq Active
  <2>1. table' = table
    BY <1>3 DEF RunStep, RunStart, RunCheck, Open, Page, PageCancelled, Hash, Rename,
                RunUpdate, Fault, Discard, Fail
  <2>2. CASE RunStart(j)
    BY <2>1, <2>2 DEF RunStart
  <2>3. CASE RunUpdate(j) \/ Fail(j)
    BY <2>1, <2>3 DEF RunUpdate, Fail, StatusFailed, Statuses
  <2>4. CASE ~(RunStart(j) \/ RunUpdate(j) \/ Fail(j))
    <3>1. status' = status
      BY <1>3, <2>4 DEF RunStep, RunCheck, Open, Page, PageCancelled, Hash, Rename,
                        Fault, Discard
    <3>2. QED
      BY <2>1, <3>1
  <2>5. QED
    BY <2>2, <2>3, <2>4
<1>4. CASE (\E e \in Events : Insert(e) \/ Retention(Time[e])) \/ SwitchDatabase
           \/ UNCHANGED vars
  BY <1>4 DEF Insert, Retention, SwitchDatabase, vars
<1>5. QED
  BY <1>1, <1>2, <1>3, <1>4 DEF Next

\* Create looks for room; nobody else needs it.
LEMMA NextLimits == SlotInv /\ Limits /\ [Next]_vars => Limits'
<1> SUFFICES ASSUME SlotInv, Limits, [Next]_vars PROVE Limits'
  OBVIOUS
<1>1. IsFiniteSet(table) /\ IsFiniteSet(Active)
  BY FS_Subset DEF Limits, Active
<1>2. ASSUME NEW j \in Jobs, Create(j) PROVE Limits'
  <2>1. table' = table \cup {j} /\ Active' = Active \cup {j}
    BY <1>2 DEF Create, Active, SlotInv, FileInv, FileTypes
  <2>2. j \notin table /\ j \notin Active
    BY <1>2 DEF Create, Active, SlotInv, FileInv, Sweeping
  <2>3. /\ IsFiniteSet(table')
        /\ Cardinality(table') = Cardinality(table) + 1
        /\ Cardinality(Active') = Cardinality(Active) + 1
    BY <1>1, <2>1, <2>2, FS_AddElement
  <2>4. Cardinality(table) \in Nat /\ Cardinality(Active) \in Nat
    BY <1>1, FS_CardinalityType
  <2>5. QED
    BY <1>2, <2>3, <2>4, ExportAssumption DEF Create, HasSlot, Limits
<1>3. CASE ~\E j \in Jobs : Create(j)
  <2>1. table' \subseteq table /\ Active' \subseteq Active
    BY <1>3, OnlyCreateAdds
  <2>2. /\ IsFiniteSet(table') /\ Cardinality(table') <= Cardinality(table)
        /\ Cardinality(Active') <= Cardinality(Active)
    BY <1>1, <2>1, FS_Subset
  <2>3. /\ Cardinality(table) \in Nat /\ Cardinality(Active) \in Nat
        /\ Cardinality(table') \in Nat /\ Cardinality(Active') \in Nat
    BY <1>1, <2>1, FS_Subset, FS_CardinalityType
  <2>4. QED
    BY <2>2, <2>3, ExportAssumption DEF Limits
<1>4. QED
  BY <1>2, <1>3

\* However jobs are created, finish, fail, expire, and are deleted or dropped
\* by close, the table and its active jobs stay within the limits, and no
\* goroutine ends with its job still queued or running, which would occupy
\* the slot until the job is deleted.
THEOREM SlotsKept == Spec => [](Limits /\ SlotFree)
<1>1. SlotInv /\ Limits /\ [Next]_vars => (SlotInv /\ Limits)'
  BY NextSlots, NextLimits
<1>2. SlotInv => SlotFree
  BY DEF SlotInv
<1>3. QED
  BY InitSlots, <1>1, <1>2, PTL DEF Spec
-----------------------------------------------------------------------------
(***************************************************************************)
(* What an export has written, while nobody disturbs it.                   *)
(***************************************************************************)
\* The types of the pages and of what they are read from.
ExportTypes ==
  /\ rows \in Seq(Events \cup {None}) /\ database \in BOOLEAN
  /\ written \in [Jobs -> Seq(Events)]
  /\ cursor \in [Jobs -> [time : Nat, id : Nat, offset : Nat]]
  /\ stable \in [Jobs -> SUBSET Events] /\ disturbed \subseteq Jobs
  /\ due \subseteq Jobs /\ closed \in BOOLEAN /\ changes \in 0..MaxChanges

\* An event has one row.
OneRow ==
  \A i, k \in DOMAIN rows : rows[i] = rows[k] /\ rows[i] # None => i = k

\* The place of row i among those of S, counted from 0.
Place(S, i) == Cardinality({x \in S : Newer(x, i)})

\* An export from the database, that has written the events W up to the cursor
\* at, and has still to write of the events E: what it has written is not past
\* the cursor, and what it has still to write is.
ByCursor(at, W, E) ==
  /\ at.id \in 1..Len(rows)
  /\ \A e \in ToSet(W) : Time[e] >= at.time
  /\ \A i \in DOMAIN rows : rows[i] \in ToSet(W) => ~PastCursor(i, at)
  /\ \A e \in E \ ToSet(W) : \E i \in Matching : rows[i] = e /\ PastCursor(i, at)

\* An export from memory: as many of the newest events as it counts are what it
\* has written.
Leads(W) ==
  \A i \in Matching : Place(Matching, i) < Len(W) => rows[i] = W[Place(Matching, i) + 1]

ByOffset(at, W, E) ==
  /\ at.id = 0 /\ at.offset = Len(W)
  /\ Leads(W)
  /\ \A e \in E : \E i \in Matching : rows[i] = e

Ordered(W) ==
  \A m, n \in DOMAIN W : m < n => W[m] # W[n] /\ Time[W[m]] >= Time[W[n]]

\* Only a limit keeps an event out of a complete export, and only an old one.
Complete(j, W, E) ==
  \A e \in E \ ToSet(W) :
    /\ Limit[j] > 0 /\ Len(W) >= Limit[j]
    /\ \A w \in ToSet(W) : Time[w] >= Time[e]

Follows(at, W, E) ==
  at # NoCursor => IF database THEN ByCursor(at, W, E) ELSE ByOffset(at, W, E)

Progress(j) ==
  /\ cursor[j] = NoCursor => written[j] = <<>> /\ stable[j] = {}
  /\ j \notin disturbed =>
       /\ Ordered(written[j]) /\ Follows(cursor[j], written[j], stable[j])
       /\ Exported(j) => Complete(j, written[j], stable[j])

ExportInv == ExportTypes /\ OneRow /\ \A j \in Jobs : Progress(j)

-----------------------------------------------------------------------------
(* Places in the order of the rows.                                        *)

\* The timestamps of matching rows are numbers.
LEMMA MatchingRows ==
  ASSUME ExportTypes
  PROVE  /\ IsFiniteSet(Matching) /\ Matching \subseteq 1..Len(rows) /\ Len(rows) \in Nat
         /\ \A i \in Matching : rows[i] \in Events /\ TimeOf(i) \in Nat /\ i \in Nat
<1>1. Len(rows) \in Nat /\ DOMAIN rows = 1..Len(rows)
  BY DEF ExportTypes
<1>2. Matching \subseteq 1..Len(rows)
  BY <1>1 DEF Matching
<1>3. IsFiniteSet(Matching)
  <2>1. IsFiniteSet(1..Len(rows))
    BY <1>1, FS_Interval
  <2>2. QED
    BY <1>2, <2>1, FS_Subset
<1>4. ASSUME NEW i \in Matching PROVE rows[i] \in Events /\ TimeOf(i) \in Nat /\ i \in Nat
  <2>1. rows[i] \in Events \cup {None} /\ rows[i] # None
    BY <1>1 DEF Matching, ExportTypes
  <2>2. QED
    BY <1>1, <1>2, <2>1, ExportAssumption DEF TimeOf
<1>5. QED
  BY <1>1, <1>2, <1>3, <1>4

\* Newer is a total order of the matching rows.
LEMMA NewerOrder ==
  ASSUME ExportTypes, NEW i \in Matching, NEW k \in Matching
  PROVE  /\ ~Newer(i, i) /\ (i # k => Newer(i, k) \/ Newer(k, i))
         /\ ~(Newer(i, k) /\ Newer(k, i))
         /\ \A x \in Matching : Newer(x, i) /\ Newer(i, k) => Newer(x, k)
  BY MatchingRows DEF Newer

\* A row is newer than another when its place comes first, and every place is
\* the one of a row.
LEMMA Places ==
  ASSUME ExportTypes, NEW S \in SUBSET Matching
  PROVE  /\ IsFiniteSet(S) /\ Cardinality(S) \in Nat
         /\ \A i \in S : Place(S, i) \in 0..(Cardinality(S) - 1)
         /\ \A i, k \in S : Newer(i, k) <=> Place(S, i) < Place(S, k)
         /\ \A p \in 0..(Cardinality(S) - 1) : \E i \in S : Place(S, i) = p
<1> DEFINE R == {p \in S \X S : Newer(p[1], p[2])}
<1>1. IsFiniteSet(S)
  BY MatchingRows, FS_Subset
<1>2. \A i, k \in S : <<i, k>> \in R <=> Newer(i, k)
  OBVIOUS
<1> HIDE DEF R
<1>3. Orders(R, S)
  BY <1>2, NewerOrder DEF Orders
<1>4. ASSUME NEW i \in S PROVE Rank(S, R, i) = Place(S, i)
  <2>1. {x \in S : <<x, i>> \in R} = {x \in S : Newer(x, i)}
    BY <1>2
  <2>2. QED
    BY <2>1 DEF Rank, Place
<1>5. /\ Cardinality(S) \in Nat
      /\ \A i \in S : Rank(S, R, i) \in 0..(Cardinality(S) - 1)
      /\ \A i, k \in S : <<i, k>> \in R <=> Rank(S, R, i) < Rank(S, R, k)
      /\ \A p \in 0..(Cardinality(S) - 1) : \E i \in S : Rank(S, R, i) = p
  BY <1>1, <1>3, Ranks
<1>6. QED
  BY <1>1, <1>2, <1>4, <1>5

\* A page lists the rows of the places it asks for.
LEMMA NewestLists ==
  ASSUME ExportTypes, NEW S \in SUBSET Matching, NEW first \in Nat, NEW n \in Int,
         first + n <= Cardinality(S) \/ n <= 0
  PROVE  LET page == Newest(S, first, n) IN
         /\ page \in Seq(S) /\ Len(page) = IF n > 0 THEN n ELSE 0
         /\ \A k \in 1..n : page[k] \in S /\ Place(S, page[k]) = first + k - 1
<1> DEFINE page == Newest(S, first, n)
<1>1. DOMAIN page = 1..n
  BY DEF Newest
<1>2. ASSUME NEW k \in 1..n PROVE page[k] \in S /\ Place(S, page[k]) = first + k - 1
  <2>1. Cardinality(S) \in Nat
    BY Places
  <2>2. first + k - 1 \in 0..(Cardinality(S) - 1)
    BY <2>1
  <2>3. \E i \in S : Place(S, i) = first + k - 1
    BY <2>2, Places
  <2>4. page[k] = CHOOSE i \in S : Place(S, i) = first + k - 1
    BY DEF Newest, Place
  <2>5. QED
    BY <2>3, <2>4
<1>3. CASE n > 0
  <2>1. page \in [1..n -> S]
    BY <1>2 DEF Newest
  <2>2. QED
    BY <1>2, <1>3, <2>1
<1>4. CASE n <= 0
  <2>1. 1..n = 1..0
    BY <1>4
  <2>2. page \in [1..0 -> S]
    BY <1>2, <2>1 DEF Newest
  <2>3. page \in Seq(S) /\ Len(page) = 0
    BY <2>2
  <2>4. QED
    BY <1>2, <1>4, <2>3
<1>5. QED
  BY <1>3, <1>4

-----------------------------------------------------------------------------
(* Pages.                                                                  *)

\* The types of an export.
LEMMA ExportFields ==
  ASSUME ExportTypes, NEW j \in Jobs
  PROVE  /\ written[j] \in Seq(Events) /\ Len(written[j]) \in Nat
         /\ DOMAIN written[j] = 1..Len(written[j])
         /\ cursor[j] \in [time : Nat, id : Nat, offset : Nat]
         /\ cursor[j].time \in Nat /\ cursor[j].id \in Nat /\ cursor[j].offset \in Nat
         /\ stable[j] \subseteq Events /\ Offset(j) \in Nat
         /\ Limit[j] \in Nat /\ Capacity(j) \in Nat \ {0} /\ PageSize \in Nat \ {0}
<1>1. written[j] \in Seq(Events) /\ cursor[j] \in [time : Nat, id : Nat, offset : Nat]
  BY DEF ExportTypes
<1>2. Limit[j] \in Nat /\ PageSize \in Nat \ {0}
  BY ExportAssumption
<1>3. Capacity(j) \in Nat \ {0}
  BY <1>2 DEF Capacity
<1>4. QED
  BY <1>1, <1>2, <1>3 DEF ExportTypes, Offset

\* What a page from the database may list.
Past(j) == {i \in Matching : PastCursor(i, cursor[j])}

\* A page from the database has the newest rows past the cursor.
LEMMA StorePages ==
  ASSUME ExportTypes, NEW j \in Jobs
  PROVE  /\ StorePage(j) \in Seq(Past(j))
         /\ Len(StorePage(j)) = Least(Capacity(j), Cardinality(Past(j)))
         /\ \A k \in 1..Len(StorePage(j)) :
              StorePage(j)[k] \in Past(j) /\ Place(Past(j), StorePage(j)[k]) = k - 1
<1> DEFINE n == Least(Capacity(j), Cardinality(Past(j)))
<1>1. Past(j) \in SUBSET Matching
  BY DEF Past
<1>2. Cardinality(Past(j)) \in Nat
  BY <1>1, Places
<1>3. n \in Nat /\ n <= Cardinality(Past(j))
  BY <1>2, ExportFields DEF Least
<1>4. StorePage(j) = Newest(Past(j), 0, n)
  BY DEF StorePage, Past
<1> HIDE DEF n
<1>5. /\ Newest(Past(j), 0, n) \in Seq(Past(j))
      /\ Len(Newest(Past(j), 0, n)) = IF n > 0 THEN n ELSE 0
      /\ \A k \in 1..n : /\ Newest(Past(j), 0, n)[k] \in Past(j)
                         /\ Place(Past(j), Newest(Past(j), 0, n)[k]) = 0 + k - 1
  <2>1. 0 \in Nat /\ n \in Int /\ 0 + n <= Cardinality(Past(j))
    BY <1>3
  <2>2. QED
    BY <1>1, <2>1, NewestLists
<1>6. Len(StorePage(j)) = n
  BY <1>3, <1>4, <1>5
<1>7. QED
  BY <1>3, <1>4, <1>5, <1>6 DEF n

\* A page from memory has the matching rows after the offset, and is empty only
\* when there is none or the limit is reached.
LEMMA MemoryPages ==
  ASSUME ExportTypes, NEW j \in Jobs
  PROVE  /\ MemoryPage(j) \in Seq(Matching)
         /\ \A k \in 1..Len(MemoryPage(j)) :
              /\ MemoryPage(j)[k] \in Matching
              /\ Place(Matching, MemoryPage(j)[k]) = Offset(j) + k - 1
         /\ MemoryPage(j) = <<>> => \/ Offset(j) >= Cardinality(Matching)
                                    \/ Limit[j] > 0 /\ Offset(j) >= Limit[j]
<1> DEFINE all == Cardinality(Matching)
           most == IF Limit[j] = 0 THEN all ELSE Least(Limit[j], all)
           n == Least(PageSize, most - Offset(j))
<1>1. all \in Nat
  BY Places
<1>2. Limit[j] \in Nat /\ Offset(j) \in Nat /\ PageSize \in Nat \ {0}
  BY ExportFields
<1>3. MemoryPage(j) = Newest(Matching, Offset(j), n)
  BY DEF MemoryPage
<1> HIDE DEF all
<1>4. most \in Nat /\ most <= all /\ (most = all \/ (Limit[j] > 0 /\ most = Limit[j]))
  BY <1>1, <1>2 DEF Least
<1> HIDE DEF most
<1>5. n \in Int /\ n <= most - Offset(j) /\ (n <= 0 => most <= Offset(j))
  BY <1>2, <1>4 DEF Least
<1> HIDE DEF n
<1>6. Offset(j) + n <= Cardinality(Matching)
  BY <1>1, <1>2, <1>4, <1>5 DEF all
<1>7. /\ Newest(Matching, Offset(j), n) \in Seq(Matching)
      /\ Len(Newest(Matching, Offset(j), n)) = IF n > 0 THEN n ELSE 0
      /\ \A k \in 1..n : /\ Newest(Matching, Offset(j), n)[k] \in Matching
                         /\ Place(Matching, Newest(Matching, Offset(j), n)[k])
                              = Offset(j) + k - 1
  <2>1. Matching \in SUBSET Matching /\ Offset(j) \in Nat /\ n \in Int
    BY <1>2, <1>5
  <2>2. QED
    BY <1>6, <2>1, NewestLists
<1>8. MemoryPage(j) \in Seq(Matching) /\ Len(MemoryPage(j)) = IF n > 0 THEN n ELSE 0
  BY <1>3, <1>7
<1>9. ASSUME NEW k \in 1..Len(MemoryPage(j))
      PROVE  /\ MemoryPage(j)[k] \in Matching
             /\ Place(Matching, MemoryPage(j)[k]) = Offset(j) + k - 1
  <2>1. k \in 1..n
    BY <1>5, <1>8
  <2>2. QED
    BY <1>3, <1>7, <2>1
<1>10. ASSUME MemoryPage(j) = <<>>
       PROVE  Offset(j) >= Cardinality(Matching) \/ (Limit[j] > 0 /\ Offset(j) >= Limit[j])
  <2>1. n <= 0
    BY <1>5, <1>8, <1>10
  <2>2. QED
    BY <1>1, <1>2, <1>4, <1>5, <2>1 DEF all
<1>11. QED
  BY <1>8, <1>9, <1>10

\* What a page adds to a list: the events of its rows.
EventsOf(page) == [i \in DOMAIN page |-> rows[page[i]]]

\* A list with the events of a page after it: its length, and what is at each position.
LEMMA Appended ==
  ASSUME ExportTypes, NEW page \in Seq(Matching), NEW list \in Seq(Events)
  PROVE  LET longer == list \o EventsOf(page) IN
         /\ longer \in Seq(Events) /\ Len(longer) = Len(list) + Len(page)
         /\ DOMAIN longer = 1..(Len(list) + Len(page))
         /\ \A k \in 1..Len(list) : longer[k] = list[k]
         /\ \A k \in 1..Len(page) : longer[Len(list) + k] = rows[page[k]]
         /\ ToSet(longer) = ToSet(list) \cup {rows[page[k]] : k \in 1..Len(page)}
<1> DEFINE longer == list \o EventsOf(page)
<1>1. DOMAIN page = 1..Len(page) /\ Len(page) \in Nat /\ Len(list) \in Nat
  OBVIOUS
<1>2. \A k \in 1..Len(page) : page[k] \in Matching /\ rows[page[k]] \in Events
  BY <1>1, MatchingRows
<1>3. /\ EventsOf(page) \in Seq(Events) /\ Len(EventsOf(page)) = Len(page)
      /\ \A k \in 1..Len(page) : EventsOf(page)[k] = rows[page[k]]
  <2>1. EventsOf(page) \in [1..Len(page) -> Events]
    BY <1>1, <1>2 DEF EventsOf
  <2>2. EventsOf(page) \in Seq(Events) /\ DOMAIN EventsOf(page) = 1..Len(page)
    BY <1>1, <2>1
  <2>3. \A k \in 1..Len(page) : EventsOf(page)[k] = rows[page[k]]
    BY <1>1 DEF EventsOf
  <2>4. QED
    BY <1>1, <2>2, <2>3
<1>4. /\ longer \in Seq(Events) /\ Len(longer) = Len(list) + Len(page)
      /\ \A k \in 1..(Len(list) + Len(page)) :
           longer[k] = IF k <= Len(list) THEN list[k] ELSE EventsOf(page)[k - Len(list)]
  <2>1. EventsOf(page) \in Seq(Events) /\ Len(EventsOf(page)) = Len(page)
    BY <1>3
  <2>2. QED
    BY <1>1, <2>1
<1> HIDE DEF longer
<1>5. DOMAIN longer = 1..(Len(list) + Len(page))
  BY <1>1, <1>4
<1>6. \A k \in 1..Len(list) : longer[k] = list[k]
  BY <1>1, <1>4
<1>7. \A k \in 1..Len(page) : longer[Len(list) + k] = rows[page[k]]
  <2>1. ASSUME NEW k \in 1..Len(page) PROVE longer[Len(list) + k] = rows[page[k]]
    <3>1. Len(list) + k \in 1..(Len(list) + Len(page)) /\ ~(Len(list) + k <= Len(list))
          /\ (Len(list) + k) - Len(list) = k
      BY <1>1
    <3>2. longer[Len(list) + k] = EventsOf(page)[k]
      BY <1>4, <3>1
    <3>3. QED
      BY <1>3, <3>2
  <2>2. QED
    BY <2>1
<1>8. ToSet(longer) = ToSet(list) \cup {rows[page[k]] : k \in 1..Len(page)}
  <2>1. ASSUME NEW e \in ToSet(longer)
        PROVE  e \in ToSet(list) \cup {rows[page[k]] : k \in 1..Len(page)}
    <3>1. PICK m \in 1..(Len(list) + Len(page)) : longer[m] = e
      BY <1>5 DEF ToSet
    <3>2. CASE m <= Len(list)
      <4>1. m \in 1..Len(list)
        BY <1>1, <3>2
      <4>2. QED
        BY <1>6, <3>1, <4>1 DEF ToSet
    <3>3. CASE m > Len(list)
      <4>1. m - Len(list) \in 1..Len(page) /\ Len(list) + (m - Len(list)) = m
        BY <1>1, <3>3
      <4>2. longer[m] = rows[page[m - Len(list)]]
        BY <1>7, <4>1
      <4>3. QED
        BY <3>1, <4>1, <4>2
    <3>4. QED
      BY <1>1, <3>2, <3>3
  <2>2. ASSUME NEW e \in ToSet(list) PROVE e \in ToSet(longer)
    <3>1. PICK m \in 1..Len(list) : list[m] = e
      BY DEF ToSet
    <3>2. m \in DOMAIN longer /\ longer[m] = e
      BY <1>1, <1>5, <1>6, <3>1
    <3>3. QED
      BY <3>2 DEF ToSet
  <2>3. ASSUME NEW k \in 1..Len(page) PROVE rows[page[k]] \in ToSet(longer)
    <3>1. Len(list) + k \in DOMAIN longer
      BY <1>1, <1>5
    <3>2. QED
      BY <1>7, <3>1 DEF ToSet
  <2>4. QED
    BY <2>1, <2>2, <2>3
<1>9. QED
  BY <1>4, <1>5, <1>6, <1>7, <1>8 DEF longer

-----------------------------------------------------------------------------
(* One page more.                                                          *)

\* The row of an event that is past the cursor of an export is older than what
\* the export has written.
LEMMA PastIsOlder ==
  ASSUME ExportTypes, NEW j \in Jobs, cursor[j] = NoCursor => written[j] = <<>>,
         database, Follows(cursor[j], written[j], stable[j]), NEW i \in Past(j)
  PROVE  /\ i \in Matching /\ rows[i] \notin ToSet(written[j])
         /\ \A w \in ToSet(written[j]) : Time[w] \in Nat /\ Time[w] >= TimeOf(i)
<1>1. i \in Matching /\ PastCursor(i, cursor[j]) /\ i \in DOMAIN rows
  BY DEF Past, Matching
<1>2. TimeOf(i) \in Nat
  BY <1>1, MatchingRows
<1>3. ToSet(written[j]) \subseteq Events
  BY ExportFields DEF ToSet
<1>4. \A w \in ToSet(written[j]) : Time[w] \in Nat
  BY <1>3, ExportAssumption
<1>5. CASE cursor[j] = NoCursor
  <2>1. ToSet(written[j]) = {}
    BY <1>5 DEF ToSet
  <2>2. QED
    BY <1>1, <2>1
<1>6. CASE cursor[j] # NoCursor
  <2>1. ByCursor(cursor[j], written[j], stable[j])
    BY <1>6 DEF Follows
  <2>2. rows[i] \notin ToSet(written[j])
    BY <1>1, <2>1 DEF ByCursor
  <2>3. cursor[j].id # 0 /\ cursor[j].time \in Nat
    BY <2>1, ExportFields, MatchingRows DEF ByCursor
  <2>4. TimeOf(i) <= cursor[j].time
    BY <1>1, <1>2, <2>3 DEF PastCursor
  <2>5. \A w \in ToSet(written[j]) : Time[w] >= cursor[j].time
    BY <2>1 DEF ByCursor
  <2>6. QED
    BY <1>1, <1>2, <1>4, <2>2, <2>3, <2>4, <2>5
<1>7. QED
  BY <1>5, <1>6

\* Positions in the second part of a list.
LEMMA SecondPart ==
  ASSUME NEW x \in Nat, NEW y \in Nat, NEW p \in Nat, NEW q \in Nat,
         p > x, p < q, q <= x + y
  PROVE  /\ p - x \in 1..y /\ q - x \in 1..y /\ p - x < q - x
         /\ x + (p - x) = p /\ x + (q - x) = q
  OBVIOUS

\* A page has rows of S, from a place on.
Pages(page, S, first) ==
  /\ page \in Seq(S)
  /\ \A k \in 1..Len(page) : page[k] \in S /\ Place(S, page[k]) = first + k - 1

\* None of its rows is written, and none is newer than what is written.
Behind(page, W) ==
  \A k \in 1..Len(page) :
    rows[page[k]] \notin ToSet(W) /\ \A w \in ToSet(W) : Time[w] >= TimeOf(page[k])

\* A list of rows whose places follow each other makes a longer list as ordered
\* as the list was.
LEMMA OrderKept ==
  ASSUME ExportTypes, OneRow, NEW S \in SUBSET Matching, NEW page, NEW first \in Nat,
         Pages(page, S, first), NEW W \in Seq(Events), Ordered(W), Behind(page, W)
  PROVE  Ordered(W \o EventsOf(page))
<1> DEFINE W1 == W \o EventsOf(page)
<1>1. page \in Seq(Matching) /\ Len(page) \in Nat /\ Len(W) \in Nat /\ DOMAIN W = 1..Len(W)
      /\ \A k \in 1..Len(page) : page[k] \in S /\ page[k] \in Matching
  BY DEF Pages
<1>2. /\ DOMAIN W1 = 1..(Len(W) + Len(page))
      /\ \A k \in 1..Len(W) : W1[k] = W[k]
      /\ \A k \in 1..Len(page) : W1[Len(W) + k] = rows[page[k]]
  BY <1>1, Appended
<1> HIDE DEF W1
<1>3. SUFFICES ASSUME NEW m \in DOMAIN W1, NEW n \in DOMAIN W1, m < n
               PROVE  W1[m] # W1[n] /\ Time[W1[m]] >= Time[W1[n]]
  BY DEF Ordered, W1
<1>4. m \in Nat /\ n \in Nat /\ 1 <= m /\ n <= Len(W) + Len(page)
  BY <1>1, <1>2
<1>5. CASE n <= Len(W)
  <2>1. m \in 1..Len(W) /\ n \in 1..Len(W)
    BY <1>1, <1>3, <1>4, <1>5
  <2>2. QED
    BY <1>1, <1>2, <1>3, <2>1 DEF Ordered
<1>6. CASE m <= Len(W) /\ n > Len(W)
  <2>1. m \in 1..Len(W) /\ n - Len(W) \in 1..Len(page) /\ Len(W) + (n - Len(W)) = n
    BY <1>1, <1>3, <1>4, <1>6
  <2>2. W1[m] = W[m] /\ W1[n] = rows[page[n - Len(W)]]
    BY <1>2, <2>1
  <2>3. W[m] \in ToSet(W)
    BY <1>1, <2>1 DEF ToSet
  <2>4. QED
    BY <2>1, <2>2, <2>3 DEF Behind, TimeOf
<1>7. CASE m > Len(W)
  <2> DEFINE a == m - Len(W)
             b == n - Len(W)
  <2>1. a \in 1..Len(page) /\ b \in 1..Len(page) /\ a < b
        /\ Len(W) + a = m /\ Len(W) + b = n
    <3>1. Len(W) \in Nat /\ Len(page) \in Nat
      BY <1>1
    <3>2. m > Len(W) /\ m < n /\ n <= Len(W) + Len(page)
      BY <1>3, <1>4, <1>7
    <3>3. QED
      BY <1>4, <3>1, <3>2, SecondPart
  <2>2. W1[m] = rows[page[a]] /\ W1[n] = rows[page[b]]
    BY <1>2, <2>1
  <2> HIDE DEF a, b
  <2>3. Place(S, page[a]) < Place(S, page[b])
    BY <2>1 DEF Pages
  <2>4. Newer(page[a], page[b])
    BY <1>1, <2>1, <2>3, Places
  <2>5. page[a] # page[b]
    BY <1>1, <2>1, <2>4, NewerOrder
  <2>6. rows[page[a]] # rows[page[b]]
    BY <1>1, <2>1, <2>5 DEF OneRow, Matching
  <2>7. TimeOf(page[a]) >= TimeOf(page[b])
    <3>1. TimeOf(page[a]) \in Nat /\ TimeOf(page[b]) \in Nat
      BY <1>1, <2>1, MatchingRows
    <3>2. QED
      BY <2>4, <3>1 DEF Newer
  <2>8. QED
    BY <2>2, <2>6, <2>7 DEF TimeOf
<1>8. QED
  BY <1>1, <1>3, <1>4, <1>5, <1>6, <1>7

\* A place is the one of a row of the page, or comes after all of them.
LEMMA OnPageOrAfter ==
  ASSUME ExportTypes, NEW S \in SUBSET Matching, NEW page, NEW first \in Nat,
         Pages(page, S, first), NEW i \in S, Place(S, i) >= first
  PROVE  \/ \E k \in 1..Len(page) : i = page[k]
         \/ /\ Place(S, i) >= first + Len(page)
            /\ \A k \in 1..Len(page) : Newer(page[k], i)
<1>1. Place(S, i) \in Nat /\ Len(page) \in Nat /\ \A k \in 1..Len(page) : page[k] \in S
  <2>1. Len(page) \in Nat /\ \A k \in 1..Len(page) : page[k] \in S
    BY DEF Pages
  <2>2. Cardinality(S) \in Nat /\ Place(S, i) \in 0..(Cardinality(S) - 1)
    BY Places
  <2>3. QED
    BY <2>1, <2>2
<1>2. CASE Place(S, i) < first + Len(page)
  <2> DEFINE k == Place(S, i) - first + 1
  <2>1. k \in 1..Len(page) /\ first + k - 1 = Place(S, i)
    BY <1>1, <1>2
  <2> HIDE DEF k
  <2>2. Place(S, page[k]) = Place(S, i) /\ page[k] \in S
    BY <1>1, <2>1 DEF Pages
  <2>3. ~Newer(page[k], i) /\ ~Newer(i, page[k])
    <3>1. \A x, y \in S : Newer(x, y) <=> Place(S, x) < Place(S, y)
      BY Places
    <3>2. QED
      BY <1>1, <2>2, <3>1
  <2>4. i = page[k]
    BY <2>2, <2>3, NewerOrder
  <2>5. QED
    BY <2>1, <2>4
<1>3. CASE Place(S, i) >= first + Len(page)
  <2>1. ASSUME NEW k \in 1..Len(page) PROVE Newer(page[k], i)
    <3>1. Place(S, page[k]) = first + k - 1
      BY DEF Pages
    <3>2. Place(S, page[k]) < Place(S, i)
      BY <1>1, <1>3, <3>1
    <3>3. QED
      BY <1>1, <3>2, Places
  <2>2. QED
    BY <1>3, <2>1
<1>4. QED
  BY <1>1, <1>2, <1>3

\* What a page makes of an export.
Wrote(j, page) == written[j] \o EventsOf(page)
After(j, page) == IF page = <<>> THEN cursor[j] ELSE CursorAfter(j, page)
Wanted(j) == IF cursor[j] = NoCursor THEN {rows[i] : i \in Matching} ELSE stable[j]

\* The longer list: what was written, followed by the events of the page's rows.
Longer(W1, W, page) ==
  /\ W1 \in Seq(Events)
  /\ Len(page) \in Nat /\ Len(W1) = Len(W) + Len(page)
  /\ \A k \in 1..Len(W) : W1[k] = W[k]
  /\ \A k \in 1..Len(page) : W1[Len(W) + k] = rows[page[k]]
  /\ ToSet(W1) = ToSet(W) \cup {rows[page[k]] : k \in 1..Len(page)}
  /\ page = <<>> <=> Len(page) = 0

\* Writing a page makes what a job wrote longer by the rows of that page.
LEMMA WroteIs ==
  ASSUME ExportTypes, NEW j \in Jobs, NEW S \in SUBSET Matching, NEW page, NEW first \in Nat,
         Pages(page, S, first)
  PROVE  Longer(Wrote(j, page), written[j], page)
<1>1. page \in Seq(Matching) /\ Len(page) \in Nat /\ (page = <<>> <=> Len(page) = 0)
  BY DEF Pages
<1>2. written[j] \in Seq(Events)
  BY ExportFields
<1>3. QED
  BY <1>1, <1>2, Appended DEF Wrote, Longer

\* A page from the database: the export still follows its cursor, and has all
\* that it wants when the page ends it.
LEMMA StoreFollows ==
  ASSUME ExportTypes, OneRow, NEW j \in Jobs, Progress(j), j \notin disturbed, database
  PROVE  LET page == StorePage(j) IN
         /\ Ordered(Wrote(j, page)) /\ Follows(After(j, page), Wrote(j, page), Wanted(j))
         /\ Stops(j, page) => Complete(j, Wrote(j, page), Wanted(j))
<1> DEFINE page == StorePage(j)
           n == Len(page)
           W == written[j]
           W1 == Wrote(j, page)
           C == cursor[j]
           C1 == After(j, page)
<1>1. /\ C = NoCursor => W = <<>> /\ stable[j] = {}
      /\ Ordered(W) /\ Follows(C, W, stable[j])
  BY DEF Progress
<1>2. Past(j) \in SUBSET Matching /\ Pages(page, Past(j), 0) /\ n \in Nat
  <2>1. Past(j) \in SUBSET Matching
    BY DEF Past
  <2>2. \A k \in 1..n : k - 1 = 0 + k - 1
    BY StorePages
  <2>3. QED
    BY <2>1, <2>2, StorePages DEF Pages
<1>3. \A i \in Past(j) : /\ i \in Matching /\ rows[i] \notin ToSet(W)
                         /\ \A w \in ToSet(W) : Time[w] \in Nat /\ Time[w] >= TimeOf(i)
  BY <1>1, PastIsOlder
<1>4. /\ W1 \in Seq(Events) /\ Len(W1) = Len(W) + n
      /\ ToSet(W1) = ToSet(W) \cup {rows[page[k]] : k \in 1..n}
      /\ page = <<>> <=> n = 0
  <2>1. 0 \in Nat
    OBVIOUS
  <2>2. Longer(W1, W, page)
    BY <1>2, <2>1, WroteIs
  <2> HIDE DEF page, W, W1
  <2>3. QED
    BY <2>2 DEF Longer
<1>5. \A k \in 1..n : page[k] \in Past(j)
  BY <1>2 DEF Pages
<1>6. Ordered(W1)
  <2>1. Behind(page, W)
    BY <1>3, <1>5 DEF Behind
  <2>2. W \in Seq(Events) /\ 0 \in Nat
    BY ExportFields
  <2>3. QED
    BY <1>1, <1>2, <2>1, <2>2, OrderKept DEF Wrote
<1>7. n = 0 => Past(j) = {}
  <2>1. n = Least(Capacity(j), Cardinality(Past(j))) /\ Capacity(j) \in Nat \ {0}
    BY StorePages, ExportFields
  <2>2. Cardinality(Past(j)) \in Nat /\ IsFiniteSet(Past(j))
    BY <1>2, Places
  <2>3. n = 0 => Cardinality(Past(j)) = 0
    BY <2>1, <2>2 DEF Least
  <2>4. QED
    BY <2>2, <2>3, FS_EmptySet
<1>8. ASSUME NEW i \in Past(j)
      PROVE  \/ \E k \in 1..n : i = page[k]
             \/ n > 0 /\ \A k \in 1..n : Newer(page[k], i)
  <2>1. Place(Past(j), i) >= 0
    <3>1. Cardinality(Past(j)) \in Nat /\ Place(Past(j), i) \in 0..(Cardinality(Past(j)) - 1)
      BY <1>2, Places
    <3>2. QED
      BY <3>1
  <2>2. n > 0
    BY <1>2, <1>7
  <2>3. QED
    BY <1>2, <2>1, <2>2, OnPageOrAfter
<1>9. ASSUME NEW e \in Wanted(j) \ ToSet(W) PROVE \E i \in Past(j) : rows[i] = e
  <2>1. CASE C = NoCursor
    <3>1. PICK i \in Matching : rows[i] = e
      BY <1>9, <2>1 DEF Wanted
    <3>2. i \in Past(j)
      BY <2>1 DEF Past, PastCursor, NoCursor
    <3>3. QED
      BY <3>1, <3>2
  <2>2. CASE C # NoCursor
    <3>1. ByCursor(C, W, stable[j]) /\ e \in stable[j] \ ToSet(W)
      BY <1>1, <1>9, <2>2 DEF Follows, Wanted
    <3>2. QED
      BY <3>1 DEF ByCursor, Past
  <2>3. QED
    BY <2>1, <2>2
<1> HIDE DEF page, n, W, W1, C, C1
<1>10. CASE n = 0
  <2>1. ToSet(W1) = ToSet(W) /\ C1 = C
    <3>1. 1..n = {}
      BY <1>10
    <3>2. QED
      BY <1>4, <1>10, <3>1 DEF C1, C, After
  <2>2. Wanted(j) \subseteq ToSet(W)
    BY <1>7, <1>9, <1>10
  <2>3. Complete(j, W1, Wanted(j))
    BY <2>1, <2>2 DEF Complete
  <2>4. ASSUME C # NoCursor PROVE ByCursor(C1, W1, Wanted(j))
    <3>1. ByCursor(C, W, stable[j])
      BY <1>1, <2>4 DEF Follows
    <3>2. QED
      BY <2>1, <2>2, <3>1 DEF ByCursor
  <2>5. Follows(C1, W1, Wanted(j))
    BY <2>1, <2>4 DEF Follows
  <2>6. QED
    BY <1>6, <2>3, <2>5 DEF page, W1, C1
<1>11. CASE n > 0
  <2> DEFINE last == page[n]
  <2>1. last \in Past(j) /\ last \in Matching /\ n \in 1..n
    BY <1>2, <1>3, <1>5, <1>11
  <2>2. C1 = [time |-> TimeOf(last), id |-> last, offset |-> 0]
    <3>1. page # <<>>
      BY <1>4, <1>11
    <3>2. Last(page) = page[n]
      BY DEF Last, n
    <3>3. QED
      BY <3>1, <3>2 DEF C1, After, CursorAfter
  <2>3. last \in 1..Len(rows) /\ last \in Nat /\ last # 0 /\ TimeOf(last) \in Nat
        /\ Len(rows) \in Nat
    BY <2>1, MatchingRows
  <2> HIDE DEF last
  <2>4. C1.id = last /\ C1.time = TimeOf(last) /\ C1.id # 0
    BY <2>2, <2>3
  <2>5. \A k \in 1..n : page[k] = last \/ Newer(page[k], last)
    <3>1. ASSUME NEW k \in 1..n, k # n PROVE Newer(page[k], last)
      <4>1. Place(Past(j), page[k]) = 0 + k - 1 /\ Place(Past(j), last) = 0 + n - 1
        BY <1>2, <2>1 DEF Pages, last, n
      <4>2. k < n
        BY <1>2, <3>1
      <4>3. Place(Past(j), page[k]) < Place(Past(j), last)
        BY <1>2, <4>1, <4>2
      <4>4. QED
        BY <1>2, <1>5, <2>1, <4>3, Places
    <3>2. QED
      BY <3>1 DEF last
  <2>6. ASSUME NEW e \in ToSet(W1) PROVE Time[e] >= C1.time
    <3>1. CASE e \in ToSet(W)
      BY <1>3, <2>1, <2>4, <3>1
    <3>2. ASSUME NEW k \in 1..n, e = rows[page[k]] PROVE Time[e] >= C1.time
      <4>1. page[k] \in Matching
        BY <1>3, <1>5
      <4>2. TimeOf(page[k]) \in Nat /\ TimeOf(page[k]) >= TimeOf(last)
        BY <2>3, <2>5, <4>1, MatchingRows DEF Newer
      <4>3. QED
        BY <2>4, <3>2, <4>2 DEF TimeOf
    <3>3. QED
      BY <1>4, <3>1, <3>2
  <2>7. ASSUME NEW i \in DOMAIN rows, rows[i] \in ToSet(W1) PROVE ~PastCursor(i, C1)
    <3>1. rows[i] \in Events /\ TimeOf(i) \in Nat /\ i \in Nat
      <4>1. ToSet(W1) \subseteq Events
        BY <1>4 DEF ToSet
      <4>2. rows[i] \in Events
        BY <2>7, <4>1
      <4>3. TimeOf(i) \in Nat
        BY <4>2, ExportAssumption DEF TimeOf
      <4>4. i \in Nat
        BY DEF ExportTypes
      <4>5. QED
        BY <4>2, <4>3, <4>4
    <3>2. CASE rows[i] \in ToSet(W)
      <4>1. C # NoCursor
        BY <1>1, <3>2 DEF ToSet
      <4>2. ByCursor(C, W, stable[j])
        BY <1>1, <4>1 DEF Follows
      <4>3. ~PastCursor(i, C) /\ C.id \in Nat /\ C.id # 0 /\ C.time \in Nat
        BY <2>3, <3>2, <4>2, ExportFields DEF ByCursor, C
      <4>4. PastCursor(last, C)
        BY <2>1 DEF Past, C
      <4>5. QED
        BY <2>3, <2>4, <3>1, <4>3, <4>4 DEF PastCursor
    <3>3. ASSUME NEW k \in 1..n, rows[i] = rows[page[k]] PROVE ~PastCursor(i, C1)
      <4>1. page[k] \in Matching /\ page[k] \in DOMAIN rows /\ rows[page[k]] # None
        BY <1>3, <1>5 DEF Matching
      <4>2. i = page[k]
        BY <3>3, <4>1 DEF OneRow
      <4>3. i = last \/ Newer(i, last)
        BY <2>5, <4>2
      <4>4. QED
        BY <2>3, <2>4, <3>1, <4>3 DEF PastCursor, Newer
    <3>4. QED
      BY <1>4, <2>7, <3>2, <3>3
  <2>8. ASSUME NEW e \in Wanted(j) \ ToSet(W1)
        PROVE  \E i \in Matching : rows[i] = e /\ PastCursor(i, C1)
    <3>1. PICK i \in Past(j) : rows[i] = e
      BY <1>4, <1>9, <2>8
    <3>2. ~\E k \in 1..n : i = page[k]
      BY <1>4, <2>8, <3>1
    <3>3. Newer(last, i) /\ i \in Matching
      BY <1>3, <1>8, <2>1, <3>1, <3>2 DEF last
    <3>4. TimeOf(i) \in Nat
      BY <3>3, MatchingRows
    <3>5. PastCursor(i, C1)
      BY <2>3, <2>4, <3>3, <3>4 DEF PastCursor, Newer
    <3>6. QED
      BY <3>1, <3>3, <3>5
  <2>9. ByCursor(C1, W1, Wanted(j))
    BY <2>3, <2>4, <2>6, <2>7, <2>8 DEF ByCursor
  <2>10. Follows(C1, W1, Wanted(j))
    BY <2>9 DEF Follows
  <2>11. ASSUME Stops(j, page) PROVE Complete(j, W1, Wanted(j))
    <3>1. Limit[j] > 0 /\ Len(W1) >= Limit[j]
      BY <1>4, <1>11, <2>11 DEF Stops, W, n
    <3>2. ASSUME NEW e \in Wanted(j) \ ToSet(W1), NEW w \in ToSet(W1)
          PROVE  Time[w] >= Time[e]
      <4>1. PICK i \in Matching : rows[i] = e /\ PastCursor(i, C1)
        BY <2>8
      <4>2. TimeOf(i) \in Nat /\ Time[e] = TimeOf(i)
        BY <4>1, MatchingRows DEF TimeOf
      <4>3. TimeOf(i) <= TimeOf(last)
        BY <2>3, <2>4, <4>1, <4>2 DEF PastCursor
      <4>4. Time[w] \in Nat
        <5>1. w \in Events
          BY <1>4 DEF ToSet
        <5>2. QED
          BY <5>1, ExportAssumption
      <4>5. QED
        BY <2>3, <2>4, <2>6, <4>2, <4>3, <4>4
    <3>3. QED
      BY <3>1, <3>2 DEF Complete
  <2>12. QED
    BY <1>6, <2>10, <2>11 DEF page, W1, C1
<1>12. QED
  BY <1>2, <1>10, <1>11

\* Behind the events that are written from memory, all are older.
LEMMA BeyondIsOlder ==
  ASSUME ExportTypes, OneRow, NEW W \in Seq(Events), Leads(W),
         NEW i \in Matching, Place(Matching, i) >= Len(W)
  PROVE  rows[i] \notin ToSet(W) /\ \A w \in ToSet(W) : Time[w] >= TimeOf(i)
<1>1. SUFFICES ASSUME NEW m \in 1..Len(W)
               PROVE  rows[i] # W[m] /\ Time[W[m]] >= TimeOf(i)
  BY DEF ToSet
<1>2. Len(W) \in Nat /\ Matching \in SUBSET Matching
  OBVIOUS
<1>3. /\ Cardinality(Matching) \in Nat
      /\ Place(Matching, i) \in 0..(Cardinality(Matching) - 1)
      /\ \A r, s \in Matching : Newer(r, s) <=> Place(Matching, r) < Place(Matching, s)
      /\ \A p \in 0..(Cardinality(Matching) - 1) : \E r \in Matching : Place(Matching, r) = p
  BY <1>2, Places
<1>4. m - 1 \in 0..(Cardinality(Matching) - 1) /\ m - 1 < Place(Matching, i) /\ (m - 1) + 1 = m
      /\ m - 1 < Len(W)
  BY <1>2, <1>3
<1>5. PICK r \in Matching : Place(Matching, r) = m - 1
  BY <1>3, <1>4
<1>6. rows[r] = W[m]
  BY <1>4, <1>5 DEF Leads
<1>7. Newer(r, i)
  BY <1>3, <1>4, <1>5
<1>8. r # i
  BY <1>7, NewerOrder
<1>9. rows[r] # rows[i]
  BY <1>8 DEF OneRow, Matching
<1>10. TimeOf(r) >= TimeOf(i)
  <2>1. TimeOf(r) \in Nat /\ TimeOf(i) \in Nat
    BY MatchingRows
  <2>2. QED
    BY <1>7, <2>1 DEF Newer
<1>11. QED
  BY <1>6, <1>9, <1>10 DEF TimeOf

\* A page from memory: the export still follows its offset, and has all that
\* it wants when the page ends it.
LEMMA MemoryFollows ==
  ASSUME ExportTypes, OneRow, NEW j \in Jobs, Progress(j), j \notin disturbed, ~database
  PROVE  LET page == MemoryPage(j) IN
         /\ Ordered(Wrote(j, page)) /\ Follows(After(j, page), Wrote(j, page), Wanted(j))
         /\ Stops(j, page) => Complete(j, Wrote(j, page), Wanted(j))
<1> DEFINE page == MemoryPage(j)
           n == Len(page)
           W == written[j]
           W1 == Wrote(j, page)
           C == cursor[j]
           C1 == After(j, page)
<1>1. /\ C = NoCursor => W = <<>> /\ stable[j] = {}
      /\ Ordered(W) /\ (C # NoCursor => ByOffset(C, W, stable[j]))
  BY DEF Progress, Follows
<1>2. W \in Seq(Events) /\ Len(W) \in Nat /\ Matching \in SUBSET Matching
  BY ExportFields
<1>3. C.id = 0 /\ C.offset = Len(W) /\ Leads(W) /\ Offset(j) = Len(W)
  <2>1. CASE C = NoCursor
    <3>1. Len(W) = 0 /\ C.id = 0 /\ C.offset = 0
      BY <1>1, <2>1 DEF NoCursor
    <3>2. \A i \in Matching : ~(Place(Matching, i) < 0)
      <4>1. /\ Cardinality(Matching) \in Nat
            /\ \A i \in Matching : Place(Matching, i) \in 0..(Cardinality(Matching) - 1)
        BY <1>2, Places
      <4>2. QED
        BY <4>1
    <3>3. QED
      BY <3>1, <3>2 DEF Leads, Offset
  <2>2. CASE C # NoCursor
    BY <1>1, <2>2 DEF ByOffset, Offset
  <2>3. QED
    BY <2>1, <2>2
<1>4. Pages(page, Matching, Len(W)) /\ n \in Nat
      /\ (page = <<>> => \/ Len(W) >= Cardinality(Matching)
                         \/ Limit[j] > 0 /\ Len(W) >= Limit[j])
  <2>1. Pages(page, Matching, Offset(j))
    BY MemoryPages DEF Pages
  <2>2. page = <<>> => \/ Offset(j) >= Cardinality(Matching)
                       \/ Limit[j] > 0 /\ Offset(j) >= Limit[j]
    BY MemoryPages
  <2>3. n \in Nat
    BY <2>1 DEF Pages
  <2>4. QED
    BY <1>3, <2>1, <2>2, <2>3
<1>5. Longer(W1, W, page)
  BY <1>2, <1>4, WroteIs
<1>6. \A k \in 1..n : page[k] \in Matching /\ Place(Matching, page[k]) = Len(W) + k - 1
  BY <1>4 DEF Pages
<1>7. \A e \in Wanted(j) : \E i \in Matching : rows[i] = e
  BY <1>1 DEF Wanted, ByOffset
<1> HIDE DEF page, W, W1, C, C1
<1>8. /\ W1 \in Seq(Events) /\ Len(W1) = Len(W) + n /\ (page = <<>> <=> n = 0)
      /\ \A k \in 1..Len(W) : W1[k] = W[k]
      /\ \A k \in 1..n : W1[Len(W) + k] = rows[page[k]]
  BY <1>5 DEF Longer
<1>9. Ordered(W1)
  <2>1. ASSUME NEW k \in 1..n
        PROVE  rows[page[k]] \notin ToSet(W) /\ \A w \in ToSet(W) : Time[w] >= TimeOf(page[k])
    <3>1. page[k] \in Matching /\ Place(Matching, page[k]) >= Len(W)
      BY <1>2, <1>6
    <3>2. QED
      BY <1>2, <1>3, <3>1, BeyondIsOlder
  <2>2. Behind(page, W)
    BY <2>1 DEF Behind
  <2>3. QED
    BY <1>1, <1>2, <1>4, <2>2, OrderKept DEF Wrote, W1, W
<1>10. Leads(W1)
  <2>1. ASSUME NEW i \in Matching, Place(Matching, i) < Len(W1)
        PROVE  rows[i] = W1[Place(Matching, i) + 1]
    <3>1. Place(Matching, i) \in Nat
      <4>1. /\ Cardinality(Matching) \in Nat
            /\ Place(Matching, i) \in 0..(Cardinality(Matching) - 1)
        BY <1>2, Places
      <4>2. QED
        BY <4>1
    <3>2. CASE Place(Matching, i) < Len(W)
      <4>1. Place(Matching, i) + 1 \in 1..Len(W)
        BY <1>2, <3>1, <3>2
      <4>2. QED
        BY <1>3, <1>8, <3>2, <4>1 DEF Leads
    <3>3. CASE Place(Matching, i) >= Len(W)
      <4>1. ~(Place(Matching, i) >= Len(W) + n)
        BY <1>2, <1>4, <1>8, <2>1, <3>1
      <4>2. PICK k \in 1..n : i = page[k]
        BY <1>2, <1>4, <3>3, <4>1, OnPageOrAfter
      <4>3. Place(Matching, i) + 1 = Len(W) + k
        BY <1>2, <1>6, <3>1, <4>2
      <4>4. QED
        BY <1>8, <4>2, <4>3
    <3>4. QED
      BY <1>2, <3>1, <3>2, <3>3
  <2>2. QED
    BY <2>1 DEF Leads
<1>11. C1.id = 0 /\ C1.offset = Len(W1)
  <2>1. CASE page = <<>>
    BY <1>2, <1>3, <1>8, <2>1 DEF C1, C, After
  <2>2. CASE page # <<>>
    <3>1. C1 = [NoCursor EXCEPT !.offset = Len(W) + n]
      BY <1>3, <2>2 DEF C1, After, CursorAfter
    <3>2. QED
      BY <1>8, <3>1 DEF NoCursor
  <2>3. QED
    BY <2>1, <2>2
<1>12. Follows(C1, W1, Wanted(j))
  BY <1>7, <1>10, <1>11 DEF Follows, ByOffset
<1>13. ASSUME Stops(j, page), NEW e \in Wanted(j) \ ToSet(W1)
       PROVE  /\ Limit[j] > 0 /\ Len(W1) >= Limit[j]
              /\ \A w \in ToSet(W1) : Time[w] >= Time[e]
  <2>1. PICK i \in Matching : rows[i] = e
    BY <1>7, <1>13
  <2>2. /\ Cardinality(Matching) \in Nat
        /\ Place(Matching, i) \in 0..(Cardinality(Matching) - 1)
    BY <1>2, Places
  <2>3. Len(W1) \in Nat /\ DOMAIN W1 = 1..Len(W1)
    BY <1>8
  <2>4. ~(Place(Matching, i) < Len(W1))
    <3>1. ASSUME Place(Matching, i) < Len(W1) PROVE FALSE
      <4>1. Place(Matching, i) + 1 \in DOMAIN W1
        BY <2>2, <2>3, <3>1
      <4>2. rows[i] \in ToSet(W1)
        BY <1>10, <3>1, <4>1 DEF Leads, ToSet
      <4>3. QED
        BY <1>13, <2>1, <4>2
    <3>2. QED
      BY <3>1
  <2>5. Place(Matching, i) >= Len(W1)
    BY <2>2, <2>3, <2>4
  <2>6. \A w \in ToSet(W1) : Time[w] >= TimeOf(i)
    BY <1>8, <1>10, <2>5, BeyondIsOlder
  <2>7. Limit[j] > 0 /\ Len(W1) >= Limit[j]
    <3>1. CASE page = <<>>
      <4>1. Len(W1) = Len(W)
        BY <1>2, <1>8, <3>1
      <4>2. ~(Len(W) >= Cardinality(Matching))
        BY <2>2, <2>3, <2>5, <4>1
      <4>3. QED
        BY <1>4, <3>1, <4>1, <4>2
    <3>2. CASE page # <<>>
      BY <1>8, <1>13, <3>2 DEF Stops, W
    <3>3. QED
      BY <3>1, <3>2
  <2>8. QED
    BY <2>1, <2>6, <2>7 DEF TimeOf
<1>14. Stops(j, page) => Complete(j, W1, Wanted(j))
  BY <1>13 DEF Complete
<1>15. QED
  BY <1>9, <1>12, <1>14 DEF page, W1, C1

-----------------------------------------------------------------------------
(* Every step.                                                             *)

\* The page that a job reads.
PageOf(j) == IF database THEN StorePage(j) ELSE MemoryPage(j)

\* It lists matching rows, and none only when there is none to start with or the
\* export has some already.
LEMMA PageIs ==
  ASSUME ExportTypes, NEW j \in Jobs
  PROVE  \E S \in SUBSET Matching : \E first \in Nat :
           /\ Pages(PageOf(j), S, first)
           /\ PageOf(j) = <<>> /\ cursor[j] = NoCursor => Matching = {}
<1>1. CASE database
  <2>1. Past(j) \in SUBSET Matching /\ 0 \in Nat
    BY DEF Past
  <2>2. \A k \in 1..Len(StorePage(j)) : k - 1 = 0 + k - 1
    BY StorePages
  <2>3. Pages(StorePage(j), Past(j), 0)
    BY <2>2, StorePages DEF Pages
  <2>4. ASSUME StorePage(j) = <<>>, cursor[j] = NoCursor PROVE Matching = {}
    <3>1. Past(j) = Matching
      BY <2>4 DEF Past, PastCursor, NoCursor
    <3>2. Least(Capacity(j), Cardinality(Matching)) = 0 /\ Capacity(j) \in Nat \ {0}
      BY <2>4, <3>1, StorePages, ExportFields
    <3>3. IsFiniteSet(Matching) /\ Cardinality(Matching) \in Nat
      BY MatchingRows, FS_CardinalityType
    <3>4. Cardinality(Matching) = 0
      BY <3>2, <3>3 DEF Least
    <3>5. QED
      BY <3>3, <3>4, FS_EmptySet
  <2>5. QED
    BY <1>1, <2>1, <2>3, <2>4 DEF PageOf
<1>2. CASE ~database
  <2>1. Offset(j) \in Nat /\ Limit[j] \in Nat /\ Matching \in SUBSET Matching
    BY ExportFields
  <2>2. Pages(MemoryPage(j), Matching, Offset(j))
    BY MemoryPages DEF Pages
  <2>3. ASSUME MemoryPage(j) = <<>>, cursor[j] = NoCursor PROVE Matching = {}
    <3>1. Offset(j) = 0
      BY <2>3 DEF Offset, NoCursor
    <3>2. IsFiniteSet(Matching) /\ Cardinality(Matching) \in Nat
      BY MatchingRows, FS_CardinalityType
    <3>3. Cardinality(Matching) = 0
      BY <2>1, <2>3, <3>1, <3>2, MemoryPages
    <3>4. QED
      BY <3>2, <3>3, FS_EmptySet
  <2>4. QED
    BY <1>2, <2>1, <2>2, <2>3 DEF PageOf
<1>3. QED
  BY <1>1, <1>2

\* The types of what a page makes of an export, which has no cursor only as long
\* as it has nothing.
LEMMA PageTypes ==
  ASSUME ExportTypes, NEW j \in Jobs
  PROVE  /\ Wrote(j, PageOf(j)) \in Seq(Events)
         /\ After(j, PageOf(j)) \in [time : Nat, id : Nat, offset : Nat]
         /\ Wanted(j) \in SUBSET Events
         /\ (Progress(j) /\ After(j, PageOf(j)) = NoCursor) =>
              Wrote(j, PageOf(j)) = <<>> /\ Wanted(j) = {}
<1> DEFINE page == PageOf(j)
<1>1. PICK S \in SUBSET Matching, first \in Nat :
        /\ Pages(page, S, first)
        /\ page = <<>> /\ cursor[j] = NoCursor => Matching = {}
  BY PageIs
<1>2. Longer(Wrote(j, page), written[j], page)
  BY <1>1, WroteIs
<1>3. Offset(j) \in Nat /\ cursor[j] \in [time : Nat, id : Nat, offset : Nat]
      /\ written[j] \in Seq(Events) /\ stable[j] \subseteq Events
  BY ExportFields
<1> HIDE DEF page
<1>4. ASSUME page # <<>>
      PROVE  After(j, page) \in [time : Nat, id : Nat, offset : Nat] /\ After(j, page) # NoCursor
  <2>1. Len(page) \in Nat /\ Len(page) # 0
    BY <1>2, <1>4 DEF Longer
  <2>2. page[Len(page)] \in Matching
    BY <1>1, <2>1 DEF Pages
  <2>3. page[Len(page)] \in Nat /\ page[Len(page)] # 0 /\ TimeOf(page[Len(page)]) \in Nat
    BY <2>2, MatchingRows
  <2>4. CASE database
    <3>1. After(j, page) = [time |-> TimeOf(page[Len(page)]), id |-> page[Len(page)], offset |-> 0]
      BY <1>4, <2>4 DEF After, CursorAfter, Last
    <3>2. QED
      BY <2>3, <3>1 DEF NoCursor
  <2>5. CASE ~database
    <3>1. After(j, page) = [NoCursor EXCEPT !.offset = Offset(j) + Len(page)]
      BY <1>4, <2>5 DEF After, CursorAfter
    <3>2. Offset(j) + Len(page) \in Nat /\ Offset(j) + Len(page) # 0
      BY <1>3, <2>1
    <3>3. QED
      BY <3>1, <3>2 DEF NoCursor
  <2>6. QED
    BY <2>4, <2>5
<1>5. ASSUME page = <<>> PROVE After(j, page) = cursor[j] /\ Len(Wrote(j, page)) = Len(written[j])
  BY <1>2, <1>3, <1>5 DEF After, Longer
<1>6. Wrote(j, page) \in Seq(Events)
  BY <1>2 DEF Longer
<1>7. Wanted(j) \in SUBSET Events
  BY <1>3, MatchingRows DEF Wanted
<1>8. ASSUME Progress(j), After(j, page) = NoCursor
      PROVE  Wrote(j, page) = <<>> /\ Wanted(j) = {}
  <2>1. page = <<>> /\ cursor[j] = NoCursor
    BY <1>4, <1>5, <1>8
  <2>2. Matching = {}
    BY <1>1, <2>1
  <2>3. written[j] = <<>>
    BY <1>8, <2>1 DEF Progress
  <2>4. Len(Wrote(j, page)) = 0
    BY <1>5, <2>1, <2>3
  <2>5. QED
    BY <1>6, <2>1, <2>2, <2>4 DEF Wanted
<1>9. QED
  BY <1>3, <1>4, <1>5, <1>6, <1>7, <1>8 DEF page

\* Of an export that a step does not touch nothing changes.
LEMMA Untouched ==
  ASSUME NEW k \in Jobs, Progress(k), cursor'[k] = cursor[k], written'[k] = written[k],
         stable'[k] = stable[k], disturbed \subseteq disturbed',
         rows' = rows, database' = database, Exported(k)' => Exported(k)
  PROVE  Progress(k)'
<1>1. \A i : TimeOf(i)' = TimeOf(i)
  BY DEF TimeOf
<1>2. Matching' = Matching
  BY DEF Matching, TimeOf
<1>3. \A i : Place(Matching, i)' = Place(Matching, i)
  BY <1>2 DEF Place, Newer, TimeOf
<1>4. \A i : PastCursor(i, cursor[k])' = PastCursor(i, cursor[k])
  BY DEF PastCursor, TimeOf
<1>5. ByCursor(cursor[k], written[k], stable[k]) => ByCursor(cursor[k], written[k], stable[k])'
  BY <1>2, <1>4 DEF ByCursor
<1>6. ByOffset(cursor[k], written[k], stable[k]) => ByOffset(cursor[k], written[k], stable[k])'
  BY <1>2, <1>3 DEF ByOffset, Leads
<1>7. QED
  BY <1>5, <1>6 DEF Progress, Follows, Ordered, Complete

\* A page of one job.
LEMMA PageKeeps ==
  ASSUME ExportInv, pc \in [Jobs -> Positions], NEW j \in Jobs, Page(j)
  PROVE  ExportInv'
<1> DEFINE page == PageOf(j)
<1>1. ExportTypes /\ OneRow /\ \A k \in Jobs : Progress(k)
  BY DEF ExportInv
<1>2. /\ pc[j] = "page"
      /\ pc' = [pc EXCEPT ![j] = IF Stops(j, page) THEN "recheck" ELSE "page"]
      /\ written' = [written EXCEPT ![j] = Wrote(j, page)]
      /\ cursor' = [cursor EXCEPT ![j] = After(j, page)]
      /\ stable' = [stable EXCEPT ![j] = Wanted(j)]
  <2>1. cursor' = [cursor EXCEPT ![j] = After(j, page)]
    BY <1>1 DEF Page, After, PageOf, ExportTypes
  <2>2. stable' = [stable EXCEPT ![j] = Wanted(j)]
    BY <1>1 DEF Page, Wanted, ExportTypes
  <2>3. QED
    BY <2>1, <2>2 DEF Page, Goto, PageOf, Wrote, EventsOf
<1>3. UNCHANGED <<rows, database, disturbed, due, closed, changes>>
  BY DEF Page, storeVars, jobVars
<1>4. /\ Wrote(j, page) \in Seq(Events)
      /\ After(j, page) \in [time : Nat, id : Nat, offset : Nat]
      /\ Wanted(j) \in SUBSET Events
      /\ After(j, page) = NoCursor => Wrote(j, page) = <<>> /\ Wanted(j) = {}
  BY <1>1, PageTypes
<1>5. j \notin disturbed =>
        /\ Ordered(Wrote(j, page)) /\ Follows(After(j, page), Wrote(j, page), Wanted(j))
        /\ Stops(j, page) => Complete(j, Wrote(j, page), Wanted(j))
  BY <1>1, StoreFollows, MemoryFollows DEF PageOf
<1> HIDE DEF page
<1>6. /\ written'[j] = Wrote(j, page) /\ cursor'[j] = After(j, page)
      /\ stable'[j] = Wanted(j)
      /\ Exported(j)' => Stops(j, page)
  BY <1>1, <1>2 DEF ExportTypes, Exported, Positions
<1>7. ExportTypes'
  BY <1>1, <1>2, <1>3, <1>4 DEF ExportTypes
<1>8. OneRow'
  BY <1>1, <1>3 DEF OneRow
<1>9. ASSUME NEW k \in Jobs, k # j PROVE Progress(k)'
  <2>1. cursor'[k] = cursor[k] /\ written'[k] = written[k] /\ stable'[k] = stable[k]
        /\ (Exported(k)' => Exported(k))
    BY <1>1, <1>2, <1>9 DEF ExportTypes, Exported
  <2>2. QED
    BY <1>1, <1>3, <2>1, Untouched
<1>10. Progress(j)'
  <2> DEFINE C1 == After(j, page)
             W1 == Wrote(j, page)
             E1 == Wanted(j)
  <2>1. /\ C1 = NoCursor => W1 = <<>> /\ E1 = {}
        /\ j \notin disturbed =>
             /\ Ordered(W1) /\ Follows(C1, W1, E1)
             /\ Exported(j)' => Complete(j, W1, E1)
    BY <1>4, <1>5, <1>6
  <2>2. (Ordered(written[j]))' <=> Ordered(W1)
    BY <1>6 DEF Ordered
  <2>3. (Complete(j, written[j], stable[j]))' <=> Complete(j, W1, E1)
    BY <1>6 DEF Complete
  <2>4. Follows(C1, W1, E1) => (Follows(cursor[j], written[j], stable[j]))'
    <3>1. Matching' = Matching
      BY <1>3 DEF Matching, TimeOf
    <3>2. \A i : (Place(Matching, i))' = Place(Matching, i)
      BY <1>3, <3>1 DEF Place, Newer, TimeOf
    <3>3. \A i : (PastCursor(i, cursor[j]))' = PastCursor(i, C1)
      BY <1>3, <1>6 DEF PastCursor, TimeOf
    <3> HIDE DEF C1, W1, E1
    <3>4. cursor'[j] = C1 /\ written'[j] = W1 /\ stable'[j] = E1
      BY <1>6 DEF C1, W1, E1
    <3>5. ByCursor(C1, W1, E1) => (ByCursor(cursor[j], written[j], stable[j]))'
      BY <1>3, <3>1, <3>3, <3>4 DEF ByCursor
    <3>6. ByOffset(C1, W1, E1) => (ByOffset(cursor[j], written[j], stable[j]))'
      BY <1>3, <3>1, <3>2, <3>4 DEF ByOffset, Leads
    <3>7. QED
      BY <1>3, <3>4, <3>5, <3>6 DEF Follows
  <2> HIDE DEF C1, W1, E1
  <2>5. QED
    BY <1>3, <1>6, <2>1, <2>2, <2>3, <2>4 DEF Progress, C1, W1, E1
<1>11. QED
  BY <1>7, <1>8, <1>9, <1>10 DEF ExportInv

\* An event is stored: exports from the database have passed its place, or it is
\* too late for their snapshot, as it is for those from memory.
LEMMA InsertKeeps ==
  ASSUME ExportInv, NEW e \in Events, Insert(e)
  PROVE  ExportInv'
<1>1. ExportTypes /\ OneRow /\ \A k \in Jobs : Progress(k)
  BY DEF ExportInv
<1> DEFINE n == Len(rows)
<1>2. rows \in Seq(Events \cup {None}) /\ n \in Nat /\ DOMAIN rows = 1..n
  BY <1>1 DEF ExportTypes
<1>3. /\ UNCHANGED <<written, cursor, stable, pc, database, due, closed>>
      /\ changes' \in 0..MaxChanges /\ disturbed \subseteq disturbed' /\ disturbed' \subseteq Jobs
      /\ e \notin ToSet(rows)
  BY <1>1, ExportAssumption DEF Insert, Changed, runVars, jobVars, files, ExportTypes, Exporting
<1>4. /\ rows' \in Seq(Events \cup {None}) /\ DOMAIN rows' = 1..(n + 1) /\ Len(rows') = n + 1
      /\ rows'[n + 1] = e /\ \A i \in 1..n : rows'[i] = rows[i]
  BY <1>2 DEF Insert
<1> HIDE DEF n
<1>5. ExportTypes'
  BY <1>1, <1>3, <1>4 DEF ExportTypes
<1>6. \A i \in 1..n : rows[i] # e
  BY <1>2, <1>3 DEF ToSet
<1>7. OneRow'
  <2>1. ASSUME NEW i \in 1..(n + 1), NEW k \in 1..(n + 1), rows'[i] = rows'[k], rows'[i] # None
        PROVE  i = k
    <3>1. (i \in 1..n \/ i = n + 1) /\ (k \in 1..n \/ k = n + 1)
      BY <1>2
    <3>2. QED
      BY <1>1, <1>2, <1>4, <1>6, <2>1, <3>1 DEF OneRow
  <2>2. QED
    BY <1>4, <2>1 DEF OneRow
<1>8. \A i \in 1..n : TimeOf(i)' = TimeOf(i)
  BY <1>4 DEF TimeOf
<1>9. \A i \in 1..n : i \in Matching' <=> i \in Matching
  BY <1>2, <1>4, <1>8 DEF Matching
<1>10. ASSUME NEW k \in Jobs, k \notin disturbed', cursor[k] # NoCursor
       PROVE  (Follows(cursor[k], written[k], stable[k]))'
  <2>1. k \notin disturbed /\ Follows(cursor[k], written[k], stable[k])
    BY <1>1, <1>3, <1>10 DEF Progress
  <2>2. written[k] \in Seq(Events) /\ cursor[k].time \in Nat /\ cursor[k].id \in Nat
    BY <1>1, ExportFields
  <2>3. CASE database
    <3>1. ByCursor(cursor[k], written[k], stable[k])
      BY <1>10, <2>1, <2>3 DEF Follows
    <3>2. \A i \in 1..n : (PastCursor(i, cursor[k]))' <=> PastCursor(i, cursor[k])
      BY <1>3, <1>8 DEF PastCursor
    <3>3. ASSUME NEW i \in 1..(n + 1), rows'[i] \in ToSet(written[k])
          PROVE  ~(PastCursor(i, cursor[k]))'
      <4>1. CASE i \in 1..n
        BY <1>2, <1>4, <3>1, <3>2, <3>3, <4>1 DEF ByCursor
      <4>2. CASE i = n + 1
        <5>1. Time[e] >= cursor[k].time /\ Time[e] \in Nat
          BY <1>4, <3>1, <3>3, <4>2, ExportAssumption DEF ByCursor
        <5>2. TimeOf(i)' = Time[e] /\ cursor[k].id \in 1..n
          BY <1>4, <3>1, <4>2 DEF TimeOf, ByCursor, n
        <5>3. ~(i < cursor[k].id) /\ cursor[k].id # 0
          BY <1>2, <4>2, <5>2
        <5>4. QED
          BY <1>3, <2>2, <5>1, <5>2, <5>3 DEF PastCursor
      <4>3. QED
        BY <1>2, <4>1, <4>2
    <3>4. ASSUME NEW w \in stable[k] \ ToSet(written[k])
          PROVE  \E i \in Matching' : rows'[i] = w /\ (PastCursor(i, cursor[k]))'
      <4>1. PICK i \in Matching : rows[i] = w /\ PastCursor(i, cursor[k])
        BY <3>1 DEF ByCursor
      <4>2. i \in 1..n
        BY <1>2 DEF Matching
      <4>3. QED
        BY <1>4, <1>9, <3>2, <4>1, <4>2
    <3>5. cursor[k].id \in 1..(n + 1)
      BY <1>2, <3>1 DEF ByCursor, n
    <3>6. (ByCursor(cursor[k], written[k], stable[k]))'
      BY <1>3, <1>4, <3>1, <3>3, <3>4, <3>5 DEF ByCursor
    <3>7. QED
      BY <1>3, <2>3, <3>6 DEF Follows
  <2>4. CASE ~database
    <3>1. ByOffset(cursor[k], written[k], stable[k])
      BY <1>10, <2>1, <2>4 DEF Follows
    <3>2. ~(Time[e] <= Snapshot)
      BY <1>10, <2>4 DEF Insert, Exporting
    <3>3. Matching' = Matching
      <4>1. n + 1 \notin Matching'
        BY <1>4, <3>2 DEF Matching, TimeOf
      <4>2. Matching \subseteq 1..n /\ Matching' \subseteq 1..(n + 1)
        BY <1>2, <1>4 DEF Matching
      <4>3. \A i \in 1..(n + 1) : i \in 1..n \/ i = n + 1
        BY <1>2
      <4>4. QED
        BY <1>9, <4>1, <4>2, <4>3
    <3>4. \A i \in Matching : rows'[i] = rows[i] /\ TimeOf(i)' = TimeOf(i)
      BY <1>2, <1>4, <1>8 DEF Matching
    <3>5. ASSUME NEW i \in Matching PROVE (Place(Matching, i))' = Place(Matching, i)
      <4>1. {x \in Matching' : (Newer(x, i))'} = {x \in Matching : Newer(x, i)}
        BY <3>3, <3>4 DEF Newer
      <4>2. QED
        BY <4>1 DEF Place
    <3>6. (ByOffset(cursor[k], written[k], stable[k]))'
      BY <1>3, <3>1, <3>3, <3>4, <3>5 DEF ByOffset, Leads
    <3>7. QED
      BY <1>3, <2>4, <3>6 DEF Follows
  <2>5. QED
    BY <2>3, <2>4
<1>11. ASSUME NEW k \in Jobs PROVE Progress(k)'
  <2>1. Progress(k)
    BY <1>1
  <2>2. (Follows(cursor[k], written[k], stable[k]))' \/ k \in disturbed'
    BY <1>3, <1>10 DEF Follows
  <2>3. QED
    BY <1>3, <2>1, <2>2 DEF Progress, Ordered, Complete, Exported
<1>12. QED
  BY <1>5, <1>7, <1>11 DEF ExportInv

\* Retention takes the oldest rows: what is left keeps its place.
LEMMA RetentionKeeps ==
  ASSUME ExportInv, NEW cutoff \in Nat, Retention(cutoff)
  PROVE  ExportInv'
<1> DEFINE old == {i \in DOMAIN rows : rows[i] # None /\ TimeOf(i) < cutoff}
           gone == {rows[i] : i \in old}
<1>1. ExportTypes /\ OneRow /\ \A k \in Jobs : Progress(k)
  BY DEF ExportInv
<1>2. /\ rows \in Seq(Events \cup {None}) /\ DOMAIN rows = 1..Len(rows) /\ Len(rows) \in Nat
      /\ None \notin Events
  BY <1>1, ExportAssumption DEF ExportTypes
<1>3. /\ UNCHANGED <<written, cursor, pc, database, due, closed, disturbed>>
      /\ changes' \in 0..MaxChanges
      /\ rows' = [i \in DOMAIN rows |-> IF i \in old THEN None ELSE rows[i]]
      /\ stable' = [k \in Jobs |-> stable[k] \ gone]
  BY <1>1, ExportAssumption DEF Retention, Changed, runVars, jobVars, ExportTypes
<1> HIDE DEF gone
<1>4. rows' \in Seq(Events \cup {None}) /\ DOMAIN rows' = DOMAIN rows /\ Len(rows') = Len(rows)
  <2>1. rows' \in [1..Len(rows) -> Events \cup {None}]
    BY <1>2, <1>3
  <2>2. QED
    BY <1>2, <2>1
<1>5. \A i \in DOMAIN rows : /\ rows'[i] # None => rows'[i] = rows[i] /\ i \notin old
                             /\ i \notin old => rows'[i] = rows[i] /\ TimeOf(i)' = TimeOf(i)
  BY <1>3 DEF TimeOf
<1>6. ExportTypes'
  BY <1>1, <1>3, <1>4 DEF ExportTypes
<1>7. OneRow'
  BY <1>1, <1>4, <1>5 DEF OneRow
<1>8. \A i : i \in Matching' <=> i \in Matching /\ i \notin old
  <2>1. \A i \in old : i \in DOMAIN rows /\ rows'[i] = None
    BY <1>3
  <2>2. QED
    BY <1>4, <1>5, <2>1 DEF Matching
<1>9. \A i \in Matching : i \in old <=> TimeOf(i) < cutoff
  BY DEF Matching
<1>10. \A i \in Matching' : rows'[i] = rows[i] /\ TimeOf(i)' = TimeOf(i) /\ i \in Matching
  BY <1>5, <1>8 DEF Matching
<1>11. ASSUME NEW k \in Jobs PROVE stable'[k] = stable[k] \ gone
  BY <1>3
<1>12. ASSUME NEW k \in Jobs, NEW e \in stable'[k], NEW i \in Matching, rows[i] = e
       PROVE  i \in Matching'
  <2>1. e \notin gone
    BY <1>11, <1>12
  <2>2. i \notin old
    BY <1>12, <2>1 DEF gone
  <2>3. QED
    BY <1>8, <2>2
<1>13. ASSUME NEW k \in Jobs, k \notin disturbed, cursor[k] # NoCursor
       PROVE  (Follows(cursor[k], written[k], stable[k]))'
  <2>1. Follows(cursor[k], written[k], stable[k])
    BY <1>1, <1>13 DEF Progress
  <2>2. CASE database
    <3>1. ByCursor(cursor[k], written[k], stable[k])
      BY <1>13, <2>1, <2>2 DEF Follows
    <3>2. \A i \in DOMAIN rows : i \notin old =>
            ((PastCursor(i, cursor[k]))' <=> PastCursor(i, cursor[k]))
      BY <1>3, <1>5 DEF PastCursor
    <3>3. ASSUME NEW i \in DOMAIN rows', rows'[i] \in ToSet(written[k])
          PROVE  ~(PastCursor(i, cursor[k]))'
      <4>1. written[k] \in Seq(Events)
        BY <1>1, ExportFields
      <4>2. rows'[i] # None
        BY <1>2, <3>3, <4>1 DEF ToSet
      <4>3. i \in DOMAIN rows /\ rows'[i] = rows[i] /\ i \notin old
        BY <1>4, <1>5, <4>2
      <4>4. QED
        BY <3>1, <3>2, <3>3, <4>3 DEF ByCursor
    <3>4. ASSUME NEW e \in stable'[k] \ ToSet(written[k])
          PROVE  \E i \in Matching' : rows'[i] = e /\ (PastCursor(i, cursor[k]))'
      <4>1. e \in stable[k] \ ToSet(written[k])
        BY <1>11, <3>4
      <4>2. PICK i \in Matching : rows[i] = e /\ PastCursor(i, cursor[k])
        BY <3>1, <4>1 DEF ByCursor
      <4>3. i \in Matching' /\ i \in DOMAIN rows
        BY <1>12, <3>4, <4>2 DEF Matching
      <4>4. QED
        BY <1>8, <1>10, <3>2, <4>2, <4>3
    <3>5. (ByCursor(cursor[k], written[k], stable[k]))'
      BY <1>3, <1>4, <3>1, <3>3, <3>4 DEF ByCursor
    <3>6. QED
      BY <1>3, <2>2, <3>5 DEF Follows
  <2>3. CASE ~database
    <3>1. ByOffset(cursor[k], written[k], stable[k])
      BY <1>13, <2>1, <2>3 DEF Follows
    <3>2. ASSUME NEW i \in Matching' PROVE (Place(Matching, i))' = Place(Matching, i)
      <4>1. i \in Matching /\ ~(TimeOf(i) < cutoff)
        BY <1>8, <1>9, <1>10
      <4>2. ASSUME NEW x \in Matching, Newer(x, i) PROVE x \in Matching'
        <5>1. TimeOf(x) \in Nat /\ TimeOf(i) \in Nat
          BY <1>1, <4>1, MatchingRows
        <5>2. ~(TimeOf(x) < cutoff)
          BY <4>1, <4>2, <5>1 DEF Newer
        <5>3. QED
          BY <1>8, <1>9, <5>2
      <4>3. \A x \in Matching' : x \in Matching /\ ((Newer(x, i))' <=> Newer(x, i))
        BY <1>10 DEF Newer
      <4>4. {x \in Matching' : (Newer(x, i))'} = {x \in Matching : Newer(x, i)}
        BY <4>2, <4>3
      <4>5. QED
        BY <4>4 DEF Place
    <3>3. (Leads(written[k]))'
      <4>1. ASSUME NEW i \in Matching', (Place(Matching, i))' < Len(written[k])
            PROVE  rows'[i] = written[k][(Place(Matching, i))' + 1]
        <5>1. i \in Matching /\ rows'[i] = rows[i] /\ Place(Matching, i) < Len(written[k])
          BY <1>10, <3>2, <4>1
        <5>2. rows[i] = written[k][Place(Matching, i) + 1]
          BY <3>1, <5>1 DEF ByOffset, Leads
        <5>3. QED
          BY <3>2, <5>1, <5>2
      <4>2. QED
        BY <1>3, <4>1 DEF Leads
    <3>4. ASSUME NEW e \in stable'[k] PROVE \E i \in Matching' : rows'[i] = e
      <4>1. e \in stable[k]
        BY <1>11, <3>4
      <4>2. PICK i \in Matching : rows[i] = e
        BY <3>1, <4>1 DEF ByOffset
      <4>3. QED
        BY <1>10, <1>12, <3>4, <4>2
    <3>5. (ByOffset(cursor[k], written[k], stable[k]))'
      BY <1>3, <3>1, <3>3, <3>4 DEF ByOffset
    <3>6. QED
      BY <1>3, <2>3, <3>5 DEF Follows
  <2>4. QED
    BY <2>2, <2>3
<1>14. ASSUME NEW k \in Jobs PROVE Progress(k)'
  <2>1. Progress(k) /\ stable'[k] \subseteq stable[k]
    BY <1>1, <1>11
  <2>2. (Follows(cursor[k], written[k], stable[k]))' \/ k \in disturbed'
    BY <1>3, <1>13 DEF Follows
  <2>3. (Exported(k))' <=> Exported(k)
    BY <1>3 DEF Exported
  <2>4. QED
    BY <1>3, <2>1, <2>2, <2>3 DEF Progress, Ordered, Complete
<1>15. QED
  BY <1>6, <1>7, <1>14 DEF ExportInv

\* Another database: every export that has begun is disturbed, and every event
\* still has one row.
LEMMA SwitchKeeps ==
  ASSUME ExportInv, SwitchDatabase
  PROVE  ExportInv'
<1> DEFINE ids == {i \in DOMAIN rows : rows[i] # None}
           R == {p \in ids \X ids : p[1] < p[2]}
           n == Cardinality(ids)
           at(k) == CHOOSE i \in ids : Cardinality({x \in ids : x < i}) = k - 1
<1>1. ExportTypes /\ OneRow /\ \A k \in Jobs : Progress(k)
  BY DEF ExportInv
<1>2. /\ rows \in Seq(Events \cup {None}) /\ DOMAIN rows = 1..Len(rows) /\ Len(rows) \in Nat
  BY <1>1 DEF ExportTypes
<1>3. /\ UNCHANGED <<written, cursor, stable, pc, due, closed>>
      /\ changes' \in 0..MaxChanges /\ database' \in BOOLEAN
      /\ disturbed' = disturbed \cup Exporting
  BY <1>1, ExportAssumption DEF SwitchDatabase, Changed, runVars, jobVars, ExportTypes
<1>4. \A i, k \in ids : <<i, k>> \in R <=> i < k
  OBVIOUS
<1>5. ids \subseteq 1..Len(rows) /\ \A i \in ids : i \in Nat /\ i \in DOMAIN rows /\ rows[i] # None
  BY <1>2
<1>6. rows' = [k \in 1..n |-> rows[at(k)]]
  BY DEF SwitchDatabase
<1>17. \A i \in ids : Rank(ids, R, i) = Cardinality({x \in ids : x < i})
  <2>1. ASSUME NEW i \in ids PROVE {x \in ids : x < i} = {x \in ids : <<x, i>> \in R}
    BY <1>4
  <2>2. QED
    BY <2>1 DEF Rank
<1> HIDE DEF ids, R
<1>7. IsFiniteSet(ids)
  <2>1. IsFiniteSet(1..Len(rows))
    BY <1>2, FS_Interval
  <2>2. QED
    BY <1>5, <2>1, FS_Subset
<1>8. Orders(R, ids)
  BY <1>4, <1>5 DEF Orders
<1>9. /\ n \in Nat
      /\ \A p \in 0..(n - 1) : \E i \in ids : Rank(ids, R, i) = p
  BY <1>7, <1>8, Ranks
<1>10. ASSUME NEW k \in 1..n PROVE at(k) \in ids /\ Rank(ids, R, at(k)) = k - 1
  <2>1. k - 1 \in 0..(n - 1)
    BY <1>9
  <2>2. \E i \in ids : Rank(ids, R, i) = k - 1
    BY <1>9, <2>1
  <2>3. \E i \in ids : Cardinality({x \in ids : x < i}) = k - 1
    BY <2>2, <1>17
  <2>4. at(k) \in ids /\ Cardinality({x \in ids : x < at(k)}) = k - 1
    BY <2>3
  <2>5. QED
    BY <2>4, <1>17
<1> HIDE DEF at, n
<1>11. \A k \in 1..n : rows'[k] = rows[at(k)] /\ rows[at(k)] \in Events \cup {None}
  <2>1. ASSUME NEW k \in 1..n
        PROVE  rows'[k] = rows[at(k)] /\ rows[at(k)] \in Events \cup {None}
    <3>1. at(k) \in 1..Len(rows)
      BY <1>2, <1>5, <1>10
    <3>2. rows[at(k)] \in Events \cup {None}
      BY <1>2, <3>1
    <3>3. rows'[k] = rows[at(k)]
      BY <1>6
    <3>4. QED
      BY <3>2, <3>3
  <2>2. QED
    BY <2>1
<1>12. DOMAIN rows' = 1..n /\ rows' \in Seq(Events \cup {None})
  <2>1. rows' \in [1..n -> Events \cup {None}]
    BY <1>6, <1>11
  <2>2. QED
    BY <1>9, <2>1
<1>13. ExportTypes'
  <2>1. disturbed' \subseteq Jobs
    BY <1>1, <1>3 DEF ExportTypes, Exporting
  <2>2. QED
    BY <1>1, <1>3, <1>12, <2>1 DEF ExportTypes
<1>14. OneRow'
  <2>1. ASSUME NEW i \in 1..n, NEW k \in 1..n, rows'[i] = rows'[k] PROVE i = k
    <3>1. rows[at(i)] = rows[at(k)]
      BY <1>11, <2>1
    <3>2. at(i) = at(k)
      BY <1>1, <1>5, <1>10, <3>1 DEF OneRow
    <3>3. i - 1 = k - 1
      BY <1>10, <3>2
    <3>4. QED
      BY <1>9, <3>3
  <2>2. QED
    BY <1>12, <2>1 DEF OneRow
<1>15. ASSUME NEW k \in Jobs PROVE Progress(k)'
  <2>1. cursor[k] # NoCursor => k \in disturbed'
    BY <1>3 DEF Exporting
  <2>2. Progress(k)
    BY <1>1
  <2>3. QED
    BY <1>3, <2>1, <2>2 DEF Progress, Follows, Ordered, Complete, Exported
<1>16. QED
  BY <1>13, <1>14, <1>15 DEF ExportInv

\* The steps that read no page and change no row.
LEMMA OthersKeep ==
  ASSUME ExportInv, FileTypes,
         \/ Cleanup \/ Close \/ SweepStep
         \/ \E j \in Jobs : Create(j) \/ Delete(j) \/ BecomesDue(j) \/ (RunStep(j) /\ ~Page(j))
         \/ UNCHANGED vars
  PROVE  ExportInv'
<1>1. ExportTypes /\ OneRow /\ \A k \in Jobs : Progress(k)
  BY DEF ExportInv
<1>2. /\ UNCHANGED <<written, cursor, stable, disturbed, rows, database>>
      /\ due' \subseteq Jobs /\ closed' \in BOOLEAN /\ changes' \in 0..MaxChanges
      /\ \A k \in Jobs : Exported(k)' => Exported(k)
  <2> USE <1>1 DEF ExportTypes, FileTypes, Exported, Goto, Positions
  <2>1. CASE Cleanup \/ Close
    BY <2>1 DEF Cleanup, Close, runVars, storeVars, observers
  <2>2. CASE SweepStep
    BY <2>2 DEF SweepStep, SweepNext, SweepTmp, SweepFile, runVars, storeVars, observers
  <2>3. ASSUME NEW j \in Jobs, Create(j) \/ Delete(j) \/ BecomesDue(j)
        PROVE  /\ UNCHANGED <<written, cursor, stable, disturbed, rows, database>>
               /\ due' \subseteq Jobs /\ closed' \in BOOLEAN /\ changes' \in 0..MaxChanges
               /\ \A k \in Jobs : Exported(k)' => Exported(k)
    BY <2>3 DEF Create, Delete, BecomesDue, runVars, storeVars, observers
  <2>4. ASSUME NEW j \in Jobs, RunStep(j), ~Page(j)
        PROVE  /\ UNCHANGED <<written, cursor, stable, disturbed, rows, database>>
               /\ due' \subseteq Jobs /\ closed' \in BOOLEAN /\ changes' \in 0..MaxChanges
               /\ \A k \in Jobs : Exported(k)' => Exported(k)
    <3>1. /\ UNCHANGED <<written, cursor, stable, disturbed, rows, database, due, closed>>
          /\ changes' \in 0..MaxChanges
      <4>1. CASE RunStart(j) \/ RunUpdate(j) \/ Discard(j)
        BY <4>1 DEF RunStart, RunUpdate, Discard, jobVars, storeVars, observers
      <4>2. CASE RunCheck(j, "check", "open") \/ RunCheck(j, "recheck", "hash")
        BY <4>2 DEF RunCheck, jobVars, storeVars, observers
      <4>3. CASE Open(j) \/ PageCancelled(j) \/ Hash(j)
        BY <4>3 DEF Open, PageCancelled, Hash, jobVars, storeVars, observers
      <4>4. CASE Rename(j) \/ Fail(j)
        BY <4>4 DEF Rename, Fail, jobVars, storeVars, observers
      <4>5. CASE Fault(j)
        BY <4>5, ExportAssumption DEF Fault, Changed, jobVars, storeVars, observers
      <4>6. QED
        BY <2>4, <4>1, <4>2, <4>3, <4>4, <4>5 DEF RunStep
    <3>2. \E p \in Positions :
            /\ pc' = [pc EXCEPT ![j] = p]
            /\ p \in {"recheck", "hash", "rename", "update"} => Exported(j)
      <4>1. CASE RunStart(j)
        BY <4>1 DEF RunStart
      <4>2. CASE RunUpdate(j)
        BY <4>2 DEF RunUpdate
      <4>3. CASE RunCheck(j, "check", "open") \/ RunCheck(j, "recheck", "hash")
        BY <4>3 DEF RunCheck
      <4>4. CASE Open(j) \/ PageCancelled(j) \/ Hash(j)
        BY <4>4 DEF Open, PageCancelled, Hash
      <4>5. CASE Rename(j)
        BY <4>5 DEF Rename
      <4>6. CASE Fault(j)
        BY <4>6 DEF Fault
      <4>7. CASE Discard(j) \/ Fail(j)
        BY <4>7 DEF Discard, Fail
      <4>8. QED
        BY <2>4, <4>1, <4>2, <4>3, <4>4, <4>5, <4>6, <4>7 DEF RunStep
    <3>3. \A k \in Jobs : Exported(k)' => Exported(k)
      BY <3>2
    <3>4. QED
      BY <3>1, <3>3
  <2>5. CASE UNCHANGED vars
    BY <2>5 DEF vars, jobVars, runVars, storeVars, observers
  <2>6. QED
    BY <2>1, <2>2, <2>3, <2>4, <2>5
<1>3. ExportTypes'
  BY <1>1, <1>2 DEF ExportTypes
<1>4. OneRow'
  BY <1>1, <1>2 DEF OneRow
<1>5. ASSUME NEW k \in Jobs PROVE Progress(k)'
  BY <1>1, <1>2, Untouched
<1>6. QED
  BY <1>3, <1>4, <1>5 DEF ExportInv

\* Nothing is exported at the start.
LEMMA InitExport == Init => ExportInv
<1> SUFFICES ASSUME Init PROVE ExportInv
  OBVIOUS
<1>1. Initial \in Seq(Events \cup {None})
  BY ExportAssumption
<1>2. ExportTypes
  <2>1. <<>> \in Seq(Events) /\ NoCursor \in [time : Nat, id : Nat, offset : Nat]
    BY DEF NoCursor
  <2>2. written \in [Jobs -> Seq(Events)]
    BY <2>1 DEF Init
  <2>3. cursor \in [Jobs -> [time : Nat, id : Nat, offset : Nat]]
    BY <2>1 DEF Init
  <2>4. stable \in [Jobs -> SUBSET Events]
    BY DEF Init
  <2>5. changes \in 0..MaxChanges
    BY ExportAssumption DEF Init
  <2>6. QED
    BY <1>1, <2>2, <2>3, <2>4, <2>5 DEF Init, ExportTypes
<1>3. OneRow
  BY ExportAssumption DEF Init, OneRow
<1>4. ASSUME NEW j \in Jobs PROVE Progress(j)
  BY DEF Init, Progress, Follows, Ordered, Exported
<1>5. QED
  BY <1>2, <1>3, <1>4 DEF ExportInv

\* Every step keeps what the exports have written.
LEMMA NextExport == FileInv /\ ExportInv /\ [Next]_vars => ExportInv'
<1> SUFFICES ASSUME FileInv, ExportInv, [Next]_vars PROVE ExportInv'
  OBVIOUS
<1>1. FileTypes /\ pc \in [Jobs -> Positions]
  BY DEF FileInv, FileTypes
<1>2. \A e \in Events : Time[e] \in Nat
  BY ExportAssumption
<1>3. QED
  BY <1>1, <1>2, PageKeeps, InsertKeeps, RetentionKeeps, SwitchKeeps, OthersKeep DEF Next

\* An export lists each event once, the newest first, and leaves out none that
\* was there from its first page on, but those beyond its limit: for every number
\* of events and jobs, every limit and every size of pages, whatever is inserted
\* and expires between them.
THEOREM ExportsFaithful == Spec => []ExportFaithful
<1>1. ExportInv => ExportFaithful
  BY DEF ExportInv, Progress, Ordered, Complete, ExportFaithful
<1>2. QED
  BY InitFiles, NextFiles, InitExport, NextExport, <1>1, PTL DEF Spec

\* Every variable has its type, and the table keeps its limits.
THEOREM ExportTypesKept == Spec => []TypeOK
<1>1. SlotInv /\ Limits /\ ExportInv => TypeOK
  BY DEF SlotInv, FileInv, FileTypes, Limits, ExportInv, ExportTypes, TypeOK
<1>2. SlotInv /\ Limits /\ [Next]_vars => (SlotInv /\ Limits)'
  BY NextSlots, NextLimits
<1>3. SlotInv => FileInv
  BY DEF SlotInv
<1>4. QED
  BY InitSlots, InitExport, NextExport, <1>1, <1>2, <1>3, PTL DEF Spec
=============================================================================
