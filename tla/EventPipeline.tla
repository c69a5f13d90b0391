---------------------------- MODULE EventPipeline ----------------------------
(***************************************************************************)
(* The way of a usage event from Record (go/stats.go) to the SQLite event  *)
(* table, through the writer goroutine, the spool worker, the spool files  *)
(* and their replay (go/event_writer.go), with graceful stops, crashes and *)
(* the recovery of the in-memory aggregate from the stored one.            *)
(*                                                                         *)
(* An event is an opaque value; its fingerprint is the event itself.  An   *)
(* aggregate is the number of times it counts each event.  The event table *)
(* is the sequence of its rows in id order.  A spool file that is empty    *)
(* does not exist.  Retention is off, so rows are never deleted.           *)
(***************************************************************************)
EXTENDS Integers, Sequences, FiniteSets, FiniteSetsExt

Feeders == {"startup", "retry"}

CONSTANTS
  Events,       (* the usage events of a history                             *)
  Replays,      (* identities of eventSpoolReplay objects                    *)
  QueueCap,     (* capacity of eventWriterQueue and of eventSpoolQueue       *)
  WriterBytes,  (* eventWriterQueueMaxBytes, in tasks                        *)
  SpoolBytes,   (* eventSpoolQueueMaxBytes, in tasks                         *)
  MaxBatch,     (* eventWriteBatchMaxSize                                    *)
  MaxFaults,    (* bound: failed transactions, failed spool writes, and      *)
                (* transactions of pruneSQLite, together                     *)
  MaxStarts,    (* bound: process starts                                     *)
  None          (* no value                                                  *)

ASSUME PipelineAssumption ==
  /\ QueueCap \in Nat \ {0} /\ WriterBytes \in Nat \ {0}
  /\ SpoolBytes \in Nat \ {0} /\ MaxBatch \in Nat \ {0}
  /\ MaxFaults \in Nat /\ MaxStarts \in Nat \ {0}
  /\ None \notin Events /\ None \notin Replays /\ None \notin Feeders
  /\ IsFiniteSet(Replays)

VARIABLES
  (* On disk. *)
  rows,        (* request_events                                             *)
  saved,       (* aggregate_state: [agg, mark], or None                      *)
  active,      (* <path>.spool.jsonl                                         *)
  replayFile,  (* <path>.spool.jsonl.replay                                  *)
  (* In memory. *)
  phase,       (* "up", "stopping" once eventWriterStopping is set, "down"   *)
  counted,     (* the in-memory aggregate                                    *)
  lastId,      (* eventStoreLastEventID                                      *)
  queue,       (* eventWriterQueue                                           *)
  queueBytes,  (* eventWriterQueueBytes                                      *)
  writer,      (* eventWriterLoop: its position, batch and pending snapshot  *)
  spoolQueue,  (* eventSpoolQueue                                            *)
  spoolBytes,  (* eventSpoolQueueBytes                                       *)
  spooling,    (* the event eventSpoolLoop is writing, or None               *)
  spoolDone,   (* eventSpoolLoop has returned                                *)
  pending,     (* eventWriterSpoolPending                                    *)
  handoff,     (* events in Record between the unlock and tryEnqueueEventSpool *)
  feeder,      (* the goroutines of replayEventSpool                         *)
  replay,      (* the eventSpoolReplay objects                               *)
  spoolMu,     (* feeder that holds eventSpoolMu across steps, or None       *)
  (* Observations. *)
  recorded,    (* events Record took on the persistent path                  *)
  dropped,     (* events counted in permanentDrops                           *)
  crashed,     (* events only in memory when the process crashed             *)
  diverted,    (* events that did not go straight from the queue to a row    *)
  late,        (* events recorded in memory only, during shutdown            *)
  early,       (* events a prune saved in the aggregate before they had a row *)
  overlapped,  (* a replay began while another was unfinished                *)
  faults, starts

disk   == <<rows, saved, active, replayFile>>
wvars  == <<queue, queueBytes, writer>>
svars  == <<spoolQueue, spoolBytes, spooling, spoolDone>>
rvars  == <<feeder, replay, spoolMu>>
ledger == <<recorded, dropped, crashed, diverted, late, early, overlapped>>
vars   == <<disk, phase, counted, lastId, wvars, svars, pending, handoff, rvars,
            ledger, faults, starts>>

Task     == [event : Events, replay : Replays \cup {None}]
Counts   == [Events -> Nat]
Snapshot == [agg : Counts, mark : Nat]

NoReplay == [live |-> FALSE, remaining |-> 0, read |-> FALSE, keep |-> FALSE,
             failed |-> <<>>]
IdleFeeder == [pc |-> "off", replay |-> None, rest |-> <<>>, attached |-> FALSE,
               left |-> 0]
IdleWriter == [pc |-> "select", batch |-> <<>>, taken |-> 0, snap |-> None,
               ok |-> TRUE]

TypeOK ==
  /\ rows \in Seq(Events) /\ active \in Seq(Events) /\ replayFile \in Seq(Events)
  /\ saved \in Snapshot \cup {None}
  /\ phase \in {"up", "stopping", "down"}
  /\ counted \in Counts
  /\ lastId \in Nat
  /\ queue \in Seq(Task)
  /\ queueBytes \in Nat
  /\ writer \in [pc : {"select", "collect", "persist", "commit", "settle",
                       "blocked", "final", "done"},
                 batch : Seq(Task), taken : Nat,
                 snap : Snapshot \cup {None}, ok : BOOLEAN]
  /\ spoolQueue \in Seq(Events)
  /\ spoolBytes \in Nat
  /\ spooling \in Events \cup {None}
  /\ spoolDone \in BOOLEAN
  /\ pending \in Nat
  /\ handoff \subseteq Events
  /\ feeder \in [Feeders -> [pc : {"off", "begin", "merge", "unlink", "scan",
                                   "open", "feed", "exist", "wait", "exiting"},
                             replay : Replays \cup {None}, rest : Seq(Events),
                             attached : BOOLEAN, left : Int]]
  /\ replay \in [Replays -> [live : BOOLEAN, remaining : Nat, read : BOOLEAN,
                             keep : BOOLEAN, failed : Seq(Events)]]
  /\ spoolMu \in Feeders \cup {None}
  /\ recorded \subseteq Events /\ dropped \subseteq Events
  /\ crashed \subseteq Events /\ diverted \subseteq Events
  /\ late \subseteq Events /\ early \subseteq Events
  /\ overlapped \in BOOLEAN
  /\ faults \in 0..MaxFaults /\ starts \in 0..MaxStarts

-----------------------------------------------------------------------------
MayGoWrong == faults < MaxFaults

Elems(s) == {s[i] : i \in DOMAIN s}
Larger(a, b) == IF a > b THEN a ELSE b
AtLeast0(n) == Larger(n, 0)
Running == phase \in {"up", "stopping"}

\* storageControlMu is free: only spoolEventWrite, blocked on a full spool
\* queue, keeps it for more than one step.
ControlFree == writer.pc # "blocked"

-----------------------------------------------------------------------------
(***************************************************************************)
(* Starting, and what a stop or a crash leaves.                            *)
(***************************************************************************)

\* loadSQLiteDerivedState and applySQLiteAggregateTail: the stored aggregate
\* plus the rows beyond its watermark, or a rebuild from all rows when it is
\* empty or has no watermark.
RowCount(from) ==
  [e \in Events |-> Cardinality({i \in DOMAIN rows : i > from /\ rows[i] = e})]

Recovered ==
  IF /\ saved # None
     /\ rows = <<>> \/ (saved.mark > 0 /\ \E e \in Events : saved.agg[e] > 0)
  THEN [e \in Events |-> saved.agg[e] + RowCount(saved.mark)[e]]
  ELSE RowCount(0)

MemoryCleared ==
  /\ queue' = <<>> /\ queueBytes' = 0 /\ writer' = IdleWriter
  /\ spoolQueue' = <<>> /\ spoolBytes' = 0 /\ spooling' = None /\ spoolDone' = FALSE
  /\ pending' = 0 /\ handoff' = {}
  /\ replay' = [r \in Replays |-> NoReplay]
  /\ spoolMu' = None

Init ==
  /\ rows = <<>> /\ saved = None /\ active = <<>> /\ replayFile = <<>>
  /\ phase = "down" /\ counted = [e \in Events |-> 0] /\ lastId = 0
  /\ queue = <<>> /\ queueBytes = 0 /\ writer = IdleWriter
  /\ spoolQueue = <<>> /\ spoolBytes = 0 /\ spooling = None /\ spoolDone = FALSE
  /\ pending = 0 /\ handoff = {}
  /\ feeder = [g \in Feeders |-> IdleFeeder]
  /\ replay = [r \in Replays |-> NoReplay]
  /\ spoolMu = None
  /\ recorded = {} /\ dropped = {} /\ crashed = {} /\ diverted = {}
  /\ late = {} /\ early = {}
  /\ overlapped = FALSE
  /\ faults = 0 /\ starts = 0

\* ConfigurePatch opens the store: it recovers the aggregate, starts the three
\* goroutines and, by pruneSQLite, stores the aggregate again.
Start ==
  /\ phase = "down" /\ starts < MaxStarts
  /\ phase' = "up" /\ starts' = starts + 1
  /\ counted' = Recovered
  /\ lastId' = Larger(Len(rows), IF saved = None THEN 0 ELSE saved.mark)
  /\ saved' = [agg |-> Recovered, mark |-> Len(rows)]
  /\ MemoryCleared
  /\ feeder' = [g \in Feeders |->
                  IF g = "startup" THEN [IdleFeeder EXCEPT !.pc = "merge"]
                  ELSE IdleFeeder]
  /\ UNCHANGED <<rows, active, replayFile, ledger, faults>>

\* The first half of stopEventWriter.
Stop ==
  /\ phase = "up" /\ ControlFree
  /\ phase' = "stopping"
  /\ UNCHANGED <<disk, counted, lastId, wvars, svars, pending, handoff, rvars,
                 ledger, faults, starts>>

\* Both goroutines are done: Close closes the store and the process ends.
Stopped ==
  /\ phase = "stopping" /\ writer.pc = "done" /\ spoolDone /\ handoff = {}
  /\ phase' = "down"
  /\ MemoryCleared
  /\ feeder' = [g \in Feeders |-> IdleFeeder]
  /\ UNCHANGED <<disk, counted, lastId, ledger, faults, starts>>

\* Bound: no process start after MaxStarts of them.
Ended == phase = "down" /\ starts = MaxStarts /\ UNCHANGED vars

\* Events that only this process holds; a task of a replay is also in its file.
NewEvents(tasks) ==
  {tasks[i].event : i \in {j \in DOMAIN tasks : tasks[j].replay = None}}

InMemory ==
  NewEvents(queue) \cup NewEvents(writer.batch) \cup handoff
  \cup Elems(spoolQueue) \cup ({spooling} \ {None})

Stored == Elems(rows) \cup Elems(active) \cup Elems(replayFile)

Crash ==
  /\ Running /\ starts < MaxStarts
  /\ phase' = "down"
  /\ crashed' = crashed \cup (InMemory \ Stored)
  /\ MemoryCleared
  /\ feeder' = [g \in Feeders |-> IdleFeeder]
  /\ UNCHANGED <<disk, counted, lastId, recorded, dropped, diverted, late, early,
                 overlapped, faults, starts>>

\* pruneSQLite, called by ConfigurePatch on every change of the storage or
\* retention settings and by the writer's minute timer, stores the aggregate with
\* the newest row's id.  The writer holds the only connection while in "commit".
PruneSQLite ==
  /\ phase = "up" /\ ControlFree /\ writer.pc # "commit" /\ MayGoWrong
  /\ faults' = faults + 1
  /\ saved' = [agg |-> counted, mark |-> Len(rows)]
  /\ early' = early \cup ((NewEvents(queue) \cup NewEvents(writer.batch)) \ Elems(rows))
  /\ UNCHANGED <<rows, active, replayFile, phase, counted, lastId, wvars, svars,
                 pending, handoff, rvars, recorded, dropped, crashed, diverted, late,
                 overlapped, starts>>

-----------------------------------------------------------------------------
(***************************************************************************)
(* Record: memory and writer queue in one critical section, then, when the *)
(* queue refused, the hand-off to the spool queue outside of it.           *)
(***************************************************************************)
QueueAccepts == Len(queue) < QueueCap /\ queueBytes < WriterBytes
SpoolFits == spoolBytes < SpoolBytes

Record(e) ==
  /\ phase = "up" /\ ControlFree
  /\ e \notin recorded
  /\ recorded' = recorded \cup {e}
  /\ counted' = [counted EXCEPT ![e] = @ + 1]
  /\ IF QueueAccepts
     THEN /\ queue' = Append(queue, [event |-> e, replay |-> None])
          /\ queueBytes' = queueBytes + 1
          /\ UNCHANGED <<handoff, diverted>>
     ELSE /\ handoff' = handoff \cup {e}
          /\ diverted' = diverted \cup {e}
          /\ UNCHANGED <<queue, queueBytes>>
  /\ UNCHANGED <<disk, phase, lastId, writer, svars, pending, rvars, dropped,
                 crashed, late, early, overlapped, faults, starts>>

\* Once eventWriterStopping is set Record keeps the event in memory only.
RecordLate(e) ==
  /\ phase = "stopping" /\ ControlFree
  /\ e \notin recorded
  /\ recorded' = recorded \cup {e}
  /\ late' = late \cup {e}
  /\ counted' = [counted EXCEPT ![e] = @ + 1]
  /\ UNCHANGED <<disk, phase, lastId, wvars, svars, pending, handoff, rvars, dropped,
                 crashed, diverted, early, overlapped, faults, starts>>

\* tryEnqueueEventSpool accepts.
HandOff(e) ==
  /\ e \in handoff
  /\ phase = "up" /\ ControlFree /\ SpoolFits /\ Len(spoolQueue) < QueueCap
  /\ handoff' = handoff \ {e}
  /\ spoolQueue' = Append(spoolQueue, e)
  /\ spoolBytes' = spoolBytes + 1
  /\ pending' = pending + 1
  /\ UNCHANGED <<disk, phase, counted, lastId, wvars, spooling, spoolDone, rvars,
                 ledger, faults, starts>>

\* tryEnqueueEventSpool refuses: the spool queue is full or stopped, or some
\* other goroutine holds storageControlMu when TryLock is called.
UncountedDrop(e) == dropped                          \* mutant
CountDrop(e) == dropped \cup {e}

HandOffDrop(e) ==
  /\ e \in handoff
  /\ handoff' = handoff \ {e}
  /\ dropped' = CountDrop(e)
  /\ UNCHANGED <<disk, phase, counted, lastId, wvars, svars, pending, rvars,
                 recorded, crashed, diverted, late, early, overlapped, faults, starts>>

-----------------------------------------------------------------------------
(***************************************************************************)
(* Replays of the spool file: the effects shared by the writer and the     *)
(* feeders.                                                                *)
(***************************************************************************)

\* finishSpoolEvents.
FinishSpoolForgets(n) == pending                     \* mutant
FinishSpoolUnclamped(n) == pending - n               \* mutant
FinishSpool(n) == AtLeast0(pending - n)

\* scheduleEventSpoolReplay: start the retry goroutine unless one is running.
Scheduled(f) ==
  IF f["retry"].pc = "off"
  THEN [f EXCEPT !["retry"] = [IdleFeeder EXCEPT !.pc = "begin"]]
  ELSE f

\* Removing or renaming over the replay file leaves open readers on the old one.
Detached(f) == [g \in Feeders |-> [f[g] EXCEPT !.attached = FALSE]]

\* finalize: what becomes of the replay file.
FileAfter(R) == IF R.keep THEN replayFile ELSE R.failed

\* Replay r becomes R; once all of its records are accounted for, finalize.
SettleReplay(r, R) ==
  IF R.remaining > 0 \/ ~R.read
  THEN /\ replay' = [replay EXCEPT ![r] = R]
       /\ UNCHANGED replayFile
  ELSE /\ replay' = [replay EXCEPT ![r] = NoReplay]
       /\ replayFile' = FileAfter(R)

\* The feeders after the same step, given what else the step does to them.
FeedersAfter(R, f) ==
  IF R.remaining > 0 \/ ~R.read THEN f
  ELSE IF R.keep THEN Scheduled(f)
  ELSE IF R.failed = <<>> THEN Detached(f)
  ELSE Scheduled(Detached(f))

-----------------------------------------------------------------------------
(***************************************************************************)
(* eventWriterLoop.                                                        *)
(***************************************************************************)
WriterTake ==
  /\ Running /\ writer.pc = "select" /\ queue # <<>>
  /\ writer' = [writer EXCEPT !.pc = "collect", !.batch = <<Head(queue)>>, !.taken = 1]
  /\ queue' = Tail(queue)
  /\ UNCHANGED <<disk, phase, counted, lastId, queueBytes, svars, pending, handoff,
                 rvars, ledger, faults, starts>>

WriterCollect ==
  /\ writer.pc = "collect" /\ queue # <<>> /\ Len(writer.batch) < MaxBatch
  /\ writer' = [writer EXCEPT !.batch = Append(@, Head(queue)), !.taken = @ + 1]
  /\ queue' = Tail(queue)
  /\ UNCHANGED <<disk, phase, counted, lastId, queueBytes, svars, pending, handoff,
                 rvars, ledger, faults, starts>>

\* insertEventTxPrepared: a replayed event is looked up before it is inserted.
InsertAlways(table, task) == Append(table, task.event) \* mutant
Insert(table, task) ==
  IF task.replay # None /\ task.event \in Elems(table)
  THEN table ELSE Append(table, task.event)

Insertion ==
  LET table[i \in 0..Len(writer.batch)] ==
        IF i = 0 THEN rows ELSE Insert(table[i - 1], writer.batch[i])
  IN  table[Len(writer.batch)]

IdOf(table, e) == CHOOSE i \in DOMAIN table : table[i] = e
LastInserted ==
  LET ids == {IdOf(Insertion, writer.batch[i].event) : i \in DOMAIN writer.batch}
  IN  CHOOSE n \in ids : \A m \in ids : m <= n

\* The aggregate may be saved: everything it counts is in this transaction.
MaySnapshotEarly == pending <= 0                     \* mutant
MaySnapshot == queue = <<>> /\ pending <= 0

\* The batch is complete and the transaction is open: the aggregate is copied,
\* when it is due, under eventRecordMu and before the commit.
WriterPersist ==
  /\ writer.pc = "collect"
  /\ \E due \in BOOLEAN :
       /\ due => MaySnapshot
       /\ writer' = [writer EXCEPT
            !.pc = "commit",
            !.snap = IF due THEN [agg |-> counted, mark |-> Larger(lastId, LastInserted)]
                     ELSE None]
  /\ UNCHANGED <<disk, phase, counted, lastId, queue, queueBytes, svars, pending,
                 handoff, rvars, ledger, faults, starts>>

WriterCommit ==
  /\ writer.pc = "commit"
  /\ rows' = Insertion
  /\ saved' = IF writer.snap = None THEN saved ELSE writer.snap
  /\ lastId' = Larger(lastId, LastInserted)
  /\ writer' = [writer EXCEPT !.pc = "settle", !.ok = TRUE, !.snap = None]
  /\ UNCHANGED <<active, replayFile, phase, counted, queue, queueBytes, svars,
                 pending, handoff, rvars, ledger, faults, starts>>

\* Any statement of the transaction may fail; it is rolled back as a whole.
WriterFail ==
  /\ writer.pc = "commit" /\ MayGoWrong
  /\ faults' = faults + 1
  /\ writer' = [writer EXCEPT !.pc = "settle", !.ok = FALSE, !.snap = None]
  /\ UNCHANGED <<disk, phase, counted, lastId, queue, queueBytes, svars, pending,
                 handoff, rvars, ledger, starts>>

Current == Head(writer.batch)
NextTask(pc) == [writer EXCEPT !.pc = pc, !.batch = Tail(@)]

\* complete: a failed record goes to the failure file, or, when that cannot be
\* written, the replay file is kept as it is.
SettleReplayed ==
  /\ writer.pc = "settle" /\ writer.batch # <<>> /\ Current.replay # None
  /\ LET r == Current.replay
         R == replay[r]
         counts == [R EXCEPT !.remaining = AtLeast0(@ - 1)]
     IN  \/ /\ ~R.live
            /\ UNCHANGED <<replay, replayFile, feeder, faults>>
         \/ /\ R.live /\ writer.ok
            /\ SettleReplay(r, counts)
            /\ feeder' = FeedersAfter(counts, feeder)
            /\ UNCHANGED faults
         \/ /\ R.live /\ ~writer.ok
            /\ \E after \in {[counts EXCEPT !.failed = Append(@, Current.event)],
                             [counts EXCEPT !.keep = TRUE]} :
                 /\ after.keep # R.keep => MayGoWrong
                 /\ faults' = IF after.keep # R.keep THEN faults + 1 ELSE faults
                 /\ SettleReplay(r, after)
                 /\ feeder' = FeedersAfter(after, feeder)
  /\ pending' = FinishSpool(1)
  /\ writer' = NextTask("settle")
  /\ UNCHANGED <<rows, saved, active, phase, counted, lastId, queue, queueBytes, svars,
                 handoff, spoolMu, ledger, starts>>

SettleStored ==
  /\ writer.pc = "settle" /\ writer.batch # <<>> /\ Current.replay = None /\ writer.ok
  /\ writer' = NextTask("settle")
  /\ UNCHANGED <<disk, phase, counted, lastId, queue, queueBytes, svars, pending,
                 handoff, rvars, ledger, faults, starts>>

\* spoolEventWrite holds storageControlMu and has reserved the bytes: it hands
\* the event to the spool worker, or waits for room with the lock held.
SpoolReserve ==
  /\ writer.pc = "settle" /\ writer.batch # <<>> /\ Current.replay = None /\ ~writer.ok
  /\ phase = "up" /\ SpoolFits
  /\ pending' = pending + 1
  /\ spoolBytes' = spoolBytes + 1
  /\ diverted' = diverted \cup {Current.event}
  /\ writer' = [writer EXCEPT !.pc = "blocked"]
  /\ UNCHANGED <<disk, phase, counted, lastId, queue, queueBytes, spoolQueue, spooling,
                 spoolDone, handoff, rvars, recorded, dropped, crashed, late, early,
                 overlapped, faults, starts>>

SpoolSend ==
  /\ writer.pc = "blocked" /\ Len(spoolQueue) < QueueCap
  /\ spoolQueue' = Append(spoolQueue, Current.event)
  /\ writer' = NextTask("settle")
  /\ UNCHANGED <<disk, phase, counted, lastId, queue, queueBytes, spoolBytes, spooling,
                 spoolDone, pending, handoff, rvars, ledger, faults, starts>>

\* writeEventSpoolNow appends e, or fails and counts a permanent drop; a failed
\* sync or close may leave the line in the file all the same.
WriteSpool(e) ==
  /\ spoolMu = None
  /\ \/ /\ active' = Append(active, e)
        /\ feeder' = Scheduled(feeder)
        /\ UNCHANGED <<dropped, faults>>
     \/ /\ MayGoWrong
        /\ faults' = faults + 1
        /\ active' \in {active, Append(active, e)}
        /\ dropped' = CountDrop(e)
        /\ UNCHANGED feeder

\* Storage control is taken, the writer is stopping or the bytes do not fit:
\* the writer goroutine writes the spool file itself.
SpoolSynchronously ==
  /\ writer.pc = "settle" /\ writer.batch # <<>> /\ Current.replay = None /\ ~writer.ok
  /\ WriteSpool(Current.event)
  /\ diverted' = diverted \cup {Current.event}
  /\ writer' = NextTask("settle")
  /\ UNCHANGED <<rows, saved, replayFile, phase, counted, lastId, queue, queueBytes,
                 svars, pending, handoff, replay, spoolMu, recorded, crashed, late, early,
                 overlapped, starts>>

\* releaseEventWriterTaskBytes.
Released(n) == AtLeast0(queueBytes - n)

WriterBatchDone ==
  /\ writer.pc = "settle" /\ writer.batch = <<>>
  /\ queueBytes' = Released(writer.taken)
  /\ writer' = IdleWriter
  /\ UNCHANGED <<disk, phase, counted, lastId, queue, svars, pending, handoff, rvars,
                 ledger, faults, starts>>

\* saveFinalEventWriterSnapshot; a zero watermark is stored as the newest id.
WriterFinish ==
  /\ phase = "stopping" /\ writer.pc = "select" /\ queue = <<>>
  /\ writer' = [writer EXCEPT !.pc = "done"]
  /\ \/ /\ ~MaySnapshot
        /\ UNCHANGED <<saved, faults>>
     \/ /\ MaySnapshot
        /\ saved' = [agg |-> counted, mark |-> IF lastId = 0 THEN Len(rows) ELSE lastId]
        /\ UNCHANGED faults
     \/ /\ MaySnapshot /\ MayGoWrong
        /\ faults' = faults + 1
        /\ UNCHANGED saved
  /\ UNCHANGED <<rows, active, replayFile, phase, counted, lastId, queue, queueBytes,
                 svars, pending, handoff, rvars, ledger, starts>>

-----------------------------------------------------------------------------
(***************************************************************************)
(* eventSpoolLoop.                                                         *)
(***************************************************************************)
SpoolWorks == Running

SpoolDrainedEarly == spooling = None                 \* mutant
SpoolDrained == spooling = None /\ spoolQueue = <<>>

SpoolTake ==
  /\ SpoolWorks /\ ~spoolDone /\ spooling = None /\ spoolQueue # <<>>
  /\ spooling' = Head(spoolQueue)
  /\ spoolQueue' = Tail(spoolQueue)
  /\ UNCHANGED <<disk, phase, counted, lastId, wvars, spoolBytes, spoolDone, pending,
                 handoff, rvars, ledger, faults, starts>>

SpoolWrite ==
  /\ spooling # None
  /\ WriteSpool(spooling)
  /\ pending' = FinishSpool(1)
  /\ spoolBytes' = AtLeast0(spoolBytes - 1)
  /\ spooling' = None
  /\ UNCHANGED <<rows, saved, replayFile, phase, counted, lastId, wvars, spoolQueue,
                 spoolDone, handoff, replay, spoolMu, recorded, crashed, diverted, late, early,
                 overlapped, starts>>

SpoolFinish ==
  /\ phase = "stopping" /\ ~spoolDone /\ SpoolDrained
  /\ spoolDone' = TRUE
  /\ UNCHANGED <<disk, phase, counted, lastId, wvars, spoolQueue, spoolBytes, spooling,
                 pending, handoff, rvars, ledger, faults, starts>>

-----------------------------------------------------------------------------
(***************************************************************************)
(* replayEventSpool, run by the startup goroutine and by the retry         *)
(* goroutine of scheduleEventSpoolReplay.                                  *)
(***************************************************************************)
Goto(g, pc) == [feeder EXCEPT ![g].pc = pc]

\* Where a feeder goes when replayEventSpool returns.
Returned(g) ==
  [feeder EXCEPT ![g] = [IdleFeeder EXCEPT !.pc = IF g = "retry" THEN "exist" ELSE "off"]]

\* Another replay of this store has not finished.
Overlaps(g) ==
  \/ \E r \in Replays : replay[r].live
  \/ \E h \in Feeders \ {g} : feeder[h].pc \in {"unlink", "scan", "open", "feed"}

\* mergeEventSpoolFiles: rename the active file, or copy it behind the replay
\* file and, in a second step, remove it.
Merge(g) ==
  /\ feeder[g].pc = "merge" /\ spoolMu = None
  /\ overlapped' = (overlapped \/ Overlaps(g))
  /\ \/ /\ active = <<>>
        /\ feeder' = Goto(g, "scan")
        /\ UNCHANGED <<active, replayFile, spoolMu>>
     \/ /\ active # <<>> /\ replayFile = <<>>
        /\ replayFile' = active /\ active' = <<>>
        /\ feeder' = Goto(g, "scan")
        /\ UNCHANGED spoolMu
     \/ /\ active # <<>> /\ replayFile # <<>>
        /\ replayFile' = replayFile \o active
        /\ feeder' = [h \in Feeders |->
                        [Goto(g, "unlink")[h] EXCEPT
                           !.rest = IF feeder[h].attached THEN @ \o active ELSE @]]
        /\ spoolMu' = g
        /\ UNCHANGED active
  /\ UNCHANGED <<rows, saved, phase, counted, lastId, wvars, svars, pending, handoff,
                 replay, recorded, dropped, crashed, diverted, late, early, faults, starts>>

Unlink(g) ==
  /\ feeder[g].pc = "unlink"
  /\ active' = <<>>
  /\ spoolMu' = None
  /\ feeder' = Goto(g, "scan")
  /\ UNCHANGED <<rows, saved, replayFile, phase, counted, lastId, wvars, svars, pending,
                 handoff, replay, ledger, faults, starts>>

\* A replay object nothing refers to.
Unused(r) ==
  /\ ~replay[r].live
  /\ \A i \in DOMAIN queue : queue[i].replay # r
  /\ \A i \in DOMAIN writer.batch : writer.batch[i].replay # r
  /\ \A g \in Feeders : feeder[g].replay # r

\* The first scan counts the records.
Scan(g) ==
  /\ feeder[g].pc = "scan"
  /\ \/ /\ replayFile = <<>>
        /\ feeder' = Returned(g)
        /\ UNCHANGED <<replay, pending>>
     \/ /\ replayFile # <<>>
        /\ \E r \in Replays :
             /\ Unused(r)
             /\ replay' = [replay EXCEPT ![r] = [NoReplay EXCEPT
                             !.live = TRUE, !.remaining = Len(replayFile)]]
             /\ feeder' = [feeder EXCEPT ![g].pc = "open", ![g].replay = r,
                                         ![g].left = Len(replayFile)]
        /\ pending' = pending + Len(replayFile)
  /\ UNCHANGED <<disk, phase, counted, lastId, wvars, svars, handoff, spoolMu, ledger,
                 faults, starts>>

\* cancelUnqueued: the records not queued stay in the file for another replay.
Cancel(g) ==
  LET r == feeder[g].replay
      R == replay[r]
      count == IF feeder[g].left > R.remaining THEN R.remaining ELSE feeder[g].left
      after == [R EXCEPT !.remaining = @ - count, !.keep = TRUE, !.read = TRUE]
  IN  IF feeder[g].left <= 0
      THEN /\ feeder' = Returned(g)
           /\ UNCHANGED <<replay, replayFile, pending>>
      ELSE /\ SettleReplay(r, after)
           /\ feeder' = FeedersAfter(after, Returned(g))
           /\ pending' = FinishSpool(count)

\* The second scan opens the file by its path again; another replay may have
\* removed it.
Open(g) ==
  /\ feeder[g].pc = "open"
  /\ \/ /\ replayFile = <<>>
        /\ Cancel(g)
     \/ /\ replayFile # <<>>
        /\ feeder' = [feeder EXCEPT ![g].pc = "feed", ![g].rest = replayFile,
                                    ![g].attached = TRUE]
        /\ UNCHANGED <<replay, replayFile, pending>>
  /\ UNCHANGED <<rows, saved, active, phase, counted, lastId, wvars, svars, handoff,
                 spoolMu, ledger, faults, starts>>

\* One record is queued; the startup replay also counts it in memory.
Feed(g) ==
  /\ feeder[g].pc = "feed" /\ feeder[g].rest # <<>>
  /\ phase = "up" /\ ControlFree /\ QueueAccepts
  /\ LET e == Head(feeder[g].rest)
     IN  /\ queue' = Append(queue, [event |-> e, replay |-> feeder[g].replay])
         /\ counted' = IF g = "startup" THEN [counted EXCEPT ![e] = @ + 1] ELSE counted
  /\ queueBytes' = queueBytes + 1
  /\ feeder' = [feeder EXCEPT ![g].rest = Tail(@), ![g].left = @ - 1]
  /\ UNCHANGED <<disk, phase, lastId, writer, svars, pending, handoff, replay, spoolMu,
                 ledger, faults, starts>>

FeedStop(g) ==
  /\ feeder[g].pc = "feed" /\ feeder[g].rest # <<>>
  /\ phase = "stopping"
  /\ Cancel(g)
  /\ UNCHANGED <<rows, saved, active, phase, counted, lastId, wvars, svars, handoff,
                 spoolMu, ledger, faults, starts>>

\* markReadComplete.
MarkRead(R) == [R EXCEPT !.read = TRUE]

FeedEnd(g) ==
  /\ feeder[g].pc = "feed" /\ feeder[g].rest = <<>>
  /\ LET r == feeder[g].replay
         after == MarkRead(replay[r])
     IN  /\ SettleReplay(r, after)
         /\ feeder' = FeedersAfter(after, Returned(g))
  /\ UNCHANGED <<rows, saved, active, phase, counted, lastId, wvars, svars, pending,
                 handoff, spoolMu, ledger, faults, starts>>

-----------------------------------------------------------------------------
(***************************************************************************)
(* scheduleEventSpoolReplay: the rest of the retry goroutine's loop.       *)
(***************************************************************************)
Retry(from, to) ==
  /\ feeder["retry"].pc = from
  /\ feeder' = Goto("retry", to)
  /\ UNCHANGED <<disk, phase, counted, lastId, wvars, svars, pending, handoff, replay,
                 spoolMu, ledger, faults, starts>>

RetryBegin ==
  /\ ControlFree
  /\ \/ phase = "up" /\ Retry("begin", "merge")
     \/ phase = "stopping" /\ Retry("begin", "exiting")

\* eventSpoolFilesExist
RetryExist ==
  /\ spoolMu = None
  /\ \/ active \o replayFile # <<>> /\ Retry("exist", "wait")
     \/ active \o replayFile = <<>> /\ Retry("exist", "exiting")

RetryWait ==
  \/ Retry("wait", "begin")
  \/ phase = "stopping" /\ Retry("wait", "exiting")

\* The deferred function: until it runs, schedule still sees a running retry.
RetryExit ==
  /\ feeder["retry"].pc = "exiting"
  /\ feeder' = [feeder EXCEPT !["retry"] = IdleFeeder]
  /\ UNCHANGED <<disk, phase, counted, lastId, wvars, svars, pending, handoff, replay,
                 spoolMu, ledger, faults, starts>>

-----------------------------------------------------------------------------
WriterStep ==
  \/ WriterTake \/ WriterCollect \/ WriterPersist \/ WriterCommit \/ WriterFail
  \/ SettleReplayed \/ SettleStored \/ SpoolReserve \/ SpoolSend \/ SpoolSynchronously
  \/ WriterBatchDone \/ WriterFinish

SpoolStep == SpoolTake \/ SpoolWrite \/ SpoolFinish

FeederStep(g) ==
  Merge(g) \/ Unlink(g) \/ Scan(g) \/ Open(g) \/ Feed(g) \/ FeedStop(g) \/ FeedEnd(g)

RetryStep == RetryBegin \/ RetryExist \/ RetryWait \/ RetryExit

HandOffStep(e) == HandOff(e) \/ HandOffDrop(e)

Next ==
  \/ Start \/ Stop \/ Stopped \/ Ended \/ Crash \/ PruneSQLite
  \/ \E e \in Events : Record(e) \/ RecordLate(e) \/ HandOffStep(e)
  \/ WriterStep \/ SpoolStep
  \/ \E g \in Feeders : FeederStep(g)
  \/ RetryStep

Spec == Init /\ [][Next]_vars

-----------------------------------------------------------------------------
(***************************************************************************)
(* Properties.                                                             *)
(***************************************************************************)

\* As long as no replay overlaps another one, an event that Record took is in
\* the table, in a spool file, in a queue of the running process, counted as a
\* permanent drop, or was only in memory when the process crashed or stopped.
NoSilentLoss ==
  ~overlapped =>
    recorded \subseteq Stored \cup InMemory \cup dropped \cup crashed \cup late

\* However often a spooled event is replayed, by whichever goroutine and after
\* whichever crash, insertEventTxPrepared leaves at most one row of it.
NoDuplicateRows == \A i, j \in DOMAIN rows : rows[i] = rows[j] => i = j

\* A process that starts now, after a crash at any point, recovers an aggregate
\* that counts an event that never left the direct path exactly when its row is
\* in the table: the aggregate the writer saves and its watermark agree.
RecoveryExact ==
  \A e \in recorded \ (diverted \cup late \cup early) :
    Recovered[e] = IF e \in Elems(rows) THEN 1 ELSE 0

OnTheWay ==
  Len(spoolQueue) + Cardinality({spooling} \ {None})
  + (IF writer.pc = "blocked" THEN 1 ELSE 0)

\* The counters that decide about room and about saving the aggregate are what
\* they count: the bytes of both queues are what their tasks hold, so neither
\* is shut by bytes nobody holds nor grows past its limit, and
\* eventWriterSpoolPending, which keeps an aggregate with unstored events from
\* being saved, is the number of events on their way to or from the spool.
QueuesExact ==
  Running =>
    /\ queueBytes = Len(queue) + writer.taken
    /\ spoolBytes = OnTheWay
    /\ queueBytes <= WriterBytes /\ spoolBytes <= SpoolBytes
    /\ ~overlapped =>
         pending = OnTheWay + SumFunction([r \in Replays |-> replay[r].remaining])

-----------------------------------------------------------------------------
(***************************************************************************)
(* Progress.  Every goroutine that can go on does; nothing obliges the     *)
(* host to record, to stop or to start, and faults and crashes may happen  *)
(* or not.                                                                 *)
(***************************************************************************)
Fairness ==
  /\ WF_vars(WriterStep) /\ WF_vars(SpoolStep) /\ WF_vars(RetryStep)
  /\ \A g \in Feeders : WF_vars(FeederStep(g))
  /\ \A e \in Events : WF_vars(HandOffStep(e))
  /\ WF_vars(Stopped)

FairSpec == Spec /\ Fairness

\* The pipeline comes to rest.  An event that Record took does not stay in
\* memory for ever: the writer, the spool worker and the hand-off bring it to
\* the table or a spool file, or drop it and count the drop, unless the process
\* goes down first.  A stop ends, even while spoolEventWrite waits for room with
\* storageControlMu held.  A replay ends when its file has been removed,
\* rewritten or left to another replay.
PipelineSettles ==
  /\ \A e \in Events :
       e \in recorded ~>
         (e \in Stored \cup dropped \cup crashed \cup late \/ overlapped)
  /\ phase = "stopping" ~> phase = "down"
  /\ \A r \in Replays : replay[r].live ~> (~replay[r].live \/ overlapped)
=============================================================================
