---------------------------- MODULE StoreControl ----------------------------
(***************************************************************************)
(* Who may use which SQLite store when: storageControlMu, storageWriteWG   *)
(* and storageQueryWG of RequestStatistics (go/stats.go), as Record, the   *)
(* writer goroutine with its retention timer (go/event_writer.go),         *)
(* dashboard queries, ConfigurePatch and Close use them.                   *)
(*                                                                         *)
(* A caller records one event.  A store is one opened *eventStore: a path  *)
(* that is opened again is another store.  A critical section that never   *)
(* waits is one step; `control` holds the goroutine that waits inside one. *)
(***************************************************************************)
EXTENDS Integers, Sequences, SequencesExt

CONSTANTS
  Callers,     (* the events, each recorded by a callback of its own         *)
  Readers,     (* dashboard queries                                          *)
  Stores,      (* the stores ConfigurePatch opens                            *)
  Writer, Admin, Closer,  (* eventWriterLoop, ConfigurePatch and Close       *)
  QueueCap,    (* capacity of eventWriterQueue                               *)
  TimerFired,  (* whether the minute timer of the writer may fire: it takes  *)
               (* storageControlMu even when no retention is configured      *)
  NoStore,     (* persistence is off                                         *)
  None         (* nobody                                                     *)

ASSUME StoreAssumption ==
  /\ QueueCap \in Nat \ {0} /\ TimerFired \in BOOLEAN /\ NoStore \notin Stores
  /\ None \notin Callers \cup Readers \cup {Writer, Admin, Closer}
  /\ Writer # Admin /\ Writer # Closer /\ Admin # Closer
  /\ {Writer, Admin, Closer} \cap Readers = {}

VARIABLES
  control,    (* the goroutine waiting with storageControlMu held, or None   *)
  store,      (* s.eventStore                                                *)
  opened,     (* stores opened so far                                        *)
  closed,     (* stores closed                                               *)
  copied,     (* stores whose rows were copied to their successor            *)
  queue,      (* eventWriterQueue: [caller, store]                           *)
  batch,      (* the writer's batch                                          *)
  failed,     (* the batch's transaction failed                              *)
  writerPC, stopping,
  event,      (* where each caller's event is                                *)
  readerPC, readerStore,
  accepted,   (* history: events accepted by the queue when a query began    *)
  adminPC, target,        (* ConfigurePatch and the store it switches to     *)
  retiring,   (* the store that ConfigurePatch or Close is about to close    *)
  closePC

wvars == <<queue, batch, failed, writerPC>>
rvars == <<readerPC, readerStore, accepted>>
avars == <<opened, copied, adminPC, target>>
vars  == <<control, store, closed, wvars, stopping, event, rvars, avars, retiring,
           closePC>>

Task == [caller : Callers, store : Stores]

TypeOK ==
  /\ control \in Readers \cup {Writer, Admin, Closer, None}
  /\ store \in Stores \cup {NoStore}
  /\ opened \subseteq Stores /\ closed \subseteq opened /\ copied \subseteq opened
  /\ queue \in Seq(Task) /\ Len(queue) <= QueueCap
  /\ batch \in Seq(Task)
  /\ failed \in BOOLEAN
  /\ writerPC \in {"select", "persist", "settle", "handoff", "timer", "done"}
  /\ stopping \in BOOLEAN
  /\ event \in [Callers -> {"none", "recording", "queued", "stored", "spooled",
                            "overflow", "memory"}]
  /\ readerPC \in [Readers -> {"idle", "calling", "drain", "reading"}]
  /\ readerStore \in [Readers -> Stores \cup {NoStore}]
  /\ accepted \in [Readers -> SUBSET Callers]
  /\ adminPC \in {"idle", "drain", "switch", "retire"}
  /\ target \in Stores \cup {NoStore}
  /\ retiring \in Stores \cup {NoStore}
  /\ closePC \in {"idle", "calling", "await", "retire", "done"}

Init ==
  /\ control = None
  /\ \E s \in Stores : store = s /\ opened = {s}
  /\ closed = {} /\ copied = {}
  /\ queue = <<>> /\ batch = <<>> /\ failed = FALSE
  /\ writerPC = "select" /\ stopping = FALSE
  /\ event = [c \in Callers |-> "none"]
  /\ readerPC = [r \in Readers |-> "idle"]
  /\ readerStore = [r \in Readers |-> NoStore]
  /\ accepted = [r \in Readers |-> {}]
  /\ adminPC = "idle" /\ target = NoStore /\ retiring = NoStore
  /\ closePC = "idle"

\* storageWriteWG and storageQueryWG.
Reading == {r \in Readers : readerPC[r] = "reading"}
WritesDone == queue = <<>> /\ batch = <<>>
UsesDone == WritesDone /\ Reading = {}

-----------------------------------------------------------------------------
(***************************************************************************)
(* Record and enqueueEventWriteLocked.                                     *)
(***************************************************************************)
CallRecord(c) ==
  /\ event[c] = "none"
  /\ event' = [event EXCEPT ![c] = "recording"]
  /\ UNCHANGED <<control, store, closed, wvars, stopping, rvars, avars, retiring,
                 closePC>>

HasRoomForOneMore == Len(queue) <= QueueCap            \* mutant
HasRoom == Len(queue) < QueueCap

Record(c) ==
  /\ event[c] = "recording" /\ control = None
  /\ \/ /\ store # NoStore /\ ~stopping /\ HasRoom
        /\ queue' = Append(queue, [caller |-> c, store |-> store])
        /\ event' = [event EXCEPT ![c] = "queued"]
     \/ /\ store # NoStore /\ ~stopping /\ ~HasRoom
        /\ event' = [event EXCEPT ![c] = "overflow"]
        /\ UNCHANGED queue
     \/ /\ store = NoStore \/ stopping
        /\ event' = [event EXCEPT ![c] = "memory"]
        /\ UNCHANGED queue
  /\ UNCHANGED <<control, store, closed, batch, failed, writerPC, stopping, rvars,
                 avars, retiring, closePC>>

-----------------------------------------------------------------------------
(***************************************************************************)
(* eventWriterLoop.  Its select may prefer the timer to a waiting task.    *)
(***************************************************************************)
WriterTake ==
  /\ writerPC = "select" /\ queue # <<>>
  /\ \E n \in 1..Len(queue) :
       /\ batch' = SubSeq(queue, 1, n)
       /\ queue' = SubSeq(queue, n + 1, Len(queue))
  /\ writerPC' = "persist"
  /\ UNCHANGED <<control, store, closed, failed, stopping, event, rvars, avars,
                 retiring, closePC>>

\* persistEventWriteGroup needs no storageControlMu.
WriterPersist ==
  /\ writerPC = "persist"
  /\ failed' \in BOOLEAN
  /\ writerPC' = "settle"
  /\ UNCHANGED <<control, store, closed, queue, batch, stopping, event, rvars, avars,
                 retiring, closePC>>

Settle(outcome) ==
  /\ event' = [event EXCEPT ![Head(batch).caller] = outcome]
  /\ batch' = Tail(batch)
  /\ writerPC' = IF Tail(batch) = <<>> THEN "select" ELSE "settle"

SettleStored ==
  /\ writerPC = "settle" /\ ~failed
  /\ Settle("stored")
  /\ UNCHANGED <<control, store, closed, queue, failed, stopping, rvars, avars,
                 retiring, closePC>>

\* spoolEventWrite tries the lock: with it, it hands the event to the spool
\* worker and may have to wait for room; without it, it writes the file itself.
SpoolLock ==
  /\ writerPC = "settle" /\ failed
  /\ control = None /\ ~stopping
  /\ control' = Writer
  /\ writerPC' = "handoff"
  /\ UNCHANGED <<store, closed, queue, batch, failed, stopping, event, rvars, avars,
                 retiring, closePC>>

SpoolHandOff ==
  /\ writerPC = "handoff"
  /\ control' = None
  /\ Settle("spooled")
  /\ UNCHANGED <<store, closed, queue, failed, stopping, rvars, avars, retiring,
                 closePC>>

TryLockOrWait == control = None                      \* mutant
TryLock == TRUE

SpoolSynchronously ==
  /\ writerPC = "settle" /\ failed
  /\ TryLock
  /\ Settle("spooled")
  /\ UNCHANGED <<control, store, closed, queue, failed, stopping, rvars, avars,
                 retiring, closePC>>

\* runEventRetentionMaintenance: the minute timer fired.
TimerFires ==
  /\ TimerFired /\ writerPC = "select" /\ ~stopping
  /\ writerPC' = "timer"
  /\ UNCHANGED <<control, store, closed, queue, batch, failed, stopping, event, rvars,
                 avars, retiring, closePC>>

TimerPrunes ==
  /\ writerPC = "timer" /\ control = None
  /\ writerPC' = "select"
  /\ UNCHANGED <<control, store, closed, queue, batch, failed, stopping, event, rvars,
                 avars, retiring, closePC>>

\* saveFinalEventWriterSnapshot, with storageControlMu, is the last thing it does.
WriterFinish ==
  /\ writerPC = "select" /\ stopping /\ queue = <<>> /\ control = None
  /\ writerPC' = "done"
  /\ UNCHANGED <<control, store, closed, queue, batch, failed, stopping, event, rvars,
                 avars, retiring, closePC>>

-----------------------------------------------------------------------------
(***************************************************************************)
(* Dashboard queries: acquireEventStore, the query, and its release.       *)
(***************************************************************************)
CallQuery(r) ==
  /\ readerPC[r] = "idle"
  /\ readerPC' = [readerPC EXCEPT ![r] = "calling"]
  /\ accepted' = [accepted EXCEPT ![r] =
                    {c \in Callers : event[c] \in {"queued", "stored", "spooled"}}]
  /\ UNCHANGED <<control, store, closed, wvars, stopping, event, readerStore, avars,
                 retiring, closePC>>

QueryLock(r) ==
  /\ readerPC[r] = "calling" /\ control = None
  /\ control' = r
  /\ readerPC' = [readerPC EXCEPT ![r] = "drain"]
  /\ UNCHANGED <<store, closed, wvars, stopping, event, readerStore, accepted, avars,
                 retiring, closePC>>

\* The wait for storageWriteWG, under the lock.
AtOnce == TRUE                                       \* mutant
WritesVisible == WritesDone

QueryAcquire(r) ==
  /\ readerPC[r] = "drain" /\ WritesVisible
  /\ control' = None
  /\ readerStore' = [readerStore EXCEPT ![r] = store]
  /\ readerPC' = [readerPC EXCEPT ![r] = IF store = NoStore THEN "idle" ELSE "reading"]
  /\ UNCHANGED <<store, closed, wvars, stopping, event, accepted, avars, retiring,
                 closePC>>

QueryRelease(r) ==
  /\ readerPC[r] = "reading"
  /\ readerPC' = [readerPC EXCEPT ![r] = "idle"]
  /\ readerStore' = [readerStore EXCEPT ![r] = NoStore]
  /\ UNCHANGED <<control, store, closed, wvars, stopping, event, accepted, avars,
                 retiring, closePC>>

-----------------------------------------------------------------------------
(***************************************************************************)
(* ConfigurePatch with a new storage path, or with storage switched on or  *)
(* off.  The host does not reconfigure a plugin that it is shutting down.  *)
(***************************************************************************)
SwitchLock(s) ==
  /\ adminPC = "idle" /\ closePC = "idle" /\ control = None
  /\ s # store /\ s \notin opened
  /\ control' = Admin
  /\ target' = s
  /\ opened' = opened \cup ({s} \ {NoStore})
  /\ adminPC' = IF s # NoStore /\ store # NoStore THEN "drain" ELSE "switch"
  /\ UNCHANGED <<store, closed, wvars, stopping, event, rvars, copied, retiring, closePC>>

\* The wait for storageWriteWG before copyFrom; a destination that already has
\* rows is not copied to.
BeforeCopyAtOnce == TRUE                             \* mutant
BeforeCopy == WritesDone

SwitchCopy ==
  /\ adminPC = "drain" /\ BeforeCopy
  /\ copied' \in {copied, copied \cup {store}}
  /\ adminPC' = "switch"
  /\ UNCHANGED <<control, store, closed, wvars, stopping, event, rvars, opened, target,
                 retiring, closePC>>

\* The new store could not be loaded: it is closed and the old one stays.
SwitchFail ==
  /\ adminPC = "switch" /\ target # NoStore
  /\ closed' = closed \cup {target}
  /\ copied' = copied \ {store}
  /\ control' = None
  /\ adminPC' = "idle"
  /\ UNCHANGED <<store, wvars, stopping, event, rvars, opened, target, retiring, closePC>>

SwitchStore ==
  /\ adminPC = "switch"
  /\ store' = target
  /\ retiring' = store
  /\ adminPC' = "retire"
  /\ UNCHANGED <<control, closed, wvars, stopping, event, rvars, opened, copied, target,
                 closePC>>

\* The wait for storageQueryWG before the old store is closed.
BeforeCloseWrites == WritesDone                      \* mutant
BeforeClose == UsesDone

SwitchRetire ==
  /\ adminPC = "retire" /\ (retiring # NoStore => BeforeClose)
  /\ closed' = closed \cup ({retiring} \ {NoStore})
  /\ retiring' = NoStore
  /\ control' = None
  /\ adminPC' = "idle"
  /\ UNCHANGED <<store, wvars, stopping, event, rvars, opened, copied, target, closePC>>

-----------------------------------------------------------------------------
(***************************************************************************)
(* Close: stopEventWriter, then the store.                                 *)
(***************************************************************************)
CallClose ==
  /\ closePC = "idle"
  /\ closePC' = "calling"
  /\ UNCHANGED <<control, store, closed, wvars, stopping, event, rvars, avars, retiring>>

CloseStop ==
  /\ closePC = "calling" /\ control = None
  /\ stopping' = TRUE
  /\ closePC' = "await"
  /\ UNCHANGED <<control, store, closed, wvars, event, rvars, avars, retiring>>

CloseTake ==
  /\ closePC = "await" /\ writerPC = "done" /\ control = None
  /\ control' = Closer
  /\ retiring' = store
  /\ store' = NoStore
  /\ closePC' = "retire"
  /\ UNCHANGED <<closed, wvars, stopping, event, rvars, avars>>

CloseRetire ==
  /\ closePC = "retire" /\ (retiring # NoStore => BeforeClose)
  /\ closed' = closed \cup ({retiring} \ {NoStore})
  /\ retiring' = NoStore
  /\ control' = None
  /\ closePC' = "done"
  /\ UNCHANGED <<store, wvars, stopping, event, rvars, avars>>

-----------------------------------------------------------------------------
WriterOwn == WriterTake \/ WriterPersist \/ SettleStored \/ SpoolLock \/ SpoolHandOff
             \/ SpoolSynchronously
WriterStep == WriterOwn \/ TimerFires \/ TimerPrunes \/ WriterFinish

QueryStep(r) == CallQuery(r) \/ QueryLock(r) \/ QueryAcquire(r) \/ QueryRelease(r)

SwitchStep == SwitchCopy \/ SwitchFail \/ SwitchStore \/ SwitchRetire

CloseStep == CloseStop \/ CloseTake \/ CloseRetire

Next ==
  \/ \E c \in Callers : CallRecord(c) \/ Record(c)
  \/ WriterStep
  \/ \E r \in Readers : QueryStep(r)
  \/ \E s \in Stores \cup {NoStore} : SwitchLock(s)
  \/ SwitchStep
  \/ CallClose \/ CloseStep

Spec == Init /\ [][Next]_vars

-----------------------------------------------------------------------------
(***************************************************************************)
(* Properties.                                                             *)
(***************************************************************************)
Elems(tasks) == {tasks[i] : i \in DOMAIN tasks}

\* A store is never closed under a query that reads it or under an accepted
\* write, however switches, queries, writes and Close interleave.
OpenWhileUsed ==
  /\ store \notin closed
  /\ \A r \in Reading : readerStore[r] \notin closed
  /\ \A t \in Elems(queue) \cup Elems(batch) : t.store \notin closed

\* A storage switch copies the old database after every event accepted for it
\* is settled, so none of them is written to the old database only.
CopyMissesNothing ==
  \A t \in Elems(queue) \cup Elems(batch) : t.store \notin copied

\* A query sees every event that the writer queue accepted before the query
\* began, unless the event went to the spool.
ReadsAccepted ==
  \A r \in Reading : \A c \in accepted[r] : event[c] # "queued"

\* What brings a waiting operation on: the writer, a query that ends, and the
\* operations that have the lock or could take it.
Progress ==
  \/ WriterOwn \/ WriterFinish \/ SwitchStep \/ CloseStep
  \/ \E c \in Callers : Record(c)
  \/ \E r \in Readers : QueryLock(r) \/ QueryAcquire(r) \/ QueryRelease(r)

Waiting ==
  \/ control # None \/ closePC \in {"calling", "await"}
  \/ \E c \in Callers : event[c] = "recording"
  \/ \E r \in Readers : readerPC[r] = "calling"

\* Record, queries, a storage switch, Close and the writer wait for each other,
\* some with storageControlMu held, and never all of them at once: the queue
\* and the queries that are waited for shrink.  The exception is the writer
\* that waits for the lock because its timer fired (HolderGoesOn).
NobodyStuck == Waiting /\ writerPC # "timer" => ENABLED Progress

\* go/stats.go:1711 "The control mutex is held only long enough to pair the
\* reference with the WaitGroup": whoever holds it gets on.
HolderGoesOn == control # None => ENABLED Progress
=============================================================================
