---------------------------- MODULE StorageProofs ----------------------------
(***************************************************************************)
(* What holds of the stores for every number of callbacks, queries and     *)
(* stores and every length of the writer's queue, and of the database of   *)
(* events and its counters for every set of events, retention window,      *)
(* limit and length of run.                                                *)
(***************************************************************************)
EXTENDS StoreControl, EventLedger, DataLemmas

(***************************************************************************)
(* The tasks of a sequence.                                                *)
(***************************************************************************)
\* Taking n tasks leaves the others, and none is in neither part.
LEMMA SplitElems ==
  ASSUME NEW S, NEW q \in Seq(S), NEW n \in 1..Len(q)
  PROVE  /\ SubSeq(q, 1, n) \in Seq(S) /\ SubSeq(q, n + 1, Len(q)) \in Seq(S)
         /\ Len(SubSeq(q, n + 1, Len(q))) = Len(q) - n
         /\ SubSeq(q, 1, n) # <<>>
         /\ Elems(SubSeq(q, 1, n)) \cup Elems(SubSeq(q, n + 1, Len(q))) = Elems(q)
<1>1. /\ SubSeq(q, 1, n) \in Seq(S) /\ SubSeq(q, n + 1, Len(q)) \in Seq(S)
      /\ Len(SubSeq(q, 1, n)) = n
      /\ Len(SubSeq(q, n + 1, Len(q))) = Len(q) - n
  OBVIOUS
<1>2. /\ \A i \in 1..n : SubSeq(q, 1, n)[i] = q[i]
      /\ \A i \in 1..(Len(q) - n) : SubSeq(q, n + 1, Len(q))[i] = q[n + i]
  OBVIOUS
<1>3. SubSeq(q, 1, n) # <<>>
  BY <1>1
<1>4. ASSUME NEW i \in DOMAIN q
      PROVE  q[i] \in Elems(SubSeq(q, 1, n)) \cup Elems(SubSeq(q, n + 1, Len(q)))
  <2>1. CASE i <= n
    BY <2>1, <1>1, <1>2 DEF Elems
  <2>2. CASE i > n
    <3>1. i - n \in 1..(Len(q) - n) /\ n + (i - n) = i
      BY <2>2
    <3>2. SubSeq(q, n + 1, Len(q))[i - n] = q[i] /\ i - n \in DOMAIN SubSeq(q, n + 1, Len(q))
      BY <3>1, <1>1, <1>2
    <3>3. QED
      BY <3>2 DEF Elems
  <2>3. QED
    BY <2>1, <2>2
<1>5. Elems(SubSeq(q, 1, n)) \cup Elems(SubSeq(q, n + 1, Len(q))) \subseteq Elems(q)
  BY <1>1, <1>2 DEF Elems
<1>6. QED
  BY <1>1, <1>3, <1>4, <1>5 DEF Elems

\* Appending adds one task.
LEMMA AppendElems ==
  ASSUME NEW S, NEW q \in Seq(S), NEW t \in S
  PROVE  /\ Append(q, t) \in Seq(S) /\ Len(Append(q, t)) = Len(q) + 1
         /\ Elems(Append(q, t)) = Elems(q) \cup {t}
<1>1. /\ Append(q, t) \in Seq(S) /\ Len(Append(q, t)) = Len(q) + 1
      /\ \A i \in 1..Len(q) : Append(q, t)[i] = q[i]
      /\ Append(q, t)[Len(q) + 1] = t
  OBVIOUS
<1>2. Elems(Append(q, t)) \subseteq Elems(q) \cup {t}
  BY <1>1 DEF Elems
<1>3. t \in Elems(Append(q, t)) /\ Elems(q) \subseteq Elems(Append(q, t))
  <2>1. Len(q) + 1 \in DOMAIN Append(q, t) /\ DOMAIN q \subseteq DOMAIN Append(q, t)
    BY <1>1
  <2>2. QED
    BY <1>1, <2>1 DEF Elems
<1>4. QED
  BY <1>1, <1>2, <1>3

\* The head and the others are all there is.
LEMMA TailElems ==
  ASSUME NEW S, NEW q \in Seq(S), q # <<>>
  PROVE  /\ Head(q) \in S /\ Tail(q) \in Seq(S)
         /\ Elems(q) = Elems(Tail(q)) \cup {Head(q)}
<1>1. /\ Head(q) \in S /\ Tail(q) \in Seq(S) /\ Len(Tail(q)) = Len(q) - 1
      /\ Head(q) = q[1] /\ 1 \in DOMAIN q
      /\ \A i \in 1..(Len(q) - 1) : Tail(q)[i] = q[i + 1]
  OBVIOUS
<1>2. Elems(Tail(q)) \cup {Head(q)} \subseteq Elems(q)
  BY <1>1 DEF Elems
<1>3. ASSUME NEW i \in DOMAIN q PROVE q[i] \in Elems(Tail(q)) \cup {Head(q)}
  <2>1. CASE i = 1
    BY <1>1, <2>1
  <2>2. CASE i # 1
    <3>1. i - 1 \in DOMAIN Tail(q) /\ (i - 1) + 1 = i
      BY <1>1, <2>2
    <3>2. Tail(q)[i - 1] = q[i]
      BY <1>1, <3>1
    <3>3. QED
      BY <3>1, <3>2 DEF Elems
  <2>3. QED
    BY <2>1, <2>2
<1>4. QED
  BY <1>1, <1>2, <1>3 DEF Elems

\* No sequence, no tasks.
LEMMA NoElems ==
  ASSUME NEW S, NEW q \in Seq(S)
  PROVE  Elems(q) = {} <=> q = <<>>
  BY DEF Elems

(***************************************************************************)
(* Types, and what they need: who has the lock, when the writer has a      *)
(* batch, and that every store in use was opened.                          *)
(***************************************************************************)
\* The lock is held by the goroutine that waits inside its critical section.
Controlled ==
  /\ control = Writer <=> writerPC = "handoff"
  /\ control = Admin <=> adminPC # "idle"
  /\ control = Closer <=> closePC = "retire"
  /\ \A r \in Readers : control = r <=> readerPC[r] = "drain"

\* The writer has a batch from taking it to settling its last task.
Batched == batch = <<>> <=> writerPC \in {"select", "timer", "done"}

\* Who is referred to was opened.
Opened ==
  /\ store # NoStore => store \in opened
  /\ retiring # NoStore => retiring \in opened /\ (adminPC = "retire" \/ closePC = "retire")
  /\ adminPC \in {"drain", "switch"} /\ target # NoStore => target \in opened
  /\ adminPC = "drain" => store # NoStore

\* Types with what they need.
Shape == TypeOK /\ Controlled /\ Batched /\ Opened

\* The first store is open and nothing runs.
LEMMA InitShape == Init => Shape
<1> SUFFICES ASSUME Init PROVE Shape
  OBVIOUS
<1>1. store \in Stores /\ opened = {store} /\ store # NoStore
  BY StoreAssumption DEF Init
<1>2. queue \in Seq(Task) /\ batch \in Seq(Task) /\ Len(queue) = 0
  BY DEF Init
<1>3. TypeOK
  <2>1. failed \in BOOLEAN /\ stopping \in BOOLEAN
    BY Zenon DEF Init
  <2>2. Len(queue) <= QueueCap
    BY <1>2, StoreAssumption
  <2>3. /\ event \in [Callers -> {"none", "recording", "queued", "stored", "spooled",
                                  "overflow", "memory"}]
        /\ readerPC \in [Readers -> {"idle", "calling", "drain", "reading"}]
        /\ readerStore \in [Readers -> Stores \cup {NoStore}]
        /\ accepted \in [Readers -> SUBSET Callers]
    BY DEF Init
  <2>4. QED
    BY <1>1, <1>2, <2>1, <2>2, <2>3 DEF Init, TypeOK
<1>4. Controlled /\ Batched /\ Opened
  BY <1>1, StoreAssumption DEF Init, Controlled, Batched, Opened
<1>5. QED
  BY <1>3, <1>4 DEF Shape

\* A settled task leaves the batch.
LEMMA SettleShape ==
  ASSUME Shape, NEW o \in {"stored", "spooled"}, Settle(o),
         writerPC \in {"settle", "handoff"}
  PROVE  /\ Head(batch) \in Task
         /\ batch' \in Seq(Task)
         /\ Elems(batch) = Elems(batch') \cup {Head(batch)}
         /\ event' \in [Callers -> {"none", "recording", "queued", "stored", "spooled",
                                    "overflow", "memory"}]
         /\ writerPC' \in {"select", "settle"}
         /\ Batched'
<1>1. batch # <<>> /\ batch \in Seq(Task)
  BY DEF Shape, Batched, TypeOK
<1>2. /\ Head(batch) \in Task /\ Tail(batch) \in Seq(Task)
      /\ Elems(batch) = Elems(Tail(batch)) \cup {Head(batch)}
  BY <1>1, TailElems
<1>3. QED
  BY <1>2 DEF Settle, Shape, TypeOK, Batched, Task

\* The writer's steps keep every variable in its type.
LEMMA WriterShape ==
  ASSUME Shape, WriterStep
  PROVE  Shape'
<1> USE StoreAssumption DEF Shape, TypeOK, Batched, Controlled, Opened, rvars, avars
<1>1. CASE WriterTake
  <2>1. PICK n \in 1..Len(queue) :
          batch' = SubSeq(queue, 1, n) /\ queue' = SubSeq(queue, n + 1, Len(queue))
    BY <1>1 DEF WriterTake
  <2>2. /\ batch' \in Seq(Task) /\ queue' \in Seq(Task) /\ Len(queue') <= QueueCap
        /\ batch' # <<>>
    <3>1. queue \in Seq(Task) /\ n \in 1..Len(queue)
      BY <2>1
    <3>2. /\ SubSeq(queue, 1, n) \in Seq(Task)
          /\ SubSeq(queue, n + 1, Len(queue)) \in Seq(Task)
          /\ Len(SubSeq(queue, n + 1, Len(queue))) = Len(queue) - n
          /\ SubSeq(queue, 1, n) # <<>>
      BY <3>1, SplitElems
    <3>3. Len(queue) \in Nat /\ QueueCap \in Nat /\ Len(queue) <= QueueCap
      OBVIOUS
    <3>4. Len(queue) - n <= QueueCap
      BY <3>1, <3>3
    <3>5. QED
      BY <2>1, <3>2, <3>4
  <2>3. /\ writerPC = "select" /\ writerPC' = "persist"
        /\ UNCHANGED <<control, store, closed, failed, stopping, event, rvars, avars,
                       retiring, closePC>>
    BY <1>1 DEF WriterTake
  <2>4. TypeOK' /\ Opened'
    BY <2>2, <2>3
  <2>5. Controlled' /\ Batched'
    BY <2>2, <2>3
  <2>6. QED
    BY <2>4, <2>5
<1>2. CASE WriterPersist
  BY <1>2 DEF WriterPersist
<1>3. CASE SettleStored
  BY <1>3, SettleShape DEF SettleStored
<1>4. CASE SpoolLock
  BY <1>4 DEF SpoolLock
<1>5. CASE SpoolHandOff
  BY <1>5, SettleShape DEF SpoolHandOff
<1>6. CASE SpoolSynchronously
  BY <1>6, SettleShape DEF SpoolSynchronously
<1>7. CASE TimerFires \/ TimerPrunes \/ WriterFinish
  BY <1>7 DEF TimerFires, TimerPrunes, WriterFinish
<1>8. QED
  BY <1>1, <1>2, <1>3, <1>4, <1>5, <1>6, <1>7 DEF WriterStep, WriterOwn

\* So do those of a callback.
LEMMA RecordShape ==
  ASSUME Shape, NEW c \in Callers, CallRecord(c) \/ Record(c)
  PROVE  Shape'
<1> USE StoreAssumption DEF Shape, TypeOK, Batched, Controlled, Opened, wvars, rvars, avars
<1>1. CASE CallRecord(c)
  BY <1>1 DEF CallRecord
<1>2. CASE Record(c)
  <2>1. CASE queue' = Append(queue, [caller |-> c, store |-> store]) /\ store # NoStore /\ HasRoom
    <3>1. queue \in Seq(Task) /\ [caller |-> c, store |-> store] \in Task
      BY <2>1 DEF Task
    <3>2. queue' \in Seq(Task) /\ Len(queue') = Len(queue) + 1
      BY <2>1, <3>1, AppendElems
    <3>3. Len(queue) \in Nat /\ QueueCap \in Nat /\ Len(queue) < QueueCap
      BY <2>1 DEF HasRoom
    <3>4. Len(queue') <= QueueCap
      BY <3>2, <3>3
    <3>5. QED
      BY <1>2, <2>1, <3>2, <3>4 DEF Record
  <2>2. CASE queue' = queue
    BY <1>2, <2>2 DEF Record
  <2>3. QED
    BY <1>2, <2>1, <2>2 DEF Record
<1>3. QED
  BY <1>1, <1>2

\* So do those of a query.
LEMMA QueryShape ==
  ASSUME Shape, NEW r \in Readers, QueryStep(r)
  PROVE  Shape'
<1> USE StoreAssumption DEF Shape, TypeOK, Batched, Controlled, Opened, wvars, avars
<1>1. CASE CallQuery(r)
  BY <1>1 DEF CallQuery
<1>2. CASE QueryLock(r)
  BY <1>2 DEF QueryLock
<1>3. CASE QueryAcquire(r)
  BY <1>3 DEF QueryAcquire
<1>4. CASE QueryRelease(r)
  BY <1>4 DEF QueryRelease
<1>5. QED
  BY <1>1, <1>2, <1>3, <1>4 DEF QueryStep

\* And those of a switch and of Close.
LEMMA ControlShape ==
  ASSUME Shape,
         (\E s \in Stores \cup {NoStore} : SwitchLock(s)) \/ SwitchStep
           \/ CallClose \/ CloseStep \/ UNCHANGED vars
  PROVE  Shape'
<1> USE StoreAssumption DEF Shape, TypeOK, Batched, Controlled, Opened, wvars, rvars, avars
<1>1. ASSUME NEW s \in Stores \cup {NoStore}, SwitchLock(s) PROVE Shape'
  BY <1>1 DEF SwitchLock
<1>2. CASE SwitchCopy
  BY <1>2 DEF SwitchCopy
<1>3. CASE SwitchFail
  BY <1>3 DEF SwitchFail
<1>4. CASE SwitchStore
  BY <1>4 DEF SwitchStore
<1>5. CASE SwitchRetire
  BY <1>5 DEF SwitchRetire
<1>6. CASE CallClose \/ CloseStop
  <2>1. CASE CallClose
    BY <2>1 DEF CallClose
  <2>2. CASE CloseStop
    BY <2>2 DEF CloseStop
  <2>3. QED
    BY <1>6, <2>1, <2>2
<1>7. CASE CloseTake
  BY <1>7 DEF CloseTake
<1>8. CASE CloseRetire
  BY <1>8 DEF CloseRetire
<1>9. CASE UNCHANGED vars
  BY <1>9 DEF vars
<1>10. QED
  BY <1>1, <1>2, <1>3, <1>4, <1>5, <1>6, <1>7, <1>8, <1>9 DEF SwitchStep, CloseStep

\* Every step keeps types, lock and references in shape.
LEMMA NextShape == Shape /\ [Next]_vars => Shape'
  BY WriterShape, RecordShape, QueryShape, ControlShape DEF Next

-----------------------------------------------------------------------------
(***************************************************************************)
(* The stores in use, the closed ones and the copied ones.                 *)
(***************************************************************************)
\* The tasks of the writer.
Pending == Elems(queue) \cup Elems(batch)

\* Tasks and queries hold the current store, or the one that is about to be
\* closed; neither is closed, and a switch goes to a store of its own.
Apart ==
  /\ store \notin closed /\ retiring \notin closed
  /\ retiring # NoStore => retiring # store
  /\ adminPC \in {"drain", "switch"} => target \notin closed \cup copied /\ target # store
  /\ \A t \in Pending : t.store \in {store, retiring} /\ t.store # NoStore
  /\ \A r \in Reading : readerStore[r] \in {store, retiring} /\ readerStore[r] # NoStore

\* From the copy on, and until the old store is closed, nothing is written.
Copied ==
  /\ store \in copied => adminPC = "switch" /\ WritesDone
  /\ retiring \in copied => WritesDone

\* What was accepted is in the queue or in the batch until it is settled, and a
\* query that reads began to read when nothing was.
Seen ==
  /\ \A c \in Callers : event[c] = "queued" => \E t \in Pending : t.caller = c
  /\ \A r \in Readers : \A c \in accepted[r] :
       /\ event[c] \in {"queued", "stored", "spooled"}
       /\ r \in Reading => event[c] # "queued"

\* The inductive invariant.
SInv == Shape /\ Apart /\ Copied /\ Seen

\* Nothing is pending exactly when the wait group of the writes is at zero.
LEMMA NothingPending ==
  /\ Shape => (WritesDone <=> Pending = {})
  /\ Shape' => (WritesDone <=> Pending = {})'
  BY NoElems DEF Shape, TypeOK, WritesDone, Pending

\* At the start nothing is in use but the first store.
LEMMA InitSInv == Init => SInv
<1> SUFFICES ASSUME Init PROVE Apart /\ Copied /\ Seen
  BY InitShape DEF SInv
<1>1. store \in Stores /\ store # NoStore
  BY StoreAssumption DEF Init
<1>2. Pending = {} /\ Reading = {} /\ closed = {} /\ copied = {}
  BY InitShape, NothingPending DEF Init, Reading, WritesDone
<1>3. QED
  BY <1>1, <1>2 DEF Init, Apart, Copied, Seen

\* The writer takes and settles tasks and leaves the stores alone.
LEMMA WriterPending ==
  ASSUME Shape, WriterStep
  PROVE  /\ Pending' \subseteq Pending
         /\ \/ event' = event /\ Pending' = Pending
            \/ \E t \in Pending, o \in {"stored", "spooled"} :
                 /\ event' = [event EXCEPT ![t.caller] = o]
                 /\ Pending = Pending' \cup {t}
<1>1. CASE WriterTake
  <2>1. PICK n \in 1..Len(queue) :
          batch' = SubSeq(queue, 1, n) /\ queue' = SubSeq(queue, n + 1, Len(queue))
    BY <1>1 DEF WriterTake
  <2>2. queue \in Seq(Task) /\ batch \in Seq(Task) /\ batch = <<>>
    BY <1>1 DEF WriterTake, Shape, TypeOK, Batched
  <2>3. Elems(batch') \cup Elems(queue') = Elems(queue)
    BY <2>1, <2>2, SplitElems
  <2>4. Elems(batch) = {}
    BY <2>2, NoElems
  <2>5. QED
    BY <1>1, <2>3, <2>4 DEF WriterTake, Pending
<1>2. ASSUME NEW o \in {"stored", "spooled"}, Settle(o), writerPC \in {"settle", "handoff"},
             queue' = queue
      PROVE  \E t \in Pending : event' = [event EXCEPT ![t.caller] = o]
                                /\ Pending = Pending' \cup {t}
  <2>1. Elems(batch) = Elems(batch') \cup {Head(batch)}
    BY <1>2, SettleShape
  <2>2. event' = [event EXCEPT ![Head(batch).caller] = o]
    BY <1>2 DEF Settle
  <2>3. QED
    BY <1>2, <2>1, <2>2 DEF Pending
<1>3. CASE SettleStored \/ SpoolHandOff \/ SpoolSynchronously
  BY <1>2, <1>3 DEF SettleStored, SpoolHandOff, SpoolSynchronously
<1>4. CASE WriterPersist \/ SpoolLock \/ TimerFires \/ TimerPrunes \/ WriterFinish
  BY <1>4 DEF WriterPersist, SpoolLock, TimerFires, TimerPrunes, WriterFinish, Pending
<1>5. QED
  BY <1>1, <1>3, <1>4 DEF WriterStep, WriterOwn

\* So what holds of the stores keeps holding while it works.
LEMMA WriterSInv ==
  ASSUME SInv, WriterStep
  PROVE  SInv'
<1>1. Shape'
  BY WriterShape DEF SInv
<1>2. UNCHANGED <<store, closed, retiring, rvars, avars>>
  BY DEF WriterStep, WriterOwn, WriterTake, WriterPersist, SettleStored, SpoolLock,
         SpoolHandOff, SpoolSynchronously, TimerFires, TimerPrunes, WriterFinish
<1>3. Pending' \subseteq Pending /\ (WritesDone => WritesDone')
  BY <1>1, WriterPending, NothingPending DEF SInv
<1>4. Apart' /\ Copied'
  BY <1>2, <1>3 DEF SInv, Apart, Copied, Reading, rvars, avars
<1>5. Seen'
  <2>1. CASE event' = event /\ Pending' = Pending
    BY <1>2, <2>1 DEF SInv, Seen, Reading, rvars
  <2>2. ASSUME NEW t \in Pending, NEW o \in {"stored", "spooled"},
               event' = [event EXCEPT ![t.caller] = o], Pending = Pending' \cup {t}
        PROVE  Seen'
    <3>1. event \in [Callers -> {"none", "recording", "queued", "stored", "spooled",
                                 "overflow", "memory"}]
          /\ accepted \in [Readers -> SUBSET Callers]
      BY DEF SInv, Shape, TypeOK
    <3>2. QED
      BY <1>2, <2>2, <3>1 DEF SInv, Seen, Reading, rvars
  <2>3. QED
    BY <2>1, <2>2, WriterPending DEF SInv
<1>6. QED
  BY <1>1, <1>4, <1>5 DEF SInv

\* A callback records for the store of the moment, when nobody holds the lock.
LEMMA RecordSInv ==
  ASSUME SInv, NEW c \in Callers, CallRecord(c) \/ Record(c)
  PROVE  SInv'
<1>1. Shape'
  BY RecordShape DEF SInv
<1>2. UNCHANGED <<store, closed, retiring, rvars, avars, closePC, batch>>
  BY DEF CallRecord, Record, wvars
<1>3. /\ event \in [Callers -> {"none", "recording", "queued", "stored", "spooled",
                              "overflow", "memory"}]
      /\ accepted \in [Readers -> SUBSET Callers]
      /\ queue \in Seq(Task) /\ store \in Stores \cup {NoStore}
  BY DEF SInv, Shape, TypeOK
<1>4. CASE queue' = queue /\ event' # [event EXCEPT ![c] = "queued"]
  <2>1. Pending' = Pending /\ (WritesDone <=> WritesDone')
    BY <1>2, <1>4 DEF Pending, WritesDone
  <2>2. \E v \in {"recording", "overflow", "memory"} :
          event' = [event EXCEPT ![c] = v] /\ event[c] \in {"none", "recording"}
    BY <1>4 DEF CallRecord, Record
  <2>3. Apart' /\ Copied'
    BY <1>2, <2>1 DEF SInv, Apart, Copied, Reading, rvars, avars
  <2>4. Seen'
    BY <1>2, <1>3, <2>1, <2>2 DEF SInv, Seen, Reading, rvars
  <2>5. QED
    BY <1>1, <2>3, <2>4 DEF SInv
<1>5. CASE /\ store # NoStore /\ control = None /\ event[c] = "recording"
           /\ queue' = Append(queue, [caller |-> c, store |-> store])
           /\ event' = [event EXCEPT ![c] = "queued"]
  <2> DEFINE t == [caller |-> c, store |-> store]
  <2>1. t \in Task /\ t.caller = c /\ t.store = store
    BY <1>3, <1>5 DEF Task
  <2>2. Pending' = Pending \cup {t}
    <3>1. Elems(queue') = Elems(queue) \cup {t}
      BY <1>3, <1>5, <2>1, AppendElems
    <3>2. QED
      BY <1>2, <3>1 DEF Pending
  <2>3. adminPC = "idle" /\ closePC # "retire" /\ retiring = NoStore
    BY <1>5, StoreAssumption DEF SInv, Shape, Controlled, Opened
  <2>4. NoStore \notin copied
    BY StoreAssumption DEF SInv, Shape, TypeOK
  <2>5. Apart'
    BY <1>2, <1>5, <2>1, <2>2 DEF SInv, Apart, Reading, rvars, avars
  <2>6. Copied'
    BY <1>2, <2>3, <2>4 DEF SInv, Copied, avars
  <2>7. Seen'
    BY <1>2, <1>3, <1>5, <2>1, <2>2 DEF SInv, Seen, Reading, rvars
  <2>8. QED
    BY <1>1, <2>5, <2>6, <2>7 DEF SInv
<1>6. QED
  BY <1>3, <1>4, <1>5 DEF CallRecord, Record, wvars

\* A query pairs its reading with the store of the moment, when nothing is
\* pending.
LEMMA QuerySInv ==
  ASSUME SInv, NEW r \in Readers, QueryStep(r)
  PROVE  SInv'
<1>1. Shape'
  BY QueryShape DEF SInv
<1>2. UNCHANGED <<store, closed, retiring, queue, batch, event, avars, closePC>>
  BY DEF QueryStep, CallQuery, QueryLock, QueryAcquire, QueryRelease, wvars
<1>3. Pending' = Pending /\ (WritesDone <=> WritesDone')
  BY <1>2 DEF Pending, WritesDone
<1>4. Copied'
  BY <1>2, <1>3 DEF SInv, Copied, avars
<1>5. /\ readerPC \in [Readers -> {"idle", "calling", "drain", "reading"}]
      /\ readerStore \in [Readers -> Stores \cup {NoStore}]
      /\ accepted \in [Readers -> SUBSET Callers]
  BY DEF SInv, Shape, TypeOK
<1>6. Apart' /\ Seen'
  <2>1. CASE CallQuery(r)
    BY <1>2, <1>3, <1>5, <2>1 DEF SInv, Apart, Seen, Reading, CallQuery, avars
  <2>2. CASE QueryLock(r)
    BY <1>2, <1>3, <1>5, <2>2 DEF SInv, Apart, Seen, Reading, QueryLock, avars
  <2>3. CASE QueryAcquire(r)
    <3>1. \A c \in Callers : event[c] # "queued"
      BY <2>3, NothingPending DEF QueryAcquire, WritesVisible, SInv, Seen
    <3>2. QED
      BY <1>2, <1>3, <1>5, <2>3, <3>1 DEF SInv, Apart, Seen, Reading, QueryAcquire, avars
  <2>4. CASE QueryRelease(r)
    BY <1>2, <1>3, <1>5, <2>4 DEF SInv, Apart, Seen, Reading, QueryRelease, avars
  <2>5. QED
    BY <2>1, <2>2, <2>3, <2>4 DEF QueryStep
<1>7. QED
  BY <1>1, <1>4, <1>6 DEF SInv

\* A switch and Close change the store under the lock, and close the old one
\* when neither a task nor a query can hold it.
LEMMA ControlSInv ==
  ASSUME SInv,
         (\E s \in Stores \cup {NoStore} : SwitchLock(s)) \/ SwitchStep
           \/ CallClose \/ CloseStep \/ UNCHANGED vars
  PROVE  SInv'
<1>1. Shape'
  BY ControlShape DEF SInv
<1>2. UNCHANGED <<queue, batch, event, rvars>>
  BY DEF SwitchLock, SwitchStep, SwitchCopy, SwitchFail, SwitchStore, SwitchRetire,
         CallClose, CloseStep, CloseStop, CloseTake, CloseRetire, wvars, vars
<1>3. Pending' = Pending /\ (WritesDone <=> WritesDone') /\ Reading' = Reading
  BY <1>2 DEF Pending, WritesDone, Reading, rvars
<1>4. Seen'
  BY <1>2, <1>3 DEF SInv, Seen, rvars
<1>5. /\ store \in Stores \cup {NoStore} /\ NoStore \notin Stores
      /\ target \in Stores \cup {NoStore} /\ retiring \in Stores \cup {NoStore}
      /\ opened \subseteq Stores /\ closed \subseteq opened /\ copied \subseteq opened
  BY StoreAssumption DEF SInv, Shape, TypeOK
<1>6. UsesDone => Pending = {} /\ Reading = {}
  BY NothingPending DEF SInv, UsesDone
<1>7. Apart' /\ Copied'
  <2> USE <1>2, <1>3, <1>5, <1>6, StoreAssumption
      DEF SInv, Shape, Controlled, Opened, Apart, Copied, rvars, avars, wvars
  <2>1. ASSUME NEW s \in Stores \cup {NoStore}, SwitchLock(s) PROVE Apart' /\ Copied'
    BY <2>1 DEF SwitchLock
  <2>2. CASE SwitchCopy
    BY <2>2 DEF SwitchCopy, BeforeCopy
  <2>3. CASE SwitchFail
    BY <2>3 DEF SwitchFail
  <2>4. CASE SwitchStore
    BY <2>4 DEF SwitchStore
  <2>5. CASE SwitchRetire
    BY <2>5 DEF SwitchRetire, BeforeClose
  <2>6. CASE CallClose \/ CloseStop \/ UNCHANGED vars
    BY <2>6 DEF CallClose, CloseStop, vars
  <2>7. CASE CloseTake
    BY <2>7 DEF CloseTake
  <2>8. CASE CloseRetire
    BY <2>8 DEF CloseRetire, BeforeClose
  <2>9. QED
    BY <2>1, <2>2, <2>3, <2>4, <2>5, <2>6, <2>7, <2>8 DEF SwitchStep, CloseStep
<1>8. QED
  BY <1>1, <1>4, <1>7 DEF SInv

\* Every step keeps the invariant.
LEMMA NextSInv == SInv /\ [Next]_vars => SInv'
  BY WriterSInv, RecordSInv, QuerySInv, ControlSInv DEF Next

-----------------------------------------------------------------------------
(***************************************************************************)
(* The theorems.                                                           *)
(***************************************************************************)
\* Every variable keeps its type.
THEOREM TypeCorrect == Spec => []TypeOK
<1>1. Shape => TypeOK
  BY DEF Shape
<1>2. QED
  BY InitShape, NextShape, <1>1, PTL DEF Spec

\* No store is closed under a task or a query that uses it.
THEOREM StoresStayOpen == Spec => []OpenWhileUsed
<1>1. SInv => OpenWhileUsed
  BY DEF SInv, Apart, OpenWhileUsed, Pending
<1>2. QED
  BY InitSInv, NextSInv, <1>1, PTL DEF Spec

\* A copied database has no event on its way to it.
THEOREM CopiesComplete == Spec => []CopyMissesNothing
<1>1. SInv => CopyMissesNothing
  <2> SUFFICES ASSUME SInv PROVE Pending # {} => \A t \in Pending : t.store \notin copied
    BY DEF CopyMissesNothing, Pending
  <2>1. WritesDone <=> Pending = {}
    BY NothingPending DEF SInv
  <2>2. QED
    BY <2>1 DEF SInv, Apart, Copied
<1>2. QED
  BY InitSInv, NextSInv, <1>1, PTL DEF Spec

\* A query sees what was accepted before it began.
THEOREM QueriesCurrent == Spec => []ReadsAccepted
<1>1. SInv => ReadsAccepted
  BY DEF SInv, Seen, ReadsAccepted, Reading
<1>2. QED
  BY InitSInv, NextSInv, <1>1, PTL DEF Spec

-----------------------------------------------------------------------------
(***************************************************************************)
(* Counting details.                                                       *)
(***************************************************************************)
\* The details of a family that a dimension counts.
InKey(f, k) == {i \in DOMAIN f : k \in KeysOf(f[i])}

\* A tally counts subsets of a finite domain, and "all" counts every detail.
LEMMA TallyType ==
  ASSUME NEW f, IsFiniteSet(DOMAIN f)
  PROVE  /\ Tally(f) \in [Dimensions -> Nat]
         /\ \A k \in Dimensions : /\ IsFiniteSet(InKey(f, k))
                                  /\ Tally(f)[k] = Cardinality(InKey(f, k))
                                  /\ Tally(f)[k] <= Cardinality(DOMAIN f)
         /\ Tally(f)["all"] = Cardinality(DOMAIN f)
<1>1. ASSUME NEW k \in Dimensions
      PROVE  /\ IsFiniteSet(InKey(f, k)) /\ Cardinality(InKey(f, k)) \in Nat
             /\ Cardinality(InKey(f, k)) <= Cardinality(DOMAIN f)
  <2>1. InKey(f, k) \in SUBSET DOMAIN f
    BY DEF InKey
  <2>2. QED
    BY <2>1, FS_Subset, FS_CardinalityType
<1>2. \A k \in Dimensions : Tally(f)[k] = Cardinality(InKey(f, k))
  BY DEF Tally, InKey
<1>3. InKey(f, "all") = DOMAIN f
  BY DEF InKey, KeysOf
<1>4. "all" \in Dimensions
  BY DEF Dimensions
<1>5. Tally(f) = [k \in Dimensions |-> Tally(f)[k]]
  BY DEF Tally
<1>6. QED
  BY <1>1, <1>2, <1>3, <1>4, <1>5

\* The same details under the same indices give the same tally.
LEMMA SameTally ==
  ASSUME NEW f, NEW g, DOMAIN f = DOMAIN g, \A i \in DOMAIN f : f[i].rich = g[i].rich
  PROVE  Tally(f) = Tally(g)
<1>1. \A i \in DOMAIN f : KeysOf(f[i]) = KeysOf(g[i])
  BY DEF KeysOf
<1>2. \A k \in Dimensions : {i \in DOMAIN f : k \in KeysOf(f[i])}
                             = {i \in DOMAIN g : k \in KeysOf(g[i])}
  BY <1>1
<1>3. QED
  BY <1>2 DEF Tally

\* So do the same details under other indices.
LEMMA RenumberedTally ==
  ASSUME NEW f, NEW g, IsFiniteSet(DOMAIN f), NEW b \in Bijection(DOMAIN g, DOMAIN f),
         \A i \in DOMAIN g : g[i].rich = f[b[i]].rich
  PROVE  IsFiniteSet(DOMAIN g) /\ Tally(g) = Tally(f)
<1>1. /\ b \in [DOMAIN g -> DOMAIN f]
      /\ \A i, j \in DOMAIN g : b[i] = b[j] => i = j
      /\ \A j \in DOMAIN f : \E i \in DOMAIN g : b[i] = j
  BY DEF Bijection, Injection, Surjection, IsInjective
<1>2. \A i \in DOMAIN g : KeysOf(g[i]) = KeysOf(f[b[i]])
  BY DEF KeysOf
<1>3. IsFiniteSet(DOMAIN g)
  <2>1. b \in Injection(DOMAIN g, DOMAIN f)
    BY DEF Bijection
  <2>2. QED
    BY <2>1, FS_Injection
<1>4. ASSUME NEW k \in Dimensions
      PROVE  Cardinality(InKey(g, k)) = Cardinality(InKey(f, k))
  <2> DEFINE h == [i \in InKey(g, k) |-> b[i]]
  <2>1. InKey(g, k) \subseteq DOMAIN g /\ InKey(f, k) \subseteq DOMAIN f
    BY DEF InKey
  <2>2. \A i \in InKey(g, k) : b[i] \in InKey(f, k)
    BY <1>1, <1>2 DEF InKey
  <2>3. h \in [InKey(g, k) -> InKey(f, k)]
    BY <2>2
  <2>4. \A i, j \in InKey(g, k) : h[i] = h[j] => i = j
    BY <1>1, <2>1
  <2>5. ASSUME NEW j \in InKey(f, k) PROVE \E i \in InKey(g, k) : h[i] = j
    <3>1. PICK i \in DOMAIN g : b[i] = j
      BY <1>1, <2>1
    <3>2. i \in InKey(g, k)
      BY <1>2, <3>1 DEF InKey
    <3>3. QED
      BY <3>1, <3>2
  <2>6. h \in Bijection(InKey(g, k), InKey(f, k))
    BY <2>3, <2>4, <2>5 DEF Bijection, Injection, Surjection, IsInjective
  <2>7. ExistsBijection(InKey(g, k), InKey(f, k))
    BY <2>6 DEF ExistsBijection
  <2>8. IsFiniteSet(InKey(g, k))
    BY <1>3, <2>1, FS_Subset
  <2>9. QED
    BY <2>7, <2>8, FS_Bijection
<1>5. \A k \in Dimensions : Tally(g)[k] = Tally(f)[k]
  BY <1>4, <1>3, TallyType
<1>6. QED
  BY <1>3, <1>5 DEF Tally

\* What is counted in two parts adds up.
LEMMA TallyOfParts ==
  ASSUME NEW f, IsFiniteSet(DOMAIN f), NEW S \in SUBSET DOMAIN f
  PROVE  /\ IsFiniteSet(S) /\ IsFiniteSet(DOMAIN f \ S)
         /\ Tally(f) = Plus(Tally(Only(f, S)), Tally(Without(f, S)))
<1> DEFINE a == Only(f, S)
           b == Without(f, S)
<1>1. /\ DOMAIN a = S /\ DOMAIN b = DOMAIN f \ S
      /\ \A i \in DOMAIN a : a[i] = f[i]
      /\ \A i \in DOMAIN b : b[i] = f[i]
  BY DEF Only, Without
<1>2. IsFiniteSet(DOMAIN a) /\ IsFiniteSet(DOMAIN b)
  BY <1>1, FS_Subset
<1>3. ASSUME NEW k \in Dimensions PROVE Tally(f)[k] = Tally(a)[k] + Tally(b)[k]
  <2> DEFINE A == InKey(a, k)
             B == InKey(b, k)
  <2>1. InKey(f, k) = A \cup B /\ A \cap B = {}
    BY <1>1 DEF InKey
  <2>2. IsFiniteSet(A) /\ IsFiniteSet(B)
    BY <1>2, TallyType
  <2> HIDE DEF A, B
  <2>3. Cardinality(A \cup B) = Cardinality(A) + Cardinality(B) - Cardinality(A \cap B)
    BY <2>2, FS_Union
  <2>4. Cardinality(A \cap B) = 0 /\ Cardinality(A) \in Nat /\ Cardinality(B) \in Nat
    BY <2>1, <2>2, FS_EmptySet, FS_CardinalityType
  <2>5. Cardinality(InKey(f, k)) = Cardinality(A) + Cardinality(B)
    BY <2>1, <2>3, <2>4
  <2>6. QED
    BY <1>2, <2>5, TallyType DEF A, B
<1>4. Tally(f) = [k \in Dimensions |-> Tally(f)[k]]
  BY DEF Tally
<1>5. QED
  BY <1>1, <1>2, <1>3, <1>4 DEF Plus

\* The dimensions that are counted right stay right when details are taken out
\* which the counters have.
LEMMA UncountIsExact ==
  ASSUME NEW c \in [Dimensions -> Nat], NEW f, IsFiniteSet(DOMAIN f), DOMAIN f \subseteq Nat
  PROVE  /\ UncountAll(c, f) \in [Dimensions -> Nat]
         /\ Cardinality(DOMAIN f) <= c["all"] =>
              /\ Uncounted(c, f) = DOMAIN f
              /\ \A k \in Dimensions :
                   Tally(f)[k] <= c[k] => UncountAll(c, f)[k] = c[k] - Tally(f)[k]
<1> DEFINE U(k) == {i \in Uncounted(c, f) : k \in KeysOf(f[i])}
<1>1. \A k \in Dimensions :
        UncountAll(c, f)[k] = IF Cardinality(U(k)) > c[k] THEN 0 ELSE c[k] - Cardinality(U(k))
  BY DEF UncountAll
<1>2. \A k \in Dimensions : Cardinality(U(k)) \in Nat
  <2>1. \A k \in Dimensions : U(k) \in SUBSET DOMAIN f
    BY DEF Uncounted
  <2>2. QED
    BY <2>1, FS_Subset, FS_CardinalityType
<1>3. UncountAll(c, f) \in [Dimensions -> Nat]
  <2> HIDE DEF U
  <2>1. \A k \in Dimensions : UncountAll(c, f)[k] \in Nat
    BY <1>1, <1>2
  <2>2. UncountAll(c, f) = [k \in Dimensions |-> UncountAll(c, f)[k]]
    BY DEF UncountAll
  <2>3. QED
    BY <2>1, <2>2
<1>4. ASSUME Cardinality(DOMAIN f) <= c["all"]
      PROVE  Uncounted(c, f) = DOMAIN f
  <2>1. ASSUME NEW i \in DOMAIN f
        PROVE  Cardinality({j \in DOMAIN f : j < i}) < c["all"]
    <3> DEFINE B == {j \in DOMAIN f : j < i}
    <3>1. B \in SUBSET DOMAIN f /\ B # DOMAIN f
      <4>1. i \notin B
        OBVIOUS
      <4>2. QED
        BY <4>1
    <3> HIDE DEF B
    <3>2. Cardinality(B) <= Cardinality(DOMAIN f) /\ Cardinality(B) # Cardinality(DOMAIN f)
      BY <3>1, FS_Subset
    <3>3. IsFiniteSet(B)
      BY <3>1, FS_Subset
    <3>4. Cardinality(B) \in Nat /\ Cardinality(DOMAIN f) \in Nat /\ c["all"] \in Nat
      BY <3>3, FS_CardinalityType DEF Dimensions
    <3>5. Cardinality(B) < c["all"]
      BY <1>4, <3>2, <3>4
    <3>6. QED
      BY <3>5 DEF B
  <2>2. QED
    BY <2>1 DEF Uncounted
<1>5. ASSUME Cardinality(DOMAIN f) <= c["all"], NEW k \in Dimensions, Tally(f)[k] <= c[k]
      PROVE  UncountAll(c, f)[k] = c[k] - Tally(f)[k]
  <2>1. Cardinality(U(k)) = Tally(f)[k]
    BY <1>4, <1>5 DEF Tally
  <2> HIDE DEF U
  <2>2. QED
    BY <1>1, <1>2, <1>5, <2>1
<1>6. QED
  BY <1>3, <1>4, <1>5

-----------------------------------------------------------------------------
(***************************************************************************)
(* IDs.                                                                    *)
(***************************************************************************)
\* The largest of a finite set of numbers.
LEMMA MaxOfSet ==
  ASSUME NEW S \in SUBSET Nat, IsFiniteSet(S), S # {}
  PROVE  Max(S) \in S /\ \A k \in S : k <= Max(S)
<1> DEFINE f == [x \in S |-> x]
<1>1. f \in [S -> Nat]
  OBVIOUS
<1>2. \E x \in S : \A y \in S : f[y] <= f[x]
  BY <1>1, LargestBy
<1>3. \E x \in S : \A y \in S : x >= y
  BY <1>2
<1>4. QED
  BY <1>3 DEF Max

\* The larger one of two numbers.
LEMMA MaxOfTwo ==
  ASSUME NEW a \in Int, NEW b \in Int
  PROVE  /\ Max({a, b}) \in {a, b} /\ a <= Max({a, b}) /\ b <= Max({a, b})
<1>1. \E x \in {a, b} : \A y \in {a, b} : x >= y
  <2>1. CASE a >= b
    BY <2>1
  <2>2. CASE ~(a >= b)
    BY <2>2
  <2>3. QED
    BY <2>1, <2>2
<1>2. QED
  BY <1>1 DEF Max

\* The last ID of a table is over all of them.
LEMMA LastId ==
  ASSUME NEW t, IsFiniteSet(DOMAIN t), DOMAIN t \subseteq Nat
  PROVE  MaxId(t) \in Nat /\ \A i \in DOMAIN t : i <= MaxId(t)
<1>1. /\ DOMAIN t \cup {0} \in SUBSET Nat /\ DOMAIN t \cup {0} # {}
      /\ IsFiniteSet(DOMAIN t \cup {0})
  BY FS_AddElement
<1>2. QED
  BY <1>1, MaxOfSet DEF MaxId

\* So is the last of them and another number over all of both.
LEMMA LastOf ==
  ASSUME NEW S \in SUBSET Nat, IsFiniteSet(S), NEW n \in Nat
  PROVE  /\ Max(S \cup {n}) \in Nat /\ n <= Max(S \cup {n})
         /\ \A i \in S : i <= Max(S \cup {n})
<1>1. S \cup {n} \in SUBSET Nat /\ S \cup {n} # {} /\ IsFiniteSet(S \cup {n})
  BY FS_AddElement
<1>2. QED
  BY <1>1, MaxOfSet

\* A table of rows: finitely many of them under positive IDs.
Table(t) ==
  /\ t \in [DOMAIN t -> Rows] /\ IsFiniteSet(DOMAIN t) /\ DOMAIN t \subseteq Nat \ {0}

\* A table continued by new rows, which come after all there are.
Continues(s, t, new) ==
  /\ Table(s) /\ DOMAIN t \subseteq DOMAIN s
  /\ \A i \in DOMAIN t : s[i] = t[i]
  /\ \A j \in DOMAIN new : MaxId(t) + j \in DOMAIN s \ DOMAIN t
  /\ \A j \in DOMAIN new : s[MaxId(t) + j] = new[j]
  /\ \A i \in DOMAIN s \ DOMAIN t : i - MaxId(t) \in DOMAIN new
  /\ \A i \in DOMAIN s \ DOMAIN t : \A k \in DOMAIN t : k < i
  /\ IsFiniteSet(DOMAIN s \ DOMAIN t)
  /\ Cardinality(DOMAIN s) = Cardinality(DOMAIN t) + Len(new)
  /\ Tally(s) = Plus(Tally(t), Tally(new))

\* So does SQLite.
LEMMA AppendedRows ==
  ASSUME NEW t, Table(t), NEW new \in Seq(Rows)
  PROVE  Continues(Appended(t, new), t, new)
<1> DEFINE s == Appended(t, new)
           m == MaxId(t)
           N == {m + j : j \in DOMAIN new}
           b == [i \in N |-> i - m]
<1>1. m \in Nat /\ \A i \in DOMAIN t : i <= m
  BY LastId DEF Table
<1>2. Len(new) \in Nat /\ DOMAIN new = 1..Len(new) /\ \A j \in DOMAIN new : new[j] \in Rows
  OBVIOUS
<1>3. /\ DOMAIN s = DOMAIN t \cup N
      /\ \A i \in DOMAIN s : s[i] = IF i \in DOMAIN t THEN t[i] ELSE new[i - m]
  BY DEF Appended
<1> HIDE DEF m
<1>4. \A i \in N : i \in Nat \ {0} /\ i > m /\ i - m \in DOMAIN new
  BY <1>1, <1>2
<1>5. N \cap DOMAIN t = {}
  BY <1>1, <1>4 DEF Table
<1>6. b \in Bijection(N, DOMAIN new)
  <2>1. b \in [N -> DOMAIN new]
    BY <1>4
  <2>2. \A i, k \in N : b[i] = b[k] => i = k
    BY <1>1, <1>4
  <2>3. \A j \in DOMAIN new : \E i \in N : b[i] = j
    <3>1. ASSUME NEW j \in DOMAIN new PROVE m + j \in N /\ b[m + j] = j
      BY <1>1, <1>2
    <3>2. QED
      BY <3>1
  <2> HIDE DEF b, N
  <2>4. QED
    BY <2>1, <2>2, <2>3 DEF Bijection, Injection, Surjection, IsInjective
<1>7. IsFiniteSet(DOMAIN new) /\ Cardinality(DOMAIN new) = Len(new)
  BY <1>2, FS_Interval
<1> HIDE DEF s
<1>8. /\ DOMAIN Without(s, DOMAIN t) = N /\ DOMAIN Only(s, DOMAIN t) = DOMAIN t
      /\ \A i \in N : Without(s, DOMAIN t)[i] = new[b[i]]
      /\ \A i \in DOMAIN t : Only(s, DOMAIN t)[i] = t[i]
  BY <1>3, <1>5 DEF Without, Only
<1> HIDE DEF N, b
<1>9. IsFiniteSet(N) /\ Tally(Without(s, DOMAIN t)) = Tally(new)
  BY <1>6, <1>7, <1>8, RenumberedTally
<1>10. Tally(Only(s, DOMAIN t)) = Tally(t)
  BY <1>8, SameTally
<1>11. IsFiniteSet(DOMAIN s)
  BY <1>3, <1>9, FS_Union DEF Table
<1>12. Tally(s) = Plus(Tally(t), Tally(new))
  <2>1. DOMAIN t \in SUBSET DOMAIN s
    BY <1>3
  <2>2. QED
    BY <1>9, <1>10, <1>11, <2>1, TallyOfParts
<1>13. Cardinality(DOMAIN s) = Cardinality(DOMAIN t) + Len(new)
  <2>1. /\ Tally(s)["all"] = Cardinality(DOMAIN s)
        /\ Tally(t)["all"] = Cardinality(DOMAIN t)
        /\ Tally(new)["all"] = Len(new)
    BY <1>7, <1>11, TallyType DEF Table
  <2>2. QED
    BY <1>12, <2>1 DEF Plus, Dimensions
<1>14. Table(s)
  <2>1. \A i \in DOMAIN s : s[i] \in Rows
    BY <1>2, <1>3, <1>4 DEF Table
  <2>2. s \in [DOMAIN s -> Rows]
    <3>1. s = [i \in DOMAIN s |-> s[i]]
      BY DEF s, Appended
    <3>2. QED
      BY <2>1, <3>1
  <2>3. DOMAIN s \subseteq Nat \ {0}
    BY <1>3, <1>4 DEF Table
  <2>4. QED
    BY <1>11, <2>2, <2>3 DEF Table
<1>15. \A i \in DOMAIN s \ DOMAIN t : i \in N
  BY <1>3
<1>16. \A i \in DOMAIN s \ DOMAIN t : \A k \in DOMAIN t : k < i
  <2>1. \A k \in DOMAIN t : k \in Nat
    BY DEF Table
  <2>2. QED
    BY <1>1, <1>4, <1>15, <2>1
<1>17. ASSUME NEW j \in DOMAIN new
       PROVE  m + j \in DOMAIN s \ DOMAIN t /\ s[m + j] = new[j]
  <2>1. m + j \in N
    BY DEF N
  <2>2. m + j \in DOMAIN s \ DOMAIN t
    BY <1>3, <1>5, <2>1
  <2> DEFINE i == m + j
  <2>3. i - m = j
    BY <1>1, <1>2
  <2> HIDE DEF i
  <2>4. i \in DOMAIN s /\ i \notin DOMAIN t
    BY <2>2 DEF i
  <2>5. s[i] = new[j]
    BY <1>3, <2>3, <2>4
  <2>6. QED
    BY <2>2, <2>5 DEF i
<1>18. IsFiniteSet(DOMAIN s \ DOMAIN t)
  BY <1>11, FS_Subset
<1>19. /\ DOMAIN t \subseteq DOMAIN s /\ \A i \in DOMAIN t : s[i] = t[i]
       /\ \A i \in DOMAIN s \ DOMAIN t : i - m \in DOMAIN new
  BY <1>3, <1>4, <1>15
<1>20. Continues(s, t, new)
  BY <1>12, <1>13, <1>14, <1>16, <1>17, <1>18, <1>19 DEF Continues, m
<1>21. QED
  BY <1>20 DEF s

\* The numbers of a set by their rank: all of them, in their order.
LEMMA RankedNumbers ==
  ASSUME NEW S \in SUBSET Nat, IsFiniteSet(S)
  PROVE  /\ Ranked(S) \in Bijection(1..Cardinality(S), S)
         /\ DOMAIN Ranked(S) = 1..Cardinality(S) /\ Cardinality(S) \in Nat
         /\ \A n, m \in 1..Cardinality(S) : n < m => Ranked(S)[n] < Ranked(S)[m]
<1> DEFINE R == {x \in S \X S : x[1] < x[2]}
           c == Cardinality(S)
<1>1. \A i, k \in S : <<i, k>> \in R <=> i < k
  OBVIOUS
<1>2. Orders(R, S)
  <2> HIDE DEF R
  <2>1. QED
    BY <1>1 DEF Orders
<1>3. \A i \in S : Rank(S, R, i) = Cardinality({j \in S : j < i})
  <2> HIDE DEF R
  <2>1. \A i \in S : {x \in S : <<x, i>> \in R} = {j \in S : j < i}
    BY <1>1
  <2>2. QED
    BY <2>1 DEF Rank
<1> HIDE DEF R
<1>4. /\ c \in Nat
      /\ \A i \in S : Rank(S, R, i) \in 0..(c - 1)
      /\ \A i, k \in S : i < k <=> Rank(S, R, i) < Rank(S, R, k)
      /\ \A p \in 0..(c - 1) : \E i \in S : Rank(S, R, i) = p
  BY <1>1, <1>2, Ranks
<1>5. Ranked(S) = [n \in 1..c |-> CHOOSE i \in S : Cardinality({j \in S : j < i}) = n - 1]
  BY DEF Ranked
<1> HIDE DEF c
<1>6. ASSUME NEW n \in 1..c PROVE Ranked(S)[n] \in S /\ Rank(S, R, Ranked(S)[n]) = n - 1
  <2>1. n - 1 \in 0..(c - 1)
    BY <1>4
  <2>2. \E i \in S : Cardinality({j \in S : j < i}) = n - 1
    BY <1>3, <1>4, <2>1
  <2>3. Ranked(S)[n] = CHOOSE i \in S : Cardinality({j \in S : j < i}) = n - 1
    BY <1>5
  <2>4. /\ Ranked(S)[n] \in S
        /\ Cardinality({j \in S : j < Ranked(S)[n]}) = n - 1
    BY <2>2, <2>3
  <2>5. QED
    BY <1>3, <2>4
<1>7. DOMAIN Ranked(S) = 1..c /\ Ranked(S) \in [1..c -> S]
  BY <1>5, <1>6
<1>8. \A n, m \in 1..c : n < m => Ranked(S)[n] < Ranked(S)[m]
  <2>1. ASSUME NEW n \in 1..c, NEW m \in 1..c, n < m PROVE Ranked(S)[n] < Ranked(S)[m]
    <3>1. n - 1 < m - 1
      BY <1>4, <2>1
    <3>2. Rank(S, R, Ranked(S)[n]) < Rank(S, R, Ranked(S)[m])
      BY <1>6, <3>1
    <3>3. QED
      BY <1>4, <1>6, <3>2
  <2>2. QED
    BY <2>1
<1>9. \A n, m \in 1..c : Ranked(S)[n] = Ranked(S)[m] => n = m
  <2>1. ASSUME NEW n \in 1..c, NEW m \in 1..c, Ranked(S)[n] = Ranked(S)[m] PROVE n = m
    <3>1. n - 1 = m - 1
      BY <1>6, <2>1
    <3>2. QED
      BY <1>4, <3>1
  <2>2. QED
    BY <2>1
<1>10. ASSUME NEW i \in S PROVE \E n \in 1..c : Ranked(S)[n] = i
  <2> DEFINE n == Rank(S, R, i) + 1
  <2>1. n \in 1..c /\ n - 1 = Rank(S, R, i)
    BY <1>4
  <2> HIDE DEF n
  <2>2. Rank(S, R, Ranked(S)[n]) = Rank(S, R, i) /\ Ranked(S)[n] \in S
    BY <1>6, <2>1
  <2>3. ~(Rank(S, R, i) < Rank(S, R, i))
    <3>1. Rank(S, R, i) \in Int
      BY <1>4
    <3>2. QED
      BY <3>1
  <2> DEFINE x == Ranked(S)[n]
  <2>4. x \in S /\ Rank(S, R, x) = Rank(S, R, i)
    BY <2>2
  <2> HIDE DEF x
  <2>5. x \in Int /\ i \in Int
    <3>1. S \subseteq Nat
      OBVIOUS
    <3>2. QED
      BY <2>4, <3>1
  <2>6. ~(x < i) /\ ~(i < x)
    BY <1>4, <2>3, <2>4
  <2>7. x = i
    BY <2>5, <2>6
  <2>8. QED
    BY <2>1, <2>7 DEF x
<1>11. Ranked(S) \in Bijection(1..c, S)
  BY <1>7, <1>9, <1>10 DEF Bijection, Injection, Surjection, IsInjective
<1>12. QED
  BY <1>4, <1>7, <1>8, <1>11 DEF c

-----------------------------------------------------------------------------
(***************************************************************************)
(* Pruning.                                                                *)
(***************************************************************************)
\* Counters that are never negative.
Totals == [Dimensions -> Nat]

\* What is left of a state of counters and rows when p has been pruned.
PruneOf(p, c, t, w) ==
  /\ p.counters \in Totals /\ Table(p.rows) /\ p.evicted \in Totals
  /\ p.removed \subseteq DOMAIN t /\ p.over \subseteq DOMAIN t
  /\ p.removed \cap p.over = {}
  /\ DOMAIN p.rows = DOMAIN t \ (p.removed \cup p.over)
  /\ \A i \in DOMAIN p.rows : p.rows[i] = t[i]
  /\ \A i \in p.removed : Old(t[i].event, w)
  /\ p.evicted["all"] = Cardinality(p.over)
  /\ Tally(Only(t, p.removed)) \in Totals
  /\ \A k \in Dimensions :
       Tally(t)[k] = Tally(p.rows)[k] + p.evicted[k] + Tally(Only(t, p.removed))[k]
  /\ Cardinality(DOMAIN t) <= c["all"] =>
       /\ p.counted = p.removed
       /\ \A k \in Dimensions : Tally(t)[k] <= c[k] =>
            p.counters[k] = c[k] - Tally(Only(t, p.removed))[k]

\* A part of a table is one.
LEMMA PartOfTable ==
  ASSUME NEW t, Table(t), NEW S \in SUBSET DOMAIN t
  PROVE  /\ Table(Only(t, S)) /\ Table(Without(t, S)) /\ Tally(Only(t, S)) \in Totals
         /\ Tally(t) \in Totals
         /\ DOMAIN Only(t, S) = S /\ DOMAIN Without(t, S) = DOMAIN t \ S
         /\ \A i \in S : Only(t, S)[i] = t[i]
         /\ \A i \in DOMAIN t \ S : Without(t, S)[i] = t[i]
         /\ IsFiniteSet(S)
<1>1. /\ DOMAIN Only(t, S) = S /\ DOMAIN Without(t, S) = DOMAIN t \ S
      /\ \A i \in S : Only(t, S)[i] = t[i]
      /\ \A i \in DOMAIN t \ S : Without(t, S)[i] = t[i]
  BY DEF Only, Without
<1>2. IsFiniteSet(S) /\ IsFiniteSet(DOMAIN t \ S)
  BY FS_Subset DEF Table
<1>3. Only(t, S) \in [S -> Rows] /\ Without(t, S) \in [DOMAIN t \ S -> Rows]
  <2>1. \A i \in DOMAIN t : t[i] \in Rows
    BY DEF Table
  <2>2. QED
    BY <2>1 DEF Only, Without
<1>4. Table(Only(t, S)) /\ Table(Without(t, S))
  BY <1>1, <1>2, <1>3 DEF Table
<1>5. Tally(Only(t, S)) \in Totals /\ Tally(t) \in Totals
  BY <1>1, <1>2, TallyType DEF Totals, Table
<1>6. QED
  BY <1>1, <1>2, <1>4, <1>5

\* Taking two parts away takes their tallies away.
LEMMA TwoPartsGone ==
  ASSUME NEW t, Table(t), NEW A \in SUBSET DOMAIN t, NEW B \in SUBSET DOMAIN t, A \cap B = {}
  PROVE  \A k \in Dimensions :
           Tally(t)[k] = Tally(Without(t, A \cup B))[k] + Tally(Only(t, B))[k]
                           + Tally(Only(t, A))[k]
<1> DEFINE r == Without(t, A)
<1>1. Tally(t) = Plus(Tally(Only(t, A)), Tally(r))
  BY TallyOfParts DEF Table
<1>2. /\ Table(r) /\ DOMAIN r = DOMAIN t \ A
      /\ \A i \in DOMAIN r : r[i] = t[i]
  BY PartOfTable
<1> HIDE DEF r
<1>3. B \in SUBSET DOMAIN r
  BY <1>2
<1>4. Tally(r) = Plus(Tally(Only(r, B)), Tally(Without(r, B)))
  BY <1>2, <1>3, TallyOfParts DEF Table
<1>5. Only(r, B) = Only(t, B)
  BY <1>2, <1>3 DEF Only
<1>6. Without(r, B) = Without(t, A \cup B)
  <2>1. DOMAIN r \ B = DOMAIN t \ (A \cup B)
    BY <1>2
  <2>2. QED
    BY <1>2, <2>1 DEF Without
<1>7. /\ Tally(Only(t, A)) \in Totals /\ Tally(Only(t, B)) \in Totals
      /\ Tally(Without(t, A \cup B)) \in Totals
  <2>1. Tally(Only(t, A)) \in Totals /\ Tally(Only(t, B)) \in Totals
    BY PartOfTable
  <2>2. Table(Without(t, A \cup B))
    BY PartOfTable
  <2>3. QED
    BY <2>1, <2>2, TallyType DEF Table, Totals
<1>8. \A k \in Dimensions : Tally(t)[k] = Tally(Only(t, A))[k] + Tally(r)[k]
  BY <1>1 DEF Plus
<1>9. \A k \in Dimensions : Tally(r)[k] = Tally(Only(t, B))[k] + Tally(Without(t, A \cup B))[k]
  BY <1>4, <1>5, <1>6 DEF Plus
<1>10. QED
  BY <1>7, <1>8, <1>9 DEF Totals

\* pruneTx.
LEMMA PrunedIs ==
  ASSUME NEW c \in Totals, NEW t, Table(t), NEW w \in Nat
  PROVE  PruneOf(Pruned(c, t, w), c, t, w)
<1> DEFINE A == Expired(t, w)
           B == OverLimit(t, w)
           p == Pruned(c, t, w)
<1>1. A \in SUBSET DOMAIN t /\ B \in SUBSET DOMAIN t /\ A \cap B = {}
  BY DEF Expired, OverLimit, Old
<1>2. /\ p.counters = UncountAll(c, Only(t, A)) /\ p.rows = Without(t, A \cup B)
      /\ p.removed = A /\ p.counted = Uncounted(c, Only(t, A)) /\ p.over = B
      /\ p.evicted = Tally(Only(t, B))
  BY DEF Pruned
<1>3. \A i \in A : Old(t[i].event, w)
  BY DEF Expired
<1> HIDE DEF A, B, p
<1>4. /\ Table(Only(t, A)) /\ Table(Only(t, B)) /\ Tally(Only(t, A)) \in Totals
      /\ Tally(Only(t, B)) \in Totals /\ DOMAIN Only(t, A) = A /\ DOMAIN Only(t, B) = B
      /\ IsFiniteSet(A) /\ IsFiniteSet(B)
  BY <1>1, PartOfTable
<1>5. /\ Table(p.rows) /\ DOMAIN p.rows = DOMAIN t \ (p.removed \cup p.over)
      /\ \A i \in DOMAIN p.rows : p.rows[i] = t[i]
  <2> DEFINE S == A \cup B
  <2>1. S \in SUBSET DOMAIN t
    BY <1>1
  <2> HIDE DEF S
  <2>2. /\ Table(Without(t, S)) /\ DOMAIN Without(t, S) = DOMAIN t \ S
        /\ \A i \in DOMAIN t \ S : Without(t, S)[i] = t[i]
    BY <2>1, PartOfTable
  <2>3. p.rows = Without(t, S) /\ S = p.removed \cup p.over
    BY <1>2 DEF S
  <2>4. QED
    BY <2>2, <2>3
<1>6. p.evicted["all"] = Cardinality(p.over)
  BY <1>2, <1>4, TallyType
<1>7. \A k \in Dimensions :
        Tally(t)[k] = Tally(p.rows)[k] + p.evicted[k] + Tally(Only(t, p.removed))[k]
  BY <1>1, <1>2, TwoPartsGone
<1>8. c \in [Dimensions -> Nat] /\ DOMAIN Only(t, A) \subseteq Nat
  BY <1>4 DEF Totals, Table
<1>9. /\ UncountAll(c, Only(t, A)) \in Totals
      /\ Cardinality(A) <= c["all"] =>
              /\ Uncounted(c, Only(t, A)) = A
              /\ \A k \in Dimensions : Tally(Only(t, A))[k] <= c[k] =>
                   UncountAll(c, Only(t, A))[k] = c[k] - Tally(Only(t, A))[k]
  BY <1>4, <1>8, UncountIsExact DEF Totals
<1>10. Cardinality(A) <= Cardinality(DOMAIN t) /\ Cardinality(A) \in Nat
       /\ Cardinality(DOMAIN t) \in Nat
  BY <1>1, <1>4, FS_Subset, FS_CardinalityType DEF Table
<1>11. ASSUME Cardinality(DOMAIN t) <= c["all"]
       PROVE  /\ p.counted = p.removed
              /\ \A k \in Dimensions : Tally(t)[k] <= c[k] =>
                   p.counters[k] = c[k] - Tally(Only(t, p.removed))[k]
  <2>1. c["all"] \in Nat
    BY DEF Totals, Dimensions
  <2>2. Cardinality(A) <= c["all"]
    BY <1>10, <1>11, <2>1
  <2>3. ASSUME NEW k \in Dimensions, Tally(t)[k] <= c[k] PROVE Tally(Only(t, A))[k] <= c[k]
    <3>1. Tally(p.rows) \in Totals
      BY <1>5, TallyType DEF Table, Totals
    <3>2. /\ Tally(p.rows)[k] \in Nat /\ p.evicted[k] \in Nat /\ Tally(Only(t, A))[k] \in Nat
          /\ c[k] \in Nat
      BY <1>2, <1>4, <3>1 DEF Totals
    <3>3. Tally(t)[k] = Tally(p.rows)[k] + p.evicted[k] + Tally(Only(t, A))[k]
      BY <1>2, <1>7
    <3>4. QED
      BY <2>3, <3>2, <3>3
  <2>4. QED
    BY <1>2, <1>9, <2>2, <2>3
<1>12. PruneOf(p, c, t, w)
  <2>1. p.counters \in Totals /\ p.evicted \in Totals /\ Tally(Only(t, p.removed)) \in Totals
    BY <1>2, <1>4, <1>9
  <2>2. /\ p.removed \subseteq DOMAIN t /\ p.over \subseteq DOMAIN t
        /\ p.removed \cap p.over = {} /\ \A i \in p.removed : Old(t[i].event, w)
    BY <1>1, <1>2, <1>3
  <2>3. QED
    BY <1>5, <1>6, <1>7, <1>11, <2>1, <2>2 DEF PruneOf
<1>13. QED
  BY <1>12 DEF p

\* A counter is what the rows give, what waits and what was evicted.
Balanced(c, t, u, ev, k) ==
  /\ c \in Totals /\ Table(t) /\ u \in Totals /\ ev \in Totals
  /\ c[k] = Tally(t)[k] + u[k] + ev[k]

\* Counters that are right before it are right after it.
LEMMA PruneMatches ==
  ASSUME NEW p, NEW c, NEW t, NEW w, PruneOf(p, c, t, w), NEW u, NEW ev,
         Balanced(c, t, u, ev, "all"), NEW k \in Dimensions, Balanced(c, t, u, ev, k)
  PROVE  /\ p.counters[k] = Tally(p.rows)[k] + u[k] + (ev[k] + p.evicted[k])
         /\ p.counters[k] = c[k] - Tally(Only(t, p.removed))[k]
         /\ p.counted = p.removed
<1>1. /\ Tally(t) \in Totals /\ Tally(t)["all"] = Cardinality(DOMAIN t)
      /\ Tally(p.rows) \in Totals
  BY TallyType DEF Balanced, Table, PruneOf, Totals
<1>2. /\ u["all"] \in Nat /\ ev["all"] \in Nat /\ u[k] \in Nat /\ ev[k] \in Nat
      /\ Tally(t)["all"] \in Nat /\ Tally(t)[k] \in Nat /\ Tally(p.rows)[k] \in Nat
      /\ p.evicted[k] \in Nat /\ Tally(Only(t, p.removed))[k] \in Nat
  BY <1>1 DEF Balanced, Totals, Dimensions, PruneOf
<1>3. Cardinality(DOMAIN t) <= c["all"] /\ Tally(t)[k] <= c[k]
  BY <1>1, <1>2 DEF Balanced
<1>4. /\ p.counted = p.removed
      /\ p.counters[k] = c[k] - Tally(Only(t, p.removed))[k]
      /\ Tally(t)[k] = Tally(p.rows)[k] + p.evicted[k] + Tally(Only(t, p.removed))[k]
  BY <1>3 DEF PruneOf
<1>5. QED
  BY <1>2, <1>4 DEF Balanced

\* The latest cutoff.
LEMMA HorizonMoves ==
  ASSUME NEW s \in Int, s <= MaxTime, horizon \in -1..MaxTime
  PROVE  /\ Max({horizon, s}) \in -1..MaxTime
         /\ s <= Max({horizon, s}) /\ horizon <= Max({horizon, s})
<1>1. MaxTime \in Int
  BY LedgerAssumption
<1>2. QED
  BY <1>1, MaxOfTwo

\* A cutoff is a past time.
LEMMA Cutoffs ==
  ASSUME NEW w \in Nat, now \in 0..MaxTime
  PROVE  SweptAt(w) \in Int /\ SweptAt(w) <= MaxTime
<1>1. MaxTime \in Nat
  BY LedgerAssumption
<1>2. QED
  BY <1>1 DEF SweptAt

-----------------------------------------------------------------------------
(***************************************************************************)
(* Events that wait for their rows, and the rows they get.                 *)
(***************************************************************************)
\* The last cutoff of the writer is not after the latest one.
Types == LedgerTypeOK /\ swept <= horizon

\* Events as the details that they were counted as.
PlainAll(s) == [i \in DOMAIN s |-> Plain(s[i])]

\* What an import reads.
Details == [event : Events, rich : BOOLEAN]

\* What the types say of the parts of a state.
LEMMA TypeFacts ==
  ASSUME Types
  PROVE  /\ Table(rows) /\ counters \in Totals /\ evicted \in Totals
         /\ Tally(rows) \in Totals /\ Tally(rows)["all"] = Cardinality(DOMAIN rows)
         /\ window \in Nat /\ now \in Nat /\ MaxTime \in Nat /\ now <= MaxTime
         /\ "all" \in Dimensions /\ counters["all"] \in Nat /\ evicted["all"] \in Nat
<1>1. Table(rows)
  BY DEF Types, LedgerTypeOK, Table
<1>2. Tally(rows) \in Totals /\ Tally(rows)["all"] = Cardinality(DOMAIN rows)
  BY <1>1, TallyType DEF Table, Totals
<1>3. counters \in Totals /\ evicted \in Totals /\ window \in Nat /\ now \in 0..MaxTime
  BY LedgerAssumption DEF Types, LedgerTypeOK, Totals
<1>4. MaxTime \in Nat
  BY LedgerAssumption
<1>5. "all" \in Dimensions
  BY DEF Dimensions
<1>6. counters["all"] \in Nat /\ evicted["all"] \in Nat
  BY <1>3, <1>5 DEF Totals
<1>7. QED
  BY <1>1, <1>2, <1>3, <1>4, <1>5, <1>6

\* Waiting events are counted one by one.
LEMMA PlainTally ==
  ASSUME NEW s \in Seq(Events)
  PROVE  /\ Tally(PlainAll(s)) \in Totals /\ Tally(PlainAll(s))["all"] = Len(s)
         /\ DOMAIN PlainAll(s) = 1..Len(s) /\ IsFiniteSet(DOMAIN PlainAll(s))
         /\ \A i \in 1..Len(s) : PlainAll(s)[i] = Plain(s[i])
<1>1. DOMAIN PlainAll(s) = 1..Len(s) /\ \A i \in 1..Len(s) : PlainAll(s)[i] = Plain(s[i])
  BY DEF PlainAll
<1>2. IsFiniteSet(1..Len(s)) /\ Cardinality(1..Len(s)) = Len(s)
  <2>1. Len(s) \in Nat
    OBVIOUS
  <2>2. QED
    BY <2>1, FS_Interval
<1>3. QED
  BY <1>1, <1>2, TallyType DEF Totals

\* A batch and the events after it are all of them.
LEMMA PlainParts ==
  ASSUME NEW s \in Seq(Events), NEW n \in 1..Len(s)
  PROVE  /\ SubSeq(s, 1, n) \in Seq(Events) /\ SubSeq(s, n + 1, Len(s)) \in Seq(Events)
         /\ \A k \in Dimensions :
              Tally(PlainAll(s))[k] = Tally(PlainAll(SubSeq(s, 1, n)))[k]
                                        + Tally(PlainAll(SubSeq(s, n + 1, Len(s))))[k]
<1> DEFINE f == PlainAll(s)
           a == SubSeq(s, 1, n)
           r == SubSeq(s, n + 1, Len(s))
           b == [i \in 1..(Len(s) - n) |-> n + i]
           w == Without(f, 1..n)
<1>1. /\ a \in Seq(Events) /\ r \in Seq(Events) /\ Len(a) = n /\ Len(r) = Len(s) - n
      /\ \A i \in 1..n : a[i] = s[i]
      /\ \A i \in 1..(Len(s) - n) : r[i] = s[n + i]
  OBVIOUS
<1>2. /\ DOMAIN f = 1..Len(s) /\ IsFiniteSet(DOMAIN f)
      /\ \A i \in 1..Len(s) : f[i] = Plain(s[i])
  BY PlainTally
<1> HIDE DEF f, a, r
<1>3. /\ DOMAIN PlainAll(a) = 1..n /\ \A i \in 1..n : PlainAll(a)[i] = Plain(s[i])
      /\ DOMAIN PlainAll(r) = 1..(Len(s) - n)
      /\ \A i \in 1..(Len(s) - n) : PlainAll(r)[i] = Plain(s[n + i])
  <2>1. \A i \in 1..n : PlainAll(a)[i] = Plain(a[i])
    BY <1>1, PlainTally
  <2>2. \A i \in 1..(Len(s) - n) : PlainAll(r)[i] = Plain(r[i])
    BY <1>1, PlainTally
  <2>3. DOMAIN PlainAll(a) = 1..n /\ DOMAIN PlainAll(r) = 1..(Len(s) - n)
    BY <1>1, PlainTally
  <2>4. QED
    BY <1>1, <2>1, <2>2, <2>3
<1>4. /\ DOMAIN Only(f, 1..n) = 1..n /\ \A i \in 1..n : Only(f, 1..n)[i] = f[i]
      /\ DOMAIN w = (n + 1)..Len(s) /\ \A i \in (n + 1)..Len(s) : w[i] = f[i]
  BY <1>2 DEF Only, Without
<1> HIDE DEF w
<1>5. Tally(Only(f, 1..n)) = Tally(PlainAll(a))
  <2>1. \A i \in 1..n : Only(f, 1..n)[i] = PlainAll(a)[i]
    BY <1>2, <1>3, <1>4
  <2>2. QED
    BY <1>3, <1>4, <2>1, SameTally
<1>6. Tally(PlainAll(r)) = Tally(w)
  <2>1. b \in [DOMAIN PlainAll(r) -> DOMAIN w]
    BY <1>3, <1>4
  <2>2. \A i, j \in DOMAIN PlainAll(r) : b[i] = b[j] => i = j
    BY <1>3
  <2>3. ASSUME NEW j \in DOMAIN w PROVE \E i \in DOMAIN PlainAll(r) : b[i] = j
    <3>1. j - n \in DOMAIN PlainAll(r) /\ b[j - n] = j
      BY <1>3, <1>4
    <3>2. QED
      BY <3>1
  <2>4. \A i \in DOMAIN PlainAll(r) : PlainAll(r)[i].rich = w[b[i]].rich
    <3>1. ASSUME NEW i \in DOMAIN PlainAll(r) PROVE PlainAll(r)[i] = w[b[i]]
      <4>1. b[i] = n + i /\ n + i \in (n + 1)..Len(s)
        BY <1>3
      <4>2. QED
        BY <1>2, <1>3, <1>4, <4>1
    <3>2. QED
      BY <3>1
  <2> HIDE DEF b
  <2>5. b \in Bijection(DOMAIN PlainAll(r), DOMAIN w)
    BY <2>1, <2>2, <2>3 DEF Bijection, Injection, Surjection, IsInjective
  <2>6. IsFiniteSet(DOMAIN w)
    <3>1. n + 1 \in Int /\ Len(s) \in Int
      OBVIOUS
    <3>2. QED
      BY <1>4, <3>1, FS_Interval
  <2>7. QED
    BY <2>4, <2>5, <2>6, RenumberedTally
<1>7. Tally(f) = Plus(Tally(Only(f, 1..n)), Tally(w))
  <2>1. 1..n \in SUBSET DOMAIN f
    BY <1>2
  <2>2. QED
    BY <1>2, <2>1, TallyOfParts DEF w
<1>8. \A k \in Dimensions : Tally(f)[k] = Tally(PlainAll(a))[k] + Tally(PlainAll(r))[k]
  BY <1>5, <1>6, <1>7 DEF Plus
<1>9. QED
  BY <1>1, <1>8 DEF f, a, r

\* One more waiting event counts one more.
LEMMA PlainAppended ==
  ASSUME NEW s \in Seq(Events), NEW e \in Events
  PROVE  /\ Append(s, e) \in Seq(Events)
         /\ Tally(PlainAll(Append(s, e))) = Count(Tally(PlainAll(s)), Plain(e))
<1> DEFINE z == Append(s, e)
           n == Len(s)
<1>1. /\ z \in Seq(Events) /\ Len(z) = n + 1 /\ z[n + 1] = e /\ n \in Nat
      /\ \A i \in 1..n : z[i] = s[i]
  OBVIOUS
<1> HIDE DEF z, n
<1>2. /\ DOMAIN PlainAll(z) = 1..(n + 1) /\ IsFiniteSet(DOMAIN PlainAll(z))
      /\ \A i \in 1..(n + 1) : PlainAll(z)[i] = Plain(z[i])
      /\ DOMAIN PlainAll(s) = 1..n /\ IsFiniteSet(DOMAIN PlainAll(s))
      /\ \A i \in 1..n : PlainAll(s)[i] = Plain(s[i])
  BY <1>1, PlainTally DEF n
<1>3. ASSUME NEW k \in Dimensions
      PROVE  Cardinality(InKey(PlainAll(z), k))
               = IF k \in KeysOf(Plain(e)) THEN Cardinality(InKey(PlainAll(s), k)) + 1
                 ELSE Cardinality(InKey(PlainAll(s), k))
  <2>1. InKey(PlainAll(z), k) = IF k \in KeysOf(Plain(e)) THEN InKey(PlainAll(s), k) \cup {n + 1}
                                ELSE InKey(PlainAll(s), k)
    <3>1. \A i \in 1..(n + 1) : i \in 1..n \/ i = n + 1
      BY <1>1
    <3>2. \A i \in 1..n : i \in 1..(n + 1) /\ PlainAll(z)[i] = PlainAll(s)[i]
      BY <1>1, <1>2
    <3>3. PlainAll(z)[n + 1] = Plain(e) /\ n + 1 \in 1..(n + 1) /\ n + 1 \notin 1..n
      BY <1>1, <1>2
    <3>4. QED
      BY <1>2, <3>1, <3>2, <3>3 DEF InKey
  <2>2. n + 1 \notin InKey(PlainAll(s), k)
    BY <1>1, <1>2 DEF InKey
  <2>3. IsFiniteSet(InKey(PlainAll(s), k))
    BY <1>2, TallyType
  <2>4. QED
    BY <2>1, <2>2, <2>3, FS_AddElement
<1>4. ASSUME NEW k \in Dimensions
      PROVE  Tally(PlainAll(z))[k] = Count(Tally(PlainAll(s)), Plain(e))[k]
  BY <1>2, <1>3, TallyType DEF Count
<1>5. Tally(PlainAll(z)) = Count(Tally(PlainAll(s)), Plain(e))
  <2>1. Tally(PlainAll(z)) = [k \in Dimensions |-> Tally(PlainAll(z))[k]]
    BY DEF Tally
  <2>2. Count(Tally(PlainAll(s)), Plain(e))
          = [k \in Dimensions |-> Count(Tally(PlainAll(s)), Plain(e))[k]]
    BY DEF Count
  <2> HIDE DEF Count
  <2>3. QED
    BY <1>4, <2>1, <2>2
<1>6. QED
  BY <1>1, <1>5 DEF z

\* What a batch writes.
NewRows(n) == [j \in 1..n |-> Row(unwritten[j], FALSE, TRUE)]

\* The rows of a batch come after those there are.
LEMMA BatchRows ==
  ASSUME Types, NEW n \in 1..Len(unwritten)
  PROVE  /\ NewRows(n) \in Seq(Rows) /\ Len(NewRows(n)) = n
         /\ Table(WithBatch(n)) /\ WithBatch(n) = Appended(rows, NewRows(n))
         /\ Tally(WithBatch(n)) = Plus(Tally(rows), Tally(NewRows(n)))
         /\ Tally(NewRows(n)) \in Totals /\ Tally(NewRows(n))["all"] = n
         /\ Tally(PlainAll(Batch(n)))["all"] = n
         /\ pending \cap ToSet(Batch(n)) = {} => Tally(NewRows(n)) = Tally(PlainAll(Batch(n)))
<1>1. unwritten \in Seq(Events) /\ n \in Nat
  BY DEF Types, LedgerTypeOK
<1>2. \A j \in 1..n : unwritten[j] \in Events
  BY <1>1
<1>3. ASSUME NEW j \in 1..n
      PROVE  /\ NewRows(n)[j] = [event |-> unwritten[j], rich |-> unwritten[j] \in pending,
                                 print |-> FALSE, live |-> TRUE]
             /\ NewRows(n)[j] \in Rows
  BY <1>2 DEF NewRows, Row, Rows
<1>4. NewRows(n) \in Seq(Rows) /\ Len(NewRows(n)) = n /\ DOMAIN NewRows(n) = 1..n
  <2>1. NewRows(n) \in [1..n -> Rows]
    BY <1>3 DEF NewRows
  <2>2. QED
    BY <1>1, <2>1
<1>5. WithBatch(n) = Appended(rows, NewRows(n))
  BY DEF WithBatch, NewRows
<1>6. /\ Table(WithBatch(n))
      /\ Tally(WithBatch(n)) = Plus(Tally(rows), Tally(NewRows(n)))
  <2>1. Table(rows)
    BY TypeFacts
  <2>2. /\ Table(Appended(rows, NewRows(n)))
        /\ Tally(Appended(rows, NewRows(n))) = Plus(Tally(rows), Tally(NewRows(n)))
    BY <1>4, <2>1, AppendedRows DEF Continues
  <2>3. QED
    BY <1>5, <2>2
<1>7. IsFiniteSet(1..n) /\ Cardinality(1..n) = n
  BY <1>1, FS_Interval
<1>8. Tally(NewRows(n)) \in Totals /\ Tally(NewRows(n))["all"] = n
  BY <1>4, <1>7, TallyType DEF Totals
<1>9. /\ Batch(n) \in Seq(Events) /\ Len(Batch(n)) = n
      /\ \A j \in 1..n : Batch(n)[j] = unwritten[j]
  BY <1>1 DEF Batch
<1>10. /\ DOMAIN PlainAll(Batch(n)) = 1..n /\ Tally(PlainAll(Batch(n)))["all"] = n
       /\ \A j \in 1..n : PlainAll(Batch(n))[j] = Plain(unwritten[j])
  BY <1>9, PlainTally
<1>11. ASSUME pending \cap ToSet(Batch(n)) = {}
       PROVE  Tally(NewRows(n)) = Tally(PlainAll(Batch(n)))
  <2>1. \A j \in 1..n : unwritten[j] \notin pending
    <3>1. \A j \in 1..n : unwritten[j] \in ToSet(Batch(n))
      BY <1>9 DEF ToSet
    <3>2. QED
      BY <1>11, <3>1
  <2>2. ASSUME NEW j \in 1..n PROVE NewRows(n)[j].rich = PlainAll(Batch(n))[j].rich
    <3>1. NewRows(n)[j].rich = FALSE
      <4>1. NewRows(n)[j] = Row(unwritten[j], FALSE, TRUE)
        BY DEF NewRows
      <4>2. NewRows(n)[j].rich = (FALSE \/ unwritten[j] \in pending)
        BY <4>1 DEF Row
      <4>3. (FALSE \/ unwritten[j] \in pending) = FALSE
        BY <2>1
      <4>4. QED
        BY <4>2, <4>3
    <3>2. PlainAll(Batch(n))[j].rich = FALSE
      BY <1>10 DEF Plain
    <3>3. QED
      BY <3>1, <3>2
  <2>3. QED
    BY <1>4, <1>10, <2>2, SameTally
<1>12. QED
  BY <1>4, <1>5, <1>6, <1>8, <1>10, <1>11

\* The rows of a batch, pruned or not.
LEMMA BatchPrunedIs ==
  ASSUME Types, NEW n \in 1..Len(unwritten)
  PROVE  /\ PruneOf(BatchPruned(n), counters, WithBatch(n), window)
         /\ BatchPruned(n).removed # {} => RetentionDue
<1> DEFINE t == WithBatch(n)
           p == BatchPruned(n)
<1>1. Table(t) /\ counters \in Totals /\ window \in Nat
  BY BatchRows, TypeFacts
<1>2. CASE RetentionDue \/ window = 0
  <2>1. p = Pruned(counters, t, window)
    BY <1>2 DEF BatchPruned
  <2>2. PruneOf(p, counters, t, window)
    <3> HIDE DEF p, t
    <3>1. QED
      BY <1>1, <2>1, PrunedIs
  <2>3. p.removed # {} => RetentionDue
    <3>1. ASSUME window = 0 PROVE p.removed = {}
      <4>1. p.removed = Expired(t, window)
        BY <2>1 DEF Pruned
      <4>2. QED
        BY <3>1, <4>1 DEF Expired, Old
    <3>2. QED
      BY <1>2, <3>1
  <2>4. QED
    BY <2>2, <2>3
<1>3. CASE ~(RetentionDue \/ window = 0)
  <2>1. /\ p.counters = counters /\ p.rows = t /\ p.removed = {} /\ p.counted = {}
        /\ p.over = {} /\ p.evicted = Zero
    BY <1>3 DEF BatchPruned
  <2> HIDE DEF t, p
  <2>2. {} \in SUBSET DOMAIN t
    OBVIOUS
  <2>3. /\ Tally(Only(t, {})) \in Totals /\ DOMAIN Only(t, {}) = {}
        /\ Tally(t) \in Totals
    BY <1>1, <2>2, PartOfTable
  <2>4. \A k \in Dimensions : Tally(Only(t, {}))[k] = 0
    <3>1. Cardinality(DOMAIN Only(t, {})) = 0 /\ IsFiniteSet(DOMAIN Only(t, {}))
      BY <2>3, FS_EmptySet
    <3>2. \A k \in Dimensions : Tally(Only(t, {}))[k] <= 0
      BY <3>1, TallyType
    <3>3. QED
      BY <2>3, <3>2 DEF Totals
  <2>5. /\ Zero \in Totals /\ Zero["all"] = 0 /\ \A k \in Dimensions : Zero[k] = 0
        /\ Cardinality({}) = 0
    BY FS_EmptySet DEF Zero, Totals, Dimensions
  <2>6. \A k \in Dimensions :
          Tally(t)[k] = Tally(p.rows)[k] + p.evicted[k] + Tally(Only(t, p.removed))[k]
    BY <2>1, <2>3, <2>4, <2>5 DEF Totals
  <2>7. \A k \in Dimensions : p.counters[k] = counters[k] - Tally(Only(t, p.removed))[k]
    BY <1>1, <2>1, <2>4 DEF Totals
  <2>8. /\ p.counters \in Totals /\ Table(p.rows) /\ p.evicted \in Totals
        /\ p.removed \subseteq DOMAIN t /\ p.over \subseteq DOMAIN t
        /\ p.removed \cap p.over = {}
        /\ DOMAIN p.rows = DOMAIN t \ (p.removed \cup p.over)
        /\ (\A i \in DOMAIN p.rows : p.rows[i] = t[i])
        /\ p.evicted["all"] = Cardinality(p.over)
        /\ Tally(Only(t, p.removed)) \in Totals /\ p.counted = p.removed
    BY <1>1, <2>1, <2>3, <2>5
  <2>9. \A i \in p.removed : Old(t[i].event, window)
    BY <2>1
  <2>10. PruneOf(p, counters, t, window)
    BY <2>6, <2>7, <2>8, <2>9 DEF PruneOf
  <2>11. QED
    BY <2>1, <2>10 DEF p, t
<1>4. QED
  BY <1>2, <1>3

-----------------------------------------------------------------------------
(***************************************************************************)
(* Renumbered rows, exports and imports.                                   *)
(***************************************************************************)
\* Copied rows are the rows in their order.
LEMMA RenumberedIs ==
  ASSUME Types
  PROVE  LET g == Ranked(DOMAIN rows) IN
         /\ g \in Bijection(DOMAIN Renumbered, DOMAIN rows)
         /\ \A n, m \in DOMAIN Renumbered : n < m => g[n] < g[m]
         /\ DOMAIN Renumbered = 1..Cardinality(DOMAIN rows)
         /\ \A n \in DOMAIN Renumbered : g[n] \in DOMAIN rows /\ Renumbered[n] = rows[g[n]]
         /\ Renumbered \in Seq(Rows) /\ Table(Renumbered)
         /\ Tally(Renumbered) = Tally(rows)
         /\ Cardinality(DOMAIN Renumbered) = Cardinality(DOMAIN rows)
<1> DEFINE g == Ranked(DOMAIN rows)
           c == Cardinality(DOMAIN rows)
<1>1. Table(rows) /\ IsFiniteSet(DOMAIN rows) /\ DOMAIN rows \in SUBSET Nat
  BY TypeFacts DEF Table
<1>2. /\ g \in Bijection(1..c, DOMAIN rows) /\ DOMAIN g = 1..c /\ c \in Nat
      /\ \A n, m \in 1..c : n < m => g[n] < g[m]
  BY <1>1, RankedNumbers
<1>3. Renumbered = [n \in DOMAIN g |-> rows[g[n]]]
  BY DEF Renumbered
<1> HIDE DEF g, c
<1>4. /\ DOMAIN Renumbered = 1..c
      /\ \A n \in 1..c : g[n] \in DOMAIN rows /\ Renumbered[n] = rows[g[n]]
  BY <1>2, <1>3 DEF Bijection, Injection
<1>5. \A n \in 1..c : Renumbered[n] \in Rows
  BY <1>1, <1>4 DEF Table
<1>6. Renumbered \in [1..c -> Rows]
  BY <1>2, <1>3, <1>5
<1>7. Renumbered \in Seq(Rows)
  BY <1>2, <1>6
<1>8. IsFiniteSet(DOMAIN Renumbered) /\ Tally(Renumbered) = Tally(rows)
  <2>1. \A n \in DOMAIN Renumbered : Renumbered[n].rich = rows[g[n]].rich
    BY <1>4
  <2>2. QED
    BY <1>1, <1>2, <1>4, <2>1, RenumberedTally
<1>9. Table(Renumbered)
  <2>1. DOMAIN Renumbered \subseteq Nat \ {0}
    BY <1>2, <1>4
  <2>2. QED
    BY <1>4, <1>6, <1>8, <2>1 DEF Table
<1>10. Cardinality(DOMAIN Renumbered) = c
  <2>1. Cardinality(1..c) = c
    BY <1>2, FS_Interval
  <2>2. QED
    BY <1>4, <2>1
<1>11. QED
  BY <1>2, <1>4, <1>7, <1>8, <1>9, <1>10 DEF g, c

\* An export has a detail for every row.
LEMMA ExportedIs == Types => Exported \in Seq(Details)
<1> SUFFICES ASSUME Types PROVE Exported \in Seq(Details)
  OBVIOUS
<1>1. Renumbered \in Seq(Rows)
  BY RenumberedIs
<1>2. \A n \in DOMAIN Renumbered : Renumbered[n].event \in Events /\ Renumbered[n].rich \in BOOLEAN
  <2>1. \A n \in DOMAIN Renumbered : Renumbered[n] \in Rows
    BY <1>1
  <2>2. \A r \in Rows : r.event \in Events /\ r.rich \in BOOLEAN
    BY DEF Rows
  <2>3. QED
    BY <2>1, <2>2
<1>3. Len(Renumbered) \in Nat /\ DOMAIN Renumbered = 1..Len(Renumbered)
  BY <1>1
<1>4. \A n \in DOMAIN Renumbered :
        [event |-> Renumbered[n].event, rich |-> Renumbered[n].rich] \in Details
  BY <1>2 DEF Details
<1>5. Exported \in [1..Len(Renumbered) -> Details]
  BY <1>3, <1>4 DEF Exported
<1>6. QED
  BY <1>3, <1>5

\* The detail that an added row comes from.
Source(details, n) == details[Ranked(Fresh(details))[n]]

\* Added rows come from fresh details, each from another one.
LEMMA AddedIs ==
  ASSUME Types, NEW details \in Seq(Details)
  PROVE  LET a == Added(details)
             g == Ranked(Fresh(details))
         IN /\ a \in Seq(Rows)
            /\ \A n \in DOMAIN a : /\ g[n] \in Fresh(details) /\ g[n] \in DOMAIN details
                                   /\ Source(details, n) \in Details
                                   /\ a[n] = Row(Source(details, n).event,
                                                 Source(details, n).rich, FALSE)
            /\ \A n, m \in DOMAIN a : g[n] = g[m] => n = m
<1> DEFINE g == Ranked(Fresh(details))
           a == Added(details)
           c == Cardinality(Fresh(details))
<1>1. Len(details) \in Nat /\ DOMAIN details = 1..Len(details)
  OBVIOUS
<1>2. Fresh(details) \in SUBSET (DOMAIN details)
  BY DEF Fresh
<1>3. IsFiniteSet(Fresh(details)) /\ Fresh(details) \in SUBSET Nat
  <2>1. IsFiniteSet(1..Len(details))
    BY <1>1, FS_Interval
  <2>2. IsFiniteSet(Fresh(details))
    BY <1>1, <1>2, <2>1, FS_Subset
  <2>3. QED
    BY <1>1, <1>2, <2>2
<1>4. /\ g \in Bijection(1..c, Fresh(details)) /\ DOMAIN g = 1..c /\ c \in Nat
  BY <1>3, RankedNumbers
<1>5. a = [n \in DOMAIN g |-> Row(Source(details, n).event, Source(details, n).rich, FALSE)]
  BY DEF Added, Source
<1>6. \A n \in 1..c : Source(details, n) = details[g[n]]
  BY DEF Source
<1> HIDE DEF g, a, c
<1>7. \A n \in 1..c : g[n] \in Fresh(details) /\ g[n] \in DOMAIN details
  BY <1>2, <1>4 DEF Bijection, Injection
<1>8. \A n, m \in 1..c : g[n] = g[m] => n = m
  BY <1>4 DEF Bijection, Injection, IsInjective
<1>9. \A n \in 1..c : Source(details, n) \in Details
  BY <1>1, <1>6, <1>7
<1>10. DOMAIN a = 1..c
  BY <1>4, <1>5
<1>11. ASSUME NEW n \in 1..c
       PROVE  a[n] = Row(Source(details, n).event, Source(details, n).rich, FALSE)
  BY <1>4, <1>5
<1>12. ASSUME NEW n \in 1..c PROVE a[n] \in Rows
  <2> DEFINE d == Source(details, n)
  <2>1. d \in Details
    BY <1>9
  <2> HIDE DEF d
  <2>2. d.event \in Events /\ d.rich \in BOOLEAN
    BY <2>1 DEF Details
  <2> DEFINE b == d.rich \/ d.event \in pending
  <2>3. b \in BOOLEAN
    OBVIOUS
  <2>4. Row(d.event, d.rich, FALSE)
          = [event |-> d.event, rich |-> b, print |-> d.rich, live |-> FALSE]
    BY DEF Row
  <2> HIDE DEF b
  <2>5. Row(d.event, d.rich, FALSE) \in Rows
    <3>1. \A e \in Events : \A x, y \in BOOLEAN :
            [event |-> e, rich |-> x, print |-> y, live |-> FALSE] \in Rows
      BY DEF Rows
    <3>2. [event |-> d.event, rich |-> b, print |-> d.rich, live |-> FALSE] \in Rows
      BY <2>2, <2>3, <3>1, Zenon
    <3>3. QED
      BY <2>4, <3>2, Zenon
  <2>6. QED
    BY <1>11, <2>5 DEF d
<1>13. a \in Seq(Rows)
  <2>1. a = [n \in 1..c |-> a[n]]
    BY <1>4, <1>5
  <2>2. a \in [1..c -> Rows]
    BY <1>12, <2>1
  <2>3. QED
    BY <1>4, <2>2
<1>14. QED
  BY <1>7, <1>8, <1>9, <1>10, <1>11, <1>13 DEF a, g

\* What an import makes of rows and counters before it prunes them.
ImportedRows(details) == Appended(rows, Added(details))
\* The details as imported, the counters with them, and the metadata that the
\* added rows take.
ImportedPrints(details) == [n \in DOMAIN Added(details) |-> [rich |-> Added(details)[n].print]]
ImportedCounters(details) == CountAll(counters, ImportedPrints(details))
Consumed(details) == {r.event : r \in {x \in ToSet(Added(details)) : ~x.print}} \cap pending

\* They have their types, and agree unless metadata was waiting for a row.
LEMMA ImportedIs ==
  ASSUME Types, NEW details \in Seq(Details)
  PROVE  /\ Table(ImportedRows(details)) /\ ImportedCounters(details) \in Totals
         /\ \A k \in Dimensions :
              ImportedCounters(details)[k] = counters[k] + Tally(ImportedPrints(details))[k]
         /\ Tally(ImportedPrints(details)) \in Totals
         /\ Tally(Added(details)) \in Totals
         /\ Tally(ImportedRows(details)) = Plus(Tally(rows), Tally(Added(details)))
         /\ Tally(Added(details))["all"] = Tally(ImportedPrints(details))["all"]
         /\ Consumed(details) = {} => Tally(Added(details)) = Tally(ImportedPrints(details))
<1> DEFINE a == Added(details)
           p == ImportedPrints(details)
<1>1. a \in Seq(Rows)
  BY AddedIs
<1>2. Table(rows) /\ counters \in Totals
  BY TypeFacts
<1>3. /\ DOMAIN p = DOMAIN a /\ DOMAIN a = 1..Len(a) /\ Len(a) \in Nat
      /\ \A n \in DOMAIN a : p[n].rich = a[n].print
  BY <1>1 DEF ImportedPrints
<1>4. IsFiniteSet(DOMAIN a)
  BY <1>3, FS_Interval
<1> HIDE DEF a, p
<1>5. /\ Tally(a) \in Totals /\ Tally(p) \in Totals /\ Tally(a)["all"] = Tally(p)["all"]
  BY <1>3, <1>4, TallyType DEF Totals
<1>6. Table(Appended(rows, a)) /\ Tally(Appended(rows, a)) = Plus(Tally(rows), Tally(a))
  BY <1>1, <1>2, AppendedRows DEF Continues
<1>7. /\ CountAll(counters, p) \in Totals
      /\ \A k \in Dimensions : CountAll(counters, p)[k] = counters[k] + Tally(p)[k]
  BY <1>2, <1>5 DEF CountAll, Plus, Totals
<1>8. ASSUME Consumed(details) = {} PROVE Tally(a) = Tally(p)
  <2>1. ASSUME NEW n \in DOMAIN a PROVE a[n].rich = p[n].rich
    <3>1. a[n] = Row(Source(details, n).event, Source(details, n).rich, FALSE)
      BY AddedIs DEF a
    <3>2. a[n].print = Source(details, n).rich /\ a[n].event = Source(details, n).event
      BY <3>1 DEF Row
    <3>3. a[n].rich = (a[n].print \/ a[n].event \in pending)
      BY <3>1, <3>2 DEF Row
    <3>4. a[n] \in Rows
      BY <1>1
    <3>5. a[n].print \in BOOLEAN
      BY <3>4 DEF Rows
    <3>6. CASE a[n].print
      BY <1>3, <3>3, <3>5, <3>6
    <3>7. CASE ~a[n].print
      <4>1. a[n] \in {x \in ToSet(a) : ~x.print}
        BY <1>1, <3>7 DEF ToSet
      <4>2. a[n].event \notin pending
        BY <1>8, <4>1 DEF Consumed, a
      <4>3. QED
        BY <1>3, <3>3, <3>5, <3>7, <4>2
    <3>8. QED
      BY <3>6, <3>7
  <2>2. QED
    BY <1>3, <2>1, SameTally
<1>9. QED
  BY <1>5, <1>6, <1>7, <1>8 DEF a, p, ImportedRows, ImportedCounters

-----------------------------------------------------------------------------
(***************************************************************************)
(* The steps that prune and save, and their types.                         *)
(***************************************************************************)
\* What a database may have saved.
Aggregates == [all : Nat, mark : Nat]

\* A step that prunes the counters c and the rows t, and saves.
Maintains(c, t, ev, w) ==
  LET p == Pruned(c, t, w)
  IN /\ counters' = p.counters /\ rows' = p.rows /\ aggregate' = Save(p)
     /\ swept' = SweptAt(w) /\ horizon' = Max({horizon, SweptAt(w)})
     /\ evicted' = Plus(ev, p.evicted)

\* The types of what such a step assigns.
MaintainedTypes ==
  /\ counters' \in [Dimensions -> Nat] /\ rows' \in [DOMAIN rows' -> Rows]
  /\ IsFiniteSet(DOMAIN rows') /\ DOMAIN rows' \subseteq Nat \ {0}
  /\ aggregate' \in [all : Nat, mark : Nat] \cup {NoAggregate}
  /\ evicted' \in [Dimensions -> Nat]
  /\ swept' \in Int /\ horizon' \in -1..MaxTime /\ swept' <= horizon'

\* Adding counters adds each of them.
LEMMA TotalsAdd ==
  ASSUME NEW a \in Totals, NEW b \in Totals
  PROVE  Plus(a, b) \in Totals /\ \A k \in Dimensions : Plus(a, b)[k] = a[k] + b[k]
BY DEF Plus, Totals

\* What is saved is an aggregate.
LEMMA SavedIs ==
  ASSUME NEW p, p.counters \in Totals, Table(p.rows)
  PROVE  /\ Save(p) \in Aggregates /\ Save(p).all = p.counters["all"]
         /\ Save(p).mark = MaxId(p.rows) /\ \A i \in DOMAIN p.rows : i <= Save(p).mark
<1>1. MaxId(p.rows) \in Nat /\ \A i \in DOMAIN p.rows : i <= MaxId(p.rows)
  BY LastId DEF Table
<1>2. p.counters["all"] \in Nat
  BY DEF Totals, Dimensions
<1>3. QED
  BY <1>1, <1>2 DEF Save, Aggregates

\* Maintenance keeps the types of what it assigns.
LEMMA MaintainsTypes ==
  ASSUME Types, NEW c \in Totals, NEW t, Table(t), NEW ev \in Totals, NEW w \in Nat,
         Maintains(c, t, ev, w)
  PROVE  MaintainedTypes
<1> DEFINE p == Pruned(c, t, w)
<1>1. /\ counters' = p.counters /\ rows' = p.rows /\ aggregate' = Save(p)
      /\ swept' = SweptAt(w) /\ horizon' = Max({horizon, SweptAt(w)})
      /\ evicted' = Plus(ev, p.evicted)
  BY DEF Maintains
<1>2. PruneOf(p, c, t, w)
  BY PrunedIs
<1> HIDE DEF p
<1>3. p.counters \in Totals /\ Table(p.rows) /\ p.evicted \in Totals
  BY <1>2 DEF PruneOf
<1>4. aggregate' \in [all : Nat, mark : Nat]
  BY <1>1, <1>3, SavedIs DEF Aggregates
<1>5. evicted' \in Totals
  BY <1>1, <1>3, TotalsAdd
<1>6. now \in 0..MaxTime /\ horizon \in -1..MaxTime
  BY DEF Types, LedgerTypeOK
<1>7. SweptAt(w) \in Int /\ SweptAt(w) <= MaxTime
  BY <1>6, Cutoffs
<1>8. /\ Max({horizon, SweptAt(w)}) \in -1..MaxTime
      /\ SweptAt(w) <= Max({horizon, SweptAt(w)})
  BY <1>6, <1>7, HorizonMoves
<1>9. /\ rows' \in [DOMAIN rows' -> Rows] /\ IsFiniteSet(DOMAIN rows')
      /\ DOMAIN rows' \subseteq Nat \ {0}
  BY <1>1, <1>3 DEF Table
<1>10. QED
  BY <1>1, <1>3, <1>4, <1>5, <1>7, <1>8, <1>9 DEF MaintainedTypes, Totals

\* Metadata that expired is gone, and nothing else of it.
LEMMA PendingTypes ==
  ASSUME NEW s \in SUBSET Events, NEW w
  PROVE  PrunedPending(s, w) \in SUBSET Events
BY DEF PrunedPending

\* What the maintenance assigns, whatever started it.
LEMMA PruneSQLiteIs ==
  ASSUME Types, NEW w \in Nat, PruneSQLite(w)
  PROVE  /\ Maintains(counters, rows, evicted, w)
         /\ pending' = PrunedPending(pending, w) /\ SettledBySave
         /\ UNCHANGED <<unwritten, lastId, force, recorded, enriched, drifted, late, now>>
BY DEF PruneSQLite, Maintains

\* An import assigns what the maintenance does, to rows and counters that it
\* adds to.
LEMMA ImportAssigns ==
  ASSUME NEW details, Import(details)
  PROVE  /\ Maintains(ImportedCounters(details), ImportedRows(details), evicted, window)
         /\ pending' = PrunedPending(pending \ Consumed(details), window)
         /\ lastId' = Max((DOMAIN ImportedRows(details) \ DOMAIN rows) \cup {lastId})
         /\ late' = (late \/ Consumed(details) # {})
         /\ changes < MaxChanges /\ changes' = changes + 1 /\ SettledBySave
         /\ UNCHANGED <<unwritten, force, recorded, enriched, drifted, window, now>>
BY DEF Import, Maintains, ImportedCounters, ImportedRows, ImportedPrints, AsImported,
       Consumed

\* The observer of evictions when a database is loaded.
Reloaded == [Zero EXCEPT !["all"] = evicted["all"]]

\* So does whoever loads a database.
LEMMA LoadAssigns ==
  ASSUME NEW t, NEW a, Load(t, a)
  PROVE  /\ Maintains(Loaded(t, a), t, Reloaded, window)
         /\ pending' = PrunedPending(pending, window) /\ unwritten' = <<>>
         /\ lastId' = Max({MaxId(t), IF Trusted(t, a) THEN a.mark ELSE 0})
         /\ unsettled' = {} /\ late' = FALSE
         /\ UNCHANGED <<recorded, enriched, bounds>>
BY DEF Load, Maintains, Reloaded

\* Loaded counters have their types: the total is counted or trusted, the rest
\* is the rows'.
LEMMA LoadedIs ==
  ASSUME Types, NEW t, Table(t), NEW a \in Aggregates \cup {NoAggregate}
  PROVE  /\ Loaded(t, a) \in Totals /\ Loaded(t, a)["all"] = Total(t, a)
         /\ \A k \in Dimensions \ {"all"} : Loaded(t, a)[k] = Tally(t)[k]
         /\ Reloaded \in Totals /\ Reloaded["all"] = evicted["all"]
         /\ \A k \in Dimensions \ {"all"} : Reloaded[k] = 0
         /\ IsFiniteSet(AfterMark(t, a.mark))
<1>1. Tally(t) \in Totals
  BY TallyType DEF Table, Totals
<1>2. IsFiniteSet(AfterMark(t, a.mark))
  BY FS_Subset DEF AfterMark, Table
<1>3. Cardinality(AfterMark(t, a.mark)) \in Nat /\ Cardinality(DOMAIN t) \in Nat
  BY <1>2, FS_CardinalityType DEF Table
<1>4. Trusted(t, a) => a.all \in Nat
  BY LedgerAssumption DEF Trusted, Aggregates
<1>5. Total(t, a) \in Nat
  BY <1>3, <1>4 DEF Total
<1>6. evicted["all"] \in Nat
  BY TypeFacts
<1>7. QED
  BY <1>1, <1>2, <1>5, <1>6 DEF Loaded, Reloaded, Zero, Totals, Dimensions

\* Which of the variables a step that maintains the database leaves open.
LEMMA RestTypes ==
  ASSUME Types, MaintainedTypes,
         lastId' \in Nat, unwritten' \in Seq(Events), force' \in BOOLEAN, window' \in Windows,
         now' = now, pending' \subseteq Events, recorded' = recorded, enriched' = enriched,
         unsettled' \subseteq {"removed", "early", "reused"}, drifted' \in BOOLEAN,
         late' \in BOOLEAN, changes' \in 0..MaxChanges
  PROVE  Types'
BY DEF Types, LedgerTypeOK, MaintainedTypes

\* Saving settles everything unless something waits.
LEMMA SettledTypes ==
  ASSUME SettledBySave
  PROVE  unsettled' \subseteq {"removed", "early", "reused"}
BY DEF SettledBySave

\* The counts of faults and imports.
LEMMA ChangesType ==
  ASSUME Types, changes < MaxChanges, changes' = changes + 1
  PROVE  changes' \in 0..MaxChanges
<1>1. MaxChanges \in Nat /\ changes \in 0..MaxChanges
  BY LedgerAssumption DEF Types, LedgerTypeOK
<1>2. QED
  BY <1>1

\* The timer's maintenance keeps the types.
LEMMA PruneTypes == Types /\ Prune => Types'
<1> SUFFICES ASSUME Types, Prune PROVE Types'
  OBVIOUS
<1>1. PruneSQLite(window) /\ UNCHANGED <<window, changes>> /\ window \in Nat
  BY TypeFacts DEF Prune
<1>2. /\ Maintains(counters, rows, evicted, window)
      /\ pending' = PrunedPending(pending, window) /\ SettledBySave
      /\ UNCHANGED <<unwritten, lastId, force, recorded, enriched, drifted, late, now>>
  BY <1>1, PruneSQLiteIs
<1>3. MaintainedTypes
  BY <1>1, <1>2, MaintainsTypes, TypeFacts
<1>4. pending' \subseteq Events /\ unsettled' \subseteq {"removed", "early", "reused"}
  BY <1>2, PendingTypes, SettledTypes DEF Types, LedgerTypeOK
<1>5. QED
  BY <1>1, <1>2, <1>3, <1>4, RestTypes DEF Types, LedgerTypeOK

\* So does another retention window.
LEMMA ConfigureTypes ==
  ASSUME Types, NEW w \in Windows, Configure(w)
  PROVE  Types'
<1>1. /\ PruneSQLite(w) /\ window' = w /\ w \in Nat /\ changes' \in 0..MaxChanges
  BY LedgerAssumption, ChangesType DEF Configure
<1>2. /\ Maintains(counters, rows, evicted, w)
      /\ pending' = PrunedPending(pending, w) /\ SettledBySave
      /\ UNCHANGED <<unwritten, lastId, force, recorded, enriched, drifted, late, now>>
  BY <1>1, PruneSQLiteIs
<1>3. MaintainedTypes
  BY <1>1, <1>2, MaintainsTypes, TypeFacts
<1>4. pending' \subseteq Events /\ unsettled' \subseteq {"removed", "early", "reused"}
  BY <1>2, PendingTypes, SettledTypes DEF Types, LedgerTypeOK
<1>5. QED
  BY <1>1, <1>2, <1>3, <1>4, RestTypes DEF Types, LedgerTypeOK

\* So does an import.
LEMMA ImportTypes ==
  ASSUME Types, NEW details \in Seq(Details), Import(details)
  PROVE  Types'
<1> DEFINE new == DOMAIN ImportedRows(details) \ DOMAIN rows
<1>1. /\ Maintains(ImportedCounters(details), ImportedRows(details), evicted, window)
      /\ pending' = PrunedPending(pending \ Consumed(details), window)
      /\ lastId' = Max(new \cup {lastId}) /\ late' = (late \/ Consumed(details) # {})
      /\ changes < MaxChanges /\ changes' = changes + 1 /\ SettledBySave
      /\ UNCHANGED <<unwritten, force, recorded, enriched, drifted, window, now>>
  BY ImportAssigns
<1>2. Table(ImportedRows(details)) /\ ImportedCounters(details) \in Totals
  BY ImportedIs
<1>3. MaintainedTypes
  BY <1>1, <1>2, MaintainsTypes, TypeFacts
<1>4. lastId' \in Nat
  <2>1. new \in SUBSET Nat /\ IsFiniteSet(new)
    BY <1>2, FS_Subset DEF Table
  <2>2. lastId \in Nat
    BY DEF Types, LedgerTypeOK
  <2> HIDE DEF new
  <2>3. QED
    BY <1>1, <2>1, <2>2, LastOf
<1>5. pending' \subseteq Events /\ unsettled' \subseteq {"removed", "early", "reused"}
  <2>1. pending \ Consumed(details) \in SUBSET Events
    BY DEF Types, LedgerTypeOK
  <2>2. QED
    BY <1>1, <2>1, PendingTypes, SettledTypes
<1>6. late' \in BOOLEAN /\ changes' \in 0..MaxChanges
  BY <1>1, ChangesType DEF Types, LedgerTypeOK
<1>7. QED
  BY <1>1, <1>3, <1>4, <1>5, <1>6, RestTypes DEF Types, LedgerTypeOK

\* So does loading a database.
LEMMA LoadTypes ==
  ASSUME Types, NEW t, Table(t), NEW a \in Aggregates \cup {NoAggregate}, Load(t, a),
         force' \in BOOLEAN, drifted' \in BOOLEAN
  PROVE  Types'
<1>1. /\ Maintains(Loaded(t, a), t, Reloaded, window)
      /\ pending' = PrunedPending(pending, window) /\ unwritten' = <<>>
      /\ lastId' = Max({MaxId(t), IF Trusted(t, a) THEN a.mark ELSE 0})
      /\ unsettled' = {} /\ late' = FALSE
      /\ UNCHANGED <<recorded, enriched, bounds>>
  BY LoadAssigns
<1>2. Loaded(t, a) \in Totals /\ Reloaded \in Totals
  BY LoadedIs
<1>3. MaintainedTypes
  BY <1>1, <1>2, MaintainsTypes, TypeFacts
<1>4. lastId' \in Nat
  <2>1. MaxId(t) \in Nat
    BY LastId DEF Table
  <2>2. Trusted(t, a) => a.mark \in Nat
    BY LedgerAssumption DEF Trusted, Aggregates
  <2> DEFINE m == IF Trusted(t, a) THEN a.mark ELSE 0
  <2>3. m \in Nat
    BY <2>2
  <2> HIDE DEF m
  <2>4. Max({MaxId(t), m}) \in Nat
    <3>1. MaxId(t) \in Int /\ m \in Int
      BY <2>1, <2>3
    <3>2. Max({MaxId(t), m}) \in {MaxId(t), m}
      BY <3>1, MaxOfTwo
    <3>3. QED
      BY <2>1, <2>3, <3>2
  <2>5. QED
    BY <1>1, <2>4 DEF m
<1>5. pending' \subseteq Events
  BY <1>1, PendingTypes DEF Types, LedgerTypeOK
<1>6. unwritten' \in Seq(Events)
  BY <1>1
<1>7. QED
  BY <1>1, <1>3, <1>4, <1>5, <1>6, RestTypes DEF Types, LedgerTypeOK, bounds

\* The aggregate that a stopping writer saves.
Final == [all |-> counters["all"], mark |-> lastId]

\* Restarts, crashes and switches load a database.
LEMMA StartTypes == Types /\ (Restart \/ Crash \/ SwitchDatabase) => Types'
<1> SUFFICES ASSUME Types, Restart \/ Crash \/ SwitchDatabase PROVE Types'
  OBVIOUS
<1>1. /\ Table(rows) /\ Table(Renumbered) /\ aggregate \in Aggregates \cup {NoAggregate}
      /\ Final \in Aggregates /\ force \in BOOLEAN /\ drifted \in BOOLEAN
  <2>1. Table(rows) /\ Table(Renumbered) /\ counters["all"] \in Nat
    BY TypeFacts, RenumberedIs
  <2>2. QED
    BY <2>1 DEF Types, LedgerTypeOK, Aggregates, Final
<1>2. CASE Restart
  <2>1. Load(rows, Final) /\ force' = FALSE /\ drifted' = drifted
    BY <1>2 DEF Restart, Final
  <2>2. QED
    BY <1>1, <2>1, LoadTypes
<1>3. CASE Crash
  <2>1. /\ Load(rows, aggregate) /\ force' = FALSE
        /\ drifted' = (drifted \/ unsettled # {} \/ Forgotten)
    BY <1>3 DEF Crash
  <2>2. drifted' \in BOOLEAN
    BY <2>1
  <2>3. QED
    BY <1>1, <2>1, <2>2, LoadTypes
<1>4. CASE SwitchDatabase
  <2>1. /\ Load(Renumbered, aggregate) /\ force' = force
        /\ drifted' = (drifted \/ unsettled # {} \/ Forgotten \/ MarkMisses)
    BY <1>4 DEF SwitchDatabase
  <2>2. drifted' \in BOOLEAN
    BY <2>1
  <2>3. QED
    BY <1>1, <2>1, <2>2, LoadTypes
<1>5. QED
  BY <1>2, <1>3, <1>4

-----------------------------------------------------------------------------
(***************************************************************************)
(* The types of the other steps.                                           *)
(***************************************************************************)
\* Recording counts the event and lets it wait.
LEMMA RecordTypes ==
  ASSUME Types, NEW e \in Events, RecordEvent(e)
  PROVE  Types'
<1>1. counters' \in [Dimensions -> Nat]
  <2>1. counters' = Count(counters, Plain(e)) /\ counters \in [Dimensions -> Nat]
    BY DEF RecordEvent, Types, LedgerTypeOK
  <2>2. QED
    BY <2>1 DEF Count
<1>2. unwritten' \in Seq(Events) /\ recorded' \subseteq Events
  BY DEF RecordEvent, Types, LedgerTypeOK
<1>3. UNCHANGED <<lastId, force, swept, rows, aggregate, pending, enriched, evicted, unsettled,
                  drifted, late, horizon, window, now, changes>>
  BY DEF RecordEvent, database, bounds
<1>4. QED
  BY <1>1, <1>2, <1>3 DEF Types, LedgerTypeOK

\* Metadata finds the last row that has none of its event.
LEMMA RowFound ==
  ASSUME Types, NEW e \in Events, RowsOf(e) # {}
  PROVE  LET i == Max(RowsOf(e)) IN
         /\ i \in DOMAIN rows /\ rows[i] \in Rows /\ rows[i].event = e /\ ~rows[i].print
<1>1. RowsOf(e) \in SUBSET (DOMAIN rows)
  BY DEF RowsOf
<1>2. IsFiniteSet(RowsOf(e)) /\ RowsOf(e) \in SUBSET Nat
  BY <1>1, TypeFacts, FS_Subset DEF Table
<1>3. Max(RowsOf(e)) \in RowsOf(e)
  BY <1>2, MaxOfSet
<1>4. \A i \in DOMAIN rows : rows[i] \in Rows
  BY TypeFacts DEF Table
<1>5. QED
  BY <1>3, <1>4 DEF RowsOf

\* A detail that moves leaves and enters counters.
LEMMA MoveTypes ==
  ASSUME NEW c \in Totals, NEW a, NEW b
  PROVE  Move(c, a, b) \in Totals
<1>1. ASSUME NEW k \in Dimensions PROVE Move(c, a, b)[k] \in Nat
  <2>1. c[k] \in Nat
    BY DEF Totals
  <2>2. Move(c, a, b)[k]
          = (CASE k \in KeysOf(a) \ KeysOf(b) /\ c[k] > 0 -> c[k] - 1
               [] k \in KeysOf(b) \ KeysOf(a) -> c[k] + 1
               [] OTHER -> c[k])
    BY DEF Move
  <2>3. CASE k \in KeysOf(a) \ KeysOf(b) /\ c[k] > 0
    BY <2>1, <2>2, <2>3
  <2>4. CASE k \in KeysOf(b) \ KeysOf(a)
    BY <2>1, <2>2, <2>4
  <2>5. QED
    BY <2>1, <2>2, <2>3, <2>4
<1>2. QED
  BY <1>1 DEF Move, Totals

\* Metadata changes one row, or waits.
LEMMA EnrichTypes ==
  ASSUME Types, NEW e \in Events, Enrich(e)
  PROVE  Types'
<1>1. /\ enriched' \subseteq Events
      /\ UNCHANGED <<lastId, unwritten, force, swept, aggregate, recorded, evicted,
                     unsettled, drifted, late, horizon, window, now, changes>>
  BY DEF Enrich, Types, LedgerTypeOK, bounds
<1>2. /\ counters' \in [Dimensions -> Nat] /\ pending' \subseteq Events
      /\ rows' \in [DOMAIN rows' -> Rows] /\ DOMAIN rows' = DOMAIN rows
  <2>1. CASE RowsOf(e) = {}
    <3>1. counters' = counters /\ rows' = rows /\ pending' = pending \cup {e}
      BY <2>1 DEF Enrich
    <3>2. QED
      BY <3>1 DEF Types, LedgerTypeOK
  <2>2. CASE RowsOf(e) # {}
    <3> DEFINE i == Max(RowsOf(e))
               r == [rows[i] EXCEPT !.rich = TRUE]
    <3>1. i \in DOMAIN rows /\ rows[i] \in Rows
      BY <2>2, RowFound
    <3>2. /\ rows' = [rows EXCEPT ![i].rich = TRUE] /\ pending' = pending
          /\ counters' = IF rows[i].rich THEN counters ELSE Move(counters, rows[i], r)
      BY <2>2 DEF Enrich
    <3>3. rows' = [rows EXCEPT ![i] = r]
      BY <3>2
    <3>4. r \in Rows
      BY <3>1 DEF Rows
    <3> HIDE DEF i, r
    <3>5. Table(rows) /\ counters \in Totals
      BY TypeFacts
    <3>6. rows' \in [DOMAIN rows -> Rows] /\ DOMAIN rows' = DOMAIN rows
      BY <3>1, <3>3, <3>4, <3>5 DEF Table
    <3>7. counters' \in Totals
      BY <3>2, <3>5, MoveTypes
    <3>8. QED
      BY <3>2, <3>6, <3>7 DEF Types, LedgerTypeOK, Totals
  <2>3. QED
    BY <2>1, <2>2
<1>3. QED
  BY <1>1, <1>2 DEF Types, LedgerTypeOK

\* A batch.
LEMMA WriteTypes ==
  ASSUME Types, NEW n \in 1..Len(unwritten), NEW due \in BOOLEAN, Write(n, due)
  PROVE  Types'
<1> DEFINE p == BatchPruned(n)
<1>1. PruneOf(p, counters, WithBatch(n), window)
  BY BatchPrunedIs
<1>2. p.counters \in Totals /\ Table(p.rows) /\ p.evicted \in Totals
  BY <1>1 DEF PruneOf
<1>3. /\ WrittenIds(n) \in SUBSET Nat /\ IsFiniteSet(WrittenIds(n)) /\ lastId \in Nat
  <2>1. Table(WithBatch(n))
    BY BatchRows
  <2>2. QED
    BY <2>1, FS_Subset DEF WrittenIds, Table, Types, LedgerTypeOK
<1>4. Max(WrittenIds(n) \cup {lastId}) \in Nat
  BY <1>3, LastOf
<1> HIDE DEF p
<1>5. counters' = p.counters /\ rows' = p.rows /\ evicted' = Plus(evicted, p.evicted)
  BY DEF Write, p
<1>6. aggregate' \in [all : Nat, mark : Nat] \cup {NoAggregate} /\ lastId' \in Nat
  <2>1. p.counters["all"] \in Nat
    BY <1>2 DEF Totals, Dimensions
  <2>2. Mark(n) \in Nat
    BY <1>4 DEF Mark
  <2>3. \/ aggregate' = aggregate
        \/ aggregate' = [all |-> p.counters["all"], mark |-> Mark(n)]
    BY DEF Write, p
  <2>4. lastId' = Max(WrittenIds(n) \cup {lastId})
    BY DEF Write
  <2>5. QED
    BY <1>4, <2>1, <2>2, <2>3, <2>4 DEF Types, LedgerTypeOK
<1>7. unwritten' \in Seq(Events)
  <2>1. unwritten' = SubSeq(unwritten, n + 1, Len(unwritten)) /\ unwritten \in Seq(Events)
    BY DEF Write, Types, LedgerTypeOK
  <2>2. QED
    BY <2>1, PlainParts
<1>8. /\ pending' \subseteq Events /\ force' \in BOOLEAN /\ late' \in BOOLEAN
      /\ unsettled' \subseteq {"removed", "early", "reused"}
  <2>1. pending' \subseteq Events
    BY PendingTypes DEF Write, Types, LedgerTypeOK
  <2>2. force' \in BOOLEAN /\ late' \in BOOLEAN
    BY DEF Write
  <2>3. unsettled' \subseteq {"removed", "early", "reused"}
    BY DEF Write, Types, LedgerTypeOK
  <2>4. QED
    BY <2>1, <2>2, <2>3
<1>9. swept' \in Int /\ horizon' \in -1..MaxTime /\ swept' <= horizon'
  <2>1. /\ window \in Nat /\ now \in 0..MaxTime /\ horizon \in -1..MaxTime
        /\ swept \in Int /\ swept <= horizon /\ MaxTime \in Nat
    BY TypeFacts DEF Types, LedgerTypeOK
  <2>2. swept' = (IF RetentionDue THEN SweptAt(window) ELSE swept)
        /\ horizon' = Max({horizon, swept'})
    BY DEF Write
  <2>3. SweptAt(window) \in Int /\ SweptAt(window) <= MaxTime
    BY <2>1, Cutoffs
  <2>4. swept' \in Int /\ swept' <= MaxTime
    BY <2>1, <2>2, <2>3
  <2>5. QED
    BY <2>1, <2>2, <2>4, HorizonMoves
<1>10. evicted' \in Totals
  BY <1>2, <1>5, TypeFacts, TotalsAdd
<1>11. UNCHANGED <<recorded, enriched, drifted, window, now, changes>>
  BY DEF Write, bounds
<1>12. /\ counters' \in [Dimensions -> Nat] /\ rows' \in [DOMAIN rows' -> Rows]
       /\ IsFiniteSet(DOMAIN rows') /\ DOMAIN rows' \subseteq Nat \ {0}
  BY <1>2, <1>5 DEF Table, Totals
<1>13. QED
  BY <1>6, <1>7, <1>8, <1>9, <1>10, <1>11, <1>12 DEF Types, LedgerTypeOK, Totals

\* What is taken out of the counters is given back when the batch fails.
LEMMA WriteFailsTypes ==
  ASSUME Types, NEW n \in 1..Len(unwritten), WriteFails(n)
  PROVE  Types'
<1> DEFINE p == BatchPruned(n)
<1>1. PruneOf(p, counters, WithBatch(n), window)
  BY BatchPrunedIs
<1> HIDE DEF p
<1>2. p.counters \in Totals /\ Tally(Only(WithBatch(n), p.removed)) \in Totals
  BY <1>1 DEF PruneOf
<1>3. counters' = Plus(p.counters, Tally(Only(WithBatch(n), p.removed)))
  BY DEF WriteFails, CountAll, p
<1>4. counters' \in Totals
  BY <1>2, <1>3, TotalsAdd
<1>5. changes' \in 0..MaxChanges /\ late' \in BOOLEAN
  BY ChangesType DEF WriteFails
<1>6. UNCHANGED <<lastId, unwritten, force, swept, rows, aggregate, pending, recorded,
                  enriched, evicted, unsettled, drifted, horizon, window, now>>
  BY DEF WriteFails, database
<1>7. QED
  BY <1>4, <1>5, <1>6 DEF Types, LedgerTypeOK, Totals

\* So it is when the maintenance fails.
LEMMA PruneFailsTypes == Types /\ PruneFails => Types'
<1> SUFFICES ASSUME Types, PruneFails PROVE Types'
  OBVIOUS
<1> DEFINE p == Pruned(counters, rows, window)
<1>1. Table(rows) /\ PruneOf(p, counters, rows, window)
  BY TypeFacts, PrunedIs
<1>2. counters' = Plus(p.counters, Tally(Only(rows, p.counted)))
  BY DEF PruneFails, CountAll
<1>3. p.counted \in SUBSET (DOMAIN rows)
  BY DEF Pruned, Uncounted, Only, Expired
<1> HIDE DEF p
<1>4. p.counters \in Totals /\ Tally(Only(rows, p.counted)) \in Totals
  BY <1>1, <1>3, PartOfTable DEF PruneOf
<1>5. counters' \in Totals
  BY <1>2, <1>4, TotalsAdd
<1>6. changes' \in 0..MaxChanges
  BY ChangesType DEF PruneFails
<1>7. UNCHANGED <<lastId, unwritten, force, swept, rows, aggregate, pending, recorded,
                  enriched, evicted, unsettled, drifted, late, horizon, window, now>>
  BY DEF PruneFails, database, observers
<1>8. QED
  BY <1>5, <1>6, <1>7 DEF Types, LedgerTypeOK, Totals

\* What an import that fails does: the counters with the details lose the expired
\* rows, get them back and lose the details.
RolledBack(details) ==
  LET p == Pruned(ImportedCounters(details), ImportedRows(details), window)
  IN UncountAll(CountAll(p.counters, Only(ImportedRows(details), p.counted)),
                ImportedPrints(details))

\* Nothing else is assigned.
LEMMA ImportFailsAssigns ==
  ASSUME NEW details, ImportFails(details)
  PROVE  /\ counters' = RolledBack(details)
         /\ changes < MaxChanges /\ changes' = changes + 1
         /\ UNCHANGED <<lastId, unwritten, force, swept, database, observers, window, now>>
BY DEF ImportFails, RolledBack, ImportedCounters, ImportedRows, ImportedPrints, AsImported

\* The details as imported are finitely many, by their positions.
LEMMA PrintsAre ==
  ASSUME Types, NEW details \in Seq(Details)
  PROVE  LET f == ImportedPrints(details)
         IN IsFiniteSet(DOMAIN f) /\ DOMAIN f \subseteq Nat
<1>1. Added(details) \in Seq(Rows)
  BY AddedIs
<1>2. DOMAIN ImportedPrints(details) = 1..Len(Added(details)) /\ Len(Added(details)) \in Nat
  BY <1>1 DEF ImportedPrints
<1>3. QED
  BY <1>2, FS_Interval

\* The counters are still counters.
LEMMA ImportFailsTypes ==
  ASSUME Types, NEW details \in Seq(Details), ImportFails(details)
  PROVE  Types'
<1> DEFINE c == ImportedCounters(details)
           t == ImportedRows(details)
           f == ImportedPrints(details)
           p == Pruned(c, t, window)
           back == CountAll(p.counters, Only(t, p.counted))
<1>1. /\ counters' = UncountAll(back, f)
      /\ changes < MaxChanges /\ changes' = changes + 1
      /\ UNCHANGED <<lastId, unwritten, force, swept, database, observers, window, now>>
  BY ImportFailsAssigns DEF RolledBack
<1>2. Table(t) /\ c \in Totals /\ window \in Nat /\ IsFiniteSet(DOMAIN f) /\ DOMAIN f \subseteq Nat
  BY ImportedIs, PrintsAre, TypeFacts
<1>3. p.counted \in SUBSET (DOMAIN t)
  BY DEF Pruned, Uncounted, Only, Expired
<1> HIDE DEF c, t, f
<1>4. p.counters \in Totals
  BY <1>2, PrunedIs DEF PruneOf
<1> HIDE DEF p
<1>5. Tally(Only(t, p.counted)) \in Totals
  BY <1>2, <1>3, PartOfTable
<1>6. back \in Totals
  BY <1>4, <1>5, TotalsAdd DEF CountAll
<1> HIDE DEF back
<1>7. counters' \in Totals
  BY <1>1, <1>2, <1>6, UncountIsExact DEF Totals
<1>8. changes' \in 0..MaxChanges
  BY <1>1, ChangesType
<1>9. UNCHANGED <<lastId, unwritten, force, swept, rows, aggregate, pending, recorded,
                  enriched, evicted, unsettled, drifted, late, horizon, window, now>>
  BY <1>1 DEF database, observers
<1>10. QED
  BY <1>7, <1>8, <1>9 DEF Types, LedgerTypeOK, Totals

\* Time passes up to its bound.
LEMMA TickTypes == Types /\ Tick => Types'
<1> SUFFICES ASSUME Types, Tick PROVE Types'
  OBVIOUS
<1>1. now' \in 0..MaxTime
  <2>1. now \in 0..MaxTime /\ MaxTime \in Nat /\ now < MaxTime /\ now' = now + 1
    BY TypeFacts DEF Types, LedgerTypeOK, Tick
  <2>2. QED
    BY <2>1
<1>2. UNCHANGED <<counters, lastId, unwritten, force, swept, rows, aggregate, pending, recorded,
                  enriched, evicted, unsettled, drifted, late, horizon, window, changes>>
  BY DEF Tick, memory, database, observers
<1>3. QED
  BY <1>1, <1>2 DEF Types, LedgerTypeOK

\* A step that changes nothing.
LEMMA SameTypes == Types /\ UNCHANGED ledgerVars => Types'
BY DEF Types, LedgerTypeOK, ledgerVars, memory, database, observers, bounds

\* What is imported is a sequence of details.
LEMMA ImportsAre == Types => Imports \subseteq Seq(Details)
<1> SUFFICES ASSUME Types PROVE Imports \subseteq Seq(Details)
  OBVIOUS
<1>1. ASSUME NEW e \in Events PROVE <<Plain(e)>> \in Seq(Details)
  <2>1. Plain(e) \in Details
    BY DEF Plain, Details
  <2>2. QED
    BY <2>1
<1>2. Exported \in Seq(Details)
  BY ExportedIs
<1>3. QED
  BY <1>1, <1>2 DEF Imports

\* The empty database has the types.
LEMMA InitTypes == LedgerInit => Types
<1> SUFFICES ASSUME LedgerInit PROVE Types
  OBVIOUS
<1>1. Zero \in [Dimensions -> Nat]
  BY DEF Zero
<1>2. rows = <<>> /\ DOMAIN rows = {} /\ IsFiniteSet(DOMAIN rows)
  BY FS_EmptySet DEF LedgerInit
<1>3. rows \in [DOMAIN rows -> Rows]
  BY <1>2
<1>4. MaxTime \in Nat /\ MaxChanges \in Nat
  BY LedgerAssumption
<1>5. /\ counters \in [Dimensions -> Nat] /\ evicted \in [Dimensions -> Nat]
      /\ lastId \in Nat /\ unwritten \in Seq(Events) /\ force \in BOOLEAN
      /\ swept \in Int /\ swept <= horizon /\ window \in Windows
  <2>1. counters \in [Dimensions -> Nat] /\ evicted \in [Dimensions -> Nat]
    BY <1>1 DEF LedgerInit
  <2>2. lastId \in Nat /\ unwritten \in Seq(Events) /\ force \in BOOLEAN
    <3>1. lastId = 0 /\ unwritten = <<>> /\ force = FALSE
      BY DEF LedgerInit
    <3>2. lastId \in Nat
      BY <3>1
    <3>3. unwritten \in Seq(Events)
      BY <3>1
    <3>4. force \in BOOLEAN
      BY <3>1
    <3>5. QED
      BY <3>2, <3>3, <3>4
  <2>3. swept \in Int /\ swept <= horizon /\ window \in Windows
    BY DEF LedgerInit
  <2>4. QED
    BY <2>1, <2>2, <2>3
<1>6. /\ now \in 0..MaxTime /\ horizon \in -1..MaxTime /\ changes \in 0..MaxChanges
  BY <1>4 DEF LedgerInit
<1>7. /\ aggregate \in [all : Nat, mark : Nat] \cup {NoAggregate}
      /\ pending \subseteq Events /\ recorded \subseteq Events /\ enriched \subseteq Events
      /\ unsettled \subseteq {"removed", "early", "reused"}
      /\ drifted \in BOOLEAN /\ late \in BOOLEAN
  BY DEF LedgerInit
<1>8. DOMAIN rows \subseteq Nat \ {0}
  BY <1>2
<1>9. QED
  BY <1>2, <1>3, <1>5, <1>6, <1>7, <1>8 DEF Types, LedgerTypeOK

\* Every step keeps the types.
LEMMA NextTypes == Types /\ [LedgerNext]_ledgerVars => Types'
<1> SUFFICES ASSUME Types, [LedgerNext]_ledgerVars PROVE Types'
  OBVIOUS
<1>1. ASSUME NEW e \in Events, RecordEvent(e) PROVE Types'
  BY <1>1, RecordTypes
<1>2. ASSUME NEW e \in Events, Enrich(e) PROVE Types'
  BY <1>2, EnrichTypes
<1>3. ASSUME NEW details \in Imports, Import(details) PROVE Types'
  BY <1>3, ImportsAre, ImportTypes
<1>4. ASSUME NEW n \in 1..Len(unwritten), WriteFails(n) PROVE Types'
  BY <1>4, WriteFailsTypes
<1>5. ASSUME NEW n \in 1..Len(unwritten), NEW due \in BOOLEAN, Write(n, due) PROVE Types'
  BY <1>5, WriteTypes
<1>6. ASSUME NEW details \in Imports, ImportFails(details) PROVE Types'
  BY <1>6, ImportsAre, ImportFailsTypes
<1>7. ASSUME NEW w \in Windows, Configure(w) PROVE Types'
  BY <1>7, ConfigureTypes
<1>8. Prune \/ PruneFails \/ Restart \/ Crash \/ SwitchDatabase \/ Tick => Types'
  BY PruneTypes, PruneFailsTypes, StartTypes, TickTypes
<1>9. QED
  BY <1>1, <1>2, <1>3, <1>4, <1>5, <1>6, <1>7, <1>8, SameTypes DEF LedgerNext

-----------------------------------------------------------------------------
(***************************************************************************)
(* The counters and the aggregate.                                         *)
(***************************************************************************)
\* A dimension of the counters is what rows, waiting events and evictions give.
Agrees(c, t, s, ev, k) == c[k] = Tally(t)[k] + Tally(PlainAll(s))[k] + ev[k]

\* The last ID is over all IDs.
IdsKnown == \A i \in DOMAIN rows : i <= lastId

\* The total always agrees, and every dimension does unless metadata entered a
\* row and no counter.
Matched ==
  ~drifted => /\ Agrees(counters, rows, unwritten, evicted, "all")
              /\ ~late => \A k \in Dimensions : Agrees(counters, rows, unwritten, evicted, k)

\* The rows that an aggregate with this mark counts.
UpTo(t, m) == {i \in DOMAIN t : i <= m}

\* What the aggregate counts: the rows up to its mark and the evicted ones.
Settled ==
  IF aggregate = NoAggregate THEN evicted["all"] = 0
  ELSE aggregate.all = Cardinality(UpTo(rows, aggregate.mark)) + evicted["all"]

\* The saved total counts those rows while it was loaded right and no cause to differ is open.
AggregateSettled == ~drifted /\ unsettled = {} => Settled

\* The inductive invariant of the counters.
LedgerInv == Types /\ IdsKnown /\ Matched /\ AggregateSettled

\* The invariant says of the counters what the property says.
LEMMA MatchedIs == Types /\ Matched => CountersMatchRows
<1> SUFFICES ASSUME Types, Matched, ~drifted
             PROVE  LET expected == Plus(Plus(Tally(rows), Tally(Uncommitted)), evicted)
                    IN /\ counters["all"] = expected["all"]
                       /\ ~late => counters = expected
  BY DEF CountersMatchRows
<1> DEFINE expected == Plus(Plus(Tally(rows), Tally(Uncommitted)), evicted)
<1>1. Uncommitted = PlainAll(unwritten)
  BY DEF Uncommitted, PlainAll
<1>2. \A k \in Dimensions :
        expected[k] = Tally(rows)[k] + Tally(PlainAll(unwritten))[k] + evicted[k]
  BY <1>1 DEF Plus
<1>3. expected = [k \in Dimensions |-> expected[k]]
  BY DEF Plus
<1> HIDE DEF expected
<1>4. counters["all"] = expected["all"]
  BY <1>2, TypeFacts DEF Matched, Agrees
<1>5. ASSUME ~late PROVE counters = expected
  <2>1. \A k \in Dimensions : counters[k] = expected[k]
    BY <1>2, <1>5 DEF Matched, Agrees
  <2>2. counters = [k \in Dimensions |-> counters[k]]
    BY TypeFacts DEF Totals
  <2>3. QED
    BY <1>3, <2>1, <2>2
<1>6. QED
  BY <1>4, <1>5 DEF expected

\* Nothing waits: nothing is counted for it.
LEMMA NothingWaits ==
  \A k \in Dimensions : Tally(PlainAll(<<>>))[k] = 0
<1>1. <<>> \in Seq(Events) /\ Len(<<>>) = 0
  OBVIOUS
<1>2. Tally(PlainAll(<<>>)) \in Totals /\ DOMAIN PlainAll(<<>>) = 1..0
  BY <1>1, PlainTally
<1>3. DOMAIN PlainAll(<<>>) = {}
  BY <1>2
<1>4. IsFiniteSet(DOMAIN PlainAll(<<>>)) /\ Cardinality(DOMAIN PlainAll(<<>>)) = 0
  BY <1>3, FS_EmptySet
<1>5. \A k \in Dimensions : Tally(PlainAll(<<>>))[k] <= 0
  BY <1>4, TallyType
<1>6. QED
  BY <1>2, <1>5 DEF Totals

\* A step that prunes and saves keeps what agreed before the pruning, and what
\* it saves is settled when nothing waits.
LEMMA MaintainsInv ==
  ASSUME Types, Types', NEW c \in Totals, NEW t, Table(t), NEW ev \in Totals, NEW w \in Nat,
         Maintains(c, t, ev, w),
         ~drifted' => /\ Agrees(c, t, unwritten', ev, "all")
                      /\ ~late' => \A k \in Dimensions : Agrees(c, t, unwritten', ev, k),
         unsettled' = {} => unwritten' = <<>>,
         \A i \in DOMAIN t : i <= lastId'
  PROVE  IdsKnown' /\ Matched' /\ AggregateSettled'
<1> DEFINE p == Pruned(c, t, w)
           u == Tally(PlainAll(unwritten'))
<1>1. PruneOf(p, c, t, w)
  BY PrunedIs
<1>2. /\ counters' = p.counters /\ rows' = p.rows /\ aggregate' = Save(p)
      /\ evicted' = Plus(ev, p.evicted)
  BY DEF Maintains
<1> HIDE DEF p
<1>3. /\ p.counters \in Totals /\ Table(p.rows) /\ p.evicted \in Totals
      /\ DOMAIN p.rows \subseteq DOMAIN t
  BY <1>1 DEF PruneOf
<1>4. u \in Totals
  BY PlainTally DEF Types, LedgerTypeOK
<1>5. \A k \in Dimensions : evicted'[k] = ev[k] + p.evicted[k]
  BY <1>2, <1>3, TotalsAdd
<1>6. "all" \in Dimensions
  BY DEF Dimensions
<1>7. IdsKnown'
  BY <1>2, <1>3 DEF IdsKnown
<1>8. ASSUME ~drifted', NEW k \in Dimensions, Agrees(c, t, unwritten', ev, k)
      PROVE  Agrees(counters', rows', unwritten', evicted', k)
  <2>1. Balanced(c, t, u, ev, "all") /\ Balanced(c, t, u, ev, k)
    BY <1>4, <1>8 DEF Agrees, Balanced
  <2> HIDE DEF u
  <2>2. p.counters[k] = Tally(p.rows)[k] + u[k] + (ev[k] + p.evicted[k])
    BY <1>1, <2>1, PruneMatches
  <2>3. QED
    BY <1>2, <1>5, <2>2 DEF Agrees, u
<1>9. Matched'
  <2>1. ASSUME ~drifted' PROVE Agrees(counters', rows', unwritten', evicted', "all")
    BY <1>6, <1>8, <2>1
  <2>2. ASSUME ~drifted', ~late', NEW k \in Dimensions
        PROVE  Agrees(counters', rows', unwritten', evicted', k)
    BY <1>8, <2>2
  <2>3. QED
    BY <2>1, <2>2 DEF Matched
<1>10. ASSUME ~drifted', unsettled' = {} PROVE Settled'
  <2>1. unwritten' = <<>>
    BY <1>10
  <2>2. counters'["all"] = Tally(rows')["all"] + 0 + evicted'["all"]
    BY <1>6, <1>9, <1>10, <2>1, NothingWaits DEF Matched, Agrees
  <2>3. Tally(rows')["all"] = Cardinality(DOMAIN rows')
    BY <1>2, <1>3, TallyType DEF Table
  <2>4. /\ aggregate' \in Aggregates /\ aggregate'.all = counters'["all"]
        /\ \A i \in DOMAIN rows' : i <= aggregate'.mark
    BY <1>2, <1>3, SavedIs
  <2>5. UpTo(rows', aggregate'.mark) = DOMAIN rows'
    BY <2>4 DEF UpTo
  <2>6. aggregate' # NoAggregate
    BY <2>4, LedgerAssumption DEF Aggregates
  <2>7. Cardinality(DOMAIN rows') \in Nat /\ evicted'["all"] \in Nat
    <3>1. IsFiniteSet(DOMAIN rows') /\ evicted' \in [Dimensions -> Nat]
      BY DEF Types, LedgerTypeOK
    <3>2. QED
      BY <1>6, <3>1, FS_CardinalityType
  <2>8. aggregate'.all = Cardinality(UpTo(rows', aggregate'.mark)) + evicted'["all"]
    BY <2>2, <2>3, <2>4, <2>5, <2>7
  <2>9. QED
    BY <2>6, <2>8 DEF Settled
<1>11. QED
  BY <1>7, <1>9, <1>10 DEF AggregateSettled

\* The timer's maintenance.
LEMMA PruneKeeps == LedgerInv /\ Types' /\ Prune => LedgerInv'
<1> SUFFICES ASSUME LedgerInv, Types', Prune PROVE LedgerInv'
  OBVIOUS
<1>1. /\ Types /\ PruneSQLite(window) /\ Table(rows) /\ counters \in Totals
      /\ evicted \in Totals /\ window \in Nat
  BY TypeFacts DEF Prune, LedgerInv
<1>2. /\ Maintains(counters, rows, evicted, window) /\ SettledBySave
      /\ UNCHANGED <<unwritten, lastId, drifted, late>>
  BY <1>1, PruneSQLiteIs
<1>3. unsettled' = {} => unwritten' = <<>>
  BY <1>2 DEF SettledBySave
<1>4. ~drifted' => /\ Agrees(counters, rows, unwritten', evicted, "all")
                   /\ ~late' => \A k \in Dimensions :
                                  Agrees(counters, rows, unwritten', evicted, k)
  BY <1>2 DEF LedgerInv, Matched
<1>5. \A i \in DOMAIN rows : i <= lastId'
  BY <1>2 DEF LedgerInv, IdsKnown
<1>6. IdsKnown' /\ Matched' /\ AggregateSettled'
  BY <1>1, <1>2, <1>3, <1>4, <1>5, MaintainsInv
<1>7. QED
  BY <1>6 DEF LedgerInv

\* Another retention window.
LEMMA ConfigureKeeps ==
  ASSUME LedgerInv, Types', NEW w \in Windows, Configure(w)
  PROVE  LedgerInv'
<1>1. /\ Types /\ PruneSQLite(w) /\ Table(rows) /\ counters \in Totals
      /\ evicted \in Totals /\ w \in Nat
  BY TypeFacts, LedgerAssumption DEF Configure, LedgerInv
<1>2. /\ Maintains(counters, rows, evicted, w) /\ SettledBySave
      /\ UNCHANGED <<unwritten, lastId, drifted, late>>
  BY <1>1, PruneSQLiteIs
<1>3. unsettled' = {} => unwritten' = <<>>
  BY <1>2 DEF SettledBySave
<1>4. ~drifted' => /\ Agrees(counters, rows, unwritten', evicted, "all")
                   /\ ~late' => \A k \in Dimensions :
                                  Agrees(counters, rows, unwritten', evicted, k)
  BY <1>2 DEF LedgerInv, Matched
<1>5. \A i \in DOMAIN rows : i <= lastId'
  BY <1>2 DEF LedgerInv, IdsKnown
<1>6. IdsKnown' /\ Matched' /\ AggregateSettled'
  BY <1>1, <1>2, <1>3, <1>4, <1>5, MaintainsInv
<1>7. QED
  BY <1>6 DEF LedgerInv

\* An import counts what it adds.
LEMMA ImportKeeps ==
  ASSUME LedgerInv, Types', NEW details \in Seq(Details), Import(details)
  PROVE  LedgerInv'
<1> DEFINE c == ImportedCounters(details)
           t == ImportedRows(details)
           new == DOMAIN t \ DOMAIN rows
<1>1. /\ Types /\ Table(rows) /\ counters \in Totals /\ evicted \in Totals /\ window \in Nat
      /\ Tally(rows) \in Totals /\ "all" \in Dimensions
  BY TypeFacts DEF LedgerInv
<1>2. /\ Maintains(c, t, evicted, window)
      /\ lastId' = Max(new \cup {lastId})
      /\ late' = (late \/ Consumed(details) # {}) /\ SettledBySave
      /\ UNCHANGED <<unwritten, drifted>>
  BY ImportAssigns
<1>3. /\ Table(t) /\ c \in Totals
      /\ \A k \in Dimensions : c[k] = counters[k] + Tally(ImportedPrints(details))[k]
      /\ Tally(ImportedPrints(details)) \in Totals /\ Tally(Added(details)) \in Totals
      /\ Tally(t) = Plus(Tally(rows), Tally(Added(details)))
      /\ Tally(Added(details))["all"] = Tally(ImportedPrints(details))["all"]
      /\ Consumed(details) = {} => Tally(Added(details)) = Tally(ImportedPrints(details))
  BY <1>1, ImportedIs
<1> HIDE DEF c, t
<1>4. \A k \in Dimensions : Tally(t)[k] = Tally(rows)[k] + Tally(Added(details))[k]
  BY <1>1, <1>3, TotalsAdd
<1>5. Tally(PlainAll(unwritten)) \in Totals
  BY <1>1, PlainTally DEF Types, LedgerTypeOK
<1>6. ASSUME NEW k \in Dimensions, Agrees(counters, rows, unwritten, evicted, k),
             Tally(Added(details))[k] = Tally(ImportedPrints(details))[k]
      PROVE  Agrees(c, t, unwritten', evicted, k)
  <2>1. /\ Tally(rows)[k] \in Nat /\ Tally(Added(details))[k] \in Nat /\ evicted[k] \in Nat
        /\ Tally(PlainAll(unwritten))[k] \in Nat /\ counters[k] \in Nat
    BY <1>1, <1>3, <1>5 DEF Totals
  <2>2. c[k] = counters[k] + Tally(Added(details))[k]
    BY <1>3, <1>6
  <2>3. Tally(t)[k] = Tally(rows)[k] + Tally(Added(details))[k]
    BY <1>4
  <2>4. counters[k] = Tally(rows)[k] + Tally(PlainAll(unwritten))[k] + evicted[k]
    BY <1>6 DEF Agrees
  <2>5. c[k] = Tally(t)[k] + Tally(PlainAll(unwritten))[k] + evicted[k]
    BY <2>1, <2>2, <2>3, <2>4
  <2>6. QED
    BY <1>2, <2>5 DEF Agrees
<1>7. ~drifted' => /\ Agrees(c, t, unwritten', evicted, "all")
                   /\ ~late' => \A k \in Dimensions : Agrees(c, t, unwritten', evicted, k)
  <2>1. ASSUME ~drifted' PROVE Agrees(c, t, unwritten', evicted, "all")
    BY <1>1, <1>2, <1>3, <1>6, <2>1 DEF LedgerInv, Matched
  <2>2. ASSUME ~drifted', ~late', NEW k \in Dimensions
        PROVE  Agrees(c, t, unwritten', evicted, k)
    <3>1. ~drifted /\ ~late /\ Consumed(details) = {}
      BY <1>2, <2>2
    <3>2. Agrees(counters, rows, unwritten, evicted, k)
      BY <3>1 DEF LedgerInv, Matched
    <3>3. QED
      BY <1>3, <1>6, <3>1, <3>2
  <2>3. QED
    BY <2>1, <2>2
<1>8. \A i \in DOMAIN t : i <= lastId'
  <2>1. new \in SUBSET Nat /\ IsFiniteSet(new)
    BY <1>3, FS_Subset DEF Table
  <2>2. lastId \in Nat
    BY <1>1 DEF Types, LedgerTypeOK
  <2>3. \A i \in DOMAIN rows : i \in Nat
    BY <1>1 DEF Table
  <2> HIDE DEF new
  <2>4. /\ Max(new \cup {lastId}) \in Nat /\ lastId <= Max(new \cup {lastId})
        /\ \A i \in new : i <= Max(new \cup {lastId})
    BY <2>1, <2>2, LastOf
  <2>5. \A i \in DOMAIN rows : i <= Max(new \cup {lastId})
    BY <2>2, <2>3, <2>4 DEF LedgerInv, IdsKnown
  <2>6. QED
    BY <1>2, <2>4, <2>5 DEF new
<1>9. unsettled' = {} => unwritten' = <<>>
  BY <1>2 DEF SettledBySave
<1>10. IdsKnown' /\ Matched' /\ AggregateSettled'
  BY <1>1, <1>2, <1>3, <1>7, <1>8, <1>9, MaintainsInv
<1>11. QED
  BY <1>10 DEF LedgerInv

\* A database that is loaded agrees when its total does.
LEMMA LoadKeeps ==
  ASSUME Types, Types', NEW t, Table(t), NEW a \in Aggregates \cup {NoAggregate}, Load(t, a),
         ~drifted' => Total(t, a) = Cardinality(DOMAIN t) + evicted["all"]
  PROVE  LedgerInv'
<1>1. /\ Maintains(Loaded(t, a), t, Reloaded, window) /\ unwritten' = <<>>
      /\ lastId' = Max({MaxId(t), IF Trusted(t, a) THEN a.mark ELSE 0})
      /\ unsettled' = {} /\ late' = FALSE
  BY LoadAssigns
<1>2. /\ Loaded(t, a) \in Totals /\ Reloaded \in Totals
      /\ Loaded(t, a)["all"] = Total(t, a) /\ Reloaded["all"] = evicted["all"]
      /\ \A k \in Dimensions \ {"all"} : Loaded(t, a)[k] = Tally(t)[k] /\ Reloaded[k] = 0
  BY LoadedIs
<1>3. /\ Tally(t) \in Totals /\ Tally(t)["all"] = Cardinality(DOMAIN t)
      /\ window \in Nat /\ "all" \in Dimensions /\ evicted["all"] \in Nat
  BY TallyType, TypeFacts DEF Table, Totals
<1>4. ASSUME ~drifted', NEW k \in Dimensions
      PROVE  Agrees(Loaded(t, a), t, unwritten', Reloaded, k)
  <2>1. Tally(PlainAll(unwritten'))[k] = 0 /\ Tally(t)[k] \in Nat
    BY <1>1, <1>3, NothingWaits DEF Totals
  <2>2. CASE k = "all"
    <3>1. Loaded(t, a)["all"] = Tally(t)["all"] + evicted["all"]
      BY <1>2, <1>3, <1>4
    <3>2. QED
      BY <1>2, <1>3, <2>1, <2>2, <3>1 DEF Agrees
  <2>3. CASE k # "all"
    BY <1>2, <2>1, <2>3 DEF Agrees
  <2>4. QED
    BY <2>2, <2>3
<1>5. \A i \in DOMAIN t : i <= lastId'
  <2> DEFINE m == IF Trusted(t, a) THEN a.mark ELSE 0
  <2>1. MaxId(t) \in Nat /\ \A i \in DOMAIN t : i <= MaxId(t) /\ i \in Nat
    BY LastId DEF Table
  <2>2. m \in Nat
    BY LedgerAssumption DEF Trusted, Aggregates
  <2>3. lastId' = Max({MaxId(t), m})
    BY <1>1
  <2> HIDE DEF m
  <2>4. MaxId(t) <= Max({MaxId(t), m}) /\ Max({MaxId(t), m}) \in {MaxId(t), m}
    <3>1. MaxId(t) \in Int /\ m \in Int
      BY <2>1, <2>2
    <3>2. QED
      BY <3>1, MaxOfTwo
  <2>5. lastId' \in Nat /\ MaxId(t) <= lastId'
    BY <2>1, <2>2, <2>3, <2>4
  <2>6. QED
    BY <2>1, <2>5
<1>6. ~drifted' => /\ Agrees(Loaded(t, a), t, unwritten', Reloaded, "all")
                   /\ ~late' => \A k \in Dimensions :
                                  Agrees(Loaded(t, a), t, unwritten', Reloaded, k)
  BY <1>3, <1>4
<1>7. unsettled' = {} => unwritten' = <<>>
  BY <1>1
<1>8. IdsKnown' /\ Matched' /\ AggregateSettled'
  BY <1>1, <1>2, <1>3, <1>5, <1>6, <1>7, MaintainsInv
<1>9. QED
  BY <1>8 DEF LedgerInv

\* The rows of a table are those up to a mark and those after it.
LEMMA AroundMark ==
  ASSUME NEW t, Table(t), NEW m \in Nat
  PROVE  /\ Cardinality(DOMAIN t) = Cardinality(UpTo(t, m)) + Cardinality(AfterMark(t, m))
         /\ Cardinality(UpTo(t, m)) \in Nat /\ Cardinality(AfterMark(t, m)) \in Nat
         /\ IsFiniteSet(UpTo(t, m))
<1>1. /\ UpTo(t, m) \cup AfterMark(t, m) = DOMAIN t /\ UpTo(t, m) \cap AfterMark(t, m) = {}
  BY DEF UpTo, AfterMark, Table
<1>2. IsFiniteSet(UpTo(t, m)) /\ IsFiniteSet(AfterMark(t, m))
  BY <1>1, FS_Subset DEF Table
<1>3. Cardinality({}) = 0
  BY FS_EmptySet
<1>4. Cardinality(UpTo(t, m)) \in Nat /\ Cardinality(AfterMark(t, m)) \in Nat
  BY <1>2, FS_CardinalityType
<1>5. Cardinality(UpTo(t, m) \cup AfterMark(t, m))
        = Cardinality(UpTo(t, m)) + Cardinality(AfterMark(t, m))
            - Cardinality(UpTo(t, m) \cap AfterMark(t, m))
  BY <1>2, FS_Union
<1>6. /\ Cardinality(UpTo(t, m) \cup AfterMark(t, m)) = Cardinality(DOMAIN t)
      /\ Cardinality(UpTo(t, m) \cap AfterMark(t, m)) = 0
  BY <1>1, <1>3
<1>7. QED
  BY <1>2, <1>4, <1>5, <1>6

\* The total that is loaded from a settled aggregate is right.
LEMMA SettledTotal ==
  ASSUME Types, Settled, ~Forgotten, NEW t, Table(t),
         Cardinality(DOMAIN t) = Cardinality(DOMAIN rows),
         aggregate # NoAggregate =>
           Cardinality(AfterMark(t, aggregate.mark)) = Cardinality(AfterMark(rows, aggregate.mark))
  PROVE  Total(t, aggregate) = Cardinality(DOMAIN t) + evicted["all"]
<1> DEFINE n == Cardinality(DOMAIN t)
           v == evicted["all"]
<1>1. /\ Table(rows) /\ v \in Nat /\ n \in Nat
  BY TypeFacts, FS_CardinalityType DEF Table
<1>2. DOMAIN t = {} <=> DOMAIN rows = {}
  <2>1. IsFiniteSet(DOMAIN t) /\ IsFiniteSet(DOMAIN rows)
    BY <1>1 DEF Table
  <2>2. QED
    BY <2>1, FS_EmptySet
<1>3. CASE aggregate = NoAggregate
  <2>1. v = 0
    BY <1>3 DEF Settled
  <2>2. Total(t, aggregate) = n
    BY <1>3 DEF Total, Trusted
  <2> HIDE DEF n, v
  <2>3. QED
    BY <1>1, <2>1, <2>2 DEF n, v
<1>4. CASE aggregate # NoAggregate
  <2> DEFINE m == aggregate.mark
  <2>1. aggregate.all \in Nat /\ m \in Nat
    BY <1>4 DEF Types, LedgerTypeOK
  <2>2. aggregate.all = Cardinality(UpTo(rows, m)) + v
    BY <1>4 DEF Settled
  <2>3. /\ Cardinality(DOMAIN rows) = Cardinality(UpTo(rows, m)) + Cardinality(AfterMark(rows, m))
        /\ Cardinality(UpTo(rows, m)) \in Nat /\ Cardinality(AfterMark(rows, m)) \in Nat
    BY <1>1, <2>1, AroundMark
  <2>4. Cardinality(AfterMark(t, m)) = Cardinality(AfterMark(rows, m))
    BY <1>4
  <2>5. aggregate.all + Cardinality(AfterMark(t, m)) = n + v
    BY <1>1, <2>1, <2>2, <2>3, <2>4
  <2>6. CASE Trusted(t, aggregate)
    BY <2>5, <2>6 DEF Total
  <2>7. CASE ~Trusted(t, aggregate)
    <3>1. DOMAIN t # {} /\ ~(m > 0 /\ aggregate.all > 0)
      BY <1>4, <2>7 DEF Trusted
    <3>2. ~(m = 0 /\ aggregate.all > 0)
      BY <1>2, <1>4, <3>1 DEF Forgotten
    <3> HIDE DEF m
    <3>3. aggregate.all = 0
      BY <2>1, <3>1, <3>2
    <3>4. v = 0
      BY <1>1, <2>2, <2>3, <3>3
    <3>5. Total(t, aggregate) = n
      BY <2>7 DEF Total
    <3> HIDE DEF n, v
    <3>6. QED
      BY <1>1, <3>4, <3>5 DEF n, v
  <2>8. QED
    BY <2>6, <2>7
<1>5. QED
  BY <1>3, <1>4

\* A process that stops saves what it counted, so the next one counts it too.
LEMMA RestartKeeps == LedgerInv /\ Types' /\ Restart => LedgerInv'
<1> SUFFICES ASSUME LedgerInv, Types', Restart PROVE LedgerInv'
  OBVIOUS
<1>1. /\ Types /\ Load(rows, Final) /\ unwritten = <<>> /\ drifted' = drifted
  BY DEF Restart, Final, LedgerInv
<1>2. /\ Table(rows) /\ counters["all"] \in Nat /\ evicted["all"] \in Nat
      /\ Tally(rows)["all"] = Cardinality(DOMAIN rows) /\ "all" \in Dimensions
      /\ lastId \in Nat
  BY <1>1, TypeFacts DEF Types, LedgerTypeOK
<1>3. Final \in Aggregates /\ Final.all = counters["all"] /\ Final.mark = lastId
  BY <1>2 DEF Final, Aggregates
<1>4. Cardinality(DOMAIN rows) \in Nat /\ IsFiniteSet(DOMAIN rows)
  BY <1>2, FS_CardinalityType DEF Table
<1>5. ASSUME ~drifted' PROVE Total(rows, Final) = Cardinality(DOMAIN rows) + evicted["all"]
  <2>1. counters["all"] = Cardinality(DOMAIN rows) + evicted["all"]
    <3>1. Agrees(counters, rows, unwritten, evicted, "all")
      BY <1>1, <1>5 DEF LedgerInv, Matched
    <3>2. Tally(PlainAll(unwritten))["all"] = 0
      BY <1>1, <1>2, NothingWaits
    <3>3. QED
      BY <1>2, <1>4, <3>1, <3>2 DEF Agrees
  <2>2. CASE Trusted(rows, Final)
    <3>1. AfterMark(rows, lastId) = {}
      <4>1. \A i \in DOMAIN rows : i \in Nat /\ i <= lastId
        BY <1>2 DEF LedgerInv, IdsKnown, Table
      <4>2. QED
        BY <1>2, <4>1 DEF AfterMark
    <3>2. Cardinality(AfterMark(rows, lastId)) = 0
      BY <3>1, FS_EmptySet
    <3>3. Total(rows, Final) = counters["all"] + 0
      BY <1>3, <2>2, <3>2 DEF Total
    <3>4. QED
      BY <1>2, <2>1, <3>3
  <2>3. CASE ~Trusted(rows, Final)
    <3>1. Final # NoAggregate
      BY <1>3, LedgerAssumption DEF Aggregates
    <3>2. DOMAIN rows # {} /\ ~(Final.mark > 0 /\ Final.all > 0)
      BY <2>3, <3>1 DEF Trusted
    <3>3. lastId # 0
      <4>1. PICK i \in DOMAIN rows : TRUE
        BY <3>2
      <4>2. i \in Nat \ {0} /\ i <= lastId
        BY <1>2 DEF LedgerInv, IdsKnown, Table
      <4>3. QED
        BY <4>2
    <3>4. evicted["all"] = 0
      BY <1>2, <1>3, <1>4, <2>1, <3>2, <3>3
    <3>5. Total(rows, Final) = Cardinality(DOMAIN rows)
      BY <2>3 DEF Total
    <3>6. QED
      BY <1>4, <3>4, <3>5
  <2>4. QED
    BY <2>2, <2>3
<1>6. QED
  BY <1>1, <1>2, <1>3, <1>5, LoadKeeps

\* A crash leaves the aggregate that was saved last.
LEMMA CrashKeeps == LedgerInv /\ Types' /\ Crash => LedgerInv'
<1> SUFFICES ASSUME LedgerInv, Types', Crash PROVE LedgerInv'
  OBVIOUS
<1>1. /\ Types /\ Load(rows, aggregate)
      /\ drifted' = (drifted \/ unsettled # {} \/ Forgotten)
  BY DEF Crash, LedgerInv
<1>2. Table(rows) /\ aggregate \in Aggregates \cup {NoAggregate}
  BY <1>1, TypeFacts DEF Types, LedgerTypeOK, Aggregates
<1>3. ASSUME ~drifted'
      PROVE  Total(rows, aggregate) = Cardinality(DOMAIN rows) + evicted["all"]
  <2>1. ~drifted /\ unsettled = {} /\ ~Forgotten
    BY <1>1, <1>3
  <2>2. Settled
    BY <2>1 DEF LedgerInv, AggregateSettled
  <2>3. QED
    BY <1>1, <1>2, <2>1, <2>2, SettledTotal
<1>4. QED
  BY <1>1, <1>2, <1>3, LoadKeeps

\* So does a copy, whose rows have new IDs.
LEMMA SwitchKeeps == LedgerInv /\ Types' /\ SwitchDatabase => LedgerInv'
<1> SUFFICES ASSUME LedgerInv, Types', SwitchDatabase PROVE LedgerInv'
  OBVIOUS
<1>1. /\ Types /\ Load(Renumbered, aggregate)
      /\ drifted' = (drifted \/ unsettled # {} \/ Forgotten \/ MarkMisses)
  BY DEF SwitchDatabase, LedgerInv
<1>2. /\ Table(Renumbered) /\ aggregate \in Aggregates \cup {NoAggregate}
      /\ Cardinality(DOMAIN Renumbered) = Cardinality(DOMAIN rows)
  BY <1>1, RenumberedIs DEF Types, LedgerTypeOK, Aggregates
<1>3. ASSUME ~drifted'
      PROVE  Total(Renumbered, aggregate) = Cardinality(DOMAIN Renumbered) + evicted["all"]
  <2>1. ~drifted /\ unsettled = {} /\ ~Forgotten /\ ~MarkMisses
    BY <1>1, <1>3
  <2>2. Settled
    BY <2>1 DEF LedgerInv, AggregateSettled
  <2>3. aggregate # NoAggregate =>
          Cardinality(AfterMark(Renumbered, aggregate.mark))
            = Cardinality(AfterMark(rows, aggregate.mark))
    BY <2>1 DEF MarkMisses
  <2>4. QED
    BY <1>1, <1>2, <2>1, <2>2, <2>3, SettledTotal
<1>4. QED
  BY <1>1, <1>2, <1>3, LoadKeeps

\* A recorded event is counted once and waits once.
LEMMA RecordKeeps ==
  ASSUME LedgerInv, Types', NEW e \in Events, RecordEvent(e)
  PROVE  LedgerInv'
<1>1. /\ Types /\ unwritten \in Seq(Events)
      /\ counters' = Count(counters, Plain(e)) /\ unwritten' = Append(unwritten, e)
      /\ UNCHANGED <<lastId, rows, aggregate, evicted, unsettled, drifted, late>>
  BY DEF LedgerInv, Types, LedgerTypeOK, RecordEvent, database
<1>2. Tally(PlainAll(unwritten')) = Count(Tally(PlainAll(unwritten)), Plain(e))
  BY <1>1, PlainAppended
<1>3. /\ Tally(PlainAll(unwritten)) \in Totals /\ Tally(rows) \in Totals
      /\ counters \in Totals /\ evicted \in Totals /\ "all" \in Dimensions
  BY <1>1, PlainTally, TypeFacts
<1>4. ASSUME NEW k \in Dimensions, Agrees(counters, rows, unwritten, evicted, k)
      PROVE  Agrees(counters', rows', unwritten', evicted', k)
  <2> DEFINE u == Tally(PlainAll(unwritten))
             x == Tally(PlainAll(unwritten'))
  <2>1. /\ counters[k] \in Nat /\ Tally(rows)[k] \in Nat /\ u[k] \in Nat /\ evicted[k] \in Nat
    BY <1>3 DEF Totals
  <2>2. counters[k] = Tally(rows)[k] + u[k] + evicted[k]
    BY <1>4 DEF Agrees
  <2>3. /\ counters'[k] = IF k \in KeysOf(Plain(e)) THEN counters[k] + 1 ELSE counters[k]
        /\ x[k] = IF k \in KeysOf(Plain(e)) THEN u[k] + 1 ELSE u[k]
    BY <1>1, <1>2 DEF Count
  <2> HIDE DEF u, x
  <2>4. counters'[k] = Tally(rows)[k] + x[k] + evicted[k]
    BY <2>1, <2>2, <2>3
  <2>5. QED
    BY <1>1, <2>4 DEF Agrees, x
<1>5. Matched'
  BY <1>1, <1>3, <1>4 DEF LedgerInv, Matched
<1>6. IdsKnown' /\ AggregateSettled'
  BY <1>1 DEF LedgerInv, IdsKnown, AggregateSettled, Settled, UpTo
<1>7. QED
  BY <1>5, <1>6 DEF LedgerInv

\* A row that gets its metadata moves in the tally as in the counters.
LEMMA EnrichedTally ==
  ASSUME NEW t, Table(t), NEW i \in DOMAIN t, ~t[i].rich,
         NEW s, DOMAIN s = DOMAIN t, \A j \in DOMAIN t : j # i => s[j] = t[j], s[i].rich
  PROVE  /\ Tally(t)["unknown"] > 0
         /\ Tally(s)["all"] = Tally(t)["all"]
         /\ Tally(s)["unknown"] = Tally(t)["unknown"] - 1
         /\ Tally(s)["known"] = Tally(t)["known"] + 1
         /\ Tally(s)["client"] = Tally(t)["client"] + 1
<1>1. IsFiniteSet(DOMAIN t) /\ IsFiniteSet(DOMAIN s)
  BY DEF Table
<1>2. {"all", "unknown", "known", "client"} = Dimensions
  BY DEF Dimensions
<1>3. /\ KeysOf(t[i]) = {"all", "unknown"} /\ KeysOf(s[i]) = {"all", "known", "client"}
      /\ \A j \in DOMAIN t : j # i => KeysOf(s[j]) = KeysOf(t[j])
  BY DEF KeysOf
<1>4. \A k \in Dimensions : /\ IsFiniteSet(InKey(t, k)) /\ Tally(t)[k] = Cardinality(InKey(t, k))
                            /\ IsFiniteSet(InKey(s, k)) /\ Tally(s)[k] = Cardinality(InKey(s, k))
  BY <1>1, TallyType
<1>5. InKey(s, "all") = InKey(t, "all")
  BY <1>3 DEF InKey
<1>6. i \in InKey(t, "unknown") /\ InKey(s, "unknown") = InKey(t, "unknown") \ {i}
  BY <1>3 DEF InKey
<1>7. /\ i \notin InKey(t, "known") /\ InKey(s, "known") = InKey(t, "known") \cup {i}
      /\ i \notin InKey(t, "client") /\ InKey(s, "client") = InKey(t, "client") \cup {i}
  BY <1>3 DEF InKey
<1>8. Tally(s)["all"] = Tally(t)["all"]
  BY <1>2, <1>4, <1>5
<1>9. Tally(s)["unknown"] = Tally(t)["unknown"] - 1
  <2>1. "unknown" \in Dimensions
    BY <1>2
  <2>2. Cardinality(InKey(t, "unknown") \ {i}) = Cardinality(InKey(t, "unknown")) - 1
    BY <1>4, <1>6, <2>1, FS_RemoveElement
  <2>3. QED
    BY <1>4, <1>6, <2>1, <2>2
<1>10. Tally(s)["known"] = Tally(t)["known"] + 1
  <2>1. "known" \in Dimensions
    BY <1>2
  <2>2. Cardinality(InKey(t, "known") \cup {i}) = Cardinality(InKey(t, "known")) + 1
    BY <1>4, <1>7, <2>1, FS_AddElement
  <2>3. QED
    BY <1>4, <1>7, <2>1, <2>2
<1>11. Tally(s)["client"] = Tally(t)["client"] + 1
  <2>1. "client" \in Dimensions
    BY <1>2
  <2>2. Cardinality(InKey(t, "client") \cup {i}) = Cardinality(InKey(t, "client")) + 1
    BY <1>4, <1>7, <2>1, FS_AddElement
  <2>3. QED
    BY <1>4, <1>7, <2>1, <2>2
<1>12. Tally(t)["unknown"] > 0
  <2>1. "unknown" \in Dimensions
    BY <1>2
  <2>2. Cardinality(InKey(t, "unknown")) \in Nat /\ Cardinality(InKey(t, "unknown")) # 0
    BY <1>4, <1>6, <2>1, FS_CardinalityType, FS_EmptySet
  <2>3. QED
    BY <1>4, <2>1, <2>2
<1>13. QED
  BY <1>8, <1>9, <1>10, <1>11, <1>12

\* And in the counters: the one of no endpoint when it has the row, and the others.
LEMMA MovedCounters ==
  ASSUME NEW c \in Totals, NEW a, NEW b, ~a.rich, b.rich
  PROVE  LET m == Move(c, a, b) IN
         /\ m["all"] = c["all"] /\ m["known"] = c["known"] + 1 /\ m["client"] = c["client"] + 1
         /\ c["unknown"] > 0 => m["unknown"] = c["unknown"] - 1
<1>1. KeysOf(a) = {"all", "unknown"} /\ KeysOf(b) = {"all", "known", "client"}
  BY DEF KeysOf
<1>2. \A k \in Dimensions :
        Move(c, a, b)[k] = (CASE k \in KeysOf(a) \ KeysOf(b) /\ c[k] > 0 -> c[k] - 1
                              [] k \in KeysOf(b) \ KeysOf(a) -> c[k] + 1
                              [] OTHER -> c[k])
  BY DEF Move
<1>3. "all" \in Dimensions /\ "unknown" \in Dimensions /\ "known" \in Dimensions
      /\ "client" \in Dimensions
  BY DEF Dimensions
<1>4. KeysOf(a) \ KeysOf(b) = {"unknown"} /\ KeysOf(b) \ KeysOf(a) = {"known", "client"}
  BY <1>1
<1>5. QED
  BY <1>2, <1>3, <1>4

\* Metadata moves a row in the database and in the counters.
LEMMA EnrichKeeps ==
  ASSUME LedgerInv, Types', NEW e \in Events, Enrich(e)
  PROVE  LedgerInv'
<1>1. /\ Types
      /\ UNCHANGED <<lastId, unwritten, aggregate, evicted, unsettled, drifted, late>>
  BY DEF LedgerInv, Enrich
<1>2. CASE RowsOf(e) = {}
  <2>1. UNCHANGED <<counters, rows>>
    BY <1>2 DEF Enrich
  <2>2. Matched'
    BY <1>1, <2>1 DEF LedgerInv, Matched, Agrees
  <2>3. IdsKnown' /\ AggregateSettled'
    BY <1>1, <2>1 DEF LedgerInv, IdsKnown, AggregateSettled, Settled, UpTo
  <2>4. QED
    BY <2>2, <2>3 DEF LedgerInv
<1>3. CASE RowsOf(e) # {}
  <2> DEFINE i == Max(RowsOf(e))
             r == [rows[i] EXCEPT !.rich = TRUE]
  <2>1. i \in DOMAIN rows /\ rows[i] \in Rows
    BY <1>1, <1>3, RowFound
  <2>2. /\ rows' = [rows EXCEPT ![i].rich = TRUE]
        /\ counters' = IF rows[i].rich THEN counters ELSE Move(counters, rows[i], r)
    BY <1>3 DEF Enrich
  <2>3. /\ rows' = [rows EXCEPT ![i] = r] /\ r.rich /\ DOMAIN rows' = DOMAIN rows
    BY <2>1, <2>2 DEF Rows
  <2> HIDE DEF i, r
  <2>4. /\ Table(rows) /\ counters \in Totals /\ evicted \in Totals /\ Tally(rows) \in Totals
        /\ Tally(PlainAll(unwritten)) \in Totals /\ "all" \in Dimensions
    BY <1>1, TypeFacts, PlainTally DEF Types, LedgerTypeOK
  <2>5. rows'[i] = r /\ \A j \in DOMAIN rows : j # i => rows'[j] = rows[j]
    BY <2>1, <2>3
  <2>6. IdsKnown' /\ AggregateSettled'
    BY <1>1, <2>3 DEF LedgerInv, IdsKnown, AggregateSettled, Settled, UpTo
  <2>7. CASE rows[i].rich
    <3>1. \A j \in DOMAIN rows : rows[j].rich = rows'[j].rich
      <4>1. ASSUME NEW j \in DOMAIN rows PROVE rows[j].rich = rows'[j].rich
        <5>1. CASE j = i
          <6>1. rows[i].rich \in BOOLEAN
            BY <2>1 DEF Rows
          <6>2. rows[i].rich = TRUE
            BY <2>7, <6>1
          <6>3. r.rich = TRUE
            BY <2>1 DEF r, Rows
          <6>4. QED
            BY <2>5, <5>1, <6>2, <6>3
        <5>2. CASE j # i
          BY <2>5, <5>2
        <5>3. QED
          BY <5>1, <5>2
      <4>2. QED
        BY <4>1
    <3>2. Tally(rows') = Tally(rows)
      BY <2>3, <3>1, SameTally
    <3>3. counters' = counters
      BY <2>2, <2>7
    <3>4. Matched'
      BY <1>1, <3>2, <3>3 DEF LedgerInv, Matched, Agrees
    <3>5. QED
      BY <2>6, <3>4 DEF LedgerInv
  <2>8. CASE ~rows[i].rich
    <3>1. /\ Tally(rows)["unknown"] > 0
          /\ Tally(rows')["all"] = Tally(rows)["all"]
          /\ Tally(rows')["unknown"] = Tally(rows)["unknown"] - 1
          /\ Tally(rows')["known"] = Tally(rows)["known"] + 1
          /\ Tally(rows')["client"] = Tally(rows)["client"] + 1
      <4> DEFINE s == rows'
      <4>1. s[i].rich /\ DOMAIN s = DOMAIN rows
        BY <2>3, <2>5
      <4>2. \A j \in DOMAIN rows : j # i => s[j] = rows[j]
        BY <2>5
      <4> HIDE DEF s
      <4>3. /\ Tally(rows)["unknown"] > 0
            /\ Tally(s)["all"] = Tally(rows)["all"]
            /\ Tally(s)["unknown"] = Tally(rows)["unknown"] - 1
            /\ Tally(s)["known"] = Tally(rows)["known"] + 1
            /\ Tally(s)["client"] = Tally(rows)["client"] + 1
        BY <2>1, <2>4, <2>8, <4>1, <4>2, EnrichedTally
      <4>4. QED
        BY <4>3 DEF s
    <3>2. /\ counters'["all"] = counters["all"] /\ counters'["known"] = counters["known"] + 1
          /\ counters'["client"] = counters["client"] + 1
          /\ counters["unknown"] > 0 => counters'["unknown"] = counters["unknown"] - 1
      BY <2>2, <2>3, <2>4, <2>8, MovedCounters
    <3>3. ASSUME NEW k \in Dimensions, Agrees(counters, rows, unwritten, evicted, k)
          PROVE  Agrees(counters', rows', unwritten', evicted', k)
      <4> DEFINE u == Tally(PlainAll(unwritten))
                 x == Tally(rows)
                 y == Tally(rows')
      <4>1. counters[k] \in Nat /\ x[k] \in Nat /\ u[k] \in Nat /\ evicted[k] \in Nat
        BY <2>4 DEF Totals
      <4>2. counters[k] = x[k] + u[k] + evicted[k]
        BY <3>3 DEF Agrees
      <4>3. k \in {"all", "unknown", "known", "client"}
        BY DEF Dimensions
      <4> HIDE DEF u, x, y
      <4>4. counters'[k] = y[k] + u[k] + evicted[k]
        <5>1. CASE k = "all"
          BY <3>1, <3>2, <4>1, <4>2, <5>1 DEF x, y
        <5>2. CASE k = "known"
          BY <3>1, <3>2, <4>1, <4>2, <5>2 DEF x, y
        <5>3. CASE k = "client"
          BY <3>1, <3>2, <4>1, <4>2, <5>3 DEF x, y
        <5>4. CASE k = "unknown"
          BY <3>1, <3>2, <4>1, <4>2, <5>4 DEF x, y
        <5>5. QED
          BY <4>3, <5>1, <5>2, <5>3, <5>4
      <4>5. QED
        BY <1>1, <4>4 DEF Agrees, u, y
    <3>4. Matched'
      BY <1>1, <2>4, <3>3 DEF LedgerInv, Matched
    <3>5. QED
      BY <2>6, <3>4 DEF LedgerInv
  <2>9. QED
    BY <2>7, <2>8
<1>4. QED
  BY <1>2, <1>3

\* The events that a batch leaves.
Remaining(n) == SubSeq(unwritten, n + 1, Len(unwritten))

\* Rows stand for the events of a batch, once it is written.
LEMMA BatchAgrees ==
  ASSUME Types, NEW n \in 1..Len(unwritten), NEW k \in Dimensions,
         Agrees(counters, rows, unwritten, evicted, k),
         k = "all" \/ pending \cap ToSet(Batch(n)) = {}
  PROVE  /\ Remaining(n) \in Seq(Events)
         /\ Agrees(counters, WithBatch(n), Remaining(n), evicted, k)
<1> DEFINE b == Tally(PlainAll(Batch(n)))
           r == Tally(PlainAll(Remaining(n)))
           u == Tally(PlainAll(unwritten))
           new == Tally(NewRows(n))
           x == Tally(rows)
           y == Tally(WithBatch(n))
<1>1. unwritten \in Seq(Events)
  BY DEF Types, LedgerTypeOK
<1>2. /\ Remaining(n) \in Seq(Events) /\ Batch(n) \in Seq(Events) /\ u[k] = b[k] + r[k]
  BY <1>1, PlainParts DEF Batch, Remaining
<1>3. /\ y = Plus(x, new) /\ new \in Totals /\ new["all"] = n /\ b["all"] = n
      /\ pending \cap ToSet(Batch(n)) = {} => new = b
  BY BatchRows
<1>4. b \in Totals /\ r \in Totals /\ x \in Totals /\ counters \in Totals /\ evicted \in Totals
  BY <1>2, PlainTally, TypeFacts
<1>5. counters[k] = x[k] + u[k] + evicted[k]
  BY DEF Agrees
<1> HIDE DEF b, r, u, new, x, y
<1>6. new[k] = b[k]
  BY <1>3
<1>7. y[k] = x[k] + new[k]
  BY <1>3, <1>4, TotalsAdd
<1>8. /\ b[k] \in Nat /\ r[k] \in Nat /\ x[k] \in Nat /\ counters[k] \in Nat
      /\ evicted[k] \in Nat
  BY <1>4 DEF Totals
<1>9. counters[k] = y[k] + r[k] + evicted[k]
  BY <1>2, <1>5, <1>6, <1>7, <1>8
<1>10. QED
  BY <1>2, <1>9 DEF Agrees, y, r

\* The total, and every dimension that agrees, after the batch is pruned.
LEMMA BatchMatches ==
  ASSUME Types, NEW n \in 1..Len(unwritten), NEW k \in Dimensions,
         Agrees(counters, rows, unwritten, evicted, "all"),
         Agrees(counters, rows, unwritten, evicted, k),
         k = "all" \/ pending \cap ToSet(Batch(n)) = {}
  PROVE  LET p == BatchPruned(n) IN
         /\ p.counters[k] = Tally(p.rows)[k] + Tally(PlainAll(Remaining(n)))[k]
                              + (evicted[k] + p.evicted[k])
         /\ p.counters[k] = counters[k] - Tally(Only(WithBatch(n), p.removed))[k]
<1> DEFINE p == BatchPruned(n)
           t == WithBatch(n)
           r == Tally(PlainAll(Remaining(n)))
<1>1. PruneOf(p, counters, t, window) /\ Table(t)
  BY BatchPrunedIs, BatchRows
<1>2. counters \in Totals /\ evicted \in Totals /\ "all" \in Dimensions
  BY TypeFacts
<1>3. /\ Remaining(n) \in Seq(Events)
      /\ Agrees(counters, t, Remaining(n), evicted, "all")
      /\ Agrees(counters, t, Remaining(n), evicted, k)
  BY <1>2, BatchAgrees
<1>4. r \in Totals
  BY <1>3, PlainTally
<1>5. Balanced(counters, t, r, evicted, "all") /\ Balanced(counters, t, r, evicted, k)
  BY <1>1, <1>2, <1>3, <1>4 DEF Agrees, Balanced
<1> HIDE DEF p, t, r
<1>6. p.counters[k] = counters[k] - Tally(Only(t, p.removed))[k]
  BY <1>1, <1>5, PruneMatches
<1>7. p.counters[k] = Tally(p.rows)[k] + r[k] + (evicted[k] + p.evicted[k])
  <2>1. /\ Tally(t)[k] = Tally(p.rows)[k] + p.evicted[k] + Tally(Only(t, p.removed))[k]
        /\ p.evicted \in Totals /\ Tally(Only(t, p.removed)) \in Totals /\ Table(p.rows)
    BY <1>1 DEF PruneOf
  <2>2. Tally(p.rows) \in Totals
    BY <2>1, TallyType DEF Table, Totals
  <2>3. /\ Tally(p.rows)[k] \in Nat /\ p.evicted[k] \in Nat /\ r[k] \in Nat
        /\ evicted[k] \in Nat /\ Tally(Only(t, p.removed))[k] \in Nat
    BY <1>2, <1>4, <2>1, <2>2 DEF Totals
  <2>4. counters[k] = Tally(t)[k] + r[k] + evicted[k]
    BY <1>5 DEF Balanced
  <2>5. QED
    BY <1>6, <2>1, <2>3, <2>4
<1>8. QED
  BY <1>6, <1>7 DEF p, t, r

\* What a batch that does not save leaves unsettled.
LEMMA UnsavedSettled ==
  ASSUME Types, Settled, NEW n \in 1..Len(unwritten), ~Uncovered(BatchPruned(n)),
         \A i \in WrittenIds(n) : ~(i <= CoveredTo),
         aggregate' = aggregate, rows' = BatchPruned(n).rows,
         evicted' = Plus(evicted, BatchPruned(n).evicted)
  PROVE  Settled'
<1> DEFINE p == BatchPruned(n)
           t == WithBatch(n)
           m == CoveredTo
<1>1. PruneOf(p, counters, t, window) /\ Table(t) /\ Table(rows)
  BY BatchPrunedIs, BatchRows, TypeFacts
<1>2. /\ p.removed \subseteq DOMAIN t /\ p.over \subseteq DOMAIN t /\ p.evicted \in Totals
      /\ p.removed \cap p.over = {} /\ DOMAIN p.rows = DOMAIN t \ (p.removed \cup p.over)
      /\ p.evicted["all"] = Cardinality(p.over)
  BY <1>1 DEF PruneOf
<1>3. \A i \in p.removed : ~(i <= m)
  BY DEF Uncovered
<1>4. \A i \in p.over : ~(i > m)
  BY DEF Uncovered
<1>5. DOMAIN t = DOMAIN rows \cup WrittenIds(n) /\ DOMAIN rows \subseteq DOMAIN t
  <2>1. t = Appended(rows, NewRows(n)) /\ NewRows(n) \in Seq(Rows)
    BY BatchRows
  <2>2. DOMAIN rows \subseteq DOMAIN Appended(rows, NewRows(n))
    BY <1>1, <2>1, AppendedRows DEF Continues
  <2>3. QED
    BY <2>1, <2>2 DEF WrittenIds
<1>6. m \in Nat /\ (aggregate = NoAggregate => m = 0)
      /\ (aggregate # NoAggregate => m = aggregate.mark)
  BY DEF CoveredTo, Types, LedgerTypeOK
<1>7. \A i \in WrittenIds(n) : ~(i <= m)
  OBVIOUS
<1> HIDE DEF p, t, m
<1>8. \A i \in DOMAIN t : i \in Nat \ {0}
  BY <1>1 DEF Table
<1>9. /\ p.over \subseteq UpTo(rows, m)
      /\ UpTo(p.rows, m) = UpTo(rows, m) \ p.over
  <2>1. \A i \in p.over : i \in DOMAIN rows /\ i <= m
    <3>1. ASSUME NEW i \in p.over PROVE i \in DOMAIN rows /\ i <= m
      <4>1. i \in DOMAIN t /\ i \in Nat /\ i <= m
        BY <1>2, <1>4, <1>6, <1>8
      <4>2. QED
        BY <1>5, <1>7, <4>1
    <3>2. QED
      BY <3>1
  <2>2. \A i : i \in UpTo(p.rows, m) <=> i \in UpTo(rows, m) /\ i \notin p.over
    BY <1>2, <1>3, <1>5, <1>7 DEF UpTo
  <2>3. QED
    BY <2>1, <2>2 DEF UpTo
<1>10. /\ IsFiniteSet(UpTo(rows, m)) /\ IsFiniteSet(p.over) /\ IsFiniteSet(UpTo(p.rows, m))
       /\ UpTo(rows, m) = UpTo(p.rows, m) \cup p.over
       /\ UpTo(p.rows, m) \cap p.over = {}
  <2>1. IsFiniteSet(UpTo(rows, m))
    BY <1>1, <1>6, AroundMark
  <2>2. p.over \in SUBSET UpTo(rows, m) /\ UpTo(p.rows, m) \in SUBSET UpTo(rows, m)
    BY <1>9
  <2>3. IsFiniteSet(p.over) /\ IsFiniteSet(UpTo(p.rows, m))
    BY <2>1, <2>2, FS_Subset
  <2>4. QED
    BY <1>9, <2>1, <2>3
<1>11. /\ Cardinality(UpTo(rows, m)) = Cardinality(UpTo(p.rows, m)) + Cardinality(p.over)
       /\ Cardinality(UpTo(p.rows, m)) \in Nat /\ Cardinality(p.over) \in Nat
  <2>1. Cardinality(UpTo(p.rows, m)) \in Nat /\ Cardinality(p.over) \in Nat
    BY <1>10, FS_CardinalityType
  <2>2. Cardinality(UpTo(p.rows, m) \cup p.over)
          = Cardinality(UpTo(p.rows, m)) + Cardinality(p.over)
              - Cardinality(UpTo(p.rows, m) \cap p.over)
    BY <1>10, FS_Union
  <2>3. Cardinality(UpTo(p.rows, m) \cap p.over) = 0
    BY <1>10, FS_EmptySet
  <2>4. Cardinality(UpTo(p.rows, m) \cup p.over) = Cardinality(UpTo(rows, m))
    BY <1>10
  <2>5. QED
    BY <2>1, <2>2, <2>3, <2>4
<1>12. /\ evicted'["all"] = evicted["all"] + Cardinality(p.over) /\ evicted["all"] \in Nat
  <2>1. evicted' = Plus(evicted, p.evicted)
    BY DEF p
  <2>2. evicted \in Totals /\ "all" \in Dimensions /\ evicted["all"] \in Nat
    BY TypeFacts
  <2>3. QED
    BY <1>2, <2>1, <2>2, TotalsAdd
<1>13. CASE aggregate = NoAggregate
  <2>1. UpTo(rows, m) = {}
    BY <1>5, <1>6, <1>8, <1>13 DEF UpTo
  <2>2. Cardinality(p.over) = 0
    <3>1. p.over = {}
      BY <1>9, <2>1
    <3>2. QED
      BY <3>1, FS_EmptySet
  <2>3. evicted["all"] = 0
    BY <1>13 DEF Settled
  <2>4. evicted'["all"] = 0
    BY <1>12, <2>2, <2>3
  <2>5. QED
    BY <1>13, <2>4 DEF Settled
<1>14. CASE aggregate # NoAggregate
  <2>1. aggregate.all = Cardinality(UpTo(rows, m)) + evicted["all"]
    BY <1>6, <1>14 DEF Settled
  <2>2. aggregate.all = Cardinality(UpTo(p.rows, m)) + evicted'["all"]
    BY <1>11, <1>12, <2>1
  <2>3. rows' = p.rows /\ aggregate' = aggregate /\ aggregate.mark = m
    BY <1>6, <1>14 DEF p
  <2>4. aggregate'.all = Cardinality(UpTo(rows', aggregate'.mark)) + evicted'["all"]
    BY <2>2, <2>3
  <2>5. QED
    BY <1>14, <2>3, <2>4 DEF Settled
<1>15. QED
  BY <1>13, <1>14

\* A batch: its rows replace the events that waited, what it prunes leaves the
\* counters, and the aggregate it saves or leaves is settled.
LEMMA WriteKeeps ==
  ASSUME LedgerInv, Types', NEW n \in 1..Len(unwritten), NEW due \in BOOLEAN, Write(n, due)
  PROVE  LedgerInv'
<1> DEFINE p == BatchPruned(n)
           t == WithBatch(n)
           saves == (due \/ force) /\ MaySave(Remaining(n))
<1>1. /\ counters' = p.counters /\ rows' = p.rows /\ unwritten' = Remaining(n)
      /\ aggregate' = IF saves THEN [all |-> p.counters["all"], mark |-> Mark(n)]
                      ELSE aggregate
      /\ lastId' = Max(WrittenIds(n) \cup {lastId})
      /\ evicted' = Plus(evicted, p.evicted)
      /\ late' = (late \/ pending \cap ToSet(Batch(n)) # {})
      /\ unsettled' =
           IF saves THEN {}
           ELSE unsettled
                \cup (IF Uncovered(p) THEN {"removed"} ELSE {})
                \cup (IF \E i \in WrittenIds(n) : i <= CoveredTo THEN {"reused"} ELSE {})
      /\ drifted' = drifted
  BY DEF Write, Remaining
<1>2. /\ Types /\ counters \in Totals /\ evicted \in Totals /\ Table(rows)
      /\ "all" \in Dimensions /\ Table(t) /\ PruneOf(p, counters, t, window)
  BY TypeFacts, BatchRows, BatchPrunedIs DEF LedgerInv
<1> HIDE DEF p, t, saves
<1>3. p.evicted \in Totals /\ Table(p.rows) /\ DOMAIN p.rows \subseteq DOMAIN t
  BY <1>2 DEF PruneOf
<1>4. \A k \in Dimensions : evicted'[k] = evicted[k] + p.evicted[k]
  BY <1>1, <1>2, <1>3, TotalsAdd
<1>5. ASSUME ~drifted, NEW k \in Dimensions, Agrees(counters, rows, unwritten, evicted, k),
             k = "all" \/ pending \cap ToSet(Batch(n)) = {}
      PROVE  Agrees(counters', rows', unwritten', evicted', k)
  <2>1. Agrees(counters, rows, unwritten, evicted, "all")
    BY <1>5 DEF LedgerInv, Matched
  <2>2. p.counters[k] = Tally(p.rows)[k] + Tally(PlainAll(Remaining(n)))[k]
                          + (evicted[k] + p.evicted[k])
    BY <1>2, <1>5, <2>1, BatchMatches DEF p
  <2>3. QED
    BY <1>1, <1>4, <2>2 DEF Agrees
<1>6. Matched'
  <2>1. ASSUME ~drifted' PROVE Agrees(counters', rows', unwritten', evicted', "all")
    BY <1>1, <1>2, <1>5, <2>1 DEF LedgerInv, Matched
  <2>2. ASSUME ~drifted', ~late', NEW k \in Dimensions
        PROVE  Agrees(counters', rows', unwritten', evicted', k)
    <3>1. ~drifted /\ ~late /\ pending \cap ToSet(Batch(n)) = {}
      BY <1>1, <2>2
    <3>2. Agrees(counters, rows, unwritten, evicted, k)
      BY <3>1 DEF LedgerInv, Matched
    <3>3. QED
      BY <1>5, <3>1, <3>2
  <2>3. QED
    BY <2>1, <2>2 DEF Matched
<1>7. /\ lastId' \in Nat /\ \A i \in DOMAIN t : i <= lastId'
  <2>1. WrittenIds(n) = DOMAIN t \ DOMAIN rows
    BY DEF WrittenIds, t
  <2>2. WrittenIds(n) \in SUBSET Nat /\ IsFiniteSet(WrittenIds(n)) /\ lastId \in Nat
    BY <1>2, <2>1, FS_Subset DEF Table, Types, LedgerTypeOK
  <2>3. /\ lastId' \in Nat /\ lastId <= lastId' /\ \A i \in WrittenIds(n) : i <= lastId'
    BY <1>1, <2>2, LastOf
  <2>4. \A i \in DOMAIN rows : i \in Nat /\ i <= lastId
    BY <1>2 DEF Table, LedgerInv, IdsKnown
  <2>5. \A i \in DOMAIN rows : i <= lastId'
    BY <2>2, <2>3, <2>4
  <2>6. QED
    BY <2>1, <2>3, <2>5
<1>8. IdsKnown'
  BY <1>1, <1>3, <1>7 DEF IdsKnown
<1>9. ASSUME ~drifted', unsettled' = {}, saves PROVE Settled'
  <2>1. /\ aggregate' = [all |-> counters'["all"], mark |-> lastId'] /\ unwritten' = <<>>
    BY <1>1, <1>9 DEF Mark, MaySave, saves
  <2>2. counters'["all"] = Tally(rows')["all"] + 0 + evicted'["all"]
    BY <1>2, <1>6, <1>9, <2>1, NothingWaits DEF Matched, Agrees
  <2>3. Tally(rows')["all"] = Cardinality(DOMAIN rows') /\ IsFiniteSet(DOMAIN rows')
    BY <1>1, <1>3, TallyType DEF Table
  <2>4. UpTo(rows', lastId') = DOMAIN rows'
    BY <1>8 DEF IdsKnown, UpTo
  <2>5. Cardinality(DOMAIN rows') \in Nat /\ evicted'["all"] \in Nat /\ counters'["all"] \in Nat
    BY <1>2, <2>3, FS_CardinalityType DEF Types, LedgerTypeOK
  <2>6. aggregate' # NoAggregate
    <3>1. aggregate' \in [all : Nat, mark : Nat]
      BY <1>7, <2>1, <2>5
    <3>2. QED
      BY <3>1, LedgerAssumption
  <2>7. aggregate'.all = Cardinality(UpTo(rows', aggregate'.mark)) + evicted'["all"]
    BY <2>1, <2>2, <2>3, <2>4, <2>5
  <2>8. QED
    BY <2>6, <2>7 DEF Settled
<1>10. ASSUME ~drifted', unsettled' = {}, ~saves PROVE Settled'
  <2>1. unsettled = {} /\ ~Uncovered(p) /\ ~(\E i \in WrittenIds(n) : i <= CoveredTo)
    BY <1>1, <1>10
  <2>2. Settled
    BY <1>1, <1>10, <2>1 DEF LedgerInv, AggregateSettled
  <2>3. aggregate' = aggregate
    BY <1>1, <1>10
  <2>4. QED
    BY <1>1, <1>2, <2>1, <2>2, <2>3, UnsavedSettled DEF p
<1>11. AggregateSettled'
  BY <1>9, <1>10 DEF AggregateSettled
<1>12. QED
  BY <1>6, <1>8, <1>11 DEF LedgerInv

\* A batch that fails changes no counter in the end.
LEMMA WriteFailsKeeps ==
  ASSUME LedgerInv, Types', NEW n \in 1..Len(unwritten), WriteFails(n)
  PROVE  LedgerInv'
<1> DEFINE p == BatchPruned(n)
           gone == Tally(Only(WithBatch(n), p.removed))
<1>1. /\ counters' = Plus(p.counters, gone)
      /\ late' = (late \/ pending \cap ToSet(Batch(n)) # {})
      /\ UNCHANGED <<lastId, unwritten, rows, aggregate, evicted, unsettled, drifted>>
  BY DEF WriteFails, CountAll, database
<1>2. /\ Types /\ counters \in Totals /\ "all" \in Dimensions
      /\ PruneOf(p, counters, WithBatch(n), window)
  BY TypeFacts, BatchPrunedIs DEF LedgerInv
<1>3. p.counters \in Totals /\ gone \in Totals
  BY <1>2 DEF PruneOf
<1> HIDE DEF p, gone
<1>4. ASSUME ~drifted, NEW k \in Dimensions, Agrees(counters, rows, unwritten, evicted, k),
             k = "all" \/ pending \cap ToSet(Batch(n)) = {}
      PROVE  Agrees(counters', rows', unwritten', evicted', k)
  <2>1. Agrees(counters, rows, unwritten, evicted, "all")
    BY <1>4 DEF LedgerInv, Matched
  <2>2. p.counters[k] = counters[k] - gone[k]
    BY <1>2, <1>4, <2>1, BatchMatches DEF p, gone
  <2>3. counters'[k] = p.counters[k] + gone[k]
    BY <1>1, <1>3, TotalsAdd
  <2>4. counters[k] \in Nat /\ gone[k] \in Nat
    BY <1>2, <1>3 DEF Totals
  <2>5. counters'[k] = counters[k]
    BY <2>2, <2>3, <2>4
  <2>6. QED
    BY <1>1, <1>4, <2>5 DEF Agrees
<1>5. Matched'
  <2>1. ASSUME ~drifted' PROVE Agrees(counters', rows', unwritten', evicted', "all")
    BY <1>1, <1>2, <1>4, <2>1 DEF LedgerInv, Matched
  <2>2. ASSUME ~drifted', ~late', NEW k \in Dimensions
        PROVE  Agrees(counters', rows', unwritten', evicted', k)
    <3>1. ~drifted /\ ~late /\ pending \cap ToSet(Batch(n)) = {}
      BY <1>1, <2>2
    <3>2. Agrees(counters, rows, unwritten, evicted, k)
      BY <3>1 DEF LedgerInv, Matched
    <3>3. QED
      BY <1>4, <3>1, <3>2
  <2>3. QED
    BY <2>1, <2>2 DEF Matched
<1>6. IdsKnown' /\ AggregateSettled'
  BY <1>1 DEF LedgerInv, IdsKnown, AggregateSettled, Settled, UpTo
<1>7. QED
  BY <1>5, <1>6 DEF LedgerInv

\* Nor does maintenance that fails.
LEMMA PruneFailsKeeps == LedgerInv /\ Types' /\ PruneFails => LedgerInv'
<1> SUFFICES ASSUME LedgerInv, Types', PruneFails PROVE LedgerInv'
  OBVIOUS
<1> DEFINE p == Pruned(counters, rows, window)
           gone == Tally(Only(rows, p.counted))
           u == Tally(PlainAll(unwritten))
<1>1. /\ counters' = Plus(p.counters, gone)
      /\ UNCHANGED <<lastId, unwritten, rows, aggregate, evicted, unsettled, drifted, late>>
  BY DEF PruneFails, CountAll, database, observers
<1>2. /\ Types /\ counters \in Totals /\ evicted \in Totals /\ "all" \in Dimensions
      /\ Table(rows) /\ u \in Totals /\ PruneOf(p, counters, rows, window)
  BY TypeFacts, PrunedIs, PlainTally DEF LedgerInv, Types, LedgerTypeOK
<1>3. p.counters \in Totals /\ Tally(Only(rows, p.removed)) \in Totals
  BY <1>2 DEF PruneOf
<1> HIDE DEF p
<1>4. ASSUME ~drifted, NEW k \in Dimensions, Agrees(counters, rows, unwritten, evicted, k)
      PROVE  Agrees(counters', rows', unwritten', evicted', k)
  <2>1. /\ Balanced(counters, rows, u, evicted, "all")
        /\ Balanced(counters, rows, u, evicted, k)
    BY <1>2, <1>4 DEF LedgerInv, Matched, Agrees, Balanced
  <2> HIDE DEF u
  <2>2. /\ p.counters[k] = counters[k] - Tally(Only(rows, p.removed))[k]
        /\ p.counted = p.removed
    BY <1>2, <2>1, PruneMatches
  <2>3. counters'[k] = p.counters[k] + Tally(Only(rows, p.removed))[k]
    BY <1>1, <1>3, <2>2, TotalsAdd
  <2>4. counters[k] \in Nat /\ Tally(Only(rows, p.removed))[k] \in Nat
    BY <1>2, <1>3 DEF Totals
  <2>5. counters'[k] = counters[k]
    BY <2>2, <2>3, <2>4
  <2>6. QED
    BY <1>1, <1>4, <2>5 DEF Agrees
<1>5. Matched'
  BY <1>1, <1>2, <1>4 DEF LedgerInv, Matched
<1>6. IdsKnown' /\ AggregateSettled'
  BY <1>1 DEF LedgerInv, IdsKnown, AggregateSettled, Settled, UpTo
<1>7. QED
  BY <1>5, <1>6 DEF LedgerInv

\* An added row has not expired: only rows that were there can.
LEMMA ImportedExpire ==
  ASSUME Types, NEW details \in Seq(Details)
  PROVE  LET t == ImportedRows(details)
             E == Expired(t, window)
         IN /\ Table(t) /\ E \in SUBSET DOMAIN rows /\ E \in SUBSET DOMAIN t
            /\ Only(t, E) = Only(rows, E)
<1> DEFINE a == Added(details)
           t == ImportedRows(details)
           m == MaxId(rows)
           E == Expired(t, window)
<1>1. /\ a \in Seq(Rows)
      /\ \A n \in DOMAIN a : ~Old(a[n].event, window)
  <2>1. a \in Seq(Rows)
    BY AddedIs
  <2>2. ASSUME NEW n \in DOMAIN a PROVE ~Old(a[n].event, window)
    <3>1. /\ Ranked(Fresh(details))[n] \in Fresh(details)
          /\ a[n] = Row(Source(details, n).event, Source(details, n).rich, FALSE)
      BY AddedIs
    <3>2. ~Old(Source(details, n).event, window)
      BY <3>1 DEF Fresh, Source
    <3>3. a[n].event = Source(details, n).event
      BY <3>1 DEF Row
    <3>4. QED
      BY <3>2, <3>3
  <2>3. QED
    BY <2>1, <2>2
<1>2. Table(rows) /\ m \in Nat
  BY TypeFacts, LastId DEF Table
<1> HIDE DEF a, m
<1>3. t = Appended(rows, a)
  BY DEF ImportedRows, a
<1> HIDE DEF t
<1>4. /\ Table(t) /\ DOMAIN rows \subseteq DOMAIN t
      /\ \A i \in DOMAIN rows : t[i] = rows[i]
      /\ \A j \in DOMAIN a : m + j \in DOMAIN t \ DOMAIN rows /\ t[m + j] = a[j]
      /\ \A i \in DOMAIN t \ DOMAIN rows : i - m \in DOMAIN a
  <2>1. Continues(t, rows, a)
    BY <1>1, <1>2, <1>3, AppendedRows
  <2>2. QED
    BY <2>1 DEF Continues, m
<1>5. ASSUME NEW i \in DOMAIN t \ DOMAIN rows PROVE ~Old(t[i].event, window)
  <2> DEFINE j == i - m
  <2>1. j \in DOMAIN a /\ m + j = i
    BY <1>2, <1>4 DEF Table
  <2> HIDE DEF j
  <2>2. t[i] = a[j]
    BY <1>4, <2>1
  <2>3. QED
    BY <1>1, <2>1, <2>2
<1>6. E \in SUBSET DOMAIN t /\ E \in SUBSET DOMAIN rows
  BY <1>5 DEF Expired
<1> HIDE DEF E
<1>7. Only(t, E) = Only(rows, E)
  BY <1>4, <1>6 DEF Only
<1>8. QED
  BY <1>4, <1>6, <1>7 DEF E, t

\* What is counted in a part is counted in the whole.
LEMMA PartIsLess ==
  ASSUME NEW t, Table(t), NEW S \in SUBSET DOMAIN t, NEW k \in Dimensions
  PROVE  Tally(Only(t, S))[k] <= Tally(t)[k]
<1>1. Tally(t) = Plus(Tally(Only(t, S)), Tally(Without(t, S)))
  BY TallyOfParts DEF Table
<1>2. Tally(Only(t, S)) \in Totals /\ Table(Without(t, S))
  BY PartOfTable
<1>3. Tally(Without(t, S)) \in Totals
  BY <1>2, TallyType DEF Table, Totals
<1>4. QED
  BY <1>1, <1>2, <1>3, TotalsAdd DEF Totals

\* An import that fails changes no counter that was right, although the rows it
\* added took metadata that the counters had not counted with them.
LEMMA ImportFailsKeeps ==
  ASSUME LedgerInv, Types', NEW details \in Seq(Details), ImportFails(details)
  PROVE  LedgerInv'
<1> DEFINE c == ImportedCounters(details)
           t == ImportedRows(details)
           f == ImportedPrints(details)
           E == Expired(t, window)
           p == Pruned(c, t, window)
           back == CountAll(p.counters, Only(t, p.counted))
           u == Tally(PlainAll(unwritten))
<1>1. /\ counters' = UncountAll(back, f)
      /\ UNCHANGED <<lastId, unwritten, rows, aggregate, evicted, unsettled, drifted, late>>
  BY ImportFailsAssigns DEF RolledBack, database, observers
<1>2. /\ Types /\ Table(rows) /\ counters \in Totals /\ evicted \in Totals
      /\ "all" \in Dimensions /\ u \in Totals /\ Tally(rows) \in Totals
  BY TypeFacts, PlainTally DEF LedgerInv, Types, LedgerTypeOK
<1>3. /\ c \in Totals /\ Tally(f) \in Totals
      /\ \A k \in Dimensions : c[k] = counters[k] + Tally(f)[k]
  BY <1>2, ImportedIs
<1>4. /\ IsFiniteSet(DOMAIN f) /\ DOMAIN f \subseteq Nat
      /\ Tally(f)["all"] = Cardinality(DOMAIN f)
  <2>1. IsFiniteSet(DOMAIN f) /\ DOMAIN f \subseteq Nat
    BY <1>2, PrintsAre
  <2>2. QED
    BY <2>1, TallyType
<1>5. E \in SUBSET DOMAIN rows /\ Only(t, E) = Only(rows, E)
  BY <1>2, ImportedExpire
<1>6. p.counters = UncountAll(c, Only(t, E)) /\ p.counted = Uncounted(c, Only(t, E))
  BY DEF Pruned
<1> HIDE DEF c, t, f, E, p
<1> DEFINE g == Only(rows, E)
<1>7. /\ IsFiniteSet(DOMAIN g) /\ DOMAIN g \subseteq Nat /\ DOMAIN g = E
      /\ Tally(g) \in Totals /\ Tally(g)["all"] = Cardinality(DOMAIN g)
      /\ \A k \in Dimensions : Tally(g)[k] <= Tally(rows)[k]
  <2>1. /\ IsFiniteSet(E) /\ DOMAIN g = E /\ Tally(g) \in Totals
        /\ \A k \in Dimensions : Tally(g)[k] <= Tally(rows)[k]
    BY <1>2, <1>5, PartOfTable, PartIsLess
  <2>2. E \subseteq Nat
    BY <1>2, <1>5 DEF Table
  <2>3. QED
    BY <2>1, <2>2, TallyType
<1> HIDE DEF g, u
<1>8. ASSUME ~drifted, NEW k \in Dimensions, Agrees(counters, rows, unwritten, evicted, k)
      PROVE  Agrees(counters', rows', unwritten', evicted', k)
  <2>1. /\ counters["all"] = Tally(rows)["all"] + u["all"] + evicted["all"]
        /\ counters[k] = Tally(rows)[k] + u[k] + evicted[k]
    BY <1>8 DEF LedgerInv, Matched, Agrees, u
  <2>2. \A i \in {"all", k} :
          /\ i \in Dimensions /\ counters[i] \in Nat /\ Tally(rows)[i] \in Nat /\ u[i] \in Nat
          /\ evicted[i] \in Nat /\ c[i] \in Nat /\ Tally(f)[i] \in Nat /\ Tally(g)[i] \in Nat
    BY <1>2, <1>3, <1>7 DEF Totals
  <2>3. ASSUME NEW i \in {"all", k} PROVE Tally(g)[i] <= c[i] /\ Tally(f)[i] <= c[i]
    <3>1. /\ i \in Dimensions
          /\ counters[i] = Tally(rows)[i] + u[i] + evicted[i]
      BY <2>1, <2>2
    <3>2. c[i] = counters[i] + Tally(f)[i] /\ Tally(g)[i] <= Tally(rows)[i]
      BY <1>3, <1>7, <3>1
    <3>3. /\ counters[i] \in Nat /\ Tally(rows)[i] \in Nat /\ u[i] \in Nat
          /\ evicted[i] \in Nat /\ Tally(f)[i] \in Nat /\ Tally(g)[i] \in Nat
      BY <2>2
    <3>4. QED
      BY <3>1, <3>2, <3>3
  <2>4. /\ p.counted = E /\ p.counters \in Totals
        /\ \A i \in {"all", k} : p.counters[i] = c[i] - Tally(g)[i]
    <3>1. p.counters = UncountAll(c, g) /\ p.counted = Uncounted(c, g)
      BY <1>5, <1>6 DEF g
    <3>2. c \in [Dimensions -> Nat]
      BY <1>3 DEF Totals
    <3>3. Cardinality(DOMAIN g) <= c["all"]
      BY <1>7, <2>3
    <3>4. /\ UncountAll(c, g) \in [Dimensions -> Nat] /\ Uncounted(c, g) = DOMAIN g
          /\ \A i \in Dimensions :
               Tally(g)[i] <= c[i] => UncountAll(c, g)[i] = c[i] - Tally(g)[i]
      BY <1>7, <3>2, <3>3, UncountIsExact
    <3>5. QED
      BY <1>7, <2>2, <2>3, <3>1, <3>4 DEF Totals
  <2>5. /\ back \in Totals
        /\ \A i \in {"all", k} : back[i] = p.counters[i] + Tally(g)[i]
    <3>1. back = Plus(p.counters, Tally(g))
      BY <1>5, <2>4 DEF CountAll, g
    <3>2. /\ Plus(p.counters, Tally(g)) \in Totals
          /\ \A i \in Dimensions : Plus(p.counters, Tally(g))[i] = p.counters[i] + Tally(g)[i]
      BY <1>7, <2>4, TotalsAdd
    <3> DEFINE sum == Plus(p.counters, Tally(g))
    <3> HIDE DEF back, sum
    <3>3. back = sum /\ sum \in Totals /\ \A i \in Dimensions : sum[i] = p.counters[i] + Tally(g)[i]
      BY <3>1, <3>2 DEF sum
    <3>4. ASSUME NEW i \in {"all", k} PROVE back[i] = p.counters[i] + Tally(g)[i]
      BY <2>2, <3>3
    <3>5. QED
      BY <3>3, <3>4
  <2> HIDE DEF back
  <2>6. \A i \in {"all", k} : back[i] = c[i]
    BY <2>2, <2>4, <2>5
  <2>7. counters'[k] = back[k] - Tally(f)[k]
    BY <1>1, <1>4, <2>2, <2>3, <2>5, <2>6, UncountIsExact DEF Totals
  <2>8. counters'[k] = counters[k]
    BY <1>3, <2>2, <2>6, <2>7
  <2>9. QED
    BY <1>1, <1>8, <2>8 DEF Agrees
<1>9. Matched'
  BY <1>1, <1>2, <1>8 DEF LedgerInv, Matched
<1>10. IdsKnown' /\ AggregateSettled'
  BY <1>1 DEF LedgerInv, IdsKnown, AggregateSettled, Settled, UpTo
<1>11. QED
  BY <1>9, <1>10 DEF LedgerInv

\* Steps that touch neither counters nor rows.
LEMMA OthersKeep == LedgerInv /\ Types' /\ (Tick \/ UNCHANGED ledgerVars) => LedgerInv'
<1> SUFFICES ASSUME LedgerInv, Types', Tick \/ UNCHANGED ledgerVars PROVE LedgerInv'
  OBVIOUS
<1>1. UNCHANGED <<counters, lastId, unwritten, rows, aggregate, evicted, unsettled, drifted, late>>
  BY DEF Tick, ledgerVars, memory, database, observers
<1>2. IdsKnown' /\ Matched'
  BY <1>1 DEF LedgerInv, IdsKnown, Matched, Agrees
<1>3. AggregateSettled'
  BY <1>1 DEF LedgerInv, AggregateSettled, Settled, UpTo
<1>4. QED
  BY <1>2, <1>3 DEF LedgerInv

\* Nothing is counted and nothing stored.
LEMMA InitLedger == LedgerInit => LedgerInv
<1> SUFFICES ASSUME LedgerInit PROVE LedgerInv
  OBVIOUS
<1>1. Types
  BY InitTypes
<1>2. /\ counters = Zero /\ evicted = Zero /\ unwritten = <<>> /\ DOMAIN rows = {}
      /\ aggregate = NoAggregate
  BY DEF LedgerInit
<1>3. \A k \in Dimensions : Zero[k] = 0
  BY DEF Zero
<1>4. \A k \in Dimensions : Tally(rows)[k] = 0
  <2>1. IsFiniteSet(DOMAIN rows) /\ Cardinality(DOMAIN rows) = 0
    BY <1>2, FS_EmptySet
  <2>2. Tally(rows) \in Totals /\ \A k \in Dimensions : Tally(rows)[k] <= 0
    BY <2>1, TallyType DEF Totals
  <2>3. QED
    BY <2>2 DEF Totals
<1>5. \A k \in Dimensions : Agrees(counters, rows, unwritten, evicted, k)
  BY <1>2, <1>3, <1>4, NothingWaits DEF Agrees
<1>6. "all" \in Dimensions
  BY DEF Dimensions
<1>7. IdsKnown /\ Matched
  BY <1>2, <1>5, <1>6 DEF IdsKnown, Matched
<1>8. AggregateSettled
  BY <1>2, <1>3, <1>6 DEF AggregateSettled, Settled
<1>9. QED
  BY <1>1, <1>7, <1>8 DEF LedgerInv

\* Every step keeps the invariant.
LEMMA NextLedger == LedgerInv /\ [LedgerNext]_ledgerVars => LedgerInv'
<1> SUFFICES ASSUME LedgerInv, [LedgerNext]_ledgerVars PROVE LedgerInv'
  OBVIOUS
<1>1. Types'
  BY NextTypes DEF LedgerInv
<1>2. Types
  BY DEF LedgerInv
<1>3. ASSUME NEW e \in Events, RecordEvent(e) PROVE LedgerInv'
  BY <1>1, <1>3, RecordKeeps
<1>4. ASSUME NEW e \in Events, Enrich(e) PROVE LedgerInv'
  BY <1>1, <1>4, EnrichKeeps
<1>5. ASSUME NEW details \in Imports, Import(details) PROVE LedgerInv'
  BY <1>1, <1>2, <1>5, ImportsAre, ImportKeeps
<1>6. ASSUME NEW n \in 1..Len(unwritten), WriteFails(n) PROVE LedgerInv'
  BY <1>1, <1>6, WriteFailsKeeps
<1>7. ASSUME NEW n \in 1..Len(unwritten), NEW due \in BOOLEAN, Write(n, due) PROVE LedgerInv'
  BY <1>1, <1>7, WriteKeeps
<1>8. ASSUME NEW details \in Imports, ImportFails(details) PROVE LedgerInv'
  BY <1>1, <1>2, <1>8, ImportsAre, ImportFailsKeeps
<1>9. ASSUME NEW w \in Windows, Configure(w) PROVE LedgerInv'
  BY <1>1, <1>9, ConfigureKeeps
<1>10. Prune \/ PruneFails \/ Restart \/ Crash \/ SwitchDatabase \/ Tick => LedgerInv'
  BY <1>1, PruneKeeps, PruneFailsKeeps, RestartKeeps, CrashKeeps, SwitchKeeps, OthersKeep
<1>11. QED
  BY <1>1, <1>3, <1>4, <1>5, <1>6, <1>7, <1>8, <1>9, <1>10, OthersKeep DEF LedgerNext

\* Every variable of the ledger has its type.
THEOREM LedgerTypes == LedgerSpec => []LedgerTypeOK
<1>1. LedgerInit => Types
  BY InitTypes
<1>2. Types /\ [LedgerNext]_ledgerVars => Types'
  BY NextTypes
<1>3. Types => LedgerTypeOK
  BY DEF Types
<1>4. QED
  BY <1>1, <1>2, <1>3, PTL DEF LedgerSpec

\* The counters are what the rows and the waiting events give, through
\* expiry, imports, failures, restarts, crashes and copies, unless a database
\* was loaded with an aggregate that was not settled.
THEOREM CountersFollowRows == LedgerSpec => []CountersMatchRows
<1>1. LedgerInit => LedgerInv
  BY InitLedger
<1>2. LedgerInv /\ [LedgerNext]_ledgerVars => LedgerInv'
  BY NextLedger
<1>3. LedgerInv => CountersMatchRows
  BY MatchedIs DEF LedgerInv
<1>4. QED
  BY <1>1, <1>2, <1>3, PTL DEF LedgerSpec

-----------------------------------------------------------------------------
(***************************************************************************)
(* Metadata, and rows that an import adds.                                 *)
(***************************************************************************)
\* A later row with the fingerprint of an earlier one was not imported.
OnlyNew(t) ==
  \A i, j \in DOMAIN t :
    i < j /\ t[i].event = t[j].event /\ t[i].print = t[j].print => t[j].live

\* A row has the metadata of the event.
HasRich(t, e) == \E i \in DOMAIN t : t[i].event = e /\ t[i].rich

\* Where the metadata of an event is, or why it is nowhere.
Kept(e, q, t, h, ev) == e \in q \/ HasRich(t, e) \/ Time[e] < h \/ ev["all"] > 0

\* The inductive invariant of metadata and imports.
KeptInv ==
  Types /\ (\A e \in enriched : Kept(e, pending, rows, horizon, evicted)) /\ OnlyNew(rows)

\* The invariant is the two properties.
LEMMA KeptIs == KeptInv <=> Types /\ EnrichmentKept /\ ImportsAreNew
BY DEF KeptInv, EnrichmentKept, ImportsAreNew, Kept, HasRich, OnlyNew

\* Pruning leaves no row that was not there.
LEMMA PrunedNew ==
  ASSUME NEW p, NEW c, NEW t, NEW w, PruneOf(p, c, t, w), OnlyNew(t)
  PROVE  OnlyNew(p.rows)
<1>1. DOMAIN p.rows \subseteq DOMAIN t /\ \A i \in DOMAIN p.rows : p.rows[i] = t[i]
  BY DEF PruneOf
<1>2. QED
  BY <1>1 DEF OnlyNew

\* A row is left, has expired or was evicted.
LEMMA PrunedRich ==
  ASSUME NEW p, NEW c, NEW t, Table(t), NEW w, PruneOf(p, c, t, w), NEW e, HasRich(t, e)
  PROVE  HasRich(p.rows, e) \/ (Old(e, w) /\ p.removed # {}) \/ p.evicted["all"] > 0
<1>1. PICK i \in DOMAIN t : t[i].event = e /\ t[i].rich
  BY DEF HasRich
<1>2. /\ p.over \in SUBSET (DOMAIN t)
      /\ DOMAIN p.rows = DOMAIN t \ (p.removed \cup p.over)
      /\ \A j \in DOMAIN p.rows : p.rows[j] = t[j]
      /\ \A j \in p.removed : Old(t[j].event, w)
      /\ p.evicted["all"] = Cardinality(p.over)
  BY DEF PruneOf
<1>3. CASE i \in p.removed
  BY <1>1, <1>2, <1>3
<1>4. CASE i \in p.over
  <2>1. IsFiniteSet(p.over) /\ p.over # {}
    BY <1>2, <1>4, FS_Subset DEF Table
  <2>2. Cardinality(p.over) \in Nat /\ Cardinality(p.over) # 0
    BY <2>1, FS_CardinalityType, FS_EmptySet
  <2>3. QED
    BY <1>2, <2>2
<1>5. CASE i \notin p.removed /\ i \notin p.over
  <2>1. i \in DOMAIN p.rows /\ p.rows[i] = t[i]
    BY <1>2, <1>5
  <2>2. QED
    BY <1>1, <2>1 DEF HasRich
<1>6. QED
  BY <1>3, <1>4, <1>5

\* Whatever is past a cutoff is before the latest one.
LEMMA OldIsPast ==
  ASSUME Types, NEW e \in Events, NEW w \in Nat, Old(e, w), NEW h \in Int, SweptAt(w) <= h
  PROVE  Time[e] < h
<1>1. Time[e] \in Nat /\ now \in Nat
  BY LedgerAssumption, TypeFacts
<1>2. w > 0 /\ Time[e] < now - w
  BY DEF Old
<1>3. SweptAt(w) = now - w
  BY <1>2 DEF SweptAt
<1>4. QED
  BY <1>1, <1>2, <1>3

\* A step that prunes and saves keeps what was kept before the pruning.
LEMMA MaintainsKept ==
  ASSUME Types, NEW c \in Totals, NEW t, Table(t), NEW ev \in Totals, NEW w \in Nat,
         Maintains(c, t, ev, w), NEW q, pending' = PrunedPending(q, w),
         OnlyNew(t), \A e \in enriched' : e \in Events /\ Kept(e, q, t, horizon, ev)
  PROVE  OnlyNew(rows)' /\ \A e \in enriched' : Kept(e, pending', rows', horizon', evicted')
<1> DEFINE p == Pruned(c, t, w)
<1>1. PruneOf(p, c, t, w)
  BY PrunedIs
<1>2. /\ rows' = p.rows /\ horizon' = Max({horizon, SweptAt(w)})
      /\ evicted' = Plus(ev, p.evicted)
  BY DEF Maintains
<1> HIDE DEF p
<1>3. OnlyNew(p.rows)
  BY <1>1, PrunedNew
<1>4. horizon \in -1..MaxTime /\ now \in 0..MaxTime /\ MaxTime \in Nat
  BY TypeFacts DEF Types, LedgerTypeOK
<1>5. SweptAt(w) \in Int /\ SweptAt(w) <= MaxTime
  BY <1>4, Cutoffs
<1>6. horizon' \in -1..MaxTime /\ SweptAt(w) <= horizon' /\ horizon <= horizon'
  BY <1>2, <1>4, <1>5, HorizonMoves
<1>7. /\ p.evicted["all"] \in Nat /\ ev["all"] \in Nat
      /\ evicted'["all"] = ev["all"] + p.evicted["all"]
  BY <1>1, <1>2, TotalsAdd DEF PruneOf, Totals, Dimensions
<1>8. ASSUME NEW e \in enriched' PROVE Kept(e, pending', rows', horizon', evicted')
  <2>1. e \in Events /\ Time[e] \in Nat /\ Kept(e, q, t, horizon, ev)
    BY LedgerAssumption
  <2>2. Old(e, w) => Time[e] < horizon'
    BY <1>4, <1>6, <2>1, OldIsPast
  <2>3. CASE e \in q
    <3>1. e \in pending' \/ Old(e, w)
      BY <2>3 DEF PrunedPending
    <3>2. QED
      BY <2>2, <3>1 DEF Kept
  <2>4. CASE HasRich(t, e)
    <3>1. HasRich(p.rows, e) \/ Old(e, w) \/ p.evicted["all"] > 0
      BY <1>1, <2>4, PrunedRich
    <3>2. p.evicted["all"] > 0 => evicted'["all"] > 0
      BY <1>7
    <3>3. QED
      BY <1>2, <2>2, <3>1, <3>2 DEF Kept
  <2>5. CASE Time[e] < horizon
    <3>1. Time[e] < horizon'
      BY <1>4, <1>6, <2>1, <2>5
    <3>2. QED
      BY <3>1 DEF Kept
  <2>6. CASE ev["all"] > 0
    <3>1. evicted'["all"] > 0
      BY <1>7, <2>6
    <3>2. QED
      BY <3>1 DEF Kept
  <2>7. QED
    BY <2>1, <2>3, <2>4, <2>5, <2>6 DEF Kept
<1>9. OnlyNew(rows)'
  BY <1>2, <1>3 DEF OnlyNew
<1>10. QED
  BY <1>8, <1>9

\* The timer's maintenance and another window.
LEMMA PruneKeptBy ==
  ASSUME KeptInv, Types', NEW w \in Nat, PruneSQLite(w)
  PROVE  KeptInv'
<1>1. Types /\ counters \in Totals /\ Table(rows) /\ evicted \in Totals
  BY TypeFacts DEF KeptInv
<1>2. /\ Maintains(counters, rows, evicted, w) /\ pending' = PrunedPending(pending, w)
      /\ enriched' = enriched
  BY <1>1, PruneSQLiteIs
<1>3. /\ OnlyNew(rows)
      /\ \A e \in enriched' : e \in Events /\ Kept(e, pending, rows, horizon, evicted)
  BY <1>1, <1>2 DEF KeptInv, Types, LedgerTypeOK
<1>4. OnlyNew(rows)' /\ \A e \in enriched' : Kept(e, pending', rows', horizon', evicted')
  BY <1>1, <1>2, <1>3, MaintainsKept
<1>5. QED
  BY <1>4 DEF KeptInv

\* Details that are fresh are not there, and not twice.
LEMMA ImportedNew ==
  ASSUME Types, NEW details \in Seq(Details), OnlyNew(rows)
  PROVE  OnlyNew(ImportedRows(details))
<1> DEFINE a == Added(details)
           t == ImportedRows(details)
           g == Ranked(Fresh(details))
           m == MaxId(rows)
<1>1. /\ a \in Seq(Rows)
      /\ \A n \in DOMAIN a : /\ g[n] \in Fresh(details) /\ g[n] \in DOMAIN details
                             /\ Source(details, n) \in Details
                             /\ a[n] = Row(Source(details, n).event,
                                           Source(details, n).rich, FALSE)
      /\ \A n, k \in DOMAIN a : g[n] = g[k] => n = k
  BY AddedIs
<1>2. \A n \in DOMAIN a : Source(details, n) = details[g[n]]
  BY DEF Source
<1>3. /\ Table(rows) /\ m \in Nat /\ \A i \in DOMAIN rows : i \in Nat
  BY TypeFacts, LastId DEF Table
<1> HIDE DEF a, g, m
<1>4. t = Appended(rows, a)
  BY DEF ImportedRows, a
<1> HIDE DEF t
<1>5. /\ Table(t) /\ DOMAIN rows \subseteq DOMAIN t
      /\ \A i \in DOMAIN rows : t[i] = rows[i]
      /\ \A j \in DOMAIN a : m + j \in DOMAIN t \ DOMAIN rows /\ t[m + j] = a[j]
      /\ \A i \in DOMAIN t \ DOMAIN rows : i - m \in DOMAIN a
      /\ \A i \in DOMAIN t \ DOMAIN rows : \A k \in DOMAIN rows : k < i
  <2>1. Continues(t, rows, a)
    BY <1>1, <1>3, <1>4, AppendedRows
  <2>2. QED
    BY <2>1 DEF Continues, m
<1>6. \A i \in DOMAIN t : i \in Nat
  BY <1>5 DEF Table
<1>7. ASSUME NEW i \in DOMAIN t \ DOMAIN rows
      PROVE  i - m \in DOMAIN a /\ t[i] = a[i - m]
  <2> DEFINE j == i - m
  <2>1. j \in DOMAIN a /\ m + j = i
    BY <1>3, <1>5, <1>6
  <2> HIDE DEF j
  <2>2. t[m + j] = a[j]
    BY <1>5, <2>1
  <2>3. QED
    BY <2>1, <2>2 DEF j
<1>8. ASSUME NEW n \in DOMAIN a
      PROVE  /\ a[n].event = details[g[n]].event /\ a[n].print = details[g[n]].rich
             /\ details[g[n]] \in Details /\ g[n] \in Fresh(details)
             /\ g[n] \in DOMAIN details /\ g[n] \in Nat
  <2>1. a[n] = Row(details[g[n]].event, details[g[n]].rich, FALSE)
    BY <1>1, <1>2
  <2>2. a[n].event = details[g[n]].event /\ a[n].print = details[g[n]].rich
    BY <2>1 DEF Row
  <2>3. g[n] \in DOMAIN details /\ details[g[n]] \in Details /\ g[n] \in Fresh(details)
    BY <1>1, <1>2
  <2>4. DOMAIN details \subseteq Nat
    OBVIOUS
  <2>5. QED
    BY <2>2, <2>3, <2>4
<1>9. ASSUME NEW i \in DOMAIN t, NEW j \in DOMAIN t, i < j,
             t[i].event = t[j].event, t[i].print = t[j].print
      PROVE  t[j].live
  <2>1. CASE i \in DOMAIN rows /\ j \in DOMAIN rows
    <3>1. t[i] = rows[i] /\ t[j] = rows[j]
      BY <1>5, <2>1
    <3>2. QED
      BY <1>9, <2>1, <3>1 DEF OnlyNew
  <2>2. CASE i \notin DOMAIN rows /\ j \in DOMAIN rows
    <3>1. j < i
      BY <1>5, <2>2
    <3>2. QED
      BY <1>6, <1>9, <3>1
  <2>3. CASE i \in DOMAIN rows /\ j \notin DOMAIN rows
    <3> DEFINE n == j - m
               d == details[g[n]]
    <3>1. n \in DOMAIN a /\ t[j] = a[n] /\ t[i] = rows[i]
      BY <1>5, <1>7, <2>3
    <3> HIDE DEF n
    <3>2. rows[i].event = d.event /\ rows[i].print = d.rich /\ g[n] \in Fresh(details)
      BY <1>8, <1>9, <3>1
    <3> HIDE DEF d
    <3>3. ~Old(d.event, window) /\ ~Stored(rows, d)
      BY <3>2 DEF Fresh, d
    <3>4. Stored(rows, d)
      BY <2>3, <3>2, <3>3 DEF Stored
    <3>5. QED
      BY <3>3, <3>4
  <2>4. CASE i \notin DOMAIN rows /\ j \notin DOMAIN rows
    <3> DEFINE n == i - m
               k == j - m
               d == details[g[n]]
               b == details[g[k]]
    <3>1. n \in DOMAIN a /\ k \in DOMAIN a /\ t[i] = a[n] /\ t[j] = a[k]
      BY <1>7, <2>4
    <3>2. n # k
      BY <1>3, <1>6, <1>9
    <3> HIDE DEF n, k
    <3>3. g[n] # g[k]
      BY <1>1, <3>1, <3>2
    <3>4. /\ d.event = b.event /\ d.rich = b.rich /\ d \in Details /\ b \in Details
      BY <1>8, <1>9, <3>1
    <3>5. d = b
      BY <3>4 DEF Details
    <3>6. g[n] < g[k] \/ g[k] < g[n]
      BY <1>8, <3>1, <3>3
    <3>7. /\ \A x \in 1..(g[n] - 1) : details[x] # d
          /\ \A x \in 1..(g[k] - 1) : details[x] # b
      BY <1>8, <3>1 DEF Fresh
    <3>8. g[n] \in Nat \ {0} /\ g[k] \in Nat \ {0}
      BY <1>8, <3>1
    <3>9. CASE g[n] < g[k]
      <4>1. g[n] \in 1..(g[k] - 1)
        BY <3>8, <3>9
      <4>2. QED
        BY <3>5, <3>7, <4>1
    <3>10. CASE g[k] < g[n]
      <4>1. g[k] \in 1..(g[n] - 1)
        BY <3>8, <3>10
      <4>2. QED
        BY <3>5, <3>7, <4>1
    <3>11. QED
      BY <3>6, <3>9, <3>10
  <2>5. QED
    BY <2>1, <2>2, <2>3, <2>4
<1>10. OnlyNew(t)
  BY <1>9 DEF OnlyNew
<1>11. QED
  BY <1>10 DEF t

\* An added row takes the metadata that waited for it.
LEMMA ConsumedIsRich ==
  ASSUME Types, NEW details \in Seq(Details), NEW e \in Consumed(details)
  PROVE  HasRich(ImportedRows(details), e)
<1> DEFINE a == Added(details)
<1>1. Table(rows) /\ a \in Seq(Rows)
  BY TypeFacts, AddedIs
<1>2. /\ e \in pending /\ \E r \in {x \in ToSet(a) : ~x.print} : r.event = e
  BY DEF Consumed
<1>3. PICK n \in DOMAIN a : a[n].event = e
  BY <1>2 DEF ToSet
<1>4. a[n] = Row(Source(details, n).event, Source(details, n).rich, FALSE)
  BY <1>3, AddedIs
<1>5. a[n].event = Source(details, n).event
      /\ a[n].rich = (Source(details, n).rich \/ Source(details, n).event \in pending)
  BY <1>4 DEF Row
<1>6. a[n].rich
  BY <1>2, <1>3, <1>5
<1> HIDE DEF a
<1>7. /\ MaxId(rows) + n \in DOMAIN Appended(rows, a)
      /\ Appended(rows, a)[MaxId(rows) + n] = a[n]
  <2>1. Continues(Appended(rows, a), rows, a)
    BY <1>1, AppendedRows
  <2>2. QED
    BY <1>3, <2>1 DEF Continues
<1>8. ImportedRows(details) = Appended(rows, a)
  BY DEF ImportedRows, a
<1>9. QED
  BY <1>3, <1>6, <1>7, <1>8 DEF HasRich

\* An import.
LEMMA ImportKeepsKept ==
  ASSUME KeptInv, Types', NEW details \in Seq(Details), Import(details)
  PROVE  KeptInv'
<1> DEFINE c == ImportedCounters(details)
           t == ImportedRows(details)
           q == pending \ Consumed(details)
<1>1. Types /\ Table(rows) /\ evicted \in Totals /\ window \in Nat
  BY TypeFacts DEF KeptInv
<1>2. /\ Maintains(c, t, evicted, window) /\ pending' = PrunedPending(q, window)
      /\ enriched' = enriched
  BY ImportAssigns
<1>3. Table(t) /\ c \in Totals
  BY <1>1, ImportedIs
<1>4. OnlyNew(t)
  BY <1>1, ImportedNew DEF KeptInv
<1>5. ASSUME NEW e \in enriched' PROVE e \in Events /\ Kept(e, q, t, horizon, evicted)
  <2>1. e \in Events /\ Kept(e, pending, rows, horizon, evicted)
    BY <1>1, <1>2 DEF KeptInv, Types, LedgerTypeOK
  <2>2. CASE e \in pending
    <3>1. CASE e \in Consumed(details)
      BY <1>1, <2>1, <3>1, ConsumedIsRich DEF Kept
    <3>2. CASE e \notin Consumed(details)
      BY <2>1, <2>2, <3>2 DEF Kept
    <3>3. QED
      BY <3>1, <3>2
  <2>3. CASE HasRich(rows, e)
    <3>1. DOMAIN rows \subseteq DOMAIN t /\ \A i \in DOMAIN rows : t[i] = rows[i]
      BY <1>1, AddedIs, AppendedRows DEF ImportedRows, Continues
    <3>2. HasRich(t, e)
      BY <2>3, <3>1 DEF HasRich
    <3>3. QED
      BY <2>1, <3>2 DEF Kept
  <2>4. QED
    BY <2>1, <2>2, <2>3 DEF Kept
<1> HIDE DEF c, t, q
<1>6. OnlyNew(rows)' /\ \A e \in enriched' : Kept(e, pending', rows', horizon', evicted')
  BY <1>1, <1>2, <1>3, <1>4, <1>5, MaintainsKept
<1>7. QED
  BY <1>6 DEF KeptInv

\* A load of a table with the same metadata.
LEMMA LoadKeepsKept ==
  ASSUME KeptInv, Types', NEW t, Table(t), NEW a \in Aggregates \cup {NoAggregate}, Load(t, a),
         OnlyNew(t), \A e : HasRich(rows, e) => HasRich(t, e)
  PROVE  KeptInv'
<1> DEFINE c == Loaded(t, a)
           ev == Reloaded
<1>1. Types /\ window \in Nat
  BY TypeFacts DEF KeptInv
<1>2. /\ Maintains(c, t, ev, window) /\ pending' = PrunedPending(pending, window)
      /\ enriched' = enriched
  BY LoadAssigns
<1>3. c \in Totals /\ ev \in Totals /\ ev["all"] = evicted["all"]
  BY <1>1, LoadedIs
<1> HIDE DEF c, ev
<1>4. ASSUME NEW e \in enriched' PROVE e \in Events /\ Kept(e, pending, t, horizon, ev)
  <2>1. e \in Events /\ Kept(e, pending, rows, horizon, evicted)
    BY <1>1, <1>2 DEF KeptInv, Types, LedgerTypeOK
  <2>2. Kept(e, pending, t, horizon, ev)
    BY <1>3, <2>1 DEF Kept
  <2>3. QED
    BY <2>1, <2>2
<1>5. OnlyNew(rows)' /\ \A e \in enriched' : Kept(e, pending', rows', horizon', evicted')
  BY <1>1, <1>2, <1>3, <1>4, MaintainsKept
<1>6. QED
  BY <1>5 DEF KeptInv

\* A copy keeps the order of the rows and their metadata.
LEMMA RenumberedKept ==
  ASSUME Types, OnlyNew(rows)
  PROVE  OnlyNew(Renumbered) /\ \A e : HasRich(rows, e) => HasRich(Renumbered, e)
<1> DEFINE g == Ranked(DOMAIN rows)
           D == DOMAIN Renumbered
<1>1. /\ g \in Bijection(D, DOMAIN rows) /\ D \subseteq Nat
      /\ \A n, m \in D : n < m => g[n] < g[m]
      /\ \A n \in D : g[n] \in DOMAIN rows /\ Renumbered[n] = rows[g[n]]
  <2>1. /\ g \in Bijection(D, DOMAIN rows) /\ Table(Renumbered)
        /\ \A n, m \in D : n < m => g[n] < g[m]
        /\ \A n \in D : g[n] \in DOMAIN rows /\ Renumbered[n] = rows[g[n]]
    BY RenumberedIs
  <2>2. D \subseteq Nat
    BY <2>1 DEF Table
  <2>3. QED
    BY <2>1, <2>2
<1> HIDE DEF g, D
<1>2. ASSUME NEW n \in D, NEW m \in D, n < m,
             Renumbered[n].event = Renumbered[m].event,
             Renumbered[n].print = Renumbered[m].print
      PROVE  Renumbered[m].live
  <2>1. /\ g[n] < g[m] /\ g[n] \in DOMAIN rows /\ g[m] \in DOMAIN rows
        /\ Renumbered[n] = rows[g[n]] /\ Renumbered[m] = rows[g[m]]
    BY <1>1, <1>2
  <2>2. QED
    BY <1>2, <2>1 DEF OnlyNew
<1>3. ASSUME NEW e, HasRich(rows, e) PROVE HasRich(Renumbered, e)
  <2>1. PICK i \in DOMAIN rows : rows[i].event = e /\ rows[i].rich
    BY <1>3 DEF HasRich
  <2>2. PICK n \in D : g[n] = i
    BY <1>1, <2>1 DEF Bijection, Surjection
  <2>3. Renumbered[n] = rows[i]
    BY <1>1, <2>2
  <2>4. QED
    BY <2>1, <2>3 DEF HasRich, D
<1>4. QED
  BY <1>2, <1>3 DEF OnlyNew, D

\* The next process, after a stop or a crash, and another database.
LEMMA StartKeepsKept ==
  KeptInv /\ Types' /\ (Restart \/ Crash \/ SwitchDatabase) => KeptInv'
<1> SUFFICES ASSUME KeptInv, Types', Restart \/ Crash \/ SwitchDatabase PROVE KeptInv'
  OBVIOUS
<1>1. /\ Types /\ OnlyNew(rows)
      /\ Table(rows) /\ Table(Renumbered) /\ aggregate \in Aggregates \cup {NoAggregate}
      /\ Final \in Aggregates
  <2>1. Types /\ OnlyNew(rows)
    BY DEF KeptInv
  <2>2. Table(rows) /\ Table(Renumbered) /\ counters["all"] \in Nat
    BY <2>1, TypeFacts, RenumberedIs
  <2>3. QED
    BY <2>1, <2>2 DEF Types, LedgerTypeOK, Aggregates, Final
<1>2. CASE Restart
  <2>1. Load(rows, Final)
    BY <1>2 DEF Restart, Final
  <2>2. QED
    BY <1>1, <2>1, LoadKeepsKept
<1>3. CASE Crash
  <2>1. Load(rows, aggregate)
    BY <1>3 DEF Crash
  <2>2. QED
    BY <1>1, <2>1, LoadKeepsKept
<1>4. CASE SwitchDatabase
  <2>1. Load(Renumbered, aggregate)
    BY <1>4 DEF SwitchDatabase
  <2>2. OnlyNew(Renumbered) /\ \A e : HasRich(rows, e) => HasRich(Renumbered, e)
    BY <1>1, RenumberedKept
  <2>3. QED
    BY <1>1, <2>1, <2>2, LoadKeepsKept
<1>5. QED
  BY <1>2, <1>3, <1>4

\* Metadata enters a row or waits for one.
LEMMA EnrichKeepsKept ==
  ASSUME KeptInv, Types', NEW e \in Events, Enrich(e)
  PROVE  KeptInv'
<1>1. /\ Types /\ enriched' = enriched \cup {e} /\ UNCHANGED <<horizon, evicted>>
  BY DEF KeptInv, Enrich
<1>2. CASE RowsOf(e) = {}
  <2>1. pending' = pending \cup {e} /\ rows' = rows
    BY <1>2 DEF Enrich
  <2>2. \A x \in enriched' : Kept(x, pending', rows', horizon', evicted')
    BY <1>1, <2>1 DEF KeptInv, Kept
  <2>3. OnlyNew(rows)'
    BY <2>1 DEF KeptInv, OnlyNew
  <2>4. QED
    BY <2>2, <2>3 DEF KeptInv
<1>3. CASE RowsOf(e) # {}
  <2> DEFINE i == Max(RowsOf(e))
             r == [rows[i] EXCEPT !.rich = TRUE]
  <2>1. i \in DOMAIN rows /\ rows[i] \in Rows /\ rows[i].event = e
    BY <1>1, <1>3, RowFound
  <2>2. rows' = [rows EXCEPT ![i].rich = TRUE] /\ pending' = pending
    BY <1>3 DEF Enrich
  <2>3. /\ rows' = [rows EXCEPT ![i] = r] /\ DOMAIN rows' = DOMAIN rows
        /\ r.rich /\ r.event = rows[i].event /\ r.print = rows[i].print
        /\ r.live = rows[i].live
    BY <2>1, <2>2 DEF Rows
  <2> HIDE DEF i, r
  <2>4. rows'[i] = r /\ \A j \in DOMAIN rows : j # i => rows'[j] = rows[j]
    BY <2>1, <2>3
  <2>5. \A j \in DOMAIN rows : /\ rows'[j].event = rows[j].event
                               /\ rows'[j].print = rows[j].print
                               /\ rows'[j].live = rows[j].live
    BY <2>3, <2>4
  <2>6. OnlyNew(rows)'
    BY <2>3, <2>5 DEF KeptInv, OnlyNew
  <2>7. HasRich(rows', e)
    BY <2>1, <2>3, <2>4 DEF HasRich
  <2>8. ASSUME NEW x, HasRich(rows, x) PROVE HasRich(rows', x)
    <3>1. PICK j \in DOMAIN rows : rows[j].event = x /\ rows[j].rich
      BY <2>8 DEF HasRich
    <3>2. CASE j = i
      BY <2>1, <2>7, <3>1, <3>2
    <3>3. CASE j # i
      <4>1. rows'[j] = rows[j] /\ j \in DOMAIN rows'
        BY <2>3, <2>4, <3>3
      <4>2. QED
        BY <3>1, <4>1 DEF HasRich
    <3>4. QED
      BY <3>2, <3>3
  <2>9. \A x \in enriched' : Kept(x, pending', rows', horizon', evicted')
    BY <1>1, <2>2, <2>7, <2>8 DEF KeptInv, Kept
  <2>10. QED
    BY <2>6, <2>9 DEF KeptInv
<1>4. QED
  BY <1>2, <1>3

\* The rows of a batch are recorded ones, and take the metadata that waited.
LEMMA BatchKept ==
  ASSUME Types, OnlyNew(rows), NEW n \in 1..Len(unwritten)
  PROVE  /\ OnlyNew(WithBatch(n))
         /\ \A e : HasRich(rows, e) => HasRich(WithBatch(n), e)
         /\ \A e \in pending \cap ToSet(Batch(n)) : HasRich(WithBatch(n), e)
<1> DEFINE t == WithBatch(n)
           a == NewRows(n)
           m == MaxId(rows)
<1>1. Table(rows) /\ a \in Seq(Rows) /\ t = Appended(rows, a) /\ Table(t)
  BY TypeFacts, BatchRows
<1>2. DOMAIN a = 1..n /\ \A j \in 1..n : a[j] = Row(unwritten[j], FALSE, TRUE)
  BY DEF NewRows
<1>3. m \in Nat
  BY <1>1, LastId DEF Table
<1> HIDE DEF t, a
<1>4. Continues(t, rows, a)
  BY <1>1, AppendedRows
<1>5. DOMAIN rows \subseteq DOMAIN t /\ \A i \in DOMAIN rows : t[i] = rows[i]
  BY <1>4 DEF Continues
<1>6. \A j \in DOMAIN a : m + j \in DOMAIN t /\ t[m + j] = a[j]
  BY <1>4 DEF Continues, m
<1>7. \A i \in DOMAIN t \ DOMAIN rows : i - m \in DOMAIN a
  BY <1>4 DEF Continues, m
<1>8. \A i \in DOMAIN t \ DOMAIN rows : \A k \in DOMAIN rows : k < i
  BY <1>4 DEF Continues
<1> HIDE DEF m
<1>9. \A i \in DOMAIN t : i \in Nat
  BY <1>1 DEF Table
<1>10. ASSUME NEW j \in DOMAIN t \ DOMAIN rows PROVE t[j].live
  <2> DEFINE k == j - m
  <2>1. k \in DOMAIN a /\ m + k = j
    BY <1>3, <1>7, <1>9
  <2> HIDE DEF k
  <2>2. t[j] = Row(unwritten[k], FALSE, TRUE)
    BY <1>2, <1>6, <2>1
  <2>3. QED
    BY <2>2 DEF Row
<1>11. ASSUME NEW i \in DOMAIN t, NEW j \in DOMAIN t, i < j,
              t[i].event = t[j].event, t[i].print = t[j].print
       PROVE  t[j].live
  <2>1. CASE j \notin DOMAIN rows
    BY <1>10, <2>1
  <2>2. CASE j \in DOMAIN rows
    <3>1. i \in DOMAIN rows
      <4>1. i \notin DOMAIN rows => j < i
        BY <1>8, <2>2
      <4>2. QED
        BY <1>9, <1>11, <4>1
    <3>2. t[i] = rows[i] /\ t[j] = rows[j]
      BY <1>5, <2>2, <3>1
    <3>3. QED
      BY <1>11, <2>2, <3>1, <3>2 DEF OnlyNew
  <2>3. QED
    BY <2>1, <2>2
<1>12. ASSUME NEW e, HasRich(rows, e) PROVE HasRich(t, e)
  BY <1>5, <1>12 DEF HasRich
<1>13. ASSUME NEW e \in pending \cap ToSet(Batch(n)) PROVE HasRich(t, e)
  <2>1. unwritten \in Seq(Events)
    BY DEF Types, LedgerTypeOK
  <2>2. PICK j \in 1..n : unwritten[j] = e
    <3>1. DOMAIN Batch(n) = 1..n /\ \A j \in 1..n : Batch(n)[j] = unwritten[j]
      BY <2>1 DEF Batch
    <3>2. PICK j \in DOMAIN Batch(n) : Batch(n)[j] = e
      BY DEF ToSet
    <3>3. QED
      BY <3>1, <3>2
  <2>3. t[m + j] = Row(e, FALSE, TRUE) /\ m + j \in DOMAIN t
    BY <1>2, <1>6, <2>2
  <2>4. t[m + j].event = e /\ t[m + j].rich = (FALSE \/ e \in pending)
    BY <2>3 DEF Row
  <2>5. t[m + j].rich
    BY <1>13, <2>4
  <2>6. QED
    BY <2>3, <2>4, <2>5 DEF HasRich
<1>14. QED
  BY <1>11, <1>12, <1>13 DEF OnlyNew, t

\* A batch: its rows enter, and what it prunes is past a cutoff it moves to.
LEMMA WriteKeepsKept ==
  ASSUME KeptInv, Types', NEW n \in 1..Len(unwritten), NEW due \in BOOLEAN, Write(n, due)
  PROVE  KeptInv'
<1> DEFINE p == BatchPruned(n)
           t == WithBatch(n)
           b == ToSet(Batch(n))
           q == IF RetentionDue THEN PrunedPending(pending, window) ELSE pending
<1>1. /\ rows' = p.rows /\ pending' = q \ b /\ evicted' = Plus(evicted, p.evicted)
      /\ swept' = (IF RetentionDue THEN SweptAt(window) ELSE swept)
      /\ horizon' = Max({horizon, swept'}) /\ enriched' = enriched
  BY DEF Write
<1>2. /\ Types /\ OnlyNew(rows) /\ evicted \in Totals /\ window \in Nat
      /\ Table(t) /\ PruneOf(p, counters, t, window)
      /\ p.removed # {} => RetentionDue
  BY TypeFacts, BatchRows, BatchPrunedIs DEF KeptInv
<1>3. /\ OnlyNew(t) /\ \A e : HasRich(rows, e) => HasRich(t, e)
      /\ \A e \in pending \cap b : HasRich(t, e)
  BY <1>2, BatchKept
<1>4. \A e \in pending : e \in q \/ (RetentionDue /\ Old(e, window))
  BY DEF PrunedPending
<1> HIDE DEF p, t, q, b
<1>5. OnlyNew(rows)'
  <2>1. OnlyNew(p.rows)
    BY <1>2, <1>3, PrunedNew
  <2>2. QED
    BY <1>1, <2>1 DEF OnlyNew
<1>6. /\ horizon' \in Int /\ horizon \in Int /\ horizon <= horizon'
      /\ RetentionDue => SweptAt(window) <= horizon'
  <2>1. /\ now \in 0..MaxTime /\ horizon \in -1..MaxTime /\ swept \in Int
        /\ swept <= horizon /\ MaxTime \in Nat
    BY <1>2, TypeFacts DEF Types, LedgerTypeOK
  <2>2. SweptAt(window) \in Int /\ SweptAt(window) <= MaxTime
    BY <1>2, <2>1, Cutoffs
  <2>3. swept' \in Int /\ swept' <= MaxTime
    BY <1>1, <2>1, <2>2
  <2>4. horizon' \in -1..MaxTime /\ swept' <= horizon' /\ horizon <= horizon'
    BY <1>1, <2>1, <2>3, HorizonMoves
  <2>5. QED
    BY <1>1, <2>1, <2>4
<1>7. /\ p.evicted["all"] \in Nat /\ evicted["all"] \in Nat
      /\ evicted'["all"] = evicted["all"] + p.evicted["all"]
  BY <1>1, <1>2, TotalsAdd DEF PruneOf, Totals, Dimensions
<1>8. ASSUME NEW e \in enriched' PROVE Kept(e, pending', rows', horizon', evicted')
  <2>1. e \in Events /\ Time[e] \in Nat /\ Kept(e, pending, rows, horizon, evicted)
    BY <1>1, <1>2, LedgerAssumption DEF KeptInv, Types, LedgerTypeOK
  <2>2. RetentionDue /\ Old(e, window) => Time[e] < horizon'
    BY <1>2, <1>6, <2>1, OldIsPast
  <2>3. ASSUME HasRich(t, e) PROVE Kept(e, pending', rows', horizon', evicted')
    <3>1. HasRich(p.rows, e) \/ (RetentionDue /\ Old(e, window)) \/ p.evicted["all"] > 0
      BY <1>2, <2>3, PrunedRich
    <3>2. p.evicted["all"] > 0 => evicted'["all"] > 0
      BY <1>7
    <3>3. QED
      BY <1>1, <2>2, <3>1, <3>2 DEF Kept
  <2>4. CASE e \in pending
    <3>1. CASE e \in b
      BY <1>3, <2>3, <2>4, <3>1
    <3>2. CASE e \notin b
      BY <1>1, <1>4, <2>2, <2>4, <3>2 DEF Kept
    <3>3. QED
      BY <3>1, <3>2
  <2>5. CASE HasRich(rows, e)
    BY <1>3, <2>3, <2>5
  <2>6. CASE Time[e] < horizon
    <3>1. Time[e] < horizon'
      BY <1>6, <2>1, <2>6
    <3>2. QED
      BY <3>1 DEF Kept
  <2>7. CASE evicted["all"] > 0
    <3>1. evicted'["all"] > 0
      BY <1>7, <2>7
    <3>2. QED
      BY <3>1 DEF Kept
  <2>8. QED
    BY <2>1, <2>4, <2>5, <2>6, <2>7 DEF Kept
<1>9. QED
  BY <1>5, <1>8 DEF KeptInv

\* Steps that touch neither rows nor metadata.
LEMMA SameKept ==
  ASSUME KeptInv, Types', UNCHANGED <<rows, pending, enriched, horizon, evicted>>
  PROVE  KeptInv'
BY DEF KeptInv, Kept, HasRich, OnlyNew

\* Nothing is stored and nothing enriched.
LEMMA InitKept == LedgerInit => KeptInv
<1> SUFFICES ASSUME LedgerInit PROVE KeptInv
  OBVIOUS
<1>1. Types
  BY InitTypes
<1>2. enriched = {} /\ DOMAIN rows = {}
  BY DEF LedgerInit
<1>3. QED
  BY <1>1, <1>2 DEF KeptInv, OnlyNew

\* Every step keeps metadata and adds no row twice.
LEMMA NextKept == KeptInv /\ [LedgerNext]_ledgerVars => KeptInv'
<1> SUFFICES ASSUME KeptInv, [LedgerNext]_ledgerVars PROVE KeptInv'
  OBVIOUS
<1>1. Types /\ Types'
  BY NextTypes DEF KeptInv
<1>2. ASSUME NEW e \in Events, RecordEvent(e) PROVE KeptInv'
  <2>1. UNCHANGED <<rows, pending, enriched, horizon, evicted>>
    BY <1>2 DEF RecordEvent, database
  <2>2. QED
    BY <1>1, <2>1, SameKept
<1>3. ASSUME NEW e \in Events, Enrich(e) PROVE KeptInv'
  BY <1>1, <1>3, EnrichKeepsKept
<1>4. ASSUME NEW details \in Imports, Import(details) PROVE KeptInv'
  BY <1>1, <1>4, ImportsAre, ImportKeepsKept
<1>5. ASSUME NEW n \in 1..Len(unwritten), WriteFails(n) PROVE KeptInv'
  <2>1. UNCHANGED <<rows, pending, enriched, horizon, evicted>>
    BY <1>5 DEF WriteFails, database
  <2>2. QED
    BY <1>1, <2>1, SameKept
<1>6. ASSUME NEW n \in 1..Len(unwritten), NEW due \in BOOLEAN, Write(n, due) PROVE KeptInv'
  BY <1>1, <1>6, WriteKeepsKept
<1>7. ASSUME NEW details \in Imports, ImportFails(details) PROVE KeptInv'
  <2>1. UNCHANGED <<rows, pending, enriched, horizon, evicted>>
    BY <1>7 DEF ImportFails, database, observers
  <2>2. QED
    BY <1>1, <2>1, SameKept
<1>8. ASSUME NEW w \in Windows, Configure(w) PROVE KeptInv'
  <2>1. PruneSQLite(w) /\ w \in Nat
    BY <1>8, LedgerAssumption DEF Configure
  <2>2. QED
    BY <1>1, <2>1, PruneKeptBy
<1>9. Prune => KeptInv'
  <2>1. window \in Nat
    BY <1>1, TypeFacts
  <2>2. QED
    BY <1>1, <2>1, PruneKeptBy DEF Prune
<1>10. PruneFails \/ Tick \/ UNCHANGED ledgerVars => KeptInv'
  <2>1. PruneFails \/ Tick \/ UNCHANGED ledgerVars
          => UNCHANGED <<rows, pending, enriched, horizon, evicted>>
    BY DEF PruneFails, Tick, ledgerVars, database, observers
  <2>2. QED
    BY <1>1, <2>1, SameKept
<1>11. QED
  BY <1>1, <1>2, <1>3, <1>4, <1>5, <1>6, <1>7, <1>8, <1>9, <1>10, StartKeepsKept DEF LedgerNext

\* Metadata reaches a row of its event, waits for one, or its event is gone,
\* whatever expires, fails, crashes or is copied in between.
THEOREM MetadataKept == LedgerSpec => []EnrichmentKept
<1>1. LedgerInit => KeptInv
  BY InitKept
<1>2. KeptInv /\ [LedgerNext]_ledgerVars => KeptInv'
  BY NextKept
<1>3. KeptInv => EnrichmentKept
  BY KeptIs
<1>4. QED
  BY <1>1, <1>2, <1>3, PTL DEF LedgerSpec

\* No import adds a row whose fingerprint is there, whatever was deleted,
\* enriched, copied or imported before.
THEOREM ImportsAddNew == LedgerSpec => []ImportsAreNew
<1>1. LedgerInit => KeptInv
  BY InitKept
<1>2. KeptInv /\ [LedgerNext]_ledgerVars => KeptInv'
  BY NextKept
<1>3. KeptInv => ImportsAreNew
  BY KeptIs
<1>4. QED
  BY <1>1, <1>2, <1>3, PTL DEF LedgerSpec
=============================================================================
