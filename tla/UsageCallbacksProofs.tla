------------------------ MODULE UsageCallbacksProofs ------------------------
(***************************************************************************)
(* What holds of the deferred callback queue for every set of callbacks,   *)
(* every pair of bounds and every number of drain() callers.               *)
(***************************************************************************)
EXTENDS UsageCallbacks, TLAPS

(***************************************************************************)
(* Facts about sequences used below.                                       *)
(***************************************************************************)

\* Moving the head of a queue to the end of what was taken from it keeps the
\* whole sequence.
LEMMA MoveHead ==
  ASSUME NEW S, NEW q \in Seq(S), NEW r \in Seq(S), q # <<>>
  PROVE  /\ Head(q) \in S
         /\ Tail(q) \in Seq(S)
         /\ Len(Tail(q)) = Len(q) - 1
         /\ r \o q = Append(r, Head(q)) \o Tail(q)
  OBVIOUS

\* Appending to the second of two concatenated sequences appends to the whole.
LEMMA AppendToTail ==
  ASSUME NEW S, NEW q \in Seq(S), NEW r \in Seq(S), NEW t \in S
  PROVE  Append(r \o q, t) = r \o Append(q, t)
  OBVIOUS

\* A queue that was appended to is not empty and is one longer.
LEMMA AppendGrows ==
  ASSUME NEW S, NEW q \in Seq(S), NEW t \in S
  PROVE  Append(q, t) # <<>> /\ Len(Append(q, t)) = Len(q) + 1
<1>1. Len(Append(q, t)) = Len(q) + 1 /\ Len(q) \in Nat
  OBVIOUS
<1>2. Append(q, t) = <<>> => Len(Append(q, t)) = 0
  OBVIOUS
<1>3. QED
  BY <1>1, <1>2

(***************************************************************************)
(* The types the code gives the variables.  Nothing here limits the queue, *)
(* and the byte counter may be negative: that it is not follows from what  *)
(* it counts, at the end of this module.                                   *)
(***************************************************************************)
Types ==
  /\ queue \in Seq(Tasks)
  /\ queuedBytes \in Int
  /\ active \in BOOLEAN
  /\ stopping \in BOOLEAN
  /\ waiting \subseteq Drainers \cup {Worker}
  /\ workerPC \in {"loop", "run", "exited"}
  /\ drainPC \in [Drainers -> {"idle", "check", "returned"}]
  /\ shutdownPC \in {"idle", "await", "returned"}
  /\ hasStore \in BOOLEAN
  /\ callback \in [Tasks -> CallbackStates]
  /\ drops \in Nat
  /\ accepted \in Seq(Tasks)
  /\ ran \in Seq(Tasks)
  /\ drainTarget \in [Drainers -> Nat]

\* The queue is created with every variable of its type.
LEMMA InitTypes == Init => Types
<1> SUFFICES ASSUME Init PROVE Types
  OBVIOUS
<1>1. queue \in Seq(Tasks) /\ accepted \in Seq(Tasks) /\ ran \in Seq(Tasks)
  BY DEF Init
<1>2. /\ callback \in [Tasks -> CallbackStates]
      /\ drainPC \in [Drainers -> {"idle", "check", "returned"}]
      /\ drainTarget \in [Drainers -> Nat]
  BY DEF Init, CallbackStates
<1>3. active \in BOOLEAN /\ stopping \in BOOLEAN /\ hasStore \in BOOLEAN
  BY Zenon DEF Init
<1>4. /\ queuedBytes \in Int /\ drops \in Nat
      /\ waiting \subseteq Drainers \cup {Worker}
      /\ workerPC \in {"loop", "run", "exited"}
      /\ shutdownPC \in {"idle", "await", "returned"}
  BY DEF Init
<1>5. QED
  BY <1>1, <1>2, <1>3, <1>4, Zenon DEF Types

\* Every step of a callback, of the worker, of drain() and of shutdown() keeps
\* every variable in its type.
LEMMA NextTypes == Types /\ [Next]_vars => Types'
<1> USE QueueAssumption
<1> SUFFICES ASSUME Types, [Next]_vars PROVE Types'
  OBVIOUS
<1>1. CASE SwitchStore
  BY <1>1 DEF Types, SwitchStore
<1>2. ASSUME NEW t \in Tasks, HostCallback(t) PROVE Types'
  <2>1. CASE HasEventStore(t)
    BY <2>1 DEF Types, HasEventStore, CallbackStates
  <2>2. CASE RunSync(t)
    BY <2>2 DEF Types, RunSync, CallbackStates
  <2>3. CASE Enqueue(t)
    BY <2>3 DEF Types, Enqueue, Queued, Signal, CallbackStates
  <2>4. CASE Drop(t)
    BY <2>4 DEF Types, Drop, CallbackStates
  <2>5. QED
    BY <1>2, <2>1, <2>2, <2>3, <2>4 DEF HostCallback
<1>3. CASE WorkerStep
  <2>1. CASE Park
    BY <2>1 DEF Types, Park
  <2>2. CASE Take
    <3>1. Head(queue) \in Tasks /\ Tail(queue) \in Seq(Tasks)
      BY <2>2, MoveHead DEF Types, Take
    <3>2. QED
      BY <2>2, <3>1 DEF Types, Take, BytesAfterTake, Broadcast
  <2>3. CASE Finish
    BY <2>3 DEF Types, Finish, Broadcast
  <2>4. CASE Exit
    BY <2>4 DEF Types, Exit
  <2>5. QED
    BY <1>3, <2>1, <2>2, <2>3, <2>4 DEF WorkerStep
<1>4. ASSUME NEW d \in Drainers, DrainCall(d) \/ DrainStep(d) PROVE Types'
  <2>1. CASE DrainCall(d)
    BY <2>1 DEF Types, DrainCall
  <2>2. CASE DrainWait(d)
    BY <2>2 DEF Types, DrainWait
  <2>3. CASE DrainReturn(d)
    BY <2>3 DEF Types, DrainReturn
  <2>4. QED
    BY <1>4, <2>1, <2>2, <2>3 DEF DrainStep
<1>5. CASE ShutdownCall
  BY <1>5 DEF Types, ShutdownCall, Broadcast
<1>6. CASE ShutdownReturn
  BY <1>6 DEF Types, ShutdownReturn
<1>7. CASE UNCHANGED vars
  BY <1>7 DEF Types, vars
<1>8. QED
  BY <1>1, <1>2, <1>3, <1>4, <1>5, <1>6, <1>7 DEF Next

-----------------------------------------------------------------------------
(***************************************************************************)
(* The inductive invariant.  `active` mirrors the worker's position, the   *)
(* worker sleeps only at its loop head, it exits only when stopping with   *)
(* an empty queue, and a drain() call never looks beyond what was accepted.*)
(***************************************************************************)
\* The worker takes tasks exactly in the order they were accepted: none is
\* skipped, run twice or left behind.
AcceptedInOrder == accepted = ran \o queue

ControlInv ==
  /\ active => workerPC = "run"
  /\ workerPC = "run" => active
  /\ Worker \in waiting => workerPC = "loop"
  /\ workerPC = "exited" => stopping /\ queue = <<>>
  /\ shutdownPC = "returned" => workerPC = "exited"
  /\ \A d \in Drainers : drainTarget[d] <= Len(accepted)

IInv ==
  /\ Types
  /\ ControlInv
  /\ Bounded
  /\ NoLostWakeup
  /\ AcceptedInOrder
  /\ DrainCovers

\* The queue is created in a state of the inductive invariant.
LEMMA InitIInv == Init => IInv
<1> USE QueueAssumption
<1> SUFFICES ASSUME Init PROVE IInv
  OBVIOUS
<1>1. Types
  BY InitTypes
<1>2. ControlInv
  BY DEF Init, ControlInv
<1>3. Bounded /\ NoLostWakeup /\ AcceptedInOrder /\ DrainCovers
  BY DEF Init, Bounded, NoLostWakeup, AcceptedInOrder, DrainCovers
<1>4. QED
  BY <1>1, <1>2, <1>3 DEF IInv

\* Steps that touch neither the queue, the wait list nor any position that the
\* invariant speaks of.
LEMMA QuietStep ==
  ASSUME IInv,
         UNCHANGED <<queue, queuedBytes, active, stopping, waiting, workerPC,
                     drainPC, shutdownPC, accepted, ran, drainTarget>>
  PROVE  /\ ControlInv' /\ Bounded' /\ NoLostWakeup'
         /\ AcceptedInOrder' /\ DrainCovers'
  BY DEF IInv, ControlInv, Bounded, NoLostWakeup, AcceptedInOrder, DrainCovers,
         Busy, Finished

\* enqueue() preserves it: its signal reaches the worker when the worker sleeps,
\* as no drain() caller can be asleep then.
LEMMA EnqueueStep ==
  ASSUME IInv, NEW t \in Tasks, Enqueue(t)
  PROVE  /\ ControlInv' /\ Bounded' /\ NoLostWakeup'
         /\ AcceptedInOrder' /\ DrainCovers'
<1> USE QueueAssumption
<1>1. Types /\ ControlInv /\ Bounded /\ NoLostWakeup /\ AcceptedInOrder /\ DrainCovers
  BY DEF IInv
<1>2. queue \in Seq(Tasks) /\ accepted \in Seq(Tasks) /\ ran \in Seq(Tasks)
  BY <1>1 DEF Types
<1>3. /\ queue' = Append(queue, t) /\ accepted' = Append(accepted, t)
      /\ queuedBytes' = queuedBytes + Size[t]
      /\ Signal /\ Fits(t) /\ ~stopping
      /\ UNCHANGED <<active, stopping, workerPC, drainPC, shutdownPC, ran, drainTarget>>
  BY DEF Enqueue, Queued
<1>4. /\ queue' # <<>>
      /\ Len(queue') = Len(queue) + 1
      /\ Len(accepted') = Len(accepted) + 1
  BY <1>2, <1>3, AppendGrows, Zenon
<1>5. waiting' \subseteq waiting
  BY <1>3 DEF Signal
<1>6. Worker \notin waiting'
  <2>1. CASE Worker \in waiting
    <3>1. waiting = {Worker}
      BY <1>1, <2>1 DEF Types, NoLostWakeup, Busy
    <3>2. QED
      BY <1>3, <3>1 DEF Signal
  <2>2. CASE Worker \notin waiting
    BY <1>5, <2>2
  <2>3. QED
    BY <2>1, <2>2
<1>7. ControlInv'
  BY <1>1, <1>2, <1>3, <1>4, <1>6 DEF ControlInv, Types
<1>8. Bounded'
  <2>1. Len(queue) \in Nat /\ queuedBytes \in Int /\ Size[t] \in Nat
    BY <1>1, <1>2 DEF Types
  <2>2. Len(queue) < MaxTasks /\ Size[t] <= MaxBytes - queuedBytes
    BY <1>3 DEF Fits
  <2>3. QED
    BY <1>3, <1>4, <2>1, <2>2 DEF Bounded
<1>9. NoLostWakeup'
  BY <1>4, <1>6 DEF NoLostWakeup, Busy
<1>10. AcceptedInOrder'
  <2>1. Append(ran \o queue, t) = ran \o Append(queue, t)
    BY <1>2, AppendToTail
  <2>2. QED
    BY <1>1, <1>3, <2>1 DEF AcceptedInOrder
<1>11. DrainCovers'
  BY <1>1, <1>3 DEF DrainCovers, Finished
<1>12. QED
  BY <1>7, <1>8, <1>9, <1>10, <1>11

\* The worker's dequeue moves one task from the queue to the history of runs
\* and wakes every drain() caller.
LEMMA TakeStep ==
  ASSUME IInv, Take
  PROVE  /\ ControlInv' /\ Bounded' /\ NoLostWakeup'
         /\ AcceptedInOrder' /\ DrainCovers'
<1> USE QueueAssumption
<1>1. Types /\ ControlInv /\ Bounded /\ NoLostWakeup /\ AcceptedInOrder /\ DrainCovers
  BY DEF IInv
<1>2. queue \in Seq(Tasks) /\ ran \in Seq(Tasks) /\ queuedBytes \in Int
  BY <1>1 DEF Types
<1>3. /\ queue # <<>> /\ queue' = Tail(queue) /\ ran' = Append(ran, Head(queue))
      /\ queuedBytes' = IF Tail(queue) = <<>> THEN 0
                         ELSE queuedBytes - Size[Head(queue)]
      /\ workerPC = "loop" /\ workerPC' = "run" /\ active' = TRUE /\ waiting' = {}
      /\ UNCHANGED <<stopping, drainPC, shutdownPC, accepted, drainTarget>>
  BY DEF Take, BytesAfterTake, AtLoopHead, Broadcast
<1>4. /\ Head(queue) \in Tasks
      /\ Len(queue') = Len(queue) - 1
      /\ ran \o queue = ran' \o queue'
  BY <1>2, <1>3, MoveHead
<1>5. ControlInv'
  BY <1>1, <1>3 DEF ControlInv
<1>6. Bounded'
  <2>1. Size[Head(queue)] \in Nat /\ Len(queue) \in Nat
    BY <1>2, <1>4
  <2>2. QED
    BY <1>1, <1>2, <1>3, <1>4, <2>1 DEF Bounded
<1>7. NoLostWakeup'
  BY <1>3 DEF NoLostWakeup
<1>8. AcceptedInOrder'
  BY <1>1, <1>3, <1>4 DEF AcceptedInOrder
<1>9. DrainCovers'
  <2>1. ~active /\ active'
    BY <1>1, <1>3 DEF ControlInv
  <2>2. Len(ran') = Len(ran) + 1 /\ Len(ran) \in Nat
    BY <1>2, <1>3, <1>4
  <2>3. Finished' = Finished
    BY <2>1, <2>2 DEF Finished
  <2>4. QED
    BY <1>1, <1>3, <2>3 DEF DrainCovers
<1>10. QED
  BY <1>5, <1>6, <1>7, <1>8, <1>9

\* The end of a task wakes every drain() caller.
LEMMA FinishStep ==
  ASSUME IInv, Finish
  PROVE  /\ ControlInv' /\ Bounded' /\ NoLostWakeup'
         /\ AcceptedInOrder' /\ DrainCovers'
<1> USE QueueAssumption
<1>1. Types /\ ControlInv /\ Bounded /\ NoLostWakeup /\ AcceptedInOrder /\ DrainCovers
  BY DEF IInv
<1>2. /\ workerPC = "run" /\ workerPC' = "loop" /\ active' = FALSE /\ waiting' = {}
      /\ UNCHANGED <<queue, queuedBytes, stopping, drainPC, shutdownPC,
                     accepted, ran, drainTarget>>
  BY DEF Finish, Broadcast
<1>3. ControlInv'
  BY <1>1, <1>2 DEF ControlInv
<1>4. Bounded' /\ NoLostWakeup' /\ AcceptedInOrder'
  BY <1>1, <1>2 DEF Bounded, NoLostWakeup, AcceptedInOrder
<1>5. DrainCovers'
  <2>1. active /\ ~active'
    BY <1>1, <1>2 DEF ControlInv
  <2>2. Len(ran) \in Nat /\ ran' = ran
    BY <1>1, <1>2 DEF Types
  <2>3. Finished' = Finished + 1 /\ Finished \in Int
    BY <2>1, <2>2 DEF Finished
  <2>4. QED
    BY <1>1, <1>2, <2>3 DEF DrainCovers, Types
<1>6. QED
  BY <1>3, <1>4, <1>5

\* An idle queue has run everything it accepted.
LEMMA IdleRanAll ==
  ASSUME Types, AcceptedInOrder, queue = <<>>
  PROVE  ran = accepted
<1>1. ran \in Seq(Tasks)
  BY DEF Types
<1>2. ran \o <<>> = ran
  BY <1>1
<1>3. QED
  BY <1>2 DEF AcceptedInOrder

\* A drain() that finds the queue idle has seen every accepted task run.
LEMMA DrainReturnStep ==
  ASSUME IInv, NEW d \in Drainers, DrainReturn(d)
  PROVE  /\ ControlInv' /\ Bounded' /\ NoLostWakeup'
         /\ AcceptedInOrder' /\ DrainCovers'
<1> USE QueueAssumption DEF DrainReturn, IInv
<1>1. ControlInv' /\ Bounded' /\ NoLostWakeup' /\ AcceptedInOrder'
  BY DEF ControlInv, Bounded, NoLostWakeup, AcceptedInOrder, Busy
<1>2. Finished >= drainTarget[d]
  <2>1. ran = accepted
    BY IdleRanAll DEF Busy
  <2>2. QED
    BY <2>1 DEF Finished, Busy, ControlInv, Types
<1>3. DrainCovers'
  BY <1>2 DEF DrainCovers, Finished, Types
<1>4. QED
  BY <1>1, <1>3

\* Every step preserves the inductive invariant.
LEMMA NextIInv == IInv /\ [Next]_vars => IInv'
<1> USE QueueAssumption
<1> SUFFICES ASSUME IInv, [Next]_vars PROVE IInv'
  OBVIOUS
<1> DEFINE Rest == /\ ControlInv' /\ Bounded' /\ NoLostWakeup'
                   /\ AcceptedInOrder' /\ DrainCovers'
<1>t. Types'
  BY NextTypes DEF IInv
<1>1. ASSUME SwitchStore PROVE Rest
  BY <1>1, QuietStep DEF SwitchStore
<1>2. ASSUME NEW t \in Tasks, HostCallback(t) PROVE Rest
  <2>1. CASE HasEventStore(t)
    BY <2>1, QuietStep DEF HasEventStore
  <2>2. CASE RunSync(t)
    BY <2>2, QuietStep DEF RunSync
  <2>3. CASE Enqueue(t)
    BY <2>3, EnqueueStep
  <2>4. CASE Drop(t)
    BY <2>4, QuietStep DEF Drop
  <2>5. QED
    BY <1>2, <2>1, <2>2, <2>3, <2>4 DEF HostCallback
<1>3. ASSUME Park PROVE Rest
  BY <1>3 DEF Park, AtLoopHead, IInv, ControlInv, Bounded, NoLostWakeup,
              AcceptedInOrder, DrainCovers, Busy, Finished, Types
<1>4. ASSUME Take PROVE Rest
  BY <1>4, TakeStep
<1>5. ASSUME Finish PROVE Rest
  BY <1>5, FinishStep
<1>6. ASSUME Exit PROVE Rest
  BY <1>6 DEF Exit, MayExit, AtLoopHead, IInv, ControlInv, Bounded, NoLostWakeup,
              AcceptedInOrder, DrainCovers, Busy, Finished
<1>7. ASSUME NEW d \in Drainers, DrainCall(d) \/ DrainStep(d) PROVE Rest
  <2>1. CASE DrainCall(d)
    BY <2>1 DEF DrainCall, IInv, ControlInv, Bounded, NoLostWakeup,
                AcceptedInOrder, DrainCovers, Busy, Finished, Types
  <2>2. CASE DrainWait(d)
    BY <2>2 DEF DrainWait, IInv, ControlInv, Bounded, NoLostWakeup,
                AcceptedInOrder, DrainCovers, Busy, Finished, Types
  <2>3. CASE DrainReturn(d)
    BY <2>3, DrainReturnStep
  <2>4. QED
    BY <1>7, <2>1, <2>2, <2>3 DEF DrainStep
<1>8. ASSUME ShutdownCall PROVE Rest
  BY <1>8 DEF ShutdownCall, Broadcast, IInv, ControlInv, Bounded, NoLostWakeup,
              AcceptedInOrder, DrainCovers, Finished
<1>9. ASSUME ShutdownReturn PROVE Rest
  BY <1>9 DEF ShutdownReturn, IInv, ControlInv, Bounded, NoLostWakeup,
              AcceptedInOrder, DrainCovers, Busy, Finished
<1>10. ASSUME UNCHANGED vars PROVE Rest
  BY <1>10, QuietStep DEF vars
<1>11. QED
  BY <1>t, <1>1, <1>2, <1>3, <1>4, <1>5, <1>6, <1>7, <1>8, <1>9, <1>10
     DEF Next, WorkerStep, IInv

\* The inductive invariant holds in every reachable state.
LEMMA IInvAlways == Spec => []IInv
  BY InitIInv, NextIInv, PTL DEF Spec

(***************************************************************************)
(* Theorems.                                                               *)
(***************************************************************************)

\* The queue never exceeds its task bound nor its byte bound.
THEOREM QueueBounded == Spec => []Bounded
<1>1. IInv => Bounded
  BY DEF IInv
<1>2. QED
  BY <1>1, IInvAlways, PTL

\* Signal() in enqueue() always reaches the worker when the worker sleeps,
\* although drain() callers wait on the same condition variable.
THEOREM WakeupNeverLost == Spec => []NoLostWakeup
<1>1. IInv => NoLostWakeup
  BY DEF IInv
<1>2. QED
  BY <1>1, IInvAlways, PTL

\* The worker runs the accepted callbacks in order, each once.
THEOREM RunsInOrder == Spec => []AcceptedInOrder
<1>1. IInv => AcceptedInOrder
  BY DEF IInv
<1>2. QED
  BY <1>1, IInvAlways, PTL

\* drain() returns only after all that was accepted before it has run.
THEOREM DrainWaitsForAll == Spec => []DrainCovers
<1>1. IInv => DrainCovers
  BY DEF IInv
<1>2. QED
  BY <1>1, IInvAlways, PTL

\* shutdown() returns only after every accepted callback has run.
THEOREM ShutdownWaitsForAll == Spec => []ShutdownRanAll
<1>1. IInv => ShutdownRanAll
  <2> SUFFICES ASSUME IInv, shutdownPC = "returned" PROVE ran = accepted /\ ~active
    BY DEF ShutdownRanAll
  <2>1. workerPC = "exited" /\ queue = <<>>
    BY DEF IInv, ControlInv
  <2>2. QED
    BY <2>1, IdleRanAll DEF IInv, ControlInv
<1>2. QED
  BY <1>1, IInvAlways, PTL

-----------------------------------------------------------------------------
(***************************************************************************)
(* The queue keeps the contract of CallbackContract.  The byte counter is  *)
(* the weight of the queue: that is inductive because adding up the sizes  *)
(* of a queue can be extended at its end and shifted at its head.          *)
(***************************************************************************)
CounterInv == queuedBytes \in Nat /\ Contract!Weighs(queue, queuedBytes)

\* An empty queue weighs nothing.
LEMMA WeighsEmpty == Contract!Weighs(<<>>, 0)
<1> DEFINE sum == [i \in 0 .. 0 |-> 0]
<1>1. /\ sum \in [0 .. Len(<<>>) -> 0 .. 0]
      /\ sum[0] = 0 /\ sum[Len(<<>>)] = 0
      /\ \A i \in 1 .. Len(<<>>) : sum[i] = sum[i - 1] + Size[<<>>[i]]
      /\ \A i, j \in 0 .. Len(<<>>) : i <= j => sum[i] <= sum[j]
  OBVIOUS
<1>2. QED
  BY <1>1 DEF Contract!Weighs

\* A queue that a task is appended to weighs what the task retains more.
LEMMA WeighsAppend ==
  ASSUME NEW q \in Seq(Tasks), NEW w \in Nat, NEW t \in Tasks,
         Contract!Weighs(q, w)
  PROVE  Contract!Weighs(Append(q, t), w + Size[t])
<1> USE QueueAssumption
<1>0. /\ Len(q) \in Nat /\ Size[t] \in Nat /\ Append(q, t) \in Seq(Tasks)
      /\ Len(Append(q, t)) = Len(q) + 1
  BY AppendGrows
<1>1. PICK sum \in [0 .. Len(q) -> 0 .. w] :
        /\ sum[0] = 0
        /\ sum[Len(q)] = w
        /\ \A i \in 1 .. Len(q) : sum[i] = sum[i - 1] + Size[q[i]]
        /\ \A i, j \in 0 .. Len(q) : i <= j => sum[i] <= sum[j]
  BY DEF Contract!Weighs
<1> DEFINE longer == [i \in 0 .. Len(q) + 1 |->
                        IF i <= Len(q) THEN sum[i] ELSE w + Size[t]]
<1>2. longer \in [0 .. Len(Append(q, t)) -> 0 .. w + Size[t]]
  BY <1>0, <1>1
<1>3. longer[0] = 0 /\ longer[Len(Append(q, t))] = w + Size[t]
  BY <1>0, <1>1
<1>4. ASSUME NEW i \in 1 .. Len(Append(q, t))
      PROVE  longer[i] = longer[i - 1] + Size[Append(q, t)[i]]
  <2>1. CASE i <= Len(q)
    <3>1. Append(q, t)[i] = q[i] /\ i \in 1 .. Len(q)
      BY <1>0, <2>1
    <3>2. longer[i] = sum[i] /\ longer[i - 1] = sum[i - 1]
      BY <1>0, <2>1
    <3>3. QED
      BY <1>1, <3>1, <3>2
  <2>2. CASE i = Len(q) + 1
    <3>1. Append(q, t)[i] = t
      BY <1>0, <2>2
    <3>2. longer[i] = w + Size[t] /\ longer[i - 1] = sum[Len(q)]
      BY <1>0, <2>2
    <3>3. QED
      BY <1>1, <3>1, <3>2
  <2>3. QED
    BY <1>0, <2>1, <2>2
<1>5. ASSUME NEW i \in 0 .. Len(Append(q, t)), NEW j \in 0 .. Len(Append(q, t)),
             i <= j
      PROVE  longer[i] <= longer[j]
  <2>1. CASE j <= Len(q)
    <3>1. i \in 0 .. Len(q) /\ j \in 0 .. Len(q)
      BY <1>0, <1>5, <2>1
    <3>2. longer[i] = sum[i] /\ longer[j] = sum[j]
      BY <1>0, <3>1
    <3>3. QED
      BY <1>1, <1>5, <3>1, <3>2
  <2>2. CASE j = Len(q) + 1
    <3>1. longer[j] = w + Size[t]
      BY <1>0, <2>2
    <3>2. longer[i] \in 0 .. w + Size[t]
      BY <1>0, <1>2
    <3>3. QED
      BY <1>0, <3>1, <3>2
  <2>3. QED
    BY <1>0, <2>1, <2>2
<1>6. QED
  <2> HIDE DEF longer
  <2>1. QED
    BY <1>2, <1>3, <1>4, <1>5 DEF Contract!Weighs

\* Without its head a queue weighs what the head retained less.
LEMMA WeighsTail ==
  ASSUME NEW q \in Seq(Tasks), NEW w \in Nat, q # <<>>, Contract!Weighs(q, w)
  PROVE  /\ w - Size[Head(q)] \in Nat
         /\ Contract!Weighs(Tail(q), w - Size[Head(q)])
         /\ Tail(q) = <<>> => w - Size[Head(q)] = 0
<1> USE QueueAssumption
<1> DEFINE h == Size[Head(q)]
<1>0. /\ Len(q) \in Nat /\ Len(q) > 0 /\ h \in Nat
      /\ Head(q) = q[1]
      /\ Tail(q) \in Seq(Tasks) /\ Len(Tail(q)) = Len(q) - 1
      /\ \A i \in 1 .. Len(q) - 1 : Tail(q)[i] = q[i + 1]
  BY MoveHead
<1>1. PICK sum \in [0 .. Len(q) -> 0 .. w] :
        /\ sum[0] = 0
        /\ sum[Len(q)] = w
        /\ \A i \in 1 .. Len(q) : sum[i] = sum[i - 1] + Size[q[i]]
        /\ \A i, j \in 0 .. Len(q) : i <= j => sum[i] <= sum[j]
  BY DEF Contract!Weighs
<1>2. sum[1] = h
  BY <1>0, <1>1
<1>3. ASSUME NEW i \in 1 .. Len(q) PROVE sum[i] - h \in 0 .. w - h
  <2>1. 1 \in 0 .. Len(q) /\ i \in 0 .. Len(q) /\ 1 <= i
    BY <1>0
  <2>2. sum[1] <= sum[i] /\ sum[i] \in 0 .. w
    BY <1>1, <2>1
  <2> HIDE DEF h
  <2>3. QED
    BY <1>0, <1>2, <2>2
<1>4. w - h \in Nat
  BY <1>0, <1>1, <1>3
<1> DEFINE rest == [i \in 0 .. Len(q) - 1 |-> sum[i + 1] - h]
<1>5. rest \in [0 .. Len(Tail(q)) -> 0 .. w - h]
  BY <1>0, <1>3
<1>6. rest[0] = 0 /\ rest[Len(Tail(q))] = w - h
  BY <1>0, <1>1, <1>2
<1>7. ASSUME NEW i \in 1 .. Len(Tail(q))
      PROVE  rest[i] = rest[i - 1] + Size[Tail(q)[i]]
  <2>1. i + 1 \in 1 .. Len(q) /\ Tail(q)[i] = q[i + 1]
    BY <1>0
  <2>2. rest[i] = sum[i + 1] - h /\ rest[i - 1] = sum[i] - h
    BY <1>0
  <2>3. q[i + 1] \in Tasks /\ Size[q[i + 1]] \in Nat
    BY <2>1
  <2>4. sum[i + 1] = sum[i] + Size[q[i + 1]] /\ sum[i] \in Nat
    BY <1>0, <1>1, <2>1
  <2>5. QED
    BY <1>0, <2>1, <2>2, <2>3, <2>4
<1>8. ASSUME NEW i \in 0 .. Len(Tail(q)), NEW j \in 0 .. Len(Tail(q)), i <= j
      PROVE  rest[i] <= rest[j]
  <2>1. i + 1 \in 0 .. Len(q) /\ j + 1 \in 0 .. Len(q) /\ i + 1 <= j + 1
    BY <1>0, <1>8
  <2>2. sum[i + 1] <= sum[j + 1]
    BY <1>1, <2>1
  <2>0. sum[i + 1] \in 0 .. w /\ sum[j + 1] \in 0 .. w
    BY <2>1, Zenon
  <2>3. rest[i] = sum[i + 1] - h /\ rest[j] = sum[j + 1] - h
    BY <1>0
  <2> HIDE DEF h, rest
  <2>4. QED
    BY <1>0, <2>0, <2>2, <2>3
<1>9. Contract!Weighs(Tail(q), w - h)
  <2> HIDE DEF rest, h
  <2>1. QED
    BY <1>5, <1>6, <1>7, <1>8 DEF Contract!Weighs
<1>10. Tail(q) = <<>> => w - h = 0
  <2>0. Len(<<>>) = 0
    OBVIOUS
  <2>1. Tail(q) = <<>> => Len(Tail(q)) = 0
    BY <2>0, Zenon
  <2>2. QED
    <3>1. Tail(q) = <<>> => Len(q) = 1
      BY <1>0, <2>1
    <3> HIDE DEF h
    <3>2. QED
      BY <1>1, <1>2, <3>1, <1>0
<1>11. QED
  BY <1>4, <1>9, <1>10

\* The byte counter starts as the weight of the queue.
LEMMA InitCounter == Init => CounterInv
  BY WeighsEmpty DEF Init, CounterInv

\* Every step keeps the byte counter equal to the weight of the queue: the
\* reset of take() when the queue empties only ever writes what is there.
LEMMA NextCounter == IInv /\ CounterInv /\ [Next]_vars => CounterInv'
<1> USE QueueAssumption
<1> SUFFICES ASSUME IInv, CounterInv, [Next]_vars PROVE CounterInv'
  OBVIOUS
<1>0. queue \in Seq(Tasks)
  BY DEF IInv, Types
<1>q. ASSUME UNCHANGED <<queue, queuedBytes>> PROVE CounterInv'
  BY <1>q DEF CounterInv
<1>1. CASE SwitchStore
  BY <1>1, <1>q DEF SwitchStore
<1>2. ASSUME NEW t \in Tasks, HostCallback(t) PROVE CounterInv'
  <2>1. CASE Enqueue(t)
    <3>1. queue' = Append(queue, t) /\ queuedBytes' = queuedBytes + Size[t]
      BY <2>1 DEF Enqueue, Queued
    <3>2. Contract!Weighs(Append(queue, t), queuedBytes + Size[t])
      BY <1>0, WeighsAppend DEF CounterInv
    <3>3. QED
      BY <3>1, <3>2 DEF CounterInv
  <2>2. CASE HasEventStore(t) \/ RunSync(t) \/ Drop(t)
    BY <2>2, <1>q DEF HasEventStore, RunSync, Drop
  <2>3. QED
    BY <1>2, <2>1, <2>2 DEF HostCallback
<1>3. CASE WorkerStep
  <2>1. CASE Take
    <3>1. /\ queue # <<>> /\ queue' = Tail(queue)
          /\ queuedBytes' = IF Tail(queue) = <<>> THEN 0
                             ELSE queuedBytes - Size[Head(queue)]
      BY <2>1 DEF Take, BytesAfterTake
    <3>2. /\ queuedBytes - Size[Head(queue)] \in Nat
          /\ Contract!Weighs(Tail(queue), queuedBytes - Size[Head(queue)])
          /\ Tail(queue) = <<>> => queuedBytes - Size[Head(queue)] = 0
      BY <1>0, <3>1, WeighsTail DEF CounterInv
    <3>3. queuedBytes' = queuedBytes - Size[Head(queue)]
      BY <3>1, <3>2
    <3>4. QED
      BY <3>1, <3>2, <3>3 DEF CounterInv
  <2>2. CASE Park \/ Finish \/ Exit
    BY <2>2, <1>q DEF Park, Finish, Exit
  <2>3. QED
    BY <1>3, <2>1, <2>2 DEF WorkerStep
<1>4. ASSUME NEW d \in Drainers, DrainCall(d) \/ DrainStep(d) PROVE CounterInv'
  BY <1>4, <1>q DEF DrainCall, DrainStep, DrainWait, DrainReturn
<1>5. CASE ShutdownCall \/ ShutdownReturn
  BY <1>5, <1>q DEF ShutdownCall, ShutdownReturn
<1>6. CASE UNCHANGED vars
  BY <1>6, <1>q DEF vars
<1>7. QED
  BY <1>1, <1>2, <1>3, <1>4, <1>5, <1>6 DEF Next

\* The queue is created in an initial state of its contract.
LEMMA InitContract == Init => Contract!Init
  BY DEF Init, Contract!Init

\* An accepted task had room by its true weight; a refused one had none.
LEMMA SubmitStep ==
  ASSUME IInv, CounterInv, NEW t \in Tasks, HostCallback(t)
  PROVE  [Contract!Next]_Contract!vars
<1> USE QueueAssumption
<1>1. CASE Enqueue(t)
  <2>1. Contract!HasRoom(t)
    <3>1. queuedBytes \in 0 .. MaxBytes /\ queuedBytes + Size[t] <= MaxBytes
          /\ Len(queue) < MaxTasks
      BY <1>1 DEF Enqueue, Fits, CounterInv, IInv, Bounded
    <3>2. QED
      BY <3>1 DEF Contract!HasRoom, CounterInv
  <2>2. Contract!Accept(t)
    BY <1>1, <2>1 DEF Enqueue, Queued, Contract!Accept
  <2>3. QED
    BY <2>2 DEF Contract!Next
<1>2. CASE Drop(t)
  <2>1. stopping \/ Contract!IsFull(t)
    <3>1. queuedBytes \in 0 .. MaxBytes /\ Len(queue) \in Nat
      BY DEF CounterInv, IInv, Bounded, Types
    <3>2. stopping \/ Len(queue) >= MaxTasks \/ queuedBytes + Size[t] > MaxBytes
      BY <1>2, <3>1 DEF Drop, Fits
    <3>3. QED
      BY <3>1, <3>2 DEF Contract!IsFull, CounterInv
  <2>2. Contract!Refuse(t)
    BY <1>2, <2>1 DEF Drop, Contract!Refuse
  <2>3. QED
    BY <2>2 DEF Contract!Next
<1>3. CASE HasEventStore(t) \/ RunSync(t)
  BY <1>3 DEF HasEventStore, RunSync, Contract!vars
<1>4. QED
  BY <1>1, <1>2, <1>3 DEF HostCallback

\* The worker begins and ends the contract's tasks; its sleep and its exit are
\* no steps of the contract.
LEMMA WorkerContract ==
  ASSUME IInv, WorkerStep
  PROVE  [Contract!Next]_Contract!vars
<1>1. CASE Take
  <2>1. ~active
    BY <1>1 DEF Take, AtLoopHead, IInv, ControlInv
  <2>2. Contract!Begin
    BY <1>1, <2>1 DEF Take, Contract!Begin
  <2>3. QED
    BY <2>2 DEF Contract!Next
<1>2. CASE Finish
  <2>1. Contract!End
    BY <1>2 DEF Finish, IInv, ControlInv, Contract!End
  <2>2. QED
    BY <2>1 DEF Contract!Next
<1>3. CASE Park \/ Exit
  BY <1>3 DEF Park, Exit, Contract!vars
<1>4. QED
  BY <1>1, <1>2, <1>3 DEF WorkerStep

\* shutdown() closes the queue and returns when the worker has left it empty.
LEMMA ShutdownContract ==
  ASSUME IInv, ShutdownCall \/ ShutdownReturn
  PROVE  [Contract!Next]_Contract!vars
<1>1. CASE ShutdownCall
  <2>1. Contract!Close
    BY <1>1 DEF ShutdownCall, Contract!Close
  <2>2. QED
    BY <2>1 DEF Contract!Next
<1>2. CASE ShutdownReturn
  <2>1. stopping /\ queue = <<>> /\ ~active
    BY <1>2 DEF ShutdownReturn, IInv, ControlInv
  <2>2. Contract!Stop
    BY <1>2, <2>1 DEF ShutdownReturn, Contract!Stop
  <2>3. QED
    BY <2>2 DEF Contract!Next
<1>3. QED
  BY <1>1, <1>2

\* Every step of the queue is a step of its contract or leaves it as it is.
LEMMA NextContract ==
  IInv /\ CounterInv /\ [Next]_vars => [Contract!Next]_Contract!vars
<1> SUFFICES ASSUME IInv, CounterInv, [Next]_vars
             PROVE  [Contract!Next]_Contract!vars
  OBVIOUS
<1>1. CASE SwitchStore
  BY <1>1 DEF SwitchStore, Contract!vars
<1>2. ASSUME NEW t \in Tasks, HostCallback(t) PROVE [Contract!Next]_Contract!vars
  BY <1>2, SubmitStep
<1>3. CASE WorkerStep
  BY <1>3, WorkerContract
<1>4. ASSUME NEW d \in Drainers, DrainCall(d) \/ DrainStep(d)
      PROVE  UNCHANGED Contract!vars
  BY <1>4 DEF DrainCall, DrainStep, DrainWait, DrainReturn, Contract!vars
<1>5. CASE ShutdownCall \/ ShutdownReturn
  BY <1>5, ShutdownContract
<1>6. CASE UNCHANGED vars
  BY <1>6 DEF vars, Contract!vars
<1>7. QED
  BY <1>1, <1>2, <1>3, <1>4, <1>5, <1>6 DEF Next

\* The byte counter is the weight of the queue in every reachable state.
LEMMA CounterAlways == Spec => []CounterInv
  BY InitIInv, NextIInv, InitCounter, NextCounter, PTL DEF Spec

\* The queue keeps its limits and every variable its type; in particular the
\* byte counter, which take() subtracts from without a check, is never negative.
THEOREM TypeCorrect == Spec => []TypeOK
<1>1. IInv /\ CounterInv => TypeOK
  BY Zenon DEF IInv, CounterInv, Types, TypeOK
<1>2. QED
  BY <1>1, IInvAlways, CounterAlways, PTL

\* The deferred callback queue implements its contract.
THEOREM QueueKeepsContract == Spec => Implements
  BY InitIInv, NextIInv, InitCounter, NextCounter, InitContract, NextContract, PTL
     DEF Spec, Implements, Contract!Spec
=============================================================================
