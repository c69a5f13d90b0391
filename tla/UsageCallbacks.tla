--------------------------- MODULE UsageCallbacks ---------------------------
(***************************************************************************)
(* The deferred callback queue of go/usage_async.go: one worker goroutine  *)
(* runs, in order, the tasks that host callbacks leave in a queue bounded  *)
(* by task count and by retained bytes.  The worker and the goroutines in  *)
(* drain() share one condition variable, whose wait list is `waiting`.     *)
(*                                                                         *)
(* A task stands for one host callback (usage.handle, an intercepted       *)
(* response, a settled stream); Size gives the bytes its closure retains.  *)
(***************************************************************************)
EXTENDS Integers, Sequences

CONSTANTS
  Tasks,      (* the host callbacks that are delivered                       *)
  Size,       (* retained bytes of a callback: payload + fixed overhead      *)
  Drainers,   (* goroutines that call drain()                                *)
  Worker,     (* the goroutine of loop()                                     *)
  MaxTasks,   (* usageCallbackQueueMaxTasks                                  *)
  MaxBytes    (* usageCallbackQueueMaxBytes                                  *)

ASSUME QueueAssumption ==
  /\ Size \in [Tasks -> Nat]
  /\ Worker \notin Drainers
  /\ MaxTasks \in Nat
  /\ MaxBytes \in Nat

VARIABLES
  queue,        (* p.queue                                                   *)
  queuedBytes,  (* p.queuedBytes                                             *)
  active,       (* p.active: the worker is inside task.fn()                  *)
  stopping,     (* p.stopping                                                *)
  waiting,      (* wait list of p.cond                                       *)
  workerPC,     (* where loop() stands                                       *)
  drainPC,      (* where each drain() call stands                            *)
  shutdownPC,   (* where shutdown() stands                                   *)
  hasStore,     (* s.eventStore # nil, as hasEventStore() reads it           *)
  callback,     (* what became of each host callback                         *)
  drops,        (* s.callbackQueueDrops, and what it added to permanentDrops *)
  accepted,     (* history: tasks in the order enqueue() accepted them       *)
  ran,          (* history: tasks in the order the worker took them          *)
  drainTarget   (* history: tasks accepted when drain() was called           *)

vars == <<queue, queuedBytes, active, stopping, waiting, workerPC, drainPC,
          shutdownPC, hasStore, callback, drops, accepted, ran, drainTarget>>

CallbackStates == {"undelivered", "deferring", "sync", "ranSync",
                   "queued", "dropped"}

\* Both bounds of the queue hold together.
Bounded ==
  /\ Len(queue) <= MaxTasks
  /\ queuedBytes <= MaxBytes

\* The queue keeps its limits, and its byte counter is never negative.
TypeOK ==
  /\ queue \in Seq(Tasks)
  /\ queuedBytes \in Nat
  /\ Bounded
  /\ active \in BOOLEAN
  /\ stopping \in BOOLEAN
  /\ waiting \subseteq Drainers \cup {Worker}
  /\ workerPC \in {"loop", "run", "exited"}
  /\ drainPC \in [Drainers -> {"idle", "check", "returned"}]
  /\ shutdownPC \in {"idle", "await", "returned"}
  /\ hasStore \in BOOLEAN
  /\ callback \in [Tasks -> CallbackStates]
  /\ drops \in Nat
  /\ accepted \in Seq(Tasks)
  /\ ran \in Seq(Tasks)
  /\ drainTarget \in [Drainers -> Nat]

Init ==
  /\ queue = <<>>
  /\ queuedBytes = 0
  /\ active = FALSE
  /\ stopping = FALSE
  /\ waiting = {}
  /\ workerPC = "loop"
  /\ drainPC = [d \in Drainers |-> "idle"]
  /\ shutdownPC = "idle"
  /\ hasStore \in BOOLEAN
  /\ callback = [t \in Tasks |-> "undelivered"]
  /\ drops = 0
  /\ accepted = <<>>
  /\ ran = <<>>
  /\ drainTarget = [d \in Drainers |-> 0]

(***************************************************************************)
(* The condition variable.                                                 *)
(***************************************************************************)
SignalMissing == UNCHANGED waiting                   \* mutant
Signal == IF waiting = {} THEN UNCHANGED waiting
          ELSE \E w \in waiting : waiting' = waiting \ {w}

BroadcastToOne == Signal                             \* mutant
Broadcast == waiting' = {}

-----------------------------------------------------------------------------
(***************************************************************************)
(* The host callback: deferUsageCallback and enqueue.                      *)
(***************************************************************************)

\* ConfigurePatch and Close replace s.eventStore at any time.
SwitchStore ==
  /\ hasStore' = ~hasStore
  /\ UNCHANGED <<queue, queuedBytes, active, stopping, waiting, workerPC, drainPC,
                 shutdownPC, callback, drops, accepted, ran, drainTarget>>

HasEventStore(t) ==
  /\ callback[t] = "undelivered"
  /\ callback' = [callback EXCEPT ![t] = IF hasStore THEN "deferring" ELSE "sync"]
  /\ UNCHANGED <<queue, queuedBytes, active, stopping, waiting, workerPC, drainPC,
                 shutdownPC, hasStore, drops, accepted, ran, drainTarget>>

RunSync(t) ==
  /\ callback[t] = "sync"
  /\ callback' = [callback EXCEPT ![t] = "ranSync"]
  /\ UNCHANGED <<queue, queuedBytes, active, stopping, waiting, workerPC, drainPC,
                 shutdownPC, hasStore, drops, accepted, ran, drainTarget>>

FitsBefore(t) ==                                     \* mutant
  /\ Len(queue) < MaxTasks
  /\ queuedBytes < MaxBytes
Fits(t) ==
  /\ Len(queue) < MaxTasks
  /\ Size[t] <= MaxBytes - queuedBytes

Queued(t) == Append(queue, t)

Enqueue(t) ==
  /\ callback[t] = "deferring"
  /\ ~stopping
  /\ Fits(t)
  /\ queue' = Queued(t)
  /\ queuedBytes' = queuedBytes + Size[t]
  /\ Signal
  /\ callback' = [callback EXCEPT ![t] = "queued"]
  /\ accepted' = Append(accepted, t)
  /\ UNCHANGED <<active, stopping, workerPC, drainPC, shutdownPC, hasStore,
                 drops, ran, drainTarget>>

Drop(t) ==
  /\ callback[t] = "deferring"
  /\ stopping \/ ~Fits(t)
  /\ callback' = [callback EXCEPT ![t] = "dropped"]
  /\ drops' = drops + 1
  /\ UNCHANGED <<queue, queuedBytes, active, stopping, waiting, workerPC, drainPC,
                 shutdownPC, hasStore, accepted, ran, drainTarget>>

-----------------------------------------------------------------------------
(***************************************************************************)
(* loop().                                                                 *)
(***************************************************************************)
AtLoopHead == workerPC = "loop" /\ Worker \notin waiting

Park ==
  /\ AtLoopHead
  /\ queue = <<>> /\ ~stopping
  /\ waiting' = waiting \cup {Worker}
  /\ UNCHANGED <<queue, queuedBytes, active, stopping, workerPC, drainPC, shutdownPC,
                 hasStore, callback, drops, accepted, ran, drainTarget>>

\* The last task takes any residue of the byte counter with it.
BytesAfterTakeKept == IF Tail(queue) = <<>> THEN 0 ELSE queuedBytes \* mutant
BytesAfterTake ==
  IF Tail(queue) = <<>> THEN 0 ELSE queuedBytes - Size[Head(queue)]

Take ==
  /\ AtLoopHead
  /\ queue # <<>>
  /\ queue' = Tail(queue)
  /\ queuedBytes' = BytesAfterTake
  /\ active' = TRUE
  /\ Broadcast
  /\ workerPC' = "run"
  /\ ran' = Append(ran, Head(queue))
  /\ UNCHANGED <<stopping, drainPC, shutdownPC, hasStore, callback, drops,
                 accepted, drainTarget>>

Finish ==
  /\ workerPC = "run"
  /\ active' = FALSE
  /\ Broadcast
  /\ workerPC' = "loop"
  /\ UNCHANGED <<queue, queuedBytes, stopping, drainPC, shutdownPC, hasStore,
                 callback, drops, accepted, ran, drainTarget>>

ExitWhenStopping == stopping                         \* mutant
MayExit == queue = <<>> /\ stopping

Exit ==
  /\ AtLoopHead
  /\ MayExit
  /\ workerPC' = "exited"
  /\ UNCHANGED <<queue, queuedBytes, active, stopping, waiting, drainPC, shutdownPC,
                 hasStore, callback, drops, accepted, ran, drainTarget>>

-----------------------------------------------------------------------------
(***************************************************************************)
(* drain() and shutdown().                                                 *)
(***************************************************************************)
DrainCall(d) ==
  /\ drainPC[d] = "idle"
  /\ drainPC' = [drainPC EXCEPT ![d] = "check"]
  /\ drainTarget' = [drainTarget EXCEPT ![d] = Len(accepted)]
  /\ UNCHANGED <<queue, queuedBytes, active, stopping, waiting, workerPC, shutdownPC,
                 hasStore, callback, drops, accepted, ran>>

BusyIfQueued == queue # <<>>                         \* mutant
Busy == queue # <<>> \/ active

DrainWait(d) ==
  /\ drainPC[d] = "check" /\ d \notin waiting
  /\ Busy
  /\ waiting' = waiting \cup {d}
  /\ UNCHANGED <<queue, queuedBytes, active, stopping, workerPC, drainPC, shutdownPC,
                 hasStore, callback, drops, accepted, ran, drainTarget>>

DrainReturn(d) ==
  /\ drainPC[d] = "check" /\ d \notin waiting
  /\ ~Busy
  /\ drainPC' = [drainPC EXCEPT ![d] = "returned"]
  /\ UNCHANGED <<queue, queuedBytes, active, stopping, waiting, workerPC, shutdownPC,
                 hasStore, callback, drops, accepted, ran, drainTarget>>

ShutdownCall ==
  /\ shutdownPC = "idle"
  /\ shutdownPC' = "await"
  /\ stopping' = TRUE
  /\ Broadcast
  /\ UNCHANGED <<queue, queuedBytes, active, workerPC, drainPC, hasStore,
                 callback, drops, accepted, ran, drainTarget>>

\* <-done: loop() closes the channel when it exits.
ShutdownReturn ==
  /\ shutdownPC = "await"
  /\ workerPC = "exited"
  /\ shutdownPC' = "returned"
  /\ UNCHANGED <<queue, queuedBytes, active, stopping, waiting, workerPC, drainPC,
                 hasStore, callback, drops, accepted, ran, drainTarget>>

-----------------------------------------------------------------------------
HostCallback(t) == HasEventStore(t) \/ RunSync(t) \/ Enqueue(t) \/ Drop(t)

WorkerStep == Park \/ Take \/ Finish \/ Exit

DrainStep(d) == DrainWait(d) \/ DrainReturn(d)

Next ==
  \/ SwitchStore
  \/ \E t \in Tasks : HostCallback(t)
  \/ WorkerStep
  \/ \E d \in Drainers : DrainCall(d) \/ DrainStep(d)
  \/ ShutdownCall
  \/ ShutdownReturn

(***************************************************************************)
(* A goroutine that can run is eventually run, a task's function returns,  *)
(* and a callback that was delivered finishes its call.  Nothing obliges   *)
(* the host to deliver a callback, to drain or to shut down.               *)
(***************************************************************************)
Fairness ==
  /\ WF_vars(WorkerStep)
  /\ \A d \in Drainers : WF_vars(DrainStep(d))
  /\ \A t \in Tasks : WF_vars(RunSync(t) \/ Enqueue(t) \/ Drop(t))
  /\ WF_vars(ShutdownReturn)

Spec == Init /\ [][Next]_vars /\ Fairness

-----------------------------------------------------------------------------
(***************************************************************************)
(* Properties.                                                             *)
(***************************************************************************)

\* enqueue() signals only one waiter of a condition variable that the worker
\* and drain() callers share.  The wake-up is never spent on a drain() caller
\* while the worker sleeps on work, and no drain() caller sleeps on an idle
\* queue.
NoLostWakeup ==
  /\ Worker \in waiting => queue = <<>> /\ ~active /\ ~stopping
  /\ waiting \cap Drainers # {} => Busy

Finished == Len(ran) - (IF active THEN 1 ELSE 0)

\* A drain() that returned did wait for every task accepted before its call.
DrainCovers ==
  \A d \in Drainers : drainPC[d] = "returned" => Finished >= drainTarget[d]

\* When shutdown() has returned every accepted task has run to its end, so the
\* fallback flush and the store close that follow see all of them.
ShutdownRanAll ==
  shutdownPC = "returned" => ran = accepted /\ ~active

\* Every callback that reaches deferUsageCallback is run or counted as dropped,
\* and every drain() and shutdown() returns, whatever else waits on the
\* condition variable they share.
CallsReturn ==
  /\ \A t \in Tasks :
       callback[t] = "deferring" ~>
         \/ callback[t] = "dropped" /\ drops > 0
         \/ \E i \in DOMAIN ran : ran[i] = t
  /\ \A d \in Drainers : drainPC[d] = "check" ~> drainPC[d] = "returned"
  /\ shutdownPC = "await" ~> shutdownPC = "returned"

-----------------------------------------------------------------------------
Contract == INSTANCE CallbackContract WITH
  pending <- queue,
  begun   <- ran,
  running <- active,
  closed  <- stopping,
  stopped <- shutdownPC = "returned",
  refused <- drops

\* The queue keeps the contract of CallbackContract: tasks begin one at a time
\* in the order they were accepted; one is refused only while the queue is
\* closed or really full, counted by the sizes of the tasks it holds and not by
\* queuedBytes; and shutdown() returns when nothing is pending or running.
Implements == Contract!Spec
=============================================================================
