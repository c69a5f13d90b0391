---------------------------- MODULE UsageFallback ----------------------------
(***************************************************************************)
(* usageFallbackCoordinator (go/response_intercept.go): one request may be *)
(* reported by a native usage record and by a fallback record read from    *)
(* its response.  A fallback record waits for its native record, and is    *)
(* counted when none comes; a native record that comes first or late       *)
(* meets its fallback record in a list of recent ones.                     *)
(*                                                                         *)
(* A record is an opaque value.  Key is usageFallbackMatchKey, Client the  *)
(* API key it names, Stream its correlation ID.  Every record takes one    *)
(* unit of memory, so the byte counters equal the record counters, and one *)
(* that exceeds the byte limit alone does not exist.  The clock counts the *)
(* ticks of the windows; every critical section of c.mu is one step.       *)
(***************************************************************************)
EXTENDS Integers, Sequences, FiniteSets, FiniteSetsExt, SequencesExt

CONSTANTS
  Fallbacks,     (* the fallback records of a history                        *)
  Natives,       (* the native records                                       *)
  Request,       (* the request a record reports                             *)
  Key, Client, Unknown,
  Stream,        (* a fallback record's correlation ID, or None              *)
  Earlier,       (* the fallback records its history chunks carry: those of  *)
                 (* its stream's earlier chunks, and itself when its chunk   *)
                 (* has no usage of its own                                  *)
  Delay, NativeWindow, LateWindow, Slack, CleanupInterval,
  MaxPending, MaxRecent, MaxRetained,
  Waits,         (* the ticks a record may have waited in the callback queue *)
                 (* and in the stream tracker when it gets here              *)
  MaxTime,       (* bound: the last tick                                     *)
  None

Records == Fallbacks \cup Natives

ASSUME FallbackAssumption ==
  /\ Fallbacks \cap Natives = {} /\ None \notin Records
  /\ {Delay, NativeWindow, LateWindow, Slack, MaxTime} \subseteq Nat
  /\ {CleanupInterval, MaxPending, MaxRecent, MaxRetained} \subseteq Nat \ {0}
  /\ \A f \in Fallbacks : Earlier[f] \subseteq Fallbacks /\ IsFiniteSet(Earlier[f])
  /\ Delay <= MaxTime /\ Waits \subseteq Nat

VARIABLES
  now,
  c,          (* the fields c.mu guards; fate and forgotten only observe     *)
              (* what became of the records                                  *)
  wake,       (* the one-slot channel                                        *)
  sched,      (* runScheduler: its position, timer and the items it popped   *)
  flush,      (* Flush: its position and the records it took                 *)
  call,       (* where the callback of each record stands                    *)
  arrived,    (* when each record reached the coordinator                    *)
  requestAt,  (* RequestedAt of each record                                  *)
  counted     (* calls of RequestStatistics.Record                           *)

vars == <<now, c, wake, sched, flush, call, arrived, requestAt, counted>>

AtLeast0(n) == IF n < 0 THEN 0 ELSE n
Streams == {Stream[f] : f \in Fallbacks} \ {None}

Occurrence == [record : Records, seen : 0..MaxTime]
Fate == {"open", "native", "superseded", "evicted", "refused"}

TableType ==
  [pending : Seq(Fallbacks), heap : SUBSET Fallbacks,
   byStream : [Streams -> Fallbacks \cup {None}], cancelled : SUBSET Fallbacks,
   nativeRecent : Seq(Occurrence), fallbackRecent : Seq(Occurrence),
   pendingCount : Nat, nativeCount : Nat, fallbackCount : Nat,
   lastCleanup : -CleanupInterval..MaxTime, closed : BOOLEAN,
   fate : [Fallbacks -> Fate], forgotten : SUBSET Records]

SchedType ==
  [pc : {"check", "idle", "sleep", "pop", "commit", "record", "done"},
   until : 0..MaxTime, due : Seq(Fallbacks)]

FlushType == [pc : {"idle", "await", "record", "done"}, taken : Seq(Fallbacks)]

\* Every variable has its type, and no timer is set for a time after the last.
TypeOK ==
  /\ now \in 0..MaxTime
  /\ c \in TableType /\ wake \in BOOLEAN
  /\ sched \in SchedType /\ flush \in FlushType
  /\ call \in [Records -> {"none", "schedule", "record", "done"}]
  /\ arrived \in [Records -> 0..MaxTime] /\ requestAt \in [Records -> 0..MaxTime]
  /\ counted \in [Records -> Nat]

\* lastCleanup is the zero time until the first cleanup.
Init ==
  /\ now = 0
  /\ c = [pending |-> <<>>, heap |-> {}, byStream |-> [s \in Streams |-> None],
          cancelled |-> {}, nativeRecent |-> <<>>, fallbackRecent |-> <<>>,
          pendingCount |-> 0, nativeCount |-> 0, fallbackCount |-> 0,
          lastCleanup |-> -CleanupInterval, closed |-> FALSE,
          fate |-> [f \in Fallbacks |-> "open"],
          forgotten |-> {}]
  /\ wake = FALSE
  /\ sched = [pc |-> "check", until |-> 0, due |-> <<>>]
  /\ flush = [pc |-> "idle", taken |-> <<>>]
  /\ call = [r \in Records |-> "none"]
  /\ arrived = [r \in Records |-> 0] /\ requestAt = [r \in Records |-> 0]
  /\ counted = [r \in Records |-> 0]

-----------------------------------------------------------------------------
(***************************************************************************)
(* Operations on the coordinator's tables, each from one table to the      *)
(* next, or to the set of those that a map's iteration order allows.       *)
(***************************************************************************)
\* What a loop keeps of a list, in its order: the items in S.
Keep(list, S) ==
  LET kept[i \in 0..Len(list)] ==
        IF i = 0 THEN <<>>
        ELSE IF list[i] \in S THEN Append(kept[i - 1], list[i]) ELSE kept[i - 1]
  IN kept[Len(list)]

DeadlineTwice(f) == arrived[f] + 2 * Delay               \* mutant
Deadline(f) == arrived[f] + Delay

\* Items of the heap in the order of their deadlines: the delay is constant.
HeapHead(t) == t.pending[SelectInSeq(t.pending, LAMBDA f : f \in t.heap)]

Cancel(t, f, fate) ==
  [t EXCEPT !.cancelled = @ \cup {f}, !.fate[f] = fate]

RemovePendingUncounted(t, f) ==                             \* mutant
  [t EXCEPT !.heap = @ \ {f}, !.pending = RemoveFirst(@, f),
            !.byStream = [s \in Streams |-> IF @[s] = f THEN None ELSE @[s]]]
RemovePending(t, f) ==
  [t EXCEPT !.heap = @ \ {f},
            !.pending = RemoveFirst(@, f),
            !.byStream = [s \in Streams |-> IF @[s] = f THEN None ELSE @[s]],
            !.pendingCount = IF f \in ToSet(t.pending) THEN AtLeast0(@ - 1) ELSE @]

\* The first position of each key in a map of lists.
Heads(list, KeyOf(_)) ==
  {i \in DOMAIN list : \A j \in 1..(i - 1) : KeyOf(list[j]) # KeyOf(list[i])}

EvictPending(t) ==
  IF t.heap # {}
  THEN {RemovePending(Cancel(t, HeapHead(t), "evicted"), HeapHead(t))}
  ELSE {RemovePending(Cancel(t, t.pending[i], "evicted"), t.pending[i]) :
          i \in Heads(t.pending, LAMBDA f : Key[f])}

EvictNative(t) ==
  {[t EXCEPT !.nativeRecent = RemoveAt(@, i), !.nativeCount = AtLeast0(@ - 1),
             !.forgotten = @ \cup {t.nativeRecent[i].record}] :
     i \in Heads(t.nativeRecent, LAMBDA o : Key[o.record])}

EvictFallback(t) ==
  {[t EXCEPT !.fallbackRecent = RemoveAt(@, i), !.fallbackCount = AtLeast0(@ - 1),
             !.forgotten = @ \cup {t.fallbackRecent[i].record}] :
     i \in Heads(t.fallbackRecent, LAMBDA o : Key[o.record])}

Retained(t) == t.pendingCount + t.nativeCount + t.fallbackCount

\* A table within the limit needs one eviction for one more record.
Fits(t) == Retained(t) + 1 <= MaxRetained

MakeRoom(t) ==
  IF Fits(t) THEN {t}
  ELSE IF t.pendingCount > 0 THEN EvictPending(t)
  ELSE IF t.nativeCount > 0 THEN EvictNative(t)
  ELSE EvictFallback(t)

Unexpired(list, window) == Keep(list, {o \in ToSet(list) : now - o.seen <= window})

\* cleanupMaybeLocked.
Cleaned(t) ==
  IF now - t.lastCleanup < CleanupInterval THEN t
  ELSE LET native   == Unexpired(t.nativeRecent, NativeWindow)
           fallback == Unexpired(t.fallbackRecent, LateWindow)
           kept     == Keep(t.pending, Fallbacks \ t.cancelled)
       IN [t EXCEPT
             !.lastCleanup = now,
             !.nativeRecent = native,
             !.nativeCount = AtLeast0(@ - (Len(t.nativeRecent) - Len(native))),
             !.fallbackRecent = fallback,
             !.fallbackCount = AtLeast0(@ - (Len(t.fallbackRecent) - Len(fallback))),
             !.pending = kept, !.heap = @ \cap ToSet(kept),
             !.pendingCount = AtLeast0(@ - (Len(t.pending) - Len(kept)))]

Compatible(f, n) ==
  /\ Key[f] = Key[n]
  /\ Client[f] = Unknown \/ Client[n] = Unknown \/ Client[f] = Client[n]

\* When the callbacks of the records that get here now were made.
Callbacks == {now - w : w \in {v \in Waits : v <= now}}

\* usageFallbackNativeRequestTimeCompatible.
TimeCompatible(nativeAt, fallbackAt) == nativeAt <= fallbackAt + Slack

-----------------------------------------------------------------------------
(***************************************************************************)
(* Callbacks with a fallback record: Supersede, then scheduleForStats.     *)
(* The chunks of a stream are delivered in order.                          *)
(***************************************************************************)
\* popPendingLocked with a record that has no tokens: the first pending record of
\* the key is taken, unless both name a stream and not the same one.
Superseded(t, k, by) ==
  LET i == SelectInSeq(t.pending, LAMBDA f :
             /\ Key[f] = k /\ f \notin t.cancelled
             /\ Stream[f] = None \/ Stream[by] = None \/ Stream[f] = Stream[by])
  IN IF i = 0 THEN t
     ELSE RemovePending(Cancel(t, t.pending[i], "superseded"), t.pending[i])

SupersededKeys(t, keys, by) == FoldSet(LAMBDA k, u : Superseded(u, k, by), t, keys)

Supersede(f) ==
  /\ call[f] = "none" /\ Earlier[f] # {}
  /\ \A g \in Earlier[f] \ {f} : call[g] = "done"
  /\ call' = [call EXCEPT ![f] = "schedule"]
  /\ IF c.closed THEN UNCHANGED <<c, wake>>
     ELSE /\ c' = SupersededKeys(c, {Key[g] : g \in Earlier[f]}, f)
          /\ wake' = TRUE
  /\ UNCHANGED <<now, sched, flush, arrived, requestAt, counted>>

\* consumeNativeRecentLocked.
NativeMatch(t, f, at) ==
  SelectInSeq(t.nativeRecent, LAMBDA o :
    /\ now - o.seen <= NativeWindow
    /\ Compatible(f, o.record)
    /\ TimeCompatible(requestAt[o.record], at))

WithoutPrevious(t, f) ==
  LET s == Stream[f]
      g == IF s = None THEN None ELSE t.byStream[s]
  IN IF g = None \/ g \in t.cancelled THEN t
     ELSE RemovePending(Cancel(t, g, "superseded"), g)

Pushed(t, f) ==
  [t EXCEPT !.pending = Append(@, f), !.heap = @ \cup {f}, !.pendingCount = @ + 1,
            !.byStream = [s \in Streams |-> IF s = Stream[f] THEN f ELSE @[s]]]

WasHeadNever(t) == FALSE                                    \* mutant
WasHead(t) == t.heap = {} \/ now + Delay < Deadline(HeapHead(t))

\* A record keeps the time at which its chunk was decoded, those of one stream one
\* after the other, and has waited since.
DecodedAt(f) ==
  {at \in Callbacks : \A g \in Earlier[f] \ {f} : requestAt[g] <= at}

Schedule(f) ==
  LET t == Cleaned(c) IN
  /\ call[f] = IF Earlier[f] = {} THEN "none" ELSE "schedule"
  /\ now + Delay <= MaxTime
  /\ call' = [call EXCEPT ![f] = "done"]
  /\ arrived' = [arrived EXCEPT ![f] = now]
  /\ \E at \in DecodedAt(f) :
       LET i == NativeMatch(t, f, at) IN
       /\ requestAt' = [requestAt EXCEPT ![f] = at]
       /\ \/ c.closed /\ c' = [c EXCEPT !.fate[f] = "refused"] /\ UNCHANGED wake
          \/ /\ ~c.closed /\ i # 0
             /\ c' = [t EXCEPT !.nativeRecent = RemoveAt(@, i),
                               !.nativeCount = AtLeast0(@ - 1), !.fate[f] = "native"]
             /\ UNCHANGED wake
          \/ /\ ~c.closed /\ i = 0
             /\ LET u == WithoutPrevious(t, f) IN
                \E v \in IF u.pendingCount >= MaxPending THEN EvictPending(u) ELSE {u} :
                  \E w \in MakeRoom(v) :
                    /\ c' = Pushed(w, f)
                    /\ wake' = (wake \/ WasHead(w))
  /\ UNCHANGED <<now, sched, flush, counted>>

-----------------------------------------------------------------------------
(***************************************************************************)
(* Callbacks with a native record: HandleNativeForStats, then Record.      *)
(***************************************************************************)
PendingMatch(t, n) ==
  SelectInSeq(t.pending, LAMBDA f : f \notin t.cancelled /\ Compatible(f, n))

\* matchesFallbackRecentLocked.
FallbackMatch(t, n, at) ==
  SelectInSeq(t.fallbackRecent, LAMBDA o :
    /\ now - o.seen <= LateWindow
    /\ Compatible(o.record, n)
    /\ \/ TimeCompatible(at, requestAt[o.record])
       \/ at <= o.seen + NativeWindow)

Forget(list, occurrence) == list                            \* mutant
Remember(list, occurrence) == Append(list, occurrence)

\* RequestedAt is the start of the request or the time of its callback.
HandleNative(n) ==
  LET t == Cleaned(c)
      i == PendingMatch(t, n)
  IN
  /\ call[n] = "none"
  /\ arrived' = [arrived EXCEPT ![n] = now]
  /\ \E at \in {0} \cup Callbacks :
       LET j == FallbackMatch(t, n, at) IN
       /\ requestAt' = [requestAt EXCEPT ![n] = at]
       /\ \/ /\ i # 0
             /\ c' = RemovePending(Cancel(t, t.pending[i], "native"), t.pending[i])
             /\ wake' = TRUE
             /\ call' = [call EXCEPT ![n] = "record"]
          \/ /\ i = 0 /\ j # 0
             /\ c' = [t EXCEPT !.fallbackRecent = RemoveAt(@, j),
                               !.fallbackCount = AtLeast0(@ - 1)]
             /\ call' = [call EXCEPT ![n] = "done"]
             /\ UNCHANGED wake
          \/ /\ i = 0 /\ j = 0
             /\ \E u \in IF t.nativeCount >= MaxRecent THEN EvictNative(t) ELSE {t} :
                  \E v \in MakeRoom(u) :
                    c' = [v EXCEPT !.nativeRecent = Remember(@, [record |-> n, seen |-> now]),
                                   !.nativeCount = @ + 1]
             /\ call' = [call EXCEPT ![n] = "record"]
             /\ UNCHANGED wake
  /\ UNCHANGED <<now, sched, flush, counted>>

RecordNative(n) ==
  /\ call[n] = "record"
  /\ call' = [call EXCEPT ![n] = "done"]
  /\ counted' = [counted EXCEPT ![n] = @ + 1]
  /\ UNCHANGED <<now, c, wake, sched, flush, arrived, requestAt>>

-----------------------------------------------------------------------------
(***************************************************************************)
(* runScheduler, commitDue and commit.                                     *)
(***************************************************************************)
SchedCheck ==
  LET t == Cleaned(c) IN
  /\ sched.pc = "check"
  /\ \/ c.closed /\ sched' = [sched EXCEPT !.pc = "done"] /\ UNCHANGED c
     \/ /\ ~c.closed /\ c' = t
        /\ \/ t.heap = {} /\ sched' = [sched EXCEPT !.pc = "idle"]
           \/ /\ t.heap # {} /\ Deadline(HeapHead(t)) <= now
              /\ sched' = [sched EXCEPT !.pc = "pop"]
           \/ /\ t.heap # {} /\ Deadline(HeapHead(t)) > now
              /\ sched' = [sched EXCEPT !.pc = "sleep", !.until = Deadline(HeapHead(t))]
  /\ UNCHANGED <<now, wake, flush, call, arrived, requestAt, counted>>

SchedWake ==
  /\ sched.pc \in {"idle", "sleep"} /\ wake
  /\ wake' = FALSE
  /\ sched' = [sched EXCEPT !.pc = "check"]
  /\ UNCHANGED <<now, c, flush, call, arrived, requestAt, counted>>

SchedTimer ==
  /\ sched.pc = "sleep" /\ sched.until <= now
  /\ sched' = [sched EXCEPT !.pc = "pop"]
  /\ UNCHANGED <<now, c, wake, flush, call, arrived, requestAt, counted>>

\* Flush closes c.stop.
Stopping == c.closed
SchedStop ==
  /\ sched.pc \in {"idle", "sleep"} /\ Stopping
  /\ sched' = [sched EXCEPT !.pc = "done"]
  /\ UNCHANGED <<now, c, wake, flush, call, arrived, requestAt, counted>>

CommitDue ==
  LET due == Keep(c.pending, {f \in c.heap : Deadline(f) <= now}) IN
  /\ sched.pc = "pop"
  /\ \/ c.closed /\ sched' = [sched EXCEPT !.pc = "check"] /\ UNCHANGED c
     \/ /\ ~c.closed
        /\ c' = [c EXCEPT !.heap = @ \ ToSet(due)]
        /\ sched' = [sched EXCEPT !.pc = "commit", !.due = due]
  /\ UNCHANGED <<now, wake, flush, call, arrived, requestAt, counted>>

MayCommitCancelled(f) == ~c.closed                          \* mutant
MayCommit(f) == ~c.closed /\ f \notin c.cancelled

Commit ==
  LET f == Head(sched.due)
      t == RemovePending(c, f)
  IN
  /\ sched.pc = "commit" /\ sched.due # <<>>
  /\ \/ /\ ~MayCommit(f)
        /\ c' = t
        /\ sched' = [sched EXCEPT !.due = Tail(@)]
     \/ /\ MayCommit(f)
        /\ \E u \in IF t.fallbackCount >= MaxRecent THEN EvictFallback(t) ELSE {t} :
             \E v \in MakeRoom(u) :
               c' = Cleaned([v EXCEPT
                      !.cancelled = @ \cup {f},
                      !.fallbackRecent = Remember(@, [record |-> f, seen |-> now]),
                      !.fallbackCount = @ + 1])
        /\ sched' = [sched EXCEPT !.pc = "record"]
  /\ UNCHANGED <<now, wake, flush, call, arrived, requestAt, counted>>

RecordDue ==
  /\ sched.pc = "record"
  /\ counted' = [counted EXCEPT ![Head(sched.due)] = @ + 1]
  /\ sched' = [sched EXCEPT !.pc = "commit", !.due = Tail(@)]
  /\ UNCHANGED <<now, c, wake, flush, call, arrived, requestAt>>

CommitEnd ==
  /\ sched.pc = "commit" /\ sched.due = <<>>
  /\ sched' = [sched EXCEPT !.pc = "check"]
  /\ UNCHANGED <<now, c, wake, flush, call, arrived, requestAt, counted>>

-----------------------------------------------------------------------------
(***************************************************************************)
(* Flush, once, when the plugin shuts down.                                *)
(***************************************************************************)
\* Flush does not touch pendingByStream.
Flush ==
  LET taken == Keep(c.pending, Fallbacks \ c.cancelled) IN
  /\ flush.pc = "idle"
  /\ c' = [c EXCEPT !.closed = TRUE, !.cancelled = @ \cup ToSet(taken),
                    !.heap = @ \ ToSet(taken), !.pending = <<>>, !.pendingCount = 0]
  /\ flush' = [pc |-> "await", taken |-> taken]
  /\ UNCHANGED <<now, wake, sched, call, arrived, requestAt, counted>>

AnyTime == TRUE                                             \* mutant
SchedulerDone == sched.pc = "done"
FlushAwait ==
  /\ flush.pc = "await" /\ SchedulerDone
  /\ flush' = [flush EXCEPT !.pc = "record"]
  /\ UNCHANGED <<now, c, wake, sched, call, arrived, requestAt, counted>>

FlushRecord ==
  /\ flush.pc = "record" /\ flush.taken # <<>>
  /\ counted' = [counted EXCEPT ![Head(flush.taken)] = @ + 1]
  /\ flush' = [flush EXCEPT !.taken = Tail(@)]
  /\ UNCHANGED <<now, c, wake, sched, call, arrived, requestAt>>

FlushReturn ==
  /\ flush.pc = "record" /\ flush.taken = <<>>
  /\ flush' = [flush EXCEPT !.pc = "done"]
  /\ UNCHANGED <<now, c, wake, sched, call, arrived, requestAt, counted>>

Tick ==
  /\ now < MaxTime
  /\ now' = now + 1
  /\ UNCHANGED <<c, wake, sched, flush, call, arrived, requestAt, counted>>

SchedStep ==
  SchedCheck \/ SchedWake \/ SchedTimer \/ SchedStop \/ CommitDue \/ Commit \/ RecordDue
  \/ CommitEnd
FlushStep == FlushAwait \/ FlushRecord \/ FlushReturn

Next ==
  \/ \E f \in Fallbacks : Supersede(f) \/ Schedule(f)
  \/ \E n \in Natives : HandleNative(n) \/ RecordNative(n)
  \/ SchedStep
  \/ Flush \/ FlushStep
  \/ Tick

Spec == Init /\ [][Next]_vars

(***************************************************************************)
(* The scheduler, Flush and the callbacks that have begun go on, and time  *)
(* passes.                                                                 *)
(***************************************************************************)
Fairness ==
  /\ WF_vars(SchedStep) /\ WF_vars(FlushStep) /\ WF_vars(Tick)
  /\ \A n \in Natives : WF_vars(RecordNative(n))

FairSpec == Spec /\ Fairness

-----------------------------------------------------------------------------
(***************************************************************************)
(* Properties.                                                             *)
(***************************************************************************)
Scheduled(f) == call[f] = "done"
Waiting(f) ==
  \/ f \in ToSet(c.pending) \cup ToSet(flush.taken)
  \/ sched.pc = "record" /\ f = Head(sched.due)

\* However a commit, a native record, a newer record of the stream, an eviction
\* and Flush race for a fallback record, exactly one of them gets it: it waits,
\* or is counted, once, or was taken by one of the others.
OneFate ==
  \A f \in Fallbacks : Scheduled(f) =>
    /\ counted[f] <= 1
    /\ Cardinality({x \in {"waits", "counted", "taken"} :
         \/ x = "waits" /\ Waiting(f)
         \/ x = "counted" /\ counted[f] = 1
         \/ x = "taken" /\ c.fate[f] # "open"}) = 1

\* The counters that decide about evictions are what they count, so the
\* coordinator's memory stays in its limits, and every pending record is in the
\* heap or in the scheduler's hands.
LimitsExact ==
  /\ c.pendingCount = Len(c.pending)
  /\ c.nativeCount = Len(c.nativeRecent) /\ c.fallbackCount = Len(c.fallbackRecent)
  /\ Len(c.pending) <= MaxPending
  /\ Len(c.nativeRecent) <= MaxRecent /\ Len(c.fallbackRecent) <= MaxRecent
  /\ Len(c.pending) + Len(c.nativeRecent) + Len(c.fallbackRecent) <= MaxRetained
  /\ c.heap \subseteq ToSet(c.pending)
  /\ ToSet(c.pending) \ c.heap \subseteq ToSet(sched.due)

\* The host delivers the two records of a request in time.
Delivered ==
  \A f \in Fallbacks, n \in Natives :
    Scheduled(f) /\ call[n] # "none" /\ Request[f] = Request[n] =>
      /\ arrived[f] - arrived[n] <= NativeWindow
      /\ arrived[n] - arrived[f] <= Delay + LateWindow

\* No native record carries a time that is late for a fallback record it might
\* meet: late after the decoding of one that it came before, or after the
\* commit of one that it came after.
TimesFit ==
  \A f \in Fallbacks, n \in Natives :
    Scheduled(f) /\ call[n] # "none" /\ Key[f] = Key[n] =>
      /\ arrived[n] <= arrived[f] => requestAt[n] <= requestAt[f] + Slack
      /\ arrived[f] < arrived[n] => requestAt[n] <= arrived[f] + Delay + NativeWindow

Reported(k) == {r \in Records : Key[r] = k /\
                  (IF r \in Fallbacks THEN Scheduled(r) ELSE call[r] # "none")}
CountOf(k) == MapThenSumSet(LAMBDA r : counted[r], {r \in Records : Key[r] = k})

\* The records that were reported with a key name one client, where they name any.
OneClient(k) == Cardinality({Client[r] : r \in Reported(k)} \ {Unknown}) <= 1

\* While the recent lists have room and the plugin runs, no more requests of a
\* key and a client are counted than there were.
NoneTwice ==
  c.forgotten = {} /\ ~c.closed =>
    \A k \in {Key[r] : r \in Records} :
      OneClient(k) => CountOf(k) <= Cardinality({Request[r] : r \in Reported(k)})

\* Requests with equal keys may exchange their records, and still no more of
\* them are counted than there were: a request counts by its native record or
\* by its fallback record, whichever comes first and however the commit falls
\* between them.  It holds for one client, and while no native record carries a
\* time that is late for a fallback record it might meet.
CountedOnce == Delivered /\ TimesFit => NoneTwice

\* When Flush has returned, no fallback record it or the scheduler took is
\* still on its way to the statistics.
FlushComplete == flush.pc = "done" => \A f \in Fallbacks : ~Waiting(f)

\* A pending record does not wait for ever, as signalScheduler reaches the
\* scheduler whichever of the two channels it sleeps on, and Flush returns.
RecordsSettle ==
  /\ \A f \in Fallbacks : f \in ToSet(c.pending) ~> f \notin ToSet(c.pending)
  /\ flush.pc = "await" ~> flush.pc = "done"
=============================================================================
