------------------------ MODULE DashboardCacheProofs ------------------------
(***************************************************************************)
(* What holds of the dashboard's caches and of its answers for every set   *)
(* of events and readers, every limit and any number of changes.           *)
(***************************************************************************)
EXTENDS DashboardCache, FiniteSetTheorems, TLAPS

(***************************************************************************)
(* Types.                                                                  *)
(***************************************************************************)
Steps == {"idle", "check", "ask", "query", "store", "label"}

Typed ==
  /\ now \in 0..MaxTime /\ version \in Nat /\ tx.before \in Nat
  /\ Views[stored] \subseteq ViewType
  /\ \E S : pages \in Seq(S)
  /\ \E S : poll \in [Readers -> [step : Steps, view : ViewType \cup {None},
                                  at : 0..MaxTime, read : S]]
  /\ \E S : copy \in [Readers -> S]

\* A step belongs to a kind of view, and to a mode.
Polled ==
  \A r \in Readers :
    /\ poll[r].step # "idle" => poll[r].view \in ViewType
    /\ poll[r].step \in {"query", "store"} =>
         poll[r].view.kind = "summary" /\ poll[r].view.scoped
    /\ poll[r].step = "query" => stored
    /\ poll[r].step = "label" => stored /\ poll[r].view.kind # "summary"

Shape == Typed /\ Polled

\* Nobody polls at the start.
LEMMA InitShape == Init => Shape
<1> SUFFICES ASSUME Init PROVE Typed /\ Polled
  BY DEF Shape
<1>1. now \in 0..MaxTime /\ version \in Nat /\ tx.before \in Nat
  BY DashboardAssumption DEF Init, NoTx
<1>0. Views[stored] \subseteq ViewType
  BY Zenon, DashboardAssumption DEF Init
<1>2. pages \in Seq({})
  BY DEF Init, NoPages
<1>3. NoPoll \in [step : Steps, view : ViewType \cup {None}, at : 0..MaxTime, read : {None}]
  BY DashboardAssumption DEF NoPoll, Steps
<1>4. poll \in [Readers -> [step : Steps, view : ViewType \cup {None},
                           at : 0..MaxTime, read : {None}]]
  BY <1>3 DEF Init
<1>5. copy \in [Readers -> {None}]
  BY DEF Init
<1>6. Typed
  BY <1>0, <1>1, <1>2, <1>4, <1>5 DEF Typed
<1>7. Polled
  BY DEF Init, Polled, NoPoll
<1>8. QED
  BY <1>6, <1>7

\* A step that is no poll's leaves the polls where they stand.
LEMMA ChangeShape ==
  ASSUME Shape, UNCHANGED <<stored, now, readers>>, UNCHANGED pages \/ pages' = NoPages,
         version' \in Nat, tx'.before \in Nat
  PROVE  Shape'
<1>1. poll' = poll /\ copy' = copy /\ stored' = stored /\ now' = now
  BY DEF readers
<1>2. \E S : pages' \in Seq(S)
  <2>1. CASE pages' = NoPages
    <3>1. pages' \in Seq({})
      BY <2>1 DEF NoPages
    <3>2. QED
      BY <3>1
  <2>2. CASE pages' = pages
    BY <2>2 DEF Shape, Typed
  <2>3. QED
    BY <2>1, <2>2
<1>3. Typed'
  BY <1>1, <1>2 DEF Shape, Typed
<1>4. Polled'
  BY <1>1 DEF Shape, Polled
<1>5. QED
  BY <1>3, <1>4 DEF Shape

-----------------------------------------------------------------------------
(***************************************************************************)
(* What is cached, what a transaction may take back, and what readers      *)
(* keep.                                                                   *)
(***************************************************************************)
\* What is cached for the version of now is what the counters hold now.
Fresh ==
  /\ summary # None /\ summary.version = version =>
       summary.value = [details |-> counted, window |-> summary.value.window]
  /\ ~stored =>
       /\ ranges # None =>
            \A k \in DOMAIN ranges :
              ranges[k].version = version /\ ranges[k].value = Answer(counted, k.view, k.bucket)
       /\ \A i \in DOMAIN pages :
            /\ pages[i].key.view.kind = "events"
            /\ \E t \in 0..MaxTime :
                 /\ Bucket(pages[i].key.view, t) = pages[i].key.bucket
                 /\ pages[i].value = Answer(counted, pages[i].key.view, t)
       /\ index # None /\ index.version = version => index.details = counted

\* A transaction that changed the counters raised the version, and what is
\* cached since then has a version above the one that it may restore.
Undone ==
  /\ ~stored => tx = NoTx
  /\ tx # NoTx =>
       /\ version >= tx.before
       /\ tx.kind = "import" \/ tx.removes # {} => version > tx.before
       /\ summary # None /\ summary.version = tx.before => version = tx.before

\* A copy whose version is the one of now is what the reader would be given.
Copies ==
  \A r \in Readers :
    copy[r] # None /\ ~rolled /\ FromCounters(copy[r].label.view) =>
      /\ copy[r].label.version \in Nat /\ copy[r].label.version <= version
      /\ copy[r].label.version = version =>
           \E t \in 0..MaxTime :
             /\ copy[r].label = ETag(copy[r].label.view, t, version)
             /\ copy[r].value = Answer(counted, copy[r].label.view, t)

DInv == Shape /\ Fresh /\ Undone /\ Copies

\* Equal ETags of one version are those of equal answers.
LEMMA SameAnswer ==
  ASSUME NEW D, NEW view \in ViewType, NEW t \in 0..MaxTime, NEW u \in 0..MaxTime, NEW v,
         ETag(view, t, v) = ETag(view, u, v)
  PROVE  Answer(D, view, t) = Answer(D, view, u)
<1>1. Bucket(view, t) = Bucket(view, u) /\ Window(view, t) = Window(view, u)
  BY DEF ETag
<1>2. CASE view.scoped
  BY <1>1, <1>2 DEF Bucket, Answer
<1>3. CASE ~view.scoped
  BY <1>1, <1>3 DEF Answer, InRange
<1>4. QED
  BY <1>2, <1>3

\* Nothing is cached, copied or undone at the start.
LEMMA InitDInv == Init => DInv
<1> SUFFICES ASSUME Init PROVE Fresh /\ Undone /\ Copies
  BY InitShape DEF DInv
<1>1. Fresh
  BY DEF Init, Fresh, NoPages
<1>2. Undone /\ Copies
  BY DEF Init, Undone, Copies
<1>3. QED
  BY <1>1, <1>2

-----------------------------------------------------------------------------
(***************************************************************************)
(* Changes of the counters and of the rows.                                *)
(***************************************************************************)
\* invalidateSummaryLocked after any change of the counters.
LEMMA RaiseKeeps ==
  ASSUME DInv, Invalidate, UNCHANGED <<stored, now, readers, rolled>>,
         tx' = tx \/ (stored /\ tx'.before = version)
  PROVE  DInv'
<1>1. version \in Nat /\ version' = version + 1 /\ tx.before \in Nat
  BY DEF DInv, Shape, Typed, Invalidate
<1>2. summary' = None /\ ranges' = None /\ pages' = NoPages /\ index' = None
  BY DEF Invalidate, Cleared
<1>3. tx'.before \in Nat
  BY <1>1
<1>4. Shape'
  BY <1>1, <1>2, <1>3, ChangeShape DEF DInv
<1>5. Fresh'
  BY <1>2 DEF Fresh, NoPages
<1>6. Undone'
  BY <1>1, <1>2 DEF DInv, Undone
<1>7. Copies'
  BY <1>1 DEF DInv, Copies, readers, FromCounters
<1>8. QED
  BY <1>4, <1>5, <1>6, <1>7 DEF DInv

\* A change that is none of the counters.
LEMMA StayKeeps ==
  ASSUME DInv, UNCHANGED <<version, caches, counted, stored, now, readers, rolled>>,
         \/ tx' = tx \/ tx' = NoTx
         \/ stored /\ tx'.before = version /\ tx'.kind # "import" /\ tx'.removes = {}
  PROVE  DInv'
<1>1. version \in Nat /\ tx.before \in Nat /\ tx'.before \in Nat /\ version' = version
  BY DEF DInv, Shape, Typed, NoTx
<1>2. summary' = summary /\ ranges' = ranges /\ pages' = pages /\ index' = index
  BY DEF caches
<1>3. Shape'
  BY <1>1, <1>2, ChangeShape DEF DInv
<1>4. Fresh'
  BY <1>1, <1>2 DEF DInv, Fresh
<1>5. Undone'
  BY <1>1, <1>2 DEF DInv, Undone
<1>6. Copies'
  BY <1>1 DEF DInv, Copies, readers, FromCounters
<1>7. QED
  BY <1>3, <1>4, <1>5, <1>6 DEF DInv

\* A failed transaction: either it raised the version, and then nothing that is
\* left was cached with the version it restores, or it changed no counter.
LEMMA RollbackKeeps ==
  ASSUME DInv, Rollback
  PROVE  DInv'
<1>1. /\ tx # NoTx /\ tx' = NoTx /\ version' = tx.before /\ UNCHANGED <<stored, now, readers>>
      /\ version \in Nat /\ tx.before \in Nat /\ tx'.before \in Nat
      /\ rolled' = (rolled \/ version # tx.before)
  BY DEF Rollback, Idle, DInv, Shape, Typed, NoTx
<1>2. stored /\ stored' /\ version >= tx.before
  BY <1>1 DEF DInv, Undone
<1>3. \/ Cleared
      \/ UNCHANGED caches /\ tx.kind = "batch" /\ tx.removes = {} /\ counted' = counted
  BY DEF Rollback
<1>4. pages' = pages \/ pages' = NoPages
  BY <1>3 DEF Cleared, caches
<1>5. Shape'
  BY <1>1, <1>4, ChangeShape DEF DInv
<1>6. CASE version = tx.before
  <2>1. counted' = counted /\ version' = version
    BY <1>1, <1>6 DEF Rollback, DInv, Undone
  <2>2. rolled' <=> rolled
    BY <1>1, <1>6
  <2>3. Copies'
    BY <1>1, <2>1, <2>2 DEF DInv, Copies, readers, FromCounters
  <2>4. Fresh'
    BY <1>2, <1>3, <2>1 DEF DInv, Fresh, Cleared, caches
  <2>5. QED
    BY <1>1, <1>2, <1>5, <2>3, <2>4 DEF DInv, Undone
<1>7. CASE version # tx.before
  <2>1. rolled'
    BY <1>1, <1>7
  <2>2. Copies'
    BY <2>1 DEF Copies
  <2>3. Fresh'
    BY <1>1, <1>2, <1>3, <1>7 DEF DInv, Undone, Fresh, Cleared, caches
  <2>4. QED
    BY <1>1, <1>2, <1>5, <2>2, <2>3 DEF DInv, Undone
<1>8. QED
  BY <1>6, <1>7

\* A transaction begins.
LEMMA OpenKeeps ==
  ASSUME DInv, stored, NEW kind \in {"batch", "prune", "import"}, NEW adds, NEW counts,
         NEW removes, Open(kind, adds, counts, removes), kind = "import" => counts # {}
  PROVE  DInv'
<1>1. /\ tx' = [kind |-> kind, before |-> version, adds |-> adds,
                removes |-> SameEvent(counted, removes)]
      /\ UNCHANGED <<stored, now, readers, rolled>>
  BY DEF Open, Idle
<1>2. CASE counts # {} \/ SameEvent(counted, removes) # {}
  <2>1. Invalidate
    BY <1>2 DEF Open, InvalidateIf
  <2>2. QED
    BY <1>1, <2>1, RaiseKeeps
<1>3. CASE counts = {} /\ SameEvent(counted, removes) = {}
  <2>1. UNCHANGED <<version, caches, counted>>
    BY <1>3 DEF Open, InvalidateIf
  <2>2. QED
    BY <1>1, <1>3, <2>1, StayKeeps
<1>4. QED
  BY <1>2, <1>3

\* Every change.
LEMMA ChangesKeep ==
  ASSUME DInv,
         \/ \E e \in Events : Record(e) \/ ImportRows(e) \/ MergeInMemory(e)
         \/ \E d \in counted : Enrich(d)
         \/ \E d \in rows : EnrichRow(d)
         \/ EnrichCounters \/ WriteBatch \/ PruneRows \/ PruneInMemory \/ Commit \/ Rollback
  PROVE  DInv'
<1>1. ASSUME NEW e \in Events, Record(e) \/ MergeInMemory(e) PROVE DInv'
  BY <1>1, RaiseKeeps DEF Record, MergeInMemory, Idle
<1>2. ASSUME NEW e \in Events, ImportRows(e) PROVE DInv'
  BY <1>2, OpenKeeps DEF ImportRows
<1>3. ASSUME NEW d \in counted, Enrich(d) PROVE DInv'
  BY <1>3, RaiseKeeps DEF Enrich, Idle
<1>4. ASSUME NEW d \in rows, EnrichRow(d) PROVE DInv'
  BY <1>4, StayKeeps DEF EnrichRow, Idle
<1>5. CASE EnrichCounters
  BY <1>5, RaiseKeeps DEF EnrichCounters, Idle
<1>6. CASE WriteBatch
  BY <1>6, OpenKeeps DEF WriteBatch
<1>7. CASE PruneRows
  BY <1>7, OpenKeeps DEF PruneRows
<1>8. CASE PruneInMemory
  <2>1. CASE \E d \in counted : Expired(d)
    BY <1>8, <2>1, RaiseKeeps DEF PruneInMemory, InvalidateIf, Idle
  <2>2. CASE ~\E d \in counted : Expired(d)
    <3>1. UNCHANGED <<version, caches, counted>>
      BY <1>8, <2>2 DEF PruneInMemory, InvalidateIf
    <3>2. QED
      BY <1>8, <3>1, StayKeeps DEF PruneInMemory, Idle
  <2>3. QED
    BY <2>1, <2>2
<1>9. CASE Commit
  BY <1>9, StayKeeps DEF Commit, Idle
<1>10. CASE Rollback
  BY <1>10, RollbackKeeps
<1>11. QED
  BY <1>1, <1>2, <1>3, <1>4, <1>5, <1>6, <1>7, <1>8, <1>9, <1>10

-----------------------------------------------------------------------------
(***************************************************************************)
(* Polls.                                                                  *)
(***************************************************************************)
\* What a poll leaves alone.
Reads == UNCHANGED <<stored, now, counted, tx, version, rolled>>

\* The caches after a lookup are as fresh as before.
Kept == Fresh' /\ Undone' /\ \E S : pages' \in Seq(S)

\* A poll that goes on, or ends without an answer from the counters.
LEMMA MoveKeeps ==
  ASSUME DInv, Reads, Kept, copy' = copy, NEW r \in Readers, NEW p,
         poll' = [poll EXCEPT ![r] = p],
         p.step \in Steps, p.view \in ViewType \cup {None}, p.at \in 0..MaxTime,
         p = [step |-> p.step, view |-> p.view, at |-> p.at, read |-> p.read],
         p.step # "idle" => p.view \in ViewType,
         p.step \in {"query", "store"} => p.view.kind = "summary" /\ p.view.scoped,
         p.step = "query" => stored,
         p.step = "label" => stored /\ p.view.kind # "summary",
         p.step = "idle" /\ poll[r].step # "idle" /\ FromCounters(poll[r].view) /\ ~rolled
           => copy[r].value = Truth(poll[r].view, poll[r].at)
  PROVE  DInv' /\ Answered
<1>1. PICK S : poll \in [Readers -> [step : Steps, view : ViewType \cup {None},
                                   at : 0..MaxTime, read : S]]
  BY DEF DInv, Shape, Typed
<1>2. p \in [step : Steps, view : ViewType \cup {None}, at : 0..MaxTime, read : S \cup {p.read}]
  OBVIOUS
<1>3. poll' \in [Readers -> [step : Steps, view : ViewType \cup {None},
                            at : 0..MaxTime, read : S \cup {p.read}]]
  BY <1>1, <1>2
<1>4. poll'[r] = p /\ \A q \in Readers \ {r} : poll'[q] = poll[q]
  BY <1>1
<1>5. Typed'
  BY <1>3 DEF DInv, Shape, Typed, Reads, Kept
<1>6. Polled'
  BY <1>4 DEF DInv, Shape, Polled, Reads
<1>7. Copies'
  BY DEF DInv, Copies, Reads, FromCounters
<1>8. Answered
  BY <1>4 DEF Answered
<1>9. QED
  BY <1>5, <1>6, <1>7, <1>8 DEF DInv, Shape, Kept

\* A poll that is answered: from the counters, with what they hold and the
\* version of now.
LEMMA ReplyKeeps ==
  ASSUME DInv, Reads, Kept, NEW r \in Readers, NEW value, NEW v, Reply(r, value, v),
         poll[r].step # "idle",
         FromCounters(poll[r].view) =>
           v = version /\ value = Answer(counted, poll[r].view, poll[r].at)
  PROVE  DInv' /\ Answered
<1>1. PICK S : poll \in [Readers -> [step : Steps, view : ViewType \cup {None},
                                   at : 0..MaxTime, read : S]]
  BY DEF DInv, Shape, Typed
<1>2. PICK C : copy \in [Readers -> C]
  BY DEF DInv, Shape, Typed
<1> DEFINE c == [label |-> ETag(poll[r].view, poll[r].at, v), value |-> value]
<1>3. /\ copy' = [copy EXCEPT ![r] = c] /\ poll' = [poll EXCEPT ![r] = NoPoll]
      /\ poll[r].at \in 0..MaxTime
  BY <1>1 DEF Reply
<1>4. NoPoll \in [step : Steps, view : ViewType \cup {None}, at : 0..MaxTime,
                read : S \cup {None}]
  BY DashboardAssumption DEF NoPoll, Steps
<1>5. /\ poll' \in [Readers -> [step : Steps, view : ViewType \cup {None},
                               at : 0..MaxTime, read : S \cup {None}]]
      /\ copy' \in [Readers -> C \cup {c}]
  BY <1>1, <1>2, <1>3, <1>4
<1>6. /\ poll'[r] = NoPoll /\ \A q \in Readers \ {r} : poll'[q] = poll[q]
      /\ copy'[r] = c /\ \A q \in Readers \ {r} : copy'[q] = copy[q]
  BY <1>1, <1>2, <1>3
<1>7. Typed'
  BY <1>5 DEF DInv, Shape, Typed, Reads, Kept
<1>8. Polled'
  BY <1>6 DEF DInv, Shape, Polled, Reads, NoPoll
<1>9. Copies'
  <2>1. ASSUME NEW q \in Readers \ {r}, copy'[q] # None, ~rolled',
               (FromCounters(copy[q].label.view))'
        PROVE  /\ copy'[q].label.version \in Nat /\ copy'[q].label.version <= version'
               /\ copy'[q].label.version = version' =>
                    \E t \in 0..MaxTime :
                      /\ copy'[q].label = ETag(copy'[q].label.view, t, version')
                      /\ copy'[q].value = Answer(counted', copy'[q].label.view, t)
    BY <1>6, <2>1 DEF DInv, Copies, Reads, FromCounters
  <2>2. ASSUME (FromCounters(copy[r].label.view))'
        PROVE  /\ copy'[r].label.version \in Nat /\ copy'[r].label.version <= version'
               /\ \E t \in 0..MaxTime :
                    /\ copy'[r].label = ETag(copy'[r].label.view, t, version')
                    /\ copy'[r].value = Answer(counted', copy'[r].label.view, t)
    <3>1. copy'[r].label.view = poll[r].view /\ copy'[r].label.version = v
      BY <1>6 DEF ETag
    <3>2. FromCounters(poll[r].view)
      BY <2>2, <3>1 DEF FromCounters, Reads
    <3>3. v = version /\ value = Answer(counted, poll[r].view, poll[r].at)
      BY <3>2
    <3>4. version \in Nat /\ version' = version /\ counted' = counted
      BY DEF DInv, Shape, Typed, Reads
    <3>5. /\ copy'[r].label = ETag(poll[r].view, poll[r].at, version)
          /\ copy'[r].value = Answer(counted, poll[r].view, poll[r].at)
      BY <1>6, <3>3
    <3>6. QED
      BY <1>3, <3>1, <3>3, <3>4, <3>5
  <2>3. QED
    BY <2>1, <2>2 DEF Copies
<1>10. Answered
  <2>1. FromCounters(poll[r].view) => copy'[r].value = Truth(poll[r].view, poll[r].at)
    BY <1>6 DEF Truth
  <2>2. QED
    BY <1>6, <2>1 DEF Answered
<1>11. QED
  BY <1>7, <1>8, <1>9, <1>10 DEF DInv, Shape, Kept

\* A poll that goes on to another step, with what it has read.
LEMMA StepKeeps ==
  ASSUME DInv, Reads, Kept, copy' = copy, NEW r \in Readers, NEW step \in Steps \ {"idle"},
         NEW read,
         poll' = [poll EXCEPT ![r] = [step |-> step, view |-> poll[r].view,
                                      at |-> poll[r].at, read |-> read]],
         poll[r].step # "idle",
         step \in {"query", "store"} => poll[r].view.kind = "summary" /\ poll[r].view.scoped,
         step = "query" => stored,
         step = "label" => stored /\ poll[r].view.kind # "summary"
  PROVE  DInv' /\ Answered
<1> DEFINE p == [step |-> step, view |-> poll[r].view, at |-> poll[r].at, read |-> read]
<1>1. poll[r].view \in ViewType /\ poll[r].at \in 0..MaxTime
  BY DEF DInv, Shape, Typed, Polled
<1>2. /\ p.step = step /\ p.view = poll[r].view /\ p.at = poll[r].at /\ p.read = read
      /\ poll' = [poll EXCEPT ![r] = p]
  OBVIOUS
<1> HIDE DEF p
<1>3. p = [step |-> p.step, view |-> p.view, at |-> p.at, read |-> p.read]
  BY <1>2 DEF p
<1>4. QED
  BY <1>1, <1>2, <1>3, MoveKeeps

\* What leaves the caches alone keeps them.
LEMMA CachesKept ==
  ASSUME DInv, Reads, UNCHANGED caches
  PROVE  Kept
<1>1. /\ summary' = summary /\ ranges' = ranges /\ pages' = pages /\ index' = index
      /\ version' = version /\ counted' = counted /\ tx' = tx /\ stored' = stored
  BY DEF caches, Reads
<1>2. Fresh'
  BY <1>1 DEF DInv, Fresh
<1>3. Undone'
  BY <1>1 DEF DInv, Undone
<1>4. QED
  BY <1>1, <1>2, <1>3 DEF DInv, Shape, Typed, Kept

\* The request: its time is taken, then the ETag is compared.
LEMMA PollKeeps ==
  ASSUME DInv, NEW r \in Readers, NEW view \in Views[stored], Poll(r, view)
  PROVE  DInv' /\ Answered
<1> DEFINE p == [step |-> "check", view |-> view, at |-> now, read |-> None]
<1>1. Reads /\ UNCHANGED caches /\ copy' = copy
  BY DEF Poll, Reads, content
<1>2. poll' = [poll EXCEPT ![r] = p]
  BY DEF Poll
<1>3. /\ p.step = "check" /\ p.view \in ViewType /\ p.at \in 0..MaxTime
      /\ p = [step |-> p.step, view |-> p.view, at |-> p.at, read |-> p.read]
  BY DEF DInv, Shape, Typed
<1> HIDE DEF p
<1>4. QED
  BY <1>1, <1>2, <1>3, CachesKept, MoveKeeps DEF Steps

\* dashboardConditionalMatch: equal ETags of this version are of equal answers.
LEMMA CheckKeeps ==
  ASSUME DInv, NEW r \in Readers, Check(r)
  PROVE  DInv' /\ Answered
<1>1. Reads /\ UNCHANGED caches /\ copy' = copy
  BY DEF Check, Reads, Reading, content
<1>2. Kept
  BY <1>1, CachesKept
<1>3. poll[r].step = "check" /\ poll[r].view \in ViewType /\ poll[r].at \in 0..MaxTime
  BY DEF Check, At, DInv, Shape, Typed, Polled
<1>4. CASE /\ copy[r] # None /\ copy[r].label = ETag(poll[r].view, poll[r].at, version)
           /\ poll' = [poll EXCEPT ![r] = NoPoll]
  <2>1. copy[r].label.view = poll[r].view /\ copy[r].label.version = version
    BY <1>4 DEF ETag
  <2>2. ASSUME FromCounters(poll[r].view), ~rolled
        PROVE  copy[r].value = Truth(poll[r].view, poll[r].at)
    <3>1. PICK t \in 0..MaxTime :
            /\ copy[r].label = ETag(poll[r].view, t, version)
            /\ copy[r].value = Answer(counted, poll[r].view, t)
      BY <1>4, <2>1, <2>2 DEF DInv, Copies
    <3>2. Answer(counted, poll[r].view, t) = Answer(counted, poll[r].view, poll[r].at)
      <4>1. ETag(poll[r].view, t, version) = ETag(poll[r].view, poll[r].at, version)
        BY <1>4, <3>1
      <4>2. QED
        BY <1>3, <4>1, SameAnswer
    <3>3. QED
      BY <2>2, <3>1, <3>2 DEF Truth
  <2>3. /\ NoPoll.step = "idle" /\ NoPoll.view = None /\ NoPoll.at = 0
        /\ NoPoll = [step |-> NoPoll.step, view |-> NoPoll.view, at |-> NoPoll.at,
                     read |-> NoPoll.read]
        /\ 0 \in 0..MaxTime
    BY DashboardAssumption DEF NoPoll
  <2>4. QED
    BY <1>1, <1>2, <1>4, <2>2, <2>3, MoveKeeps DEF Steps
<1>5. CASE StepTo(r, "ask", None)
  <2>1. poll' = [poll EXCEPT ![r] = [step |-> "ask", view |-> poll[r].view,
                                     at |-> poll[r].at, read |-> None]]
    BY <1>5 DEF StepTo
  <2>2. "ask" \in Steps \ {"idle"} /\ poll[r].step # "idle"
    BY <1>3 DEF Steps
  <2>3. QED
    BY <1>1, <1>2, <2>1, <2>2, StepKeeps
<1>6. QED
  BY <1>4, <1>5 DEF Check

\* What a step of a poll knows of its poll.
LEMMA PollFacts ==
  ASSUME DInv, NEW r \in Readers, poll[r].step # "idle"
  PROVE  /\ poll[r].view \in ViewType /\ poll[r].at \in 0..MaxTime
         /\ version \in Nat
         /\ poll[r].step \in {"query", "store"} =>
              poll[r].view.kind = "summary" /\ poll[r].view.scoped
         /\ poll[r].step = "query" => stored
         /\ poll[r].step = "label" => stored /\ poll[r].view.kind # "summary"
BY DEF DInv, Shape, Typed, Polled

\* SummaryWithoutDetailsAt: the cached summary is the counters of now.
LEMMA SummaryOfAllKeeps ==
  ASSUME DInv, NEW r \in Readers, SummaryOfAll(r)
  PROVE  DInv' /\ Answered
<1> DEFINE fresh == [version |-> version, value |-> Answer(counted, poll[r].view, poll[r].at)]
           hit == /\ summary # None /\ summary.version = version
                  /\ summary.value.window = Window(poll[r].view, poll[r].at)
           used == IF hit THEN summary ELSE fresh
<1>1. /\ poll[r].step = "ask" /\ ~poll[r].view.scoped
      /\ summary' = used /\ Reply(r, used.value, used.version)
      /\ Reads /\ ranges' = ranges /\ pages' = pages /\ index' = index
  BY DEF SummaryOfAll, Asks, At, Reading, Reads, content
<1>2. used.version = version /\ used.value = Answer(counted, poll[r].view, poll[r].at)
  <2>1. Answer(counted, poll[r].view, poll[r].at) =
          [details |-> counted, window |-> Window(poll[r].view, poll[r].at)]
    BY <1>1 DEF Answer, InRange
  <2>2. CASE hit
    BY <2>1, <2>2 DEF DInv, Fresh
  <2>3. CASE ~hit
    BY <2>3
  <2>4. QED
    BY <2>2, <2>3
<1>3. used.value = [details |-> counted, window |-> used.value.window]
  BY <1>1, <1>2 DEF Answer, InRange
<1> HIDE DEF used
<1>4. Fresh'
  BY <1>1, <1>2, <1>3 DEF DInv, Fresh, Reads
<1>5. Undone'
  BY <1>1, <1>2 DEF DInv, Undone, Reads
<1>6. Kept
  BY <1>1, <1>4, <1>5 DEF DInv, Shape, Typed, Kept
<1>7. poll[r].step # "idle"
  BY <1>1
<1>8. QED
  BY <1>1, <1>2, <1>6, <1>7, ReplyKeeps

\* The lookup of a range: without a database the map holds what the counters
\* hold.
LEMMA SummaryLookupKeeps ==
  ASSUME DInv, NEW r \in Readers, SummaryLookup(r)
  PROVE  DInv' /\ Answered
<1> DEFINE map == IF ranges = None THEN <<>> ELSE ranges
<1>1. /\ poll[r].step = "ask" /\ poll[r].view.scoped /\ poll[r].view.kind = "summary"
      /\ ranges' = map /\ Reads /\ summary' = summary /\ pages' = pages /\ index' = index
  BY DEF SummaryLookup, Asks, At, Reading, Reads, content
<1>2. Fresh'
  <2>1. ASSUME ~stored, NEW k \in DOMAIN map
        PROVE  map[k].version = version /\ map[k].value = Answer(counted, k.view, k.bucket)
    <3>1. ranges # None /\ map = ranges
      BY <2>1
    <3>2. QED
      BY <2>1, <3>1 DEF DInv, Fresh
  <2> HIDE DEF map
  <2>2. QED
    BY <1>1, <2>1 DEF DInv, Fresh, Reads
<1>3. Undone'
  BY <1>1 DEF DInv, Undone, Reads
<1>4. Kept
  BY <1>1, <1>2, <1>3 DEF DInv, Shape, Typed, Kept
<1>5. poll[r].step # "idle"
  BY <1>1
<1>6. CASE Key(r) \in DOMAIN map /\ Reply(r, map[Key(r)].value, map[Key(r)].version)
  <2>1. ASSUME FromCounters(poll[r].view)
        PROVE  /\ map[Key(r)].version = version
               /\ map[Key(r)].value = Answer(counted, poll[r].view, poll[r].at)
    <3>1. ~stored /\ ranges # None /\ map = ranges
      BY <1>1, <1>6, <2>1 DEF FromCounters
    <3>2. Key(r).view = poll[r].view /\ Key(r).bucket = poll[r].at
      BY DEF Key
    <3>3. QED
      BY <1>6, <3>1, <3>2 DEF DInv, Fresh
  <2> HIDE DEF map
  <2>2. QED
    BY <1>1, <1>4, <1>5, <1>6, <2>1, ReplyKeeps
<1>7. CASE StepTo(r, IF stored THEN "query" ELSE "store", None) /\ copy' = copy
  <2> DEFINE step == IF stored THEN "query" ELSE "store"
  <2>1. step \in Steps \ {"idle"} /\ step \in {"query", "store"} /\ (step = "query" => stored)
    BY DEF Steps
  <2>2. poll' = [poll EXCEPT ![r] = [step |-> step, view |-> poll[r].view,
                                     at |-> poll[r].at, read |-> None]]
    BY <1>7 DEF StepTo
  <2>3. copy' = copy
    BY <1>7
  <2> HIDE DEF step
  <2>4. QED
    BY <1>1, <1>4, <1>5, <2>1, <2>2, <2>3, StepKeeps
<1>8. QED
  BY <1>6, <1>7 DEF SummaryLookup

\* The query of a range leaves the caches alone, and so do those of rows.
LEMMA QueriesKeep ==
  ASSUME DInv, NEW r \in Readers, SummaryQuery(r) \/ QueryRows(r)
  PROVE  DInv' /\ Answered
<1>1. Reads /\ UNCHANGED caches /\ copy' = copy
  BY DEF SummaryQuery, QueryRows, Reading, Reads, content
<1>2. Kept
  BY <1>1, CachesKept
<1>3. CASE SummaryQuery(r)
  <2>1. poll[r].step = "query" /\ "store" \in Steps \ {"idle"}
    BY <1>3 DEF SummaryQuery, At, Steps
  <2>2. poll[r].view.kind = "summary" /\ poll[r].view.scoped /\ poll[r].step # "idle"
    BY <2>1, PollFacts
  <2>3. poll' = [poll EXCEPT ![r] = [step |-> "store", view |-> poll[r].view,
                                     at |-> poll[r].at, read |-> rows]]
    BY <1>3 DEF SummaryQuery, StepTo
  <2>4. QED
    BY <1>1, <1>2, <2>1, <2>2, <2>3, StepKeeps
<1>4. CASE QueryRows(r)
  <2>1. /\ poll[r].step # "idle" /\ "label" \in Steps \ {"idle"}
        /\ stored /\ poll[r].view.kind # "summary"
    BY <1>4 DEF QueryRows, At, Steps
  <2>2. poll' = [poll EXCEPT ![r] = [step |-> "label", view |-> poll[r].view,
                                     at |-> poll[r].at, read |-> rows]]
    BY <1>4 DEF QueryRows, StepTo
  <2>3. QED
    BY <1>1, <1>2, <2>1, <2>2, StepKeeps
<1>5. QED
  BY <1>3, <1>4

\* The answer of a range is stored: without a database it is computed from the
\* counters in the critical section that labels and stores it.
LEMMA SummaryStoreKeeps ==
  ASSUME DInv, NEW r \in Readers, SummaryStore(r)
  PROVE  DInv' /\ Answered
<1>1. /\ poll[r].step = "store" /\ Reads
      /\ summary' = summary /\ pages' = pages /\ index' = index
  BY DEF SummaryStore, At, Reads, content
<1>2. poll[r].view.scoped /\ poll[r].step # "idle"
  BY <1>1, PollFacts
<1>3. CASE UNCHANGED <<ranges, readers>>
  <2>1. DInv'
    BY <1>1, <1>3, StayKeeps DEF Reads, caches
  <2>2. poll' = poll
    BY <1>3 DEF readers
  <2>3. QED
    BY <2>1, <2>2 DEF Answered
<1>4. CASE ranges # None
  <2> DEFINE value == RangeSummary(r)
             keys == DOMAIN ranges \cup {Key(r)}
             map == [k \in keys |-> IF k = Key(r) THEN [version |-> version, value |-> value]
                                    ELSE ranges[k]]
  <2>1. PICK kept \in SUBSET keys : ranges' = [k \in kept |-> map[k]]
    BY <1>4 DEF SummaryStore
  <2>2. Reply(r, value, version)
    BY <1>4 DEF SummaryStore
  <2>3. ~stored => value = Answer(counted, poll[r].view, poll[r].at)
    BY DEF RangeSummary
  <2>4. Key(r).view = poll[r].view /\ Key(r).bucket = poll[r].at
    BY DEF Key
  <2> HIDE DEF value
  <2>5. ASSUME ~stored, NEW k \in kept
        PROVE  ranges'[k].version = version /\ ranges'[k].value = Answer(counted, k.view, k.bucket)
    <3>1. ranges'[k] = map[k] /\ k \in keys
      BY <2>1
    <3>2. CASE k = Key(r)
      BY <2>3, <2>4, <2>5, <3>1, <3>2
    <3>3. CASE k # Key(r)
      <4>1. k \in DOMAIN ranges /\ ranges'[k] = ranges[k]
        BY <3>1, <3>3
      <4>2. QED
        BY <1>4, <2>5, <4>1 DEF DInv, Fresh
    <3>4. QED
      BY <3>2, <3>3
  <2>6. DOMAIN ranges' = kept
    BY <2>1
  <2>7. Fresh'
    BY <1>1, <2>5, <2>6 DEF DInv, Fresh, Reads
  <2>8. Undone'
    BY <1>1 DEF DInv, Undone, Reads
  <2>9. Kept
    BY <1>1, <2>7, <2>8 DEF DInv, Shape, Typed, Kept
  <2>10. FromCounters(poll[r].view) => ~stored
    BY <1>2 DEF FromCounters
  <2>11. QED
    BY <1>1, <1>2, <2>2, <2>3, <2>9, <2>10, ReplyKeeps
<1>5. QED
  BY <1>3, <1>4 DEF SummaryStore

\* The index of this version is the one of the counters.
LEMMA IndexedIsCounted ==
  ASSUME DInv, ~stored
  PROVE  Indexed.details = counted /\ Indexed.version = version
BY DEF DInv, Fresh, Indexed

\* A new page goes to the end, and may push the first one out.
Pushed(old, page, new) == new = Append(old, page) \/ new = Tail(Append(old, page))

\* The elements are the new page and pages of before.
OldOr(old, page, new) ==
  /\ \E S : new \in Seq(S)
  /\ \A i \in DOMAIN new : new[i] = page \/ \E j \in DOMAIN old : new[i] = old[j]

\* A page that is pushed leaves only itself and pages of before.
LEMMA PageAdded ==
  ASSUME NEW S, NEW old \in Seq(S), NEW page, NEW new,
         Pushed(old, page, new)
  PROVE  OldOr(old, page, new)
<1> DEFINE added == Append(old, page)
<1>1. /\ added \in Seq(S \cup {page}) /\ Len(added) = Len(old) + 1 /\ Len(old) \in Nat
      /\ added[Len(old) + 1] = page /\ \A j \in 1..Len(old) : added[j] = old[j]
      /\ DOMAIN old = 1..Len(old) /\ DOMAIN added = 1..(Len(old) + 1)
  OBVIOUS
<1>2. \A i \in 1..(Len(old) + 1) : added[i] = page \/ \E j \in DOMAIN old : added[i] = old[j]
  BY <1>1
<1> HIDE DEF added
<1>3. CASE new = added
  BY <1>1, <1>2, <1>3 DEF OldOr
<1>4. CASE new = Tail(added)
  <2>1. added # <<>>
    BY <1>1
  <2>2. /\ new \in Seq(S \cup {page}) /\ DOMAIN new = 1..Len(old)
        /\ \A i \in 1..Len(old) : new[i] = added[i + 1]
    BY <1>1, <1>4, <2>1
  <2>3. ASSUME NEW i \in DOMAIN new
        PROVE  new[i] = page \/ \E j \in DOMAIN old : new[i] = old[j]
    <3>1. i \in 1..Len(old)
      BY <2>2
    <3>2. new[i] = added[i + 1]
      BY <2>2, <3>1
    <3>3. i + 1 \in 1..(Len(old) + 1)
      BY <1>1, <3>1
    <3>4. QED
      BY <1>2, <3>2, <3>3
  <2>4. QED
    BY <2>2, <2>3 DEF OldOr
<1>5. QED
  BY <1>3, <1>4 DEF added, Pushed

\* Pages of events from memory: a cached page has the key, so the bucket, of
\* the request, and no health window.
LEMMA EventsInMemoryKeeps ==
  ASSUME DInv, NEW r \in Readers, EventsInMemory(r)
  PROVE  DInv' /\ Answered
<1> DEFINE view == poll[r].view
           at == poll[r].at
           key == [view |-> view, bucket |-> Bucket(view, at)]
           hits == {i \in DOMAIN pages : pages[i].key = key}
           value == Answer(Indexed.details, view, at)
           page == [key |-> key, value |-> value]
           added == Append(pages, page)
<1>1. /\ poll[r].step = "ask" /\ poll[r].step # "idle" /\ view.kind = "events" /\ ~stored
      /\ Reads /\ summary' = summary /\ ranges' = ranges
  BY DEF EventsInMemory, Asks, At, Reading, Reads, content
<1>2. view \in ViewType /\ at \in 0..MaxTime /\ version \in Nat
  BY <1>1, PollFacts
<1>3. CASE (\E i \in hits : Reply(r, pages[i].value, version)) /\ pages' = pages /\ index' = index
  <2>1. PICK i \in hits : Reply(r, pages[i].value, version)
    BY <1>3
  <2>2. PICK t \in 0..MaxTime :
          /\ Bucket(pages[i].key.view, t) = pages[i].key.bucket
          /\ pages[i].value = Answer(counted, pages[i].key.view, t)
    BY <1>1, <2>1 DEF DInv, Fresh
  <2>3. Bucket(view, t) = Bucket(view, at) /\ pages[i].value = Answer(counted, view, t)
    BY <2>1, <2>2
  <2>4. Window(view, t) = Window(view, at)
    BY <1>1 DEF Window
  <2>5. Answer(counted, view, t) = Answer(counted, view, at)
    BY <1>2, <2>3, <2>4, SameAnswer DEF ETag
  <2>6. UNCHANGED caches
    BY <1>1, <1>3 DEF caches
  <2>7. Kept
    BY <1>1, <2>6, CachesKept
  <2>8. QED
    BY <1>1, <2>1, <2>3, <2>5, <2>7, ReplyKeeps
<1>4. CASE Reply(r, value, version) /\ index' = Indexed /\ (pages' = added \/ pages' = Tail(added))
  <2>1. value = Answer(counted, view, at)
    BY <1>1, IndexedIsCounted
  <2>2. PICK S : pages \in Seq(S)
    BY DEF DInv, Shape, Typed
  <2>3. OldOr(pages, page, pages')
    <3>1. Pushed(pages, page, pages')
      BY <1>4 DEF Pushed
    <3> HIDE DEF page, added
    <3>2. QED
      BY <2>2, <3>1, PageAdded
  <2>4. ASSUME NEW i \in DOMAIN pages'
        PROVE  /\ pages'[i].key.view.kind = "events"
               /\ \E t \in 0..MaxTime :
                    /\ Bucket(pages'[i].key.view, t) = pages'[i].key.bucket
                    /\ pages'[i].value = Answer(counted, pages'[i].key.view, t)
    <3>1. CASE pages'[i] = page
      <4>1. /\ pages'[i].key.view = view /\ pages'[i].key.bucket = Bucket(view, at)
            /\ pages'[i].value = value
        BY <3>1
      <4>2. QED
        BY <1>1, <1>2, <2>1, <4>1
    <3>2. CASE \E j \in DOMAIN pages : pages'[i] = pages[j]
      BY <1>1, <3>2 DEF DInv, Fresh
    <3>3. QED
      BY <2>3, <3>1, <3>2 DEF OldOr
  <2>5. index'.details = counted
    BY <1>1, <1>4, IndexedIsCounted
  <2>6. Fresh'
    <3>1. /\ summary' # None /\ summary'.version = version' =>
               summary'.value = [details |-> counted', window |-> summary'.value.window]
          /\ ranges' # None =>
               \A k \in DOMAIN ranges' :
                 /\ ranges'[k].version = version'
                 /\ ranges'[k].value = Answer(counted', k.view, k.bucket)
      BY <1>1 DEF DInv, Fresh, Reads
    <3>2. counted' = counted
      BY <1>1 DEF Reads
    <3>3. QED
      BY <2>4, <2>5, <3>1, <3>2 DEF Fresh
  <2>7. Undone'
    BY <1>1 DEF DInv, Undone, Reads
  <2>8. Kept
    BY <2>3, <2>6, <2>7 DEF Kept, OldOr
  <2>9. QED
    BY <1>1, <1>4, <2>1, <2>8, ReplyKeeps
<1>5. QED
  <2>1. \/ (\E i \in hits : Reply(r, pages[i].value, version)) /\ pages' = pages /\ index' = index
        \/ Reply(r, value, version) /\ index' = Indexed /\ (pages' = added \/ pages' = Tail(added))
    BY DEF EventsInMemory
  <2>2. QED
    BY <1>3, <1>4, <2>1

\* The detail of an API from memory.
LEMMA DetailInMemoryKeeps ==
  ASSUME DInv, NEW r \in Readers, DetailInMemory(r)
  PROVE  DInv' /\ Answered
<1>1. /\ poll[r].step # "idle" /\ ~stored /\ index' = Indexed
      /\ Reply(r, Answer(Indexed.details, poll[r].view, poll[r].at), version)
      /\ Reads /\ summary' = summary /\ ranges' = ranges /\ pages' = pages
  BY DEF DetailInMemory, Asks, At, Reading, Reads, content
<1>2. Indexed.details = counted
  BY <1>1, IndexedIsCounted
<1>3. Fresh'
  BY <1>1, <1>2 DEF DInv, Fresh, Reads
<1>4. Undone'
  BY <1>1 DEF DInv, Undone, Reads
<1>5. Kept
  BY <1>1, <1>3, <1>4 DEF DInv, Shape, Typed, Kept
<1>6. QED
  BY <1>1, <1>2, <1>5, ReplyKeeps

\* Answers from rows, and queries that fail, are none of the counters.
LEMMA RowsKeep ==
  ASSUME DInv, NEW r \in Readers, LabelRows(r) \/ QueryFails(r)
  PROVE  DInv' /\ Answered
<1>1. Reads /\ UNCHANGED caches
  BY DEF LabelRows, QueryFails, Reading, Reads, content
<1>2. Kept
  BY <1>1, CachesKept
<1>3. poll[r].step # "idle"
  BY DEF LabelRows, QueryFails, At
<1>4. ~FromCounters(poll[r].view)
  BY <1>3, PollFacts DEF LabelRows, QueryFails, At, FromCounters
<1>5. CASE LabelRows(r)
  BY <1>1, <1>2, <1>3, <1>4, <1>5, ReplyKeeps DEF LabelRows
<1>6. CASE QueryFails(r)
  <2>1. copy' = copy /\ poll' = [poll EXCEPT ![r] = NoPoll]
    BY <1>6 DEF QueryFails
  <2>2. /\ NoPoll.step = "idle" /\ NoPoll.view = None /\ NoPoll.at = 0 /\ 0 \in 0..MaxTime
        /\ NoPoll = [step |-> NoPoll.step, view |-> NoPoll.view, at |-> NoPoll.at,
                     read |-> NoPoll.read]
    BY DashboardAssumption DEF NoPoll
  <2>3. QED
    BY <1>1, <1>2, <1>4, <2>1, <2>2, MoveKeeps DEF Steps
<1>7. QED
  BY <1>5, <1>6

\* Time passes.
LEMMA TickKeeps ==
  ASSUME DInv, Tick \/ UNCHANGED vars
  PROVE  DInv'
<1>1. /\ UNCHANGED <<stored, content, version, caches, readers, rolled>>
      /\ now' \in 0..MaxTime
  BY DashboardAssumption DEF Tick, vars, DInv, Shape, Typed
<1>2. /\ counted' = counted /\ tx' = tx /\ poll' = poll /\ copy' = copy
      /\ summary' = summary /\ ranges' = ranges /\ pages' = pages /\ index' = index
  BY <1>1 DEF content, caches, readers
<1>3. Shape'
  BY <1>1, <1>2 DEF DInv, Shape, Typed, Polled
<1>4. Fresh'
  BY <1>1, <1>2 DEF DInv, Fresh
<1>5. Undone'
  BY <1>1, <1>2 DEF DInv, Undone
<1>6. Copies'
  BY <1>1, <1>2 DEF DInv, Copies, FromCounters
<1>7. QED
  BY <1>3, <1>4, <1>5, <1>6 DEF DInv

-----------------------------------------------------------------------------
(***************************************************************************)
(* The theorems.                                                           *)
(***************************************************************************)
\* Every step keeps the invariant, and answers with what it holds.
LEMMA NextKeeps == DInv /\ [Next]_vars => DInv' /\ [Answered]_vars
<1> SUFFICES ASSUME DInv, [Next]_vars
             PROVE  DInv' /\ [Answered]_vars
  OBVIOUS
<1>1. CASE \/ \E e \in Events : Record(e) \/ ImportRows(e) \/ MergeInMemory(e)
           \/ \E d \in counted : Enrich(d)
           \/ \E d \in rows : EnrichRow(d)
           \/ EnrichCounters \/ WriteBatch \/ PruneRows \/ PruneInMemory \/ Commit \/ Rollback
  <2>1. DInv'
    BY <1>1, ChangesKeep
  <2>2. poll' = poll
    BY <1>1 DEF Record, ImportRows, MergeInMemory, Enrich, EnrichRow, EnrichCounters, WriteBatch,
                PruneRows, PruneInMemory, Commit, Rollback, Open, Idle, readers
  <2>3. QED
    BY <2>1, <2>2 DEF Answered
<1>2. ASSUME NEW r \in Readers,
             \/ \E view \in Views[stored] : Poll(r, view)
             \/ Check(r) \/ SummaryOfAll(r) \/ SummaryLookup(r) \/ SummaryQuery(r)
             \/ SummaryStore(r) \/ EventsInMemory(r) \/ DetailInMemory(r)
             \/ QueryRows(r) \/ LabelRows(r) \/ QueryFails(r)
      PROVE  DInv' /\ Answered
  BY <1>2, PollKeeps, CheckKeeps, SummaryOfAllKeeps, SummaryLookupKeeps, QueriesKeep,
     SummaryStoreKeeps, EventsInMemoryKeeps, DetailInMemoryKeeps, RowsKeep
<1>3. CASE Tick
  <2>1. poll' = poll
    BY <1>3 DEF Tick, readers
  <2>2. QED
    BY <1>3, <2>1, TickKeeps DEF Answered
<1>4. CASE UNCHANGED vars
  BY <1>4, TickKeeps
<1>5. QED
  BY <1>1, <1>2, <1>3, <1>4 DEF Next

\* invalidateSummaryLocked (go/stats.go:1345): for every number of events,
\* readers and transactions, what a cache would answer is what the counters
\* hold, also after a failed transaction restored an earlier version.
THEOREM CachesStayFresh == Spec => []CachesFresh
<1>1. DInv => CachesFresh
  BY DEF DInv, Fresh, CachesFresh
<1>2. QED
  BY <1>1, InitDInv, NextKeeps, PTL DEF Spec

\* go/dashboard.go:66, :158, :520: every answer from the counters, a 304 with
\* the reader's own copy too, is what they hold at that moment, as long as no
\* failed transaction has lowered the version.
THEOREM AnswersStayCurrent == Spec => AnswersCurrent
<1>1. DInv /\ [Next]_vars => [Answered]_vars
  BY NextKeeps
<1>2. QED
  BY <1>1, InitDInv, NextKeeps, PTL DEF Spec, AnswersCurrent

-----------------------------------------------------------------------------
(***************************************************************************)
(* The types of the contents, of the caches and of what readers hold, and  *)
(* the limits of the caches.                                               *)
(***************************************************************************)
PageType == [key : [view : ViewType, bucket : 0..MaxTime], value : Value]
Cached == [version : Nat, value : Value]

ContentTypes ==
  /\ stored \in BOOLEAN /\ panicked \in BOOLEAN /\ rolled \in BOOLEAN
  /\ counted \subseteq Detail /\ rows \subseteq Detail /\ queue \subseteq Detail
  /\ moving \subseteq Detail
  /\ tx.kind \in {"none", "batch", "prune", "import"}
  /\ tx.adds \subseteq Detail /\ tx.removes \subseteq Detail

SummaryTypes == summary = None \/ summary \in Cached

RangeTypes ==
  ranges = None \/ /\ IsFiniteSet(DOMAIN ranges) /\ Cardinality(DOMAIN ranges) <= RangeMax
                   /\ \A k \in DOMAIN ranges : ranges[k] \in Cached

PageTypes ==
  /\ pages \in Seq(PageType) /\ Len(pages) <= EventMax
  /\ \A i, j \in DOMAIN pages : pages[i].key = pages[j].key => i = j

IndexTypes == index = None \/ index \in [version : Nat, details : SUBSET Detail]

CacheTypes == SummaryTypes /\ RangeTypes /\ PageTypes /\ IndexTypes

\* A poll that has queried the database has rows to answer from.
ReaderTypes ==
  \A r \in Readers :
    /\ poll[r].read = None \/ poll[r].read \subseteq Detail
    /\ poll[r].step = "store" /\ stored => poll[r].read \subseteq Detail
    /\ poll[r].step = "label" => poll[r].read \subseteq Detail
    /\ copy[r] = None \/ copy[r] \in [label : Label, value : Value]

TInv == ContentTypes /\ CacheTypes /\ ReaderTypes

\* Answers and ETags have their types, whatever the time.
LEMMA AnswerTypes ==
  ASSUME NEW D \in SUBSET Detail, NEW view \in ViewType, NEW t \in 0..MaxTime, NEW v \in Nat
  PROVE  Answer(D, view, t) \in Value /\ ETag(view, t, v) \in Label
<1>1. HealthStep \in Nat /\ HealthStep > 0 /\ t \in Nat /\ MaxTime \in Nat
  BY DashboardAssumption
<1>2. t \div HealthStep \in Nat
  BY <1>1
<1>3. Window(view, t) \in Nat
  BY <1>2 DEF Window
<1>4. InRange(D, view, t) \in SUBSET Detail
  BY DEF InRange
<1>5. Bucket(view, t) \in 0..MaxTime
  BY <1>1 DEF Bucket
<1>6. QED
  BY <1>3, <1>4, <1>5 DEF Answer, ETag, Value, Label

\* Nothing is stored or cached at the start.
LEMMA InitTypes == Init => TInv
<1> SUFFICES ASSUME Init PROVE TInv
  OBVIOUS
<1>1. ContentTypes
  BY DashboardAssumption DEF Init, ContentTypes, NoTx
<1>2. pages \in Seq(PageType) /\ Len(pages) = 0 /\ DOMAIN pages = {}
  BY DEF Init, NoPages
<1>3. CacheTypes
  BY <1>2, DashboardAssumption DEF Init, CacheTypes, SummaryTypes, RangeTypes, PageTypes, IndexTypes
<1>4. ReaderTypes
  BY DEF Init, ReaderTypes, NoPoll
<1>5. QED
  BY <1>1, <1>3, <1>4 DEF TInv

\* invalidateSummaryLocked leaves nothing that could have another type.
LEMMA CachesStayTyped ==
  ASSUME CacheTypes, Cleared \/ UNCHANGED caches
  PROVE  CacheTypes'
<1>1. CASE Cleared
  <2>1. pages' \in Seq(PageType) /\ Len(pages') = 0 /\ DOMAIN pages' = {}
    BY <1>1 DEF Cleared, NoPages
  <2>2. QED
    BY <1>1, <2>1, DashboardAssumption
       DEF Cleared, CacheTypes, SummaryTypes, RangeTypes, PageTypes, IndexTypes
<1>2. CASE UNCHANGED caches
  BY <1>2 DEF caches, CacheTypes, SummaryTypes, RangeTypes, PageTypes, IndexTypes
<1>3. QED
  BY <1>1, <1>2

\* The details that a transaction adds or deletes, and those it leaves, are
\* details.
LEMMA OpenTypes ==
  ASSUME ContentTypes, NEW kind \in {"batch", "prune", "import"},
         NEW adds \in SUBSET Detail, NEW counts \in SUBSET Detail, NEW removes,
         Open(kind, adds, counts, removes)
  PROVE  ContentTypes' /\ (Cleared \/ UNCHANGED caches) /\ UNCHANGED <<stored, readers>>
<1>1. SameEvent(counted, removes) \subseteq Detail
  BY DEF ContentTypes, SameEvent
<1>2. tx' = [kind |-> kind, before |-> version, adds |-> adds,
             removes |-> SameEvent(counted, removes)]
  BY DEF Open
<1>3. counted' \subseteq Detail
  BY <1>1 DEF Open, ContentTypes
<1>4. UNCHANGED <<stored, readers, rows, queue, moving, panicked, rolled>>
  BY DEF Open, Idle
<1>5. Cleared \/ UNCHANGED caches
  BY DEF Open, InvalidateIf, Invalidate
<1>6. QED
  BY <1>1, <1>2, <1>3, <1>4, <1>5 DEF ContentTypes

\* A change of the counters or of the rows.
LEMMA ChangeTypes ==
  ASSUME TInv, Typed,
         \/ \E e \in Events : Record(e) \/ ImportRows(e) \/ MergeInMemory(e)
         \/ \E d \in counted : Enrich(d)
         \/ \E d \in rows : EnrichRow(d)
         \/ EnrichCounters \/ WriteBatch \/ PruneRows \/ PruneInMemory \/ Commit \/ Rollback
  PROVE  TInv'
<1> DEFINE Goal == ContentTypes' /\ (Cleared \/ UNCHANGED caches) /\ UNCHANGED <<stored, readers>>
<1>1. ContentTypes /\ CacheTypes /\ ReaderTypes
  BY DEF TInv
<1>2. ASSUME NEW e \in Events PROVE Plain(e) \in Detail
  BY DEF Plain, Detail, Typed
<1>3. ASSUME NEW d \in Detail PROVE [d EXCEPT !.rich = TRUE] \in Detail
  BY DEF Detail
<1>4. ASSUME NEW e \in Events, Record(e) PROVE Goal
  BY <1>1, <1>2, <1>4 DEF Record, Idle, Invalidate, ContentTypes
<1>5. ASSUME NEW e \in Events, MergeInMemory(e) PROVE Goal
  BY <1>1, <1>2, <1>5 DEF MergeInMemory, Idle, Invalidate, ContentTypes
<1>6. ASSUME NEW e \in Events, ImportRows(e) PROVE Goal
  <2>1. {Plain(e)} \in SUBSET Detail
    BY <1>2
  <2>2. QED
    BY <1>1, <1>6, <2>1, OpenTypes DEF ImportRows
<1>7. ASSUME NEW d \in counted, Enrich(d) PROVE Goal
  BY <1>1, <1>3, <1>7 DEF Enrich, Idle, Invalidate, ContentTypes
<1>8. ASSUME NEW d \in rows, EnrichRow(d) PROVE Goal
  BY <1>1, <1>3, <1>8 DEF EnrichRow, Idle, ContentTypes
<1>9. ASSUME EnrichCounters PROVE Goal
  <2>1. \A d \in Detail : [d EXCEPT !.rich = @ \/ d \in moving] \in Detail
    <3>1. ASSUME NEW d \in Detail PROVE [d EXCEPT !.rich = @ \/ d \in moving] \in Detail
      <4>1. (d.rich \/ d \in moving) \in BOOLEAN
        OBVIOUS
      <4>2. QED
        BY <4>1 DEF Detail
    <3>2. QED
      BY <3>1
  <2>2. counted' = {[d EXCEPT !.rich = @ \/ d \in moving] : d \in counted}
    BY <1>9 DEF EnrichCounters
  <2>3. counted' \subseteq Detail
    BY <1>1, <2>1, <2>2 DEF ContentTypes
  <2>4. Cleared /\ moving' = {} /\ UNCHANGED <<stored, readers, panicked, rolled, rows, queue, tx>>
    BY <1>9 DEF EnrichCounters, Idle, Invalidate
  <2>5. QED
    BY <1>1, <2>3, <2>4 DEF ContentTypes
<1>10. ASSUME WriteBatch PROVE Goal
  <2>1. PICK due \in BOOLEAN :
          Open("batch", queue, {}, {d \in rows \cup queue : due /\ Expired(d)})
    BY <1>10 DEF WriteBatch
  <2>2. queue \in SUBSET Detail /\ {} \in SUBSET Detail
    BY <1>1 DEF ContentTypes
  <2>3. QED
    BY <1>1, <2>1, <2>2, OpenTypes
<1>11. ASSUME PruneRows PROVE Goal
  <2>1. Open("prune", {}, {}, {d \in rows : Expired(d)}) /\ {} \in SUBSET Detail
    BY <1>11 DEF PruneRows
  <2>2. QED
    BY <1>1, <2>1, OpenTypes
<1>12. ASSUME PruneInMemory PROVE Goal
  <2>1. Cleared \/ UNCHANGED caches
    BY <1>12 DEF PruneInMemory, InvalidateIf, Invalidate
  <2>2. counted' \subseteq counted
    BY <1>12 DEF PruneInMemory
  <2>3. UNCHANGED <<stored, readers, panicked, rolled, rows, queue, tx, moving>>
    BY <1>12 DEF PruneInMemory, Idle
  <2>4. QED
    BY <1>1, <2>1, <2>2, <2>3 DEF ContentTypes
<1>13. ASSUME Commit PROVE Goal
  <2>1. rows' \subseteq Detail /\ queue' \subseteq Detail
    BY <1>1, <1>13 DEF Commit, ContentTypes
  <2>2. tx' = NoTx /\ UNCHANGED <<stored, readers, panicked, rolled, counted, moving, caches>>
    BY <1>13 DEF Commit, Idle
  <2>3. QED
    BY <1>1, <2>1, <2>2 DEF ContentTypes, NoTx
<1>14. ASSUME Rollback PROVE Goal
  <2>1. (rolled \/ version # tx.before) \in BOOLEAN
    OBVIOUS
  <2>2. counted' \subseteq Detail
    BY <1>1, <1>14 DEF Rollback, ContentTypes
  <2>3. Cleared \/ UNCHANGED caches
    BY <1>14 DEF Rollback
  <2>4. tx' = NoTx /\ UNCHANGED <<stored, readers, panicked, rows, queue, moving>>
    BY <1>14 DEF Rollback, Idle
  <2>5. rolled' \in BOOLEAN
    BY <1>14, <2>1 DEF Rollback
  <2>6. QED
    BY <1>1, <2>2, <2>3, <2>4, <2>5 DEF ContentTypes, NoTx
<1>15. Goal
  BY <1>4, <1>5, <1>6, <1>7, <1>8, <1>9, <1>10, <1>11, <1>12, <1>13, <1>14
<1>16. CacheTypes'
  BY <1>1, <1>15, CachesStayTyped
<1>17. ReaderTypes'
  BY <1>1, <1>15 DEF ReaderTypes, readers
<1>18. QED
  BY <1>15, <1>16, <1>17 DEF TInv

\* A poll that goes on, with what it has read.
LEMMA MoveTypes ==
  ASSUME ReaderTypes, Typed, UNCHANGED <<copy, stored>>, NEW r \in Readers, NEW p,
         poll' = [poll EXCEPT ![r] = p],
         p.read = None \/ p.read \subseteq Detail,
         p.step = "store" /\ stored => p.read \subseteq Detail,
         p.step = "label" => p.read \subseteq Detail
  PROVE  ReaderTypes'
<1>1. PICK S : poll \in [Readers -> [step : Steps, view : ViewType \cup {None},
                                   at : 0..MaxTime, read : S]]
  BY DEF Typed
<1>2. poll'[r] = p /\ \A q \in Readers \ {r} : poll'[q] = poll[q]
  BY <1>1
<1>3. QED
  BY <1>2 DEF ReaderTypes

\* A poll that is answered.
LEMMA ReplyTypes ==
  ASSUME ReaderTypes, Typed, Polled, stored' = stored, NEW r \in Readers,
         NEW value \in Value, NEW v \in Nat, Reply(r, value, v), poll[r].step # "idle"
  PROVE  ReaderTypes'
<1>1. PICK S : poll \in [Readers -> [step : Steps, view : ViewType \cup {None},
                                   at : 0..MaxTime, read : S]]
  BY DEF Typed
<1>2. PICK C : copy \in [Readers -> C]
  BY DEF Typed
<1> DEFINE c == [label |-> ETag(poll[r].view, poll[r].at, v), value |-> value]
<1>3. /\ poll'[r] = NoPoll /\ \A q \in Readers \ {r} : poll'[q] = poll[q]
      /\ copy'[r] = c /\ \A q \in Readers \ {r} : copy'[q] = copy[q]
  BY <1>1, <1>2 DEF Reply
<1>4. poll[r].view \in ViewType /\ poll[r].at \in 0..MaxTime
  BY <1>1 DEF Polled
<1>5. ETag(poll[r].view, poll[r].at, v) \in Label
  BY <1>4, AnswerTypes
<1>6. c \in [label : Label, value : Value]
  BY <1>5
<1> HIDE DEF c
<1>7. NoPoll.read = None /\ NoPoll.step = "idle"
  BY DEF NoPoll
<1>8. QED
  BY <1>3, <1>6, <1>7 DEF ReaderTypes

\* The steps of a poll that leave the caches alone.
LEMMA QueryTypes ==
  ASSUME TInv, Shape, NEW r \in Readers,
         \/ \E view \in Views[stored] : Poll(r, view)
         \/ Check(r) \/ SummaryQuery(r) \/ QueryRows(r) \/ LabelRows(r) \/ QueryFails(r)
  PROVE  TInv'
<1>1. ContentTypes /\ CacheTypes /\ ReaderTypes /\ Typed /\ Polled
  BY DEF TInv, Shape
<1>2. UNCHANGED <<stored, content, panicked, rolled, caches>>
  BY DEF Poll, Check, SummaryQuery, QueryRows, LabelRows, QueryFails, Reading
<1>3. ContentTypes'
  BY <1>1, <1>2 DEF ContentTypes, content
<1>4. CacheTypes'
  BY <1>1, <1>2, CachesStayTyped
<1>5. stored' = stored /\ rows \subseteq Detail
  BY <1>1, <1>2 DEF ContentTypes
<1>6. CASE LabelRows(r)
  <2>1. poll[r].step = "label" /\ poll[r].step # "idle" /\ poll[r].read \in SUBSET Detail
    BY <1>1, <1>6 DEF LabelRows, At, ReaderTypes
  <2>2. poll[r].view \in ViewType /\ poll[r].at \in 0..MaxTime /\ version \in Nat
    BY <1>1, <2>1 DEF Typed, Polled
  <2>3. Answer(poll[r].read, poll[r].view, poll[r].at) \in Value
    BY <2>1, <2>2, AnswerTypes
  <2>4. ReaderTypes'
    BY <1>1, <1>5, <1>6, <2>1, <2>2, <2>3, ReplyTypes DEF LabelRows
  <2>5. QED
    BY <1>3, <1>4, <2>4 DEF TInv
<1>7. CASE ~LabelRows(r)
  <2>1. /\ copy' = copy
        /\ \E p : /\ poll' = [poll EXCEPT ![r] = p]
                  /\ (p.read = None /\ p.step \notin {"store", "label"}) \/ p.read = rows
    <3> DEFINE To(step, view, at, read) ==
                 poll' = [poll EXCEPT ![r] = [step |-> step, view |-> view, at |-> at,
                                              read |-> read]]
    <3>1. /\ copy' = copy
          /\ \E step, view, at, read :
               /\ To(step, view, at, read)
               /\ (read = None /\ step \notin {"store", "label"}) \/ read = rows
      <4>1. ASSUME NEW view \in Views[stored], Poll(r, view)
            PROVE  copy' = copy /\ To("check", view, now, None)
        BY <4>1 DEF Poll
      <4>2. CASE Check(r)
        BY <4>2 DEF Check, StepTo, NoPoll
      <4>3. CASE SummaryQuery(r) \/ QueryRows(r)
        BY <4>3 DEF SummaryQuery, QueryRows, StepTo
      <4>4. CASE QueryFails(r)
        <5>1. copy' = copy /\ poll' = [poll EXCEPT ![r] = NoPoll]
          BY <4>4 DEF QueryFails
        <5>2. To("idle", None, 0, None)
          BY <5>1 DEF NoPoll
        <5> HIDE DEF To
        <5>3. QED
          BY <5>1, <5>2
      <4> HIDE DEF To
      <4>5. QED
        BY <1>7, <4>1, <4>2, <4>3, <4>4
    <3>2. PICK step, view, at, read :
            /\ To(step, view, at, read)
            /\ (read = None /\ step \notin {"store", "label"}) \/ read = rows
      BY <3>1
    <3> DEFINE p == [step |-> step, view |-> view, at |-> at, read |-> read]
    <3>3. p.read = read /\ p.step = step /\ poll' = [poll EXCEPT ![r] = p]
      BY <3>2
    <3> HIDE DEF p, To
    <3>4. QED
      BY <3>1, <3>2, <3>3
  <2>2. PICK p : /\ poll' = [poll EXCEPT ![r] = p]
                 /\ (p.read = None /\ p.step \notin {"store", "label"}) \/ p.read = rows
    BY <2>1
  <2>3. ReaderTypes'
    BY <1>1, <1>5, <2>1, <2>2, MoveTypes
  <2>4. QED
    BY <1>3, <1>4, <2>3 DEF TInv
<1>8. QED
  BY <1>6, <1>7

\* SummaryWithoutDetailsAt caches what it answers.
LEMMA SummaryOfAllTypes ==
  ASSUME TInv, Shape, NEW r \in Readers, SummaryOfAll(r)
  PROVE  TInv'
<1> DEFINE fresh == [version |-> version, value |-> Answer(counted, poll[r].view, poll[r].at)]
           hit == /\ summary # None /\ summary.version = version
                  /\ summary.value.window = Window(poll[r].view, poll[r].at)
           used == IF hit THEN summary ELSE fresh
<1>1. ContentTypes /\ CacheTypes /\ ReaderTypes /\ Typed /\ Polled
  BY DEF TInv, Shape
<1>2. /\ poll[r].step = "ask" /\ summary' = used /\ Reply(r, used.value, used.version)
      /\ UNCHANGED <<stored, content, panicked, rolled, ranges, pages, index>>
  BY DEF SummaryOfAll, Asks, At, Reading
<1>3. poll[r].view \in ViewType /\ poll[r].at \in 0..MaxTime /\ version \in Nat
  BY <1>1, <1>2 DEF Typed, Polled
<1>4. fresh \in Cached
  <2>1. Answer(counted, poll[r].view, poll[r].at) \in Value
    BY <1>1, <1>3, AnswerTypes DEF ContentTypes
  <2>2. QED
    BY <1>3, <2>1 DEF Cached
<1>5. used \in Cached
  BY <1>1, <1>4 DEF CacheTypes, SummaryTypes
<1> HIDE DEF used
<1>6. used.value \in Value /\ used.version \in Nat
  BY <1>5 DEF Cached
<1>7. ReaderTypes'
  BY <1>1, <1>2, <1>6, ReplyTypes
<1>8. CacheTypes'
  BY <1>1, <1>2, <1>5 DEF CacheTypes, SummaryTypes, RangeTypes, PageTypes, IndexTypes
<1>9. ContentTypes'
  BY <1>1, <1>2 DEF ContentTypes, content
<1>10. QED
  BY <1>7, <1>8, <1>9 DEF TInv

\* The lookup of a range makes the map.
LEMMA SummaryLookupTypes ==
  ASSUME TInv, Shape, NEW r \in Readers, SummaryLookup(r)
  PROVE  TInv'
<1> DEFINE map == IF ranges = None THEN <<>> ELSE ranges
<1>1. ContentTypes /\ CacheTypes /\ ReaderTypes /\ Typed /\ Polled
  BY DEF TInv, Shape
<1>2. /\ poll[r].step = "ask" /\ ranges' = map
      /\ UNCHANGED <<stored, content, panicked, rolled, summary, pages, index>>
  BY DEF SummaryLookup, Asks, At, Reading
<1>3. /\ IsFiniteSet(DOMAIN map) /\ Cardinality(DOMAIN map) <= RangeMax
      /\ \A k \in DOMAIN map : map[k] \in Cached
  <2>1. CASE ranges = None
    <3>1. DOMAIN map = {}
      BY <2>1
    <3>2. IsFiniteSet({}) /\ Cardinality({}) = 0 /\ 0 <= RangeMax
      BY FS_EmptySet, DashboardAssumption
    <3>3. QED
      BY <3>1, <3>2
  <2>2. CASE ranges # None
    BY <1>1, <2>2 DEF CacheTypes, RangeTypes
  <2>3. QED
    BY <2>1, <2>2
<1>4. \/ Key(r) \in DOMAIN map /\ Reply(r, map[Key(r)].value, map[Key(r)].version)
      \/ StepTo(r, IF stored THEN "query" ELSE "store", None) /\ copy' = copy
  BY DEF SummaryLookup
<1> HIDE DEF map
<1>5. RangeTypes'
  BY <1>2, <1>3 DEF RangeTypes
<1>6. CacheTypes'
  BY <1>1, <1>2, <1>5 DEF CacheTypes, SummaryTypes, PageTypes, IndexTypes
<1>7. ContentTypes'
  BY <1>1, <1>2 DEF ContentTypes, content
<1>8. ReaderTypes'
  <2>1. CASE Key(r) \in DOMAIN map /\ Reply(r, map[Key(r)].value, map[Key(r)].version)
    <3>1. map[Key(r)].value \in Value /\ map[Key(r)].version \in Nat
      BY <1>3, <2>1 DEF Cached
    <3>2. stored' = stored /\ poll[r].step # "idle"
      BY <1>2
    <3>3. QED
      BY <1>1, <2>1, <3>1, <3>2, ReplyTypes
  <2>2. CASE StepTo(r, IF stored THEN "query" ELSE "store", None) /\ copy' = copy
    <3> DEFINE step == IF stored THEN "query" ELSE "store"
               p == [step |-> step, view |-> poll[r].view, at |-> poll[r].at, read |-> None]
    <3>1. poll' = [poll EXCEPT ![r] = p]
      BY <2>2 DEF StepTo
    <3>2. p.read = None /\ ~(p.step = "store" /\ stored) /\ p.step # "label"
      OBVIOUS
    <3> HIDE DEF p
    <3>3. copy' = copy /\ stored' = stored
      BY <1>2, <2>2
    <3>4. QED
      BY <1>1, <3>1, <3>2, <3>3, MoveTypes
  <2>3. QED
    BY <1>4, <2>1, <2>2
<1>9. QED
  BY <1>6, <1>7, <1>8 DEF TInv

\* The answer of a range is stored, and the map pruned to its limit.
LEMMA SummaryStoreTypes ==
  ASSUME TInv, Shape, NEW r \in Readers, SummaryStore(r)
  PROVE  TInv'
<1>1. ContentTypes /\ CacheTypes /\ ReaderTypes /\ Typed /\ Polled
  BY DEF TInv, Shape
<1>2. /\ poll[r].step = "store" /\ UNCHANGED <<stored, content, rolled, summary, pages, index>>
      /\ panicked' \in BOOLEAN
  BY <1>1 DEF SummaryStore, At, ContentTypes
<1>3. ContentTypes'
  BY <1>1, <1>2 DEF ContentTypes, content
<1>4. CASE ranges = None
  <2>1. ranges' = ranges /\ poll' = poll /\ copy' = copy
    BY <1>4 DEF SummaryStore, readers
  <2>2. CacheTypes'
    BY <1>1, <1>2, <2>1 DEF CacheTypes, SummaryTypes, RangeTypes, PageTypes, IndexTypes
  <2>3. ReaderTypes'
    BY <1>1, <1>2, <2>1 DEF ReaderTypes
  <2>4. QED
    BY <1>3, <2>2, <2>3 DEF TInv
<1>5. CASE ranges # None
  <2> DEFINE value == RangeSummary(r)
             keys == DOMAIN ranges \cup {Key(r)}
             map == [k \in keys |-> IF k = Key(r) THEN [version |-> version, value |-> value]
                                    ELSE ranges[k]]
  <2>1. PICK kept \in SUBSET keys : PrunedTo(map, Key(r), kept) /\ ranges' = [k \in kept |-> map[k]]
    BY <1>5 DEF SummaryStore
  <2>2. Reply(r, value, version)
    BY <1>5 DEF SummaryStore
  <2>3. poll[r].view \in ViewType /\ poll[r].at \in 0..MaxTime /\ version \in Nat
    BY <1>1, <1>2 DEF Typed, Polled
  <2>4. value \in Value
    <3>1. (IF stored THEN poll[r].read ELSE counted) \in SUBSET Detail
      BY <1>1, <1>2 DEF ReaderTypes, ContentTypes
    <3>2. QED
      BY <2>3, <3>1, AnswerTypes DEF RangeSummary
  <2> HIDE DEF value
  <2>5. IsFiniteSet(DOMAIN ranges) /\ \A k \in DOMAIN ranges : ranges[k] \in Cached
    BY <1>1, <1>5 DEF CacheTypes, RangeTypes
  <2>6. IsFiniteSet(keys) /\ Cardinality(keys) \in Nat
    BY <2>5, FS_AddElement, FS_CardinalityType
  <2>7. DOMAIN map = keys /\ \A k \in keys : map[k] \in Cached
    BY <2>3, <2>4, <2>5 DEF Cached
  <2> HIDE DEF map
  <2>8. IsFiniteSet(kept)
    BY <2>6, FS_Subset
  <2>9. Cardinality(kept) <= RangeMax
    <3>1. Cardinality(kept) = Min({RangeMax, Cardinality(keys)})
      BY <2>1, <2>7 DEF PrunedTo
    <3>2. RangeMax \in Nat
      BY DashboardAssumption
    <3> DEFINE c == Cardinality(keys)
    <3>3. c \in Nat
      BY <2>6
    <3> HIDE DEF c
    <3>4. \E x \in {RangeMax, c} : \A y \in {RangeMax, c} : x <= y
      BY <3>2, <3>3
    <3>5. Min({RangeMax, c}) <= RangeMax
      BY <3>2, <3>3, <3>4 DEF Min
    <3>6. QED
      BY <3>1, <3>5 DEF c
  <2>10. DOMAIN ranges' = kept /\ \A k \in kept : ranges'[k] \in Cached
    BY <2>1, <2>7
  <2>11. RangeTypes'
    BY <2>8, <2>9, <2>10 DEF RangeTypes
  <2>12. CacheTypes'
    BY <1>1, <1>2, <2>11 DEF CacheTypes, SummaryTypes, PageTypes, IndexTypes
  <2>13. ReaderTypes'
    <3>1. stored' = stored /\ poll[r].step # "idle"
      BY <1>2
    <3>2. QED
      BY <1>1, <2>2, <2>3, <2>4, <3>1, ReplyTypes
  <2>14. QED
    BY <1>3, <2>12, <2>13 DEF TInv
<1>6. QED
  BY <1>4, <1>5

\* What pushing an element out leaves.
LEMMA Pushes ==
  ASSUME NEW S, NEW s \in Seq(S), NEW n \in Nat, Len(s) = n + 1
  PROVE  /\ Tail(s) \in Seq(S) /\ Len(Tail(s)) = n /\ DOMAIN Tail(s) = 1..n
         /\ \A i \in 1..n : Tail(s)[i] = s[i + 1]
<1>1. s # <<>>
  OBVIOUS
<1>2. QED
  BY <1>1

\* A page with a new key keeps the keys apart, and the oldest one makes room.
LEMMA PagesApart ==
  ASSUME PageTypes, NEW page \in PageType, NEW new, \A i \in DOMAIN pages : pages[i].key # page.key,
         new = IF Len(Append(pages, page)) > EventMax THEN Tail(Append(pages, page))
               ELSE Append(pages, page)
  PROVE  /\ new \in Seq(PageType) /\ Len(new) <= EventMax
         /\ \A i, j \in DOMAIN new : new[i].key = new[j].key => i = j
<1> DEFINE added == Append(pages, page)
<1>1. /\ pages \in Seq(PageType) /\ Len(pages) \in Nat /\ Len(pages) <= EventMax
      /\ DOMAIN pages = 1..Len(pages) /\ EventMax \in Nat \ {0}
      /\ \A i, j \in DOMAIN pages : pages[i].key = pages[j].key => i = j
  BY DashboardAssumption DEF PageTypes
<1>2. /\ added \in Seq(PageType) /\ Len(added) = Len(pages) + 1
      /\ DOMAIN added = 1..(Len(pages) + 1) /\ added[Len(pages) + 1] = page
      /\ \A i \in 1..Len(pages) : added[i] = pages[i]
  BY <1>1
<1> HIDE DEF added
<1>3. \A i, j \in DOMAIN added : added[i].key = added[j].key => i = j
  <2>1. ASSUME NEW i \in 1..(Len(pages) + 1), NEW j \in 1..(Len(pages) + 1),
               added[i].key = added[j].key
        PROVE  i = j
    <3>1. CASE i \in 1..Len(pages) /\ j \in 1..Len(pages)
      BY <1>1, <1>2, <2>1, <3>1
    <3>2. CASE i = Len(pages) + 1 /\ j \in 1..Len(pages)
      BY <1>1, <1>2, <2>1, <3>2
    <3>3. CASE i \in 1..Len(pages) /\ j = Len(pages) + 1
      BY <1>1, <1>2, <2>1, <3>3
    <3>4. QED
      BY <1>1, <3>1, <3>2, <3>3
  <2>2. QED
    BY <1>2, <2>1
<1>4. CASE new = added /\ ~(Len(added) > EventMax)
  BY <1>1, <1>2, <1>3, <1>4
<1>5. CASE new = Tail(added)
  <2>1. added \in Seq(PageType) /\ Len(pages) \in Nat /\ Len(added) = Len(pages) + 1
    BY <1>1, <1>2
  <2>2. /\ new \in Seq(PageType) /\ Len(new) = Len(pages) /\ DOMAIN new = 1..Len(pages)
        /\ \A i \in 1..Len(pages) : new[i] = added[i + 1]
    BY <1>5, <2>1, Pushes
  <2>3. ASSUME NEW i \in 1..Len(pages), NEW j \in 1..Len(pages), new[i].key = new[j].key
        PROVE  i = j
    <3>1. i + 1 \in DOMAIN added /\ j + 1 \in DOMAIN added
      BY <1>1, <1>2
    <3>4. new[i] = added[i + 1] /\ new[j] = added[j + 1]
      BY <2>2
    <3>2. i + 1 = j + 1
      BY <1>3, <2>3, <3>1, <3>4
    <3>3. QED
      BY <3>2
  <2>4. QED
    BY <1>1, <2>2, <2>3
<1>6. QED
  BY <1>4, <1>5 DEF added

\* The index, of before or rebuilt, has its type.
LEMMA IndexTyped ==
  ASSUME TInv, Typed
  PROVE  Indexed \in [version : Nat, details : SUBSET Detail]
BY DEF TInv, ContentTypes, CacheTypes, IndexTypes, Typed, Indexed

\* What memory answers and caches.
LEMMA MemoryTypes ==
  ASSUME TInv, Shape, NEW r \in Readers, EventsInMemory(r) \/ DetailInMemory(r)
  PROVE  TInv'
<1> DEFINE view == poll[r].view
           at == poll[r].at
           key == [view |-> view, bucket |-> Bucket(view, at)]
           hits == {i \in DOMAIN pages : pages[i].key = key}
           value == Answer(Indexed.details, view, at)
           page == [key |-> key, value |-> value]
           added == Append(pages, page)
<1>1. ContentTypes /\ CacheTypes /\ ReaderTypes /\ Typed /\ Polled
  BY DEF TInv, Shape
<1>2. /\ poll[r].step # "idle" /\ stored' = stored
      /\ UNCHANGED <<content, panicked, rolled, summary, ranges>>
  BY DEF EventsInMemory, DetailInMemory, Asks, At, Reading
<1>3. view \in ViewType /\ at \in 0..MaxTime /\ version \in Nat
  BY <1>1, <1>2 DEF Typed, Polled
<1>4. ContentTypes'
  BY <1>1, <1>2 DEF ContentTypes, content
<1>5. Indexed \in [version : Nat, details : SUBSET Detail]
  BY <1>1, IndexTyped
<1>6. value \in Value /\ ETag(view, at, version) \in Label
  BY <1>3, <1>5, AnswerTypes
<1>7. CASE (\E i \in hits : Reply(r, pages[i].value, version)) /\ pages' = pages /\ index' = index
  <2>1. PICK i \in hits : Reply(r, pages[i].value, version)
    BY <1>7
  <2>2. pages[i].value \in Value
    <3>1. pages \in Seq(PageType) /\ i \in DOMAIN pages
      BY <1>1, <2>1 DEF CacheTypes, PageTypes
    <3>2. pages[i] \in PageType
      BY <3>1
    <3>3. QED
      BY <3>2 DEF PageType
  <2>3. ReaderTypes'
    BY <1>1, <1>2, <1>3, <2>1, <2>2, ReplyTypes
  <2>4. CacheTypes'
    BY <1>1, <1>2, <1>7 DEF CacheTypes, SummaryTypes, RangeTypes, PageTypes, IndexTypes
  <2>5. QED
    BY <1>4, <2>3, <2>4 DEF TInv
<1>8. CASE /\ Reply(r, value, version) /\ index' = Indexed
           /\ \/ pages' = pages
              \/ hits = {} /\ pages' = IF Len(added) > EventMax THEN Tail(added) ELSE added
  <2>1. ReaderTypes'
    BY <1>1, <1>2, <1>3, <1>6, <1>8, ReplyTypes
  <2>2. PageTypes'
    <3>1. CASE pages' = pages
      BY <1>1, <3>1 DEF CacheTypes, PageTypes
    <3>2. CASE hits = {} /\ pages' = IF Len(added) > EventMax THEN Tail(added) ELSE added
      <4>1. page \in PageType
        <5>1. MaxTime \in Nat
          BY DashboardAssumption
        <5>2. Bucket(view, at) \in 0..MaxTime
          BY <1>3, <5>1 DEF Bucket
        <5>3. QED
          BY <1>3, <1>6, <5>2 DEF PageType
      <4>2. \A i \in DOMAIN pages : pages[i].key # page.key
        BY <3>2
      <4> HIDE DEF page
      <4>3. QED
        BY <1>1, <3>2, <4>1, <4>2, PagesApart DEF CacheTypes, PageTypes
    <3>3. QED
      BY <1>8, <3>1, <3>2
  <2>3. IndexTypes'
    BY <1>5, <1>8 DEF IndexTypes
  <2>4. CacheTypes'
    BY <1>1, <1>2, <2>2, <2>3 DEF CacheTypes, SummaryTypes, RangeTypes
  <2>5. QED
    BY <1>4, <2>1, <2>4 DEF TInv
<1>9. QED
  <2>1. CASE EventsInMemory(r)
    BY <1>7, <1>8, <2>1 DEF EventsInMemory
  <2>2. CASE DetailInMemory(r)
    BY <1>8, <2>2 DEF DetailInMemory
  <2>3. QED
    BY <2>1, <2>2

\* Every step keeps the types.
LEMMA NextTypes == TInv /\ Shape /\ [Next]_vars => TInv'
<1> SUFFICES ASSUME TInv, Shape, [Next]_vars PROVE TInv'
  OBVIOUS
<1>1. CASE \/ \E e \in Events : Record(e) \/ ImportRows(e) \/ MergeInMemory(e)
           \/ \E d \in counted : Enrich(d)
           \/ \E d \in rows : EnrichRow(d)
           \/ EnrichCounters \/ WriteBatch \/ PruneRows \/ PruneInMemory \/ Commit \/ Rollback
  BY <1>1, ChangeTypes DEF Shape
<1>2. ASSUME NEW r \in Readers,
             \/ \E view \in Views[stored] : Poll(r, view)
             \/ Check(r) \/ SummaryOfAll(r) \/ SummaryLookup(r) \/ SummaryQuery(r)
             \/ SummaryStore(r) \/ EventsInMemory(r) \/ DetailInMemory(r)
             \/ QueryRows(r) \/ LabelRows(r) \/ QueryFails(r)
      PROVE  TInv'
  BY <1>2, QueryTypes, SummaryOfAllTypes, SummaryLookupTypes, SummaryStoreTypes, MemoryTypes
<1>3. CASE Tick \/ UNCHANGED vars
  <2>1. UNCHANGED <<stored, content, caches, readers, panicked, rolled>>
    BY <1>3 DEF Tick, vars
  <2>2. ContentTypes'
    BY <2>1 DEF TInv, ContentTypes, content
  <2>3. CacheTypes'
    BY <2>1, CachesStayTyped DEF TInv
  <2>4. ReaderTypes'
    BY <2>1 DEF TInv, ReaderTypes, readers
  <2>5. QED
    BY <2>2, <2>3, <2>4 DEF TInv
<1>4. QED
  BY <1>1, <1>2, <1>3 DEF Next

\* Every variable has its type, and the caches keep their limits: for every size
\* of them, a page is cached once and never more than eventQueryCacheMax of them,
\* and the map of ranges is pruned in the step that adds to it.
THEOREM CacheTypesKept == Spec => []TypeOK
<1>1. TInv /\ Shape => TypeOK
  <2> SUFFICES ASSUME TInv, Shape PROVE TypeOK
    OBVIOUS
  <2>1. ContentTypes /\ CacheTypes /\ ReaderTypes /\ Typed /\ Polled
    BY DEF TInv, Shape
  <2>2. \A r \in Readers : poll[r].step \in Steps /\ poll[r].view \in ViewType \cup {None}
    BY <2>1 DEF Typed
  <2>3. summary = None \/ summary \in [version : Nat, value : Value]
    BY <2>1 DEF CacheTypes, SummaryTypes, Cached
  <2>4. \/ ranges = None
        \/ /\ Cardinality(DOMAIN ranges) <= RangeMax
           /\ \A k \in DOMAIN ranges : ranges[k] \in [version : Nat, value : Value]
    BY <2>1 DEF CacheTypes, RangeTypes, Cached
  <2>5. Len(pages) <= EventMax /\ \A i, j \in DOMAIN pages : pages[i].key = pages[j].key => i = j
    BY <2>1 DEF CacheTypes, PageTypes
  <2>6. index = None \/ index \in [version : Nat, details : SUBSET Detail]
    BY <2>1 DEF CacheTypes, IndexTypes
  <2>7. \A r \in Readers :
          /\ poll[r].step \in {"idle", "check", "ask", "query", "store", "label"}
          /\ poll[r].view \in ViewType \cup {None}
          /\ poll[r].read = None \/ poll[r].read \subseteq Detail
          /\ copy[r] = None \/ copy[r] \in [label : Label, value : Value]
    BY <2>1, <2>2 DEF ReaderTypes, Steps
  <2>8. QED
    BY <2>1, <2>3, <2>4, <2>5, <2>6, <2>7 DEF Typed, ContentTypes, TypeOK
<1>2. DInv => Shape
  BY DEF DInv
<1>3. QED
  BY <1>1, <1>2, InitTypes, InitDInv, NextTypes, NextKeeps, PTL DEF Spec
=============================================================================
