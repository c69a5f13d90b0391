---------------------------- MODULE DashboardCache ----------------------------
(***************************************************************************)
(* How the dashboard answers (go/dashboard.go) from the statistics         *)
(* (go/stats.go): the version that every change of the counters raises,    *)
(* the caches that it clears, the ETags that are made of it and the 304    *)
(* answers that they allow, while events are recorded, written by the      *)
(* batch, enriched, imported and pruned (go/event_writer.go).              *)
(*                                                                         *)
(* A poll takes its time first, reads the version, compares ETags, and     *)
(* then queries.  With a database the summary of all time still comes from *)
(* the counters; everything else is read from the rows without s.mu and    *)
(* labelled, or cached, with the version of a later moment.  A summary, a  *)
(* page or an API's detail is the set of details it is computed from; the  *)
(* clock's step is the bucket of the range caches (one minute).            *)
(***************************************************************************)
EXTENDS Integers, Sequences, FiniteSets, FiniteSetsExt

CONSTANTS
  Events, Readers,
  Views,                     (* what readers poll with, and without, a database *)
  Modes,                     (* whether a database is configured             *)
  Span, Retention,           (* in steps of the clock                        *)
  HealthStep,                (* dashboardHealthStep, in steps of the clock   *)
  RangeMax, EventMax,        (* dashboardSummaryRangeCacheMax, ...EventCacheMax *)
  None,
  MaxTime, MaxPolls, MaxTx   (* bounds: time, polls, transactions            *)

ViewType == [kind : {"summary", "events", "detail"}, scoped : BOOLEAN]

ASSUME DashboardAssumption ==
  /\ Views \in [BOOLEAN -> SUBSET ViewType] /\ Modes \subseteq BOOLEAN
  /\ Span \in Nat /\ Retention \in Nat /\ HealthStep \in Nat \ {0}
  /\ RangeMax \in Nat \ {0} /\ EventMax \in Nat \ {0}
  /\ MaxTime \in Nat /\ MaxPolls \in Nat /\ MaxTx \in Nat

VARIABLES
  stored, now,
  counted,    (* the details that the counters hold                          *)
  rows,       (* the details in the database                                 *)
  queue,      (* counted, to be written by the next batch                    *)
  version,    (* summaryVersion                                              *)
  summary,    (* summaryCache, None when it is not valid                     *)
  ranges,     (* summaryRangeCache and its windows by key, None when nil     *)
  pages,      (* eventQueryCache in the order of eventQueryCacheOrder        *)
  index,      (* eventIndex and eventIndexVersion                            *)
  tx,         (* the open transaction                                        *)
  moving,     (* a row was enriched, the counters do not know it yet         *)
  poll,       (* where each reader's poll stands                             *)
  copy,       (* what each reader keeps of its last answer                   *)
  panicked,
  rolled,     (* observer: a failed transaction lowered the version          *)
  polls, work (* polls, and transactions and changes of memory so far        *)

content == <<counted, rows, queue, tx, moving>>
caches == <<summary, ranges, pages, index>>
readers == <<poll, copy>>
vars == <<stored, now, content, version, caches, readers, panicked, rolled, polls, work>>

Detail == [event : Events, at : 0..MaxTime, rich : BOOLEAN]
Value == [details : SUBSET Detail, window : Nat]
Label == [view : ViewType, version : Nat, bucket : 0..MaxTime, window : Nat]
NoTx == [kind |-> "none", before |-> 0, adds |-> {}, removes |-> {}]
NoPoll == [step |-> "idle", view |-> None, at |-> 0, read |-> None]
NoPages == <<>>

\* Every variable has its type, and the caches keep their limits.
TypeOK ==
  /\ stored \in BOOLEAN /\ now \in 0..MaxTime /\ version \in Nat
  /\ counted \subseteq Detail /\ rows \subseteq Detail /\ queue \subseteq Detail
  /\ summary = None \/ summary \in [version : Nat, value : Value]
  /\ \/ ranges = None
     \/ /\ Cardinality(DOMAIN ranges) <= RangeMax
        /\ \A k \in DOMAIN ranges : ranges[k] \in [version : Nat, value : Value]
  /\ Len(pages) <= EventMax
  /\ \A i, j \in DOMAIN pages : pages[i].key = pages[j].key => i = j
  /\ index = None \/ index \in [version : Nat, details : SUBSET Detail]
  /\ tx.kind \in {"none", "batch", "prune", "import"} /\ tx.before \in Nat
  /\ tx.adds \subseteq Detail /\ tx.removes \subseteq Detail
  /\ moving \subseteq Detail
  /\ \A r \in Readers :
       /\ poll[r].step \in {"idle", "check", "ask", "query", "store", "label"}
       /\ poll[r].view \in ViewType \cup {None}
       /\ poll[r].read = None \/ poll[r].read \subseteq Detail
       /\ copy[r] = None \/ copy[r] \in [label : Label, value : Value]
  /\ panicked \in BOOLEAN /\ rolled \in BOOLEAN

-----------------------------------------------------------------------------
(* Contents, answers and ETags.                                            *)

Expired(d) == d.at < now - Retention

\* The grid of health slots of a summary ends with the step of its time.
Window(view, t) == IF view.kind = "summary" THEN t \div HealthStep + 1 ELSE 0

InRange(details, view, t) ==
  IF view.scoped THEN {d \in details : d.at >= t - Span} ELSE details
Answer(details, view, t) ==
  [details |-> InRange(details, view, t), window |-> Window(view, t)]

FromCounters(view) == ~stored \/ (view.kind = "summary" /\ ~view.scoped)

\* What a reader should be shown at this moment.
Truth(view, t) == Answer(IF FromCounters(view) THEN counted ELSE rows, view, t)

Bucket(view, t) == IF view.scoped THEN t ELSE 0
ETagOfVersion(view, t, v) ==                                   \* mutant
  [view |-> view, version |-> v, bucket |-> 0, window |-> Window(view, t)]
ETag(view, t, v) ==
  [view |-> view, version |-> v, bucket |-> Bucket(view, t), window |-> Window(view, t)]

-----------------------------------------------------------------------------
(* Changes of the counters and of the rows.                                *)

\* invalidateSummaryLocked without the version.
ClearedAllButSummary ==                                        \* mutant
  ranges' = None /\ pages' = NoPages /\ index' = None /\ UNCHANGED summary
Cleared == summary' = None /\ ranges' = None /\ pages' = NoPages /\ index' = None

Invalidate == version' = version + 1 /\ Cleared
InvalidateIf(changed) ==
  IF changed THEN Invalidate ELSE UNCHANGED <<version, caches>>

Worked == work < MaxTx /\ work' = work + 1
Idle == UNCHANGED <<stored, now, readers, panicked, polls>>
Recorded(e) == e \in {d.event : d \in counted \cup rows \cup tx.removes}
Plain(e) == [event |-> e, at |-> now, rich |-> FALSE]
SameEvent(a, b) == {d \in a : d.event \in {x.event : x \in b}}

\* Record and recordDetailLocked: with a database the detail is queued,
\* otherwise it is kept and expired ones are removed.
Record(e) ==
  /\ ~panicked /\ ~Recorded(e)
  /\ LET held == counted \cup {Plain(e)} IN
     IF stored THEN counted' = held /\ queue' = queue \cup {Plain(e)}
     ELSE counted' = {d \in held : ~Expired(d)} /\ UNCHANGED queue
  /\ Invalidate
  /\ Idle /\ UNCHANGED <<rows, tx, moving, rolled, work>>

\* EnrichRecordedUsage: in memory at once; in the database the row is
\* committed before the counters follow.
Enrich(d) ==
  /\ ~panicked /\ ~stored /\ d \in counted /\ ~d.rich /\ Worked
  /\ counted' = (counted \ {d}) \cup {[d EXCEPT !.rich = TRUE]}
  /\ Invalidate
  /\ Idle /\ UNCHANGED <<rows, queue, tx, moving, rolled>>

EnrichRow(d) ==
  /\ ~panicked /\ stored /\ tx = NoTx /\ d \in rows /\ ~d.rich /\ moving = {}
  /\ rows' = (rows \ {d}) \cup {[d EXCEPT !.rich = TRUE]}
  /\ moving' = {d}
  /\ Idle /\ UNCHANGED <<version, caches, counted, queue, tx, rolled, work>>

EnrichCounters ==
  /\ ~panicked /\ moving # {}
  /\ counted' = {[d EXCEPT !.rich = @ \/ d \in moving] : d \in counted}
  /\ moving' = {}
  /\ Invalidate
  /\ Idle /\ UNCHANGED <<rows, queue, tx, rolled, work>>

\* The in-memory half of a transaction: what it adds is counted, what it
\* deletes is removed, and the version of before is remembered.
Open(kind, adds, counts, removes) ==
  /\ tx' = [kind |-> kind, before |-> version, adds |-> adds,
            removes |-> SameEvent(counted, removes)]
  /\ counted' = (counted \cup counts) \ SameEvent(counted, removes)
  /\ InvalidateIf(counts # {} \/ SameEvent(counted, removes) # {})
  /\ Idle /\ UNCHANGED <<rows, queue, moving, rolled>>

\* writeEventStoreBatch up to its snapshot; the retention is due or not.
WriteBatch ==
  /\ ~panicked /\ stored /\ tx = NoTx /\ queue # {} /\ Worked
  /\ \E due \in BOOLEAN :
       Open("batch", queue, {}, {d \in rows \cup queue : due /\ Expired(d)})

\* pruneEventStore after a configuration.
PruneRows ==
  /\ ~panicked /\ stored /\ tx = NoTx /\ Worked
  /\ Open("prune", {}, {}, {d \in rows : Expired(d)})

\* MergeSnapshot with a database: the new details are counted at once.
ImportRows(e) ==
  /\ ~panicked /\ stored /\ tx = NoTx /\ ~Recorded(e) /\ Worked
  /\ Open("import", {Plain(e)}, {Plain(e)}, {d \in rows : Expired(d)})

\* Import and configuration without a database.
MergeInMemory(e) ==
  /\ ~panicked /\ ~stored /\ ~Recorded(e) /\ Worked
  /\ counted' = {d \in counted \cup {Plain(e)} : ~Expired(d)}
  /\ Invalidate
  /\ Idle /\ UNCHANGED <<rows, queue, tx, moving, rolled>>

PruneInMemory ==
  /\ ~panicked /\ ~stored /\ Worked
  /\ counted' = {d \in counted : ~Expired(d)}
  /\ InvalidateIf(\E d \in counted : Expired(d))
  /\ Idle /\ UNCHANGED <<rows, queue, tx, moving, rolled>>

Commit ==
  /\ ~panicked /\ tx # NoTx
  /\ rows' = {d \in rows \cup tx.adds : d \notin SameEvent(rows \cup tx.adds, tx.removes)}
  /\ queue' = IF tx.kind = "batch" THEN queue \ tx.adds ELSE queue
  /\ tx' = NoTx
  /\ Idle /\ UNCHANGED <<version, caches, counted, moving, rolled, work>>

\* The transaction fails: its counters are taken back and the version of
\* before is restored, whatever has raised it since.  Only the batch does
\* not clear the caches unless it counts something again.
Rollback ==
  /\ ~panicked /\ tx # NoTx
  /\ counted' = (counted \ (IF tx.kind = "import" THEN SameEvent(counted, tx.adds) ELSE {}))
                \cup tx.removes
  /\ IF tx.kind = "batch" /\ tx.removes = {} THEN UNCHANGED caches ELSE Cleared
  /\ version' = tx.before
  /\ rolled' = (rolled \/ version # tx.before)
  /\ tx' = NoTx
  /\ Idle /\ UNCHANGED <<rows, queue, moving, work>>

-----------------------------------------------------------------------------
(* A poll.                                                                 *)

At(r, step) == ~panicked /\ poll[r].step = step
StepTo(r, step, read) ==
  poll' = [poll EXCEPT ![r] = [step |-> step, view |-> poll[r].view, at |-> poll[r].at,
                               read |-> read]]
Reading == UNCHANGED <<stored, now, content, version, panicked, rolled, polls, work>>

\* The handler answers with a body: the ETag is made of the time of the
\* request and of the version that the query returned.
Reply(r, value, v) ==
  /\ copy' = [copy EXCEPT ![r] = [label |-> ETag(poll[r].view, poll[r].at, v),
                                  value |-> value]]
  /\ poll' = [poll EXCEPT ![r] = NoPoll]

Poll(r, view) ==
  /\ At(r, "idle") /\ polls < MaxPolls /\ polls' = polls + 1
  /\ poll' = [poll EXCEPT ![r] = [step |-> "check", view |-> view, at |-> now, read |-> None]]
  /\ UNCHANGED <<stored, now, content, version, caches, copy, panicked, rolled, work>>

\* dashboardConditionalMatch: the reader sends the ETag of its copy.
Check(r) ==
  /\ At(r, "check")
  /\ IF copy[r] # None /\ copy[r].label = ETag(poll[r].view, poll[r].at, version)
     THEN poll' = [poll EXCEPT ![r] = NoPoll]
     ELSE StepTo(r, "ask", None)
  /\ Reading /\ UNCHANGED <<caches, copy>>

Asks(r, kind) == At(r, "ask") /\ poll[r].view.kind = kind

\* SummaryWithoutDetailsAt, under s.mu.
SummaryOfAll(r) ==
  /\ Asks(r, "summary") /\ ~poll[r].view.scoped
  /\ LET fresh == [version |-> version, value |-> Answer(counted, poll[r].view, poll[r].at)]
         hit == /\ summary # None /\ summary.version = version
                /\ summary.value.window = Window(poll[r].view, poll[r].at)
         used == IF hit THEN summary ELSE fresh
     IN summary' = used /\ Reply(r, used.value, used.version)
  /\ Reading /\ UNCHANGED <<ranges, pages, index>>

Key(r) == [view |-> poll[r].view, bucket |-> poll[r].at]

\* SummaryWithoutDetailsForRangeAndClientAPIAt: the lookup under s.mu.
SummaryLookup(r) ==
  /\ Asks(r, "summary") /\ poll[r].view.scoped
  /\ LET map == IF ranges = None THEN <<>> ELSE ranges
         hit == /\ Key(r) \in DOMAIN map
                /\ map[Key(r)].value.window = Window(poll[r].view, poll[r].at)
     IN /\ ranges' = map
        /\ IF hit THEN Reply(r, map[Key(r)].value, map[Key(r)].version)
           ELSE StepTo(r, IF stored THEN "query" ELSE "store", None) /\ UNCHANGED copy
  /\ Reading /\ UNCHANGED <<summary, pages, index>>

\* queryDashboardRange, without s.mu.
SummaryQuery(r) ==
  /\ At(r, "query") /\ poll[r].view.kind = "summary"
  /\ StepTo(r, "store", rows)
  /\ Reading /\ UNCHANGED <<caches, copy>>

\* pruneSummaryRangeCacheLocked: which other keys go is the map's order.
PrunedLate(map, key, kept) ==                                  \* mutant
  /\ kept \subseteq DOMAIN map /\ key \in kept
  /\ Cardinality(kept) = Min({RangeMax + 1, Cardinality(DOMAIN map)})
PrunedTo(map, key, kept) ==
  /\ kept \subseteq DOMAIN map /\ key \in kept
  /\ Cardinality(kept) = Min({RangeMax, Cardinality(DOMAIN map)})

\* buildSummaryWithoutDetailsForRangeLocked: from the result of the query,
\* or from the details in memory.
RangeSummary(r) ==
  Answer(IF stored THEN poll[r].read ELSE counted, poll[r].view, poll[r].at)

\* Back under s.mu the answer is stored in the map that the lookup made,
\* and assigning to a nil map ends the process.
SummaryStore(r) ==
  /\ At(r, "store")
  /\ IF ranges = None
     THEN panicked' = TRUE /\ UNCHANGED <<ranges, readers>>
     ELSE LET value == RangeSummary(r)
              keys == DOMAIN ranges \cup {Key(r)}
              map == [k \in keys |-> IF k = Key(r) THEN [version |-> version, value |-> value]
                                     ELSE ranges[k]]
          IN /\ \E kept \in SUBSET keys :
                  PrunedTo(map, Key(r), kept) /\ ranges' = [k \in kept |-> map[k]]
             /\ Reply(r, value, version)
             /\ UNCHANGED panicked
  /\ UNCHANGED <<stored, now, content, version, summary, pages, index, rolled, polls, work>>

\* dashboardEventIndexLocked: rebuilt when it is of another version.
Indexed == IF index # None /\ index.version = version THEN index
           ELSE [version |-> version, details |-> counted]

\* queryEventsAt without a database, under s.mu: the page of the cache or
\* of the index; a new page pushes the oldest one out.
EventsInMemory(r) ==
  /\ Asks(r, "events") /\ ~stored
  /\ LET key == [view |-> poll[r].view, bucket |-> Bucket(poll[r].view, poll[r].at)]
         hits == {i \in DOMAIN pages : pages[i].key = key}
         value == Answer(Indexed.details, poll[r].view, poll[r].at)
         added == Append(pages, [key |-> key, value |-> value])
     IN IF hits # {}
        THEN (\E i \in hits : Reply(r, pages[i].value, version)) /\ UNCHANGED <<pages, index>>
        ELSE /\ Reply(r, value, version)
             /\ index' = Indexed
             /\ pages' = IF Len(added) > EventMax THEN Tail(added) ELSE added
  /\ Reading /\ UNCHANGED <<summary, ranges>>

\* QueryAPIDetailForClientAPIAt without a database has no cache of its own.
DetailInMemory(r) ==
  /\ Asks(r, "detail") /\ ~stored
  /\ index' = Indexed
  /\ Reply(r, Answer(Indexed.details, poll[r].view, poll[r].at), version)
  /\ Reading /\ UNCHANGED <<summary, ranges, pages>>

\* QueryEventsAt and QueryAPIDetailPageAt: the rows are read first and the
\* version of the answer is read under s.mu afterwards.
QueryRows(r) ==
  /\ At(r, "ask") /\ stored /\ poll[r].view.kind # "summary"
  /\ StepTo(r, "label", rows)
  /\ Reading /\ UNCHANGED <<caches, copy>>

LabelRows(r) ==
  /\ At(r, "label")
  /\ Reply(r, Answer(poll[r].read, poll[r].view, poll[r].at), version)
  /\ Reading /\ UNCHANGED caches

\* A query of the database fails: 503, which the reader does not keep.
QueryFails(r) ==
  /\ stored
  /\ At(r, "query") \/ (At(r, "ask") /\ poll[r].view.kind # "summary")
  /\ poll' = [poll EXCEPT ![r] = NoPoll]
  /\ Reading /\ UNCHANGED <<caches, copy>>

Tick ==
  /\ ~panicked /\ now < MaxTime /\ now' = now + 1
  /\ UNCHANGED <<stored, content, version, caches, readers, panicked, rolled, polls, work>>

-----------------------------------------------------------------------------
Init ==
  /\ stored \in Modes /\ now = 0
  /\ counted = {} /\ rows = {} /\ queue = {} /\ tx = NoTx /\ moving = {}
  /\ version = 0 /\ summary = None /\ ranges = None /\ pages = NoPages /\ index = None
  /\ poll = [r \in Readers |-> NoPoll] /\ copy = [r \in Readers |-> None]
  /\ panicked = FALSE /\ rolled = FALSE /\ polls = 0 /\ work = 0

Next ==
  \/ \E e \in Events : Record(e) \/ ImportRows(e) \/ MergeInMemory(e)
  \/ \E d \in counted : Enrich(d)
  \/ \E d \in rows : EnrichRow(d)
  \/ EnrichCounters \/ WriteBatch \/ PruneRows \/ PruneInMemory \/ Commit \/ Rollback
  \/ \E r \in Readers :
       \/ \E view \in Views[stored] : Poll(r, view)
       \/ Check(r) \/ SummaryOfAll(r) \/ SummaryLookup(r) \/ SummaryQuery(r)
       \/ SummaryStore(r) \/ EventsInMemory(r) \/ DetailInMemory(r)
       \/ QueryRows(r) \/ LabelRows(r) \/ QueryFails(r)
  \/ Tick

Spec == Init /\ [][Next]_vars

-----------------------------------------------------------------------------
(* Properties.                                                             *)

\* invalidateSummaryLocked (go/stats.go:1345): what a cache would answer now
\* is what the counters would.  The versions that failed transactions
\* restore (go/event_writer.go:502) must not bring an old summary back, and
\* without a database the cached ranges, pages and the index follow every
\* record, enrichment, import and removal.
CachesFresh ==
  /\ summary # None /\ summary.version = version => summary.value.details = counted
  /\ ~stored =>
       /\ ranges # None =>
            \A k \in DOMAIN ranges : ranges[k].value = Answer(counted, k.view, k.bucket)
       /\ \A i \in DOMAIN pages :
            \E t \in 0..MaxTime :
              /\ Bucket(pages[i].key.view, t) = pages[i].key.bucket
              /\ pages[i].value = Answer(counted, pages[i].key.view, t)
       /\ index # None /\ index.version = version => index.details = counted

\* Whoever has an answer from the counters now has what they hold.
Answered ==
  \A r \in Readers :
    poll[r].step # "idle" /\ poll'[r].step = "idle" /\ FromCounters(poll[r].view) /\ ~rolled
      => copy'[r].value = Truth(poll[r].view, poll[r].at)

\* go/dashboard.go:66, :158, :520: a poll that is answered from the counters,
\* by a body, by a cache or by 304 and the reader's own copy, leaves the
\* reader with what the counters hold at that moment, unless a failed
\* transaction has lowered the version.
AnswersCurrent == [][Answered]_vars

\* docs/superpowers/plans/2026-08-04-storage-performance-optimization.md:174
\* "run concurrent range/event/API-detail reads with writes, and assert all
\* complete": a read of a range never ends the process.
ReadsComplete == ~panicked
=============================================================================
