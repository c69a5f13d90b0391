----------------------------- MODULE EventLedger -----------------------------
(***************************************************************************)
(* The database of events with its aggregate (go/event_store.go) and the   *)
(* counters in memory that it restores (go/stats.go, go/event_writer.go).  *)
(* An event is counted, written by the batch, perhaps enriched, deleted    *)
(* when it expires or exceeds the limit, imported again from an export,    *)
(* and all of that is loaded by the next process or copied to another      *)
(* database.  The aggregate is saved with the ID up to which it counts     *)
(* rows; the next process adds the rows after it.                          *)
(*                                                                         *)
(* Queue, spool and replay are one set of unwritten events here            *)
(* (EventPipeline has them); a transaction is one step.  One API and model *)
(* is modelled; an event's fingerprint is itself and whether it carried    *)
(* its metadata when it was computed.                                      *)
(***************************************************************************)
EXTENDS UsageCounters, Sequences, FiniteSetsExt, SequencesExt

CONSTANTS
  Events, Time,
  Windows,           (* retention windows, of which 0 is none                *)
  Limit,             (* max_details_per_model                                *)
  NoAggregate,
  MaxTime, MaxChanges      (* bounds: time, faults and imports together      *)

ASSUME LedgerAssumption ==
  /\ Time \in [Events -> Nat] /\ Windows \subseteq Nat /\ Limit \in Nat
  /\ MaxTime \in Nat /\ MaxChanges \in Nat
  /\ NoAggregate \notin [all : Nat, mark : Nat]

VARIABLES
  counters, lastId,  (* eventStoreLastEventID                                *)
  unwritten,         (* events counted in memory, their rows not written yet *)
  force,             (* forceSnapshot of the writer                          *)
  swept,             (* eventStoreLastRetentionCutoff, -1 when none          *)
  window, now,
  rows,              (* request_events: ID -> event, metadata, fingerprint   *)
  aggregate,         (* aggregate_state: total and last_event_id, or none    *)
  pending,           (* pending_enrichments                                  *)
  recorded, enriched,  (* observers: events recorded, and enriched           *)
  evicted,           (* observer: what the limit deleted and left counted    *)
  unsettled,         (* observer: why aggregate and rows disagree            *)
  drifted,           (* observer: they disagreed when they were loaded       *)
  late,              (* observer: metadata entered a row and no counter      *)
  horizon,           (* observer: the latest cutoff that rows were deleted by *)
  changes            (* faults and imports so far                            *)

memory == <<counters, lastId, unwritten, force, swept>>
database == <<rows, aggregate, pending>>
observers == <<recorded, enriched, evicted, unsettled, drifted, late, horizon>>
bounds == <<window, now, changes>>
ledgerVars == <<memory, database, observers, bounds>>

Plain(e) == [event |-> e, rich |-> FALSE]
Rows == [event : Events, rich : BOOLEAN, print : BOOLEAN, live : BOOLEAN]

\* Every variable has its type.
LedgerTypeOK ==
  /\ counters \in [Dimensions -> Nat] /\ lastId \in Nat /\ unwritten \in Seq(Events)
  /\ force \in BOOLEAN /\ swept \in Int /\ window \in Windows
  /\ now \in 0..MaxTime
  /\ rows \in [DOMAIN rows -> Rows]
  /\ IsFiniteSet(DOMAIN rows) /\ DOMAIN rows \subseteq Nat \ {0}
  /\ aggregate \in [all : Nat, mark : Nat] \cup {NoAggregate}
  /\ pending \subseteq Events /\ recorded \subseteq Events /\ enriched \subseteq Events
  /\ evicted \in [Dimensions -> Nat]
  /\ unsettled \subseteq {"removed", "early", "reused"}
  /\ drifted \in BOOLEAN /\ late \in BOOLEAN /\ horizon \in -1..MaxTime
  /\ changes \in 0..MaxChanges

LedgerInit ==
  /\ counters = Zero /\ lastId = 0 /\ unwritten = <<>> /\ force = FALSE
  /\ swept = -1 /\ window \in Windows /\ now = 0
  /\ rows = <<>> /\ aggregate = NoAggregate /\ pending = {}
  /\ recorded = {} /\ enriched = {} /\ evicted = Zero
  /\ unsettled = {} /\ drifted = FALSE /\ late = FALSE /\ horizon = -1
  /\ changes = 0

-----------------------------------------------------------------------------
(***************************************************************************)
(* Rows.  SQLite gives a new row the ID after the largest one there is.    *)
(***************************************************************************)
MaxId(t) == Max(DOMAIN t \cup {0})
Without(t, S) == [i \in DOMAIN t \ S |-> t[i]]
Only(t, S) == [i \in S |-> t[i]]

RowPlain(e, rich, live) ==                                     \* mutant
  [event |-> e, rich |-> rich, print |-> rich, live |-> live]
Row(e, rich, live) ==
  [event |-> e, rich |-> rich \/ e \in pending, print |-> rich, live |-> live]

Appended(t, new) ==
  [i \in DOMAIN t \cup {MaxId(t) + j : j \in DOMAIN new} |->
     IF i \in DOMAIN t THEN t[i] ELSE new[i - MaxId(t)]]

\* The numbers of a finite set in their order.
Ranked(S) ==
  [n \in 1..Cardinality(S) |-> CHOOSE i \in S : Cardinality({j \in S : j < i}) = n - 1]

\* What a window leaves behind.
Old(e, w) == w > 0 /\ Time[e] < now - w
Expired(t, w) == {i \in DOMAIN t : Old(t[i].event, w)}
Newer(t, i, j) == \/ Time[t[i].event] > Time[t[j].event]
                  \/ Time[t[i].event] = Time[t[j].event] /\ i > j
\* Rows inside the window are kept whatever the limit is.
OverLimit(t, w) ==
  {i \in DOMAIN t : w = 0 /\ Cardinality({j \in DOMAIN t : Newer(t, j, i)}) >= Limit}

-----------------------------------------------------------------------------
(***************************************************************************)
(* pruneTx with what it does to the counters, and pruneSQLite, which saves *)
(* the aggregate in the same transaction.                                  *)
(***************************************************************************)
\* A state of counters and rows after the expired rows are gone.
Pruned(c, t, w) ==
  LET gone == Expired(t, w)
      over == OverLimit(t, w)
  IN [counters |-> UncountAll(c, Only(t, gone)),
      rows     |-> Without(t, gone \cup over),
      removed  |-> gone, counted |-> Uncounted(c, Only(t, gone)),
      over |-> over, evicted |-> Tally(Only(t, over))]

Save(p) == [all |-> p.counters["all"], mark |-> MaxId(p.rows)]

PrunedPending(p, w) == {e \in p : ~Old(e, w)}
SweptAt(w) == IF w > 0 THEN now - w ELSE -1

SettledBySave == unsettled' = IF unwritten' = <<>> THEN {} ELSE {"early"}

PruneSQLite(w) ==
  LET p == Pruned(counters, rows, w)
  IN /\ counters' = p.counters /\ rows' = p.rows /\ aggregate' = Save(p)
     /\ pending' = PrunedPending(pending, w)
     /\ swept' = SweptAt(w) /\ horizon' = Max({horizon, SweptAt(w)})
     /\ evicted' = Plus(evicted, p.evicted)
     /\ UNCHANGED unwritten /\ SettledBySave
     /\ UNCHANGED <<lastId, force, recorded, enriched, drifted, late, now>>

\* The timer's maintenance.
Prune == PruneSQLite(window) /\ UNCHANGED <<window, changes>>

\* Another retention window is configured.
Configure(w) ==
  /\ w # window /\ changes < MaxChanges /\ changes' = changes + 1
  /\ window' = w /\ PruneSQLite(w)

\* What was taken out of the counters returns to them.
PruneFails ==
  LET p == Pruned(counters, rows, window)
  IN /\ changes < MaxChanges /\ changes' = changes + 1
     /\ counters' = CountAll(p.counters, Only(rows, p.counted))
     /\ UNCHANGED <<lastId, unwritten, force, swept, database, observers, window, now>>

-----------------------------------------------------------------------------
(***************************************************************************)
(* Record, and the batch that writes it.                                   *)
(***************************************************************************)
RecordEvent(e) ==
  /\ e \notin recorded /\ Time[e] <= now
  /\ recorded' = recorded \cup {e}
  /\ counters' = Count(counters, Plain(e)) /\ unwritten' = Append(unwritten, e)
  /\ UNCHANGED <<lastId, force, swept, database, enriched, evicted, unsettled,
                 drifted, late, horizon, bounds>>

RetentionDue == window > 0 /\ now > window /\ SweptAt(window) > swept

\* persistEventWriteGroup: insert, prune, and save the aggregate when it is
\* time to and nothing else is on its way.
Batch(n) == SubSeq(unwritten, 1, n)
WithBatch(n) == Appended(rows, [j \in 1..n |-> Row(unwritten[j], FALSE, TRUE)])
WrittenIds(n) == DOMAIN WithBatch(n) \ DOMAIN rows

BatchPruned(n) ==
  LET t == WithBatch(n)
  IN IF RetentionDue \/ window = 0 THEN Pruned(counters, t, window)
     ELSE [counters |-> counters, rows |-> t, removed |-> {}, counted |-> {}, over |-> {},
           evicted |-> Zero]

\* The aggregate still counts an expired row, or never counted an evicted one.
CoveredTo == IF aggregate = NoAggregate THEN 0 ELSE aggregate.mark
Uncovered(p) ==
  (\E i \in p.removed : i <= CoveredTo) \/ (\E i \in p.over : i > CoveredTo)

MaySaveAlways(rest) == TRUE                                    \* mutant
MaySave(rest) == rest = <<>>

Mark(n) == Max(WrittenIds(n) \cup {lastId})

Write(n, due) ==
  LET p == BatchPruned(n)
      rest == SubSeq(unwritten, n + 1, Len(unwritten))
      saves == (due \/ force) /\ MaySave(rest)
  IN /\ counters' = p.counters /\ rows' = p.rows /\ unwritten' = rest
     /\ aggregate' = IF saves THEN [all |-> p.counters["all"], mark |-> Mark(n)]
                     ELSE aggregate
     /\ pending' = (IF RetentionDue THEN PrunedPending(pending, window) ELSE pending)
                     \ ToSet(Batch(n))
     /\ lastId' = Max(WrittenIds(n) \cup {lastId})
     /\ force' = (~saves /\ (force \/ p.removed # {}))
     /\ swept' = (IF RetentionDue THEN SweptAt(window) ELSE swept)
     /\ horizon' = Max({horizon, swept'})
     /\ evicted' = Plus(evicted, p.evicted)
     /\ late' = (late \/ pending \cap ToSet(Batch(n)) # {})
     /\ unsettled' =
          IF saves THEN {}
          ELSE unsettled
               \cup (IF Uncovered(p) THEN {"removed"} ELSE {})
               \cup (IF \E i \in WrittenIds(n) : i <= CoveredTo THEN {"reused"} ELSE {})
     /\ UNCHANGED <<recorded, enriched, drifted, bounds>>

\* A batch that fails is spooled and comes back.  Every expired event is counted
\* again, with metadata that the counters may never have seen.
WriteFails(n) ==
  LET p == BatchPruned(n)
  IN /\ changes < MaxChanges /\ changes' = changes + 1
     /\ counters' = CountAll(p.counters, Only(WithBatch(n), p.removed))
     /\ late' = (late \/ pending \cap ToSet(Batch(n)) # {})
     /\ UNCHANGED <<lastId, unwritten, force, swept, database, recorded, enriched,
                    evicted, unsettled, drifted, horizon, window, now>>

-----------------------------------------------------------------------------
(***************************************************************************)
(* EnrichRecordedUsage: the metadata of an event arrives, before or after  *)
(* its row.                                                                *)
(***************************************************************************)
RowsOf(e) == {i \in DOMAIN rows : rows[i].event = e /\ ~rows[i].print}

Enrich(e) ==
  /\ e \in recorded \ enriched
  /\ enriched' = enriched \cup {e}
  /\ IF RowsOf(e) = {}
     THEN pending' = pending \cup {e} /\ UNCHANGED <<counters, rows>>
     ELSE LET i == Max(RowsOf(e))
          IN /\ rows' = [rows EXCEPT ![i].rich = TRUE]
             /\ counters' = IF rows[i].rich THEN counters
                            ELSE Move(counters, rows[i], [rows[i] EXCEPT !.rich = TRUE])
             /\ UNCHANGED pending
  /\ UNCHANGED <<lastId, unwritten, force, swept, aggregate, recorded, evicted,
                 unsettled, drifted, late, horizon, bounds>>

-----------------------------------------------------------------------------
(***************************************************************************)
(* mergeSnapshotSQLite: the details of an export are inserted unless their *)
(* fingerprint is there.                                                   *)
(***************************************************************************)
StoredNever(t, d) == FALSE                                     \* mutant
Stored(t, d) ==
  \E i \in DOMAIN t : /\ t[i].event = d.event /\ t[i].print = d.rich
                      /\ ~Old(d.event, window)

\* The positions of the details that are added: what an earlier one has added
\* is found as well.
Fresh(details) ==
  {n \in DOMAIN details : /\ ~Old(details[n].event, window) /\ ~Stored(rows, details[n])
                          /\ \A m \in 1..(n - 1) : details[m] # details[n]}

Added(details) ==
  [n \in DOMAIN Ranked(Fresh(details)) |->
     LET d == details[Ranked(Fresh(details))[n]] IN Row(d.event, d.rich, FALSE)]

\* The counters take the details as they were imported.
AsImported(added) == [n \in DOMAIN added |-> [rich |-> added[n].print]]

\* copyFrom, and an export, go through the rows in their order.
Renumbered == [n \in DOMAIN Ranked(DOMAIN rows) |-> rows[Ranked(DOMAIN rows)[n]]]
Exported ==
  [n \in DOMAIN Renumbered |-> [event |-> Renumbered[n].event, rich |-> Renumbered[n].rich]]

Import(details) ==
  LET added == Added(details)
      t == Appended(rows, added)
      new == DOMAIN t \ DOMAIN rows
      consumed == {r.event : r \in {x \in ToSet(added) : ~x.print}} \cap pending
      p == Pruned(CountAll(counters, AsImported(added)), t, window)
  IN /\ changes < MaxChanges /\ changes' = changes + 1
     /\ counters' = p.counters /\ rows' = p.rows /\ aggregate' = Save(p)
     /\ pending' = PrunedPending(pending \ consumed, window)
     /\ lastId' = Max(new \cup {lastId})
     /\ swept' = SweptAt(window) /\ horizon' = Max({horizon, swept'})
     /\ evicted' = Plus(evicted, p.evicted)
     /\ late' = (late \/ consumed # {})
     /\ UNCHANGED unwritten /\ SettledBySave
     /\ UNCHANGED <<force, recorded, enriched, drifted, window, now>>

\* The aggregate cannot be saved, or the commit fails: what was taken out of the
\* counters returns to them, then what was added is taken out.
ImportFails(details) ==
  LET added == Added(details)
      t == Appended(rows, added)
      p == Pruned(CountAll(counters, AsImported(added)), t, window)
  IN /\ changes < MaxChanges /\ changes' = changes + 1
     /\ counters' = UncountAll(CountAll(p.counters, Only(t, p.counted)), AsImported(added))
     /\ UNCHANGED <<lastId, unwritten, force, swept, database, observers, window, now>>

-----------------------------------------------------------------------------
(***************************************************************************)
(* A process, or a switch of databases, loads aggregate and rows: the      *)
(* total from the aggregate and the rows after its mark, the dimensions    *)
(* from all rows.  Then it prunes.                                         *)
(***************************************************************************)
AfterMark(t, mark) == {i \in DOMAIN t : i > mark}

Trusted(t, a) == a # NoAggregate /\ ((a.mark > 0 /\ a.all > 0) \/ DOMAIN t = {})
Total(t, a) ==
  IF Trusted(t, a) THEN a.all + Cardinality(AfterMark(t, a.mark)) ELSE Cardinality(DOMAIN t)

Loaded(t, a) == [Tally(t) EXCEPT !["all"] = Total(t, a)]

Load(t, a) ==
  LET p == Pruned(Loaded(t, a), t, window)
  IN /\ counters' = p.counters /\ rows' = p.rows /\ aggregate' = Save(p)
     /\ lastId' = Max({MaxId(t), IF Trusted(t, a) THEN a.mark ELSE 0})
     /\ pending' = PrunedPending(pending, window)
     /\ unwritten' = <<>>
     /\ swept' = SweptAt(window) /\ horizon' = Max({horizon, swept'})
     /\ evicted' = Plus([Zero EXCEPT !["all"] = evicted["all"]], p.evicted)
     /\ unsettled' = {} /\ late' = FALSE
     /\ UNCHANGED <<recorded, enriched, bounds>>

\* stopEventWriter saves the aggregate, then the next process starts.
Restart ==
  /\ unwritten = <<>>
  /\ Load(rows, [all |-> counters["all"], mark |-> lastId])
  /\ force' = FALSE /\ UNCHANGED drifted

\* A mark of no row makes the next process rebuild the total from the rows
\* alone, without what the aggregate counted before them.
Forgotten ==
  /\ aggregate # NoAggregate /\ aggregate.mark = 0 /\ aggregate.all > 0
  /\ DOMAIN rows # {}

Crash ==
  /\ Load(rows, aggregate)
  /\ force' = FALSE /\ drifted' = (drifted \/ unsettled # {} \/ Forgotten)

\* copyFrom renumbers the rows and keeps the aggregate's mark.
MarkMisses ==
  aggregate # NoAggregate /\ Cardinality(AfterMark(Renumbered, aggregate.mark))
                        # Cardinality(AfterMark(rows, aggregate.mark))

SwitchDatabase ==
  /\ unwritten = <<>>
  /\ Load(Renumbered, aggregate)
  /\ drifted' = (drifted \/ unsettled # {} \/ Forgotten \/ MarkMisses)
  /\ UNCHANGED force

Tick ==
  /\ now < MaxTime /\ now' = now + 1
  /\ UNCHANGED <<memory, database, observers, window, changes>>

\* What is imported: one event as it was recorded, or an export of the rows.
Imports == {<<Plain(e)>> : e \in Events} \cup {Exported}

LedgerNext ==
  \/ \E e \in Events : RecordEvent(e) \/ Enrich(e)
  \/ \E details \in Imports : Import(details) \/ ImportFails(details)
  \/ \E n \in 1..Len(unwritten) : WriteFails(n) \/ (\E due \in BOOLEAN : Write(n, due))
  \/ Prune \/ PruneFails \/ (\E w \in Windows : Configure(w))
  \/ Restart \/ Crash \/ SwitchDatabase \/ Tick

LedgerSpec == LedgerInit /\ [][LedgerNext]_ledgerVars

-----------------------------------------------------------------------------
(***************************************************************************)
(* Properties.                                                             *)
(***************************************************************************)
Uncommitted == [i \in DOMAIN unwritten |-> Plain(unwritten[i])]

\* The counters, added to and subtracted from by whoever counts, expires,
\* imports, rolls back or loads, are what the rows and the unwritten events
\* give, and what the limit deleted without subtracting it.  What a database
\* is loaded with after a removal, a save or a new row that its aggregate
\* does not cover is left out until then: no later step heals it.
CountersMatchRows ==
  ~drifted => LET expected == Plus(Plus(Tally(rows), Tally(Uncommitted)), evicted)
              IN /\ counters["all"] = expected["all"]
                 /\ ~late => counters = expected

\* Metadata that arrived for an event reaches a row of it, whichever of the
\* two was there first and through whatever happens between them, unless the
\* event is no longer kept.
EnrichmentKept ==
  \A e \in enriched :
    \/ e \in pending
    \/ \E i \in DOMAIN rows : rows[i].event = e /\ rows[i].rich
    \/ Time[e] < horizon
    \/ evicted["all"] > 0

\* An import adds no row whose fingerprint is there, its own or one of the
\* same import.
ImportsAreNew ==
  \A i, j \in DOMAIN rows :
    i < j /\ rows[i].event = rows[j].event /\ rows[i].print = rows[j].print
      => rows[j].live
=============================================================================
