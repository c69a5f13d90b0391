# TLA+ models of the CAP usage statistics plugin

This directory holds TLA+ specifications of the usage statistics plugin in
`go/`: what they model, what TLC checks about them on small instances, and what
TLAPS proves about them for every value of their constants.

The plugin is loaded into a proxy process. The proxy calls it back for every
completed request, the plugin counts the request in memory, writes a row to
SQLite, and serves statistics to a management API and a dashboard. Its one hard
requirement is that a usage event is counted once: not lost without a counter
that says so, not stored twice, and not counted differently after a restart.

## Components

| Component | State | Operations | Interacts with |
|---|---|---|---|
| Callback queue (`usage_async.go`) | bounded queue, byte counter, active flag, stopping flag, one condition variable | enqueue, worker loop, drain, shutdown | called by the host's usage callback; calls `Record`; drained by the management API and by `plugin_shutdown` |
| Event writer and spool (`event_writer.go`) | writer queue, spool queue, byte counters, pending spool counter, spool file and replay file | enqueue, batch, persist, spool, replay, retry, final snapshot, retention timer | fed by `Record`; writes to the event store; started and stopped by `ConfigurePatch` and `Close` |
| Storage control (`stats.go`) | current store, control mutex, write and query wait groups | `ConfigurePatch`, `acquireEventStore`, `Close`, export, import | everyone who uses a store |
| Event store (`event_store.go`) | tables `request_events`, `aggregate_state`, retention and cursor state | insert with duplicate key, aggregate with watermark, tail, `copyFrom`, prune, enrichment, queries | the writer, queries, storage control |
| In-memory aggregates (`stats.go`, `types.go`) | per API and per model counters, details, dedup index | `recordDetailLocked`, merge, prune, snapshot, restore | `Record`, replay, recovery |
| Legacy JSON storage (`stats.go`) | shard files, dirty set, save worker | load, save, quarantine, migrate | storage control |
| Fallback coordinator (`response_intercept.go`) | pending records by key and in a deadline heap, recent fallbacks, recent natives | schedule, commit on deadline, supersede, native match, flush, evict | response interceptors, the native usage callback |
| Stream tracker (`stream_state.go`, `stream_callback.go`) | bounded table of open streams with bytes and last use | observe, commit, expire, evict, close | stream chunk callbacks, the fallback coordinator |
| Usage decoding (`usage_decode.go`, `stream_callback.go`) | none | parse provider payloads | stream tracker, fallback coordinator |
| Lifecycle (`main.go`, `register.go`) | the plugin's globals | init, register, configure, shutdown | all |
| Management API (`management.go`) | none | routes | statistics, callback queue |
| Dashboard server (`dashboard.go`, `stats.go`) | version of the counters; caches of the summary, of ranges, of event pages and of the event index | answer with ETag or 304, query, invalidate | statistics, export jobs |
| Export jobs (`dashboard_export_jobs.go`) | jobs, active encoders, files | create, encode, download, delete, expire, close | event store, dashboard server |
| Price worker (`stats.go`) | price table, refresh state | fetch, publish, stop | aggregates, dashboard |
| Naming (`source.go`) | caches of credential files | resolve | `Record` |
| Output helpers (`resource_time.go`, `output_sanitize.go`) | none | convert times and keys | dashboard server |
| Front end (`dashboard/*.js`) | view state, polling timers | poll, render | dashboard server |

Where it is hard:

- **Callbacks.** The worker and every drain sleep on the same condition
  variable, `enqueue` signals one of them. Drain and shutdown have to cover the
  callback that has left the queue and is not finished.
- **Pipeline.** One event passes through `Record`, the writer, perhaps the spool
  goroutine, a spool file, a replay and the writer again; five goroutines share
  two files and one counter; the process may die between any two steps; a
  snapshot of the aggregate must match the rows that its watermark covers.
- **Storage control.** A reference to a store is read under a lock and used after
  it; a switch has to wait for writes and queries without waiting for something
  that waits for it.
- **Fallback coordinator.** A fallback record and a native record of one request
  race with a deadline, an eviction and a flush.
- **Stream tracker, export jobs.** Bounded tables whose byte and encoder counters
  drift when an entry is replaced, evicted or deleted at the wrong moment.
- **Aggregates.** What enters a counter leaves it through another path: by
  retention, a rolled back batch, an enrichment that moves it, or a restart.
- **Dashboard.** Every change raises a version and clears four caches; ETags are
  made of the version; queries run between two locks; failed transactions lower
  the version again.

For each component, what makes it correct:

| Component | Correct when |
|---|---|
| Callback queue | bounded; accepted callbacks run once, in order; nobody sleeps for ever; drain and shutdown cover what was accepted |
| Event writer and spool | every recorded event is stored, on its way, or counted as dropped; no second row; a restart counts what is stored; the counters equal what they count; a stop ends |
| Storage control | no use after close; a copy misses nothing; queries see what was accepted before them; nobody waits for ever |
| Event store | a watermark covers exactly the rows the aggregate counts, through copy and retention; metadata reaches its row; an import adds nothing twice |
| Aggregates | every counter is the number of details that belong to it |
| Fallback coordinator | a request is counted by its native record or by its fallback, not by both, and by one of them if either arrives |
| Stream tracker | each stream commits at most once; the byte counter is the sum over the table |
| Export jobs | no more jobs than allowed; a file belongs to a job; a deleted job leaves no file; an export is complete while the table changes |
| Dashboard server | a cache answers what the counters hold; a 304 leaves the reader with what a body would have said; every read completes |

## Modules

| Module | Models | Checked by | Proved in |
|---|---|---|---|
| `UsageCallbacks` | the callback queue | `MCUsageCallbacks` | `UsageCallbacksProofs` |
| `CallbackContract` | what that queue promises, without lock, condition or byte counter | as the property `Implements` of `UsageCallbacks` | `UsageCallbacksProofs` |
| `EventPipeline` | `Record` to SQLite row, spool, replay, stop, crash, recovery | `MCEventPipeline` | `EventPipelineProofs` (lemmas on data: `DataLemmas`) |
| `StoreControl` | locks and wait groups around the current store | `MCStoreControl` | `StorageProofs` |
| `UsageFallback` | the coordinator of native and fallback records | `MCUsageFallback` | `UsageFallbackProofs` (lemmas on data: `DataLemmas`) |
| `StreamTracker` | the table of open streams, the way of a chunk to it | `MCStreamTracker` | `StreamTrackerProofs` (lemmas on data: `DataLemmas`) |
| `ExportJobs` | export jobs, their files and pages | `MCExportJobs` | `ExportJobsProofs` (lemmas on data: `DataLemmas`) |
| `UsageCounters`, `EventLedger` | the counters, the rows and the saved aggregate through retention, enrichment, import, restart and copy | `MCEventLedger` | `StorageProofs` (lemmas on data: `DataLemmas`) |
| `DashboardCache` | versions, caches, ETags and queries of the dashboard | `MCDashboardCache` | `DashboardCacheProofs` |

A usage event goes through them in this order. `StreamTracker` collects what a
stream reports and commits a record, `UsageFallback` decides which records of a
request are counted, `UsageCallbacks` queues them before `Record`.
`EventPipeline` follows what `Record` hands over inside one store, and
`StoreControl` which store it is. `EventLedger` takes a transaction as one step
and follows what it does to counters and rows. `DashboardCache` and `ExportJobs`
read both. Where two modules model the same code, the one abstracts what the
other details: `StoreControl` knows of an event only queued, stored or spooled;
`EventLedger` has queue, spool and replay as one set of unwritten events.

### UsageCallbacks and CallbackContract

State: the queue and its bytes, `active`, `stopping`, the set of goroutines
`waiting` on the condition, and one program counter per goroutine. `accepted`,
`ran` and `drainTarget` are observations. `Enqueue` and `Drop` are the two ends
of `enqueue`; `Signal` wakes one element of `waiting` and `Broadcast` all of
them, as `sync.Cond` does; `Park`, `Take`, `Finish` and `Exit` are the worker's
critical sections; `DrainWait` and `DrainReturn` the two outcomes of one pass
of the drain loop. `HasEventStore` reads the store pointer in a step of its own,
so that `SwitchStore` falls between the test and the enqueue. A callback's size
is an arbitrary number (`Size`).

`CallbackContract` has the pending tasks, the begun ones, and whether one runs,
the queue is closed or shutdown was told so. Its `Refuse` asks whether the tasks
that are pending are really too many or too large (`Weighs` adds their sizes
up), so that implementing it means that the code's byte counter never drifts.
The refinement mapping renames: `pending <- queue`, `begun <- ran`,
`running <- active`, `closed <- stopping`, `refused <- drops`, and `stopped` is
shutdown's return.

### EventPipeline

State: what is on disk (`rows`, `saved`, `active`, `replayFile`), what is in
memory, and observations with which losses are attributed. One action per
critical section of each goroutine: the writer (`Writer...`, `SettleReplayed`,
`SettleStored`, `Spool...` for its fallback), the spool goroutine (`SpoolTake`,
`SpoolWrite`, `SpoolFinish`), the startup replay and the retry loop
(`Merge`, `Unlink`, `Scan`, `Open`, `Feed`, `FeedStop`, `Cancel`, `FeedEnd`,
`Retry...`), `Record` with its hand-off, `pruneSQLite`, `Stop`, `Stopped`,
`Crash` and `Start`. `Crash` is the only action that is no code of the
repository.

An event is an opaque value: its fingerprint is the event. An aggregate is the
number of times each event is counted. A row's identity is its position.
A failed transaction or spool write is a choice of the environment, and so is
`pruneSQLite`: `MaxFaults` bounds both together. A replay object whose rewritten
file could not be installed keeps the file; the field `keep` stands for that.

Out of the module: retention (`EventLedger` has it), the decoding errors and the
line limit of the scanner, the 64 MiB limit of the spool file, errors of the
file operations inside a merge, and a second store.

### StoreControl

State: the current store, the opened, closed and copied ones, the writer's queue
and batch with the store each task was created for, and one program counter per
goroutine. `storageControlMu` is `control`: a goroutine that never waits inside
its critical section takes one step, one that waits is recorded in `control`.
The wait groups are `WritesDone` and `UsesDone`. `TryLock` is the writer's
attempt that avoids the deadlock with a switch. `TimerFires` and `TimerPrunes`
are the retention timer, which takes the lock without trying.

### UsageFallback

State: `c`, the fields that `c.mu` guards, the wake-up channel, and one program
counter each for the scheduler, `Flush` and the callback of every record. The
map of lists per key is one list in the order of arrival, of which each
operation looks at one key; a map's iteration that stops at its first entry is
a choice among the heads of the keys (`Heads`). The heap is a subset of the
pending records, whose order of arrival is that of their deadlines. `Schedule`,
`HandleNative`, `Commit` and `Flush` are critical sections; `RecordNative`,
`RecordDue` and `FlushRecord` are the calls of `Record` that follow them after
the unlock. Every critical section reads the clock `now` once, in ticks.

A record is an opaque value with the key and the client that the code compares.
`Earlier` gives what its history chunks carry. `RequestedAt` of a fallback
record is the time at which its chunk was decoded (`response_intercept.go:1272`):
it waits in the callback queue and in the stream tracker, which keep that time,
before `Schedule` gets it (`Waits` are the lengths of the wait that a run allows).
That of a native record is the start of the request (0) or the time of its
callback, which may have waited as well.

Abstracted: every record has one unit of bytes, so the byte counters equal the
counters, one eviction makes room for one record, and a record that exceeds the
byte limit alone does not occur. The enrichment of one record by the other is
left out (`EventLedger` has its effect). `Stream` stands for
`usageFallbackStreamKey` and for the correlation ID in it. `fate` and
`forgotten` in `c` are observations.

### StreamTracker

State: the entry of each key, the byte counter, the callback queue, the position
of each chunk's callback, of the ticker's goroutine and of `close`. A chunk is a
record with its stream, its position and size, the host's index, the usage
objects of its body, and whether it ends the stream. `Skip`, `Queue`, `Direct`
and `WorkerTake` are the ways of a chunk to `Observe`, with and without a
database; `Queue` may refuse any chunk, because the queue, which holds other
callbacks too, may be full by its length or its bytes (`usage_async.go:58-64`); `Commit` is what follows after the unlock. `FlushExpired`,
`FlusherCommit` and `CloseStart`, `CloseAwait`, `CloseCommit` take entries from
the table and commit them without the lock. `Decoded` and `HistoryTokens` are
the choice of the usage object and of the chunk of the history that count.

What a stream loses by design is observed in `cut` (evicted at a limit, expired,
closed, or come after its terminal chunk) and named by the properties. The
`doubled` observation is a flaw of the accounting: `Observe` subtracts the
replaced entry's bytes (`stream_state.go:107`) before the eviction loop
(`:109-113`) may pick the same entry and subtract them again, so the counter then
understates what is held and the table may exceed its bytes, where
`docs/superpowers/plans/2026-08-05-minimal-resource-overhead.md:806` speaks of
exact caps. `TableAccounting` says that the counter is exact otherwise and that
it errs to this side only, and `UpdatesAreKept` that it therefore never keeps an
update out: the eviction loop, `Turns`, ends with room for it. `Turned` is one
turn of the loop; entries of one age are in no order, so that `Evicted` is the
set of the tables it may end with.

Out of the module: the text of payloads (JSON and base64) and the providers'
names of fields, the proxy's log from which a stream may be correlated
(`findByCorrelation` answers with any open entry), and metrics.

### ExportJobs

State: the table with each job's status, who is removing jobs and at which of
the three steps (job, temporary file, file), the position of each job's
goroutine, what it has written, and which files exist. Removal holds `m.mu`, the
goroutine's file operations do not: `Page`, `Hash` and `Rename` interleave with
`Delete`, `Cleanup` and `Close`, and `RunUpdate` decides who is left with the
file. Rows have an ID, so that the cursor of a page (`CursorAfter`) is the code's
(time, ID) pair; `Insert`, `Retention` and `SwitchDatabase` change the table
between two pages. Without a database pages are offsets into the sorted details.

A difference to the documents: the limit of a job is compared after a page is
written (`dashboard_export_jobs.go:503-532`), and a page of the database has the
page size whatever remains (`stats.go:8493`), so an export whose limit is no
multiple of the page size has more events than its limit, where
`docs/guides/cpa-usage.md:460` and `README.md:31` promise at most that many.

### UsageCounters and EventLedger

`UsageCounters` is what `recordDetailLocked`, `removeDetailLocked` and the
enrichment do to the counters: one counter that every detail is in for good, two
endpoints between which metadata moves a detail, and the client it then enters.
`EventLedger` uses it in both places where the code does, the counters of the
process and the aggregate that it loads: `RecordEvent`, `Write` with its retention,
its limit and its snapshot, `WriteFails` with its rollback, `Enrich`, `Import`,
`ImportFails` with its rollback, `Prune`, `PruneFails`, `Configure`, `Restart`, `Crash` and `SwitchDatabase`.
The code adds and removes details one after the other; here a set of them is one
operation. Adding is a sum. Removing takes the details in their order and stops to
find them when the group of their API is gone, so `UncountAll` removes as many as
the group counts (`Uncounted`), and no counter goes below zero.

`unsettled` names why a saved aggregate does not agree with the rows, `drifted`
that such a pair was loaded. Reading the code for them showed where a restart
counts other than the process did:

- A row's ID is not `AUTOINCREMENT`: when the newest rows are deleted, new rows
  get IDs that the watermark already covers (`reused`).
- The batch's retention deletes rows and deducts them in memory, and is saved
  with the next snapshot only; a crash between counts them again (`removed`).
- An aggregate that is saved when all rows are gone has the watermark 0, and the
  next crash recovery forgets what the limit had evicted
  (`stats.go:983-988`, `Forgotten`).
- `copyFrom` numbers the rows anew and keeps `last_event_id`
  (`event_store.go:1505-1622`, `MarkMisses`).
- A prune or an import saves the aggregate while events are queued
  (`stats.go:5538`, `early`).
- Metadata that waited for its event enters the row with the batch or the
  import, while the counters have the event without it until the next load; a
  batch that fails then may put an event back under the wrong endpoint (`late`).

An import of an export recognises an event by a fingerprint that was computed
when the row was written: an event enriched since then is imported again, where
`docs/guides/cpa-usage.md:274` says that an import skips exact duplicates.
`ImportsAreNew` compares the fingerprints and not the events; `live` marks the
rows of the batch, which writes what `Record` counted without comparing.

### DashboardCache

State: the counted details, the rows, the version `summaryVersion`, four caches,
the open transaction, the poll and the copy of each reader. Changes are the
callers of `invalidateSummaryLocked`, transactions are `Open`, `Commit` and
`Rollback`. A poll is several steps (`Poll`, `Check`, the query, the label),
between which everything else happens, as in the handlers of `dashboard.go`,
which read the version without holding it. `Answer` stands for every field of an
answer: it is the set of details it was computed from, and the health window.

Two behaviours are observed and not excluded by the code. `Rollback` restores
the version of before (`event_writer.go:502`, `stats.go:5535`, `:5704`), so a
version number, and with it an ETag, may be given to two contents (`rolled`).
The commit of rows raises no version: a range or a page that was read between
`Record` and the commit stays in the range cache and behind its ETag until the
next invalidation (`stats.go:8316`, against `docs/guides/cpa-usage.md:389`).
`AnswersCurrent` is therefore about the answers that come from the counters.

## Runs

| Run | Shows | Bounds |
|---|---|---|
| `callbacks` | the queue loses no wake-up, its drain and shutdown cover what they promise and return, and it implements `CallbackContract` | 3 callbacks of sizes 2, 2 and 1, a queue of 2 tasks and 3 bytes, 2 drains, 1 shutdown |
| `pipeline` | no silent loss, no duplicate rows, exact counters, exact recovery | 2 events, 2 replays, queues of 1, 1 fault or prune, 2 process starts |
| `pipeline_live` | events settle, stops complete, replays end | 2 events, 1 replay, 1 fault or prune, 1 start |
| `store_control` | no use after close, complete copies, current reads, and somebody can always go on | 3 records, 2 queries, 2 stores, queue of 2, with the timer |
| `timer` | the holder of the control lock may wait for ever (a violation) | 2 records, 1 query, 2 stores, queue of 1 |
| `fallback` | a request is counted once while the times fit; `Flush` is complete | 2 requests with 2 records each and equal keys, 3 ticks, delay 1, windows of 1 and 2, records that waited 0 or 2 ticks |
| `fallback_limits` | one fate per record, exact counters and limits; nothing waits for ever, `Flush` returns | 3 snapshots of 2 streams, 1 native record, 2 pending, 1 recent of each kind, 2 retained, 2 ticks |
| `streams` | exact accounting, one commit of the last usage per stream, updates in time are stored, nothing left behind at close, silent streams leave | 7 chunks of 2 streams and of none, 2 streams, 3 bytes, a TTL of 1 tick |
| `exports` | files follow jobs, exports are complete, slots return | 2 jobs with limits, 4 events of which two share a timestamp, 1 active, 2 stored, pages of 1, 1 file error or change of the table |
| `ledger` | counters equal rows, metadata reaches its row, imports add nothing twice | 2 events at times 0 and 1, windows of 1 and none, a limit of 1, 2 ticks, 2 faults or imports |
| `dashboard` | fresh caches and current answers, in both modes | 2 events, 2 readers, caches of 1, 2 polls, 1 transaction or change of memory, 2 ticks |
| `dashboard_panic` | a read of a range may end the process (a violation) | 1 event, 1 reader |

The bounds make every limit reachable: the third callback meets a full queue,
by length or by bytes; with queues of one, the second event is diverted to the
spool; one fault sends a batch through the spool and a replay back to the
writer; two starts give one recovery from whatever the first process left; two
replays are needed for one to follow, or to overlap, another. A second event is
needed to have one in a file and another in the queue. Two stores are one
switch; `NoStore` is a third value. In `fallback` the clock reaches past a
deadline and past the shorter window, and a record may have waited longer than
either, so that a native record may find its fallback record pending, recent, or
its entry expired; equal keys make the records of the two requests
interchangeable, which is the case the matching has to survive. In `fallback_limits` every table is smaller than what arrives. The
chunks of `streams` include the first event of a message, an incomplete usage
object, a terminal chunk with history and one without; two streams of size 2
exceed the 3 bytes. In `exports` two events of one time straddle a page. In
`ledger` an event expires in the first tick after its window, and the limit of 1
evicts the other. In `dashboard` two polls are one of each reader, or two of
one reader, the second with the ETag of the first; one transaction can fail and
lower the version.

Symmetry is declared for events, replays, records, queries, stores and readers in
the runs `pipeline`, `store_control` and `dashboard`, which check no liveness.
No action or property of these modules names one of them.

Deadlock is checked wherever the configuration does not turn it off, which are
`callbacks`, `pipeline` and `pipeline_live`. `CHECK_DEADLOCK FALSE` stands in
the configurations of `StoreControl`, because with the timer the program really
stops (`timer`; `NobodyStuck` is the property for everything else), and in those
of `UsageFallback`, `StreamTracker`, `ExportJobs`, `EventLedger` and
`DashboardCache`, whose clocks, chunks, jobs, changes or polls end at a bound.

### Conditional properties

- `NoSilentLoss` says nothing once two replays overlap (`overlapped`), and sets
  apart events a crash destroyed in memory (`crashed`) and events recorded in
  memory only, during a stop (`late`).
- `RecoveryExact` says nothing about events that were diverted to the spool,
  recorded during a stop, or saved early by a prune. Two more reasons are read
  from the code: `Record` hands an event to the spool after it released the lock
  (`stats.go:1408`), so a snapshot may include an event nobody has accepted; and
  a retry replay may take a previous process's spool before the startup replay,
  and does not count what it inserts (`event_writer.go:801`).
- `NobodyStuck` sets apart the writer whose timer fired, which `timer` is about.
- `CountedOnce` holds while the host delivers the two records of a request within
  the windows (`Delivered`), the times that native records carry are not late for
  a fallback record they might meet (`TimesFit`), no recent record was evicted, the
  plugin has not been flushed, and, of each key, for records that name one client
  where they name any (`OneClient`). Without `TimesFit` it is false, as described
  below. Without `OneClient` it is false as well: a record without a client key is
  compatible with every client's (`response_intercept.go:2253`), so the native
  record of one client may take the fallback record of another, and what is left
  of the two requests no longer matches.
- `FinalUsageOnce` is about streams whose chunks went one way (`switched`), that
  were not cut, and that are `Orderly`: of one request, with one terminal chunk,
  the last, and growing indexes, as a proxy sends them. Its last usage is the
  latest that the queue accepted: a running total that a full queue refuses is
  counted among the dropped callbacks, and the stream may be committed with an
  older one or not at all. `HandedOver` is about chunks that were observed, and
  allows only eviction and lateness.
- `ExportFaithful` leaves out exports during which the database was switched, or
  which read from memory while an event of their snapshot was added
  (`disturbed`).
- `CountersMatchRows` ends where an aggregate that does not agree was loaded.
- `AnswersCurrent` ends where a failed transaction lowered the version.

### What the code does against its documents

By a run that TLC refutes:

- *timer.* The retention timer locks `storageControlMu` on the writer's goroutine
  (`event_writer.go:228`); an exact query, a switch or `Close` holds that lock
  while it waits for the writer. `stats.go:1711` says that it is held only long
  enough to pair a reference with its wait group.
- *dashboard_panic.* A range summary makes its cache under the lock, unlocks for
  the query, and assigns to it afterwards (`stats.go:6425`); an invalidation
  between sets the map to nil, and the assignment ends the process.

Read from the code while modelling, and behind the conditions above:

- A replay is created by each pass over the files and ends when its last event
  is settled, which may be after the next pass has begun and merged new events
  into the replay file; the first replay then removes or replaces the file by
  name (`event_writer.go:1300`, `:1306`). An event may so be lost that no counter
  tells of; `docs/superpowers/plans/2026-08-05-low-overhead-statistics.md:149`
  surfaces each loss by counters.
- The startup replay counts each spooled event, although the final snapshot of a
  graceful stop may count it already (`event_writer.go:933`);
  `docs/releases/changelog.md:20` says that a replay removes duplicates.
- A native record that came first is recognised by a fallback record when its time
  is at most a second after the decoding of the fallback's chunk
  (`response_intercept.go:2144`, `:2195`). The chunk's record keeps that time
  while it waits in the callback queue and, up to its expiry, in the stream tracker
  (`stream_state.go:118-128`, `:146`). A native record that carries the time of
  its hand-off and comes in between is not recognised, and both are counted, where
  `docs/superpowers/plans/2026-08-05-minimal-resource-overhead.md:786` says "No
  duplicate event is created for native plus fallback usage." Only the match in
  the other order allows for the time of the commit (`:2207-2211`). TLC finds this
  in the run `fallback` once the first condition of `TimesFit` is taken out.
- `pruneSQLite` saves the aggregate of the moment with the watermark of the rows
  of the moment, while events are queued (`stats.go:5538`).
- The differences named under `StreamTracker`, `ExportJobs`, `EventLedger` and
  `DashboardCache`.
- Without a database, a detail that the limit of a model trimmed and that then
  expires is never deducted, and importing it again counts it twice
  (`docs/guides/cpa-usage.md:626`). The guide speaks of a temporary database when
  persistence is off (`:623`); no code opens one.

## Fairness

`UsageCallbacks`: weak fairness for the worker, for each drain, for shutdown and
for a callback once the host delivered it: each is a goroutine that runs when it
can.
`EventPipeline`: weak fairness for the writer, the spool goroutine, both replay
goroutines and hand-offs, and for the end of a stop. There is none for `Record`,
`Stop`, `Crash`, `Start` or `pruneSQLite`.
`UsageFallback`: weak fairness for the scheduler, for `Flush` once it has begun,
for a native record's `Record`, and for the clock; none for the host's calls.
`StreamTracker`: weak fairness for the ticker, its goroutine, `close` once it
has begun, the queue's worker and commits; none for the host's chunks.
`ExportJobs`: weak fairness for whoever removes jobs under `m.mu`, strong
fairness for each job's goroutine, whose steps contend for `m.mu`: Go hands a
mutex to a waiter after at most a millisecond of starvation.
`StoreControl`, `EventLedger` and `DashboardCache` state none: their properties
are safety, and `NobodyStuck` asks whether a step is enabled.

## Proofs

Every proof is about every value of the constants, under the named assumption of
the module (`QueueAssumption`, `PipelineAssumption`, `StoreAssumption`, `ExportAssumption`,
`DashboardAssumption`, `FallbackAssumption`, `ChunkAssumption`, `NoneAssumption`,
`LedgerAssumption`): sizes, times and limits are numbers, roles are distinct.

**`UsageCallbacksProofs`**: `TypeOK`, the limits `Bounded`, `NoLostWakeup`, `DrainCovers`,
`ShutdownRanAll`, the order of callbacks, and that `Spec` implements
`CallbackContract`. `IInv` joins the types with:

- the list of what was accepted is what ran followed by the queue, so that
  positions in it never move, and a drain's target is a prefix of it;
- whoever sleeps on the condition does so because its own condition is false:
  the worker with an empty queue, a drain while the processor is busy. This is
  why one `Signal` suffices though worker and drains share the condition: when
  the worker sleeps nothing is queued and nothing active, so no drain sleeps and
  the signal cannot go astray;
- the worker is active exactly between `Take` and `Finish`, and exits only when
  stopping with an empty queue, after which nothing is accepted.

`CounterInv` adds that the byte counter is the weight of the queue. A sum over a
sequence would need induction; `Weighs` says instead that prefix sums exist, and
`Append` and `Tail` give new ones. The refinement then has one step per action:
it is a step of the contract or a stutter.

**`EventPipelineProofs`**: `TypeOK`, `NoDuplicateRows` and `RecoveryExact`, for
any number of events, replays, faults, crashes and starts. `Tables` joins

- `Shape`: the types, and which task, record or replay each goroutine has in hand
  at which position;
- `Bytes`: the byte counters of the two queues are what is queued or in a
  goroutine's hands, and within their limits;
- `Sources`: what is in a file, in the spool's queue, in a hand-off or in a replay
  is an event that `Record` diverted from the direct path;
- `DirectPath`: an event that comes to the writer without a replay is there once,
  is not diverted unless the writer itself is blocked handing it to the spool,
  and has no row until its batch is committed. The transaction's test for
  existing rows keeps replayed copies out; this is what lets every other event
  do without it.

`Aggregates` says of the saved aggregate, of the counters in memory and of the
snapshot a transaction is about to save that they count each event once, if it
has a row up to the watermark, has a row or is on the direct path, or will have
a row when the transaction commits; a recovery adds to the first the rows above
the watermark and gets the second.

The last part of the module has `QueuesExact` and `NoSilentLoss`, the most important
promise of the component: an event that was recorded has a row, is on its way,
is in a file, or one of the failures that the code reports took it. Neither is
inductive. `OneReplay` says that at most one replay object is alive, and in
which of three stages (`NoneLive`, `Reading`, `Draining`) it is with whoever
feeds it; its `remaining` counts the tasks that are out. `FileKept` says what a
replay file may be trusted with: while files are merged the old one is part of
the new (`Merging`), and each record of a file that is being replayed has a row,
failed, is a task, or is still to be read (`Covered`), which is why the file may
be removed when nothing of it remains. `NothingLost` follows an event from
`Record` (`InHand`) on, and attributes it to the failure that took it (`Noted`).

**`DataLemmas`**: an induction theorem with an operator parameter cannot be
used here, so induction is over a set instead: a set of numbers that has 0 and
every successor has all of them (`NatSetInduction`). From it follow sums over
finite functions (`SumUpdate`: what one change does to the sum), the largest
element of a finite set, and in `EventPipelineProofs` the table that the
insertion of a batch builds, row by row (`InsertMany`).

**`UsageFallbackProofs`**: `TypeOK`, `LimitsExact`, `OneFate` and
`FlushComplete`, for any records, windows and limits. `IInv` joins the types with

- `Table`: the counters are the lengths, the pending records are distinct, not
  cancelled and of open fate, the heap holds only pending ones, and
  `byStream` names a pending record or one that was cancelled. The records that
  are pending but not in the heap are in the scheduler's hands;
- `InLimits`: the limits of the lists and of all of them together. One eviction
  makes room for one record because this holds before;
- `Positions`: at which position the scheduler and `Flush` hold items, that the
  table is closed once `Flush` has begun, and that `Flush` is past its wait only
  when the scheduler is done;
- `Fates`: a callback is done exactly when its record is pending, with one of
  the two goroutines, counted, or taken, and no two of these hold at once. What the
  scheduler has popped is pending or cancelled: a record that is evicted
  or matched meanwhile is kept out of the statistics only by that mark.

Every operation is proved to lose only pending records whose fate it decides
(`Shrinks`), and every action is a composition of operations. The loop of
`Supersede` is a fold over a set: that it has a result, and what every prefix
of it keeps, is proved by induction on sets of keys. `Keep` and `RemoveFirst` are
recursive functions, so what they return is proved from their definitions, by
induction over a set of positions.

**`StorageProofs`**, of `StoreControl`: `TypeOK`, `OpenWhileUsed`, `CopyMissesNothing` and
`ReadsAccepted`. `SInv` joins `Shape` (types, who holds the control lock at which
position, what the writer's batch is at which position, which stores are open at
which stage of a switch), `Apart` (a retired store is not the current one),
`Copied` and `Seen`. The argument: a switch and `Close` hold the lock from the
moment they wait for the writes on, so that nobody can be paired with the old
store in between, and a query takes the lock before it waits.

**`StorageProofs`**, of `EventLedger`: `LedgerTypeOK`, `CountersMatchRows`,
`EnrichmentKept` and `ImportsAreNew`, for any events, times, windows and limit. The
first two follow from `LedgerInv`:

- `Matched`: the total is the number of rows, of events on their way, and of
  evicted ones; every other counter agrees as well while no metadata was late;
- `AggregateSettled`: while nothing is unsettled, the saved total is the number of
  rows up to its mark and of evicted ones. A restart adds the rows after the mark,
  so this is what makes a crash harmless, and it is not inductive without
- `IdsKnown`: no row has an ID after `lastId`, the mark that the next batch saves.

Types alone are not inductive either: the writer's last cutoff must not be after
`horizon` (`Types`), or a batch could expire an event before it.
Pruning is the step that every other one contains, and one lemma is enough for it
(`PruneMatches`): the counters are at least what is removed from them, so the group
of an API is never gone too early, every expired row is found, and what a failed
transaction counts again is what it had removed (`counted` is `removed`). That a
tally of rows is the sum of the tallies of its parts (`TallyOfParts`), and does not
depend on the IDs (`RenumberedTally`), takes batch, import, copy and retention
apart without induction over rows.

`EnrichmentKept` and `ImportsAreNew` are inductive with the types (`KeptInv`). A row
that is gone has expired, which moves `horizon` past its event, or was evicted
(`PrunedRich`); metadata that leaves `pending_enrichments` enters a row in the same
transaction (`BatchKept`, `ConsumedIsRich`); a copy keeps the order of the rows, on
which it depends which of two equal ones came later (`RenumberedKept`, by
`RankedNumbers`: ranks follow the order and every number has one).

**`ExportJobsProofs`**: `FilesFollowJobs`, and that the limits hold and no
goroutine ends with its job active. The invariant relates the position of a
goroutine, the presence of its files, and the step of a removal under way: a
file may exist after its job was removed only while the goroutine has still to
find that out.

`ExportFaithful` and `TypeOK` follow from `ExportInv`, which says where an export
that nobody disturbed stands between two pages. From the database (`ByCursor`):
no row of what it has written is past the cursor, and every event that it has
still to write has one that is. From memory (`ByOffset`, `Leads`): the row at
place *n* of the matching ones is the *n*-th event written, for every place below
the offset. What is written is ordered and without repetition, and once the
export ends only its limit leaves an event out (`Complete`). `OneRow`, an event
has one row, is what keeps a later page from repeating an earlier one. The place
of a row is the number of newer ones, so that a page is defined, and reasoned
about, by cardinality and without sorting; `Ranks` shows that every place is
taken once. An insert gets the highest ID but may be older than the cursor, where
a later page finds it or not without harm; in memory it would shift the places,
which is why it disturbs. Retention takes the oldest rows and keeps the places of
the others.

**`DashboardCacheProofs`**: `CachesFresh`, `TypeOK` and the action property
`AnswersCurrent`. `DInv` joins `Fresh` (what is cached for the version of now is
computed from the counters of now), `Copies` (the same of what readers keep, by
its ETag) and `Undone`, without which neither is inductive: a transaction that
changed the counters has raised the version, and as long as it is open the
summary that is cached with the version it may restore is the one of a moment
when nothing had changed. Every change is one of three lemmas (`RaiseKeeps`,
`StayKeeps`, `RollbackKeeps`), every step of a poll a move or a reply. `TypeOK` has
the limits of the caches: `TInv` adds to it what they are made of (a finite set
of keys, a sequence of pages), and that a poll which has queried the database has
rows to answer from.

**`StreamTrackerProofs`**: every safety property of `StreamTracker`, for any
chunks, limits and TTL: `TableAccounting`, `FinalUsageOnce`, `HandedOver`, the
action property `UpdatesAreKept`, and `TypeOK`. `IInv` joins the first with

- `EntriesOK`: an entry is under its own key and has the usage of a chunk that
  was observed;
- `TakersOK`: what the ticker's goroutine and `close` hold belongs to streams
  that are marked as cut, and which positions go with which contents: after
  `close` has begun the table is empty, and at its end nobody holds anything;
- `QueueOK` and `OrderOK`: the queue has the queued calls, those of a stream in
  their order; while the storage is not switched, a chunk is observed when every
  earlier one of its stream is done. A terminal chunk must not overtake a running
  total that waits in the queue;
- `StreamsOK`: until its end is observed, a stream that was not cut has its
  latest accepted usage in the table and nothing committed; afterwards it has left the
  table, and the end's call has that usage in hand or has committed it. This is
  `FinalUsageOnce` at every moment of the stream;
- `CustodyOK`: usage that was observed is committed, in a call, in the table, in
  a goroutine's hands, or was evicted or late. It becomes `HandedOver` once all
  hands are empty.

The eviction loop is a recursive function of its turns (`Turns`), of which
`TurnsKeep` proves by induction over their number that each keeps the accounting
and that a table which is still full has lost a stream with every turn; with as
many turns as there are streams it has room, or is empty (`EvictedIs`). In an
empty table the counter is at most 0, by the accounting, so that any update that
fits the limit fits: this is why an understated counter is harmless to updates
and an overstated one would not be.

Only model-checked: liveness and what uses `ENABLED` (`CallsReturn`,
`PipelineSettles`, `RecordsSettle`, `StreamsSettle`, `SlotsReturn`,
`NobodyStuck`), which the prover cannot state, and `CountedOnce` of `UsageFallback`,
which counts how native and fallback records pair greedily over time windows: the
code pairs two records by their times and identities alone, and that no pair crosses
two requests without an equal one in return is a fact about the whole history of
matches and not about any two of them.

## Plan

1. A proof of `CountedOnce`, from the history of matches.
2. `StoreSwitch`: two stores with their spools and replays, which joins
   `EventPipeline` and `StoreControl`, for the replay whose store was replaced
   (`event_writer.go:922`) and the switch that finds the writer running (`:72`).
3. An abstract ledger (an event is pending, stored, or dropped and counted) that
   `EventPipeline` implements while replays do not overlap.
4. The in-memory import's dedup index and `max_details` without a database.
5. The price worker's replacement of prices under running queries.

## Not modelled

- The legacy JSON storage worker: `configureStorageLocked`,
  `startStorageWorkerLocked` and `persistRecordedEvent` have no caller outside
  tests; what is left of it reads old shard files once.
- The price worker: one goroutine that replaces a table under `s.mu`; no counter
  of these models depends on prices.
- Naming, output helpers, configuration and registration: pure conversions.
- Parsing of payloads beyond which usage counts (`StreamTracker`).
- The browser's code, scripts and static files.
- Seven hazards have no property: callbacks that run synchronously after a
  storage switch (`usage_async.go:94`), the hand-off after the unlock
  (`stats.go:1408`), a save while events are queued (`stats.go:5538`), the race of
  the two replays for a previous process's files (`event_writer.go:801`), the
  retry scheduled as the loop exits (`:792`), a torn last line (`:1001`), and the
  watermark that a copy keeps (`event_store.go:1505`). Their notes in
  `PROJECT.json` say why.
