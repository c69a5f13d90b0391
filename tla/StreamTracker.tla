---------------------------- MODULE StreamTracker ----------------------------
(***************************************************************************)
(* streamUsageTracker (go/stream_state.go) and the way of a chunk to it    *)
(* (go/main.go, go/stream_callback.go, go/usage_decode.go): a stream       *)
(* reports running totals; the tracker keeps the latest one of each open   *)
(* stream and hands it to the fallback coordinator (commits) when the      *)
(* stream's terminal chunk comes, when nothing came for a while, or when   *)
(* the plugin shuts down.                                                  *)
(*                                                                         *)
(* A chunk is a record: stream and position, the index the host gives it   *)
(* (0: none), the identity of its request (client, provider, credential),  *)
(* its size as a tracked record, whether it is terminal, the usage objects *)
(* of its body in their order and whether the host sends the stream's      *)
(* earlier chunks with it.  A usage object has its token count, the number *)
(* of its fields, and whether it lies in the "message" of an event, which  *)
(* streams ignore.  An entry has the age of its last update in ticks; two  *)
(* updates of one tick are in no order, as the time is read before the     *)
(* lock.                                                                   *)
(***************************************************************************)
EXTENDS Integers, Sequences, FiniteSets, FiniteSetsExt, SequencesExt

CONSTANTS
  Chunks,
  None,
  MaxStreams, MaxBytes,   (* maxTrackedStreams, maxTrackedStreamBytes        *)
  TTL                     (* streamStateTTL                                  *)

Streams == {c.stream : c \in Chunks} \ {None}
Keys == {<<c.stream, c.identity>> : c \in {d \in Chunks : d.stream # None}}

UsageObject == [tokens : Nat, fields : Nat, message : BOOLEAN]

ASSUME ChunkAssumption ==
  /\ IsFiniteSet(Chunks)
  /\ \A c \in Chunks : c.position \in Nat /\ c.index \in Nat /\ c.size \in Nat
  /\ \A c \in Chunks : c.usages \in Seq(UsageObject)
  /\ \A c, d \in Chunks :
       c # d => <<c.stream, c.position>> # <<d.stream, d.position>>
  /\ MaxStreams \in Nat \ {0} /\ MaxBytes \in Nat /\ TTL \in Nat \ {0}

Tokens == {0} \cup UNION {{u.tokens : u \in ToSet(c.usages)} : c \in Chunks}
Entry == [chunk : Chunks, tokens : Tokens, age : 0..TTL]

\* No entry is taken for an absent one.
ASSUME NoneAssumption == None \notin Entry

VARIABLES
  entries,    (* for each key: its chunk, tokens and age, or None            *)
  bytes,
  closed,
  queue,      (* the callback queue; its worker observes one at a time       *)
  database,   (* callbacks are queued while a database is configured         *)
  call,       (* where the callback of each chunk stands                     *)
  final,      (* the tokens a call has in hand to commit                     *)
  flusher,    (* run: its position and the entries it took                   *)
  closer,     (* close: the same                                             *)
  commits,    (* the totals committed for each stream                        *)
  cut,        (* observer: how streams lost entries or usage before their    *)
              (* terminal chunk                                              *)
  doubled,    (* observer: an update has evicted the entry it replaces       *)
  switched    (* observer: a database was configured or removed meanwhile    *)

vars == <<entries, bytes, closed, queue, database, call, final, flusher,
          closer, commits, cut, doubled, switched>>

Held == {entries[k] : k \in Keys} \ {None}

TypeOK ==
  /\ entries \in [Keys -> Entry \cup {None}]
  /\ bytes \in Int /\ closed \in BOOLEAN /\ database \in BOOLEAN
  /\ queue \in Seq(Chunks)
  /\ call \in [Chunks -> {"none", "queued", "working", "direct", "done", "dropped"}]
  /\ final \in [Chunks -> Tokens]
  /\ flusher \in [pc : {"wait", "commit", "done"}, taken : SUBSET Entry]
  /\ closer \in [pc : {"idle", "await", "commit", "done"}, taken : SUBSET Entry]
  /\ commits \in [Streams \cup {None} -> Seq(Tokens)]
  /\ cut \in [Streams -> SUBSET {"evicted", "expired", "closed", "late"}]
  /\ doubled \in BOOLEAN /\ switched \in BOOLEAN

Init ==
  /\ entries = [k \in Keys |-> None] /\ bytes = 0 /\ closed = FALSE
  /\ queue = <<>> /\ database \in BOOLEAN /\ switched = FALSE
  /\ call = [c \in Chunks |-> "none"] /\ final = [c \in Chunks |-> 0]
  /\ flusher = [pc |-> "wait", taken |-> {}]
  /\ closer = [pc |-> "idle", taken |-> {}]
  /\ commits = [s \in Streams \cup {None} |-> <<>>]
  /\ cut = [s \in Streams |-> {}] /\ doubled = FALSE

-----------------------------------------------------------------------------
(***************************************************************************)
(* Decoding.                                                               *)
(***************************************************************************)
Counts(u) == u.tokens > 0 /\ ~u.message

\* The last of the most complete usage objects of a payload.
Decoded(payload) ==
  LET good == {i \in DOMAIN payload : Counts(payload[i])}
      wins(i, j) == \/ payload[i].fields > payload[j].fields
                    \/ payload[i].fields = payload[j].fields /\ i >= j
  IN IF good = {} THEN 0
     ELSE payload[CHOOSE i \in good : \A j \in good : wins(i, j)].tokens

MentionsUsage(c) == c.usages # <<>>
Newest(D) == CHOOSE d \in D : \A e \in D : e.position <= d.position
Earlier == [c \in Chunks |->
  {d \in Chunks : d.stream = c.stream /\ d.position < c.position}]

\* The newest history chunk that may have usage, messages left out, decides.
HistoryTokens(c) ==
  LET useful == {d \in Earlier[c] :
                   MentionsUsage(d) /\ \A u \in ToSet(d.usages) : ~u.message}
  IN IF useful = {} THEN 0
     ELSE Decoded(Newest(useful).usages)

\* A body that mentions usage hides the history, whatever it decodes to.
TokensOf == [c \in Chunks |->
  IF MentionsUsage(c) THEN Decoded(c.usages)
  ELSE IF c.terminal /\ c.history THEN HistoryTokens(c)
  ELSE 0]

-----------------------------------------------------------------------------
(***************************************************************************)
(* The table.  A table t has the fields entries and bytes.                 *)
(***************************************************************************)
KeyOf(c) == <<c.stream, c.identity>>
Table == [entries |-> entries, bytes |-> bytes]
SizesOf(E) == [k \in Keys |-> IF E[k] = None THEN 0 ELSE E[k].chunk.size]
SizeOf(E) == SumFunction(SizesOf(E))
In(t) == {k \in Keys : t.entries[k] # None}

WithoutBytes(t, k) ==                                          \* mutant
  [t EXCEPT !.entries[k] = None]
Without(t, k) ==
  [entries |-> [t.entries EXCEPT ![k] = None],
   bytes |-> IF t.entries[k].chunk.size > t.bytes THEN 0
             ELSE t.bytes - t.entries[k].chunk.size]

Oldest(t) == {k \in In(t) : \A l \in In(t) : t.entries[l].age <= t.entries[k].age}
Full(t, size) == Cardinality(In(t)) >= MaxStreams \/ t.bytes + size > MaxBytes

\* One turn of the eviction loop: a table that is still full loses one of its
\* oldest streams.
Turned(t, size) ==
  IF Full(t, size) /\ In(t) # {} THEN {Without(t, k) : k \in Oldest(t)} ELSE {t}

\* The tables that n turns can lead to, and those the loop can end with.
Turns(t, size) ==
  LET after[n \in Nat] == IF n = 0 THEN {t}
                          ELSE UNION {Turned(u, size) : u \in after[n - 1]}
  IN after
Evicted(t, size) == Turns(t, size)[Cardinality(In(t))]

\* What a terminal chunk finds: its own key or any entry of its stream.
\* Without usage its record has no identity but the stream.
Found(c) ==
  IF TokensOf[c] > 0 /\ entries[KeyOf(c)] # None THEN {KeyOf(c)}
  ELSE {k \in Keys : entries[k] # None /\ k[1] = c.stream}

TerminalSum(c, e) == e.tokens + TokensOf[c]                    \* mutant
TerminalAlways(c, e) == TokensOf[c]                            \* mutant
TerminalTokens(c, e) ==
  IF TokensOf[c] = 0 \/ (c.index > 0 /\ e.chunk.index > c.index)
  THEN e.tokens ELSE TokensOf[c]

-----------------------------------------------------------------------------
(***************************************************************************)
(* Observe: the critical section, the commit follows in a step of its own. *)
(* next is the position of the call when it has something to commit.       *)
(***************************************************************************)
Settle(c, tokens, next) ==
  /\ final' = [final EXCEPT ![c] = tokens]
  /\ call' = [call EXCEPT ![c] = IF tokens > 0 THEN next ELSE "done"]

ObserveUncorrelated(c, next) ==
  /\ c.stream = None
  /\ Settle(c, TokensOf[c], next)
  /\ UNCHANGED <<entries, bytes, cut, doubled>>

ObserveTerminal(c, next) ==
  /\ c.stream # None /\ c.terminal
  /\ \/ /\ Found(c) = {}
        /\ Settle(c, TokensOf[c], next)
        /\ UNCHANGED <<entries, bytes>>
     \/ \E k \in Found(c) :
          /\ Settle(c, TerminalTokens(c, entries[k]), next)
          /\ entries' = Without(Table, k).entries
          /\ bytes' = Without(Table, k).bytes
  /\ UNCHANGED <<cut, doubled>>

Usable(c) == TokensOf[c] > 0 /\ c.size <= MaxBytes
Stale(c) ==
  LET e == entries[KeyOf(c)]
  IN e # None /\ c.index > 0 /\ e.chunk.index > c.index

ReplacedKept(c) == bytes                                       \* mutant
Replaced(c) ==
  IF entries[KeyOf(c)] = None THEN bytes
  ELSE bytes - entries[KeyOf(c)].chunk.size

Put(t, c) ==
  IF Full(t, c.size) THEN t
  ELSE [entries |-> [t.entries EXCEPT
                       ![KeyOf(c)] = [chunk |-> c, tokens |-> TokensOf[c], age |-> 0]],
        bytes |-> t.bytes + c.size]

ObserveRunning(c) ==
  /\ c.stream # None /\ ~c.terminal
  /\ Settle(c, 0, "done")
  /\ \/ /\ ~Usable(c) \/ closed \/ Stale(c)
        /\ cut' = IF Usable(c) /\ closed
                  THEN [cut EXCEPT ![c.stream] = @ \cup {"late"}] ELSE cut
        /\ UNCHANGED <<entries, bytes, doubled>>
     \/ /\ Usable(c) /\ ~closed /\ ~Stale(c)
        /\ LET k == KeyOf(c)
               start == [Table EXCEPT !.bytes = Replaced(c)]
           IN \E t \in Evicted(start, c.size) :
                /\ entries' = Put(t, c).entries /\ bytes' = Put(t, c).bytes
                /\ cut' = [s \in Streams |->
                     IF \E l \in In(start) \ In(t) : l # k /\ l[1] = s
                     THEN cut[s] \cup {"evicted"} ELSE cut[s]]
                /\ doubled' = (doubled \/ k \in In(start) \ In(t))

Observe(c, next) ==
  /\ \/ ObserveUncorrelated(c, next)
     \/ ObserveTerminal(c, next)
     \/ ObserveRunning(c)
  /\ UNCHANGED <<closed, database, flusher, closer, commits, switched>>

-----------------------------------------------------------------------------
(***************************************************************************)
(* The callbacks: the host makes those of one stream one after the other.  *)
(* They run in the caller, or in the queue's worker when a database is     *)
(* configured.                                                             *)
(***************************************************************************)
Returned(c) == call[c] \notin {"none", "direct"}
Turn(c) == call[c] = "none" /\ \A d \in Earlier[c] : Returned(d)
FastPath(c) == TokensOf[c] = 0 /\ ~c.terminal
ShuttingDown == closer.pc # "idle"

Skip(c) ==
  /\ Turn(c) /\ FastPath(c)
  /\ call' = [call EXCEPT ![c] = "done"]
  /\ UNCHANGED <<entries, bytes, closed, queue, database, final, flusher,
                 closer, commits, cut, doubled, switched>>

\* enqueue refuses a callback when it stops and when the queue is full, by its
\* length or its bytes; then the chunk is gone.  The queue also holds callbacks
\* that are no chunks, so that it can be full whatever chunks wait in it.
Queue(c) ==
  /\ Turn(c) /\ ~FastPath(c) /\ database
  /\ \/ call' = [call EXCEPT ![c] = "dropped"] /\ UNCHANGED queue
     \/ /\ ~ShuttingDown
        /\ call' = [call EXCEPT ![c] = "queued"] /\ queue' = Append(queue, c)
  /\ UNCHANGED <<entries, bytes, closed, database, final, flusher, closer,
                 commits, cut, doubled, switched>>

Direct(c) ==
  /\ Turn(c) /\ ~FastPath(c) /\ ~database
  /\ Observe(c, "direct") /\ UNCHANGED queue

WorkerTake ==
  /\ queue # <<>> /\ \A c \in Chunks : call[c] # "working"
  /\ Observe(Head(queue), "working") /\ queue' = Tail(queue)

Commit(c) ==
  /\ call[c] \in {"direct", "working"}
  /\ commits' = [commits EXCEPT ![c.stream] = Append(@, final[c])]
  /\ call' = [call EXCEPT ![c] = "done"]
  /\ final' = [final EXCEPT ![c] = 0]
  /\ UNCHANGED <<entries, bytes, closed, queue, database, flusher, closer,
                 cut, doubled, switched>>

\* A database is configured, or removed, while streams are open.
SwitchStorage ==
  /\ ~switched /\ ~ShuttingDown
  /\ switched' = TRUE /\ database' = ~database
  /\ UNCHANGED <<entries, bytes, closed, queue, call, final, flusher, closer,
                 commits, cut, doubled>>

-----------------------------------------------------------------------------
(***************************************************************************)
(* The ticker's goroutine and close.                                       *)
(***************************************************************************)
Tick ==
  /\ \E e \in Held : e.age < TTL
  /\ entries' = [k \in Keys |->
       IF entries[k] = None THEN None
       ELSE [entries[k] EXCEPT !.age = Min({@ + 1, TTL})]]
  /\ UNCHANGED <<bytes, closed, queue, database, call, final, flusher, closer,
                 commits, cut, doubled, switched>>

ExpiredLate(e) == e.age > TTL                                  \* mutant
Expired(e) == e.age >= TTL

CutBy(S, how) ==
  [s \in Streams |-> IF \E e \in S : e.chunk.stream = s
                     THEN cut[s] \cup {how} ELSE cut[s]]

FlushExpired ==
  LET taken == {e \in Held : Expired(e)}
      among(S) == [k \in Keys |-> IF entries[k] \in S THEN entries[k] ELSE None]
  IN /\ flusher.pc = "wait" /\ ~closed /\ taken # {}
     /\ entries' = among(Held \ taken)
     /\ bytes' = Max({0, bytes - SizeOf(among(taken))})
     /\ cut' = CutBy(taken, "expired")
     /\ flusher' = [pc |-> "commit", taken |-> taken]
     /\ UNCHANGED <<closed, queue, database, call, final, closer, commits,
                    doubled, switched>>

\* The entries are committed in the order of the map's iteration.
CommitTaken(e) == commits' = [commits EXCEPT ![e.chunk.stream] = Append(@, e.tokens)]

FlusherCommit ==
  /\ flusher.pc = "commit"
  /\ \E e \in flusher.taken :
       /\ CommitTaken(e)
       /\ flusher' = [pc |-> IF flusher.taken = {e} THEN "wait" ELSE "commit",
                      taken |-> flusher.taken \ {e}]
  /\ UNCHANGED <<entries, bytes, closed, queue, database, call, final, closer,
                 cut, doubled, switched>>

StopSignalled == closed

FlusherStop ==
  /\ flusher.pc = "wait" /\ StopSignalled
  /\ flusher' = [flusher EXCEPT !.pc = "done"]
  /\ UNCHANGED <<entries, bytes, closed, queue, database, call, final, closer,
                 commits, cut, doubled, switched>>

\* plugin_shutdown closes the tracker after the callback queue has drained.
QueueDrained == queue = <<>> /\ \A c \in Chunks : call[c] # "working"

CloseStart ==
  /\ closer.pc = "idle" /\ QueueDrained
  /\ closed' = TRUE
  /\ closer' = [pc |-> "await", taken |-> Held]
  /\ entries' = [k \in Keys |-> None] /\ bytes' = 0
  /\ cut' = CutBy(Held, "closed")
  /\ UNCHANGED <<queue, database, call, final, flusher, commits, doubled, switched>>

FlusherGoneOrNot == TRUE                                       \* mutant
FlusherGone == flusher.pc = "done"

CloseAwait ==
  /\ closer.pc = "await" /\ FlusherGone
  /\ closer' = [closer EXCEPT !.pc = IF closer.taken = {} THEN "done" ELSE "commit"]
  /\ UNCHANGED <<entries, bytes, closed, queue, database, call, final, flusher,
                 commits, cut, doubled, switched>>

CloseCommit ==
  /\ closer.pc = "commit"
  /\ \E e \in closer.taken :
       /\ CommitTaken(e)
       /\ closer' = [pc |-> IF closer.taken = {e} THEN "done" ELSE "commit",
                     taken |-> closer.taken \ {e}]
  /\ UNCHANGED <<entries, bytes, closed, queue, database, call, final, flusher,
                 cut, doubled, switched>>

Next ==
  \/ \E c \in Chunks : Skip(c) \/ Queue(c) \/ Direct(c) \/ Commit(c)
  \/ WorkerTake \/ SwitchStorage \/ Tick
  \/ FlushExpired \/ FlusherCommit \/ FlusherStop
  \/ CloseStart \/ CloseAwait \/ CloseCommit

\* The ticker and the goroutines run; the host need not call, nor shut down.
Fairness ==
  /\ WF_vars(Tick)
  /\ WF_vars(FlushExpired) /\ WF_vars(FlusherCommit) /\ WF_vars(FlusherStop)
  /\ WF_vars(CloseAwait) /\ WF_vars(CloseCommit)
  /\ WF_vars(WorkerTake) /\ \A c \in Chunks : WF_vars(Commit(c))

Spec == Init /\ [][Next]_vars /\ Fairness

-----------------------------------------------------------------------------
(***************************************************************************)
(* Properties.                                                             *)
(***************************************************************************)
\* The table never holds more streams than its limit, and its byte counter
\* is exact and limited until an update evicts the entry it replaces (then
\* that entry is subtracted twice); it never exceeds what the entries hold,
\* so that it cannot shut streams out of an empty table.
TableAccounting ==
  /\ Cardinality(In(Table)) <= MaxStreams
  /\ bytes <= SizeOf(entries)
  /\ ~doubled => bytes = SizeOf(entries) /\ bytes <= MaxBytes

\* A stream of one request that ends with its only terminal chunk, and whose
\* indexes, where the host gives them, grow.
Orderly(s) ==
  \A c, d \in Chunks :
    c.stream = s /\ d.stream = s =>
      /\ c.identity = d.identity
      /\ d.position < c.position => ~d.terminal /\ (c.index = 0 \/ d.index <= c.index)

\* The usage a stream ends with: what its terminal chunk brings, or else the
\* latest running total of those the queue did not refuse.
LatestUsage(c) ==
  LET sources == {d \in Earlier[c] : Usable(d) /\ call[d] # "dropped"}
  IN IF TokensOf[c] > 0 THEN <<TokensOf[c]>>
     ELSE IF sources = {} THEN <<>>
     ELSE <<TokensOf[Newest(sources)]>>

\* An orderly stream whose chunks took one way and which was not cut short is
\* committed once, with its terminal chunk's usage or else the latest running
\* total that was accepted.  A total that a full queue refuses is lost without
\* a trace in the tracker: the stream may then be committed with an older one,
\* or not at all.
FinalUsageOnce ==
  \A c \in Chunks :
    /\ c.terminal /\ c.stream # None /\ Orderly(c.stream)
    /\ call[c] = "done" /\ ~switched /\ cut[c.stream] = {}
    => commits[c.stream] = LatestUsage(c)

\* An update that comes in time is kept: however the counter of bytes stands,
\* evicting other streams makes room for it.
UpdatesAreKept ==
  [][\A c \in Chunks :
       /\ call[c] \in {"none", "queued"} /\ call'[c] = "done"
       /\ c.stream # None /\ ~c.terminal /\ Usable(c) /\ ~closed /\ ~Stale(c)
       => entries'[KeyOf(c)] # None /\ entries'[KeyOf(c)].chunk = c]_vars

\* When close returns nothing is left behind: no entry, no expired entry in
\* the hands of the ticker's goroutine, and of every stream that reported
\* usage in time something was committed, is being committed, or evicted.
HandedOver ==
  closer.pc = "done" =>
    /\ Held = {} /\ flusher.taken = {}
    /\ \A c \in Chunks :
         c.stream # None /\ Usable(c) /\ call[c] = "done"
         => \/ commits[c.stream] # <<>>
            \/ \E d \in Chunks : d.stream = c.stream /\ call[d] = "direct"
            \/ cut[c.stream] \cap {"evicted", "late"} # {}

\* A stream that falls silent leaves the table, and close returns.
StreamsSettle ==
  /\ \A k \in Keys : entries[k] # None ~> entries[k] = None
  /\ closed ~> closer.pc = "done"

=============================================================================
