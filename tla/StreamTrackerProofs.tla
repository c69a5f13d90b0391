------------------------- MODULE StreamTrackerProofs -------------------------
(***************************************************************************)
(* Proofs about StreamTracker: types, the accounting of the table, that an *)
(* update in time is kept, that close leaves nothing behind, and that an   *)
(* orderly stream is committed once, with its last accepted usage.         *)
(***************************************************************************)
EXTENDS StreamTracker, DataLemmas

\* What is stored in the table: under its own key, with usage, observed.
EntriesOK ==
  \A k \in Keys : entries[k] # None =>
    LET c == entries[k].chunk
    IN /\ KeyOf(c) = k /\ ~c.terminal /\ Usable(c) /\ call[c] = "done"
       /\ entries[k].tokens = TokensOf[c]

\* The goroutines: what they hold, and what close has ended.
TakersOK ==
  /\ closed <=> ShuttingDown
  /\ closed => \A k \in Keys : entries[k] = None
  /\ flusher.pc # "commit" => flusher.taken = {}
  /\ closer.pc \in {"idle", "done"} => closer.taken = {}
  /\ closer.pc \in {"commit", "done"} => flusher.pc = "done"
  /\ \A e \in flusher.taken \cup closer.taken :
       e.chunk.stream \in Streams /\ cut[e.chunk.stream] # {}

\* The callbacks: the queue has the queued ones, those of a stream in their
\* order; a call in hand is a stream's end or belongs to none.
Observed(c) == call[c] \in {"direct", "working", "done"}
Handing(c) == call[c] \in {"direct", "working"}
QueueOK ==
  /\ \A c \in Chunks : call[c] = "queued" <=> \E i \in 1..Len(queue) : queue[i] = c
  /\ \A i, j \in 1..Len(queue) :
       /\ i < j /\ queue[i].stream = queue[j].stream => queue[i].position < queue[j].position
  /\ \A c \in Chunks : call[c] = "queued" => ~FastPath(c)
  /\ \A c \in Chunks : Handing(c) => c.stream = None \/ c.terminal
  /\ closed => queue = <<>> /\ \A c \in Chunks : call[c] # "working"

\* The order of a stream's calls: when one is observed, the earlier ones have
\* been, or the queue refused them.
OrderOK ==
  /\ \A c \in Chunks : call[c] # "none" => \A d \in Earlier[c] : Returned(d)
  /\ ~switched /\ ~database => \A c \in Chunks : call[c] \in {"none", "direct", "done"}
  /\ ~switched => \A c \in Chunks :
       Observed(c) /\ ~FastPath(c) => \A d \in Earlier[c] : call[d] \in {"done", "dropped"}

\* An orderly stream that went one way and was not cut: until its end was
\* observed, the table has its latest usage.  Then it has left the table, and
\* the end's call has that usage in hand or has committed it.
Smooth(s) == Orderly(s) /\ ~switched /\ cut[s] = {}
Ended(s) == \E c \in Chunks : c.stream = s /\ c.terminal /\ Observed(c)
OpenOK(s) ==
  /\ commits[s] = <<>>
  /\ \A d \in Chunks : d.stream = s /\ Usable(d) /\ Observed(d) =>
       entries[KeyOf(d)] # None /\ d.position <= entries[KeyOf(d)].chunk.position
EndedOK(c) ==
  /\ \A k \in Keys : k[1] = c.stream => entries[k] = None
  /\ IF call[c] = "done" THEN commits[c.stream] = LatestUsage(c)
     ELSE commits[c.stream] = <<>> /\ LatestUsage(c) = <<final[c]>>
StreamOK(s) ==
  Smooth(s) =>
    /\ ~Ended(s) => OpenOK(s)
    /\ \A c \in Chunks : c.stream = s /\ c.terminal /\ Observed(c) => EndedOK(c)
StreamsOK == \A s \in Streams : StreamOK(s)

\* Where the usage of a stream can be.
Kept(s) ==
  \/ commits[s] # <<>>
  \/ \E d \in Chunks : d.stream = s /\ Handing(d)
  \/ \E k \in Keys : k[1] = s /\ entries[k] # None
  \/ \E e \in flusher.taken \cup closer.taken : e.chunk.stream = s
  \/ cut[s] \cap {"evicted", "late"} # {}
CustodyOK ==
  \A c \in Chunks :
    c.stream # None /\ Usable(c) /\ call[c] = "done" => Kept(c.stream)

IInv ==
  /\ TypeOK /\ TableAccounting /\ EntriesOK /\ TakersOK /\ QueueOK /\ OrderOK
  /\ StreamsOK /\ CustodyOK

-----------------------------------------------------------------------------
(***************************************************************************)
(* Constants and decoding.                                                 *)
(***************************************************************************)
\* What the assumptions say of one chunk.
LEMMA ChunkFacts ==
  ASSUME NEW c \in Chunks
  PROVE  /\ c.position \in Nat /\ c.index \in Nat /\ c.size \in Nat
         /\ c.usages \in Seq(UsageObject)
         /\ c.stream # None => c.stream \in Streams /\ KeyOf(c) \in Keys
         /\ KeyOf(c)[1] = c.stream
BY ChunkAssumption DEF Streams, Keys, KeyOf

\* The chunks of a stream are told apart by their positions.
LEMMA PositionsDiffer ==
  ASSUME NEW c \in Chunks, NEW d \in Chunks, c.stream = d.stream, c # d
  PROVE  c.position < d.position \/ d.position < c.position
<1>1. <<c.stream, c.position>> # <<d.stream, d.position>>
  BY ChunkAssumption
<1>2. c.position # d.position
  BY <1>1
<1>3. QED
  BY <1>2, ChunkFacts

\* Of two chunks of a stream one is the earlier one.
LEMMA EarlierIs ==
  ASSUME NEW c \in Chunks, NEW d \in Chunks
  PROVE  /\ d \in Earlier[c] <=> d.stream = c.stream /\ d.position < c.position
         /\ c.stream = d.stream /\ c # d => c \in Earlier[d] \/ d \in Earlier[c]
BY PositionsDiffer DEF Earlier

\* Keys are finitely many, and each belongs to a stream.
LEMMA KeyFacts ==
  IsFiniteSet(Keys) /\ \A k \in Keys : k[1] \in Streams
<1> DEFINE F == [c \in Chunks |-> KeyOf(c)]
           D == {d \in Chunks : d.stream # None}
<1>1. IsFiniteSet(D)
  BY ChunkAssumption, FS_Subset
<1>2. Keys = {F[c] : c \in D}
  BY DEF Keys, KeyOf
<1>3. \A k \in Keys : k[1] \in Streams
  BY DEF Keys, Streams
<1> HIDE DEF F, D
<1>4. QED
  BY <1>1, <1>2, <1>3, ImageIsFinite

\* Token counts are numbers.
LEMMA TokensAreNat == Tokens \subseteq Nat /\ 0 \in Tokens
<1>1. ASSUME NEW c \in Chunks, NEW u \in ToSet(c.usages) PROVE u.tokens \in Nat
  <2>1. c.usages \in Seq(UsageObject)
    BY ChunkFacts
  <2>2. u \in UsageObject
    BY <2>1 DEF ToSet
  <2>3. QED
    BY <2>2 DEF UsageObject
<1>2. QED
  BY <1>1 DEF Tokens

\* The chunk at the latest position exists, in every set of chunks but the
\* empty one.
LEMMA NewestIs ==
  ASSUME NEW D \in SUBSET Chunks, D # {}
  PROVE  Newest(D) \in D /\ \A e \in D : e.position <= Newest(D).position
<1> DEFINE f == [d \in D |-> d.position]
<1>1. IsFiniteSet(D) /\ f \in [D -> Nat]
  BY ChunkAssumption, FS_Subset
<1>2. PICK x \in D : \A y \in D : f[y] <= f[x]
  <2> HIDE DEF f
  <2>1. QED
    BY <1>1, LargestBy
<1>3. \A e \in D : e.position <= x.position
  BY <1>2
<1>4. QED
  BY <1>3 DEF Newest

\* In one stream it is the only one.
LEMMA NewestIsUnique ==
  ASSUME NEW D \in SUBSET Chunks, NEW d \in D,
         \A e \in D : e.stream = d.stream /\ e.position <= d.position
  PROVE  Newest(D) = d
<1>1. Newest(D) \in D /\ d.position <= Newest(D).position
  BY NewestIs
<1>2. Newest(D).stream = d.stream /\ Newest(D).position <= d.position
  BY <1>1
<1>3. ~(d.position < Newest(D).position) /\ ~(Newest(D).position < d.position)
  BY <1>1, <1>2, ChunkFacts
<1>4. QED
  BY <1>1, <1>2, <1>3, PositionsDiffer

\* Decoding finds no tokens, or those of a usage object of the payload.
LEMMA DecodedIs ==
  ASSUME NEW payload \in Seq(UsageObject)
  PROVE  Decoded(payload) = 0 \/ \E u \in ToSet(payload) : Decoded(payload) = u.tokens
<1> DEFINE good == {i \in DOMAIN payload : Counts(payload[i])}
           wins(i, j) == \/ payload[i].fields > payload[j].fields
                         \/ payload[i].fields = payload[j].fields /\ i >= j
<1>1. CASE good = {}
  BY <1>1 DEF Decoded
<1>2. CASE good # {}
  <2> DEFINE f == [i \in good |-> payload[i].fields]
  <2>1. \A i \in DOMAIN payload : i \in Nat /\ payload[i].fields \in Nat
    <3>1. \A i \in DOMAIN payload : i \in Nat /\ payload[i] \in UsageObject
      OBVIOUS
    <3>2. \A u \in UsageObject : u.fields \in Nat
      BY DEF UsageObject
    <3>3. QED
      BY <3>1, <3>2
  <2>2. IsFiniteSet(good)
    <3>1. IsFiniteSet(1..Len(payload))
      BY FS_Interval
    <3>2. good \in SUBSET (1..Len(payload))
      OBVIOUS
    <3> HIDE DEF good
    <3>3. QED
      BY <3>1, <3>2, FS_Subset
  <2>3. f \in [good -> Nat]
    BY <2>1
  <2>4. PICK b \in good : \A j \in good : f[j] <= f[b]
    <3> HIDE DEF f, good
    <3>1. QED
      BY <1>2, <2>2, <2>3, LargestBy
  <2> DEFINE top == {i \in good : f[i] = f[b]}
             g == [i \in top |-> i]
  <2>5. IsFiniteSet(top) /\ top # {}
    <3>1. top \in SUBSET good /\ b \in top
      OBVIOUS
    <3> HIDE DEF top, good
    <3>2. QED
      BY <2>2, <3>1, FS_Subset
  <2>6. g \in [top -> Nat]
    BY <2>1
  <2>7. PICK m \in top : \A j \in top : g[j] <= g[m]
    <3> HIDE DEF g, top
    <3>1. QED
      BY <2>5, <2>6, LargestBy
  <2>8. ASSUME NEW j \in good PROVE wins(m, j)
    <3>1. f[j] <= f[b] /\ f[m] = f[b] /\ f[j] \in Nat /\ f[b] \in Nat
      BY <2>3, <2>4
    <3>2. CASE f[j] = f[b]
      <4>1. j \in top
        BY <3>2
      <4>2. j <= m
        BY <2>7, <4>1
      <4>3. payload[m].fields = payload[j].fields
        BY <3>1, <3>2
      <4>4. m \in Nat /\ j \in Nat
        BY <2>1
      <4> HIDE DEF good
      <4>5. QED
        BY <4>2, <4>3, <4>4
    <3>3. CASE f[j] # f[b]
      <4>1. f[m] = payload[m].fields /\ f[j] = payload[j].fields
        OBVIOUS
      <4>2. payload[m].fields > payload[j].fields
        <5> HIDE DEF f
        <5>1. QED
          BY <3>1, <3>3, <4>1
      <4>3. QED
        BY <4>2
    <3>4. QED
      BY <3>2, <3>3
  <2>9. m \in good
    OBVIOUS
  <2> DEFINE x == CHOOSE i \in good : \A j \in good : wins(i, j)
  <2>10. x \in good
    <3> HIDE DEF good, wins
    <3>1. QED
      BY <2>8, <2>9
  <2>11. Decoded(payload) = payload[x].tokens
    BY <1>2 DEF Decoded
  <2>12. x \in DOMAIN payload
    BY <2>10
  <2>13. payload[x] \in ToSet(payload)
    <3> HIDE DEF x
    <3>1. QED
      BY <2>12 DEF ToSet
  <2> HIDE DEF x
  <2>14. QED
    BY <2>11, <2>13
<1>3. QED
  BY <1>1, <1>2

\* What a chunk is decoded to is one of the counts that occur.
LEMMA TokensTyped ==
  ASSUME NEW c \in Chunks
  PROVE  TokensOf[c] \in Tokens /\ TokensOf[c] \in Nat
<1>1. ASSUME NEW d \in Chunks PROVE Decoded(d.usages) \in Tokens
  <2>1. d.usages \in Seq(UsageObject)
    BY ChunkFacts
  <2>2. QED
    BY <2>1, DecodedIs DEF Tokens
<1>2. HistoryTokens(c) \in Tokens
  <2> DEFINE useful == {d \in Earlier[c] :
                          MentionsUsage(d) /\ \A u \in ToSet(d.usages) : ~u.message}
  <2>1. CASE useful = {}
    BY <2>1, TokensAreNat DEF HistoryTokens
  <2>2. CASE useful # {}
    <3>1. useful \in SUBSET Chunks
      BY DEF Earlier
    <3>2. Newest(useful) \in Chunks
      <4> HIDE DEF useful
      <4>1. QED
        BY <2>2, <3>1, NewestIs
    <3>3. HistoryTokens(c) = Decoded(Newest(useful).usages)
      BY <2>2 DEF HistoryTokens
    <3> HIDE DEF useful
    <3>4. QED
      BY <1>1, <3>2, <3>3
  <2>3. QED
    BY <2>1, <2>2
<1>3. TokensOf[c] \in Tokens
  BY <1>1, <1>2, TokensAreNat DEF TokensOf
<1>4. QED
  BY <1>3, TokensAreNat

\* Entries are told apart from their absence.
LEMMA EntryFacts ==
  /\ \A e \in Entry : e # None /\ e.chunk \in Chunks /\ e.tokens \in Tokens /\ e.age \in 0..TTL
  /\ \A c \in Chunks, n \in Tokens, a \in 0..TTL :
       [chunk |-> c, tokens |-> n, age |-> a] \in Entry
BY NoneAssumption DEF Entry

-----------------------------------------------------------------------------
(***************************************************************************)
(* The table: its sum of sizes, and what evicting does to it.              *)
(***************************************************************************)
Slots == [Keys -> Entry \cup {None}]
Tables == [entries : Slots, bytes : Int]

\* The sizes of a table's entries, and their sum.
LEMMA SizesTyped ==
  ASSUME NEW E \in Slots
  PROVE  SizesOf(E) \in [Keys -> Nat] /\ SizesOf(E) \in [Keys -> Int] /\ SizeOf(E) \in Nat
<1>1. \A k \in Keys : E[k] # None => E[k].chunk \in Chunks
  BY EntryFacts DEF Slots
<1>2. SizesOf(E) \in [Keys -> Nat]
  BY <1>1, ChunkFacts DEF SizesOf
<1>3. QED
  BY <1>2, KeyFacts, SumIsNat DEF SizeOf

\* Storing an entry or removing one changes the sum by the two sizes.
LEMMA SizeOfChanged ==
  ASSUME NEW E \in Slots, NEW k \in Keys, NEW e \in Entry \cup {None}
  PROVE  /\ [E EXCEPT ![k] = e] \in Slots
         /\ SizeOf([E EXCEPT ![k] = e]) =
              SizeOf(E) - SizesOf(E)[k] + (IF e = None THEN 0 ELSE e.chunk.size)
<1> DEFINE v == IF e = None THEN 0 ELSE e.chunk.size
<1>1. [E EXCEPT ![k] = e] \in Slots
  BY DEF Slots
<1>2. v \in Int
  BY EntryFacts, ChunkFacts
<1>3. SizesOf([E EXCEPT ![k] = e]) = [SizesOf(E) EXCEPT ![k] = v]
  BY DEF SizesOf, Slots
<1> HIDE DEF v
<1>4. SumFunction([SizesOf(E) EXCEPT ![k] = v]) = SumFunction(SizesOf(E)) - SizesOf(E)[k] + v
  BY <1>2, SizesTyped, KeyFacts, SumUpdate
<1>5. QED
  BY <1>1, <1>3, <1>4 DEF SizeOf, v

\* Nothing weighs nothing, and no entry more than all.
LEMMA SizeOfBounds ==
  ASSUME NEW E \in Slots
  PROVE  /\ (\A k \in Keys : E[k] = None) => SizeOf(E) = 0
         /\ \A k \in Keys : SizesOf(E)[k] <= SizeOf(E) /\ SizesOf(E)[k] \in Nat
<1>1. (\A k \in Keys : E[k] = None) => SizeOf(E) = 0
  <2>1. (\A k \in Keys : E[k] = None) => \A k \in Keys : SizesOf(E)[k] = 0
    BY DEF SizesOf
  <2>2. QED
    BY <2>1, SizesTyped, KeyFacts, SumOfZeros DEF SizeOf
<1>2. ASSUME NEW k \in Keys PROVE SizesOf(E)[k] <= SizeOf(E) /\ SizesOf(E)[k] \in Nat
  <2>1. SizeOf([E EXCEPT ![k] = None]) = SizeOf(E) - SizesOf(E)[k] + 0
    BY SizeOfChanged
  <2>2. SizeOf([E EXCEPT ![k] = None]) \in Nat /\ SizeOf(E) \in Nat
    BY SizeOfChanged, SizesTyped
  <2>3. SizesOf(E)[k] \in Nat
    BY SizesTyped
  <2>4. QED
    BY <2>1, <2>2, <2>3
<1>3. QED
  BY <1>1, <1>2

\* The sum of a table is that of two parts of it.
LEMMA SizeOfParts ==
  ASSUME NEW E \in Slots, NEW A \in Slots, NEW B \in Slots,
         \A k \in Keys : \/ A[k] = E[k] /\ B[k] = None
                         \/ B[k] = E[k] /\ A[k] = None
  PROVE  SizeOf(E) = SizeOf(A) + SizeOf(B)
<1>1. \A k \in Keys : SizesOf(E)[k] = SizesOf(A)[k] + SizesOf(B)[k]
  <2>1. ASSUME NEW k \in Keys PROVE SizesOf(E)[k] = SizesOf(A)[k] + SizesOf(B)[k]
    <3>1. SizesOf(E)[k] \in Nat
      BY SizesTyped
    <3>2. QED
      BY <3>1 DEF SizesOf
  <2>2. QED
    BY <2>1
<1>2. QED
  BY <1>1, SizesTyped, KeyFacts, SumOfSums DEF SizeOf

\* The keys in use are finitely many.
LEMMA InIsFinite ==
  ASSUME NEW t
  PROVE  IsFiniteSet(In(t)) /\ Cardinality(In(t)) \in Nat /\ In(t) \subseteq Keys
<1>1. In(t) \in SUBSET Keys
  BY DEF In
<1>2. QED
  BY <1>1, KeyFacts, FS_Subset, FS_CardinalityType

\* A key in use has an entry.
LEMMA InIs ==
  ASSUME NEW t \in Tables, NEW k \in In(t)
  PROVE  /\ k \in Keys /\ t.entries[k] \in Entry /\ t.entries[k].chunk.size \in Nat
         /\ SizesOf(t.entries)[k] = t.entries[k].chunk.size
<1>1. k \in Keys /\ t.entries[k] # None
  BY DEF In
<1>2. t.entries[k] \in Entry
  BY <1>1 DEF Tables, Slots
<1>3. QED
  BY <1>1, <1>2, EntryFacts, ChunkFacts DEF SizesOf

\* What removing an entry does.
LEMMA WithoutIs ==
  ASSUME NEW t \in Tables, NEW k \in In(t)
  PROVE  /\ Without(t, k) \in Tables
         /\ Without(t, k).entries = [t.entries EXCEPT ![k] = None]
         /\ Without(t, k).bytes = IF t.entries[k].chunk.size > t.bytes THEN 0
                                  ELSE t.bytes - t.entries[k].chunk.size
         /\ In(Without(t, k)) = In(t) \ {k}
         /\ Cardinality(In(Without(t, k))) = Cardinality(In(t)) - 1
         /\ SizeOf(Without(t, k).entries) = SizeOf(t.entries) - t.entries[k].chunk.size
<1>1. k \in Keys /\ t.entries[k] \in Entry /\ t.entries[k].chunk.size \in Nat
  BY InIs
<1>2. t.entries \in Slots /\ t.bytes \in Int
  BY DEF Tables
<1>3. Without(t, k).entries = [t.entries EXCEPT ![k] = None]
  BY DEF Without
<1>4. Without(t, k).bytes = IF t.entries[k].chunk.size > t.bytes THEN 0
                            ELSE t.bytes - t.entries[k].chunk.size
  BY DEF Without
<1>5. [t.entries EXCEPT ![k] = None] \in Slots
  BY <1>1, <1>2, SizeOfChanged
<1>6. Without(t, k) \in Tables
  BY <1>1, <1>2, <1>5 DEF Without, Tables
<1>7. In(Without(t, k)) = In(t) \ {k}
  BY <1>1, <1>2, <1>3 DEF In, Slots
<1>8. Cardinality(In(t) \ {k}) = Cardinality(In(t)) - 1
  BY InIsFinite, FS_RemoveElement
<1>9. SizeOf([t.entries EXCEPT ![k] = None]) = SizeOf(t.entries) - SizesOf(t.entries)[k] + 0
  BY <1>1, <1>2, SizeOfChanged
<1>10. SizeOf(t.entries) \in Nat
  BY <1>2, SizesTyped
<1>11. QED
  BY <1>1, <1>3, <1>4, <1>6, <1>7, <1>8, <1>9, <1>10, InIs

\* The turns of the eviction loop, one by one.
LEMMA TurnsAre ==
  ASSUME NEW t \in Tables, NEW size
  PROVE  /\ Turns(t, size)[0] = {t}
         /\ \A n \in Nat :
              Turns(t, size)[n + 1] = UNION {Turned(u, size) : u \in Turns(t, size)[n]}
<1> DEFINE F == [T \in SUBSET Tables |-> UNION {Turned(u, size) : u \in T}]
           Loop(f) == f = [n \in Nat |-> IF n = 0 THEN {t}
                                         ELSE UNION {Turned(u, size) : u \in f[n - 1]}]
<1>1. ASSUME NEW T \in SUBSET Tables PROVE UNION {Turned(u, size) : u \in T} \in SUBSET Tables
  <2>1. ASSUME NEW u \in Tables PROVE Turned(u, size) \in SUBSET Tables
    <3>1. \A k \in Oldest(u) : Without(u, k) \in Tables
      BY WithoutIs DEF Oldest
    <3>2. QED
      BY <3>1 DEF Turned
  <2>2. QED
    BY <2>1
<1>2. PICK f : f = [n \in Nat |-> IF n = 0 THEN {t} ELSE F[f[n - 1]]]
  <2> HIDE DEF F
  <2>1. PICK f : IsLoop(f, {t}, F)
    BY IterationExists
  <2>2. QED
    BY <2>1 DEF IsLoop
<1>3. \A n \in Nat : f[n] \in SUBSET Tables
  <2> DEFINE N == {n \in Nat : f[n] \in SUBSET Tables}
  <2>1. 0 \in N
    BY <1>2
  <2>2. ASSUME NEW n \in Nat, n \in N PROVE n + 1 \in N
    <3>1. f[n + 1] = F[f[n]]
      <4> HIDE DEF F
      <4>1. n + 1 \in Nat /\ n + 1 # 0 /\ (n + 1) - 1 = n
        OBVIOUS
      <4>2. QED
        BY <1>2, <4>1
    <3>2. f[n] \in SUBSET Tables
      BY <2>2
    <3>3. F[f[n]] = UNION {Turned(u, size) : u \in f[n]}
      BY <3>2
    <3>4. QED
      BY <1>1, <3>1, <3>2, <3>3
  <2>3. Nat \subseteq N
    <3> HIDE DEF N
    <3>1. QED
      BY <2>1, <2>2, NatSetInduction
  <2>4. QED
    BY <2>3
<1>4. Loop(f)
  <2>1. \A n \in Nat : n # 0 => n - 1 \in Nat
    OBVIOUS
  <2>2. \A n \in Nat : n # 0 => F[f[n - 1]] = UNION {Turned(u, size) : u \in f[n - 1]}
    BY <1>3, <2>1
  <2> HIDE DEF F
  <2>3. QED
    BY <1>2, <2>2
<1>5. Turns(t, size) = CHOOSE g : Loop(g)
  BY DEF Turns
<1>6. Loop(Turns(t, size))
  <2> HIDE DEF Loop
  <2>1. QED
    BY <1>4, <1>5
<1> DEFINE g == Turns(t, size)
<1>7. g = [n \in Nat |-> IF n = 0 THEN {t} ELSE UNION {Turned(u, size) : u \in g[n - 1]}]
  BY <1>6
<1> HIDE DEF g
<1>8. g[0] = {t}
  BY <1>7
<1>9. ASSUME NEW n \in Nat PROVE g[n + 1] = UNION {Turned(u, size) : u \in g[n]}
  <2>1. n + 1 \in Nat /\ n + 1 # 0 /\ (n + 1) - 1 = n
    OBVIOUS
  <2>2. QED
    BY <1>7, <2>1
<1>10. QED
  BY <1>8, <1>9 DEF g

\* The counter of bytes when entry k's bytes are no longer counted.
Weight(t, k) == SizeOf([t.entries EXCEPT ![k] = None])

\* u is left of t by evictions that make room for key k.
EvictionOf(u, t, k) ==
  /\ \A l \in Keys : u.entries[l] = t.entries[l] \/ u.entries[l] = None
  /\ u.bytes <= Weight(u, k)
  /\ t.bytes = Weight(t, k) /\ (k \in In(t) => k \in In(u)) => u.bytes = Weight(u, k)

\* One more eviction.
LEMMA EvictOne ==
  ASSUME NEW t \in Tables, NEW u \in Tables, NEW k \in Keys, NEW l \in In(u),
         EvictionOf(u, t, k)
  PROVE  EvictionOf(Without(u, l), t, k)
<1> DEFINE w == Without(u, l)
           s == u.entries[l].chunk.size
<1>1. /\ w \in Tables /\ w.entries = [u.entries EXCEPT ![l] = None]
      /\ w.bytes = (IF s > u.bytes THEN 0 ELSE u.bytes - s)
      /\ In(w) = In(u) \ {l} /\ s \in Nat /\ l \in Keys
      /\ SizesOf(u.entries)[l] = s
  BY WithoutIs, InIs
<1>2. u.entries \in Slots /\ u.bytes \in Int /\ w.entries \in Slots
  BY <1>1 DEF Tables
<1> HIDE DEF w, s
<1>3. \A m \in Keys : w.entries[m] = t.entries[m] \/ w.entries[m] = None
  BY <1>1, <1>2 DEF EvictionOf, Slots
<1>4. Weight(u, k) \in Nat /\ Weight(w, k) \in Nat
  BY <1>2, SizeOfChanged, SizesTyped DEF Weight
<1>5. CASE l = k
  <2>1. [w.entries EXCEPT ![k] = None] = [u.entries EXCEPT ![k] = None]
    BY <1>1, <1>2, <1>5 DEF Slots
  <2>2. Weight(w, k) = Weight(u, k)
    BY <2>1 DEF Weight
  <2>3. w.bytes <= Weight(w, k)
    BY <1>1, <1>2, <1>4, <2>2 DEF EvictionOf
  <2>4. k \in In(t) /\ k \notin In(w)
    BY <1>1, <1>5 DEF EvictionOf, In
  <2>5. QED
    BY <1>3, <2>3, <2>4 DEF EvictionOf, w
<1>6. CASE l # k
  <2> DEFINE X == [u.entries EXCEPT ![k] = None]
  <2>1. [w.entries EXCEPT ![k] = None] = [X EXCEPT ![l] = None]
    BY <1>1, <1>2 DEF Slots
  <2>2. X \in Slots /\ SizesOf(X)[l] = s
    <3>1. X \in Slots
      BY <1>2, SizeOfChanged
    <3>2. X[l] = u.entries[l]
      BY <1>1, <1>2, <1>6 DEF Slots
    <3>3. QED
      BY <1>1, <3>1, <3>2 DEF SizesOf
  <2> HIDE DEF X
  <2>3. SizeOf([X EXCEPT ![l] = None]) = SizeOf(X) - s + 0
    BY <1>1, <2>2, SizeOfChanged
  <2>4. Weight(w, k) = Weight(u, k) - s
    <3>1. Weight(w, k) = SizeOf([X EXCEPT ![l] = None]) /\ Weight(u, k) = SizeOf(X)
      BY <2>1 DEF Weight, X
    <3>2. QED
      BY <1>1, <1>4, <2>3, <3>1
  <2>5. w.bytes <= Weight(w, k)
    BY <1>1, <1>2, <1>4, <2>4 DEF EvictionOf
  <2>6. k \in In(w) => k \in In(u)
    BY <1>1
  <2>7. u.bytes = Weight(u, k) => w.bytes = Weight(w, k)
    BY <1>1, <1>2, <1>4, <2>4
  <2>8. QED
    BY <1>3, <2>5, <2>6, <2>7 DEF EvictionOf, w
<1>7. QED
  BY <1>5, <1>6

\* After n turns a table has room, is empty, or has lost n streams.
Progress(u, t, size, n) ==
  ~Full(u, size) \/ In(u) = {} \/ Cardinality(In(u)) <= Cardinality(In(t)) - n

\* Every table that n turns can lead to is what eviction may make of the first
\* one, and has come as far.
LEMMA TurnsKeep ==
  ASSUME NEW t \in Tables, NEW k \in Keys, NEW size, EvictionOf(t, t, k)
  PROVE  \A n \in Nat : \A u \in Turns(t, size)[n] :
           u \in Tables /\ EvictionOf(u, t, k) /\ Progress(u, t, size, n)
<1> DEFINE Keeps(u, n) == u \in Tables /\ EvictionOf(u, t, k) /\ Progress(u, t, size, n)
           N == {n \in Nat : \A u \in Turns(t, size)[n] : Keeps(u, n)}
<1>1. 0 \in N
  <2>1. Keeps(t, 0)
    BY InIsFinite DEF Progress
  <2>2. Turns(t, size)[0] = {t}
    BY TurnsAre
  <2> HIDE DEF Keeps
  <2>3. QED
    BY <2>1, <2>2
<1>2. ASSUME NEW n \in Nat, n \in N PROVE n + 1 \in N
  <2>1. ASSUME NEW w \in Turns(t, size)[n + 1] PROVE Keeps(w, n + 1)
    <3>1. PICK u \in Turns(t, size)[n] : w \in Turned(u, size)
      BY TurnsAre
    <3>2. Keeps(u, n)
      BY <1>2
    <3>3. Cardinality(In(t)) \in Nat /\ Cardinality(In(u)) \in Nat
      BY InIsFinite
    <3>4. CASE Full(u, size) /\ In(u) # {}
      <4>1. PICK l \in Oldest(u) : w = Without(u, l)
        BY <3>1, <3>4 DEF Turned
      <4>2. l \in In(u)
        BY DEF Oldest
      <4>3. w \in Tables /\ Cardinality(In(w)) = Cardinality(In(u)) - 1
        BY <3>2, <4>1, <4>2, WithoutIs
      <4>4. EvictionOf(w, t, k)
        BY <3>2, <4>1, <4>2, EvictOne
      <4>5. Cardinality(In(u)) <= Cardinality(In(t)) - n
        BY <3>2, <3>4 DEF Progress
      <4>6. Cardinality(In(w)) <= Cardinality(In(t)) - (n + 1)
        BY <3>3, <4>3, <4>5
      <4>7. QED
        BY <4>3, <4>4, <4>6 DEF Progress
    <3>5. CASE ~(Full(u, size) /\ In(u) # {})
      <4>1. w = u
        BY <3>1, <3>5 DEF Turned
      <4>2. QED
        BY <3>2, <3>5, <4>1 DEF Progress
    <3>6. QED
      BY <3>4, <3>5
  <2> HIDE DEF Keeps
  <2>2. QED
    BY <2>1
<1>3. Nat \subseteq N
  <2> HIDE DEF N
  <2>1. QED
    BY <1>1, <1>2, NatSetInduction
<1>4. QED
  BY <1>3

\* The loop ends with room for the entry, whatever the counter says.
LEMMA EvictedIs ==
  ASSUME NEW t \in Tables, NEW k \in Keys, NEW size \in Nat, size <= MaxBytes,
         EvictionOf(t, t, k), NEW u \in Evicted(t, size)
  PROVE  u \in Tables /\ EvictionOf(u, t, k) /\ ~Full(u, size)
<1> DEFINE n == Cardinality(In(t))
<1>1. n \in Nat /\ Cardinality(In(u)) \in Nat /\ IsFiniteSet(In(u))
  BY InIsFinite
<1>2. u \in Tables /\ EvictionOf(u, t, k) /\ Progress(u, t, size, n)
  <2>1. u \in Turns(t, size)[n]
    BY DEF Evicted
  <2> HIDE DEF n
  <2>2. QED
    BY <1>1, <2>1, TurnsKeep
<1>3. CASE In(u) = {}
  <2>1. \A l \in Keys : [u.entries EXCEPT ![k] = None][l] = None
    BY <1>2, <1>3 DEF In, Tables, Slots
  <2>2. Weight(u, k) = 0
    <3>1. u.entries \in Slots
      BY <1>2 DEF Tables
    <3>2. [u.entries EXCEPT ![k] = None] \in Slots
      BY <3>1, SizeOfChanged
    <3>3. QED
      BY <2>1, <3>2, SizeOfBounds DEF Weight
  <2>3. u.bytes <= 0 /\ u.bytes \in Int
    BY <1>2, <2>2 DEF EvictionOf, Tables
  <2>4. Cardinality(In(u)) = 0
    BY <1>3, FS_EmptySet
  <2>5. ~Full(u, size)
    BY <2>3, <2>4, ChunkAssumption DEF Full
  <2>6. QED
    BY <1>2, <2>5
<1>4. CASE In(u) # {}
  <2>1. Cardinality(In(u)) # 0
    BY <1>1, <1>4, FS_EmptySet
  <2>2. ~(Cardinality(In(u)) <= Cardinality(In(t)) - n)
    BY <1>1, <2>1
  <2>3. QED
    BY <1>2, <1>4, <2>2 DEF Progress
<1>5. QED
  BY <1>3, <1>4

-----------------------------------------------------------------------------
(***************************************************************************)
(* What a step keeps when it leaves the state a part reads alone.          *)
(***************************************************************************)
\* The state's table is one.
LEMMA TableTyped ==
  ASSUME TypeOK
  PROVE  Table \in Tables /\ Table.entries = entries /\ Table.bytes = bytes /\ entries \in Slots
BY DEF TypeOK, Table, Tables, Slots

\* An entry in the table belongs to the stream of its key.
LEMMA EntryIs ==
  ASSUME TypeOK, EntriesOK, NEW k \in Keys, entries[k] # None
  PROVE  /\ entries[k] \in Entry /\ entries[k].chunk \in Chunks
         /\ entries[k].chunk.stream = k[1] /\ k[1] \in Streams
         /\ KeyOf(entries[k].chunk) = k /\ ~entries[k].chunk.terminal
         /\ Usable(entries[k].chunk) /\ call[entries[k].chunk] = "done"
         /\ entries[k].tokens = TokensOf[entries[k].chunk]
<1>1. entries[k] \in Entry
  BY DEF TypeOK
<1>2. entries[k].chunk \in Chunks
  BY <1>1, EntryFacts
<1>3. KeyOf(entries[k].chunk) = k
  BY DEF EntriesOK
<1>4. QED
  BY <1>1, <1>2, <1>3, ChunkFacts, KeyFacts DEF EntriesOK

\* The table's entries weigh the same when their chunks stay.
LEMMA AccountsKept ==
  ASSUME TypeOK, TableAccounting, UNCHANGED <<bytes, doubled>>,
         entries' \in [Keys -> Entry \cup {None}],
         \A k \in Keys : /\ entries'[k] = None <=> entries[k] = None
                         /\ entries[k] # None => entries'[k].chunk = entries[k].chunk
  PROVE  TableAccounting'
<1>1. SizesOf(entries)' = SizesOf(entries)
  BY DEF SizesOf
<1>2. In(Table)' = In(Table)
  BY DEF In, Table
<1>3. SizeOf(entries)' = SizeOf(entries)
  BY <1>1 DEF SizeOf
<1>4. QED
  BY <1>2, <1>3 DEF TableAccounting

\* The same for what is said of the entries one by one.
LEMMA EntriesKept ==
  ASSUME TypeOK, EntriesOK,
         \A k \in Keys : entries'[k] = None \/
                         (/\ entries[k] # None
                          /\ entries'[k].chunk = entries[k].chunk
                          /\ entries'[k].tokens = entries[k].tokens),
         \A c \in Chunks : call[c] = "done" => call'[c] = "done"
  PROVE  EntriesOK'
<1>1. ASSUME NEW k \in Keys, entries'[k] # None
      PROVE  /\ KeyOf(entries'[k].chunk) = k /\ ~entries'[k].chunk.terminal
             /\ Usable(entries'[k].chunk) /\ call'[entries'[k].chunk] = "done"
             /\ entries'[k].tokens = TokensOf[entries'[k].chunk]
  BY <1>1, EntryIs
<1>2. QED
  BY <1>1 DEF EntriesOK

\* The goroutines when nobody's hands change.
LEMMA TakersKept ==
  ASSUME TakersOK, UNCHANGED <<closed, closer, flusher>>,
         closed => \A k \in Keys : entries'[k] = None,
         \A s \in Streams : cut[s] # {} => cut'[s] # {}
  PROVE  TakersOK'
<1>1. \A e \in flusher.taken \cup closer.taken : e.chunk.stream \in Streams /\ cut'[e.chunk.stream] # {}
  BY DEF TakersOK
<1>2. QED
  BY <1>1 DEF TakersOK, ShuttingDown

\* What a stream ends with is settled when no earlier chunk can be refused.
LEMMA LatestKept ==
  ASSUME NEW c \in Chunks,
         \A d \in Earlier[c] : call'[d] = "dropped" <=> call[d] = "dropped"
  PROVE  LatestUsage(c)' = LatestUsage(c)
<1>1. {d \in Earlier[c] : Usable(d) /\ call'[d] # "dropped"}
        = {d \in Earlier[c] : Usable(d) /\ call[d] # "dropped"}
  OBVIOUS
<1>2. QED
  BY <1>1 DEF LatestUsage

\* The order of the calls when one call moves on.
LEMMA OrderKept ==
  ASSUME TypeOK, OrderOK, NEW c \in Chunks, NEW p,
         call' = [call EXCEPT ![c] = p], p # "none", call[c] \notin {"done", "dropped"},
         \A d \in Earlier[c] : Returned(d),
         p = "direct" => call[c] = "none",
         p \in {"direct", "working", "done"} /\ ~FastPath(c) /\ ~switched =>
           \A d \in Earlier[c] : call[d] \in {"done", "dropped"},
         ~switched /\ ~database => p \in {"direct", "done"},
         UNCHANGED <<switched, database>>
  PROVE  OrderOK'
<1>0. \A d \in Chunks : call'[d] = IF d = c THEN p ELSE call[d]
  BY DEF TypeOK
<1>1. \A d \in Chunks : Earlier[d] \subseteq Chunks /\ d \notin Earlier[d]
  BY ChunkFacts DEF Earlier
<1>2. ASSUME NEW d \in Chunks, call'[d] # "none", NEW e \in Earlier[d]
      PROVE  call'[e] \notin {"none", "direct"}
  <2>1. CASE d = c
    <3>1. e # c /\ call'[e] = call[e]
      BY <1>0, <1>1, <2>1
    <3>2. QED
      BY <2>1, <3>1 DEF Returned
  <2>2. CASE d # c
    <3>1. call[e] \notin {"none", "direct"}
      BY <1>0, <1>2, <2>2 DEF OrderOK, Returned
    <3>2. e = c => p # "direct"
      BY <3>1
    <3>3. QED
      BY <1>0, <1>1, <3>1, <3>2
  <2>3. QED
    BY <2>1, <2>2
<1>3. ~switched /\ ~database => \A d \in Chunks : call'[d] \in {"none", "direct", "done"}
  BY <1>0 DEF OrderOK
<1>4. ASSUME ~switched, NEW d \in Chunks, call'[d] \in {"direct", "working", "done"},
             ~FastPath(d), NEW e \in Earlier[d]
      PROVE  call'[e] \in {"done", "dropped"}
  <2>1. CASE d = c
    <3>1. call[e] \in {"done", "dropped"}
      BY <1>0, <1>4, <2>1
    <3>2. e # c
      BY <1>1, <2>1
    <3>3. QED
      BY <1>0, <1>1, <3>1, <3>2
  <2>2. CASE d # c
    <3>1. call[e] \in {"done", "dropped"}
      BY <1>0, <1>4, <2>2 DEF OrderOK, Observed
    <3>2. QED
      BY <1>0, <1>1, <3>1
  <2>3. QED
    BY <2>1, <2>2
<1>5. QED
  BY <1>2, <1>3, <1>4 DEF OrderOK, Observed, Returned

\* A stream on which a step has no bearing.
SameStream(s) ==
  /\ commits'[s] = commits[s]
  /\ \A k \in Keys : k[1] = s =>
       /\ entries'[k] = None <=> entries[k] = None
       /\ entries[k] # None => entries'[k].chunk = entries[k].chunk
  /\ \A d \in Chunks : d.stream = s /\ ~FastPath(d) =>
       /\ Observed(d)' <=> Observed(d)
       /\ call'[d] = "done" <=> call[d] = "done"
       /\ final'[d] = final[d]
  /\ \A d \in Chunks : d.stream = s /\ Returned(d) =>
       (call'[d] = "dropped" <=> call[d] = "dropped")

\* Then what is said of the stream still holds.
LEMMA StreamKept ==
  ASSUME OrderOK, NEW s \in Streams, StreamOK(s), SameStream(s), Smooth(s)' => Smooth(s)
  PROVE  StreamOK(s)'
<1>1. SUFFICES ASSUME Smooth(s)'
      PROVE /\ ~Ended(s)' => OpenOK(s)'
            /\ \A c \in Chunks : c.stream = s /\ c.terminal /\ Observed(c)' => EndedOK(c)'
  BY DEF StreamOK
<1>2. \A d \in Chunks : d.terminal \/ Usable(d) => ~FastPath(d)
  BY DEF Usable, FastPath
<1>3. \A d \in Chunks : d.stream = s /\ (d.terminal \/ Usable(d)) =>
        (Observed(d)' <=> Observed(d))
  BY <1>2 DEF SameStream
<1>4. ASSUME ~Ended(s)' PROVE OpenOK(s)'
  <2>1. ~Ended(s)
    BY <1>3, <1>4 DEF Ended
  <2>2. OpenOK(s)
    BY <1>1, <2>1 DEF StreamOK
  <2>3. ASSUME NEW d \in Chunks, d.stream = s, Usable(d), Observed(d)'
        PROVE  entries'[KeyOf(d)] # None /\ d.position <= entries'[KeyOf(d)].chunk.position
    <3>1. Observed(d)
      BY <1>3, <2>3
    <3>2. entries[KeyOf(d)] # None /\ d.position <= entries[KeyOf(d)].chunk.position
      BY <2>2, <2>3, <3>1 DEF OpenOK
    <3>3. KeyOf(d) \in Keys /\ KeyOf(d)[1] = s
      <4>1. s # None
        BY DEF Streams
      <4>2. QED
        BY <2>3, <4>1, ChunkFacts
    <3>4. QED
      BY <3>2, <3>3 DEF SameStream
  <2>4. commits'[s] = <<>>
    BY <2>2 DEF SameStream, OpenOK
  <2>5. QED
    BY <2>3, <2>4 DEF OpenOK
<1>5. ASSUME NEW c \in Chunks, c.stream = s, c.terminal, Observed(c)' PROVE EndedOK(c)'
  <2>1. EndedOK(c)
    BY <1>1, <1>3, <1>5 DEF StreamOK
  <2>2. (call'[c] = "done" <=> call[c] = "done") /\ final'[c] = final[c]
    BY <1>2, <1>5 DEF SameStream
  <2>3. \A k \in Keys : k[1] = c.stream => entries'[k] = None
    BY <1>5, <2>1 DEF EndedOK, SameStream
  <2>4. IF call'[c] = "done" THEN commits'[c.stream] = LatestUsage(c)
        ELSE commits'[c.stream] = <<>> /\ LatestUsage(c) = <<final'[c]>>
    BY <1>5, <2>1, <2>2 DEF EndedOK, SameStream
  <2>5. LatestUsage(c)' = LatestUsage(c)
    <3>1. Observed(c)
      BY <1>3, <1>5
    <3>2. \A d \in Earlier[c] : d \in Chunks /\ d.stream = s /\ Returned(d)
      BY <1>5, <3>1 DEF OrderOK, Observed, Earlier
    <3>3. QED
      BY <1>5, <3>2, LatestKept DEF SameStream
  <2>6. QED
    BY <2>3, <2>4, <2>5 DEF EndedOK
<1>6. QED
  BY <1>4, <1>5

\* Custody passes on when no chunk is new to it.
LEMMA CustodyKept ==
  ASSUME CustodyOK, \A s \in Streams : Kept(s) => Kept(s)',
         \A c \in Chunks : c.stream # None /\ Usable(c) /\ call'[c] = "done" =>
           call[c] = "done" \/ Kept(c.stream)'
  PROVE  CustodyOK'
<1>1. ASSUME NEW c \in Chunks, c.stream # None, Usable(c), call'[c] = "done"
      PROVE  Kept(c.stream)'
  <2>1. c.stream \in Streams
    BY <1>1, ChunkFacts
  <2>2. QED
    BY <1>1, <2>1 DEF CustodyOK
<1>2. QED
  BY <1>1 DEF CustodyOK

-----------------------------------------------------------------------------
(***************************************************************************)
(* The steps that move a call, except for what a chunk does to the table.  *)
(***************************************************************************)
\* Nothing has happened, nothing is in the table, nothing is committed.
LEMMA InitInv == Init => IInv
<1> SUFFICES ASSUME Init PROVE IInv
  OBVIOUS
<1>1. TypeOK
  <2>1. /\ entries \in [Keys -> Entry \cup {None}] /\ bytes \in Int
        /\ closed \in BOOLEAN /\ database \in BOOLEAN /\ queue \in Seq(Chunks)
    <3>1. entries \in [Keys -> Entry \cup {None}]
      BY DEF Init
    <3>2. queue \in Seq(Chunks)
      BY DEF Init
    <3>3. bytes \in Int
      BY DEF Init
    <3>4. closed \in BOOLEAN /\ database \in BOOLEAN
      BY DEF Init
    <3>5. QED
      BY <3>1, <3>2, <3>3, <3>4
  <2>2. /\ call \in [Chunks -> {"none", "queued", "working", "direct", "done", "dropped"}]
        /\ final \in [Chunks -> Tokens]
    BY TokensAreNat DEF Init
  <2>3. /\ flusher \in [pc : {"wait", "commit", "done"}, taken : SUBSET Entry]
        /\ closer \in [pc : {"idle", "await", "commit", "done"}, taken : SUBSET Entry]
    BY DEF Init
  <2>4. /\ commits \in [Streams \cup {None} -> Seq(Tokens)]
        /\ cut \in [Streams -> SUBSET {"evicted", "expired", "closed", "late"}]
    <3>1. <<>> \in Seq(Tokens)
      OBVIOUS
    <3>2. QED
      BY <3>1 DEF Init
  <2>5. QED
    BY <2>1, <2>2, <2>3, <2>4 DEF Init, TypeOK
<1>2. TableAccounting
  <2>1. SizeOf(entries) = 0
    <3>1. entries \in Slots /\ \A k \in Keys : entries[k] = None
      BY DEF Init, Slots
    <3>2. QED
      BY <3>1, SizeOfBounds
  <2>2. In(Table) = {}
    BY DEF Init, In, Table
  <2>3. Cardinality(In(Table)) = 0
    BY <2>2, FS_EmptySet
  <2>4. QED
    BY <2>1, <2>3, ChunkAssumption DEF Init, TableAccounting
<1>3. EntriesOK /\ TakersOK
  BY DEF Init, EntriesOK, TakersOK, ShuttingDown
<1>4. QueueOK /\ OrderOK
  BY DEF Init, QueueOK, OrderOK, Handing, Observed
<1>5. StreamsOK
  BY DEF Init, StreamsOK, StreamOK, Ended, Observed, OpenOK, EndedOK
<1>6. CustodyOK
  BY DEF Init, CustodyOK
<1>7. QED
  BY <1>1, <1>2, <1>3, <1>4, <1>5, <1>6 DEF IInv

\* A chunk that can have no effect is skipped.
LEMMA SkipStep ==
  ASSUME IInv, NEW c \in Chunks, Skip(c)
  PROVE  IInv'
<1>1. TypeOK /\ TableAccounting /\ EntriesOK /\ TakersOK /\ QueueOK /\ OrderOK /\ StreamsOK /\ CustodyOK
  BY DEF IInv
<1>2. /\ call[c] = "none" /\ FastPath(c) /\ \A d \in Earlier[c] : Returned(d)
      /\ call' = [call EXCEPT ![c] = "done"]
  BY DEF Skip, Turn
<1>3. UNCHANGED <<entries, bytes, closed, queue, database, final, flusher, closer,
                  commits, cut, doubled, switched>>
  BY DEF Skip
<1>4. \A d \in Chunks : call'[d] = IF d = c THEN "done" ELSE call[d]
  BY <1>1, <1>2 DEF TypeOK
<1>5. ~c.terminal /\ ~Usable(c)
  BY <1>2, TokensTyped DEF FastPath, Usable
<1>6. TypeOK'
  BY <1>1, <1>2, <1>3 DEF TypeOK
<1>7. TableAccounting'
  BY <1>1, <1>3, <1>6, AccountsKept DEF TypeOK
<1>8. EntriesOK'
  BY <1>1, <1>3, <1>4, EntriesKept
<1>9. TakersOK'
  BY <1>1, <1>3, TakersKept DEF TakersOK
<1>10. QueueOK'
  BY <1>1, <1>2, <1>3, <1>4 DEF QueueOK, Handing
<1>11. OrderOK'
  BY <1>1, <1>2, <1>3, OrderKept
<1>12. StreamsOK'
  <2>1. ASSUME NEW s \in Streams PROVE StreamOK(s)'
    <3>1. SameStream(s)
      BY <1>2, <1>3, <1>4 DEF SameStream, Observed, Returned
    <3>2. Smooth(s)' => Smooth(s)
      BY <1>3 DEF Smooth
    <3>3. QED
      BY <1>1, <3>1, <3>2, StreamKept DEF StreamsOK
  <2>2. QED
    BY <2>1 DEF StreamsOK
<1>13. CustodyOK'
  <2>1. \A d \in Chunks : Handing(d) => Handing(d)'
    BY <1>2, <1>4 DEF Handing
  <2>2. \A s \in Streams : Kept(s) => Kept(s)'
    BY <1>3, <2>1 DEF Kept
  <2>3. QED
    BY <1>1, <1>4, <1>5, <2>2, CustodyKept
<1>14. QED
  BY <1>6, <1>7, <1>8, <1>9, <1>10, <1>11, <1>12, <1>13 DEF IInv

\* What appending to the queue does.
LEMMA Appended ==
  ASSUME NEW S, NEW q \in Seq(S), NEW x \in S
  PROVE  /\ Append(q, x) \in Seq(S) /\ Len(Append(q, x)) = Len(q) + 1
         /\ \A i \in 1..Len(q) : Append(q, x)[i] = q[i]
         /\ Append(q, x)[Len(q) + 1] = x
         /\ Append(q, x) # <<>> /\ (q = <<>> => Append(q, x) = <<x>>)
<1>1. Append(q, x) \in Seq(S) /\ Len(Append(q, x)) = Len(q) + 1 /\ Len(q) \in Nat
  OBVIOUS
<1>2. Append(q, x) # <<>>
  BY <1>1
<1>3. q = <<>> => Append(q, x) = <<x>>
  OBVIOUS
<1>4. QED
  BY <1>1, <1>2, <1>3

\* A chunk is queued, or refused.
LEMMA QueueStep ==
  ASSUME IInv, NEW c \in Chunks, Queue(c)
  PROVE  IInv'
<1>1. TypeOK /\ TableAccounting /\ EntriesOK /\ TakersOK /\ QueueOK /\ OrderOK /\ StreamsOK /\ CustodyOK
  BY DEF IInv
<1>2. PICK p \in {"dropped", "queued"} :
        /\ call' = [call EXCEPT ![c] = p]
        /\ p = "dropped" => queue' = queue
        /\ p = "queued" => ~ShuttingDown /\ queue' = Append(queue, c)
  BY DEF Queue
<1>0. call[c] = "none" /\ ~FastPath(c) /\ database /\ \A d \in Earlier[c] : Returned(d)
  BY DEF Queue, Turn
<1>3. UNCHANGED <<entries, bytes, closed, database, final, flusher, closer,
                  commits, cut, doubled, switched>>
  BY DEF Queue
<1>4. \A d \in Chunks : call'[d] = IF d = c THEN p ELSE call[d]
  BY <1>1, <1>2 DEF TypeOK
<1>5. p = "queued" => ~closed
  BY <1>1, <1>2 DEF TakersOK
<1>6. TypeOK'
  <2>1. call' \in [Chunks -> {"none", "queued", "working", "direct", "done", "dropped"}]
    BY <1>1, <1>2 DEF TypeOK
  <2>2. queue' \in Seq(Chunks)
    <3>1. queue \in Seq(Chunks) /\ Append(queue, c) \in Seq(Chunks)
      BY <1>1, Appended DEF TypeOK
    <3>2. queue' \in {queue, Append(queue, c)}
      BY <1>2
    <3>3. QED
      BY <3>1, <3>2
  <2>3. QED
    BY <1>1, <1>3, <2>1, <2>2 DEF TypeOK
<1>7. TableAccounting'
  BY <1>1, <1>3, <1>6, AccountsKept DEF TypeOK
<1>8. EntriesOK'
  BY <1>0, <1>1, <1>3, <1>4, EntriesKept
<1>9. TakersOK'
  BY <1>1, <1>3, TakersKept DEF TakersOK
<1>10. QueueOK'
  <2>1. CASE p = "dropped"
    BY <1>0, <1>1, <1>2, <1>3, <1>4, <2>1 DEF QueueOK, Handing
  <2>2. CASE p = "queued"
    <3>1. /\ Len(queue') = Len(queue) + 1 /\ queue'[Len(queue) + 1] = c
          /\ \A i \in 1..Len(queue) : queue'[i] = queue[i]
          /\ Len(queue) \in Nat /\ \A i \in 1..Len(queue) : queue[i] \in Chunks
      BY <1>1, <1>2, <2>2, Appended DEF TypeOK
    <3>2. p = "queued" /\ ~closed /\ ~closed'
      BY <1>3, <1>5, <2>2
    <3>3. \A d \in Chunks : call'[d] = "queued" <=> \E i \in 1..Len(queue') : queue'[i] = d
      <4>1. ASSUME NEW d \in Chunks
            PROVE  (\E i \in 1..Len(queue') : queue'[i] = d)
                     <=> d = c \/ \E i \in 1..Len(queue) : queue[i] = d
        BY <3>1
      <4>2. QED
        BY <1>1, <1>4, <3>2, <4>1 DEF QueueOK
    <3>4. ASSUME NEW i \in 1..Len(queue), queue[i].stream = c.stream
          PROVE  queue[i].position < c.position
      <4>1. queue[i] \in Chunks /\ call[queue[i]] = "queued"
        BY <1>1, <3>1 DEF QueueOK
      <4>2. c \notin Earlier[queue[i]]
        BY <1>0, <1>1, <4>1 DEF OrderOK, Returned
      <4>3. queue[i] # c
        BY <1>0, <4>1
      <4>4. QED
        BY <3>4, <4>1, <4>2, <4>3, EarlierIs
    <3>5. ASSUME NEW i \in 1..Len(queue'), NEW j \in 1..Len(queue'), i < j,
                 queue'[i].stream = queue'[j].stream
          PROVE  queue'[i].position < queue'[j].position
      <4>1. i \in 1..Len(queue)
        BY <3>1, <3>5
      <4>2. CASE j = Len(queue) + 1
        BY <3>1, <3>4, <3>5, <4>1, <4>2
      <4>3. CASE j # Len(queue) + 1
        <5>1. j \in 1..Len(queue)
          BY <3>1, <4>3
        <5>2. QED
          BY <1>1, <3>1, <3>5, <4>1, <5>1 DEF QueueOK
      <4>4. QED
        BY <4>2, <4>3
    <3>6. QED
      BY <1>0, <1>1, <1>3, <1>4, <3>2, <3>3, <3>5 DEF QueueOK, Handing
  <2>3. QED
    BY <2>1, <2>2
<1>11. OrderOK'
  BY <1>0, <1>1, <1>2, <1>3, OrderKept
<1>12. StreamsOK'
  <2>1. ASSUME NEW s \in Streams PROVE StreamOK(s)'
    <3>1. SameStream(s)
      BY <1>0, <1>2, <1>3, <1>4 DEF SameStream, Observed, Returned
    <3>2. Smooth(s)' => Smooth(s)
      BY <1>3 DEF Smooth
    <3>3. QED
      BY <1>1, <3>1, <3>2, StreamKept DEF StreamsOK
  <2>2. QED
    BY <2>1 DEF StreamsOK
<1>13. CustodyOK'
  <2>1. \A d \in Chunks : Handing(d) => Handing(d)'
    BY <1>0, <1>2, <1>4 DEF Handing
  <2>2. \A s \in Streams : Kept(s) => Kept(s)'
    BY <1>3, <2>1 DEF Kept
  <2>3. QED
    BY <1>1, <1>2, <1>4, <2>2, CustodyKept
<1>14. QED
  BY <1>6, <1>7, <1>8, <1>9, <1>10, <1>11, <1>12, <1>13 DEF IInv

\* In an orderly stream the chunk that ends it is the only one that does.
LEMMA OneEnd ==
  ASSUME NEW c \in Chunks, NEW d \in Chunks, c.stream = d.stream, Orderly(c.stream),
         c.terminal, d # c
  PROVE  d \in Earlier[c] /\ ~d.terminal /\ KeyOf(d) = KeyOf(c)
<1>1. c \notin Earlier[d]
  BY EarlierIs DEF Orderly
<1>2. d \in Earlier[c]
  BY <1>1, EarlierIs
<1>3. QED
  BY <1>2, EarlierIs DEF Orderly, KeyOf

\* A call commits what it has in hand.
LEMMA CommitStep ==
  ASSUME IInv, NEW c \in Chunks, Commit(c)
  PROVE  IInv'
<1>1. TypeOK /\ TableAccounting /\ EntriesOK /\ TakersOK /\ QueueOK /\ OrderOK /\ StreamsOK /\ CustodyOK
  BY DEF IInv
<1>2. /\ call[c] \in {"direct", "working"} /\ call' = [call EXCEPT ![c] = "done"]
      /\ final' = [final EXCEPT ![c] = 0]
      /\ commits' = [commits EXCEPT ![c.stream] = Append(@, final[c])]
  BY DEF Commit
<1>3. UNCHANGED <<entries, bytes, closed, queue, database, flusher, closer, cut,
                  doubled, switched>>
  BY DEF Commit
<1>4. \A d \in Chunks : call'[d] = IF d = c THEN "done" ELSE call[d]
  BY <1>1, <1>2 DEF TypeOK
<1>5. /\ c.stream \in Streams \cup {None}
      /\ final[c] \in Tokens /\ commits[c.stream] \in Seq(Tokens)
      /\ Append(commits[c.stream], final[c]) \in Seq(Tokens)
      /\ Append(commits[c.stream], final[c]) # <<>>
  <2>1. c.stream \in Streams \cup {None}
    BY ChunkFacts
  <2>2. final[c] \in Tokens /\ commits[c.stream] \in Seq(Tokens)
    BY <1>1, <2>1 DEF TypeOK
  <2>3. QED
    BY <2>1, <2>2, Appended
<1>6. \A s \in Streams \cup {None} :
        commits'[s] = IF s = c.stream THEN Append(commits[s], final[c]) ELSE commits[s]
  BY <1>1, <1>2, <1>5 DEF TypeOK
<1>7. TypeOK'
  <2>1. commits' \in [Streams \cup {None} -> Seq(Tokens)]
    BY <1>1, <1>2, <1>5 DEF TypeOK
  <2>2. final' \in [Chunks -> Tokens]
    BY <1>1, <1>2, TokensAreNat DEF TypeOK
  <2>3. call' \in [Chunks -> {"none", "queued", "working", "direct", "done", "dropped"}]
    BY <1>1, <1>2 DEF TypeOK
  <2>4. QED
    BY <1>1, <1>3, <2>1, <2>2, <2>3 DEF TypeOK
<1>8. TableAccounting'
  BY <1>1, <1>3, <1>7, AccountsKept DEF TypeOK
<1>9. EntriesOK'
  BY <1>1, <1>3, <1>4, EntriesKept
<1>10. TakersOK'
  BY <1>1, <1>3, TakersKept DEF TakersOK
<1>11. QueueOK'
  BY <1>1, <1>2, <1>3, <1>4 DEF QueueOK, Handing
<1>12. OrderOK'
  <2>1. \A d \in Earlier[c] : Returned(d)
    BY <1>1, <1>2 DEF OrderOK
  <2>2. ~FastPath(c) /\ ~switched => \A d \in Earlier[c] : call[d] \in {"done", "dropped"}
    BY <1>1, <1>2 DEF OrderOK, Observed
  <2>3. QED
    BY <1>1, <1>2, <1>3, <2>1, <2>2, OrderKept
<1>13. StreamsOK'
  <2>1. ASSUME NEW s \in Streams, s # c.stream PROVE StreamOK(s)'
    <3>1. SameStream(s)
      BY <1>1, <1>2, <1>3, <1>4, <1>6, <2>1 DEF SameStream, Observed, TypeOK
    <3>2. Smooth(s)' => Smooth(s)
      BY <1>3 DEF Smooth
    <3>3. QED
      BY <1>1, <3>1, <3>2, StreamKept DEF StreamsOK
  <2>2. ASSUME NEW s \in Streams, s = c.stream, Smooth(s)'
        PROVE  /\ ~Ended(s)' => OpenOK(s)'
               /\ \A d \in Chunks : d.stream = s /\ d.terminal /\ Observed(d)' => EndedOK(d)'
    <3>1. c.terminal
      BY <1>1, <1>2, <2>2 DEF QueueOK, Handing, Streams
    <3>2. Smooth(s)
      BY <1>3, <2>2 DEF Smooth
    <3>3. EndedOK(c)
      BY <1>1, <1>2, <2>2, <3>1, <3>2 DEF StreamsOK, StreamOK, Observed
    <3>4. commits[s] = <<>> /\ LatestUsage(c) = <<final[c]>>
      BY <1>2, <2>2, <3>3 DEF EndedOK
    <3>5. commits'[s] = <<final[c]>>
      <4>1. commits'[s] = Append(<<>>, final[c])
        BY <1>6, <2>2, <3>4
      <4>2. Append(<<>>, final[c]) = <<final[c]>>
        OBVIOUS
      <4>3. QED
        BY <4>1, <4>2
    <3>6. EndedOK(c)'
      <4>1. LatestUsage(c)' = LatestUsage(c)
        <5>1. Earlier[c] \subseteq Chunks
          BY DEF Earlier
        <5>2. QED
          BY <1>2, <1>4, <5>1, LatestKept
      <4>2. QED
        BY <1>2, <1>3, <1>4, <2>2, <3>3, <3>4, <3>5, <4>1 DEF EndedOK
    <3>7. Ended(s)'
      BY <1>4, <2>2, <3>1 DEF Ended, Observed
    <3>8. \A d \in Chunks : d.stream = s /\ d.terminal => d = c
      BY <2>2, <3>1, <3>2, OneEnd DEF Smooth
    <3>9. QED
      BY <3>6, <3>7, <3>8
  <2>3. QED
    BY <2>1, <2>2 DEF StreamsOK, StreamOK
<1>14. CustodyOK'
  <2>1. Kept(c.stream)'
    BY <1>5, <1>6 DEF Kept
  <2>2. ASSUME NEW s \in Streams, Kept(s), s # c.stream PROVE Kept(s)'
    <3>1. \A d \in Chunks : d.stream = s => (Handing(d)' <=> Handing(d))
      BY <1>4, <2>2 DEF Handing
    <3>2. commits'[s] = commits[s]
      BY <1>6, <2>2
    <3>3. QED
      BY <1>3, <2>2, <3>1, <3>2 DEF Kept
  <2>3. \A d \in Chunks : call'[d] = "done" => call[d] = "done" \/ d = c
    BY <1>4
  <2>4. QED
    BY <1>1, <2>1, <2>2, <2>3, CustodyKept
<1>15. QED
  BY <1>7, <1>8, <1>9, <1>10, <1>11, <1>12, <1>13, <1>14 DEF IInv

\* A database is configured or removed.
LEMMA SwitchStep ==
  ASSUME IInv, SwitchStorage
  PROVE  IInv'
<1>1. TypeOK /\ TableAccounting /\ EntriesOK /\ TakersOK /\ QueueOK /\ OrderOK /\ CustodyOK
  BY DEF IInv
<1>2. switched' = TRUE /\ database' = ~database
  BY DEF SwitchStorage
<1>3. UNCHANGED <<entries, bytes, closed, queue, call, final, flusher, closer,
                  commits, cut, doubled>>
  BY DEF SwitchStorage
<1>4. TypeOK'
  BY <1>1, <1>2, <1>3 DEF TypeOK
<1>5. TableAccounting'
  BY <1>1, <1>3, <1>4, AccountsKept DEF TypeOK
<1>6. EntriesOK'
  BY <1>1, <1>3, EntriesKept
<1>7. TakersOK'
  BY <1>1, <1>3, TakersKept DEF TakersOK
<1>8. QueueOK'
  BY <1>1, <1>3 DEF QueueOK, Handing
<1>9. OrderOK'
  BY <1>1, <1>2, <1>3 DEF OrderOK, Returned, Observed
<1>10. StreamsOK'
  BY <1>2 DEF StreamsOK, StreamOK, Smooth
<1>11. CustodyOK'
  BY <1>1, <1>3 DEF CustodyOK, Kept, Handing
<1>12. QED
  BY <1>4, <1>5, <1>6, <1>7, <1>8, <1>9, <1>10, <1>11 DEF IInv

-----------------------------------------------------------------------------
(***************************************************************************)
(* Time, the ticker's goroutine and close.                                 *)
(***************************************************************************)
\* The larger and the smaller of two numbers.
LEMMA MaxMin ==
  ASSUME NEW a \in Int, NEW b \in Int
  PROVE  /\ Max({a, b}) = IF a >= b THEN a ELSE b
         /\ Min({a, b}) = IF a <= b THEN a ELSE b
<1>1. \E x \in {a, b} : \A y \in {a, b} : x >= y
  OBVIOUS
<1>2. \E x \in {a, b} : \A y \in {a, b} : x <= y
  OBVIOUS
<1>3. Max({a, b}) \in {a, b} /\ Max({a, b}) >= a /\ Max({a, b}) >= b
  BY <1>1 DEF Max
<1>4. Min({a, b}) \in {a, b} /\ Min({a, b}) <= a /\ Min({a, b}) <= b
  BY <1>2 DEF Min
<1>5. QED
  BY <1>3, <1>4

\* Time passes: every entry grows older.
LEMMA TickStep ==
  ASSUME IInv, Tick
  PROVE  IInv'
<1>1. TypeOK /\ TableAccounting /\ EntriesOK /\ TakersOK /\ QueueOK /\ OrderOK /\ StreamsOK /\ CustodyOK
  BY DEF IInv
<1>2. entries' = [k \in Keys |->
        IF entries[k] = None THEN None
        ELSE [entries[k] EXCEPT !.age = Min({@ + 1, TTL})]]
  BY DEF Tick
<1>3. UNCHANGED <<bytes, closed, queue, database, call, final, flusher, closer,
                  commits, cut, doubled, switched>>
  BY DEF Tick
<1>4. ASSUME NEW k \in Keys, entries[k] # None
      PROVE  /\ entries'[k] \in Entry /\ entries'[k].chunk = entries[k].chunk
             /\ entries'[k].tokens = entries[k].tokens
  <2>1. entries[k] \in Entry /\ entries[k].age \in 0..TTL
    BY <1>1, <1>4, EntryFacts DEF TypeOK
  <2>2. Min({entries[k].age + 1, TTL}) \in 0..TTL
    <3>1. TTL \in Nat /\ TTL # 0
      BY ChunkAssumption
    <3>2. entries[k].age \in Nat /\ entries[k].age + 1 \in Int /\ TTL \in Int
      BY <2>1, <3>1
    <3> DEFINE a == entries[k].age + 1
    <3>3. Min({a, TTL}) = IF a <= TTL THEN a ELSE TTL
      <4> HIDE DEF a
      <4>1. a \in Int /\ TTL \in Int
        BY <3>2 DEF a
      <4>2. QED
        BY <4>1, MaxMin
    <3>4. QED
      BY <3>1, <3>2, <3>3
  <2>3. entries'[k] = [entries[k] EXCEPT !.age = Min({entries[k].age + 1, TTL})]
    BY <1>2, <1>4
  <2>4. QED
    BY <2>1, <2>2, <2>3 DEF Entry
<1>5. /\ entries' \in [Keys -> Entry \cup {None}]
      /\ \A k \in Keys : entries'[k] = None <=> entries[k] = None
  <2>1. \A k \in Keys : entries[k] = None => entries'[k] = None
    BY <1>2
  <2>2. \A k \in Keys : entries[k] # None => entries'[k] \in Entry /\ entries'[k] # None
    BY <1>4, EntryFacts
  <2>3. entries' = [k \in Keys |-> entries'[k]]
    BY <1>2
  <2>4. QED
    BY <2>1, <2>2, <2>3
<1>6. TypeOK'
  BY <1>1, <1>3, <1>5 DEF TypeOK
<1>7. TableAccounting'
  BY <1>1, <1>3, <1>4, <1>5, AccountsKept
<1>8. EntriesOK'
  BY <1>1, <1>3, <1>4, <1>5, EntriesKept
<1>9. TakersOK'
  BY <1>1, <1>3, <1>5, TakersKept DEF TakersOK
<1>10. QueueOK' /\ OrderOK'
  BY <1>1, <1>3 DEF QueueOK, OrderOK, Handing, Observed, Returned
<1>11. StreamsOK'
  <2>1. ASSUME NEW s \in Streams PROVE StreamOK(s)'
    <3>1. SameStream(s)
      BY <1>3, <1>4, <1>5 DEF SameStream, Observed
    <3>2. Smooth(s)' => Smooth(s)
      BY <1>3 DEF Smooth
    <3>3. QED
      BY <1>1, <3>1, <3>2, StreamKept DEF StreamsOK
  <2>2. QED
    BY <2>1 DEF StreamsOK
<1>12. CustodyOK'
  BY <1>1, <1>3, <1>5 DEF CustodyOK, Kept, Handing
<1>13. QED
  BY <1>6, <1>7, <1>8, <1>9, <1>10, <1>11, <1>12 DEF IInv

\* What is cut by taking entries.
LEMMA CutByIs ==
  ASSUME NEW S, NEW how \in {"evicted", "expired", "closed", "late"}, TypeOK
  PROVE  /\ CutBy(S, how) \in [Streams -> SUBSET {"evicted", "expired", "closed", "late"}]
         /\ \A s \in Streams : cut[s] \subseteq CutBy(S, how)[s]
         /\ \A e \in S : e.chunk.stream \in Streams => how \in CutBy(S, how)[e.chunk.stream]
         /\ \A s \in Streams : CutBy(S, how)[s] = {} => cut[s] = {}
                                  /\ \A e \in S : e.chunk.stream # s
BY DEF CutBy, TypeOK

\* A stream is untouched by taking the entries of other streams from the table.
LEMMA TakenKeepsStream ==
  ASSUME TypeOK, EntriesOK, OrderOK, NEW S, NEW how \in {"evicted", "expired", "closed", "late"},
         cut' = CutBy(S, how), UNCHANGED <<call, final, commits, switched>>,
         \A k \in Keys : entries'[k] = IF entries[k] \in S THEN None ELSE entries[k],
         NEW s \in Streams, StreamOK(s)
  PROVE  StreamOK(s)'
<1>1. ASSUME Smooth(s)' PROVE Smooth(s) /\ SameStream(s)
  <2>1. cut[s] = {} /\ \A e \in S : e.chunk.stream # s
    BY <1>1, CutByIs DEF Smooth
  <2>2. \A k \in Keys : k[1] = s => entries'[k] = entries[k]
    <3>1. ASSUME NEW k \in Keys, k[1] = s, entries[k] # None PROVE entries[k] \notin S
      BY <2>1, <3>1, EntryIs
    <3>2. QED
      BY <3>1
  <2>3. SameStream(s)
    BY <2>2 DEF SameStream, Observed
  <2>4. QED
    BY <1>1, <2>1, <2>3 DEF Smooth
<1>2. CASE Smooth(s)'
  BY <1>1, <1>2, StreamKept
<1>3. CASE ~Smooth(s)'
  BY <1>3 DEF StreamOK
<1>4. QED
  BY <1>2, <1>3

\* The ticker's goroutine takes what has expired.
LEMMA FlushStep ==
  ASSUME IInv, FlushExpired
  PROVE  IInv'
<1>1. TypeOK /\ TableAccounting /\ EntriesOK /\ TakersOK /\ QueueOK /\ OrderOK /\ StreamsOK /\ CustodyOK
  BY DEF IInv
<1> DEFINE taken == {e \in Held : Expired(e)}
           A == [k \in Keys |-> IF entries[k] \in taken THEN entries[k] ELSE None]
           B == [k \in Keys |-> IF entries[k] \in Held \ taken THEN entries[k] ELSE None]
<1>2. /\ flusher.pc = "wait" /\ ~closed
      /\ entries' = B /\ bytes' = Max({0, bytes - SizeOf(A)})
      /\ cut' = CutBy(taken, "expired")
      /\ flusher' = [pc |-> "commit", taken |-> taken]
  BY DEF FlushExpired
<1>3. UNCHANGED <<closed, queue, database, call, final, closer, commits, doubled, switched>>
  BY DEF FlushExpired
<1>4. taken \subseteq Entry /\ None \notin taken
  BY <1>1 DEF TypeOK, Held
<1>5. /\ A \in Slots /\ B \in Slots
      /\ \A k \in Keys : A[k] = IF entries[k] \in taken THEN entries[k] ELSE None
      /\ \A k \in Keys : B[k] = IF entries[k] \in taken THEN None ELSE entries[k]
  <2>1. \A k \in Keys : entries[k] \in Entry \cup {None}
    BY <1>1 DEF TypeOK
  <2>2. \A k \in Keys : entries[k] \in Held \/ entries[k] = None
    BY DEF Held
  <2>3. A \in Slots
    BY <2>1 DEF Slots
  <2>4. B \in Slots
    BY <2>1 DEF Slots
  <2> HIDE DEF taken
  <2>5. \A k \in Keys : B[k] = IF entries[k] \in taken THEN None ELSE entries[k]
    BY <1>4, <2>2
  <2>6. QED
    BY <2>3, <2>4, <2>5
<1>6. \A e \in taken : \E k \in Keys : e = entries[k] /\ entries[k] # None
  BY DEF Held
<1> HIDE DEF taken, A, B
<1>7. \A e \in taken : e.chunk.stream \in Streams
  BY <1>1, <1>6, EntryIs
<1>8. TypeOK'
  <2>1. entries' \in [Keys -> Entry \cup {None}]
    BY <1>2, <1>5 DEF Slots
  <2>2. bytes' \in Int
    <3>1. SizeOf(A) \in Nat /\ bytes \in Int
      BY <1>1, <1>5, SizesTyped DEF TypeOK
    <3>2. QED
      BY <1>2, <3>1, MaxMin
  <2>3. cut' \in [Streams -> SUBSET {"evicted", "expired", "closed", "late"}]
    BY <1>1, <1>2, CutByIs
  <2>4. QED
    BY <1>1, <1>2, <1>3, <1>4, <2>1, <2>2, <2>3 DEF TypeOK
<1>9. TableAccounting'
  <2>1. SizeOf(entries) = SizeOf(A) + SizeOf(B)
    <3>1. entries \in Slots
      BY <1>1 DEF TypeOK, Slots
    <3>2. QED
      BY <1>5, <3>1, SizeOfParts
  <2>2. SizeOf(A) \in Nat /\ SizeOf(B) \in Nat /\ bytes \in Int
    BY <1>1, <1>5, SizesTyped DEF TypeOK
  <2>3. bytes' = IF 0 >= bytes - SizeOf(A) THEN 0 ELSE bytes - SizeOf(A)
    BY <1>2, <2>2, MaxMin
  <2>4. bytes' <= SizeOf(B)
    BY <1>1, <2>1, <2>2, <2>3 DEF TableAccounting
  <2>5. ~doubled => bytes' = SizeOf(B) /\ bytes' <= MaxBytes
    BY <1>1, <2>1, <2>2, <2>3, ChunkAssumption DEF TableAccounting
  <2>6. Cardinality(In(Table)') <= MaxStreams
    <3>1. In(Table)' \in SUBSET In(Table)
      BY <1>2, <1>5 DEF In, Table
    <3>2. Cardinality(In(Table)') <= Cardinality(In(Table))
      BY <3>1, InIsFinite, FS_Subset
    <3>3. Cardinality(In(Table)') \in Nat /\ Cardinality(In(Table)) \in Nat
      BY <3>1, InIsFinite, FS_Subset, FS_CardinalityType
    <3>4. QED
      BY <1>1, <3>2, <3>3, ChunkAssumption DEF TableAccounting
  <2>7. QED
    BY <1>2, <1>3, <2>4, <2>5, <2>6 DEF TableAccounting
<1>10. EntriesOK'
  BY <1>1, <1>2, <1>3, <1>5, EntriesKept
<1>11. TakersOK'
  <2>1. ASSUME NEW e \in flusher'.taken \cup closer'.taken
        PROVE  e.chunk.stream \in Streams /\ cut'[e.chunk.stream] # {}
    <3>1. CASE e \in taken
      BY <1>1, <1>2, <1>7, <3>1, CutByIs
    <3>2. CASE e \notin taken
      <4>1. e.chunk.stream \in Streams /\ cut[e.chunk.stream] # {}
        BY <1>1, <1>2, <1>3, <2>1, <3>2 DEF TakersOK
      <4>2. QED
        BY <1>1, <1>2, <4>1, CutByIs
    <3>3. QED
      BY <3>1, <3>2
  <2>2. QED
    BY <1>1, <1>2, <1>3, <2>1 DEF TakersOK, ShuttingDown
<1>12. QueueOK' /\ OrderOK'
  BY <1>1, <1>3 DEF QueueOK, OrderOK, Handing, Observed, Returned
<1>13. StreamsOK'
  <2>1. ASSUME NEW s \in Streams PROVE StreamOK(s)'
    <3>1. StreamOK(s)
      BY <1>1 DEF StreamsOK
    <3>2. \A k \in Keys : entries'[k] = IF entries[k] \in taken THEN None ELSE entries[k]
      BY <1>2, <1>5
    <3>3. QED
      BY <1>1, <1>2, <1>3, <3>1, <3>2, TakenKeepsStream
  <2>2. QED
    BY <2>1 DEF StreamsOK
<1>14. CustodyOK'
  <2>1. ASSUME NEW s \in Streams, Kept(s) PROVE Kept(s)'
    <3>1. CASE \E k \in Keys : k[1] = s /\ entries[k] # None
      <4>1. PICK k \in Keys : k[1] = s /\ entries[k] # None
        BY <3>1
      <4>2. CASE entries[k] \in taken
        BY <1>1, <1>2, <4>1, <4>2, EntryIs DEF Kept
      <4>3. CASE entries[k] \notin taken
        BY <1>2, <1>5, <4>1, <4>3 DEF Kept
      <4>4. QED
        BY <4>2, <4>3
    <3>2. CASE \E e \in flusher.taken \cup closer.taken : e.chunk.stream = s
      BY <1>1, <1>2, <1>3, <3>2 DEF Kept, TakersOK
    <3>3. CASE cut[s] \cap {"evicted", "late"} # {}
      <4>1. cut[s] \subseteq cut'[s]
        BY <1>1, <1>2, CutByIs
      <4>2. QED
        BY <3>3, <4>1 DEF Kept
    <3>4. CASE commits[s] # <<>> \/ \E d \in Chunks : d.stream = s /\ Handing(d)
      BY <1>3, <3>4 DEF Kept, Handing
    <3>5. QED
      BY <2>1, <3>1, <3>2, <3>3, <3>4 DEF Kept
  <2>2. QED
    BY <1>1, <1>3, <2>1, CustodyKept
<1>15. QED
  BY <1>8, <1>9, <1>10, <1>11, <1>12, <1>13, <1>14 DEF IInv

\* A taken entry is committed for its stream.
LEMMA CommitTakenIs ==
  ASSUME TypeOK, NEW e \in Entry, e.chunk.stream \in Streams, CommitTaken(e)
  PROVE  /\ commits' \in [Streams \cup {None} -> Seq(Tokens)]
         /\ commits'[e.chunk.stream] # <<>>
         /\ \A s \in Streams : s # e.chunk.stream => commits'[s] = commits[s]
<1>1. e.tokens \in Tokens /\ commits[e.chunk.stream] \in Seq(Tokens)
  BY EntryFacts DEF TypeOK
<1>2. /\ Append(commits[e.chunk.stream], e.tokens) \in Seq(Tokens)
      /\ Append(commits[e.chunk.stream], e.tokens) # <<>>
  BY <1>1, Appended
<1>3. commits' = [commits EXCEPT ![e.chunk.stream] = Append(commits[e.chunk.stream], e.tokens)]
  BY DEF CommitTaken
<1>4. QED
  BY <1>2, <1>3 DEF TypeOK

\* Streams and custody when a goroutine commits an entry that it took: the
\* stream of such an entry was cut.
LEMMA CommittedTaken ==
  ASSUME IInv, NEW e \in flusher.taken \cup closer.taken, CommitTaken(e),
         UNCHANGED <<entries, bytes, closed, queue, database, call, final, cut,
                     doubled, switched>>,
         flusher.taken \cup closer.taken \subseteq {e} \cup flusher'.taken \cup closer'.taken
  PROVE  /\ commits' \in [Streams \cup {None} -> Seq(Tokens)]
         /\ StreamsOK' /\ CustodyOK'
<1>1. TypeOK /\ TakersOK /\ OrderOK /\ StreamsOK /\ CustodyOK
  BY DEF IInv
<1>2. e \in Entry /\ e.chunk.stream \in Streams /\ cut[e.chunk.stream] # {}
  BY <1>1 DEF TypeOK, TakersOK
<1>3. /\ commits' \in [Streams \cup {None} -> Seq(Tokens)]
      /\ commits'[e.chunk.stream] # <<>>
      /\ \A s \in Streams : s # e.chunk.stream => commits'[s] = commits[s]
  BY <1>1, <1>2, CommitTakenIs
<1>4. ASSUME NEW s \in Streams PROVE StreamOK(s)'
  <2>1. CASE s = e.chunk.stream
    <3>1. ~Smooth(s)'
      BY <1>2, <2>1 DEF Smooth
    <3>2. QED
      BY <3>1 DEF StreamOK
  <2>2. CASE s # e.chunk.stream
    <3>1. SameStream(s)
      BY <1>3, <2>2 DEF SameStream, Observed
    <3>2. Smooth(s)' => Smooth(s)
      BY DEF Smooth
    <3>3. QED
      BY <1>1, <3>1, <3>2, StreamKept DEF StreamsOK
  <2>3. QED
    BY <2>1, <2>2
<1>5. ASSUME NEW s \in Streams, Kept(s) PROVE Kept(s)'
  <2>1. CASE s = e.chunk.stream
    BY <1>3, <2>1 DEF Kept
  <2>2. CASE s # e.chunk.stream
    BY <1>3, <1>5, <2>2 DEF Kept, Handing
  <2>3. QED
    BY <2>1, <2>2
<1>6. StreamsOK'
  BY <1>4 DEF StreamsOK
<1>7. CustodyOK'
  BY <1>1, <1>5, CustodyKept
<1>8. QED
  BY <1>3, <1>6, <1>7

\* The ticker's goroutine commits an expired entry.
LEMMA FlusherCommitStep ==
  ASSUME IInv, FlusherCommit
  PROVE  IInv'
<1>1. TypeOK /\ TableAccounting /\ EntriesOK /\ TakersOK /\ QueueOK /\ OrderOK
  BY DEF IInv
<1>2. PICK e \in flusher.taken :
        /\ CommitTaken(e)
        /\ flusher' = [pc |-> IF flusher.taken = {e} THEN "wait" ELSE "commit",
                       taken |-> flusher.taken \ {e}]
  BY DEF FlusherCommit
<1>3. /\ flusher.pc = "commit"
      /\ UNCHANGED <<entries, bytes, closed, queue, database, call, final, closer,
                     cut, doubled, switched>>
  BY DEF FlusherCommit
<1>4. commits' \in [Streams \cup {None} -> Seq(Tokens)] /\ StreamsOK' /\ CustodyOK'
  <2>1. flusher.taken \cup closer.taken \subseteq {e} \cup flusher'.taken \cup closer'.taken
    BY <1>2, <1>3
  <2>2. QED
    BY <1>2, <1>3, <2>1, CommittedTaken
<1>5. TypeOK'
  BY <1>1, <1>2, <1>3, <1>4 DEF TypeOK
<1>6. TableAccounting'
  BY <1>1, <1>3, <1>5, AccountsKept DEF TypeOK
<1>7. EntriesOK'
  BY <1>1, <1>3, EntriesKept
<1>8. TakersOK'
  <2>1. \A x \in flusher'.taken \cup closer'.taken :
          x.chunk.stream \in Streams /\ cut'[x.chunk.stream] # {}
    BY <1>1, <1>2, <1>3 DEF TakersOK
  <2>2. QED
    BY <1>1, <1>2, <1>3, <2>1 DEF TakersOK, ShuttingDown
<1>9. QueueOK' /\ OrderOK'
  BY <1>1, <1>3 DEF QueueOK, OrderOK, Handing, Observed, Returned
<1>10. QED
  BY <1>4, <1>5, <1>6, <1>7, <1>8, <1>9 DEF IInv

\* Close commits an entry that it took.
LEMMA CloseCommitStep ==
  ASSUME IInv, CloseCommit
  PROVE  IInv'
<1>1. TypeOK /\ TableAccounting /\ EntriesOK /\ TakersOK /\ QueueOK /\ OrderOK
  BY DEF IInv
<1>2. PICK e \in closer.taken :
        /\ CommitTaken(e)
        /\ closer' = [pc |-> IF closer.taken = {e} THEN "done" ELSE "commit",
                      taken |-> closer.taken \ {e}]
  BY DEF CloseCommit
<1>3. /\ closer.pc = "commit"
      /\ UNCHANGED <<entries, bytes, closed, queue, database, call, final, flusher,
                     cut, doubled, switched>>
  BY DEF CloseCommit
<1>4. commits' \in [Streams \cup {None} -> Seq(Tokens)] /\ StreamsOK' /\ CustodyOK'
  <2>1. flusher.taken \cup closer.taken \subseteq {e} \cup flusher'.taken \cup closer'.taken
    BY <1>2, <1>3
  <2>2. QED
    BY <1>2, <1>3, <2>1, CommittedTaken
<1>5. TypeOK'
  BY <1>1, <1>2, <1>3, <1>4 DEF TypeOK
<1>6. TableAccounting'
  BY <1>1, <1>3, <1>5, AccountsKept DEF TypeOK
<1>7. EntriesOK'
  BY <1>1, <1>3, EntriesKept
<1>8. TakersOK'
  <2>1. \A x \in flusher'.taken \cup closer'.taken :
          x.chunk.stream \in Streams /\ cut'[x.chunk.stream] # {}
    BY <1>1, <1>2, <1>3 DEF TakersOK
  <2>2. QED
    BY <1>1, <1>2, <1>3, <2>1 DEF TakersOK, ShuttingDown
<1>9. QueueOK' /\ OrderOK'
  BY <1>1, <1>3 DEF QueueOK, OrderOK, Handing, Observed, Returned
<1>10. QED
  BY <1>4, <1>5, <1>6, <1>7, <1>8, <1>9 DEF IInv

\* The goroutine ends, and close stops waiting for it.
LEMMA StopSteps ==
  ASSUME IInv, FlusherStop \/ CloseAwait
  PROVE  IInv'
<1>1. TypeOK /\ TableAccounting /\ EntriesOK /\ TakersOK /\ QueueOK /\ OrderOK /\ StreamsOK /\ CustodyOK
  BY DEF IInv
<1>2. UNCHANGED <<entries, bytes, closed, queue, database, call, final, commits,
                  cut, doubled, switched>>
  BY DEF FlusherStop, CloseAwait
<1>3. flusher'.taken = flusher.taken /\ closer'.taken = closer.taken
  <2>1. CASE FlusherStop
    BY <2>1 DEF FlusherStop
  <2>2. CASE CloseAwait
    BY <2>2 DEF CloseAwait
  <2>3. QED
    BY <2>1, <2>2
<1>4. TypeOK' /\ TakersOK'
  <2>1. CASE FlusherStop
    <3>1. /\ flusher.pc = "wait" /\ flusher'.pc = "done" /\ flusher'.taken = flusher.taken
          /\ flusher' = [flusher EXCEPT !.pc = "done"] /\ closer' = closer
      BY <2>1 DEF FlusherStop
    <3>2. TypeOK'
      BY <1>1, <1>2, <3>1 DEF TypeOK
    <3>3. TakersOK'
      BY <1>1, <1>2, <3>1 DEF TakersOK, ShuttingDown
    <3>4. QED
      BY <3>2, <3>3
  <2>2. CASE CloseAwait
    <3>1. /\ closer.pc = "await" /\ flusher.pc = "done" /\ flusher' = flusher
          /\ closer'.pc = IF closer.taken = {} THEN "done" ELSE "commit"
          /\ closer'.taken = closer.taken
          /\ closer' = [closer EXCEPT !.pc = IF closer.taken = {} THEN "done" ELSE "commit"]
      BY <2>2 DEF CloseAwait, FlusherGone
    <3>2. TypeOK'
      BY <1>1, <1>2, <3>1 DEF TypeOK
    <3>3. TakersOK'
      BY <1>1, <1>2, <3>1 DEF TakersOK, ShuttingDown
    <3>4. QED
      BY <3>2, <3>3
  <2>3. QED
    BY <2>1, <2>2
<1>5. TableAccounting'
  BY <1>1, <1>2, <1>4, AccountsKept DEF TypeOK
<1>6. EntriesOK'
  BY <1>1, <1>2, EntriesKept
<1>7. QueueOK' /\ OrderOK'
  BY <1>1, <1>2 DEF QueueOK, OrderOK, Handing, Observed, Returned
<1>8. StreamsOK'
  <2>1. ASSUME NEW s \in Streams PROVE StreamOK(s)'
    <3>1. SameStream(s)
      BY <1>2 DEF SameStream, Observed
    <3>2. Smooth(s)' => Smooth(s)
      BY <1>2 DEF Smooth
    <3>3. QED
      BY <1>1, <3>1, <3>2, StreamKept DEF StreamsOK
  <2>2. QED
    BY <2>1 DEF StreamsOK
<1>9. CustodyOK'
  BY <1>1, <1>2, <1>3 DEF CustodyOK, Kept, Handing
<1>10. QED
  BY <1>4, <1>5, <1>6, <1>7, <1>8, <1>9 DEF IInv

\* Close takes all entries.
LEMMA CloseStartStep ==
  ASSUME IInv, CloseStart
  PROVE  IInv'
<1>1. TypeOK /\ TableAccounting /\ EntriesOK /\ TakersOK /\ QueueOK /\ OrderOK /\ StreamsOK /\ CustodyOK
  BY DEF IInv
<1>2. /\ closer.pc = "idle" /\ QueueDrained /\ closed' = TRUE
      /\ closer' = [pc |-> "await", taken |-> Held]
      /\ entries' = [k \in Keys |-> None] /\ bytes' = 0 /\ cut' = CutBy(Held, "closed")
  BY DEF CloseStart
<1>3. UNCHANGED <<queue, database, call, final, flusher, commits, doubled, switched>>
  BY DEF CloseStart
<1>4. /\ Held \subseteq Entry /\ \A k \in Keys : entries[k] # None => entries[k] \in Held
      /\ \A e \in Held : \E k \in Keys : e = entries[k] /\ entries[k] # None
  BY <1>1 DEF TypeOK, Held
<1>5. \A e \in Held : e.chunk.stream \in Streams
  BY <1>1, <1>4, EntryIs
<1>6. TypeOK'
  <2>1. cut' \in [Streams -> SUBSET {"evicted", "expired", "closed", "late"}]
    BY <1>1, <1>2, CutByIs
  <2>2. entries' \in [Keys -> Entry \cup {None}] /\ bytes' \in Int /\ closed' \in BOOLEAN
    <3>1. entries' \in [Keys -> Entry \cup {None}]
      BY <1>2
    <3>2. bytes' \in Int
      BY <1>2
    <3>3. closed' \in BOOLEAN
      BY <1>2
    <3>4. QED
      BY <3>1, <3>2, <3>3
  <2>3. closer' \in [pc : {"idle", "await", "commit", "done"}, taken : SUBSET Entry]
    BY <1>2, <1>4
  <2>4. QED
    BY <1>1, <1>3, <2>1, <2>2, <2>3 DEF TypeOK
<1>7. TableAccounting'
  <2>1. SizeOf(entries') = 0
    <3>1. entries' \in Slots /\ \A k \in Keys : entries'[k] = None
      BY <1>2 DEF Slots
    <3>2. QED
      BY <3>1, SizeOfBounds
  <2>2. In(Table)' = {}
    BY <1>2 DEF In, Table
  <2>3. Cardinality(In(Table)') = 0
    BY <2>2, FS_EmptySet
  <2>4. QED
    BY <1>2, <2>1, <2>3, ChunkAssumption DEF TableAccounting
<1>8. EntriesOK'
  BY <1>2 DEF EntriesOK
<1>9. TakersOK'
  <2>1. ASSUME NEW e \in flusher'.taken \cup closer'.taken
        PROVE  e.chunk.stream \in Streams /\ cut'[e.chunk.stream] # {}
    <3>1. CASE e \in Held
      BY <1>1, <1>2, <1>5, <3>1, CutByIs
    <3>2. CASE e \notin Held
      <4>1. e.chunk.stream \in Streams /\ cut[e.chunk.stream] # {}
        BY <1>1, <1>2, <1>3, <2>1, <3>2 DEF TakersOK
      <4>2. QED
        BY <1>1, <1>2, <4>1, CutByIs
    <3>3. QED
      BY <3>1, <3>2
  <2>2. QED
    BY <1>1, <1>2, <1>3, <2>1 DEF TakersOK, ShuttingDown
<1>10. QueueOK'
  BY <1>1, <1>2, <1>3 DEF QueueOK, QueueDrained, Handing
<1>11. OrderOK'
  BY <1>1, <1>3 DEF OrderOK, Observed, Returned
<1>12. StreamsOK'
  <2>1. ASSUME NEW s \in Streams PROVE StreamOK(s)'
    <3>1. StreamOK(s)
      BY <1>1 DEF StreamsOK
    <3>2. \A k \in Keys : entries'[k] = IF entries[k] \in Held THEN None ELSE entries[k]
      BY <1>2, <1>4
    <3>3. QED
      BY <1>1, <1>2, <1>3, <3>1, <3>2, TakenKeepsStream
  <2>2. QED
    BY <2>1 DEF StreamsOK
<1>13. CustodyOK'
  <2>1. ASSUME NEW s \in Streams, Kept(s) PROVE Kept(s)'
    <3>1. CASE \E k \in Keys : k[1] = s /\ entries[k] # None
      <4>1. PICK k \in Keys : k[1] = s /\ entries[k] # None
        BY <3>1
      <4>2. entries[k] \in closer'.taken /\ entries[k].chunk.stream = s
        BY <1>1, <1>2, <1>4, <4>1, EntryIs
      <4>3. QED
        BY <4>2 DEF Kept
    <3>2. CASE \E e \in flusher.taken \cup closer.taken : e.chunk.stream = s
      <4>1. closer.taken = {} /\ flusher'.taken = flusher.taken
        BY <1>1, <1>2, <1>3 DEF TakersOK
      <4>2. \E e \in flusher'.taken \cup closer'.taken : e.chunk.stream = s
        BY <3>2, <4>1
      <4>3. QED
        BY <4>2 DEF Kept
    <3>3. CASE cut[s] \cap {"evicted", "late"} # {}
      <4>1. cut[s] \subseteq cut'[s]
        BY <1>1, <1>2, CutByIs
      <4>2. QED
        BY <3>3, <4>1 DEF Kept
    <3>4. CASE commits[s] # <<>> \/ \E d \in Chunks : d.stream = s /\ Handing(d)
      BY <1>3, <3>4 DEF Kept, Handing
    <3>5. QED
      BY <2>1, <3>1, <3>2, <3>3, <3>4 DEF Kept
  <2>2. QED
    BY <1>1, <1>3, <2>1, CustodyKept
<1>14. QED
  BY <1>6, <1>7, <1>8, <1>9, <1>10, <1>11, <1>12, <1>13 DEF IInv

-----------------------------------------------------------------------------
(***************************************************************************)
(* Observing a chunk.                                                      *)
(***************************************************************************)
\* What the callbacks have made sure of when the tracker observes a chunk.
Ready(c, next) ==
  /\ call[c] \in {"none", "queued"} /\ ~FastPath(c)
  /\ next \in {"direct", "working"} /\ (next = "direct" => call[c] = "none")
  /\ \A d \in Earlier[c] : Returned(d)
  /\ ~switched => \A d \in Earlier[c] : call[d] \in {"done", "dropped"}
  /\ ~switched /\ ~database => next = "direct"

\* The calls after the critical section.
LEMMA SettleIs ==
  ASSUME TypeOK, OrderOK, NEW c \in Chunks, NEW next, Ready(c, next),
         NEW n \in Tokens, Settle(c, n, next),
         UNCHANGED <<switched, database>>
  PROVE  /\ \A d \in Chunks : call'[d] = IF d # c THEN call[d]
                                         ELSE IF n > 0 THEN next ELSE "done"
         /\ \A d \in Chunks : final'[d] = IF d = c THEN n ELSE final[d]
         /\ call' \in [Chunks -> {"none", "queued", "working", "direct", "done", "dropped"}]
         /\ final' \in [Chunks -> Tokens]
         /\ \A d \in Chunks : call[d] = "done" => call'[d] = "done"
         /\ Observed(c)' /\ OrderOK'
<1> DEFINE p == IF n > 0 THEN next ELSE "done"
<1>1. call' = [call EXCEPT ![c] = p] /\ final' = [final EXCEPT ![c] = n]
  BY DEF Settle
<1>2. p \in {"direct", "working", "done"} /\ (p = "direct" => call[c] = "none")
  BY DEF Ready
<1>3. call[c] \notin {"done", "dropped"} /\ \A d \in Earlier[c] : Returned(d)
  BY DEF Ready
<1>4. ~switched => \A d \in Earlier[c] : call[d] \in {"done", "dropped"}
  BY DEF Ready
<1>5. ~switched /\ ~database => p \in {"direct", "done"}
  BY DEF Ready
<1>6. \A d \in Chunks : call'[d] = IF d # c THEN call[d] ELSE p
  BY <1>1 DEF TypeOK
<1>7. \A d \in Chunks : final'[d] = IF d = c THEN n ELSE final[d]
  BY <1>1 DEF TypeOK
<1> HIDE DEF p
<1>8. OrderOK'
  BY <1>1, <1>2, <1>3, <1>4, <1>5, OrderKept
<1>9. call' \in [Chunks -> {"none", "queued", "working", "direct", "done", "dropped"}]
  BY <1>1, <1>2 DEF TypeOK
<1>10. final' \in [Chunks -> Tokens]
  BY <1>1 DEF TypeOK
<1>11. Observed(c)' /\ \A d \in Chunks : call[d] = "done" => call'[d] = "done"
  BY <1>2, <1>3, <1>6 DEF Observed
<1>12. QED
  BY <1>6, <1>7, <1>8, <1>9, <1>10, <1>11 DEF p

\* A stream to which the observed chunk does not belong: its entries stay, or
\* it was cut.
LEMMA OtherStream ==
  ASSUME TypeOK, OrderOK, NEW c \in Chunks, NEW next, Ready(c, next),
         NEW n \in Tokens, Settle(c, n, next),
         UNCHANGED <<switched, database, commits>>,
         NEW s \in Streams, s # c.stream, StreamOK(s),
         cut[s] \subseteq cut'[s],
         cut'[s] = {} => \A k \in Keys : k[1] = s => entries'[k] = entries[k]
  PROVE  StreamOK(s)'
<1>1. CASE Smooth(s)'
  <2>1. Smooth(s)
    BY <1>1 DEF Smooth
  <2>2. \A k \in Keys : k[1] = s => entries'[k] = entries[k]
    BY <1>1 DEF Smooth
  <2>3. \A d \in Chunks : d.stream = s => call'[d] = call[d] /\ final'[d] = final[d]
    BY SettleIs
  <2>4. SameStream(s)
    BY <2>2, <2>3 DEF SameStream, Observed
  <2>5. QED
    BY <2>1, <2>4, StreamKept
<1>2. CASE ~Smooth(s)'
  BY <1>2 DEF StreamOK
<1>3. QED
  BY <1>1, <1>2

\* In a smooth stream a chunk that is about to be observed comes after all
\* that matter and were observed, and the stream has not ended.
LEMMA ComesNext ==
  ASSUME TypeOK, EntriesOK, OrderOK, NEW c \in Chunks, NEW next, Ready(c, next),
         ~switched, Orderly(c.stream)
  PROVE  /\ \A d \in Chunks : d.stream = c.stream /\ ~FastPath(d) /\ Observed(d) =>
              d \in Earlier[c] /\ ~d.terminal
         /\ ~Ended(c.stream)
<1>1. ASSUME NEW d \in Chunks, d.stream = c.stream, ~FastPath(d), Observed(d)
      PROVE  d \in Earlier[c] /\ ~d.terminal
  <2>1. d # c
    BY <1>1 DEF Ready, Observed
  <2>2. c \notin Earlier[d]
    BY <1>1 DEF OrderOK, Ready
  <2>3. d \in Earlier[c]
    BY <1>1, <2>1, <2>2, EarlierIs
  <2>4. ~d.terminal
    BY <1>1, <2>3, EarlierIs DEF Orderly
  <2>5. QED
    BY <2>3, <2>4
<1>2. QED
  BY <1>1 DEF Ended, FastPath

\* The part of the invariant that does not read the queue.
ObservedInv ==
  /\ TypeOK /\ TableAccounting /\ EntriesOK /\ TakersOK /\ OrderOK /\ StreamsOK /\ CustodyOK

\* How an observation moves the calls.
Advanced(c, next) ==
  /\ \A d \in Chunks : d # c => call'[d] = call[d]
  /\ call'[c] \in {next, "done"}
  /\ call'[c] = next => c.stream = None \/ c.terminal

\* A chunk without a stream.
LEMMA UncorrelatedStep ==
  ASSUME IInv, NEW c \in Chunks, NEW next, Ready(c, next), ObserveUncorrelated(c, next),
         UNCHANGED <<closed, database, flusher, closer, commits, switched>>,
         queue' \in Seq(Chunks)
  PROVE  ObservedInv' /\ Advanced(c, next)
<1>1. TypeOK /\ TableAccounting /\ EntriesOK /\ TakersOK /\ OrderOK /\ StreamsOK /\ CustodyOK
  BY DEF IInv
<1>2. /\ c.stream = None /\ Settle(c, TokensOf[c], next)
      /\ UNCHANGED <<entries, bytes, cut, doubled>> /\ TokensOf[c] \in Tokens
  BY TokensTyped DEF ObserveUncorrelated
<1>3. /\ \A d \in Chunks : call'[d] = IF d # c THEN call[d]
                                      ELSE IF TokensOf[c] > 0 THEN next ELSE "done"
      /\ call' \in [Chunks -> {"none", "queued", "working", "direct", "done", "dropped"}]
      /\ final' \in [Chunks -> Tokens]
      /\ \A d \in Chunks : call[d] = "done" => call'[d] = "done"
      /\ OrderOK'
  BY <1>1, <1>2, SettleIs
<1>4. TypeOK'
  BY <1>1, <1>2, <1>3 DEF TypeOK
<1>5. TableAccounting'
  BY <1>1, <1>2, <1>4, AccountsKept DEF TypeOK
<1>6. EntriesOK'
  BY <1>1, <1>2, <1>3, EntriesKept
<1>7. TakersOK'
  BY <1>1, <1>2, TakersKept DEF TakersOK
<1>8. StreamsOK'
  <2>1. ASSUME NEW s \in Streams PROVE StreamOK(s)'
    <3>1. s # c.stream
      BY <1>2 DEF Streams
    <3>2. StreamOK(s)
      BY <1>1 DEF StreamsOK
    <3>3. QED
      BY <1>1, <1>2, <3>1, <3>2, OtherStream
  <2>2. QED
    BY <2>1 DEF StreamsOK
<1>9. CustodyOK'
  <2>1. \A d \in Chunks : d # c => call'[d] = call[d]
    BY <1>3
  <2>2. \A s \in Streams : Kept(s) => Kept(s)'
    BY <1>2, <2>1 DEF Kept, Handing, Ready
  <2>3. QED
    BY <1>1, <1>2, <2>1, <2>2, CustodyKept
<1>10. Advanced(c, next)
  BY <1>2, <1>3 DEF Advanced
<1>11. QED
  BY <1>3, <1>4, <1>5, <1>6, <1>7, <1>8, <1>9, <1>10 DEF ObservedInv

\* The keys of an orderly stream are one.
LEMMA OneKey ==
  ASSUME NEW c \in Chunks, Orderly(c.stream), NEW k \in Keys, k[1] = c.stream
  PROVE  k = KeyOf(c)
<1>1. PICK d \in Chunks : k = KeyOf(d)
  BY DEF Keys, KeyOf
<1>2. d.stream = c.stream
  BY <1>1 DEF KeyOf
<1>3. QED
  BY <1>1, <1>2 DEF Orderly, KeyOf

\* What the end of a stream has in hand, n, when it leaves the table as said:
\* something if there was anything, and in a smooth stream the latest usage.
EndTakes(c, n) ==
  /\ \A k \in Keys : \/ entries'[k] = entries[k]
                     \/ entries'[k] = None /\ k[1] = c.stream
  /\ (\E k \in Keys : k[1] = c.stream /\ entries[k] # None) \/ TokensOf[c] > 0 => n > 0
  /\ Smooth(c.stream) =>
       /\ \A k \in Keys : k[1] = c.stream => entries'[k] = None
       /\ LatestUsage(c) = IF n > 0 THEN <<n>> ELSE <<>>

\* The invariant when a terminal chunk has been observed.
LEMMA EndStep ==
  ASSUME IInv, NEW c \in Chunks, NEW next, Ready(c, next), c.stream # None, c.terminal,
         NEW n \in Tokens, Settle(c, n, next), EndTakes(c, n),
         entries' \in [Keys -> Entry \cup {None}], bytes' \in Int, TableAccounting',
         UNCHANGED <<closed, database, flusher, closer, commits, switched, cut, doubled>>,
         queue' \in Seq(Chunks)
  PROVE  ObservedInv' /\ Advanced(c, next)
<1>1. TypeOK /\ TableAccounting /\ EntriesOK /\ TakersOK /\ OrderOK /\ StreamsOK /\ CustodyOK
  BY DEF IInv
<1>2. \A k \in Keys : \/ entries'[k] = entries[k]
                      \/ entries'[k] = None /\ k[1] = c.stream
  BY DEF EndTakes
<1>3. /\ \A d \in Chunks : call'[d] = IF d # c THEN call[d]
                                      ELSE IF n > 0 THEN next ELSE "done"
      /\ \A d \in Chunks : final'[d] = IF d = c THEN n ELSE final[d]
      /\ call' \in [Chunks -> {"none", "queued", "working", "direct", "done", "dropped"}]
      /\ final' \in [Chunks -> Tokens]
      /\ \A d \in Chunks : call[d] = "done" => call'[d] = "done"
      /\ Observed(c)' /\ OrderOK'
  BY <1>1, SettleIs
<1>4. TypeOK'
  BY <1>1, <1>3 DEF TypeOK
<1>5. EntriesOK'
  BY <1>1, <1>2, <1>3, EntriesKept
<1>6. TakersOK'
  <2>1. closed => \A k \in Keys : entries'[k] = None
    BY <1>1, <1>2 DEF TakersOK
  <2>2. QED
    BY <1>1, <2>1, TakersKept
<1>7. c.stream \in Streams
  BY ChunkFacts
<1>8. StreamsOK'
  <2>1. ASSUME NEW s \in Streams, s # c.stream PROVE StreamOK(s)'
    <3>1. StreamOK(s)
      BY <1>1 DEF StreamsOK
    <3>2. \A k \in Keys : k[1] = s => entries'[k] = entries[k]
      BY <1>2, <2>1
    <3>3. QED
      BY <1>1, <2>1, <3>1, <3>2, OtherStream
  <2>2. StreamOK(c.stream)'
    <3>1. SUFFICES ASSUME Smooth(c.stream)'
          PROVE /\ Ended(c.stream)'
                /\ \A d \in Chunks : d.stream = c.stream /\ d.terminal /\ Observed(d)'
                                       => EndedOK(d)'
      BY DEF StreamOK
    <3>2. Smooth(c.stream)
      BY <3>1 DEF Smooth
    <3>3. ~Ended(c.stream) /\ OpenOK(c.stream)
      <4>1. ~Ended(c.stream)
        BY <1>1, <3>2, ComesNext DEF Smooth
      <4>2. QED
        BY <1>1, <1>7, <3>2, <4>1 DEF StreamsOK, StreamOK
    <3>4. /\ \A k \in Keys : k[1] = c.stream => entries'[k] = None
          /\ LatestUsage(c) = IF n > 0 THEN <<n>> ELSE <<>>
      BY <3>2 DEF EndTakes
    <3>5. commits'[c.stream] = <<>>
      BY <3>3 DEF OpenOK
    <3>6. IF call'[c] = "done" THEN commits'[c.stream] = LatestUsage(c)
          ELSE commits'[c.stream] = <<>> /\ LatestUsage(c) = <<final'[c]>>
      <4>1. n > 0 => call'[c] = next /\ next # "done"
        BY <1>3 DEF Ready
      <4>2. ~(n > 0) => call'[c] = "done"
        BY <1>3
      <4>3. final'[c] = n
        BY <1>3
      <4>4. CASE n > 0
        BY <3>4, <3>5, <4>1, <4>3, <4>4
      <4>5. CASE ~(n > 0)
        BY <3>4, <3>5, <4>2, <4>5
      <4>6. QED
        BY <4>4, <4>5
    <3>7. EndedOK(c)'
      <4>1. LatestUsage(c)' = LatestUsage(c)
        <5>1. \A d \in Earlier[c] : d \in Chunks /\ d # c
          BY ChunkFacts DEF Earlier
        <5>2. QED
          BY <1>3, <5>1, LatestKept
      <4>2. QED
        BY <3>4, <3>6, <4>1 DEF EndedOK
    <3>8. \A d \in Chunks : d.stream = c.stream /\ d.terminal => d = c
      BY <3>2, OneEnd DEF Smooth
    <3>9. QED
      BY <1>3, <3>7, <3>8 DEF Ended
  <2>3. QED
    BY <2>1, <2>2 DEF StreamsOK
<1>9. CustodyOK'
  <2>1. \A d \in Chunks : d # c => call'[d] = call[d]
    BY <1>3
  <2>2. n > 0 => Handing(c)'
    BY <1>3 DEF Ready, Handing
  <2>3. ASSUME NEW s \in Streams, Kept(s) PROVE Kept(s)'
    <3>1. CASE \E k \in Keys : k[1] = s /\ entries[k] # None
      <4>1. PICK k \in Keys : k[1] = s /\ entries[k] # None
        BY <3>1
      <4>2. CASE entries'[k] = entries[k]
        BY <4>1, <4>2 DEF Kept
      <4>3. CASE entries'[k] # entries[k]
        <5>1. s = c.stream
          BY <1>2, <4>1, <4>3
        <5>2. n > 0
          BY <4>1, <5>1 DEF EndTakes
        <5>3. QED
          BY <2>2, <5>1, <5>2 DEF Kept
      <4>4. QED
        BY <4>2, <4>3
    <3>2. CASE ~\E k \in Keys : k[1] = s /\ entries[k] # None
      BY <2>1, <2>3, <3>2 DEF Kept, Handing, Ready
    <3>3. QED
      BY <3>1, <3>2
  <2>4. Usable(c) => Kept(c.stream)'
    <3>1. Usable(c) => n > 0
      BY DEF EndTakes, Usable
    <3>2. QED
      BY <2>2, <3>1 DEF Kept
  <2>5. QED
    BY <1>1, <2>1, <2>3, <2>4, CustodyKept
<1>10. Advanced(c, next)
  BY <1>3 DEF Advanced
<1>11. QED
  BY <1>3, <1>4, <1>5, <1>6, <1>8, <1>9, <1>10 DEF ObservedInv

\* In a smooth stream what the end of the stream finds decides its usage.
LEMMA EndFinds ==
  ASSUME IInv, NEW c \in Chunks, NEW next, Ready(c, next), c.stream # None, c.terminal,
         Smooth(c.stream)
  PROVE  /\ (\A k \in Keys : k[1] = c.stream => entries[k] = None) =>
              LatestUsage(c) = IF TokensOf[c] > 0 THEN <<TokensOf[c]>> ELSE <<>>
         /\ \A k \in Keys : k[1] = c.stream /\ entries[k] # None =>
              LatestUsage(c) = <<TerminalTokens(c, entries[k])>>
<1>1. TypeOK /\ EntriesOK /\ OrderOK /\ StreamsOK
  BY DEF IInv
<1>2. c.stream \in Streams /\ TokensOf[c] \in Nat /\ c.index \in Nat
  BY ChunkFacts, TokensTyped
<1>3. Orderly(c.stream) /\ ~switched
  BY DEF Smooth
<1>4. /\ \A d \in Chunks : d.stream = c.stream /\ ~FastPath(d) /\ Observed(d) => d \in Earlier[c]
      /\ ~Ended(c.stream)
  BY <1>1, <1>3, ComesNext
<1>5. OpenOK(c.stream)
  BY <1>1, <1>2, <1>4 DEF StreamsOK, StreamOK
<1> DEFINE sources == {d \in Earlier[c] : Usable(d) /\ call[d] # "dropped"}
<1>6. LatestUsage(c) = IF TokensOf[c] > 0 THEN <<TokensOf[c]>>
                       ELSE IF sources = {} THEN <<>> ELSE <<TokensOf[Newest(sources)]>>
  BY DEF LatestUsage
<1>7. ASSUME NEW d \in sources
      PROVE  /\ d \in Chunks /\ d.stream = c.stream /\ KeyOf(d) = KeyOf(c)
             /\ entries[KeyOf(d)] # None /\ d.position <= entries[KeyOf(d)].chunk.position
  <2>1. /\ d \in Chunks /\ d.stream = c.stream /\ Usable(d) /\ d \in Earlier[c]
        /\ call[d] # "dropped"
    BY DEF Earlier
  <2>2. Observed(d)
    BY <1>3, <2>1 DEF Ready, Observed
  <2>3. KeyOf(d) \in Keys /\ KeyOf(d)[1] = c.stream
    BY <2>1, ChunkFacts
  <2>4. KeyOf(d) = KeyOf(c)
    BY <1>3, <2>3, OneKey
  <2>5. QED
    BY <1>5, <2>1, <2>2, <2>4 DEF OpenOK
<1> HIDE DEF sources
<1>8. KeyOf(c) \in Keys /\ KeyOf(c)[1] = c.stream
  BY ChunkFacts
<1>9. ASSUME \A k \in Keys : k[1] = c.stream => entries[k] = None
      PROVE  LatestUsage(c) = IF TokensOf[c] > 0 THEN <<TokensOf[c]>> ELSE <<>>
  <2>1. sources = {}
    BY <1>7, <1>8, <1>9
  <2>2. QED
    BY <1>6, <2>1
<1>10. ASSUME NEW k \in Keys, k[1] = c.stream, entries[k] # None
       PROVE  LatestUsage(c) = <<TerminalTokens(c, entries[k])>>
  <2>1. k = KeyOf(c)
    BY <1>3, <1>10, OneKey
  <2> DEFINE d0 == entries[k].chunk
  <2>2. /\ d0 \in Chunks /\ d0.stream = c.stream /\ Usable(d0) /\ call[d0] = "done"
        /\ entries[k].tokens = TokensOf[d0]
    BY <1>1, <1>10, EntryIs
  <2> HIDE DEF d0
  <2>3. d0 \in Earlier[c]
    BY <1>4, <2>2 DEF Usable, FastPath, Observed
  <2>4. d0 \in sources
    BY <2>2, <2>3 DEF sources
  <2>5. sources \in SUBSET Chunks /\ \A e \in sources : e.stream = d0.stream /\ e.position <= d0.position
    BY <1>7, <2>1, <2>2 DEF d0
  <2>6. Newest(sources) = d0
    BY <2>4, <2>5, NewestIsUnique
  <2>7. CASE TokensOf[c] = 0
    <3>1. TerminalTokens(c, entries[k]) = TokensOf[d0]
      BY <2>2, <2>7 DEF TerminalTokens
    <3>2. QED
      BY <1>6, <2>4, <2>6, <2>7, <3>1
  <2>8. CASE TokensOf[c] # 0
    <3>1. c.index = 0 \/ d0.index <= c.index
      BY <1>3, <2>2, <2>3, EarlierIs DEF Orderly
    <3>2. d0.index \in Nat
      BY <2>2, ChunkFacts
    <3>3. ~(c.index > 0 /\ d0.index > c.index)
      BY <1>2, <3>1, <3>2
    <3>4. TerminalTokens(c, entries[k]) = TokensOf[c]
      BY <2>8, <3>3 DEF TerminalTokens, d0
    <3>5. QED
      BY <1>2, <1>6, <2>8, <3>4
  <2>9. QED
    BY <2>7, <2>8
<1>11. QED
  BY <1>9, <1>10

\* What is in hand is a token count, and something if there was any.
LEMMA TerminalTokensTyped ==
  ASSUME TypeOK, EntriesOK, NEW c \in Chunks, NEW k \in Keys, entries[k] # None
  PROVE  TerminalTokens(c, entries[k]) \in Tokens /\ TerminalTokens(c, entries[k]) > 0
<1>1. entries[k].tokens = TokensOf[entries[k].chunk] /\ Usable(entries[k].chunk)
      /\ entries[k].chunk \in Chunks
  BY EntryIs
<1>2. entries[k].tokens \in Tokens /\ entries[k].tokens > 0
  BY <1>1, TokensTyped DEF Usable
<1>3. TokensOf[c] \in Tokens /\ TokensOf[c] \in Nat
  BY TokensTyped
<1>4. QED
  BY <1>2, <1>3 DEF TerminalTokens

\* A terminal chunk.
LEMMA TerminalStep ==
  ASSUME IInv, NEW c \in Chunks, NEW next, Ready(c, next), ObserveTerminal(c, next),
         UNCHANGED <<closed, database, flusher, closer, commits, switched>>,
         queue' \in Seq(Chunks)
  PROVE  ObservedInv' /\ Advanced(c, next)
<1>1. TypeOK /\ TableAccounting /\ EntriesOK
  BY DEF IInv
<1>2. c.stream # None /\ c.terminal /\ UNCHANGED <<cut, doubled>>
  BY DEF ObserveTerminal
<1>3. KeyOf(c) \in Keys /\ KeyOf(c)[1] = c.stream /\ TokensOf[c] \in Tokens /\ TokensOf[c] \in Nat
  BY <1>2, ChunkFacts, TokensTyped
<1>4. Found(c) = {} <=> \A k \in Keys : k[1] = c.stream => entries[k] = None
  BY <1>3 DEF Found
<1>5. \A k \in Found(c) : k \in Keys /\ entries[k] # None /\ k[1] = c.stream
  BY <1>3 DEF Found
<1>6. CASE Found(c) = {} /\ Settle(c, TokensOf[c], next) /\ UNCHANGED <<entries, bytes>>
  <2>1. EndTakes(c, TokensOf[c])
    BY <1>2, <1>4, <1>6, EndFinds DEF EndTakes
  <2>2. entries' \in [Keys -> Entry \cup {None}] /\ bytes' \in Int
    BY <1>1, <1>6 DEF TypeOK
  <2>3. TableAccounting'
    BY <1>1, <1>2, <1>6, <2>2, AccountsKept
  <2>4. QED
    BY <1>2, <1>3, <1>6, <2>1, <2>2, <2>3, EndStep
<1>7. ASSUME NEW k \in Found(c), Settle(c, TerminalTokens(c, entries[k]), next),
             entries' = Without(Table, k).entries, bytes' = Without(Table, k).bytes
      PROVE  ObservedInv' /\ Advanced(c, next)
  <2> DEFINE n == TerminalTokens(c, entries[k])
  <2>1. k \in Keys /\ entries[k] # None /\ k[1] = c.stream
    BY <1>5
  <2>2. n \in Tokens /\ n > 0
    BY <1>1, <2>1, TerminalTokensTyped
  <2>3. Table \in Tables /\ k \in In(Table) /\ Table.entries = entries /\ Table.bytes = bytes
    <3>1. Table \in Tables /\ Table.entries = entries /\ Table.bytes = bytes
      BY <1>1, TableTyped
    <3>2. QED
      BY <2>1, <3>1 DEF In
  <2> DEFINE s == entries[k].chunk.size
  <2>4. /\ Without(Table, k) \in Tables
        /\ entries' = [entries EXCEPT ![k] = None]
        /\ bytes' = (IF s > bytes THEN 0 ELSE bytes - s)
        /\ In(Without(Table, k)) = In(Table) \ {k}
        /\ Cardinality(In(Without(Table, k))) = Cardinality(In(Table)) - 1
        /\ SizeOf(entries') = SizeOf(entries) - s
        /\ s \in Nat
    BY <1>7, <2>3, WithoutIs, InIs
  <2>5. entries' \in [Keys -> Entry \cup {None}] /\ bytes' \in Int
    BY <1>7, <2>4 DEF Tables, Slots
  <2> HIDE DEF s
  <2>6. TableAccounting'
    <3>1. SizeOf(entries) \in Nat /\ SizeOf(entries') \in Nat /\ bytes \in Int
      BY <1>1, <2>5, TableTyped, SizesTyped DEF TypeOK, Slots
    <3>2. In(Table)' = In(Without(Table, k))
      BY <1>7 DEF In, Table
    <3>3. Cardinality(In(Table)) \in Nat
      BY InIsFinite
    <3>4. Cardinality(In(Table)') <= MaxStreams
      BY <1>1, <2>4, <3>2, <3>3, ChunkAssumption DEF TableAccounting
    <3>5. bytes' <= SizeOf(entries')
      BY <1>1, <2>4, <3>1 DEF TableAccounting
    <3>6. ~doubled => bytes' = SizeOf(entries') /\ bytes' <= MaxBytes
      BY <1>1, <2>4, <3>1, ChunkAssumption DEF TableAccounting
    <3>7. QED
      BY <1>2, <3>4, <3>5, <3>6 DEF TableAccounting
  <2>7. EndTakes(c, n)
    <3>1. \A l \in Keys : entries'[l] = IF l = k THEN None ELSE entries[l]
      BY <1>1, <2>4 DEF TypeOK
    <3>2. ASSUME Smooth(c.stream)
          PROVE  /\ \A l \in Keys : l[1] = c.stream => entries'[l] = None
                 /\ LatestUsage(c) = IF n > 0 THEN <<n>> ELSE <<>>
      <4>1. \A l \in Keys : l[1] = c.stream => l = k
        BY <2>1, <3>2, OneKey DEF Smooth
      <4>2. LatestUsage(c) = <<n>>
        BY <1>2, <2>1, <3>2, EndFinds
      <4>3. QED
        BY <2>2, <3>1, <4>1, <4>2
    <3> HIDE DEF n
    <3>3. QED
      BY <2>1, <2>2, <3>1, <3>2 DEF EndTakes
  <2> HIDE DEF n
  <2>8. Settle(c, n, next)
    BY <1>7 DEF n
  <2>9. QED
    BY <1>2, <2>2, <2>5, <2>6, <2>7, <2>8, EndStep
<1>8. QED
  BY <1>6, <1>7 DEF ObserveTerminal

\* What a running chunk leaves: it is stored and others may have been evicted
\* for it, or the table stays and there was a reason.
Stores(c) ==
  /\ Usable(c) /\ ~closed
  /\ entries'[KeyOf(c)] = [chunk |-> c, tokens |-> TokensOf[c], age |-> 0]
  /\ \A l \in Keys : l # KeyOf(c) =>
       \/ entries'[l] = entries[l]
       \/ entries'[l] = None /\ "evicted" \in cut'[l[1]]
Refuses(c) ==
  /\ entries' = entries
  /\ Usable(c) => Stale(c) \/ "late" \in cut'[c.stream]

\* The invariant when a running chunk has been observed.
LEMMA RunStep ==
  ASSUME IInv, NEW c \in Chunks, NEW next, Ready(c, next), c.stream # None, ~c.terminal,
         Settle(c, 0, next) \/ Settle(c, 0, "done"), Stores(c) \/ Refuses(c),
         entries' \in [Keys -> Entry \cup {None}], bytes' \in Int, doubled' \in BOOLEAN,
         cut' \in [Streams -> SUBSET {"evicted", "expired", "closed", "late"}],
         \A s \in Streams : cut[s] \subseteq cut'[s],
         TableAccounting',
         UNCHANGED <<closed, database, flusher, closer, commits, switched>>,
         queue' \in Seq(Chunks)
  PROVE  ObservedInv' /\ Advanced(c, next)
<1>1. TypeOK /\ TableAccounting /\ EntriesOK /\ TakersOK /\ OrderOK /\ StreamsOK /\ CustodyOK
  BY DEF IInv
<1>2. 0 \in Tokens /\ Settle(c, 0, next)
  BY TokensAreNat DEF Settle
<1>3. /\ \A d \in Chunks : call'[d] = IF d # c THEN call[d] ELSE "done"
      /\ call' \in [Chunks -> {"none", "queued", "working", "direct", "done", "dropped"}]
      /\ final' \in [Chunks -> Tokens]
      /\ \A d \in Chunks : call[d] = "done" => call'[d] = "done"
      /\ Observed(c)' /\ OrderOK'
  BY <1>1, <1>2, SettleIs
<1>4. c.stream \in Streams /\ KeyOf(c) \in Keys /\ KeyOf(c)[1] = c.stream
  BY ChunkFacts
<1>5. Stores(c) =>
        /\ entries'[KeyOf(c)] # None /\ entries'[KeyOf(c)].chunk = c
        /\ entries'[KeyOf(c)].tokens = TokensOf[c]
  <2>1. TokensOf[c] \in Tokens /\ 0 \in 0..TTL
    BY TokensTyped, ChunkAssumption
  <2>2. [chunk |-> c, tokens |-> TokensOf[c], age |-> 0] \in Entry
    BY <2>1, EntryFacts
  <2>3. QED
    BY <2>2, EntryFacts DEF Stores
<1>6. TypeOK'
  BY <1>1, <1>3 DEF TypeOK
<1>7. EntriesOK'
  <2>1. CASE Refuses(c)
    BY <1>1, <1>3, <2>1, EntriesKept DEF Refuses
  <2>2. CASE Stores(c)
    <3>1. ASSUME NEW l \in Keys, entries'[l] # None
          PROVE  /\ KeyOf(entries'[l].chunk) = l /\ ~entries'[l].chunk.terminal
                 /\ Usable(entries'[l].chunk) /\ call'[entries'[l].chunk] = "done"
                 /\ entries'[l].tokens = TokensOf[entries'[l].chunk]
      <4>1. CASE l = KeyOf(c)
        <5>1. Usable(c) /\ call'[c] = "done"
          BY <1>3, <2>2 DEF Stores
        <5>2. QED
          BY <1>5, <2>2, <4>1, <5>1
      <4>2. CASE l # KeyOf(c)
        <5>1. entries'[l] = entries[l]
          BY <2>2, <3>1, <4>2 DEF Stores
        <5>2. QED
          BY <1>1, <1>3, <3>1, <5>1, EntryIs
      <4>3. QED
        BY <4>1, <4>2
    <3>2. QED
      BY <3>1 DEF EntriesOK
  <2>3. QED
    BY <2>1, <2>2
<1>8. TakersOK'
  <2>1. closed => \A k \in Keys : entries'[k] = None
    BY <1>1 DEF TakersOK, Stores, Refuses
  <2>2. \A s \in Streams : cut[s] # {} => cut'[s] # {}
    OBVIOUS
  <2>3. QED
    BY <1>1, <2>1, <2>2, TakersKept
<1>9. StreamsOK'
  <2>1. ASSUME NEW s \in Streams, s # c.stream PROVE StreamOK(s)'
    <3>1. StreamOK(s)
      BY <1>1 DEF StreamsOK
    <3>2. cut'[s] = {} => \A k \in Keys : k[1] = s => entries'[k] = entries[k]
      BY <1>4, <2>1 DEF Stores, Refuses
    <3>3. QED
      BY <1>1, <1>2, <2>1, <3>1, <3>2, OtherStream
  <2>2. StreamOK(c.stream)'
    <3>1. SUFFICES ASSUME Smooth(c.stream)'
          PROVE  ~Ended(c.stream)' /\ OpenOK(c.stream)'
      BY DEF StreamOK, Ended
    <3>2. Smooth(c.stream) /\ Orderly(c.stream) /\ ~switched /\ cut'[c.stream] = {}
      BY <1>4, <3>1 DEF Smooth
    <3>3. /\ \A d \in Chunks : d.stream = c.stream /\ ~FastPath(d) /\ Observed(d)
                                 => d \in Earlier[c]
          /\ ~Ended(c.stream)
      BY <1>1, <3>2, ComesNext
    <3>4. OpenOK(c.stream)
      BY <1>1, <1>4, <3>2, <3>3 DEF StreamsOK, StreamOK
    <3>5. \A d \in Chunks : d # c => (Observed(d)' <=> Observed(d))
      BY <1>3 DEF Observed
    <3>6. ~Ended(c.stream)'
      BY <3>3, <3>5 DEF Ended
    <3>7. ~Stale(c)
      <4>1. SUFFICES ASSUME entries[KeyOf(c)] # None
            PROVE c.index = 0 \/ ~(entries[KeyOf(c)].chunk.index > c.index)
        BY <1>4, ChunkFacts DEF Stale
      <4> DEFINE e == entries[KeyOf(c)].chunk
      <4>2. e \in Chunks /\ e.stream = c.stream /\ Usable(e) /\ call[e] = "done"
        BY <1>1, <1>4, <4>1, EntryIs
      <4> HIDE DEF e
      <4>3. e \in Earlier[c]
        BY <3>3, <4>2 DEF Usable, FastPath, Observed
      <4>4. c.index = 0 \/ e.index <= c.index
        BY <3>2, <4>2, <4>3, EarlierIs DEF Orderly
      <4>5. QED
        BY <4>2, <4>4, ChunkFacts DEF e
    <3>8. ASSUME NEW d \in Chunks, d.stream = c.stream, Usable(d), Observed(d)'
          PROVE  entries'[KeyOf(d)] # None /\ d.position <= entries'[KeyOf(d)].chunk.position
      <4>1. KeyOf(d) = KeyOf(c)
        BY <3>2, <3>8, ChunkFacts, OneKey
      <4>2. CASE Refuses(c)
        <5>1. ~Usable(c)
          BY <3>2, <3>7, <4>2 DEF Refuses
        <5>2. Observed(d)
          BY <3>5, <3>8, <5>1
        <5>3. QED
          BY <3>4, <3>8, <4>2, <5>2 DEF OpenOK, Refuses
      <4>3. CASE Stores(c)
        <5>1. d.position <= c.position
          <6>1. CASE d = c
            BY <6>1, ChunkFacts
          <6>2. CASE d # c
            <7>1. d \in Earlier[c]
              BY <3>3, <3>5, <3>8, <6>2 DEF Usable, FastPath
            <7>2. QED
              BY <7>1, EarlierIs, ChunkFacts
          <6>3. QED
            BY <6>1, <6>2
        <5>2. QED
          BY <1>5, <4>1, <4>3, <5>1
      <4>4. QED
        BY <4>2, <4>3
    <3>9. commits'[c.stream] = <<>>
      BY <3>4 DEF OpenOK
    <3>10. QED
      BY <3>6, <3>8, <3>9 DEF OpenOK
  <2>3. QED
    BY <2>1, <2>2 DEF StreamsOK
<1>10. CustodyOK'
  <2>1. \A d \in Chunks : d # c => call'[d] = call[d]
    BY <1>3
  <2>2. ASSUME NEW s \in Streams, Kept(s) PROVE Kept(s)'
    <3>1. CASE \E k \in Keys : k[1] = s /\ entries[k] # None
      <4>1. PICK k \in Keys : k[1] = s /\ entries[k] # None
        BY <3>1
      <4>2. CASE entries'[k] # None
        BY <4>1, <4>2 DEF Kept
      <4>3. CASE entries'[k] = None
        <5>1. "evicted" \in cut'[s]
          BY <1>5, <4>1, <4>3 DEF Stores, Refuses
        <5>2. QED
          BY <5>1 DEF Kept
      <4>4. QED
        BY <4>2, <4>3
    <3>2. CASE cut[s] \cap {"evicted", "late"} # {}
      <4>1. cut'[s] \cap {"evicted", "late"} # {}
        BY <3>2
      <4>2. QED
        BY <4>1 DEF Kept
    <3>3. CASE /\ ~\E k \in Keys : k[1] = s /\ entries[k] # None
               /\ ~(cut[s] \cap {"evicted", "late"} # {})
      BY <2>1, <2>2, <3>3 DEF Kept, Handing, Ready
    <3>4. QED
      BY <3>1, <3>2, <3>3
  <2>3. Usable(c) => Kept(c.stream)'
    <3>1. CASE Stores(c)
      BY <1>4, <1>5, <3>1 DEF Kept
    <3>2. CASE Refuses(c)
      <4>1. Stale(c) => entries[KeyOf(c)] # None
        BY DEF Stale
      <4>2. QED
        BY <1>4, <3>2, <4>1 DEF Kept, Refuses
    <3>3. QED
      BY <3>1, <3>2
  <2>4. QED
    BY <1>1, <2>1, <2>2, <2>3, CustodyKept
<1>11. Advanced(c, next)
  BY <1>3 DEF Advanced, Ready
<1>12. QED
  BY <1>3, <1>6, <1>7, <1>8, <1>9, <1>10, <1>11 DEF ObservedInv

\* The table in which room is made: the bytes of the entry that is replaced are
\* no longer counted.
Cleared(c) == [Table EXCEPT !.bytes = Replaced(c)]

\* It has the entries of the table, and its bytes are those of the other
\* entries unless an update has evicted the entry it replaces.
LEMMA ClearedIs ==
  ASSUME TypeOK, TableAccounting, NEW c \in Chunks, c.stream # None
  PROVE  /\ Cleared(c) \in Tables /\ Cleared(c).entries = entries
         /\ In(Cleared(c)) = In(Table)
         /\ EvictionOf(Cleared(c), Cleared(c), KeyOf(c))
         /\ ~doubled => Cleared(c).bytes = Weight(Cleared(c), KeyOf(c))
<1> DEFINE k == KeyOf(c)
           t == Cleared(c)
<1>1. k \in Keys
  BY ChunkFacts
<1>2. t.entries = entries /\ t.bytes = Replaced(c)
  BY DEF Cleared, Table
<1>3. entries \in Slots /\ bytes \in Int
  BY TableTyped DEF TypeOK
<1>4. SizesOf(entries)[k] \in Nat /\ SizeOf(entries) \in Nat
  BY <1>1, <1>3, SizesTyped, SizeOfBounds
<1>5. Replaced(c) = bytes - SizesOf(entries)[k]
  BY <1>1, <1>3 DEF Replaced, SizesOf
<1>6. t \in Tables
  BY <1>3, <1>4, <1>5 DEF Cleared, Table, Tables
<1>7. Weight(t, k) = SizeOf(entries) - SizesOf(entries)[k]
  <2>1. SizeOf([entries EXCEPT ![k] = None]) = SizeOf(entries) - SizesOf(entries)[k] + 0
    BY <1>1, <1>3, SizeOfChanged
  <2> HIDE DEF t, k
  <2>2. QED
    BY <1>2, <1>4, <2>1 DEF Weight
<1>8. t.bytes <= Weight(t, k) /\ (~doubled => t.bytes = Weight(t, k))
  BY <1>2, <1>3, <1>4, <1>5, <1>7 DEF TableAccounting
<1>9. In(t) = In(Table)
  BY <1>2 DEF In, Table
<1>10. EvictionOf(t, t, k)
  BY <1>8 DEF EvictionOf
<1>11. QED
  BY <1>2, <1>6, <1>8, <1>9, <1>10

\* After the loop there is room, and the chunk is put into it.
LEMMA PutIs ==
  ASSUME TypeOK, TableAccounting, NEW c \in Chunks, c.stream # None, Usable(c),
         NEW u \in Evicted(Cleared(c), c.size)
  PROVE  /\ Put(u, c) \in Tables
         /\ Put(u, c).entries[KeyOf(c)] = [chunk |-> c, tokens |-> TokensOf[c], age |-> 0]
         /\ \A l \in Keys : l # KeyOf(c) => Put(u, c).entries[l] = u.entries[l]
         /\ \A l \in Keys : u.entries[l] = entries[l] \/ u.entries[l] = None
         /\ Cardinality(In(Put(u, c))) <= MaxStreams
         /\ Put(u, c).bytes <= SizeOf(Put(u, c).entries)
         /\ ~doubled /\ ~(KeyOf(c) \in In(Cleared(c)) \ In(u)) =>
              Put(u, c).bytes = SizeOf(Put(u, c).entries) /\ Put(u, c).bytes <= MaxBytes
<1> DEFINE k == KeyOf(c)
           t == Cleared(c)
           e == [chunk |-> c, tokens |-> TokensOf[c], age |-> 0]
           p == Put(u, c)
<1>1. k \in Keys /\ c.size \in Nat /\ c.size <= MaxBytes
  BY ChunkFacts DEF Usable
<1>2. /\ t \in Tables /\ t.entries = entries /\ EvictionOf(t, t, k)
      /\ ~doubled => t.bytes = Weight(t, k)
  BY ClearedIs
<1> HIDE DEF t, k
<1>3. u \in Tables /\ EvictionOf(u, t, k) /\ ~Full(u, c.size)
  <2>1. u \in Evicted(t, c.size)
    BY DEF t
  <2>2. QED
    BY <1>1, <1>2, <2>1, EvictedIs
<1>4. p = [entries |-> [u.entries EXCEPT ![k] = e], bytes |-> u.bytes + c.size]
  BY <1>3 DEF Put, k
<1>5. e \in Entry /\ e # None /\ e.chunk.size = c.size
  <2>1. TokensOf[c] \in Tokens /\ 0 \in 0..TTL
    BY TokensTyped, ChunkAssumption
  <2>2. QED
    BY <2>1, EntryFacts
<1> HIDE DEF e, p
<1>6. u.entries \in Slots /\ u.bytes \in Int
  BY <1>3 DEF Tables
<1>7. p.entries = [u.entries EXCEPT ![k] = e] /\ p.bytes = u.bytes + c.size
  BY <1>4
<1>8. p.entries \in Slots /\ p \in Tables
  BY <1>1, <1>4, <1>5, <1>6 DEF Slots, Tables
<1>9. p.entries[k] = e /\ \A l \in Keys : l # k => p.entries[l] = u.entries[l]
  BY <1>1, <1>6, <1>7 DEF Slots
<1>10. SizeOf(p.entries) = Weight(u, k) + c.size /\ Weight(u, k) \in Int
  <2>1. SizeOf([u.entries EXCEPT ![k] = e]) = SizeOf(u.entries) - SizesOf(u.entries)[k] + c.size
    BY <1>1, <1>5, <1>6, SizeOfChanged
  <2>2. SizeOf([u.entries EXCEPT ![k] = None]) = SizeOf(u.entries) - SizesOf(u.entries)[k] + 0
    BY <1>1, <1>6, SizeOfChanged
  <2>3. SizeOf(u.entries) \in Nat /\ SizesOf(u.entries)[k] \in Nat
    BY <1>1, <1>6, SizesTyped, SizeOfBounds
  <2>4. QED
    BY <1>1, <1>7, <2>1, <2>2, <2>3 DEF Weight
<1>11. Cardinality(In(p)) <= MaxStreams
  <2>1. In(p) \in SUBSET (In(u) \cup {k})
    BY <1>9 DEF In
  <2>2. /\ IsFiniteSet(In(u) \cup {k})
        /\ Cardinality(In(u) \cup {k}) = IF k \in In(u) THEN Cardinality(In(u))
                                         ELSE Cardinality(In(u)) + 1
    BY InIsFinite, FS_AddElement
  <2>3. Cardinality(In(p)) <= Cardinality(In(u) \cup {k})
    BY <2>1, <2>2, FS_Subset
  <2>4. Cardinality(In(u)) \in Nat /\ Cardinality(In(p)) \in Nat
    BY InIsFinite
  <2>5. ~(Cardinality(In(u)) >= MaxStreams)
    BY <1>3 DEF Full
  <2>6. QED
    BY <2>2, <2>3, <2>4, <2>5, ChunkAssumption
<1>12. p.bytes <= SizeOf(p.entries)
  BY <1>1, <1>3, <1>6, <1>7, <1>10 DEF EvictionOf
<1>13. ASSUME ~doubled, ~(k \in In(t) \ In(u))
       PROVE  p.bytes = SizeOf(p.entries) /\ p.bytes <= MaxBytes
  <2>1. u.bytes = Weight(u, k)
    BY <1>2, <1>3, <1>13 DEF EvictionOf
  <2>2. ~(u.bytes + c.size > MaxBytes)
    BY <1>3 DEF Full
  <2>3. QED
    BY <1>1, <1>6, <1>7, <1>10, <2>1, <2>2, ChunkAssumption
<1>14. \A l \in Keys : u.entries[l] = entries[l] \/ u.entries[l] = None
  BY <1>2, <1>3 DEF EvictionOf
<1>15. QED
  BY <1>8, <1>9, <1>11, <1>12, <1>13, <1>14 DEF e, p, t, k

\* A running chunk.
LEMMA RunningStep ==
  ASSUME IInv, NEW c \in Chunks, NEW next, Ready(c, next), ObserveRunning(c),
         UNCHANGED <<closed, database, flusher, closer, commits, switched>>,
         queue' \in Seq(Chunks)
  PROVE  /\ ObservedInv' /\ Advanced(c, next)
         /\ Usable(c) /\ ~closed /\ ~Stale(c) => Stores(c)
<1>1. TypeOK /\ TableAccounting /\ EntriesOK
  BY DEF IInv
<1>2. c.stream # None /\ ~c.terminal /\ Settle(c, 0, "done")
  BY DEF ObserveRunning
<1>3. c.stream \in Streams /\ KeyOf(c) \in Keys /\ KeyOf(c)[1] = c.stream
  BY <1>2, ChunkFacts
<1>4. CASE /\ ~Usable(c) \/ closed \/ Stale(c)
           /\ cut' = IF Usable(c) /\ closed
                     THEN [cut EXCEPT ![c.stream] = @ \cup {"late"}] ELSE cut
           /\ UNCHANGED <<entries, bytes, doubled>>
  <2>1. /\ cut' \in [Streams -> SUBSET {"evicted", "expired", "closed", "late"}]
        /\ \A s \in Streams : cut[s] \subseteq cut'[s]
        /\ Usable(c) /\ closed => "late" \in cut'[c.stream]
    <3>1. CASE Usable(c) /\ closed
      <4>1. cut' = [cut EXCEPT ![c.stream] = cut[c.stream] \cup {"late"}]
        BY <1>4, <3>1
      <4>2. QED
        BY <1>1, <1>3, <4>1 DEF TypeOK
    <3>2. CASE ~(Usable(c) /\ closed)
      BY <1>1, <1>4, <3>2 DEF TypeOK
    <3>3. QED
      BY <3>1, <3>2
  <2>2. Refuses(c)
    BY <1>4, <2>1 DEF Refuses
  <2>3. /\ entries' \in [Keys -> Entry \cup {None}] /\ bytes' \in Int /\ doubled' \in BOOLEAN
    BY <1>1, <1>4 DEF TypeOK
  <2>4. TableAccounting'
    BY <1>1, <1>4, <2>3, AccountsKept
  <2>5. QED
    BY <1>2, <1>4, <2>1, <2>2, <2>3, <2>4, RunStep
<1>5. ASSUME Usable(c), ~closed, ~Stale(c), NEW u \in Evicted(Cleared(c), c.size),
             entries' = Put(u, c).entries, bytes' = Put(u, c).bytes,
             cut' = [s \in Streams |->
                       IF \E l \in In(Cleared(c)) \ In(u) : l # KeyOf(c) /\ l[1] = s
                       THEN cut[s] \cup {"evicted"} ELSE cut[s]],
             doubled' = (doubled \/ KeyOf(c) \in In(Cleared(c)) \ In(u))
      PROVE  ObservedInv' /\ Advanced(c, next) /\ Stores(c)
  <2>1. /\ Put(u, c) \in Tables
        /\ entries'[KeyOf(c)] = [chunk |-> c, tokens |-> TokensOf[c], age |-> 0]
        /\ \A l \in Keys : l # KeyOf(c) => entries'[l] = u.entries[l]
        /\ \A l \in Keys : u.entries[l] = entries[l] \/ u.entries[l] = None
    BY <1>1, <1>2, <1>5, PutIs
  <2>2. /\ entries' \in [Keys -> Entry \cup {None}] /\ bytes' \in Int
    BY <1>5, <2>1 DEF Tables, Slots
  <2>3. doubled' \in BOOLEAN
    BY <1>5
  <2>4. /\ cut' \in [Streams -> SUBSET {"evicted", "expired", "closed", "late"}]
        /\ \A s \in Streams : cut[s] \subseteq cut'[s]
    BY <1>1, <1>5 DEF TypeOK
  <2>5. TableAccounting'
    <3>1. In(Table)' = In(Put(u, c))
      BY <1>5 DEF In, Table
    <3>2. /\ Cardinality(In(Put(u, c))) <= MaxStreams
          /\ bytes' <= SizeOf(entries')
          /\ ~doubled' => bytes' = SizeOf(entries') /\ bytes' <= MaxBytes
      BY <1>1, <1>2, <1>5, PutIs
    <3>3. QED
      BY <3>1, <3>2 DEF TableAccounting
  <2>6. Stores(c)
    <3>1. ASSUME NEW l \in Keys, l # KeyOf(c)
          PROVE  \/ entries'[l] = entries[l]
                 \/ entries'[l] = None /\ "evicted" \in cut'[l[1]]
      <4>1. CASE u.entries[l] = entries[l]
        BY <2>1, <3>1, <4>1
      <4>2. CASE u.entries[l] # entries[l]
        <5>1. u.entries[l] = None /\ entries[l] # None /\ entries'[l] = None
          BY <2>1, <3>1, <4>2
        <5>2. Cleared(c).entries = entries
          BY <1>1, <1>2, ClearedIs
        <5>3. l \in In(Cleared(c)) \ In(u)
          BY <5>1, <5>2 DEF In
        <5>4. l[1] \in Streams
          BY KeyFacts
        <5>5. QED
          BY <1>5, <3>1, <5>1, <5>3, <5>4
      <4>3. QED
        BY <4>1, <4>2
    <3>2. QED
      BY <1>5, <2>1, <3>1 DEF Stores
  <2>7. ObservedInv' /\ Advanced(c, next)
    BY <1>2, <2>2, <2>3, <2>4, <2>5, <2>6, RunStep
  <2>8. QED
    BY <2>6, <2>7
<1>6. CASE /\ Usable(c) /\ ~closed /\ ~Stale(c)
           /\ \E u \in Evicted(Cleared(c), c.size) :
                /\ entries' = Put(u, c).entries /\ bytes' = Put(u, c).bytes
                /\ cut' = [s \in Streams |->
                     IF \E l \in In(Cleared(c)) \ In(u) : l # KeyOf(c) /\ l[1] = s
                     THEN cut[s] \cup {"evicted"} ELSE cut[s]]
                /\ doubled' = (doubled \/ KeyOf(c) \in In(Cleared(c)) \ In(u))
  BY <1>5, <1>6
<1>7. QED
  BY <1>4, <1>6 DEF ObserveRunning, Cleared

-----------------------------------------------------------------------------
(***************************************************************************)
(* The steps that observe, and all steps.                                  *)
(***************************************************************************)
\* An observation keeps all but the queue's part, and a usable update that is
\* in time is stored.
LEMMA ObserveStep ==
  ASSUME IInv, NEW c \in Chunks, NEW next, Ready(c, next), Observe(c, next),
         queue' \in Seq(Chunks)
  PROVE  /\ ObservedInv' /\ Advanced(c, next)
         /\ c.stream # None /\ ~c.terminal /\ Usable(c) /\ ~closed /\ ~Stale(c) => Stores(c)
<1>1. UNCHANGED <<closed, database, flusher, closer, commits, switched>>
  BY DEF Observe
<1>2. CASE ObserveUncorrelated(c, next)
  <2>1. c.stream = None
    BY <1>2 DEF ObserveUncorrelated
  <2>2. QED
    BY <1>1, <1>2, <2>1, UncorrelatedStep
<1>3. CASE ObserveTerminal(c, next)
  <2>1. c.terminal
    BY <1>3 DEF ObserveTerminal
  <2>2. QED
    BY <1>1, <1>3, <2>1, TerminalStep
<1>4. CASE ObserveRunning(c)
  BY <1>1, <1>4, RunningStep
<1>5. QED
  BY <1>2, <1>3, <1>4 DEF Observe

\* A chunk is observed by the caller.
LEMMA DirectReady ==
  ASSUME IInv, NEW c \in Chunks, Direct(c)
  PROVE  Ready(c, "direct")
<1>1. OrderOK
  BY DEF IInv
<1>2. call[c] = "none" /\ ~FastPath(c) /\ ~database /\ \A d \in Earlier[c] : Returned(d)
  BY DEF Direct, Turn
<1>3. ASSUME ~switched, NEW d \in Earlier[c] PROVE call[d] \in {"done", "dropped"}
  <2>1. d \in Chunks
    BY DEF Earlier
  <2>2. call[d] \in {"none", "direct", "done"}
    BY <1>1, <1>2, <1>3, <2>1 DEF OrderOK
  <2>3. QED
    BY <1>2, <2>2 DEF Returned
<1>4. QED
  BY <1>2, <1>3 DEF Ready

\* A call in the caller keeps the invariant.
LEMMA DirectStep ==
  ASSUME IInv, NEW c \in Chunks, Direct(c)
  PROVE  IInv'
<1>1. TypeOK /\ QueueOK
  BY DEF IInv
<1>2. Ready(c, "direct") /\ Observe(c, "direct") /\ queue' = queue
  BY DirectReady DEF Direct
<1>3. queue' \in Seq(Chunks)
  BY <1>1, <1>2 DEF TypeOK
<1>4. ObservedInv' /\ Advanced(c, "direct")
  BY <1>2, <1>3, ObserveStep
<1>5. call[c] = "none" /\ closed' = closed
  BY <1>2 DEF Direct, Turn, Observe
<1>6. QueueOK'
  BY <1>1, <1>2, <1>4, <1>5 DEF QueueOK, Advanced, Handing
<1>7. QED
  BY <1>4, <1>6 DEF ObservedInv, IInv

\* What is left of a queue without its head.
LEMMA TailIs ==
  ASSUME NEW S, NEW q \in Seq(S), q # <<>>
  PROVE  /\ Head(q) = q[1] /\ Head(q) \in S /\ Len(q) \in Nat /\ Len(q) >= 1
         /\ Tail(q) \in Seq(S) /\ Len(Tail(q)) = Len(q) - 1
         /\ \A i \in 1..(Len(q) - 1) : Tail(q)[i] = q[i + 1]
OBVIOUS

\* A chunk is observed by the queue's worker.
LEMMA WorkerReady ==
  ASSUME IInv, WorkerTake
  PROVE  Head(queue) \in Chunks /\ Ready(Head(queue), "working")
<1> DEFINE c == Head(queue)
<1>1. TypeOK /\ QueueOK /\ OrderOK
  BY DEF IInv
<1>2. queue # <<>> /\ \A d \in Chunks : call[d] # "working"
  BY DEF WorkerTake
<1>3. c \in Chunks /\ c = queue[1] /\ Len(queue) \in Nat /\ Len(queue) >= 1
  BY <1>1, <1>2, TailIs DEF TypeOK
<1> HIDE DEF c
<1>4. call[c] = "queued" /\ ~FastPath(c)
  <2>1. 1 \in 1..Len(queue)
    BY <1>3
  <2>2. QED
    BY <1>1, <1>3, <2>1 DEF QueueOK
<1>5. \A d \in Earlier[c] : Returned(d)
  BY <1>1, <1>3, <1>4 DEF OrderOK
<1>6. ASSUME NEW d \in Earlier[c] PROVE call[d] \in {"done", "dropped"}
  <2>1. d \in Chunks /\ d.stream = c.stream /\ d.position < c.position
    BY <1>3 DEF Earlier
  <2>2. call[d] \notin {"none", "direct", "working"}
    BY <1>2, <1>5, <2>1 DEF Returned
  <2>3. call[d] # "queued"
    <3>1. SUFFICES ASSUME call[d] = "queued" PROVE FALSE
      OBVIOUS
    <3>2. PICK i \in 1..Len(queue) : queue[i] = d
      BY <1>1, <2>1, <3>1 DEF QueueOK
    <3>3. CASE i = 1
      <4>1. d = c
        BY <1>3, <3>2, <3>3
      <4>2. QED
        BY <1>3, <2>1, <4>1, ChunkFacts
    <3>4. CASE i # 1
      <4>1. 1 \in 1..Len(queue) /\ 1 < i
        BY <1>3, <3>4
      <4>2. c.position < d.position
        BY <1>1, <1>3, <2>1, <3>2, <4>1 DEF QueueOK
      <4>3. QED
        BY <1>3, <2>1, <4>2, ChunkFacts
    <3>5. QED
      BY <3>3, <3>4
  <2>4. call[d] \in {"none", "queued", "working", "direct", "done", "dropped"}
    BY <1>1, <2>1 DEF TypeOK
  <2>5. QED
    BY <2>2, <2>3, <2>4
<1>7. ~(~switched /\ ~database)
  BY <1>1, <1>3, <1>4 DEF OrderOK
<1>8. Ready(c, "working")
  BY <1>4, <1>5, <1>6, <1>7 DEF Ready
<1>9. QED
  BY <1>3, <1>8 DEF c

\* A call in the worker keeps the invariant.
LEMMA WorkerStep ==
  ASSUME IInv, WorkerTake
  PROVE  IInv'
<1> DEFINE c == Head(queue)
<1>1. TypeOK /\ QueueOK
  BY DEF IInv
<1>2. /\ queue # <<>> /\ Observe(c, "working") /\ queue' = Tail(queue)
      /\ closed' = closed
  BY DEF WorkerTake, Observe
<1>3. c \in Chunks /\ Ready(c, "working")
  BY WorkerReady
<1>4. /\ c = queue[1] /\ Len(queue) \in Nat /\ Len(queue) >= 1
      /\ queue' \in Seq(Chunks) /\ Len(queue') = Len(queue) - 1
      /\ \A i \in 1..(Len(queue) - 1) : queue'[i] = queue[i + 1]
      /\ \A i \in 1..Len(queue) : queue[i] \in Chunks
  BY <1>1, <1>2, TailIs DEF TypeOK
<1> HIDE DEF c
<1>5. ObservedInv' /\ Advanced(c, "working")
  BY <1>2, <1>3, <1>4, ObserveStep
<1>6. /\ \A d \in Chunks : d # c => call'[d] = call[d]
      /\ call'[c] \in {"working", "done"}
      /\ call'[c] = "working" => c.stream = None \/ c.terminal
  BY <1>5 DEF Advanced
<1>7. ASSUME NEW i \in 1..Len(queue'), NEW j \in 1..Len(queue'), i < j,
             queue'[i].stream = queue'[j].stream
      PROVE  queue'[i].position < queue'[j].position
  <2>1. /\ queue'[i] = queue[i + 1] /\ queue'[j] = queue[j + 1]
        /\ i + 1 \in 1..Len(queue) /\ j + 1 \in 1..Len(queue) /\ i + 1 < j + 1
    BY <1>4, <1>7
  <2>2. QED
    BY <1>1, <1>7, <2>1 DEF QueueOK
<1>8. ASSUME NEW d \in Chunks
      PROVE  call'[d] = "queued" <=> \E i \in 1..Len(queue') : queue'[i] = d
  <2>1. CASE d = c
    <3>1. ASSUME NEW i \in 1..Len(queue'), queue'[i] = c PROVE FALSE
      <4>1. queue[i + 1] = c /\ i + 1 \in 1..Len(queue) /\ 1 \in 1..Len(queue) /\ 1 < i + 1
        BY <1>4, <3>1
      <4>2. c.position < c.position
        BY <1>1, <1>4, <4>1 DEF QueueOK
      <4>3. QED
        BY <1>3, <4>2, ChunkFacts
    <3>2. QED
      BY <1>6, <2>1, <3>1
  <2>2. CASE d # c
    <3>1. call'[d] = call[d]
      BY <1>6, <2>2
    <3>2. ASSUME NEW i \in 1..Len(queue), queue[i] = d
          PROVE  \E j \in 1..Len(queue') : queue'[j] = d
      <4>1. i # 1
        BY <1>4, <2>2, <3>2
      <4>2. i - 1 \in 1..Len(queue') /\ queue'[i - 1] = queue[i]
        <5>1. i - 1 \in 1..(Len(queue) - 1) /\ (i - 1) + 1 = i
          BY <1>4, <4>1
        <5>2. QED
          BY <1>4, <5>1
      <4>3. QED
        BY <3>2, <4>2
    <3>3. ASSUME NEW i \in 1..Len(queue'), queue'[i] = d
          PROVE  \E j \in 1..Len(queue) : queue[j] = d
      <4>1. i + 1 \in 1..Len(queue) /\ queue'[i] = queue[i + 1]
        BY <1>4
      <4>2. QED
        BY <3>3, <4>1
    <3>4. QED
      BY <1>1, <3>1, <3>2, <3>3 DEF QueueOK
  <2>3. QED
    BY <2>1, <2>2
<1>9. ~closed
  BY <1>1, <1>2 DEF QueueOK
<1>10. /\ \A d \in Chunks : call'[d] = "queued" => ~FastPath(d)
       /\ \A d \in Chunks : Handing(d)' => d.stream = None \/ d.terminal
  BY <1>1, <1>2, <1>6 DEF QueueOK, Handing
<1>11. QueueOK'
  BY <1>2, <1>7, <1>8, <1>9, <1>10 DEF QueueOK
<1>12. QED
  BY <1>5, <1>11 DEF ObservedInv, IInv

\* A stuttering step.
LEMMA StutterStep == IInv /\ UNCHANGED vars => IInv'
<1> SUFFICES ASSUME IInv, UNCHANGED vars PROVE IInv'
  OBVIOUS
<1>1. /\ TypeOK /\ TableAccounting /\ EntriesOK /\ TakersOK /\ QueueOK /\ OrderOK
      /\ StreamsOK /\ CustodyOK
  BY DEF IInv
<1>2. UNCHANGED <<entries, bytes, closed, queue, database, call, final, flusher, closer,
                  commits, cut, doubled, switched>>
  BY DEF vars
<1>3. TypeOK'
  BY <1>1, <1>2 DEF TypeOK
<1>4. TableAccounting'
  BY <1>1, <1>2, <1>3, AccountsKept DEF TypeOK
<1>5. EntriesOK' /\ TakersOK'
  <2>1. EntriesOK'
    BY <1>1, <1>2, EntriesKept
  <2>2. TakersOK'
    BY <1>1, <1>2, TakersKept DEF TakersOK
  <2>3. QED
    BY <2>1, <2>2
<1>6. QueueOK' /\ OrderOK'
  BY <1>1, <1>2 DEF QueueOK, OrderOK, Handing, Observed, Returned
<1>7. StreamsOK'
  <2>1. ASSUME NEW s \in Streams PROVE StreamOK(s)'
    <3>1. SameStream(s)
      BY <1>2 DEF SameStream, Observed
    <3>2. Smooth(s)' => Smooth(s)
      BY <1>2 DEF Smooth
    <3>3. QED
      BY <1>1, <3>1, <3>2, StreamKept DEF StreamsOK
  <2>2. QED
    BY <2>1 DEF StreamsOK
<1>8. CustodyOK'
  BY <1>1, <1>2 DEF CustodyOK, Kept, Handing
<1>9. QED
  BY <1>1, <1>3, <1>4, <1>5, <1>6, <1>7, <1>8 DEF IInv

\* Every step keeps the invariant.
LEMMA NextInv == IInv /\ [Next]_vars => IInv'
<1> SUFFICES ASSUME IInv, [Next]_vars PROVE IInv'
  OBVIOUS
<1>1. ASSUME NEW c \in Chunks, Skip(c) \/ Queue(c) \/ Direct(c) \/ Commit(c) PROVE IInv'
  BY <1>1, SkipStep, QueueStep, DirectStep, CommitStep
<1>2. CASE WorkerTake
  BY <1>2, WorkerStep
<1>3. CASE SwitchStorage
  BY <1>3, SwitchStep
<1>4. CASE Tick
  BY <1>4, TickStep
<1>5. CASE FlushExpired
  BY <1>5, FlushStep
<1>6. CASE FlusherCommit
  BY <1>6, FlusherCommitStep
<1>7. CASE FlusherStop \/ CloseAwait
  BY <1>7, StopSteps
<1>8. CASE CloseStart
  BY <1>8, CloseStartStep
<1>9. CASE CloseCommit
  BY <1>9, CloseCommitStep
<1>10. CASE UNCHANGED vars
  BY <1>10, StutterStep
<1>11. QED
  BY <1>1, <1>2, <1>3, <1>4, <1>5, <1>6, <1>7, <1>8, <1>9, <1>10 DEF Next

\* The invariant holds.
LEMMA Invariant == Spec => []IInv
<1>1. Init => IInv
  BY InitInv
<1>2. IInv /\ [Next]_vars => IInv'
  BY NextInv
<1>3. QED
  BY <1>1, <1>2, PTL DEF Spec

-----------------------------------------------------------------------------
(***************************************************************************)
(* Theorems.                                                               *)
(***************************************************************************)
\* The tracker's state has its types.
THEOREM TypesHold == Spec => []TypeOK
<1>1. IInv => TypeOK
  BY DEF IInv
<1>2. QED
  BY <1>1, Invariant, PTL

\* The table keeps its limit of streams; its byte counter is what the entries
\* hold, and in its limit, until an update evicts the entry it replaces, and
\* never more than they hold.
THEOREM TableIsAccounted == Spec => []TableAccounting
<1>1. IInv => TableAccounting
  BY DEF IInv
<1>2. QED
  BY <1>1, Invariant, PTL

\* An orderly stream that went one way and was not cut short is committed once,
\* when the call that ends it is done, with the usage its end brings or else with
\* the latest running total that the callback queue did not refuse.
THEOREM FinalUsageIsCommittedOnce == Spec => []FinalUsageOnce
<1>1. IInv => FinalUsageOnce
  <2> SUFFICES ASSUME IInv, NEW c \in Chunks, c.terminal, c.stream # None, Orderly(c.stream),
                      call[c] = "done", ~switched, cut[c.stream] = {}
               PROVE  commits[c.stream] = LatestUsage(c)
    BY DEF FinalUsageOnce
  <2>1. c.stream \in Streams /\ Smooth(c.stream) /\ Observed(c)
    BY ChunkFacts DEF Smooth, Observed
  <2>2. EndedOK(c)
    BY <2>1 DEF IInv, StreamsOK, StreamOK
  <2>3. QED
    BY <2>2 DEF EndedOK
<1>2. QED
  BY <1>1, Invariant, PTL

\* When close has returned nothing is left in the table or in the goroutine's
\* hands, and every stream that reported usage in time has a commit.
THEOREM EverythingIsHandedOver == Spec => []HandedOver
<1>1. IInv => HandedOver
  <2> SUFFICES ASSUME IInv, closer.pc = "done" PROVE HandedOver
    BY DEF HandedOver
  <2>1. TypeOK /\ TakersOK /\ QueueOK /\ CustodyOK
    BY DEF IInv
  <2>2. closed /\ \A k \in Keys : entries[k] = None
    BY <2>1 DEF TakersOK, ShuttingDown
  <2>3. flusher.taken = {} /\ closer.taken = {}
    BY <2>1 DEF TakersOK
  <2>4. \A d \in Chunks : call[d] # "working"
    BY <2>1, <2>2 DEF QueueOK
  <2>5. Held = {}
    BY <2>2 DEF Held
  <2>6. ASSUME NEW c \in Chunks, c.stream # None, Usable(c), call[c] = "done"
        PROVE  \/ commits[c.stream] # <<>>
               \/ \E d \in Chunks : d.stream = c.stream /\ call[d] = "direct"
               \/ cut[c.stream] \cap {"evicted", "late"} # {}
    <3>1. Kept(c.stream)
      BY <2>1, <2>6 DEF CustodyOK
    <3>2. QED
      BY <2>2, <2>3, <2>4, <3>1 DEF Kept, Handing
  <2>7. QED
    BY <2>3, <2>5, <2>6 DEF HandedOver
<1>2. QED
  BY <1>1, Invariant, PTL

\* An update that comes in time is stored: evicting makes room for it.
THEOREM UpdatesKept == Spec => UpdatesAreKept
<1> DEFINE Keeps(c) ==
      /\ call[c] \in {"none", "queued"} /\ call'[c] = "done"
      /\ c.stream # None /\ ~c.terminal /\ Usable(c) /\ ~closed /\ ~Stale(c)
      => entries'[KeyOf(c)] # None /\ entries'[KeyOf(c)].chunk = c
<1>1. ASSUME IInv, [Next]_vars, NEW c \in Chunks,
             call[c] \in {"none", "queued"}, call'[c] = "done",
             c.stream # None, ~c.terminal, Usable(c), ~closed, ~Stale(c)
      PROVE  entries'[KeyOf(c)] # None /\ entries'[KeyOf(c)].chunk = c
  <2>1. TypeOK
    BY <1>1 DEF IInv
  <2>2. Stores(c)
    <3>1. ASSUME NEW d \in Chunks, NEW p, call' = [call EXCEPT ![d] = p] PROVE d = c
      BY <1>1, <2>1, <3>1 DEF TypeOK
    <3>2. ASSUME NEW d \in Chunks, Skip(d) PROVE FALSE
      <4>1. d = c
        BY <3>1, <3>2 DEF Skip
      <4>2. QED
        BY <1>1, <3>2, <4>1, TokensTyped DEF Skip, FastPath, Usable
    <3>3. ASSUME NEW d \in Chunks, Queue(d) PROVE FALSE
      <4>1. CASE call' = [call EXCEPT ![d] = "dropped"]
        BY <1>1, <2>1, <3>1, <4>1 DEF TypeOK
      <4>2. CASE call' = [call EXCEPT ![d] = "queued"]
        BY <1>1, <2>1, <3>1, <4>2 DEF TypeOK
      <4>3. QED
        BY <3>3, <4>1, <4>2 DEF Queue
    <3>4. ASSUME NEW d \in Chunks, Commit(d) PROVE FALSE
      BY <1>1, <3>1, <3>4 DEF Commit
    <3>5. ASSUME NEW d \in Chunks, Direct(d) PROVE Stores(c)
      <4>1. Ready(d, "direct") /\ Observe(d, "direct") /\ queue' \in Seq(Chunks)
        BY <1>1, <2>1, <3>5, DirectReady DEF Direct, TypeOK
      <4>2. Advanced(d, "direct")
        BY <1>1, <4>1, ObserveStep
      <4>3. d = c
        BY <1>1, <4>2 DEF Advanced
      <4>4. QED
        BY <1>1, <4>1, <4>3, ObserveStep
    <3>6. CASE WorkerTake
      <4> DEFINE d == Head(queue)
      <4>1. d \in Chunks /\ Ready(d, "working") /\ Observe(d, "working")
        BY <1>1, <3>6, WorkerReady DEF WorkerTake
      <4>2. queue' \in Seq(Chunks)
        BY <2>1, <3>6, TailIs DEF WorkerTake, TypeOK
      <4> HIDE DEF d
      <4>3. Advanced(d, "working")
        BY <1>1, <4>1, <4>2, ObserveStep
      <4>4. d = c
        BY <1>1, <4>3 DEF Advanced
      <4>5. QED
        BY <1>1, <4>1, <4>2, <4>4, ObserveStep
    <3>7. ASSUME call' = call PROVE FALSE
      BY <1>1, <3>7
    <3>8. \/ \E d \in Chunks : Skip(d) \/ Queue(d) \/ Direct(d) \/ Commit(d)
          \/ WorkerTake \/ call' = call
      BY <1>1 DEF Next, vars, SwitchStorage, Tick, FlushExpired, FlusherCommit, FlusherStop,
           CloseStart, CloseAwait, CloseCommit
    <3>9. QED
      BY <3>2, <3>3, <3>4, <3>5, <3>6, <3>7, <3>8
  <2>3. TokensOf[c] \in Tokens /\ 0 \in 0..TTL
    BY TokensTyped, ChunkAssumption
  <2>4. [chunk |-> c, tokens |-> TokensOf[c], age |-> 0] \in Entry
    BY <2>3, EntryFacts
  <2>5. QED
    BY <2>2, <2>4, EntryFacts DEF Stores
<1>2. IInv /\ [Next]_vars => \A c \in Chunks : Keeps(c)
  BY <1>1
<1>3. QED
  BY <1>2, Invariant, PTL DEF Spec, UpdatesAreKept
=============================================================================
