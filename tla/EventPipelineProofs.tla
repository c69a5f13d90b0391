------------------------ MODULE EventPipelineProofs ------------------------
(***************************************************************************)
(* Proofs about EventPipeline: what holds whatever replays do, and then    *)
(* what holds while none overlaps another one, that the counters of the    *)
(* queues are what they count and that no event is lost.                   *)
(***************************************************************************)
EXTENDS EventPipeline, DataLemmas

-----------------------------------------------------------------------------
(***************************************************************************)
(* The operators.                                                          *)
(***************************************************************************)
LEMMA ElemsEmpty == Elems(<<>>) = {}
BY DEF Elems

\* Appending adds one element.
LEMMA ElemsAppend ==
  ASSUME NEW S, NEW s \in Seq(S), NEW e \in S
  PROVE  Append(s, e) \in Seq(S) /\ Elems(Append(s, e)) = Elems(s) \cup {e}
<1>1. Append(s, e) \in Seq(S) /\ DOMAIN Append(s, e) = DOMAIN s \cup {Len(s) + 1}
  OBVIOUS
<1>2. \A i \in DOMAIN s : Append(s, e)[i] = s[i]
  OBVIOUS
<1>3. Append(s, e)[Len(s) + 1] = e
  OBVIOUS
<1>4. QED
  BY <1>1, <1>2, <1>3, Zenon DEF Elems

\* The head and the tail have all elements.
LEMMA ElemsTail ==
  ASSUME NEW S, NEW s \in Seq(S), s # <<>>
  PROVE  /\ Head(s) \in S /\ Tail(s) \in Seq(S) /\ Len(Tail(s)) = Len(s) - 1
         /\ Elems(s) = {Head(s)} \cup Elems(Tail(s))
<1>1. Head(s) \in S /\ Tail(s) \in Seq(S) /\ Len(Tail(s)) = Len(s) - 1
  OBVIOUS
<1>2. ASSUME NEW i \in DOMAIN s PROVE s[i] \in {Head(s)} \cup Elems(Tail(s))
  <2>1. CASE i = 1
    BY <2>1
  <2>2. CASE i # 1
    <3>1. i - 1 \in DOMAIN Tail(s) /\ Tail(s)[i - 1] = s[i]
      BY <2>2
    <3>2. QED
      BY <3>1 DEF Elems
  <2>3. QED
    BY <2>1, <2>2
<1>3. ASSUME NEW i \in DOMAIN Tail(s) PROVE Tail(s)[i] \in Elems(s)
  <2>1. i + 1 \in DOMAIN s /\ Tail(s)[i] = s[i + 1]
    OBVIOUS
  <2>2. QED
    BY <2>1 DEF Elems
<1>4. Head(s) \in Elems(s)
  <2>1. 1 \in DOMAIN s /\ Head(s) = s[1]
    OBVIOUS
  <2>2. QED
    BY <2>1 DEF Elems
<1>5. QED
  BY <1>1, <1>2, <1>3, <1>4 DEF Elems

\* A concatenation has the elements of both.
LEMMA ElemsConcat ==
  ASSUME NEW S, NEW s \in Seq(S), NEW t \in Seq(S)
  PROVE  s \o t \in Seq(S) /\ Elems(s \o t) = Elems(s) \cup Elems(t)
<1>1. s \o t \in Seq(S) /\ DOMAIN (s \o t) = 1..(Len(s) + Len(t))
  OBVIOUS
<1>2. \A i \in 1..(Len(s) + Len(t)) :
        (s \o t)[i] = IF i <= Len(s) THEN s[i] ELSE t[i - Len(s)]
  OBVIOUS
<1>3. ASSUME NEW i \in DOMAIN s PROVE s[i] \in Elems(s \o t)
  BY <1>1, <1>2 DEF Elems
<1>4. ASSUME NEW i \in DOMAIN t PROVE t[i] \in Elems(s \o t)
  <2>1. i + Len(s) \in DOMAIN (s \o t) /\ (s \o t)[i + Len(s)] = t[i]
    BY <1>1, <1>2
  <2>2. QED
    BY <2>1, Zenon DEF Elems
<1>5. ASSUME NEW i \in DOMAIN (s \o t) PROVE (s \o t)[i] \in Elems(s) \cup Elems(t)
  BY <1>1, <1>2 DEF Elems
<1>6. QED
  BY <1>1, <1>3, <1>4, <1>5 DEF Elems

\* The elements of a sequence over S are in S.
LEMMA ElemsType ==
  ASSUME NEW S, NEW s \in Seq(S)
  PROVE  Elems(s) \subseteq S
BY DEF Elems

\* The tasks in the writer's hands, those in its batch before those in the queue.
Line == writer.batch \o queue

\* Moving the head of the queue to the end of the batch changes nothing.
LEMMA MoveHead ==
  ASSUME NEW S, NEW b \in Seq(S), NEW q \in Seq(S), q # <<>>
  PROVE  Append(b, Head(q)) \o Tail(q) = b \o q
OBVIOUS

\* Neither does moving it to an empty batch.
LEMMA MoveFirst ==
  ASSUME NEW S, NEW q \in Seq(S), q # <<>>
  PROVE  <<Head(q)>> \o Tail(q) = <<>> \o q
OBVIOUS

\* A new task goes to the end.
LEMMA ConcatAppend ==
  ASSUME NEW S, NEW b \in Seq(S), NEW q \in Seq(S), NEW t \in S
  PROVE  b \o Append(q, t) = Append(b \o q, t)
OBVIOUS

\* A settled task leaves the front.
LEMMA ConcatTail ==
  ASSUME NEW S, NEW b \in Seq(S), NEW q \in Seq(S), b # <<>>
  PROVE  Tail(b) \o q = Tail(b \o q)
OBVIOUS

-----------------------------------------------------------------------------
(***************************************************************************)
(* The transaction of a batch.                                             *)
(***************************************************************************)
\* No value occurs twice.
Distinct(s) == \A i, j \in DOMAIN s : s[i] = s[j] => i = j

\* Table t has table s as its beginning.
Extends(t, s) == Len(s) <= Len(t) /\ \A i \in DOMAIN s : t[i] = s[i]

\* One insertion: only an event that is looked up, or is new, keeps the rows distinct.
LEMMA InsertOne ==
  ASSUME NEW t \in Seq(Events), NEW k \in Task
  PROVE  /\ Insert(t, k) \in Seq(Events)
         /\ Extends(Insert(t, k), t)
         /\ Elems(Insert(t, k)) = Elems(t) \cup {k.event}
         /\ Distinct(t) /\ (k.replay = None => k.event \notin Elems(t))
              => Distinct(Insert(t, k))
<1>1. k.event \in Events
  BY DEF Task
<1>2. CASE Insert(t, k) = t /\ k.event \in Elems(t)
  BY <1>2 DEF Extends
<1>3. CASE Insert(t, k) = Append(t, k.event)
  <2>1. Append(t, k.event) \in Seq(Events) /\ Elems(Append(t, k.event)) = Elems(t) \cup {k.event}
    BY <1>1, ElemsAppend
  <2>2. Extends(Append(t, k.event), t)
    BY <1>1 DEF Extends
  <2>3. ASSUME Distinct(t), k.event \notin Elems(t)
        PROVE  Distinct(Append(t, k.event))
    <3>1. \A i \in DOMAIN t : t[i] # k.event
      BY <2>3 DEF Elems
    <3>2. QED
      BY <1>1, <2>3, <3>1 DEF Distinct
  <2>4. CASE k.replay # None /\ k.event \in Elems(t)
    BY <2>4, <1>2, <1>3 DEF Insert
  <2>5. QED
    BY <1>3, <2>1, <2>2, <2>3, <2>4
<1>4. QED
  BY <1>2, <1>3 DEF Insert

\* The tables of the first n tasks of a batch.
IsTable(T, s, b, n) ==
  T = [i \in 0..n |-> IF i = 0 THEN s ELSE Insert(T[i - 1], b[i])]

\* The loop over a batch has a table after every task.
LEMMA TableExists ==
  ASSUME NEW s, NEW b, NEW n \in Nat
  PROVE  \E T : IsTable(T, s, b, n)
<1> DEFINE Has(m) == \E T : IsTable(T, s, b, m)
           N == {m \in Nat : Has(m)}
<1>1. 0 \in N
  <2> DEFINE T == [i \in 0..0 |-> s]
  <2>1. IsTable(T, s, b, 0)
    BY DEF IsTable
  <2>2. QED
    BY <2>1
<1>2. ASSUME NEW m \in Nat, m \in N PROVE m + 1 \in N
  <2>1. PICK T : IsTable(T, s, b, m)
    BY <1>2
  <2> DEFINE U == [i \in 0..(m + 1) |-> IF i = m + 1 THEN Insert(T[m], b[m + 1]) ELSE T[i]]
  <2>2. \A i \in 0..m : T[i] = IF i = 0 THEN s ELSE Insert(T[i - 1], b[i])
    BY <2>1 DEF IsTable
  <2>3. ASSUME NEW i \in 0..(m + 1)
        PROVE  U[i] = IF i = 0 THEN s ELSE Insert(U[i - 1], b[i])
    <3>1. CASE i = m + 1
      <4>1. U[i] = Insert(T[m], b[m + 1]) /\ U[i - 1] = T[m]
        BY <3>1
      <4>2. QED
        BY <3>1, <4>1
    <3>2. CASE i = 0
      BY <2>2, <3>2
    <3>3. CASE i \in 1..m
      <4>1. U[i] = T[i] /\ U[i - 1] = T[i - 1]
        BY <3>3
      <4>2. QED
        BY <2>2, <3>3, <4>1
    <3>4. QED
      BY <3>1, <3>2, <3>3
  <2>4. IsTable(U, s, b, m + 1)
    <3>1. U = [i \in 0..(m + 1) |-> U[i]]
      OBVIOUS
    <3> HIDE DEF U
    <3>2. QED
      BY <2>3, <3>1 DEF IsTable
  <2>5. Has(m + 1)
    BY <2>4
  <2> HIDE DEF Has
  <2>6. QED
    BY <2>5
<1>3. Nat \subseteq N
  <2> HIDE DEF N
  <2>1. QED
    BY <1>1, <1>2, NatSetInduction
<1>4. QED
  BY <1>3

\* The rows after the first n tasks, for a table whose new events are new to it.
Inserted(t, s, b, n) ==
  /\ t \in Seq(Events)
  /\ Extends(t, s)
  /\ Elems(t) = Elems(s) \cup {b[i].event : i \in 1..n}

NewToTable(s, b) ==
  \A i \in DOMAIN b : b[i].replay = None =>
     /\ b[i].event \notin Elems(s)
     /\ \A j \in 1..(i - 1) : b[j].event # b[i].event

\* The insertion of n tasks, by induction on n.
LEMMA InsertMany ==
  ASSUME NEW s \in Seq(Events), NEW b \in Seq(Task), NEW T, IsTable(T, s, b, Len(b)),
         NEW n \in 0..Len(b)
  PROVE  /\ Inserted(T[n], s, b, n)
         /\ Distinct(s) /\ NewToTable(s, b) => Distinct(T[n])
<1> DEFINE Good(m) == /\ Inserted(T[m], s, b, m)
                      /\ Distinct(s) /\ NewToTable(s, b) => Distinct(T[m])
           N == {m \in Nat : m <= Len(b) => Good(m)}
<1>0. \A i \in 0..Len(b) : T[i] = IF i = 0 THEN s ELSE Insert(T[i - 1], b[i])
  BY DEF IsTable
<1>1. 0 \in N
  <2>1. T[0] = s
    BY <1>0
  <2>2. Inserted(s, s, b, 0)
    BY DEF Inserted, Extends
  <2>3. Good(0)
    BY <2>1, <2>2
  <2> HIDE DEF Good
  <2>4. QED
    BY <2>3
<1>2. ASSUME NEW m \in Nat, m \in N PROVE m + 1 \in N
  <2>1. SUFFICES ASSUME m + 1 <= Len(b) PROVE Good(m + 1)
    <3> HIDE DEF Good
    <3>1. QED
      OBVIOUS
  <2>2. Good(m)
    <3> HIDE DEF Good
    <3>1. QED
      BY <1>2, <2>1
  <2> DEFINE k == b[m + 1]
  <2>3. T[m + 1] = Insert(T[m], k) /\ k \in Task
    <3>1. m + 1 \in 0..Len(b) /\ m + 1 # 0 /\ (m + 1) - 1 = m /\ m + 1 \in DOMAIN b
      BY <2>1
    <3>2. QED
      BY <1>0, <3>1
  <2>4. T[m] \in Seq(Events)
    BY <2>2 DEF Inserted
  <2>5. /\ Insert(T[m], k) \in Seq(Events)
        /\ Extends(Insert(T[m], k), T[m])
        /\ Elems(Insert(T[m], k)) = Elems(T[m]) \cup {k.event}
        /\ Distinct(T[m]) /\ (k.replay = None => k.event \notin Elems(T[m]))
              => Distinct(Insert(T[m], k))
    <3> HIDE DEF k
    <3>1. QED
      BY <2>3, <2>4, InsertOne
  <2>6. {b[i].event : i \in 1..(m + 1)} = {b[i].event : i \in 1..m} \cup {k.event}
    <3>1. 1..(m + 1) = 1..m \cup {m + 1}
      OBVIOUS
    <3>2. QED
      BY <3>1
  <2>7. Inserted(T[m + 1], s, b, m + 1)
    <3>1. Extends(Insert(T[m], k), s)
      <4>1. Extends(T[m], s)
        BY <2>2 DEF Inserted
      <4> HIDE DEF k
      <4>2. QED
        BY <2>4, <2>5, <4>1 DEF Extends
    <3>2. Elems(T[m]) = Elems(s) \cup {b[i].event : i \in 1..m}
      BY <2>2 DEF Inserted
    <3>3. QED
      BY <2>3, <2>5, <2>6, <3>1, <3>2 DEF Inserted
  <2>8. ASSUME Distinct(s), NewToTable(s, b) PROVE Distinct(T[m + 1])
    <3>1. ASSUME k.replay = None PROVE k.event \notin Elems(T[m])
      <4>1. m + 1 \in DOMAIN b /\ (m + 1) - 1 = m
        BY <2>1
      <4>2. k.event \notin Elems(s) /\ \A j \in 1..m : b[j].event # k.event
        BY <2>8, <3>1, <4>1 DEF NewToTable
      <4>3. Elems(T[m]) = Elems(s) \cup {b[i].event : i \in 1..m}
        BY <2>2 DEF Inserted
      <4>4. QED
        BY <4>2, <4>3
    <3>2. Distinct(T[m])
      BY <2>2, <2>8
    <3>3. QED
      BY <2>3, <2>5, <3>1, <3>2
  <2>9. QED
    BY <2>7, <2>8
<1>3. Nat \subseteq N
  <2> HIDE DEF N
  <2>1. QED
    BY <1>1, <1>2, NatSetInduction
<1>4. n \in N /\ n <= Len(b)
  BY <1>3
<1>5. QED
  <2> HIDE DEF Good
  <2>1. Good(n)
    BY <1>4
  <2>2. QED
    BY <2>1 DEF Good

\* The table that a committed transaction leaves.
LEMMA InsertionTable ==
  ASSUME rows \in Seq(Events), writer.batch \in Seq(Task)
  PROVE  /\ Insertion \in Seq(Events)
         /\ Extends(Insertion, rows)
         /\ Elems(Insertion) = Elems(rows) \cup {writer.batch[i].event : i \in DOMAIN writer.batch}
         /\ Distinct(rows) /\ NewToTable(rows, writer.batch) => Distinct(Insertion)
<1> DEFINE b == writer.batch
<1> DEFINE T == CHOOSE T : IsTable(T, rows, b, Len(b))
<1>1. IsTable(T, rows, b, Len(b))
  <2>1. Len(b) \in Nat
    OBVIOUS
  <2>2. \E t : IsTable(t, rows, b, Len(b))
    <3> HIDE DEF b
    <3>1. QED
      BY <2>1, TableExists
  <2>3. QED
    BY <2>2, Zenon
<1>2. Insertion = T[Len(b)]
  BY DEF Insertion, IsTable
<1>3. Len(b) \in 0..Len(b) /\ DOMAIN b = 1..Len(b)
  OBVIOUS
<1>4. /\ Inserted(T[Len(b)], rows, b, Len(b))
      /\ Distinct(rows) /\ NewToTable(rows, b) => Distinct(T[Len(b)])
  <2>1. b \in Seq(Task)
    OBVIOUS
  <2> HIDE DEF T, b
  <2>2. QED
    BY <1>1, <1>3, <2>1, InsertMany
<1> HIDE DEF T
<1>5. QED
  BY <1>2, <1>3, <1>4, Zenon DEF Inserted

\* The newest id that the transaction of a batch touches.
LEMMA LastInsertedIs ==
  ASSUME rows \in Seq(Events), writer.batch \in Seq(Task), writer.batch # <<>>
  PROVE  /\ LastInserted \in DOMAIN Insertion
         /\ \A i \in DOMAIN writer.batch :
              IdOf(Insertion, writer.batch[i].event) <= LastInserted
<1> DEFINE b == writer.batch
           ids == {IdOf(Insertion, b[i].event) : i \in DOMAIN b}
<1>1. ASSUME NEW i \in DOMAIN b PROVE IdOf(Insertion, b[i].event) \in DOMAIN Insertion
  <2>1. b[i].event \in Elems(Insertion)
    BY InsertionTable
  <2>2. \E k \in DOMAIN Insertion : Insertion[k] = b[i].event
    BY <2>1 DEF Elems
  <2>3. QED
    BY <2>2 DEF IdOf
<1>2. DOMAIN Insertion = 1..Len(Insertion) /\ Len(Insertion) \in Nat
  BY InsertionTable
<1>3. ids \in SUBSET Nat /\ \A m \in ids : m <= Len(Insertion)
  BY <1>1, <1>2
<1>4. ids # {}
  <2>1. 1 \in DOMAIN b
    OBVIOUS
  <2>2. QED
    BY <2>1
<1>5. \E n \in ids : \A m \in ids : m <= n
  <2> HIDE DEF ids
  <2>1. QED
    BY <1>2, <1>3, <1>4, LargestExists
<1>6. LastInserted \in ids /\ \A m \in ids : m <= LastInserted
  BY <1>5 DEF LastInserted
<1>7. QED
  BY <1>1, <1>6

\* Without duplicate rows, the new watermark is the number of rows.
LEMMA WatermarkIs ==
  ASSUME rows \in Seq(Events), writer.batch \in Seq(Task), writer.batch # <<>>,
         Distinct(Insertion)
  PROVE  Larger(Len(rows), LastInserted) = Len(Insertion)
<1> DEFINE b == writer.batch
<1>1. /\ Insertion \in Seq(Events) /\ Len(rows) <= Len(Insertion)
      /\ \A i \in DOMAIN rows : Insertion[i] = rows[i]
  BY InsertionTable DEF Extends
<1>2. LastInserted \in 1..Len(Insertion)
  BY <1>1, LastInsertedIs
<1>3. CASE Len(rows) = Len(Insertion)
  BY <1>2, <1>3 DEF Larger
<1>4. CASE Len(rows) < Len(Insertion)
  <2> DEFINE n == Len(Insertion)
  <2>1. n \in DOMAIN Insertion /\ n \in Nat
    BY <1>1, <1>4
  <2>2. Insertion[n] \notin Elems(rows)
    <3>1. ASSUME NEW i \in DOMAIN rows, rows[i] = Insertion[n] PROVE FALSE
      <4>1. i \in DOMAIN Insertion /\ i # n /\ Insertion[i] = Insertion[n]
        BY <1>1, <1>4, <3>1
      <4>2. QED
        BY <2>1, <4>1 DEF Distinct
    <3>2. QED
      BY <3>1 DEF Elems
  <2>3. Insertion[n] \in Elems(Insertion)
    BY <2>1 DEF Elems
  <2>4. PICK i \in DOMAIN b : b[i].event = Insertion[n]
    BY <2>2, <2>3, InsertionTable
  <2>5. IdOf(Insertion, b[i].event) = n
    BY <2>1, <2>4 DEF IdOf, Distinct
  <2>6. n <= LastInserted
    BY <2>4, <2>5, LastInsertedIs
  <2>7. QED
    BY <1>2, <1>4, <2>6 DEF Larger
<1>5. QED
  BY <1>1, <1>3, <1>4

-----------------------------------------------------------------------------
(***************************************************************************)
(* Types, and the shape of the goroutines' positions.                      *)
(***************************************************************************)
FeederType == [pc : {"off", "begin", "merge", "unlink", "scan", "open", "feed",
                     "exist", "wait", "exiting"},
               replay : Replays \cup {None}, rest : Seq(Events),
               attached : BOOLEAN, left : Int]
ReplayType == [live : BOOLEAN, remaining : Nat, read : BOOLEAN, keep : BOOLEAN,
               failed : Seq(Events)]
WriterType == [pc : {"select", "collect", "persist", "commit", "settle", "blocked",
                     "final", "done"},
               batch : Seq(Task), taken : Nat, snap : Snapshot \cup {None}, ok : BOOLEAN]

\* TypeOK with its record types named.
Typed ==
  /\ rows \in Seq(Events) /\ active \in Seq(Events) /\ replayFile \in Seq(Events)
  /\ saved \in Snapshot \cup {None}
  /\ phase \in {"up", "stopping", "down"}
  /\ counted \in Counts /\ lastId \in Nat
  /\ queue \in Seq(Task) /\ queueBytes \in Nat /\ writer \in WriterType
  /\ spoolQueue \in Seq(Events) /\ spoolBytes \in Nat
  /\ spooling \in Events \cup {None} /\ spoolDone \in BOOLEAN
  /\ pending \in Nat /\ handoff \subseteq Events
  /\ feeder \in [Feeders -> FeederType] /\ replay \in [Replays -> ReplayType]
  /\ spoolMu \in Feeders \cup {None}
  /\ recorded \subseteq Events /\ dropped \subseteq Events
  /\ crashed \subseteq Events /\ diverted \subseteq Events
  /\ late \subseteq Events /\ early \subseteq Events
  /\ overlapped \in BOOLEAN
  /\ faults \in 0..MaxFaults /\ starts \in 0..MaxStarts

\* Naming the record types changes nothing.
LEMMA TypedIsTypeOK == Typed = TypeOK
BY DEF Typed, TypeOK, FeederType, ReplayType, WriterType

\* Where the writer is decides what it holds; the spool worker ends with nothing
\* in hand; a process that is down has lost its memory.
Positions ==
  /\ writer.pc \in {"collect", "commit", "blocked"} => writer.batch # <<>>
  /\ writer.pc \in {"select", "final", "done"} => writer.batch = <<>> /\ writer.taken = 0
  /\ writer.pc = "done" => queue = <<>> /\ phase = "stopping"
  /\ writer.pc = "blocked" => phase = "up" /\ Current.replay = None /\ ~writer.ok
  /\ spoolDone => phase = "stopping" /\ spooling = None /\ spoolQueue = <<>>
  /\ phase = "down" => /\ writer = IdleWriter /\ queue = <<>> /\ spoolQueue = <<>>
                       /\ spooling = None /\ handoff = {}

\* A feeder from the first scan to the end of the second one has a replay object,
\* and only in the second one has it the file open.
Holding(F) == F.pc \in {"open", "feed"}
Placed(F) ==
  /\ Holding(F) => F.replay \in Replays
  /\ F.pc # "feed" => F.rest = <<>> /\ ~F.attached

Shape == Positions /\ \A g \in Feeders : Placed(feeder[g])

\* The initial records have their types.
LEMMA TypesOfInitials ==
  /\ IdleFeeder \in FeederType /\ NoReplay \in ReplayType /\ IdleWriter \in WriterType
BY DEF IdleFeeder, NoReplay, IdleWriter, FeederType, ReplayType, WriterType

\* A count of rows is a number.
LEMMA CountsOfRows ==
  ASSUME Typed, NEW from
  PROVE  RowCount(from) \in Counts
<1>1. ASSUME NEW e \in Events
      PROVE  Cardinality({i \in DOMAIN rows : i > from /\ rows[i] = e}) \in Nat
  <2>1. IsFiniteSet(DOMAIN rows)
    <3>1. DOMAIN rows = 1..Len(rows) /\ Len(rows) \in Int
      BY DEF Typed
    <3>2. QED
      BY <3>1, FS_Interval
  <2>2. IsFiniteSet({i \in DOMAIN rows : i > from /\ rows[i] = e})
    BY <2>1, FS_Subset
  <2>3. QED
    BY <2>2, FS_CardinalityType
<1>2. QED
  BY <1>1 DEF RowCount, Counts

\* The recovered aggregate is an aggregate.
LEMMA RecoveredType ==
  ASSUME Typed
  PROVE  Recovered \in Counts
<1>1. ASSUME saved # None PROVE saved.agg \in Counts
  BY <1>1 DEF Typed, Snapshot
<1>2. \A n : RowCount(n) \in Counts
  BY CountsOfRows
<1>3. QED
  BY <1>1, <1>2 DEF Recovered, Counts

\* The operators on feeders keep their type.
LEMMA FeederOperators ==
  ASSUME NEW f \in [Feeders -> FeederType]
  PROVE  /\ Scheduled(f) \in [Feeders -> FeederType]
         /\ Detached(f) \in [Feeders -> FeederType]
         /\ \A R : FeedersAfter(R, f) \in [Feeders -> FeederType]
<1>1. ASSUME NEW h \in [Feeders -> FeederType]
      PROVE  Scheduled(h) \in [Feeders -> FeederType]
  <2>1. [IdleFeeder EXCEPT !.pc = "begin"] \in FeederType
    BY TypesOfInitials DEF FeederType
  <2>2. QED
    BY <2>1 DEF Scheduled
<1>2. Detached(f) \in [Feeders -> FeederType]
  BY DEF Detached, FeederType
<1>3. QED
  BY <1>1, <1>2 DEF FeedersAfter

\* So do the ones that move one feeder.
LEMMA FeederMoves ==
  ASSUME feeder \in [Feeders -> FeederType], NEW g \in Feeders
  PROVE  /\ Returned(g) \in [Feeders -> FeederType]
         /\ \A pc \in {"begin", "merge", "unlink", "scan", "wait", "exiting"} :
              Goto(g, pc) \in [Feeders -> FeederType]
<1>1. \A pc \in {"exist", "off"} : [IdleFeeder EXCEPT !.pc = pc] \in FeederType
  BY TypesOfInitials DEF FeederType
<1>2. Returned(g) \in [Feeders -> FeederType]
  BY <1>1 DEF Returned
<1>3. ASSUME NEW pc \in {"begin", "merge", "unlink", "scan", "wait", "exiting"}
      PROVE  Goto(g, pc) \in [Feeders -> FeederType]
  <2>1. [feeder[g] EXCEPT !.pc = pc] \in FeederType
    BY DEF FeederType
  <2>2. Goto(g, pc) = [feeder EXCEPT ![g] = [feeder[g] EXCEPT !.pc = pc]]
    BY DEF Goto
  <2>3. QED
    BY <2>1, <2>2
<1>4. QED
  BY <1>2, <1>3

\* Settling a replay keeps the types.
LEMMA SettleTypes ==
  ASSUME Typed, NEW r \in Replays, NEW R \in ReplayType, SettleReplay(r, R)
  PROVE  replay' \in [Replays -> ReplayType] /\ replayFile' \in Seq(Events)
<1>1. replay \in [Replays -> ReplayType] /\ replayFile \in Seq(Events)
  BY DEF Typed
<1>2. FileAfter(R) \in Seq(Events)
  BY <1>1 DEF FileAfter, ReplayType
<1>3. QED
  BY <1>1, <1>2, TypesOfInitials DEF SettleReplay

\* So does cancelling the rest of it.
LEMMA CancelTypes ==
  ASSUME Typed, NEW g \in Feeders, feeder[g].replay \in Replays, Cancel(g)
  PROVE  /\ replay' \in [Replays -> ReplayType] /\ replayFile' \in Seq(Events)
         /\ feeder' \in [Feeders -> FeederType] /\ pending' \in Nat
<1> DEFINE r == feeder[g].replay
           R == replay[r]
           count == IF feeder[g].left > R.remaining THEN R.remaining ELSE feeder[g].left
           after == [R EXCEPT !.remaining = @ - count, !.keep = TRUE, !.read = TRUE]
<1>1. /\ feeder \in [Feeders -> FeederType] /\ replay \in [Replays -> ReplayType]
      /\ pending \in Nat
  BY DEF Typed
<1>2. CASE feeder[g].left <= 0
  BY <1>1, <1>2, FeederMoves DEF Cancel, Typed
<1>3. CASE ~(feeder[g].left <= 0)
  <2>1. R \in ReplayType /\ R.remaining \in Nat /\ feeder[g].left \in Int
    BY <1>1 DEF ReplayType, FeederType
  <2>2. after \in ReplayType /\ count \in Nat
    <3>1. count \in Nat /\ R.remaining - count \in Nat
      BY <2>1, <1>3
    <3> HIDE DEF count, R
    <3>2. QED
      BY <2>1, <3>1 DEF ReplayType
  <2>3. /\ SettleReplay(r, after) /\ feeder' = FeedersAfter(after, Returned(g))
        /\ pending' = FinishSpool(count)
    BY <1>3 DEF Cancel
  <2> HIDE DEF after, count
  <2>4. pending' \in Nat
    BY <1>1, <2>2, <2>3 DEF FinishSpool, AtLeast0, Larger
  <2>5. feeder' \in [Feeders -> FeederType]
    BY <1>1, <2>3, FeederMoves, FeederOperators
  <2>6. QED
    BY <2>2, <2>3, <2>4, <2>5, SettleTypes
<1>4. QED
  BY <1>2, <1>3

\* A write of the spool file keeps the types.
LEMMA WriteSpoolTypes ==
  ASSUME Typed, NEW e \in Events, WriteSpool(e)
  PROVE  /\ active' \in Seq(Events) /\ feeder' \in [Feeders -> FeederType]
         /\ dropped' \subseteq Events /\ faults' \in 0..MaxFaults
<1>1. /\ feeder \in [Feeders -> FeederType] /\ active \in Seq(Events)
      /\ Append(active, e) \in Seq(Events)
  BY DEF Typed
<1>2. faults \in 0..MaxFaults /\ (MayGoWrong => faults + 1 \in 0..MaxFaults)
  BY PipelineAssumption DEF Typed, MayGoWrong
<1>3. QED
  BY <1>1, <1>2, FeederOperators DEF WriteSpool, CountDrop, Typed

\* The initial state has the types and the shape.
LEMMA TypeInit ==
  ASSUME Init
  PROVE  Typed /\ Shape
<1>1. /\ feeder \in [Feeders -> FeederType] /\ replay \in [Replays -> ReplayType]
      /\ writer \in WriterType /\ counted \in Counts
  BY TypesOfInitials DEF Init, Counts
<1>2. 0 \in 0..MaxFaults /\ 0 \in 0..MaxStarts
  BY PipelineAssumption
<1>3. Typed
  <2>1. <<>> \in Seq(Task) /\ <<>> \in Seq(Events)
    OBVIOUS
  <2>2. Init
    OBVIOUS
  <2>3. /\ rows \in Seq(Events) /\ active \in Seq(Events) /\ replayFile \in Seq(Events)
        /\ queue \in Seq(Task) /\ spoolQueue \in Seq(Events)
    BY <2>1, <2>2, Zenon DEF Init
  <2>6. /\ saved \in Snapshot \cup {None} /\ spooling \in Events \cup {None}
        /\ spoolMu \in Feeders \cup {None} /\ handoff \subseteq Events
    BY <2>2, Zenon DEF Init
  <2>7. /\ phase \in {"up", "stopping", "down"} /\ spoolDone \in BOOLEAN
        /\ lastId \in Nat /\ queueBytes \in Nat /\ spoolBytes \in Nat /\ pending \in Nat
    <3>1. /\ phase = "down" /\ spoolDone = FALSE /\ lastId = 0 /\ queueBytes = 0
          /\ spoolBytes = 0 /\ pending = 0
      BY <2>2, Zenon DEF Init
    <3>2. QED
      BY <3>1
  <2>4. /\ recorded \subseteq Events /\ dropped \subseteq Events
        /\ crashed \subseteq Events /\ diverted \subseteq Events
        /\ late \subseteq Events /\ early \subseteq Events /\ overlapped \in BOOLEAN
        /\ faults \in 0..MaxFaults /\ starts \in 0..MaxStarts
    BY <1>2, <2>2 DEF Init
  <2>5. QED
    BY <1>1, <2>3, <2>4, <2>6, <2>7 DEF Typed
<1>4. Shape
  BY DEF Init, Shape, Positions, Placed, Holding, IdleWriter, IdleFeeder
<1>5. QED
  BY <1>3, <1>4

\* So has a memory that was cleared.
LEMMA ClearedTypes ==
  ASSUME MemoryCleared
  PROVE  /\ queue' \in Seq(Task) /\ queueBytes' \in Nat /\ writer' \in WriterType
         /\ spoolQueue' \in Seq(Events) /\ spoolBytes' \in Nat /\ spooling' \in Events \cup {None}
         /\ spoolDone' \in BOOLEAN /\ pending' \in Nat /\ handoff' \subseteq Events
         /\ replay' \in [Replays -> ReplayType] /\ spoolMu' \in Feeders \cup {None}
<1>1. /\ queue' = <<>> /\ queueBytes' = 0 /\ writer' = IdleWriter
      /\ spoolQueue' = <<>> /\ spoolBytes' = 0 /\ spooling' = None /\ spoolDone' = FALSE
      /\ pending' = 0 /\ handoff' = {}
      /\ replay' = [r \in Replays |-> NoReplay] /\ spoolMu' = None
  BY DEF MemoryCleared
<1>2. <<>> \in Seq(Task) /\ <<>> \in Seq(Events)
  OBVIOUS
<1>3. [r \in Replays |-> NoReplay] \in [Replays -> ReplayType]
  BY TypesOfInitials
<1>4. QED
  BY <1>1, <1>2, <1>3, TypesOfInitials

\* The events of tasks are events.
LEMMA NewEventsType ==
  ASSUME NEW s \in Seq(Task)
  PROVE  NewEvents(s) \subseteq Events
<1>1. \A i \in DOMAIN s : s[i] \in Task
  OBVIOUS
<1>2. QED
  BY <1>1 DEF NewEvents, Task

\* A writer with a new batch is a writer.
LEMMA WriterMoves ==
  ASSUME NEW w \in WriterType, NEW b \in Seq(Task), NEW n \in Nat
  PROVE  [w EXCEPT !.pc = "collect", !.batch = b, !.taken = n] \in WriterType
BY DEF WriterType

\* The bound on faults is kept by a step that is one.
LEMMA FaultCounted ==
  ASSUME Typed, faults' = faults \/ (MayGoWrong /\ faults' = faults + 1)
  PROVE  faults' \in 0..MaxFaults
<1>1. faults \in Nat /\ MaxFaults \in Nat /\ faults <= MaxFaults
  BY PipelineAssumption DEF Typed
<1>2. QED
  BY <1>1 DEF MayGoWrong

\* Types: a start, an end or a crash of the process.
LEMMA ProcessTypes ==
  ASSUME Typed, Start \/ Stopped \/ Crash
  PROVE  Typed'
<1>1. CASE Start
  <2>1. [IdleFeeder EXCEPT !.pc = "merge"] \in FeederType /\ IdleFeeder \in FeederType
    BY TypesOfInitials DEF FeederType
  <2>2. feeder' \in [Feeders -> FeederType]
    BY <1>1, <2>1 DEF Start
  <2>3. counted' \in Counts /\ saved' \in Snapshot /\ lastId' \in Nat
    <3>1. /\ counted' = Recovered /\ saved' = [agg |-> Recovered, mark |-> Len(rows)]
          /\ lastId' = Larger(Len(rows), IF saved = None THEN 0 ELSE saved.mark)
      BY <1>1 DEF Start
    <3>2. Recovered \in Counts
      BY RecoveredType
    <3>3. Len(rows) \in Nat /\ saved \in Snapshot \cup {None}
      BY DEF Typed
    <3>4. (IF saved = None THEN 0 ELSE saved.mark) \in Nat
      BY <3>3 DEF Snapshot
    <3>5. QED
      BY <3>1, <3>2, <3>3, <3>4 DEF Snapshot, Larger
  <2>4. starts' \in 0..MaxStarts
    <3>1. starts' = starts + 1 /\ starts < MaxStarts
      BY <1>1 DEF Start
    <3>2. QED
      BY <3>1, PipelineAssumption DEF Typed
  <2>5. MemoryCleared
    BY <1>1 DEF Start
  <2>6. QED
    BY <1>1, <2>2, <2>3, <2>4, <2>5, ClearedTypes
       DEF Start, Typed, ledger
<1>2. CASE Stopped \/ Crash
  <2>1. feeder' \in [Feeders -> FeederType] /\ MemoryCleared
    BY <1>2, TypesOfInitials DEF Stopped, Crash
  <2>2. crashed' \subseteq Events
    <3>1. InMemory \subseteq Events
      <4>1. NewEvents(queue) \subseteq Events /\ NewEvents(writer.batch) \subseteq Events
        BY NewEventsType DEF Typed, WriterType
      <4>2. Elems(spoolQueue) \subseteq Events
        BY DEF Typed, Elems
      <4>3. QED
        BY <4>1, <4>2 DEF InMemory, Typed
    <3>2. QED
      BY <1>2, <3>1 DEF Stopped, Crash, ledger, Typed
  <2>3. QED
    BY <1>2, <2>1, <2>2, ClearedTypes
       DEF Stopped, Crash, Typed, ledger, disk
<1>3. QED
  BY <1>1, <1>2

\* Types: a stop request, the end, a prune.
LEMMA ControlTypes ==
  ASSUME Typed, Stop \/ Ended \/ PruneSQLite
  PROVE  Typed'
<1> USE DEF Typed
<1>1. CASE Stop \/ Ended
  BY <1>1 DEF Stop, Ended, vars, disk, wvars, svars, rvars, ledger
<1>2. CASE PruneSQLite
  <2>1. saved' \in Snapshot
    BY <1>2 DEF PruneSQLite, Snapshot
  <2>2. early' \subseteq Events
    <3>1. NewEvents(queue) \subseteq Events /\ NewEvents(writer.batch) \subseteq Events
      BY NewEventsType DEF Typed, WriterType
    <3>2. QED
      BY <1>2, <3>1 DEF PruneSQLite
  <2>3. faults' \in 0..MaxFaults
    BY <1>2, PipelineAssumption DEF PruneSQLite, MayGoWrong
  <2>4. QED
    BY <1>2, <2>1, <2>2, <2>3 DEF PruneSQLite, wvars, svars, rvars
<1>3. QED
  BY <1>1, <1>2

\* Types: Record and its hand-off.
LEMMA RecordTypes ==
  ASSUME Typed, NEW e \in Events, Record(e) \/ RecordLate(e) \/ HandOff(e) \/ HandOffDrop(e)
  PROVE  Typed'
<1> USE DEF Typed
<1>1. ASSUME counted' = [counted EXCEPT ![e] = @ + 1] PROVE counted' \in Counts
  BY <1>1 DEF Counts
<1>2. CASE Record(e)
  <2>1. [event |-> e, replay |-> None] \in Task
    BY DEF Task
  <2>2. Append(queue, [event |-> e, replay |-> None]) \in Seq(Task)
    BY <2>1
  <2>3. queue' \in Seq(Task) /\ queueBytes' \in Nat
    <3>1. \/ queue' = queue /\ queueBytes' = queueBytes
          \/ /\ queue' = Append(queue, [event |-> e, replay |-> None])
             /\ queueBytes' = queueBytes + 1
      BY <1>2 DEF Record
    <3>2. queue \in Seq(Task) /\ queueBytes \in Nat /\ queueBytes + 1 \in Nat
      OBVIOUS
    <3>3. QED
      BY <2>2, <3>1, <3>2, Zenon
  <2>4. handoff' \subseteq Events /\ diverted' \subseteq Events /\ recorded' \subseteq Events
    BY <1>2 DEF Record
  <2>5. QED
    BY <1>1, <1>2, <2>3, <2>4 DEF Record, disk, svars, rvars
<1>3. CASE RecordLate(e)
  BY <1>1, <1>3 DEF RecordLate, disk, wvars, svars, rvars
<1>4. CASE HandOff(e)
  BY <1>4 DEF HandOff, disk, wvars, rvars, ledger
<1>5. CASE HandOffDrop(e)
  BY <1>5 DEF HandOffDrop, CountDrop, disk, wvars, svars, rvars
<1>6. QED
  BY <1>2, <1>3, <1>4, <1>5

\* Types: the writer.
LEMMA WriterTypes ==
  ASSUME Typed, Shape, WriterStep
  PROVE  Typed'
<1>0. /\ rows \in Seq(Events) /\ writer \in WriterType /\ writer.batch \in Seq(Task)
      /\ queue \in Seq(Task) /\ feeder \in [Feeders -> FeederType]
  BY DEF Typed, WriterType
<1>1. CASE WriterTake
  <2>1. Head(queue) \in Task /\ Tail(queue) \in Seq(Task)
    BY <1>0, <1>1 DEF WriterTake
  <2>2. writer' \in WriterType
    <3>1. <<Head(queue)>> \in Seq(Task)
      BY <2>1
    <3>2. QED
      BY <1>0, <1>1, <3>1, WriterMoves DEF WriterTake
  <2>3. QED
    BY <1>1, <2>1, <2>2 DEF WriterTake, Typed, disk, svars, rvars, ledger
<1>2. CASE WriterCollect
  <2>1. Head(queue) \in Task /\ Tail(queue) \in Seq(Task)
    BY <1>0, <1>2 DEF WriterCollect
  <2>2. Append(writer.batch, Head(queue)) \in Seq(Task)
    BY <1>0, <2>1
  <2>3. writer' \in WriterType
    <3>1. writer' = [writer EXCEPT !.pc = "collect", !.batch = Append(writer.batch, Head(queue)),
                                  !.taken = writer.taken + 1]
      BY <1>0, <1>2 DEF WriterCollect, WriterType
    <3>2. writer.taken + 1 \in Nat
      BY <1>0 DEF WriterType
    <3>3. QED
      BY <1>0, <2>2, <3>1, <3>2, WriterMoves
  <2>4. QED
    BY <1>2, <2>1, <2>3 DEF WriterCollect, Typed, disk, svars, rvars, ledger
<1>3. ASSUME writer.pc \in {"collect", "commit"}
      PROVE  LastInserted \in Nat /\ Larger(lastId, LastInserted) \in Nat
  <2>1. writer.batch # <<>>
    BY <1>3 DEF Shape, Positions
  <2>2. LastInserted \in Nat
    BY <1>0, <2>1, LastInsertedIs, InsertionTable
  <2>3. QED
    BY <2>2 DEF Larger, Typed
<1>4. CASE WriterPersist
  <2>1. PICK due \in BOOLEAN :
          writer' = [writer EXCEPT !.pc = "commit",
                       !.snap = IF due THEN [agg |-> counted, mark |-> Larger(lastId, LastInserted)]
                                ELSE None]
    BY <1>4 DEF WriterPersist
  <2>2. [agg |-> counted, mark |-> Larger(lastId, LastInserted)] \in Snapshot
    BY <1>3, <1>4 DEF WriterPersist, Snapshot, Typed
  <2>3. writer' \in WriterType
    BY <1>0, <2>1, <2>2 DEF WriterType
  <2>4. QED
    BY <1>4, <2>3 DEF WriterPersist, Typed, disk, svars, rvars, ledger
<1>5. CASE WriterCommit
  <2>1. rows' \in Seq(Events)
    BY <1>0, <1>5, InsertionTable DEF WriterCommit
  <2>2. lastId' \in Nat /\ saved' \in Snapshot \cup {None}
    BY <1>3, <1>5 DEF WriterCommit, Typed, WriterType
  <2>3. writer' \in WriterType
    BY <1>0, <1>5 DEF WriterCommit, WriterType
  <2>4. QED
    BY <1>5, <2>1, <2>2, <2>3 DEF WriterCommit, Typed, svars, rvars, ledger
<1>6. CASE WriterFail
  <2>1. writer' \in WriterType
    BY <1>0, <1>6 DEF WriterFail, WriterType
  <2>2. faults' \in 0..MaxFaults
    BY <1>6, FaultCounted DEF WriterFail
  <2>3. QED
    BY <1>6, <2>1, <2>2 DEF WriterFail, Typed, disk, svars, rvars, ledger
<1>7. ASSUME writer.batch # <<>>
      PROVE  Current \in Task /\ NextTask("settle") \in WriterType
  <2>1. Head(writer.batch) \in Task /\ Tail(writer.batch) \in Seq(Task)
    BY <1>0, <1>7
  <2>2. QED
    BY <1>0, <2>1 DEF Current, NextTask, WriterType
<1>8. CASE SettleReplayed
  <2> DEFINE r == Current.replay
             R == replay[r]
             counts == [R EXCEPT !.remaining = AtLeast0(@ - 1)]
  <2>1. r \in Replays /\ Current.event \in Events /\ writer' \in WriterType
    BY <1>7, <1>8 DEF SettleReplayed, Task
  <2>2. R \in ReplayType
    BY <2>1 DEF Typed
  <2>3. counts \in ReplayType
    <3>1. AtLeast0(R.remaining - 1) \in Nat
      BY <2>2 DEF ReplayType, AtLeast0, Larger
    <3> HIDE DEF R
    <3>2. QED
      BY <2>2, <3>1 DEF ReplayType
  <2>4. \A after \in {[counts EXCEPT !.failed = Append(@, Current.event)],
                      [counts EXCEPT !.keep = TRUE]} : after \in ReplayType
    <3>1. Append(counts.failed, Current.event) \in Seq(Events)
      BY <2>1, <2>3 DEF ReplayType
    <3> HIDE DEF counts
    <3>2. QED
      BY <2>3, <3>1 DEF ReplayType
  <2>5. /\ replay' \in [Replays -> ReplayType] /\ replayFile' \in Seq(Events)
        /\ feeder' \in [Feeders -> FeederType] /\ faults' \in 0..MaxFaults
    <3>1. CASE UNCHANGED <<replay, replayFile, feeder, faults>>
      BY <3>1 DEF Typed
    <3>2. CASE SettleReplay(r, counts) /\ feeder' = FeedersAfter(counts, feeder) /\ UNCHANGED faults
      <4> HIDE DEF counts, r
      <4>1. QED
        BY <3>2, <2>1, <2>3, <1>0, SettleTypes, FeederOperators DEF Typed
    <3>3. ASSUME NEW after \in ReplayType, SettleReplay(r, after),
                 feeder' = FeedersAfter(after, feeder),
                 faults' = faults \/ (MayGoWrong /\ faults' = faults + 1)
          PROVE  /\ replay' \in [Replays -> ReplayType] /\ replayFile' \in Seq(Events)
                 /\ feeder' \in [Feeders -> FeederType] /\ faults' \in 0..MaxFaults
      <4>1. faults' \in 0..MaxFaults
        BY <3>3, PipelineAssumption DEF Typed, MayGoWrong
      <4> HIDE DEF r
      <4>2. QED
        BY <3>3, <4>1, <2>1, <1>0, SettleTypes, FeederOperators
    <3>4. QED
      <4>1. \/ UNCHANGED <<replay, replayFile, feeder, faults>>
            \/ SettleReplay(r, counts) /\ feeder' = FeedersAfter(counts, feeder) /\ UNCHANGED faults
            \/ \E after \in {[counts EXCEPT !.failed = Append(@, Current.event)],
                             [counts EXCEPT !.keep = TRUE]} :
                 /\ after.keep # R.keep => MayGoWrong
                 /\ faults' = IF after.keep # R.keep THEN faults + 1 ELSE faults
                 /\ SettleReplay(r, after) /\ feeder' = FeedersAfter(after, feeder)
        BY <1>8 DEF SettleReplayed
      <4> HIDE DEF counts, r, R
      <4>2. QED
        BY <4>1, <3>1, <3>2, <3>3, <2>4
  <2>6. pending' \in Nat
    BY <1>8 DEF SettleReplayed, FinishSpool, AtLeast0, Larger, Typed
  <2>7. QED
    BY <1>8, <2>1, <2>5, <2>6
       DEF SettleReplayed, Typed, svars, ledger
<1>9. CASE SettleStored
  BY <1>7, <1>9 DEF SettleStored, Typed, disk, svars, rvars, ledger
<1>10. CASE SpoolReserve
  <2>1. writer' \in WriterType
    BY <1>0, <1>10 DEF SpoolReserve, WriterType
  <2>2. diverted' \subseteq Events
    BY <1>7, <1>10 DEF SpoolReserve, Task, Typed
  <2>3. QED
    BY <1>10, <2>1, <2>2 DEF SpoolReserve, Typed, disk, rvars
<1>11. CASE SpoolSend
  <2>1. Append(spoolQueue, Current.event) \in Seq(Events) /\ writer' \in WriterType
    BY <1>7, <1>11 DEF SpoolSend, Shape, Positions, Task, Typed
  <2>2. QED
    BY <1>11, <2>1 DEF SpoolSend, Typed, disk, rvars, ledger
<1>12. CASE SpoolSynchronously
  <2>1. Current.event \in Events /\ writer' \in WriterType
    BY <1>7, <1>12 DEF SpoolSynchronously, Task
  <2>2. /\ active' \in Seq(Events) /\ feeder' \in [Feeders -> FeederType]
        /\ dropped' \subseteq Events /\ faults' \in 0..MaxFaults
    BY <1>12, <2>1, WriteSpoolTypes DEF SpoolSynchronously
  <2>3. QED
    BY <1>12, <2>1, <2>2 DEF SpoolSynchronously, Typed, svars
<1>13. CASE WriterBatchDone
  <2>1. queueBytes' \in Nat
    BY <1>13 DEF WriterBatchDone, Released, AtLeast0, Larger, Typed, WriterType
  <2>2. QED
    BY <1>13, <2>1, TypesOfInitials
       DEF WriterBatchDone, Typed, disk, svars, rvars, ledger
<1>14. CASE WriterFinish
  <2>1. writer' \in WriterType
    BY <1>0, <1>14 DEF WriterFinish, WriterType
  <2>2. saved' \in Snapshot \cup {None}
    <3>1. [agg |-> counted, mark |-> IF lastId = 0 THEN Len(rows) ELSE lastId] \in Snapshot
      BY DEF Typed, Snapshot
    <3>2. QED
      BY <1>14, <3>1 DEF WriterFinish, Typed
  <2>3. faults' \in 0..MaxFaults
    BY <1>14, FaultCounted DEF WriterFinish
  <2>4. QED
    BY <1>14, <2>1, <2>2, <2>3 DEF WriterFinish, Typed, svars, rvars, ledger
<1>15. QED
  BY <1>1, <1>2, <1>4, <1>5, <1>6, <1>8, <1>9, <1>10, <1>11, <1>12, <1>13, <1>14 DEF WriterStep

\* Types: the spool worker.
LEMMA SpoolTypes ==
  ASSUME Typed, SpoolStep
  PROVE  Typed'
<1>1. CASE SpoolTake
  <2>1. Head(spoolQueue) \in Events /\ Tail(spoolQueue) \in Seq(Events)
    BY <1>1, ElemsTail DEF SpoolTake, Typed
  <2>2. QED
    BY <1>1, <2>1 DEF SpoolTake, Typed, disk, wvars, rvars, ledger
<1>2. CASE SpoolWrite
  <2>1. spooling \in Events /\ WriteSpool(spooling)
    BY <1>2 DEF SpoolWrite, Typed
  <2>2. pending' \in Nat /\ spoolBytes' \in Nat
    BY <1>2 DEF SpoolWrite, FinishSpool, AtLeast0, Larger, Typed
  <2>3. QED
    BY <1>2, <2>1, <2>2, WriteSpoolTypes DEF SpoolWrite, Typed, wvars
<1>3. CASE SpoolFinish
  BY <1>3 DEF SpoolFinish, Typed, disk, wvars, rvars, ledger
<1>4. QED
  BY <1>1, <1>2, <1>3 DEF SpoolStep

\* Types: a feeder.
LEMMA FeederTypes ==
  ASSUME Typed, Shape, NEW g \in Feeders, FeederStep(g)
  PROVE  Typed'
<1>0. /\ feeder \in [Feeders -> FeederType] /\ replay \in [Replays -> ReplayType]
      /\ active \in Seq(Events) /\ replayFile \in Seq(Events) /\ feeder[g] \in FeederType
  BY DEF Typed
<1>1. CASE Merge(g)
  <2>1. replayFile \o active \in Seq(Events)
    BY <1>0, ElemsConcat
  <2>2. active' \in Seq(Events) /\ replayFile' \in Seq(Events)
    BY <1>0, <1>1, <2>1 DEF Merge
  <2>3. feeder' \in [Feeders -> FeederType]
    <3>1. CASE feeder' = Goto(g, "scan")
      BY <1>0, <3>1, FeederMoves
    <3>2. CASE feeder' = [h \in Feeders |->
                            [Goto(g, "unlink")[h] EXCEPT
                               !.rest = IF feeder[h].attached THEN @ \o active ELSE @]]
      <4>1. Goto(g, "unlink") \in [Feeders -> FeederType]
        BY <1>0, FeederMoves
      <4>2. ASSUME NEW h \in Feeders, NEW F \in FeederType
            PROVE  [F EXCEPT !.rest = IF feeder[h].attached THEN @ \o active ELSE @] \in FeederType
        <5>1. F.rest \in Seq(Events) /\ F.rest \o active \in Seq(Events)
          BY <1>0, ElemsConcat DEF FeederType
        <5>2. \A x \in Seq(Events) : [F EXCEPT !.rest = x] \in FeederType
          BY DEF FeederType
        <5>3. QED
          BY <5>1, <5>2
      <4>3. QED
        BY <3>2, <4>1, <4>2
    <3>3. QED
      BY <1>1, <3>1, <3>2 DEF Merge
  <2>4. spoolMu' \in Feeders \cup {None} /\ overlapped' \in BOOLEAN
    BY <1>1 DEF Merge, Typed
  <2>5. QED
    BY <1>1, <2>2, <2>3, <2>4 DEF Merge, Typed, wvars, svars
<1>2. CASE Unlink(g)
  BY <1>0, <1>2, FeederMoves DEF Unlink, Typed, wvars, svars, ledger
<1>3. CASE Scan(g)
  <2>0. Len(replayFile) \in Nat /\ pending + Len(replayFile) \in Nat /\ pending \in Nat
    BY <1>0 DEF Typed
  <2>1. CASE feeder' = Returned(g) /\ UNCHANGED <<replay, pending>>
    BY <1>0, <1>3, <2>1, FeederMoves DEF Scan, Typed, disk, wvars, svars, ledger
  <2>2. CASE ~(feeder' = Returned(g) /\ UNCHANGED <<replay, pending>>)
    <3>1. PICK r \in Replays :
            /\ replay' = [replay EXCEPT ![r] = [NoReplay EXCEPT
                             !.live = TRUE, !.remaining = Len(replayFile)]]
            /\ feeder' = [feeder EXCEPT ![g].pc = "open", ![g].replay = r,
                                         ![g].left = Len(replayFile)]
            /\ pending' = pending + Len(replayFile)
      BY <1>3, <2>2 DEF Scan
    <3>2. \A n \in Nat : [NoReplay EXCEPT !.live = TRUE, !.remaining = n] \in ReplayType
      BY TypesOfInitials DEF ReplayType
    <3>3. \A F \in FeederType : \A q \in Replays : \A n \in Int :
            [F EXCEPT !.pc = "open", !.replay = q, !.left = n] \in FeederType
      BY DEF FeederType
    <3>4. feeder' = [feeder EXCEPT ![g] = [feeder[g] EXCEPT !.pc = "open", !.replay = r,
                                             !.left = Len(replayFile)]]
      BY <3>1, <1>0
    <3>5. replay' \in [Replays -> ReplayType] /\ feeder' \in [Feeders -> FeederType]
      <4>1. /\ [NoReplay EXCEPT !.live = TRUE, !.remaining = Len(replayFile)] \in ReplayType
            /\ [feeder[g] EXCEPT !.pc = "open", !.replay = r, !.left = Len(replayFile)] \in FeederType
        <5>1. Len(replayFile) \in Int
          BY <2>0
        <5>2. QED
          BY <1>0, <2>0, <3>2, <3>3, <5>1, Zenon
      <4>2. QED
        BY <1>0, <3>1, <3>4, <4>1
    <3>6. QED
      BY <1>3, <2>0, <3>1, <3>5 DEF Scan, Typed, disk, wvars, svars, ledger
  <2>3. QED
    BY <2>1, <2>2
<1>4. CASE Open(g)
  <2>1. CASE Cancel(g)
    <3>1. feeder[g].replay \in Replays
      BY <1>4 DEF Open, Shape, Placed, Holding
    <3>2. QED
      BY <1>4, <2>1, <3>1, CancelTypes DEF Open, Typed, wvars, svars, ledger
  <2>2. CASE ~Cancel(g)
    <3>1. /\ feeder' = [feeder EXCEPT ![g].pc = "feed", ![g].rest = replayFile, ![g].attached = TRUE]
          /\ UNCHANGED <<replay, replayFile, pending>>
      BY <1>4, <2>2 DEF Open
    <3>2. \A F \in FeederType : \A s \in Seq(Events) :
            [F EXCEPT !.pc = "feed", !.rest = s, !.attached = TRUE] \in FeederType
      BY DEF FeederType
    <3>3. feeder' = [feeder EXCEPT ![g] = [feeder[g] EXCEPT !.pc = "feed", !.rest = replayFile,
                                             !.attached = TRUE]]
      BY <3>1, <1>0
    <3>4. feeder' \in [Feeders -> FeederType]
      BY <1>0, <3>2, <3>3
    <3>5. QED
      BY <1>4, <3>1, <3>4 DEF Open, Typed, wvars, svars, ledger
  <2>3. QED
    BY <2>1, <2>2
<1>5. CASE Feed(g)
  <2> DEFINE e == Head(feeder[g].rest)
             t == [event |-> e, replay |-> feeder[g].replay]
  <2>1. feeder[g].rest \in Seq(Events) /\ feeder[g].rest # <<>> /\ feeder[g].left - 1 \in Int
    BY <1>0, <1>5 DEF Feed, FeederType
  <2>2. e \in Events /\ Tail(feeder[g].rest) \in Seq(Events)
    BY <2>1, ElemsTail
  <2>3. t \in Task
    BY <1>0, <2>2 DEF Task, FeederType
  <2>4. queue' = Append(queue, t) /\ queueBytes' = queueBytes + 1
    BY <1>5 DEF Feed
  <2>5. queue' \in Seq(Task) /\ queueBytes' \in Nat
    <3> HIDE DEF t
    <3>1. QED
      BY <2>3, <2>4 DEF Typed
  <2>6. counted' \in Counts
    <3>1. counted' = counted \/ counted' = [counted EXCEPT ![e] = @ + 1]
      BY <1>5 DEF Feed
    <3>2. \A x \in Events : [counted EXCEPT ![x] = @ + 1] \in Counts
      BY DEF Typed, Counts
    <3> HIDE DEF e
    <3>3. QED
      BY <2>2, <3>1, <3>2 DEF Typed
  <2>7. feeder' \in [Feeders -> FeederType]
    <3>1. feeder' = [feeder EXCEPT ![g] = [feeder[g] EXCEPT !.rest = Tail(feeder[g].rest),
                                             !.left = feeder[g].left - 1]]
      BY <1>0, <1>5 DEF Feed
    <3>2. \A F \in FeederType : \A s \in Seq(Events) : \A n \in Int :
            [F EXCEPT !.rest = s, !.left = n] \in FeederType
      BY DEF FeederType
    <3>3. QED
      BY <1>0, <2>1, <2>2, <3>1, <3>2
  <2>8. QED
    BY <1>5, <2>5, <2>6, <2>7 DEF Feed, Typed, disk, svars, ledger
<1>6. CASE FeedStop(g)
  <2>1. feeder[g].replay \in Replays /\ Cancel(g)
    BY <1>6 DEF FeedStop, Shape, Placed, Holding
  <2>2. QED
    BY <1>6, <2>1, CancelTypes DEF FeedStop, Typed, wvars, svars, ledger
<1>7. CASE FeedEnd(g)
  <2> DEFINE r == feeder[g].replay
             after == MarkRead(replay[r])
  <2>1. r \in Replays
    BY <1>7 DEF FeedEnd, Shape, Placed, Holding
  <2>2. after \in ReplayType
    BY <1>0, <2>1 DEF MarkRead, ReplayType
  <2>3. SettleReplay(r, after) /\ feeder' = FeedersAfter(after, Returned(g))
    BY <1>7 DEF FeedEnd
  <2>4. /\ replay' \in [Replays -> ReplayType] /\ replayFile' \in Seq(Events)
        /\ feeder' \in [Feeders -> FeederType]
    <3> HIDE DEF after, r
    <3>1. QED
      BY <1>0, <2>1, <2>2, <2>3, SettleTypes, FeederMoves, FeederOperators
  <2>5. QED
    BY <1>7, <2>4 DEF FeedEnd, Typed, wvars, svars, ledger
<1>8. QED
  BY <1>1, <1>2, <1>3, <1>4, <1>5, <1>6, <1>7 DEF FeederStep

\* Types: the retry goroutine.
LEMMA RetryTypes ==
  ASSUME Typed, RetryStep
  PROVE  Typed'
<1>1. "retry" \in Feeders
  BY DEF Feeders
<1>2. ASSUME NEW from, NEW to \in {"merge", "exiting", "wait", "begin"}, Retry(from, to)
      PROVE  Typed'
  BY <1>1, <1>2, FeederMoves DEF Retry, Typed, disk, wvars, svars, ledger
<1>3. CASE RetryExit
  BY <1>1, <1>3, TypesOfInitials DEF RetryExit, Typed, disk, wvars, svars, ledger
<1>4. QED
  BY <1>2, <1>3 DEF RetryStep, RetryBegin, RetryExist, RetryWait

\* The types hold after every step.
LEMMA TypeStep ==
  ASSUME Typed, Shape, Next
  PROVE  Typed'
BY ProcessTypes, ControlTypes, RecordTypes, WriterTypes, SpoolTypes, FeederTypes, RetryTypes
   DEF Next, HandOffStep

\* The types hold after a stuttering step.
LEMMA TypeStutter ==
  ASSUME Typed, UNCHANGED vars
  PROVE  Typed'
BY DEF Typed, vars, disk, wvars, svars, rvars, ledger

\* The operators on feeders leave them placed.
LEMMA PlacedOperators ==
  ASSUME NEW f \in [Feeders -> FeederType], \A h \in Feeders : Placed(f[h])
  PROVE  /\ \A h \in Feeders : Placed(Scheduled(f)[h])
         /\ \A h \in Feeders : Placed(Detached(f)[h])
         /\ \A R : \A h \in Feeders : Placed(FeedersAfter(R, f)[h])
<1>1. Placed([IdleFeeder EXCEPT !.pc = "begin"])
  BY DEF Placed, Holding, IdleFeeder
<1>2. ASSUME NEW u \in [Feeders -> FeederType], \A h \in Feeders : Placed(u[h])
      PROVE  \A h \in Feeders : Placed(Scheduled(u)[h])
  BY <1>1, <1>2 DEF Scheduled
<1>3. \A h \in Feeders : Placed(Detached(f)[h])
  BY DEF Detached, Placed, Holding, FeederType
<1>4. Detached(f) \in [Feeders -> FeederType]
  BY FeederOperators
<1>5. QED
  BY <1>2, <1>3, <1>4 DEF FeedersAfter

\* So do the ones that move one feeder.
LEMMA PlacedMoves ==
  ASSUME feeder \in [Feeders -> FeederType], \A h \in Feeders : Placed(feeder[h]),
         NEW g \in Feeders
  PROVE  /\ \A h \in Feeders : Placed(Returned(g)[h])
         /\ feeder[g].pc # "feed" =>
              \A pc \in {"begin", "merge", "unlink", "scan", "wait", "exiting"} :
                \A h \in Feeders : Placed(Goto(g, pc)[h])
<1>1. \A pc \in {"exist", "off"} : Placed([IdleFeeder EXCEPT !.pc = pc])
  BY DEF Placed, Holding, IdleFeeder
<1>2. \A h \in Feeders : Placed(Returned(g)[h])
  BY <1>1 DEF Returned
<1>3. ASSUME feeder[g].pc # "feed",
             NEW pc \in {"begin", "merge", "unlink", "scan", "wait", "exiting"}
      PROVE  \A h \in Feeders : Placed(Goto(g, pc)[h])
  <2>1. Placed([feeder[g] EXCEPT !.pc = pc])
    BY <1>3 DEF Placed, Holding, FeederType
  <2>2. Goto(g, pc) = [feeder EXCEPT ![g] = [feeder[g] EXCEPT !.pc = pc]]
    BY DEF Goto
  <2>3. QED
    BY <2>1, <2>2
<1>4. QED
  BY <1>2, <1>3

\* The places of the feeders are kept by every step.
LEMMA PlacedStep ==
  ASSUME Typed, \A h \in Feeders : Placed(feeder[h]), Next
  PROVE  \A h \in Feeders : Placed(feeder[h]')
<1>0. feeder \in [Feeders -> FeederType]
  BY DEF Typed
<1>1. CASE UNCHANGED feeder
  BY <1>1
<1>2. CASE Start \/ Stopped \/ Crash
  <2>1. Placed(IdleFeeder) /\ Placed([IdleFeeder EXCEPT !.pc = "merge"])
    BY DEF Placed, Holding, IdleFeeder
  <2>2. QED
    BY <1>2, <2>1 DEF Start, Stopped, Crash
<1>3. ASSUME NEW R, feeder' = FeedersAfter(R, feeder) \/ feeder' = Scheduled(feeder)
      PROVE  \A h \in Feeders : Placed(feeder[h]')
  BY <1>0, <1>3, PlacedOperators
<1>4. CASE WriterStep
  <2>1. CASE SettleReplayed
    BY <1>1, <1>3, <2>1 DEF SettleReplayed
  <2>2. CASE SpoolSynchronously
    BY <1>1, <1>3, <2>2 DEF SpoolSynchronously, WriteSpool
  <2>3. QED
    BY <1>1, <1>4, <2>1, <2>2
       DEF WriterStep, WriterTake, WriterCollect, WriterPersist, WriterCommit, WriterFail,
           SettleStored, SpoolReserve, SpoolSend, WriterBatchDone, WriterFinish, rvars
<1>5. CASE SpoolStep
  BY <1>1, <1>3, <1>5 DEF SpoolStep, SpoolTake, SpoolWrite, SpoolFinish, WriteSpool, rvars
<1>6. ASSUME NEW g \in Feeders, NEW R,
             feeder' = Returned(g) \/ feeder' = FeedersAfter(R, Returned(g))
      PROVE  \A h \in Feeders : Placed(feeder[h]')
  BY <1>0, <1>6, PlacedMoves, FeederMoves, PlacedOperators
<1>7. ASSUME NEW g \in Feeders, feeder[g].pc # "feed",
             NEW pc \in {"begin", "merge", "unlink", "scan", "wait", "exiting"},
             feeder' = Goto(g, pc)
      PROVE  \A h \in Feeders : Placed(feeder[h]')
  BY <1>0, <1>7, PlacedMoves
<1>8. ASSUME NEW g \in Feeders, FeederStep(g)
      PROVE  \A h \in Feeders : Placed(feeder[h]')
  <2>1. CASE Merge(g)
    <3>1. feeder[g].pc = "merge"
      BY <2>1 DEF Merge
    <3>2. CASE feeder' = Goto(g, "scan")
      BY <1>7, <3>1, <3>2
    <3>3. CASE feeder' = [h \in Feeders |->
                            [Goto(g, "unlink")[h] EXCEPT
                               !.rest = IF feeder[h].attached THEN @ \o active ELSE @]]
      <4>1. /\ Goto(g, "unlink") \in [Feeders -> FeederType]
            /\ \A h \in Feeders : Placed(Goto(g, "unlink")[h])
        BY <1>0, <3>1, FeederMoves, PlacedMoves
      <4>2. ASSUME NEW h \in Feeders, feeder[h].attached, Goto(g, "unlink")[h].pc # "feed"
            PROVE  FALSE
        <5>1. feeder[h].pc = "feed"
          BY <4>2 DEF Placed
        <5>2. h # g
          BY <3>1, <5>1
        <5>3. QED
          BY <1>0, <4>2, <5>1, <5>2 DEF Goto
      <4>3. ASSUME NEW h \in Feeders, NEW s, NEW F \in FeederType, Placed(F),
                   F.pc # "feed" => s = F.rest
            PROVE  Placed([F EXCEPT !.rest = s])
        BY <4>3 DEF Placed, Holding, FeederType
      <4>4. ASSUME NEW h \in Feeders
            PROVE  Placed(feeder[h]')
        <5> DEFINE F == Goto(g, "unlink")[h]
                   s == IF feeder[h].attached THEN F.rest \o active ELSE F.rest
        <5>1. F.pc # "feed" => s = F.rest
          BY <4>2
        <5>2. feeder'[h] = [F EXCEPT !.rest = s]
          BY <3>3
        <5>3. F \in FeederType /\ Placed(F)
          BY <4>1
        <5> HIDE DEF F, s
        <5>4. QED
          BY <4>3, <5>1, <5>2, <5>3
      <4>5. QED
        BY <4>4
    <3>4. QED
      BY <2>1, <3>2, <3>3 DEF Merge
  <2>2. CASE Unlink(g)
    BY <1>7, <2>2 DEF Unlink
  <2>3. CASE Scan(g)
    <3>1. CASE feeder' = Returned(g)
      BY <1>6, <3>1
    <3>2. ASSUME NEW r \in Replays, NEW n,
                 feeder' = [feeder EXCEPT ![g].pc = "open", ![g].replay = r, ![g].left = n]
          PROVE  \A h \in Feeders : Placed(feeder[h]')
      <4>0. feeder[g].rest = <<>> /\ ~feeder[g].attached /\ feeder[g] \in FeederType
        BY <1>0, <2>3 DEF Scan, Placed
      <4>1. Placed([feeder[g] EXCEPT !.pc = "open", !.replay = r, !.left = n])
        BY <4>0 DEF Placed, Holding, FeederType
      <4>2. feeder' = [feeder EXCEPT ![g] = [feeder[g] EXCEPT !.pc = "open", !.replay = r, !.left = n]]
        BY <1>0, <3>2
      <4>3. QED
        BY <1>0, <4>1, <4>2
    <3>3. QED
      BY <2>3, <3>1, <3>2 DEF Scan
  <2>4. CASE Open(g)
    <3>1. CASE Cancel(g)
      BY <1>6, <3>1 DEF Cancel
    <3>2. CASE feeder' = [feeder EXCEPT ![g].pc = "feed", ![g].rest = replayFile, ![g].attached = TRUE]
      <4>1. Placed([feeder[g] EXCEPT !.pc = "feed", !.rest = replayFile, !.attached = TRUE])
        BY <1>0, <2>4 DEF Open, Placed, Holding, FeederType
      <4>2. feeder' = [feeder EXCEPT ![g] = [feeder[g] EXCEPT !.pc = "feed", !.rest = replayFile,
                                                !.attached = TRUE]]
        BY <1>0, <3>2
      <4>3. QED
        BY <1>0, <4>1, <4>2
    <3>3. QED
      BY <2>4, <3>1, <3>2 DEF Open
  <2>5. CASE Feed(g)
    <3>1. feeder' = [feeder EXCEPT ![g] = [feeder[g] EXCEPT !.rest = Tail(@), !.left = @ - 1]]
      BY <1>0, <2>5 DEF Feed
    <3>2. Placed([feeder[g] EXCEPT !.rest = Tail(@), !.left = @ - 1])
      BY <1>0, <2>5 DEF Feed, Placed, Holding, FeederType
    <3>3. QED
      BY <1>0, <3>1, <3>2
  <2>6. CASE FeedStop(g)
    BY <1>6, <2>6 DEF FeedStop, Cancel
  <2>7. CASE FeedEnd(g)
    BY <1>6, <2>7 DEF FeedEnd
  <2>8. QED
    BY <1>8, <2>1, <2>2, <2>3, <2>4, <2>5, <2>6, <2>7 DEF FeederStep
<1>9. CASE RetryStep
  <2>1. "retry" \in Feeders /\ Placed(IdleFeeder)
    BY DEF Feeders, Placed, Holding, IdleFeeder
  <2>2. CASE RetryExit
    BY <1>0, <2>1, <2>2 DEF RetryExit
  <2>3. CASE ~RetryExit
    BY <1>7, <1>9, <2>1, <2>3 DEF RetryStep, RetryBegin, RetryExist, RetryWait, Retry
  <2>4. QED
    BY <2>2, <2>3
<1>10. ASSUME NEW e \in Events, Record(e) \/ RecordLate(e) \/ HandOffStep(e)
       PROVE  UNCHANGED feeder
  BY <1>10 DEF Record, RecordLate, HandOffStep, HandOff, HandOffDrop, rvars
<1>11. CASE Stop \/ Ended \/ PruneSQLite
  BY <1>1, <1>11 DEF Stop, Ended, PruneSQLite, rvars, vars
<1>12. QED
  BY <1>1, <1>2, <1>4, <1>5, <1>8, <1>9, <1>10, <1>11 DEF Next

\* Steps that change nothing the positions speak of.
LEMMA PositionsKept ==
  ASSUME Positions, UNCHANGED <<phase, wvars, svars, handoff>>
  PROVE  Positions'
BY DEF Positions, Current, wvars, svars

\* The positions are kept by every step.
LEMMA PositionsStep ==
  ASSUME Typed, Positions, Next
  PROVE  Positions'
<1>0. /\ writer \in WriterType /\ writer.batch \in Seq(Task) /\ queue \in Seq(Task)
      /\ spoolQueue \in Seq(Events) /\ None \notin Events
  BY PipelineAssumption DEF Typed, WriterType
<1>1. CASE Start \/ Stopped \/ Crash
  BY <1>1 DEF Start, Stopped, Crash, MemoryCleared, Positions, IdleWriter
<1>2. CASE Stop
  BY <1>2 DEF Stop, ControlFree, Positions, wvars, svars
<1>3. CASE Ended \/ PruneSQLite
  BY <1>3, PositionsKept DEF Ended, PruneSQLite, vars
<1>4. ASSUME NEW e \in Events, Record(e) \/ RecordLate(e) \/ HandOffStep(e)
      PROVE  Positions'
  <2>1. CASE Record(e)
    BY <2>1 DEF Record, Positions, Current, svars
  <2>2. CASE RecordLate(e)
    BY <2>2, PositionsKept DEF RecordLate
  <2>3. CASE HandOff(e)
    BY <2>3 DEF HandOff, Positions, Current, wvars
  <2>4. CASE HandOffDrop(e)
    BY <2>4 DEF HandOffDrop, Positions, Current, wvars, svars
  <2>5. QED
    BY <1>4, <2>1, <2>2, <2>3, <2>4 DEF HandOffStep
<1>5. CASE WriterStep
  <2>1. CASE WriterTake
    <3>1. /\ writer'.pc = "collect" /\ writer'.batch # <<>> /\ phase # "down"
          /\ UNCHANGED <<phase, svars, handoff>>
      BY <1>0, <2>1 DEF WriterTake, WriterType, Running, Positions
    <3>2. QED
      BY <3>1 DEF Positions, svars
  <2>2. CASE WriterCollect
    <3>1. /\ writer'.pc = "collect" /\ writer'.batch # <<>> /\ phase # "down"
          /\ UNCHANGED <<phase, svars, handoff>>
      BY <1>0, <2>2 DEF WriterCollect, WriterType, Positions, IdleWriter
    <3>2. QED
      BY <3>1 DEF Positions, svars
  <2>3. CASE WriterPersist
    <3>1. /\ writer'.pc = "commit" /\ writer'.batch = writer.batch /\ writer.pc = "collect"
          /\ UNCHANGED <<phase, svars, handoff>>
      BY <1>0, <2>3 DEF WriterPersist, WriterType
    <3>2. QED
      BY <3>1 DEF Positions, svars, IdleWriter
  <2>4. CASE WriterCommit \/ WriterFail
    <3>1. /\ writer'.pc = "settle" /\ writer.pc = "commit"
          /\ UNCHANGED <<phase, svars, handoff>>
      BY <1>0, <2>4 DEF WriterCommit, WriterFail, WriterType
    <3>2. QED
      BY <3>1 DEF Positions, svars, IdleWriter
  <2>5. ASSUME writer' = NextTask("settle"), writer.pc \in {"settle", "blocked"},
               UNCHANGED <<phase, queue, spooling, spoolDone, handoff>>,
               spoolQueue' = spoolQueue \/ ~spoolDone
        PROVE  Positions'
    <3>1. writer'.pc = "settle" /\ phase # "down"
      BY <1>0, <2>5 DEF NextTask, WriterType, Positions, IdleWriter
    <3>2. QED
      BY <2>5, <3>1 DEF Positions
  <2>6. CASE SettleReplayed \/ SettleStored \/ SpoolSynchronously
    BY <2>5, <2>6 DEF SettleReplayed, SettleStored, SpoolSynchronously, svars
  <2>7. CASE SpoolReserve
    <3>1. /\ writer'.pc = "blocked" /\ writer'.batch = writer.batch /\ writer.batch # <<>>
          /\ writer'.ok = writer.ok /\ ~writer.ok /\ Current.replay = None /\ phase = "up"
      BY <1>0, <2>7 DEF SpoolReserve, WriterType
    <3>2. UNCHANGED <<phase, queue, spooling, spoolQueue, spoolDone, handoff>>
      BY <2>7 DEF SpoolReserve
    <3>3. QED
      BY <3>1, <3>2 DEF Positions, Current
  <2>8. CASE SpoolSend
    <3>1. ~spoolDone
      BY <2>8 DEF SpoolSend, Positions
    <3>2. QED
      BY <2>5, <2>8, <3>1 DEF SpoolSend
  <2>9. CASE WriterBatchDone
    BY <2>9 DEF WriterBatchDone, Positions, IdleWriter, svars
  <2>10. CASE WriterFinish
    <3>1. /\ writer'.pc = "done" /\ writer'.batch = writer.batch /\ writer'.taken = writer.taken
          /\ writer.pc = "select" /\ phase = "stopping" /\ queue = <<>>
          /\ UNCHANGED <<phase, queue, svars, handoff>>
      BY <1>0, <2>10 DEF WriterFinish, WriterType
    <3>2. QED
      BY <3>1 DEF Positions, svars
  <2>11. QED
    BY <1>5, <2>1, <2>2, <2>3, <2>4, <2>6, <2>7, <2>8, <2>9, <2>10 DEF WriterStep
<1>6. CASE SpoolStep
  <2>1. CASE SpoolTake
    BY <1>0, <2>1 DEF SpoolTake, SpoolWorks, Running, Positions, Current, wvars
  <2>2. CASE SpoolWrite
    BY <2>2 DEF SpoolWrite, Positions, Current, wvars
  <2>3. CASE SpoolFinish
    BY <2>3 DEF SpoolFinish, SpoolDrained, Positions, Current, wvars
  <2>4. QED
    BY <1>6, <2>1, <2>2, <2>3 DEF SpoolStep
<1>7. ASSUME NEW g \in Feeders, FeederStep(g)
      PROVE  Positions'
  <2>1. CASE Feed(g)
    <3>1. /\ phase = "up" /\ UNCHANGED <<phase, writer, svars, handoff>>
      BY <2>1 DEF Feed
    <3>2. QED
      BY <3>1 DEF Positions, Current, svars
  <2>2. CASE ~Feed(g)
    BY <1>7, <2>2, PositionsKept
       DEF FeederStep, Merge, Unlink, Scan, Open, FeedStop, FeedEnd
  <2>3. QED
    BY <2>1, <2>2
<1>8. CASE RetryStep
  BY <1>8, PositionsKept DEF RetryStep, RetryBegin, RetryExist, RetryWait, RetryExit, Retry
<1>9. QED
  BY <1>1, <1>2, <1>3, <1>4, <1>5, <1>6, <1>7, <1>8 DEF Next

\* The shape is kept by every step.
LEMMA ShapeStep ==
  ASSUME Typed, Shape, Next
  PROVE  Shape'
BY PositionsStep, PlacedStep DEF Shape

\* The shape is kept by a stuttering step.
LEMMA ShapeStutter ==
  ASSUME Shape, UNCHANGED vars
  PROVE  Shape'
<1>1. Positions'
  BY PositionsKept DEF Shape, vars
<1>2. UNCHANGED feeder
  BY DEF vars, rvars
<1>3. QED
  BY <1>1, <1>2 DEF Shape

\* Types of every variable of the pipeline (go/stats.go, go/event_writer.go).
THEOREM PipelineTypes == Spec => []TypeOK
<1>1. Init => Typed /\ Shape
  BY TypeInit
<1>2. Typed /\ Shape /\ [Next]_vars => (Typed /\ Shape)'
  BY TypeStep, TypeStutter, ShapeStep, ShapeStutter
<1>3. Typed => TypeOK
  BY TypedIsTypeOK
<1>4. QED
  BY <1>1, <1>2, <1>3, PTL DEF Spec

-----------------------------------------------------------------------------
(***************************************************************************)
(* The bytes of the two queues.                                            *)
(***************************************************************************)
\* OnTheWay, without the cardinality.
Spooling == IF spooling = None THEN 0 ELSE 1
Waiting == IF writer.pc = "blocked" THEN 1 ELSE 0
SpoolLoad == Len(spoolQueue) + Spooling + Waiting

\* The cardinality of the event being written.
LEMMA SingleOrNone ==
  ASSUME NEW x
  PROVE  Cardinality({x} \ {None}) = IF x = None THEN 0 ELSE 1
<1>1. CASE x = None
  <2>1. {x} \ {None} = {}
    BY <1>1
  <2>2. QED
    BY <1>1, <2>1, FS_EmptySet
<1>2. CASE x # None
  <2>1. {x} \ {None} = {x}
    BY <1>2
  <2>2. QED
    BY <1>2, <2>1, FS_Singleton
<1>3. QED
  BY <1>1, <1>2

\* The two ways to count the events on their way to the spool file agree.
LEMMA OnTheWayIs == OnTheWay = SpoolLoad /\ OnTheWay' = SpoolLoad'
BY SingleOrNone DEF OnTheWay, SpoolLoad, Spooling, Waiting

Bytes ==
  /\ queueBytes = Len(queue) + writer.taken /\ queueBytes <= WriterBytes
  /\ spoolBytes = SpoolLoad /\ spoolBytes <= SpoolBytes

\* The bytes are there in the beginning.
LEMMA BytesInit == Init => Bytes
<1>1. Init => /\ queue = <<>> /\ queueBytes = 0 /\ writer = IdleWriter
              /\ spoolQueue = <<>> /\ spoolBytes = 0 /\ spooling = None
  BY DEF Init
<1>2. QED
  BY <1>1, PipelineAssumption DEF Bytes, SpoolLoad, Spooling, Waiting, IdleWriter

\* Steps that leave both queues and the writer's position alone.
LEMMA BytesKept ==
  ASSUME Bytes, UNCHANGED <<queue, queueBytes, writer, spoolQueue, spoolBytes, spooling>>
  PROVE  Bytes'
BY DEF Bytes, SpoolLoad, Spooling, Waiting

\* The bytes are kept by every step.
LEMMA BytesStep ==
  ASSUME Typed, Shape, Bytes, Next
  PROVE  Bytes'
<1> USE PipelineAssumption
<1>0. /\ writer \in WriterType /\ writer.batch \in Seq(Task) /\ queue \in Seq(Task)
      /\ spoolQueue \in Seq(Events) /\ queueBytes \in Nat /\ spoolBytes \in Nat
      /\ writer.taken \in Nat /\ Len(queue) \in Nat /\ Len(spoolQueue) \in Nat
      /\ WriterBytes \in Nat /\ SpoolBytes \in Nat
      /\ Spooling \in {0, 1} /\ Waiting \in {0, 1}
  BY DEF Typed, WriterType, Spooling, Waiting
<1>1. CASE Start \/ Stopped \/ Crash
  <2>1. /\ queue' = <<>> /\ queueBytes' = 0 /\ writer' = IdleWriter
        /\ spoolQueue' = <<>> /\ spoolBytes' = 0 /\ spooling' = None
    BY <1>1 DEF Start, Stopped, Crash, MemoryCleared
  <2>2. QED
    BY <1>0, <2>1 DEF Bytes, SpoolLoad, Spooling, Waiting, IdleWriter
<1>2. CASE Stop \/ Ended \/ PruneSQLite
  BY <1>2, BytesKept DEF Stop, Ended, PruneSQLite, vars, wvars, svars
<1>3. ASSUME NEW t \in Task, queue' = Append(queue, t), queueBytes' = queueBytes + 1, QueueAccepts,
             UNCHANGED <<writer, spoolQueue, spoolBytes, spooling>>
      PROVE  Bytes'
  <2>1. Len(queue') = Len(queue) + 1
    BY <1>0, <1>3
  <2>2. queueBytes < WriterBytes
    BY <1>3 DEF QueueAccepts
  <2>3. queueBytes' = Len(queue') + writer'.taken /\ queueBytes' <= WriterBytes
    BY <1>0, <1>3, <2>1, <2>2 DEF Bytes
  <2>4. SpoolLoad' = SpoolLoad
    BY <1>3 DEF SpoolLoad, Spooling, Waiting
  <2>5. QED
    BY <1>3, <2>3, <2>4 DEF Bytes
<1>4. ASSUME NEW e \in Events, Record(e) \/ RecordLate(e) \/ HandOffStep(e)
      PROVE  Bytes'
  <2>1. CASE Record(e)
    <3>1. [event |-> e, replay |-> None] \in Task
      BY DEF Task
    <3>2. UNCHANGED <<writer, spoolQueue, spoolBytes, spooling>>
      BY <2>1 DEF Record, svars
    <3>3. CASE QueueAccepts
      <4>1. queue' = Append(queue, [event |-> e, replay |-> None]) /\ queueBytes' = queueBytes + 1
        BY <2>1, <3>3 DEF Record
      <4>2. QED
        BY <1>3, <3>1, <3>2, <3>3, <4>1
    <3>4. CASE ~QueueAccepts
      BY <2>1, <3>2, <3>4, BytesKept DEF Record
    <3>5. QED
      BY <3>3, <3>4
  <2>2. CASE RecordLate(e) \/ HandOffDrop(e)
    BY <2>2, BytesKept DEF RecordLate, HandOffDrop, wvars, svars
  <2>3. CASE HandOff(e)
    <3>1. /\ spoolQueue' = Append(spoolQueue, e) /\ spoolBytes' = spoolBytes + 1
          /\ spoolBytes < SpoolBytes /\ UNCHANGED <<queue, queueBytes, writer, spooling>>
      BY <2>3 DEF HandOff, SpoolFits, wvars
    <3>2. Len(spoolQueue') = Len(spoolQueue) + 1
      BY <1>0, <3>1
    <3>3. Spooling' = Spooling /\ Waiting' = Waiting
      BY <3>1 DEF Spooling, Waiting
    <3>4. QED
      BY <1>0, <3>1, <3>2, <3>3 DEF Bytes, SpoolLoad
  <2>4. QED
    BY <1>4, <2>1, <2>2, <2>3 DEF HandOffStep
<1>5. CASE WriterStep
  <2>1. CASE WriterTake \/ WriterCollect
    <3>1. /\ queue # <<>> /\ queue' = Tail(queue) /\ writer'.taken = writer.taken + 1
          /\ writer.pc # "blocked" /\ writer'.pc # "blocked"
          /\ UNCHANGED <<queueBytes, spoolQueue, spoolBytes, spooling>>
      <4>1. CASE WriterTake
        <5>1. writer.taken = 0 /\ writer.pc = "select"
          BY <4>1 DEF WriterTake, Shape, Positions
        <5>2. QED
          BY <1>0, <4>1, <5>1 DEF WriterTake, WriterType, svars
      <4>2. CASE WriterCollect
        BY <1>0, <4>2 DEF WriterCollect, WriterType, svars
      <4>3. QED
        BY <2>1, <4>1, <4>2
    <3>2. Len(queue') = Len(queue) - 1
      BY <1>0, <3>1
    <3>3. SpoolLoad' = SpoolLoad
      BY <3>1 DEF SpoolLoad, Spooling, Waiting
    <3>4. queueBytes' = Len(queue') + writer'.taken
      BY <1>0, <3>1, <3>2 DEF Bytes
    <3>5. QED
      BY <3>1, <3>3, <3>4 DEF Bytes
  <2>2. ASSUME writer'.taken = writer.taken, UNCHANGED <<queue, queueBytes>>,
               spoolBytes' = SpoolLoad', spoolBytes' <= SpoolBytes
        PROVE  Bytes'
    BY <2>2 DEF Bytes
  <2>3. CASE WriterPersist \/ WriterCommit \/ WriterFail \/ WriterFinish
             \/ SettleReplayed \/ SettleStored \/ SpoolSynchronously
    <3>1. /\ writer'.taken = writer.taken /\ writer.pc # "blocked" /\ writer'.pc # "blocked"
          /\ UNCHANGED <<queue, queueBytes, spoolQueue, spoolBytes, spooling>>
      BY <1>0, <2>3
         DEF WriterPersist, WriterCommit, WriterFail, WriterFinish, SettleReplayed, SettleStored,
             SpoolSynchronously, NextTask, WriterType, svars
    <3>2. SpoolLoad' = SpoolLoad
      BY <3>1 DEF SpoolLoad, Spooling, Waiting
    <3>3. QED
      BY <2>2, <3>1, <3>2 DEF Bytes
  <2>4. CASE SpoolReserve
    <3>1. /\ writer'.taken = writer.taken /\ writer.pc = "settle" /\ writer'.pc = "blocked"
          /\ spoolBytes' = spoolBytes + 1 /\ spoolBytes < SpoolBytes
          /\ UNCHANGED <<queue, queueBytes, spoolQueue, spooling>>
      BY <1>0, <2>4 DEF SpoolReserve, SpoolFits, WriterType
    <3>2. Waiting = 0 /\ Waiting' = 1 /\ Spooling' = Spooling
      BY <3>1 DEF Waiting, Spooling
    <3>3. spoolBytes' = SpoolLoad' /\ spoolBytes' <= SpoolBytes
      BY <1>0, <3>1, <3>2 DEF Bytes, SpoolLoad
    <3>4. QED
      BY <2>2, <3>1, <3>3
  <2>5. CASE SpoolSend
    <3>1. /\ writer'.taken = writer.taken /\ writer.pc = "blocked" /\ writer'.pc = "settle"
          /\ spoolQueue' = Append(spoolQueue, Current.event) /\ writer.batch # <<>>
          /\ UNCHANGED <<queue, queueBytes, spoolBytes, spooling>>
      BY <1>0, <2>5 DEF SpoolSend, NextTask, WriterType, Shape, Positions
    <3>2. Current.event \in Events
      <4>1. Current \in Task
        BY <1>0, <3>1, ElemsTail DEF Current
      <4>2. QED
        BY <4>1 DEF Task
    <3>3. Len(spoolQueue') = Len(spoolQueue) + 1
      BY <1>0, <3>1, <3>2
    <3>4. Waiting = 1 /\ Waiting' = 0 /\ Spooling' = Spooling
      BY <3>1 DEF Waiting, Spooling
    <3>5. spoolBytes' = SpoolLoad' /\ spoolBytes' <= SpoolBytes
      BY <1>0, <3>1, <3>3, <3>4 DEF Bytes, SpoolLoad
    <3>6. QED
      BY <2>2, <3>1, <3>5
  <2>6. CASE WriterBatchDone
    <3>1. /\ queueBytes' = Released(writer.taken) /\ writer'.taken = 0
          /\ writer.pc = "settle" /\ writer'.pc = "select"
          /\ UNCHANGED <<queue, spoolQueue, spoolBytes, spooling>>
      BY <2>6 DEF WriterBatchDone, IdleWriter, svars
    <3>2. queueBytes' = Len(queue)
      BY <1>0, <3>1 DEF Bytes, Released, AtLeast0, Larger
    <3>3. SpoolLoad' = SpoolLoad
      BY <3>1 DEF SpoolLoad, Spooling, Waiting
    <3>4. QED
      BY <1>0, <3>1, <3>2, <3>3 DEF Bytes
  <2>7. QED
    BY <1>5, <2>1, <2>3, <2>4, <2>5, <2>6 DEF WriterStep
<1>6. CASE SpoolStep
  <2>1. CASE SpoolTake
    <3>1. /\ spoolQueue # <<>> /\ spoolQueue' = Tail(spoolQueue) /\ spooling = None
          /\ spooling' = Head(spoolQueue) /\ UNCHANGED <<queue, queueBytes, writer, spoolBytes>>
      BY <2>1 DEF SpoolTake, wvars
    <3>2. Head(spoolQueue) # None /\ Len(spoolQueue') = Len(spoolQueue) - 1
      BY <1>0, <3>1, ElemsTail
    <3>3. Spooling = 0 /\ Spooling' = 1 /\ Waiting' = Waiting
      BY <3>1, <3>2 DEF Spooling, Waiting
    <3>4. SpoolLoad' = SpoolLoad
      BY <1>0, <3>2, <3>3 DEF SpoolLoad
    <3>5. QED
      BY <3>1, <3>4 DEF Bytes
  <2>2. CASE SpoolWrite
    <3>1. /\ spooling # None /\ spooling' = None /\ spoolBytes' = AtLeast0(spoolBytes - 1)
          /\ UNCHANGED <<queue, queueBytes, writer, spoolQueue>>
      BY <2>2 DEF SpoolWrite, wvars
    <3>2. Spooling = 1 /\ Spooling' = 0 /\ Waiting' = Waiting
      BY <3>1 DEF Spooling, Waiting
    <3>3. spoolBytes' = spoolBytes - 1 /\ SpoolLoad' = SpoolLoad - 1
      BY <1>0, <3>1, <3>2 DEF Bytes, SpoolLoad, AtLeast0, Larger
    <3>4. QED
      BY <1>0, <3>1, <3>3 DEF Bytes
  <2>3. CASE SpoolFinish
    BY <2>3, BytesKept DEF SpoolFinish, wvars
  <2>4. QED
    BY <1>6, <2>1, <2>2, <2>3 DEF SpoolStep
<1>7. ASSUME NEW g \in Feeders, FeederStep(g)
      PROVE  Bytes'
  <2>1. CASE Feed(g)
    <3> DEFINE t == [event |-> Head(feeder[g].rest), replay |-> feeder[g].replay]
    <3>1. t \in Task
      <4>1. feeder[g].rest \in Seq(Events) /\ feeder[g].rest # <<>>
            /\ feeder[g].replay \in Replays \cup {None}
        BY <2>1 DEF Feed, Typed, FeederType
      <4>2. QED
        BY <4>1, ElemsTail DEF Task
    <3>2. /\ queue' = Append(queue, t) /\ queueBytes' = queueBytes + 1 /\ QueueAccepts
          /\ UNCHANGED <<writer, spoolQueue, spoolBytes, spooling>>
      BY <2>1 DEF Feed, svars
    <3> HIDE DEF t
    <3>3. QED
      BY <1>3, <3>1, <3>2
  <2>2. CASE ~Feed(g)
    BY <1>7, <2>2, BytesKept
       DEF FeederStep, Merge, Unlink, Scan, Open, FeedStop, FeedEnd, wvars, svars
  <2>3. QED
    BY <2>1, <2>2
<1>8. CASE RetryStep
  BY <1>8, BytesKept
     DEF RetryStep, RetryBegin, RetryExist, RetryWait, RetryExit, Retry, wvars, svars
<1>9. QED
  BY <1>1, <1>2, <1>4, <1>5, <1>6, <1>7, <1>8 DEF Next

-----------------------------------------------------------------------------
(***************************************************************************)
(* The line of tasks.                                                      *)
(***************************************************************************)
LEMMA LineFacts ==
  ASSUME Typed
  PROVE  /\ writer.batch \in Seq(Task) /\ queue \in Seq(Task) /\ Line \in Seq(Task)
         /\ Len(Line) = Len(writer.batch) + Len(queue) /\ Len(writer.batch) \in Nat
         /\ \A i \in DOMAIN writer.batch : i \in DOMAIN Line /\ Line[i] = writer.batch[i]
         /\ \A i \in DOMAIN queue :
              /\ Len(writer.batch) + i \in DOMAIN Line
              /\ Line[Len(writer.batch) + i] = queue[i]
<1>1. writer.batch \in Seq(Task) /\ queue \in Seq(Task)
  BY DEF Typed, WriterType
<1>2. QED
  BY <1>1 DEF Line

\* Taking a task moves it within the line.
LEMMA LineTaken ==
  ASSUME Typed, Shape, WriterTake \/ WriterCollect
  PROVE  /\ Line' = Line /\ writer.pc \in {"select", "collect"} /\ writer'.pc = "collect"
         /\ writer'.ok = writer.ok
<1>1. writer \in WriterType /\ queue \in Seq(Task) /\ writer.batch \in Seq(Task)
  BY LineFacts DEF Typed
<1>2. CASE WriterTake
  <2>1. /\ writer.batch = <<>> /\ queue # <<>> /\ queue' = Tail(queue)
        /\ writer'.batch = <<Head(queue)>> /\ writer.pc = "select" /\ writer'.pc = "collect"
        /\ writer'.ok = writer.ok
    BY <1>1, <1>2 DEF WriterTake, WriterType, Shape, Positions
  <2>2. QED
    BY <1>1, <2>1, MoveFirst DEF Line
<1>3. CASE WriterCollect
  <2>1. /\ queue # <<>> /\ queue' = Tail(queue) /\ writer'.batch = Append(writer.batch, Head(queue))
        /\ writer.pc = "collect" /\ writer'.pc = "collect" /\ writer'.ok = writer.ok
    BY <1>1, <1>3 DEF WriterCollect, WriterType
  <2>2. QED
    BY <1>1, <2>1, MoveHead DEF Line
<1>4. QED
  BY <1>2, <1>3

\* Settling a task removes the first of the line.
LEMMA LineSettled ==
  ASSUME Typed, writer.batch # <<>>, writer' = NextTask("settle"), UNCHANGED queue
  PROVE  /\ Line # <<>> /\ Line' = Tail(Line) /\ Line[1] = Current /\ Current \in Task
         /\ writer'.pc = "settle" /\ writer'.ok = writer.ok
         /\ writer'.batch = Tail(writer.batch)
         /\ Len(writer'.batch) = Len(writer.batch) - 1
<1>1. writer \in WriterType /\ queue \in Seq(Task) /\ writer.batch \in Seq(Task)
  BY LineFacts DEF Typed
<1>2. /\ writer'.batch = Tail(writer.batch) /\ writer'.pc = "settle" /\ writer'.ok = writer.ok
  BY <1>1 DEF NextTask, WriterType
<1>3. Line' = Tail(Line)
  BY <1>1, <1>2, ConcatTail DEF Line
<1>4. /\ Current \in Task /\ Len(Tail(writer.batch)) = Len(writer.batch) - 1
      /\ 1 \in DOMAIN writer.batch /\ Current = writer.batch[1]
  BY <1>1 DEF Current
<1>5. Line # <<>> /\ Line[1] = Current
  BY <1>1, <1>4, LineFacts
<1>6. QED
  BY <1>2, <1>3, <1>4, <1>5

\* A queued task is the last of the line.
LEMMA LineGrown ==
  ASSUME Typed, NEW t \in Task, queue' = Append(queue, t), UNCHANGED writer
  PROVE  Line' = Append(Line, t)
<1>1. Line' = writer.batch \o Append(queue, t)
  BY DEF Line
<1>2. writer.batch \in Seq(Task) /\ queue \in Seq(Task)
  BY LineFacts
<1>3. \A b, q \in Seq(Task) : b \o Append(q, t) = Append(b \o q, t)
  BY ConcatAppend
<1>4. QED
  BY <1>1, <1>2, <1>3 DEF Line

\* A cleared memory has no line.
LEMMA LineCleared ==
  ASSUME MemoryCleared
  PROVE  Line' = <<>> /\ writer' = IdleWriter
BY DEF MemoryCleared, Line, IdleWriter

\* The steps that settle a task of the batch.
Settles == SettleReplayed \/ SettleStored \/ SpoolSend \/ SpoolSynchronously

\* What the settling steps have in common.
LEMMA SettlesTask ==
  ASSUME Typed, Shape, Settles
  PROVE  /\ writer.batch # <<>> /\ writer' = NextTask("settle") /\ UNCHANGED queue
         /\ writer.pc \in {"settle", "blocked"} /\ (writer.pc = "blocked" => ~writer.ok)
BY DEF Settles, SettleReplayed, SettleStored, SpoolSend, SpoolSynchronously, Shape, Positions

\* The other steps that do not touch the line.
LEMMA LineUntouched ==
  ASSUME UNCHANGED <<writer, queue>>
  PROVE  Line' = Line
BY DEF Line

-----------------------------------------------------------------------------
(***************************************************************************)
(* Where events come from: what the spool holds was diverted, what the     *)
(* table and the writer hold was recorded.                                 *)
(***************************************************************************)
RestsIn(f, D) == \A h \in Feeders : Elems(f[h].rest) \subseteq D
FailedIn(R, D) == \A r \in Replays : Elems(R[r].failed) \subseteq D

Sources ==
  /\ diverted \cup late \cup early \cup Elems(rows) \subseteq recorded
  /\ Elems(active) \cup Elems(replayFile) \cup handoff \cup Elems(spoolQueue) \subseteq diverted
  /\ spooling # None => spooling \in diverted
  /\ \A t \in Elems(Line) : t.event \in recorded /\ (t.replay # None => t.event \in diverted)
  /\ RestsIn(feeder, diverted)
  /\ FailedIn(replay, diverted)

\* The operators on feeders add no unread record.
LEMMA RestOperators ==
  ASSUME NEW D, NEW f \in [Feeders -> FeederType], RestsIn(f, D)
  PROVE  /\ RestsIn(Scheduled(f), D)
         /\ \A R : RestsIn(FeedersAfter(R, f), D)
<1>1. Elems([IdleFeeder EXCEPT !.pc = "begin"].rest) = {}
  BY ElemsEmpty DEF IdleFeeder
<1>2. ASSUME NEW h \in [Feeders -> FeederType], RestsIn(h, D)
      PROVE  RestsIn(Scheduled(h), D)
  BY <1>1, <1>2 DEF Scheduled, RestsIn
<1>3. RestsIn(Detached(f), D) /\ Detached(f) \in [Feeders -> FeederType]
  <2>1. \A h \in Feeders : Detached(f)[h].rest = f[h].rest
    BY DEF Detached, FeederType
  <2>2. QED
    BY <2>1, FeederOperators DEF RestsIn
<1>4. QED
  BY <1>2, <1>3 DEF FeedersAfter

\* Nor do the ones that move one feeder.
LEMMA RestMoves ==
  ASSUME NEW D, feeder \in [Feeders -> FeederType], NEW g \in Feeders, RestsIn(feeder, D)
  PROVE  RestsIn(Returned(g), D) /\ \A pc : RestsIn(Goto(g, pc), D)
<1>1. \A pc : Elems([IdleFeeder EXCEPT !.pc = pc].rest) = {}
  BY ElemsEmpty DEF IdleFeeder
<1>2. RestsIn(Returned(g), D)
  BY <1>1 DEF Returned, RestsIn
<1>3. ASSUME NEW pc PROVE RestsIn(Goto(g, pc), D)
  <2>1. Goto(g, pc) = [feeder EXCEPT ![g] = [feeder[g] EXCEPT !.pc = pc]]
    BY DEF Goto
  <2>2. [feeder[g] EXCEPT !.pc = pc].rest = feeder[g].rest
    BY DEF FeederType
  <2>3. QED
    BY <2>1, <2>2 DEF RestsIn
<1>4. QED
  BY <1>2, <1>3

\* The failures of a replay were diverted.
LEMMA SettleSources ==
  ASSUME NEW D, Typed, NEW r \in Replays, NEW R \in ReplayType, SettleReplay(r, R),
         Elems(R.failed) \subseteq D, Elems(replayFile) \subseteq D, FailedIn(replay, D)
  PROVE  Elems(replayFile') \subseteq D /\ FailedIn(replay', D)
<1>1. Elems(NoReplay.failed) = {}
  BY ElemsEmpty DEF NoReplay
<1>2. replay \in [Replays -> ReplayType]
  BY DEF Typed
<1>3. QED
  BY <1>1, <1>2 DEF SettleReplay, FileAfter, FailedIn

\* Where events come from is there in the beginning.
LEMMA SourcesInit == Init => Sources
<1>1. SUFFICES ASSUME Init PROVE Sources
  OBVIOUS
<1>2. Line = <<>>
  BY <1>1 DEF Init, Line, IdleWriter
<1>3. RestsIn(feeder, diverted) /\ FailedIn(replay, diverted)
  BY <1>1, ElemsEmpty DEF Init, RestsIn, FailedIn, IdleFeeder, NoReplay
<1>4. QED
  BY <1>1, <1>2, <1>3, ElemsEmpty DEF Init, Sources

\* Steps that touch none of it.
LEMMA SourcesKept ==
  ASSUME Sources, Line' = Line, recorded \subseteq recorded', diverted' \subseteq recorded',
         diverted \subseteq diverted', late' \subseteq recorded', early' \subseteq recorded',
         UNCHANGED <<rows, active, replayFile, handoff, spoolQueue, spooling, feeder, replay>>
  PROVE  Sources'
BY DEF Sources, RestsIn, FailedIn

\* Where events come from is kept by a start, an end or a crash of the process.
LEMMA SourcesOfProcess ==
  ASSUME Typed, Sources, Start \/ Stopped \/ Crash
  PROVE  Sources'
<1>1. /\ MemoryCleared /\ UNCHANGED <<rows, active, replayFile, recorded, diverted, late, early>>
  BY DEF Start, Stopped, Crash, disk, ledger
<1>2. \A h \in Feeders : feeder'[h].rest = <<>>
  BY DEF Start, Stopped, Crash, IdleFeeder
<1>3. RestsIn(feeder, diverted)'
  BY <1>2, ElemsEmpty DEF RestsIn
<1>4. FailedIn(replay, diverted)'
  BY <1>1, ElemsEmpty DEF FailedIn, MemoryCleared, NoReplay
<1>5. Line' = <<>> /\ handoff' = {} /\ spoolQueue' = <<>> /\ spooling' = None
  BY <1>1, LineCleared DEF MemoryCleared
<1>6. QED
  BY <1>1, <1>3, <1>4, <1>5, ElemsEmpty DEF Sources

\* Where events come from is kept by a stop request, the end or a prune.
LEMMA SourcesOfControl ==
  ASSUME Typed, Sources, Stop \/ Ended \/ PruneSQLite
  PROVE  Sources'
<1>1. CASE Stop \/ Ended
  <2>1. /\ UNCHANGED <<rows, active, replayFile, handoff, spoolQueue, spooling, feeder, replay,
                      recorded, diverted, late, early, writer, queue>>
    BY <1>1 DEF Stop, Ended, vars, disk, wvars, svars, rvars, ledger
  <2>2. QED
    BY <2>1, SourcesKept, LineUntouched DEF Sources
<1>2. CASE PruneSQLite
  <2>1. /\ UNCHANGED <<rows, active, replayFile, handoff, spoolQueue, spooling, feeder, replay,
                      recorded, diverted, late, writer, queue>>
        /\ early' = early \cup ((NewEvents(queue) \cup NewEvents(writer.batch)) \ Elems(rows))
    BY <1>2 DEF PruneSQLite, wvars, svars, rvars
  <2>2. NewEvents(queue) \cup NewEvents(writer.batch) \subseteq recorded
    <3>1. \A i \in DOMAIN Line : Line[i].event \in recorded
      BY DEF Sources, Elems
    <3>2. \A i \in DOMAIN queue : queue[i].event \in recorded
      BY <3>1, LineFacts
    <3>3. \A i \in DOMAIN writer.batch : writer.batch[i].event \in recorded
      BY <3>1, LineFacts
    <3>4. QED
      BY <3>2, <3>3 DEF NewEvents
  <2>3. early' \subseteq recorded' /\ diverted' \subseteq recorded' /\ late' \subseteq recorded'
    BY <2>1, <2>2 DEF Sources
  <2>4. QED
    BY <2>1, <2>3, SourcesKept, LineUntouched
<1>3. QED
  BY <1>1, <1>2

\* Where events come from is kept by Record and its hand-off.
LEMMA SourcesOfRecord ==
  ASSUME Typed, Sources, NEW e \in Events, Record(e) \/ RecordLate(e) \/ HandOffStep(e)
  PROVE  Sources'
<1>1. CASE Record(e)
  <2>1. /\ UNCHANGED <<rows, active, replayFile, spoolQueue, spooling, feeder, replay, writer, late, early>>
        /\ recorded' = recorded \cup {e}
    BY <1>1 DEF Record, disk, svars, rvars
  <2>2. CASE QueueAccepts
    <3> DEFINE t == [event |-> e, replay |-> None]
    <3>1. t \in Task /\ t.event = e /\ t.replay = None
      BY DEF Task
    <3>2. queue' = Append(queue, t) /\ UNCHANGED <<handoff, diverted>>
      BY <1>1, <2>2 DEF Record
    <3> HIDE DEF t
    <3>3. Elems(Line') = Elems(Line) \cup {t}
      <4>1. Line \in Seq(Task) /\ Line' = Append(Line, t)
        BY <2>1, <3>1, <3>2, LineGrown, LineFacts
      <4>2. QED
        BY <3>1, <4>1, ElemsAppend
    <3>4. QED
      BY <2>1, <3>1, <3>2, <3>3 DEF Sources, RestsIn, FailedIn
  <2>3. CASE ~QueueAccepts
    <3>1. handoff' = handoff \cup {e} /\ diverted' = diverted \cup {e} /\ UNCHANGED queue
      BY <1>1, <2>3 DEF Record
    <3>2. Line' = Line
      BY <2>1, <3>1, LineUntouched
    <3>3. RestsIn(feeder, diverted)' /\ FailedIn(replay, diverted)'
      BY <2>1, <3>1 DEF Sources, RestsIn, FailedIn
    <3>4. QED
      BY <2>1, <3>1, <3>2, <3>3 DEF Sources
  <2>4. QED
    BY <2>2, <2>3
<1>2. CASE RecordLate(e)
  <2>1. /\ UNCHANGED <<rows, active, replayFile, handoff, spoolQueue, spooling, feeder, replay,
                      diverted, early, writer, queue>>
        /\ recorded' = recorded \cup {e} /\ late' = late \cup {e}
    BY <1>2 DEF RecordLate, disk, wvars, svars, rvars
  <2>2. late' \subseteq recorded' /\ diverted' \subseteq recorded' /\ early' \subseteq recorded'
    BY <2>1 DEF Sources
  <2>3. QED
    BY <2>1, <2>2, SourcesKept, LineUntouched
<1>3. CASE HandOffStep(e)
  <2>1. /\ UNCHANGED <<rows, active, replayFile, spooling, feeder, replay, writer, queue, late, early,
                      diverted, recorded>>
        /\ handoff' = handoff \ {e} /\ e \in handoff
        /\ spoolQueue' = spoolQueue \/ spoolQueue' = Append(spoolQueue, e)
    BY <1>3 DEF HandOffStep, HandOff, HandOffDrop, disk, wvars, svars, rvars, ledger
  <2>2. Elems(spoolQueue') \subseteq Elems(spoolQueue) \cup {e}
    <3>1. spoolQueue \in Seq(Events)
      BY DEF Typed
    <3>2. Elems(Append(spoolQueue, e)) = Elems(spoolQueue) \cup {e}
      BY <3>1, ElemsAppend
    <3>3. QED
      BY <2>1, <3>2
  <2>3. Line' = Line
    BY <2>1, LineUntouched
  <2>4. QED
    BY <2>1, <2>2, <2>3 DEF Sources, RestsIn, FailedIn
<1>4. QED
  BY <1>1, <1>2, <1>3

\* A write of the spool file adds a diverted event.
LEMMA WriteSpoolSources ==
  ASSUME Typed, NEW D, Elems(active) \subseteq D, RestsIn(feeder, D), NEW e \in D, WriteSpool(e),
         e \in Events
  PROVE  Elems(active') \subseteq D /\ RestsIn(feeder', D)
<1>1. active' = active \/ active' = Append(active, e)
  BY DEF WriteSpool
<1>2. Elems(active') \subseteq D
  <2>1. active \in Seq(Events)
    BY DEF Typed
  <2>2. Elems(Append(active, e)) = Elems(active) \cup {e}
    BY <2>1, ElemsAppend
  <2>3. QED
    BY <1>1, <2>2
<1>3. feeder' = feeder \/ feeder' = Scheduled(feeder)
  BY DEF WriteSpool
<1>4. QED
  BY <1>2, <1>3, RestOperators DEF Typed

\* Where events come from is kept by the writer.
LEMMA SourcesOfWriter ==
  ASSUME Typed, Shape, Sources, WriterStep,
         writer.pc = "blocked" => Current.event \in diverted
  PROVE  Sources'
<1>1. CASE WriterTake \/ WriterCollect
  <2>1. UNCHANGED <<rows, active, replayFile, handoff, spoolQueue, spooling, feeder, replay,
                    recorded, diverted, late, early>>
    BY <1>1 DEF WriterTake, WriterCollect, disk, svars, rvars, ledger
  <2>2. QED
    BY <1>1, <2>1, LineTaken, SourcesKept DEF Sources
<1>2. CASE WriterPersist \/ WriterFail \/ WriterFinish \/ WriterBatchDone
  <2>1. /\ UNCHANGED <<rows, active, replayFile, handoff, spoolQueue, spooling, feeder, replay,
                      recorded, diverted, late, early, queue>>
        /\ writer'.batch = writer.batch
    <3>1. CASE WriterBatchDone
      BY <3>1 DEF WriterBatchDone, IdleWriter, disk, svars, rvars, ledger
    <3>2. CASE WriterPersist \/ WriterFail \/ WriterFinish
      BY <3>2 DEF WriterPersist, WriterFail, WriterFinish, Typed, WriterType, disk, svars, rvars,
                  ledger
    <3>3. QED
      BY <1>2, <3>1, <3>2
  <2>2. Line' = Line
    BY <2>1 DEF Line
  <2>3. QED
    BY <2>1, <2>2, SourcesKept DEF Sources
<1>3. CASE WriterCommit
  <2>1. /\ UNCHANGED <<active, replayFile, handoff, spoolQueue, spooling, feeder, replay,
                      recorded, diverted, late, early, queue>>
        /\ writer'.batch = writer.batch /\ rows' = Insertion
    BY <1>3 DEF WriterCommit, Typed, WriterType, svars, rvars, ledger
  <2>2. Line' = Line
    BY <2>1 DEF Line
  <2>3. \A i \in DOMAIN writer.batch : writer.batch[i].event \in recorded
    <3>1. \A i \in DOMAIN Line : Line[i].event \in recorded
      BY DEF Sources, Elems
    <3>2. QED
      BY <3>1, LineFacts
  <2>4. Elems(Insertion) \subseteq recorded
    <3>1. rows \in Seq(Events) /\ writer.batch \in Seq(Task) /\ Elems(rows) \subseteq recorded
      BY LineFacts DEF Sources, Typed
    <3>2. QED
      BY <2>3, <3>1, InsertionTable
  <2>5. QED
    BY <2>1, <2>2, <2>4 DEF Sources, RestsIn, FailedIn
<1>4. CASE SpoolReserve
  <2>1. /\ UNCHANGED <<rows, active, replayFile, handoff, spoolQueue, spooling, feeder, replay,
                      recorded, late, early, queue>>
        /\ writer'.batch = writer.batch /\ diverted' = diverted \cup {Current.event}
        /\ writer.batch # <<>>
    BY <1>4 DEF SpoolReserve, Typed, WriterType, disk, rvars
  <2>2. Line' = Line
    BY <2>1 DEF Line
  <2>3. Current.event \in recorded
    <3>1. 1 \in DOMAIN writer.batch /\ writer.batch[1] = Current
      BY <2>1, LineFacts DEF Current
    <3>2. 1 \in DOMAIN Line /\ Line[1] = Current
      BY <3>1, LineFacts
    <3>3. QED
      BY <3>2 DEF Sources, Elems
  <2>4. diverted' \subseteq recorded'
    BY <2>1, <2>3 DEF Sources
  <2>5. QED
    BY <2>1, <2>2, <2>4, SourcesKept DEF Sources
<1>5. CASE Settles
  <2>1. /\ Line # <<>> /\ Line' = Tail(Line) /\ Line[1] = Current /\ Current \in Task
        /\ UNCHANGED <<rows, handoff, spooling, recorded, late, early>>
    <3>1. UNCHANGED <<rows, handoff, spooling, recorded, late, early>>
      BY <1>5 DEF Settles, SettleReplayed, SettleStored, SpoolSend, SpoolSynchronously,
                  disk, svars, ledger
    <3>2. QED
      BY <1>5, <3>1, SettlesTask, LineSettled
  <2>2. Elems(Line') \subseteq Elems(Line) /\ Current \in Elems(Line) /\ Current.event \in Events
    <3>1. Elems(Line) = {Head(Line)} \cup Elems(Tail(Line)) /\ Head(Line) = Line[1]
      BY <2>1, LineFacts, ElemsTail
    <3>2. QED
      BY <2>1, <3>1 DEF Task
  <2>3. Current.event \in recorded /\ (Current.replay # None => Current.event \in diverted)
    BY <2>2 DEF Sources
  <2>4. \A t \in Elems(Line') : t.event \in recorded /\ (t.replay # None => t.event \in diverted)
    BY <2>2 DEF Sources
  <2>5. CASE SettleStored
    <3>1. UNCHANGED <<active, replayFile, spoolQueue, feeder, replay, diverted>>
      BY <2>5 DEF SettleStored, disk, svars, rvars, ledger
    <3>2. QED
      BY <2>1, <2>4, <3>1 DEF Sources
  <2>6. CASE SpoolSend
    <3>1. /\ UNCHANGED <<active, replayFile, feeder, replay, diverted>>
          /\ spoolQueue' = Append(spoolQueue, Current.event)
      BY <2>6 DEF SpoolSend, disk, rvars, ledger
    <3>2. Current.event \in diverted => Elems(spoolQueue') \subseteq diverted
      BY <2>2, <3>1, ElemsAppend DEF Sources, Typed
    <3>3. Current.event \in diverted => Sources'
      BY <2>1, <2>4, <3>1, <3>2 DEF Sources
    <3>4. QED
      BY <3>3, <2>6 DEF SpoolSend
  <2>7. CASE SpoolSynchronously
    <3>1. /\ UNCHANGED <<replayFile, spoolQueue, replay>> /\ WriteSpool(Current.event)
          /\ diverted' = diverted \cup {Current.event}
      BY <2>7 DEF SpoolSynchronously, svars
    <3>2. Elems(active) \subseteq diverted' /\ RestsIn(feeder, diverted') /\ Current.event \in diverted'
      BY <3>1 DEF Sources, RestsIn
    <3>3. Elems(active') \subseteq diverted' /\ RestsIn(feeder', diverted')
      BY <2>2, <3>1, <3>2, WriteSpoolSources
    <3>4. FailedIn(replay', diverted')
      BY <3>1 DEF Sources, FailedIn
    <3>5. QED
      BY <2>1, <2>3, <2>4, <3>1, <3>3, <3>4 DEF Sources
  <2>8. CASE SettleReplayed
    <3> DEFINE r == Current.replay
               R == replay[r]
               counts == [R EXCEPT !.remaining = AtLeast0(@ - 1)]
    <3>1. UNCHANGED <<active, spoolQueue, diverted>> /\ r \in Replays /\ Current.event \in diverted
      BY <2>1, <2>3, <2>8 DEF SettleReplayed, Task, svars, ledger
    <3>2. R \in ReplayType /\ counts \in ReplayType /\ counts.failed = R.failed
      <4>1. R \in ReplayType
        BY <3>1 DEF Typed
      <4>2. AtLeast0(R.remaining - 1) \in Nat
        BY <4>1 DEF ReplayType, AtLeast0, Larger
      <4> HIDE DEF R
      <4>3. QED
        BY <4>1, <4>2 DEF ReplayType
    <3>3. Elems(R.failed) \subseteq diverted
      BY <3>1 DEF Sources, FailedIn
    <3>4. ASSUME NEW after \in ReplayType, Elems(after.failed) \subseteq diverted,
                 SettleReplay(r, after), feeder' = FeedersAfter(after, feeder)
          PROVE  Elems(replayFile') \subseteq diverted /\ FailedIn(replay', diverted)
                 /\ RestsIn(feeder', diverted)
      <4> HIDE DEF r
      <4>1. QED
        BY <3>1, <3>4, SettleSources, RestOperators DEF Sources, Typed
    <3>5. \A after \in {counts, [counts EXCEPT !.failed = Append(@, Current.event)],
                        [counts EXCEPT !.keep = TRUE]} :
            after \in ReplayType /\ Elems(after.failed) \subseteq diverted
      <4>1. /\ Append(counts.failed, Current.event) \in Seq(Events)
            /\ Elems(Append(counts.failed, Current.event)) \subseteq diverted
        <5>1. counts.failed \in Seq(Events)
          BY <3>2 DEF ReplayType
        <5> HIDE DEF counts
        <5>2. QED
          BY <2>2, <3>1, <3>2, <3>3, <5>1, ElemsAppend
      <4> HIDE DEF counts, R
      <4>2. QED
        BY <3>2, <3>3, <4>1 DEF ReplayType
    <3>6. \/ UNCHANGED <<replay, replayFile, feeder>>
          \/ \E after \in {counts, [counts EXCEPT !.failed = Append(@, Current.event)],
                        [counts EXCEPT !.keep = TRUE]} :
                 SettleReplay(r, after) /\ feeder' = FeedersAfter(after, feeder)
      BY <2>8 DEF SettleReplayed
    <3>7. Elems(replayFile') \subseteq diverted /\ FailedIn(replay', diverted)
          /\ RestsIn(feeder', diverted)
      <4> HIDE DEF counts, R, r
      <4>1. QED
        BY <3>4, <3>5, <3>6 DEF Sources
    <3>8. QED
      BY <2>1, <2>4, <3>1, <3>7 DEF Sources
  <2>9. QED
    BY <1>5, <2>5, <2>6, <2>7, <2>8 DEF Settles
<1>6. QED
  BY <1>1, <1>2, <1>3, <1>4, <1>5 DEF WriterStep, Settles

\* Where events come from is kept by the spool worker.
LEMMA SourcesOfSpool ==
  ASSUME Typed, Shape, Sources, SpoolStep
  PROVE  Sources'
<1>1. CASE SpoolTake
  <2>1. /\ UNCHANGED <<rows, active, replayFile, handoff, feeder, replay, writer, queue, late, early,
                      diverted, recorded>>
        /\ spoolQueue # <<>> /\ spooling' = Head(spoolQueue) /\ spoolQueue' = Tail(spoolQueue)
    BY <1>1 DEF SpoolTake, disk, wvars, rvars, ledger
  <2>2. spooling' \in Elems(spoolQueue) /\ Elems(spoolQueue') \subseteq Elems(spoolQueue)
    <3>1. spoolQueue \in Seq(Events)
      BY DEF Typed
    <3>2. Elems(spoolQueue) = {Head(spoolQueue)} \cup Elems(Tail(spoolQueue))
      BY <2>1, <3>1, ElemsTail
    <3>3. QED
      BY <2>1, <3>2
  <2>3. Line' = Line
    BY <2>1, LineUntouched
  <2>4. QED
    BY <2>1, <2>2, <2>3 DEF Sources, RestsIn, FailedIn
<1>2. CASE SpoolWrite
  <2>1. /\ UNCHANGED <<rows, replayFile, handoff, spoolQueue, replay, writer, queue, late, early,
                      diverted, recorded>>
        /\ spooling # None /\ spooling' = None /\ WriteSpool(spooling)
    BY <1>2 DEF SpoolWrite, wvars
  <2>2. spooling \in diverted /\ spooling \in Events /\ Elems(active) \subseteq diverted
        /\ RestsIn(feeder, diverted)
    BY <2>1 DEF Sources, Typed
  <2>3. Elems(active') \subseteq diverted /\ RestsIn(feeder', diverted)
    BY <2>1, <2>2, WriteSpoolSources
  <2>4. Line' = Line
    BY <2>1, LineUntouched
  <2>5. QED
    BY <2>1, <2>3, <2>4 DEF Sources, FailedIn
<1>3. CASE SpoolFinish
  <2>1. UNCHANGED <<rows, active, replayFile, handoff, spoolQueue, spooling, feeder, replay,
                    recorded, diverted, late, early, writer, queue>>
    BY <1>3 DEF SpoolFinish, disk, wvars, rvars, ledger
  <2>2. QED
    BY <2>1, SourcesKept, LineUntouched DEF Sources
<1>4. QED
  BY <1>1, <1>2, <1>3 DEF SpoolStep

\* A cancelled replay adds nothing.
LEMMA CancelSources ==
  ASSUME Typed, Sources, NEW g \in Feeders, feeder[g].replay \in Replays, Cancel(g)
  PROVE  /\ Elems(replayFile') \subseteq diverted /\ FailedIn(replay', diverted)
         /\ RestsIn(feeder', diverted)
<1> DEFINE r == feeder[g].replay
           R == replay[r]
           count == IF feeder[g].left > R.remaining THEN R.remaining ELSE feeder[g].left
           after == [R EXCEPT !.remaining = @ - count, !.keep = TRUE, !.read = TRUE]
<1>1. /\ feeder \in [Feeders -> FeederType] /\ R \in ReplayType
      /\ Elems(replayFile) \subseteq diverted /\ RestsIn(feeder, diverted)
      /\ FailedIn(replay, diverted) /\ Elems(R.failed) \subseteq diverted
  BY DEF Typed, Sources, FailedIn
<1>2. RestsIn(Returned(g), diverted) /\ Returned(g) \in [Feeders -> FeederType]
  BY <1>1, RestMoves, FeederMoves
<1>3. CASE feeder[g].left <= 0
  BY <1>1, <1>2, <1>3 DEF Cancel
<1>4. CASE ~(feeder[g].left <= 0)
  <2>1. SettleReplay(r, after) /\ feeder' = FeedersAfter(after, Returned(g))
    BY <1>4 DEF Cancel
  <2>2. after \in ReplayType /\ after.failed = R.failed
    <3>1. feeder[g].left \in Int /\ R.remaining \in Nat
      BY <1>1 DEF FeederType, ReplayType
    <3>2. count \in Nat /\ R.remaining - count \in Nat
      BY <1>4, <3>1
    <3> HIDE DEF count, R
    <3>3. QED
      BY <1>1, <3>2 DEF ReplayType
  <2> HIDE DEF after, R, r
  <2>3. Elems(replayFile') \subseteq diverted /\ FailedIn(replay', diverted)
    <3>1. r \in Replays
      BY DEF r
    <3>2. QED
      BY <1>1, <2>1, <2>2, <3>1, SettleSources
  <2>4. QED
    BY <1>2, <2>1, <2>3, RestOperators
<1>5. QED
  BY <1>3, <1>4

\* Where events come from is kept by a feeder.
LEMMA SourcesOfFeeder ==
  ASSUME Typed, Shape, Sources, NEW g \in Feeders, FeederStep(g)
  PROVE  Sources'
<1>0. /\ feeder \in [Feeders -> FeederType] /\ feeder[g] \in FeederType
      /\ active \in Seq(Events) /\ replayFile \in Seq(Events) /\ feeder[g].rest \in Seq(Events)
  BY DEF Typed, FeederType
<1>1. CASE Merge(g)
  <2>1. UNCHANGED <<rows, handoff, spoolQueue, spooling, replay, writer, queue, late, early,
                    diverted, recorded>>
    BY <1>1 DEF Merge, wvars, svars
  <2>2. Elems(active) \subseteq diverted /\ Elems(replayFile) \subseteq diverted
        /\ RestsIn(feeder, diverted)
    BY DEF Sources
  <2>3. Elems(active') \subseteq diverted /\ Elems(replayFile') \subseteq diverted
    <3>1. Elems(replayFile \o active) \subseteq diverted
      BY <1>0, <2>2, ElemsConcat
    <3>2. QED
      BY <1>1, <2>2, <3>1, ElemsEmpty DEF Merge
  <2>4. RestsIn(feeder', diverted)
    <3>1. CASE feeder' = Goto(g, "scan")
      BY <1>0, <2>2, <3>1, RestMoves
    <3>2. CASE feeder' = [h \in Feeders |->
                            [Goto(g, "unlink")[h] EXCEPT
                               !.rest = IF feeder[h].attached THEN @ \o active ELSE @]]
      <4>1. RestsIn(Goto(g, "unlink"), diverted) /\ Goto(g, "unlink") \in [Feeders -> FeederType]
        BY <1>0, <2>2, RestMoves, FeederMoves
      <4>2. ASSUME NEW h \in Feeders PROVE Elems(feeder'[h].rest) \subseteq diverted
        <5> DEFINE F == Goto(g, "unlink")[h]
        <5>1. F.rest \in Seq(Events) /\ Elems(F.rest) \subseteq diverted /\ F \in FeederType
          BY <4>1 DEF RestsIn, FeederType
        <5>2. Elems(F.rest \o active) \subseteq diverted
          <6> HIDE DEF F
          <6>1. QED
            BY <1>0, <2>2, <5>1, ElemsConcat
        <5>3. feeder'[h] = [F EXCEPT !.rest = IF feeder[h].attached THEN @ \o active ELSE @]
          BY <3>2
        <5>4. feeder'[h].rest = IF feeder[h].attached THEN F.rest \o active ELSE F.rest
          <6> HIDE DEF F
          <6>1. QED
            BY <5>1, <5>3 DEF FeederType
        <5>5. QED
          BY <5>1, <5>2, <5>4
      <4>3. QED
        BY <4>2 DEF RestsIn
    <3>3. QED
      BY <1>1, <3>1, <3>2 DEF Merge
  <2>5. Line' = Line
    BY <2>1, LineUntouched
  <2>6. QED
    BY <2>1, <2>3, <2>4, <2>5 DEF Sources
<1>2. CASE Unlink(g)
  <2>1. /\ UNCHANGED <<rows, replayFile, handoff, spoolQueue, spooling, replay, writer, queue, late, early,
                      diverted, recorded>>
        /\ active' = <<>> /\ feeder' = Goto(g, "scan")
    BY <1>2 DEF Unlink, wvars, svars, ledger
  <2>2. RestsIn(feeder', diverted)
    BY <1>0, <2>1, RestMoves DEF Sources
  <2>3. Line' = Line
    BY <2>1, LineUntouched
  <2>4. QED
    BY <2>1, <2>2, <2>3, ElemsEmpty DEF Sources
<1>3. CASE Scan(g)
  <2>1. UNCHANGED <<rows, active, replayFile, handoff, spoolQueue, spooling, writer, queue, late, early,
                    diverted, recorded>>
    BY <1>3 DEF Scan, disk, wvars, svars, ledger
  <2>2. Line' = Line
    BY <2>1, LineUntouched
  <2>3. RestsIn(feeder', diverted) /\ FailedIn(replay', diverted)
    <3>1. RestsIn(feeder, diverted) /\ FailedIn(replay, diverted)
      BY DEF Sources
    <3>2. CASE feeder' = Returned(g) /\ UNCHANGED replay
      BY <1>0, <3>1, <3>2, RestMoves
    <3>3. ASSUME NEW r \in Replays, NEW n,
                 replay' = [replay EXCEPT ![r] = [NoReplay EXCEPT !.live = TRUE, !.remaining = n]],
                 feeder' = [feeder EXCEPT ![g].pc = "open", ![g].replay = r, ![g].left = n]
          PROVE  RestsIn(feeder', diverted) /\ FailedIn(replay', diverted)
      <4>1. [NoReplay EXCEPT !.live = TRUE, !.remaining = n].failed = <<>>
        BY DEF NoReplay
      <4>2. FailedIn(replay', diverted)
        BY <3>1, <3>3, <4>1, ElemsEmpty DEF FailedIn, Typed
      <4>3. \A h \in Feeders : feeder'[h].rest = feeder[h].rest
        BY <1>0, <3>3 DEF FeederType
      <4>4. QED
        BY <3>1, <4>2, <4>3 DEF RestsIn
    <3>4. QED
      BY <1>3, <3>2, <3>3 DEF Scan
  <2>4. QED
    BY <2>1, <2>2, <2>3 DEF Sources
<1>4. CASE Open(g) \/ FeedStop(g)
  <2>1. UNCHANGED <<rows, active, handoff, spoolQueue, spooling, writer, queue, late, early,
                    diverted, recorded>>
    BY <1>4 DEF Open, FeedStop, wvars, svars, ledger
  <2>2. Line' = Line
    BY <2>1, LineUntouched
  <2>3. CASE Cancel(g)
    <3>1. feeder[g].replay \in Replays
      BY <1>4 DEF Open, FeedStop, Shape, Placed, Holding
    <3>2. QED
      BY <2>1, <2>2, <2>3, <3>1, CancelSources DEF Sources
  <2>4. CASE ~Cancel(g)
    <3>1. /\ feeder' = [feeder EXCEPT ![g].pc = "feed", ![g].rest = replayFile, ![g].attached = TRUE]
          /\ UNCHANGED <<replay, replayFile>>
      BY <1>4, <2>4 DEF Open, FeedStop
    <3>2. \A h \in Feeders : feeder'[h].rest = IF h = g THEN replayFile ELSE feeder[h].rest
      BY <1>0, <3>1 DEF FeederType
    <3>3. RestsIn(feeder', diverted)
      BY <3>2 DEF RestsIn, Sources
    <3>4. QED
      BY <2>1, <2>2, <3>1, <3>3 DEF Sources
  <2>5. QED
    BY <2>3, <2>4
<1>5. CASE Feed(g)
  <2> DEFINE e == Head(feeder[g].rest)
             t == [event |-> e, replay |-> feeder[g].replay]
  <2>1. /\ UNCHANGED <<rows, active, replayFile, handoff, spoolQueue, spooling, writer, replay,
                      late, early, diverted, recorded>>
        /\ queue' = Append(queue, t) /\ feeder[g].rest # <<>>
    BY <1>5 DEF Feed, disk, svars, ledger
  <2>2. /\ e \in Events /\ Elems(feeder[g].rest) = {e} \cup Elems(Tail(feeder[g].rest))
    BY <1>0, <2>1, ElemsTail
  <2>3. e \in diverted /\ e \in recorded
    BY <2>2 DEF Sources, RestsIn
  <2>4. t \in Task /\ t.event = e
    BY <1>0, <2>2 DEF Task, FeederType
  <2>5. \A h \in Feeders : feeder'[h].rest = IF h = g THEN Tail(feeder[g].rest) ELSE feeder[h].rest
    BY <1>0, <1>5 DEF Feed, FeederType
  <2>6. RestsIn(feeder', diverted)
    BY <2>2, <2>5 DEF RestsIn, Sources
  <2> HIDE DEF t, e
  <2>7. Elems(Line') = Elems(Line) \cup {t}
    <3>1. Line' = Append(Line, t)
      BY <2>1, <2>4, LineGrown
    <3>2. QED
      BY <2>4, <3>1, LineFacts, ElemsAppend
  <2>8. QED
    BY <2>1, <2>3, <2>4, <2>6, <2>7 DEF Sources
<1>6. CASE FeedEnd(g)
  <2> DEFINE r == feeder[g].replay
             after == MarkRead(replay[r])
  <2>1. /\ UNCHANGED <<rows, active, handoff, spoolQueue, spooling, writer, queue, late, early,
                      diverted, recorded>>
        /\ SettleReplay(r, after) /\ feeder' = FeedersAfter(after, Returned(g))
    BY <1>6 DEF FeedEnd, wvars, svars, ledger
  <2>2. r \in Replays
    BY <1>6 DEF FeedEnd, Shape, Placed, Holding
  <2>3. after \in ReplayType /\ after.failed = replay[r].failed
    BY <2>2 DEF MarkRead, ReplayType, Typed
  <2>4. /\ Elems(replayFile) \subseteq diverted /\ RestsIn(feeder, diverted)
        /\ FailedIn(replay, diverted) /\ Elems(replay[r].failed) \subseteq diverted
    BY <2>2 DEF Sources, FailedIn
  <2> HIDE DEF after, r
  <2>5. Elems(replayFile') \subseteq diverted /\ FailedIn(replay', diverted)
    BY <2>1, <2>2, <2>3, <2>4, SettleSources
  <2>6. RestsIn(feeder', diverted)
    BY <1>0, <2>1, <2>4, RestMoves, FeederMoves, RestOperators
  <2>7. Line' = Line
    BY <2>1, LineUntouched
  <2>8. QED
    BY <2>1, <2>5, <2>6, <2>7 DEF Sources
<1>7. QED
  BY <1>1, <1>2, <1>3, <1>4, <1>5, <1>6 DEF FeederStep

\* Where events come from is kept by the retry goroutine.
LEMMA SourcesOfRetry ==
  ASSUME Typed, Sources, RetryStep
  PROVE  Sources'
<1>1. /\ UNCHANGED <<rows, active, replayFile, handoff, spoolQueue, spooling, replay, writer, queue,
                    late, early, diverted, recorded>>
  BY DEF RetryStep, RetryBegin, RetryExist, RetryWait, RetryExit, Retry, disk, wvars, svars, ledger
<1>2. "retry" \in Feeders
  BY DEF Feeders
<1>3. RestsIn(feeder', diverted)
  <2>1. RestsIn(feeder, diverted) /\ feeder \in [Feeders -> FeederType]
    BY DEF Sources, Typed
  <2>2. CASE RetryExit
    <3>1. \A h \in Feeders : feeder'[h].rest = feeder[h].rest \/ feeder'[h].rest = <<>>
      BY <1>2, <2>1, <2>2 DEF RetryExit, IdleFeeder
    <3>2. QED
      BY <2>1, <3>1, ElemsEmpty DEF RestsIn
  <2>3. CASE ~RetryExit
    BY <1>2, <2>1, <2>3, RestMoves DEF RetryStep, RetryBegin, RetryExist, RetryWait, Retry
  <2>4. QED
    BY <2>2, <2>3
<1>4. Line' = Line
  BY <1>1, LineUntouched
<1>5. QED
  BY <1>1, <1>3, <1>4 DEF Sources

\* Where events come from is kept by every step.
LEMMA SourcesStep ==
  ASSUME Typed, Shape, Sources, Next, writer.pc = "blocked" => Current.event \in diverted
  PROVE  Sources'
BY SourcesOfProcess, SourcesOfControl, SourcesOfRecord, SourcesOfWriter, SourcesOfSpool,
   SourcesOfFeeder, SourcesOfRetry
   DEF Next

-----------------------------------------------------------------------------
(***************************************************************************)
(* Events on the direct path.  The task of a fresh event is the only one   *)
(* of that event; it has no row before its transaction and is not diverted *)
(* before that transaction has failed.                                     *)
(***************************************************************************)
Fresh(i) == Line[i].replay = None
Unsettled == writer.pc # "settle" \/ ~writer.ok

DirectPath ==
  /\ \A i, j \in DOMAIN Line :
       Fresh(i) /\ Fresh(j) /\ Line[i].event = Line[j].event => i = j
  /\ \A i \in DOMAIN Line :
       Fresh(i) /\ (i > Len(writer.batch) \/ Unsettled) => Line[i].event \notin Elems(rows)
  /\ \A i \in DOMAIN Line :
       Fresh(i) => (Line[i].event \in diverted <=> writer.pc = "blocked" /\ i = 1)
  /\ ~Unsettled => \A i \in DOMAIN writer.batch : writer.batch[i].event \in Elems(rows)
  /\ Distinct(rows)

\* The direct path is there in the beginning.
LEMMA DirectPathInit == Init => DirectPath
<1>1. Init => Line = <<>> /\ writer.pc = "select" /\ rows = <<>>
  BY DEF Init, Line, IdleWriter
<1>2. QED
  BY <1>1 DEF DirectPath, Distinct, Unsettled

\* Steps that leave the line, the batch and the table alone and keep the writer
\* out of "settle" and "blocked", or where it is.
LEMMA DirectPathKept ==
  ASSUME DirectPath, Line' = Line, UNCHANGED <<writer, rows, diverted>>
  PROVE  DirectPath'
BY DEF DirectPath, Fresh, Unsettled

\* Steps of the writer between its select and its commit.
LEMMA DirectPathMoved ==
  ASSUME DirectPath, Line' = Line, UNCHANGED <<rows, diverted>>,
         writer.pc # "blocked", writer'.pc # "blocked", Unsettled, Unsettled'
  PROVE  DirectPath'
<1>1. \A i \in DOMAIN Line : Fresh(i) => Line[i].event \notin Elems(rows)
  BY Zenon DEF DirectPath
<1>2. QED
  BY <1>1 DEF DirectPath, Fresh, Unsettled

\* An event that waits for the spool queue was diverted.
LEMMA BlockedIsDiverted ==
  ASSUME Typed, Shape, DirectPath, writer.pc = "blocked"
  PROVE  Current.event \in diverted
<1>1. writer.batch # <<>> /\ Current.replay = None
  BY DEF Shape, Positions
<1>2. 1 \in DOMAIN writer.batch /\ writer.batch[1] = Current
  BY <1>1, LineFacts DEF Current
<1>3. 1 \in DOMAIN Line /\ Line[1] = Current
  BY <1>2, LineFacts
<1>4. QED
  BY <1>1, <1>3 DEF DirectPath, Fresh

\* A new task of an event that no task, row or spool knows.
LEMMA DirectPathGrown ==
  ASSUME Typed, DirectPath, NEW t \in Task, Line' = Append(Line, t),
         UNCHANGED <<writer, rows, diverted>>, writer.pc # "blocked",
         t.replay = None => /\ t.event \notin Elems(rows) /\ t.event \notin diverted
                            /\ \A i \in DOMAIN Line : Line[i].event # t.event
  PROVE  DirectPath'
<1> DEFINE n == Len(Line)
<1>1. /\ Line \in Seq(Task) /\ n \in Nat /\ DOMAIN Line = 1..n /\ DOMAIN Line' = 1..(n + 1)
      /\ Line'[n + 1] = t /\ \A i \in 1..n : Line'[i] = Line[i]
  BY LineFacts
<1>2. ASSUME NEW i \in DOMAIN Line' PROVE i \in DOMAIN Line \/ i = n + 1
  BY <1>1
<1> HIDE DEF n
<1>3. ASSUME NEW i \in DOMAIN Line', NEW j \in DOMAIN Line', Fresh(i)', Fresh(j)',
             Line'[i].event = Line'[j].event
      PROVE  i = j
  <2>1. CASE i \in DOMAIN Line /\ j \in DOMAIN Line
    BY <1>1, <1>3, <2>1 DEF DirectPath, Fresh
  <2>2. CASE i = n + 1 \/ j = n + 1
    BY <1>1, <1>2, <1>3, <2>2 DEF Fresh
  <2>3. QED
    BY <1>2, <2>1, <2>2
<1>4. ASSUME NEW i \in DOMAIN Line', Fresh(i)'
      PROVE  /\ (i > Len(writer'.batch) \/ Unsettled') => Line'[i].event \notin Elems(rows')
             /\ Line'[i].event \in diverted' <=> writer'.pc = "blocked" /\ i = 1
  <2>1. CASE i \in DOMAIN Line
    BY <1>1, <1>4, <2>1 DEF DirectPath, Fresh, Unsettled
  <2>2. CASE i = n + 1
    BY <1>1, <1>4, <2>2 DEF Fresh
  <2>3. QED
    BY <1>2, <2>1, <2>2
<1>5. (~Unsettled => \A i \in DOMAIN writer.batch : writer.batch[i].event \in Elems(rows))'
  BY DEF DirectPath, Unsettled
<1>6. QED
  BY <1>3, <1>4, <1>5 DEF DirectPath

\* Settling a task leaves the direct path of the others.
LEMMA DirectPathSettled ==
  ASSUME Typed, Shape, DirectPath, Settles
  PROVE  DirectPath'
<1> DEFINE n == Len(Line)
           b == Len(writer.batch)
<1>1. /\ writer.batch # <<>> /\ Line # <<>> /\ Line' = Tail(Line) /\ Line[1] = Current
      /\ writer'.pc = "settle" /\ writer'.ok = writer.ok
      /\ writer'.batch = Tail(writer.batch) /\ Len(writer'.batch) = b - 1
      /\ writer.pc \in {"settle", "blocked"} /\ (writer.pc = "blocked" => ~writer.ok)
  BY SettlesTask, LineSettled
<1>2. Line \in Seq(Task) /\ n \in Nat /\ DOMAIN Line = 1..n /\ b \in Nat
  BY LineFacts
<1>3. ASSUME NEW i \in DOMAIN Line'
      PROVE  i \in Nat /\ i + 1 \in DOMAIN Line /\ Line'[i] = Line[i + 1] /\ i + 1 # 1
  BY <1>1, <1>2
<1>4. UNCHANGED rows
  BY DEF Settles, SettleReplayed, SettleStored, SpoolSend, SpoolSynchronously, disk
<1>5. diverted' = diverted \/ (diverted' = diverted \cup {Current.event} /\ Current.replay = None)
  BY DEF Settles, SettleReplayed, SettleStored, SpoolSend, SpoolSynchronously, ledger
<1>6. Unsettled' = Unsettled
  BY <1>1 DEF Unsettled
<1>7. 1 \in DOMAIN Line
  BY <1>1, <1>2
<1>8. ASSUME NEW i \in DOMAIN Line', NEW j \in DOMAIN Line', Fresh(i)', Fresh(j)',
             Line'[i].event = Line'[j].event
      PROVE  i = j
  <2>1. Line[i + 1].replay = None /\ Line[j + 1].replay = None /\ Line[i + 1].event = Line[j + 1].event
    BY <1>3, <1>8 DEF Fresh
  <2>2. i + 1 = j + 1
    BY <1>3, <2>1 DEF DirectPath, Fresh
  <2>3. QED
    BY <1>3, <2>2
<1>9. ASSUME NEW i \in DOMAIN Line', Fresh(i)'
      PROVE  /\ (i > Len(writer'.batch) \/ Unsettled') => Line'[i].event \notin Elems(rows')
             /\ Line'[i].event \notin diverted'
  <2>1. Fresh(i + 1) /\ Line'[i].event = Line[i + 1].event
    BY <1>3, <1>9 DEF Fresh
  <2>2. i > Len(writer'.batch) => i + 1 > b
    BY <1>1, <1>2, <1>3
  <2>3. (i + 1 > b \/ Unsettled) => Line[i + 1].event \notin Elems(rows)
    BY <1>3, <2>1 DEF DirectPath
  <2>4. Line[i + 1].event \notin diverted
    BY <1>3, <2>1 DEF DirectPath
  <2>5. Current.replay = None => Line[i + 1].event # Current.event
    BY <1>1, <1>3, <1>7, <2>1 DEF DirectPath, Fresh
  <2>6. QED
    BY <1>4, <1>5, <1>6, <2>1, <2>2, <2>3, <2>4, <2>5
<1>10. ASSUME ~Unsettled', NEW i \in DOMAIN writer'.batch
       PROVE  writer'.batch[i].event \in Elems(rows')
  <2>1. i + 1 \in DOMAIN writer.batch /\ writer'.batch[i] = writer.batch[i + 1]
    BY <1>1, LineFacts
  <2>2. QED
    BY <1>4, <1>6, <1>10, <2>1 DEF DirectPath
<1>11. QED
  BY <1>1, <1>4, <1>8, <1>9, <1>10 DEF DirectPath

\* The fresh tasks of a batch before its commit have no row, and no earlier task of the
\* batch writes one.
LEMMA BatchIsNew ==
  ASSUME Typed, Sources, DirectPath, writer.pc \in {"collect", "commit"}
  PROVE  NewToTable(rows, writer.batch)
<1>1. ASSUME NEW i \in DOMAIN writer.batch, writer.batch[i].replay = None
      PROVE  /\ writer.batch[i].event \notin Elems(rows)
             /\ \A j \in 1..(i - 1) : writer.batch[j].event # writer.batch[i].event
  <2>1. i \in DOMAIN Line /\ Line[i] = writer.batch[i] /\ Fresh(i)
    BY <1>1, LineFacts DEF Fresh
  <2>2. Line[i].event \notin Elems(rows) /\ Line[i].event \notin diverted
    BY <1>1, <2>1 DEF DirectPath, Unsettled
  <2>3. ASSUME NEW j \in 1..(i - 1) PROVE writer.batch[j].event # writer.batch[i].event
    <3>1. j \in DOMAIN writer.batch /\ j # i
      BY LineFacts
    <3>2. j \in DOMAIN Line /\ Line[j] = writer.batch[j]
      BY <3>1, LineFacts
    <3>3. CASE Fresh(j)
      BY <2>1, <3>1, <3>2, <3>3 DEF DirectPath
    <3>4. CASE ~Fresh(j)
      <4>1. Line[j].event \in diverted
        BY <3>2, <3>4 DEF Sources, Elems, Fresh
      <4>2. QED
        BY <2>1, <2>2, <3>2, <4>1
    <3>5. QED
      BY <3>3, <3>4
  <2>4. QED
    BY <2>1, <2>2, <2>3
<1>2. QED
  BY <1>1 DEF NewToTable

\* The transaction gives every task of the batch its row.
LEMMA DirectPathCommitted ==
  ASSUME Typed, Sources, DirectPath, WriterCommit
  PROVE  DirectPath'
<1>1. /\ writer.pc = "commit" /\ writer'.pc = "settle" /\ writer'.ok = TRUE
      /\ writer'.batch = writer.batch /\ rows' = Insertion /\ UNCHANGED <<queue, diverted>>
  BY DEF WriterCommit, Typed, WriterType, ledger
<1>2. Line' = Line
  BY <1>1 DEF Line
<1>3. /\ rows \in Seq(Events) /\ writer.batch \in Seq(Task)
  BY LineFacts DEF Typed
<1>4. Distinct(rows')
  BY <1>1, <1>3, BatchIsNew, InsertionTable DEF DirectPath
<1>5. Elems(rows') = Elems(rows) \cup {writer.batch[i].event : i \in DOMAIN writer.batch}
  BY <1>1, <1>3, InsertionTable
<1>6. ASSUME NEW i \in DOMAIN Line, Fresh(i), i > Len(writer.batch)
      PROVE  Line[i].event \notin Elems(rows')
  <2>1. Line[i].event \notin Elems(rows) /\ Line[i].event \notin diverted
    BY <1>1, <1>6 DEF DirectPath, Unsettled
  <2>2. ASSUME NEW j \in DOMAIN writer.batch PROVE writer.batch[j].event # Line[i].event
    <3>1. j \in DOMAIN Line /\ Line[j] = writer.batch[j] /\ j # i
      BY <1>6, LineFacts
    <3>2. CASE Fresh(j)
      BY <1>6, <3>1, <3>2 DEF DirectPath
    <3>3. CASE ~Fresh(j)
      <4>1. Line[j].event \in diverted
        BY <3>1, <3>3 DEF Sources, Elems, Fresh
      <4>2. QED
        BY <2>1, <3>1, <4>1
    <3>4. QED
      BY <3>2, <3>3
  <2>3. QED
    BY <1>5, <2>1, <2>2
<1>7. Unsettled' = FALSE
  BY <1>1 DEF Unsettled
<1>8. \A i \in DOMAIN Line : Fresh(i) => Line[i].event \notin diverted
  BY <1>1 DEF DirectPath
<1>9. QED
  BY <1>1, <1>2, <1>4, <1>5, <1>6, <1>7, <1>8 DEF DirectPath, Fresh

\* A failed task that reserves its place in the spool is diverted.
LEMMA DirectPathReserved ==
  ASSUME Typed, DirectPath, SpoolReserve
  PROVE  DirectPath'
<1>1. /\ writer.pc = "settle" /\ ~writer.ok /\ writer.batch # <<>> /\ Current.replay = None
      /\ writer'.pc = "blocked" /\ writer'.batch = writer.batch /\ UNCHANGED <<rows, queue>>
      /\ diverted' = diverted \cup {Current.event}
  BY DEF SpoolReserve, Typed, WriterType, disk
<1>2. Line' = Line
  BY <1>1 DEF Line
<1>3. 1 \in DOMAIN writer.batch /\ writer.batch[1] = Current
  BY <1>1, LineFacts DEF Current
<1>4. 1 \in DOMAIN Line /\ Line[1] = Current /\ Fresh(1)
  BY <1>1, <1>3, LineFacts DEF Fresh
<1>5. ASSUME NEW i \in DOMAIN Line, Fresh(i)
      PROVE  Line[i].event \in diverted' <=> i = 1
  BY <1>1, <1>4, <1>5 DEF DirectPath
<1>6. Unsettled /\ Unsettled'
  BY <1>1 DEF Unsettled
<1>7. \A i \in DOMAIN Line : Fresh(i) => Line[i].event \notin Elems(rows)
  BY <1>6, Zenon DEF DirectPath
<1>8. QED
  BY <1>1, <1>2, <1>5, <1>6, <1>7 DEF DirectPath, Fresh

\* The direct path is kept by every step.
LEMMA DirectPathStep ==
  ASSUME Typed, Shape, Sources, DirectPath, Next
  PROVE  DirectPath'
<1>1. CASE Start \/ Stopped \/ Crash
  <2>1. MemoryCleared /\ UNCHANGED rows
    BY <1>1 DEF Start, Stopped, Crash, disk
  <2>2. Line' = <<>> /\ writer'.pc = "select"
    BY <2>1, LineCleared DEF IdleWriter
  <2>3. QED
    BY <2>1, <2>2 DEF DirectPath, Unsettled
<1>2. CASE Stop \/ Ended \/ PruneSQLite
  <2>1. UNCHANGED <<writer, queue, rows, diverted>>
    BY <1>2 DEF Stop, Ended, PruneSQLite, vars, disk, wvars, ledger
  <2>2. QED
    BY <2>1, LineUntouched, DirectPathKept
<1>3. ASSUME NEW e \in Events, Record(e) \/ RecordLate(e) \/ HandOffStep(e)
      PROVE  DirectPath'
  <2>1. CASE Record(e)
    <3>1. UNCHANGED <<writer, rows>> /\ writer.pc # "blocked" /\ e \notin recorded
      BY <2>1 DEF Record, ControlFree, disk
    <3>2. e \notin Elems(rows) /\ e \notin diverted /\ \A i \in DOMAIN Line : Line[i].event # e
      BY <3>1 DEF Sources, Elems
    <3>3. CASE QueueAccepts
      <4> DEFINE t == [event |-> e, replay |-> None]
      <4>1. t \in Task /\ t.event = e
        BY DEF Task
      <4>2. queue' = Append(queue, t) /\ UNCHANGED diverted
        BY <2>1, <3>3 DEF Record
      <4> HIDE DEF t
      <4>3. Line' = Append(Line, t)
        BY <3>1, <4>1, <4>2, LineGrown
      <4>4. QED
        BY <3>1, <3>2, <4>1, <4>2, <4>3, DirectPathGrown
    <3>4. CASE ~QueueAccepts
      <4>1. diverted' = diverted \cup {e} /\ UNCHANGED queue
        BY <2>1, <3>4 DEF Record
      <4>2. Line' = Line
        BY <3>1, <4>1, LineUntouched
      <4>3. QED
        BY <3>1, <3>2, <4>1, <4>2 DEF DirectPath, Fresh, Unsettled
    <3>5. QED
      BY <3>3, <3>4
  <2>2. CASE ~Record(e)
    <3>1. UNCHANGED <<writer, queue, rows, diverted>>
      BY <1>3, <2>2 DEF RecordLate, HandOffStep, HandOff, HandOffDrop, disk, wvars, ledger
    <3>2. QED
      BY <3>1, LineUntouched, DirectPathKept
  <2>3. QED
    BY <2>1, <2>2
<1>4. CASE WriterStep
  <2>1. CASE WriterTake \/ WriterCollect
    <3>1. Line' = Line /\ UNCHANGED <<rows, diverted>> /\ writer.pc \in {"select", "collect"}
          /\ writer'.pc = "collect"
      BY <2>1, LineTaken DEF WriterTake, WriterCollect, disk, ledger
    <3>2. QED
      BY <3>1, DirectPathMoved DEF Unsettled
  <2>2. CASE WriterPersist \/ WriterFinish
    <3>1. /\ UNCHANGED <<rows, diverted, queue>> /\ writer.pc \in {"collect", "select"}
          /\ writer'.pc \in {"commit", "done"} /\ writer'.batch = writer.batch
      BY <2>2 DEF WriterPersist, WriterFinish, Typed, WriterType, disk, ledger
    <3>2. Line' = Line
      BY <3>1 DEF Line
    <3>3. QED
      BY <3>1, <3>2, DirectPathMoved DEF Unsettled
  <2>3. CASE WriterFail
    <3>1. /\ UNCHANGED <<rows, diverted, queue>> /\ writer.pc = "commit"
          /\ writer'.pc = "settle" /\ writer'.ok = FALSE /\ writer'.batch = writer.batch
      BY <2>3 DEF WriterFail, Typed, WriterType, disk, ledger
    <3>2. Line' = Line
      BY <3>1 DEF Line
    <3>3. QED
      BY <3>1, <3>2, DirectPathMoved DEF Unsettled
  <2>4. CASE WriterBatchDone
    <3>1. /\ UNCHANGED <<rows, diverted, queue>> /\ writer.pc = "settle" /\ writer.batch = <<>>
          /\ writer'.pc = "select" /\ writer'.batch = writer.batch
      BY <2>4 DEF WriterBatchDone, IdleWriter, disk, ledger
    <3>2. Line' = Line
      BY <3>1 DEF Line
    <3>3. \A i \in DOMAIN Line : Fresh(i) => Line[i].event \notin Elems(rows)
      <4>1. Len(writer.batch) = 0
        BY <3>1
      <4>2. \A i \in DOMAIN Line : i > 0
        BY LineFacts
      <4>3. QED
        BY <4>1, <4>2 DEF DirectPath
    <3>4. Unsettled' /\ writer'.pc # "blocked" /\ writer.pc # "blocked"
      BY <3>1 DEF Unsettled
    <3>5. QED
      BY <3>1, <3>2, <3>3, <3>4 DEF DirectPath, Fresh
  <2>5. QED
    BY <1>4, <2>1, <2>2, <2>3, <2>4, DirectPathSettled, DirectPathCommitted, DirectPathReserved
       DEF WriterStep, Settles
<1>5. CASE SpoolStep \/ RetryStep
  <2>1. UNCHANGED <<writer, queue, rows, diverted>>
    BY <1>5 DEF SpoolStep, SpoolTake, SpoolWrite, SpoolFinish, RetryStep, RetryBegin, RetryExist,
                RetryWait, RetryExit, Retry, disk, wvars, ledger
  <2>2. QED
    BY <2>1, LineUntouched, DirectPathKept
<1>6. ASSUME NEW g \in Feeders, FeederStep(g)
      PROVE  DirectPath'
  <2>1. CASE Feed(g)
    <3> DEFINE t == [event |-> Head(feeder[g].rest), replay |-> feeder[g].replay]
    <3>1. /\ UNCHANGED <<writer, rows, diverted>> /\ writer.pc # "blocked"
          /\ queue' = Append(queue, t)
      BY <2>1 DEF Feed, ControlFree, disk, ledger
    <3>2. t \in Task /\ t.replay # None
      <4>1. /\ feeder[g].rest \in Seq(Events) /\ feeder[g].rest # <<>>
            /\ feeder[g].replay \in Replays
        BY <2>1 DEF Feed, Typed, FeederType, Shape, Placed, Holding
      <4>2. QED
        BY <4>1, ElemsTail, PipelineAssumption DEF Task
    <3> HIDE DEF t
    <3>3. Line' = Append(Line, t)
      BY <3>1, <3>2, LineGrown
    <3>4. QED
      BY <3>1, <3>2, <3>3, DirectPathGrown
  <2>2. CASE ~Feed(g)
    <3>1. UNCHANGED <<writer, queue, rows, diverted>>
      BY <1>6, <2>2 DEF FeederStep, Merge, Unlink, Scan, Open, FeedStop, FeedEnd, disk, wvars, ledger
    <3>2. QED
      BY <3>1, LineUntouched, DirectPathKept
  <2>3. QED
    BY <2>1, <2>2
<1>7. QED
  BY <1>1, <1>2, <1>3, <1>4, <1>5, <1>6 DEF Next

-----------------------------------------------------------------------------
\* The invariants of the ledgers hold after a stuttering step.
LEMMA LedgersStutter ==
  ASSUME UNCHANGED vars
  PROVE  /\ Bytes => Bytes'
         /\ Sources => Sources'
         /\ DirectPath => DirectPath'
<1>1. UNCHANGED <<disk, wvars, svars, pending, handoff, rvars, ledger, phase>>
  BY DEF vars
<1>2. UNCHANGED <<queue, queueBytes, writer, spoolQueue, spooling, spoolBytes, rows, active,
                  replayFile, feeder, replay, handoff>>
  BY <1>1 DEF wvars, svars, disk, rvars
<1>3. Bytes => Bytes'
  BY <1>2, BytesKept
<1>4. Line' = Line
  BY <1>2, LineUntouched
<1>5. Sources => Sources'
  BY <1>1, <1>2, <1>4 DEF Sources, RestsIn, FailedIn, ledger
<1>6. DirectPath => DirectPath'
  BY <1>1, <1>2, <1>4, DirectPathKept DEF ledger
<1>7. QED
  BY <1>3, <1>5, <1>6

\* The part of the inductive invariant that the table and the aggregate rest on.
Tables == Typed /\ Shape /\ Bytes /\ Sources /\ DirectPath

\* The types, the positions of the goroutines, the bytes of both queues, where
\* events come from and the direct path: what every goroutine of go/stats.go and
\* go/event_writer.go keeps, in any interleaving, over crashes and restarts.
THEOREM PipelineTables == Spec => []Tables
<1>1. Init => Tables
  BY TypeInit, BytesInit, SourcesInit, DirectPathInit DEF Tables
<1>2. Tables /\ [Next]_vars => Tables'
  <2>1. ASSUME Tables, Next PROVE Tables'
    <3>1. Typed /\ Shape /\ Bytes /\ Sources /\ DirectPath
      BY <2>1 DEF Tables
    <3>2. writer.pc = "blocked" => Current.event \in diverted
      BY <3>1, BlockedIsDiverted
    <3>3. QED
      BY <2>1, <3>1, <3>2, TypeStep, ShapeStep, BytesStep, SourcesStep, DirectPathStep DEF Tables
  <2>2. ASSUME Tables, UNCHANGED vars PROVE Tables'
    BY <2>2, TypeStutter, ShapeStutter, LedgersStutter DEF Tables
  <2>3. QED
    BY <2>1, <2>2
<1>3. QED
  BY <1>1, <1>2, PTL DEF Spec

\* insertEventTxPrepared leaves at most one row of an event however often it is
\* replayed: a fresh task is the only one of its event, and a replayed one is
\* looked up in the transaction that inserts it (go/event_writer.go).
THEOREM NoDuplicates == Spec => []NoDuplicateRows
<1>1. Tables => NoDuplicateRows
  BY DEF Tables, DirectPath, Distinct, NoDuplicateRows
<1>2. QED
  BY <1>1, PipelineTables, PTL

-----------------------------------------------------------------------------
(***************************************************************************)
(* The aggregate.  An event is marked once it has left the direct path.    *)
(* For the others the aggregates in memory, in the store and in a          *)
(* snapshot count exactly what the table and the writer hold.              *)
(***************************************************************************)
Marked == diverted \cup late \cup early

RowUpTo(e, n) == \E i \in DOMAIN rows : i <= n /\ rows[i] = e
FreshOf(e) == \E i \in DOMAIN Line : Fresh(i) /\ Line[i].event = e

SavedExact ==
  saved # None =>
    /\ saved.mark <= Len(rows)
    /\ \A e \in Events \ Marked : saved.agg[e] = IF RowUpTo(e, saved.mark) THEN 1 ELSE 0

MemoryExact ==
  Running =>
    /\ lastId = Len(rows)
    /\ \A e \in Events \ Marked :
         counted[e] = IF e \in Elems(rows) \/ FreshOf(e) THEN 1 ELSE 0

SnapshotExact ==
  writer.pc = "commit" /\ writer.snap # None =>
    /\ writer.snap.mark = Len(Insertion)
    /\ \A e \in Events \ Marked :
         writer.snap.agg[e] = IF e \in Elems(Insertion) THEN 1 ELSE 0

Aggregates == SavedExact /\ MemoryExact /\ SnapshotExact

\* Rows are distinct: a count of rows is 0 or 1.
LEMMA RowCountIs ==
  ASSUME rows \in Seq(Events), Distinct(rows), NEW from \in Nat, NEW e \in Events
  PROVE  RowCount(from)[e] = IF \E i \in DOMAIN rows : i > from /\ rows[i] = e THEN 1 ELSE 0
<1> DEFINE S == {i \in DOMAIN rows : i > from /\ rows[i] = e}
<1>1. RowCount(from)[e] = Cardinality(S)
  BY DEF RowCount
<1>2. CASE S = {}
  <2>1. \A i \in DOMAIN rows : ~(i > from /\ rows[i] = e)
    BY <1>2
  <2>2. QED
    BY <1>1, <1>2, <2>1, FS_EmptySet
<1>3. CASE S # {}
  <2>1. PICK i : i \in S
    BY <1>3
  <2>2. S = {i}
    BY <2>1 DEF Distinct
  <2>3. Cardinality(S) = 1
    BY <2>2, FS_Singleton
  <2>4. \E j \in DOMAIN rows : j > from /\ rows[j] = e
    BY <2>1
  <2>5. QED
    BY <1>1, <2>3, <2>4
<1>4. QED
  BY <1>2, <1>3

\* What a process recovers, for an event that never left the direct path.
LEMMA RecoveredIs ==
  ASSUME Typed, Distinct(rows), SavedExact, NEW e \in Events \ Marked
  PROVE  Recovered[e] = IF e \in Elems(rows) THEN 1 ELSE 0
<1>0. rows \in Seq(Events) /\ e \in Events
  BY DEF Typed
<1>1. e \in Elems(rows) <=> \E i \in DOMAIN rows : rows[i] = e
  BY DEF Elems
<1>2. CASE saved # None
  <2>1. /\ saved.mark \in Nat /\ saved.agg \in Counts /\ saved.mark <= Len(rows)
        /\ saved.agg[e] = IF RowUpTo(e, saved.mark) THEN 1 ELSE 0
    BY <1>2 DEF Typed, Snapshot, SavedExact
  <2>2. RowCount(saved.mark)[e]
          = IF \E i \in DOMAIN rows : i > saved.mark /\ rows[i] = e THEN 1 ELSE 0
    BY <1>0, <2>1, RowCountIs DEF Typed
  <2>3. ~(RowUpTo(e, saved.mark) /\ \E i \in DOMAIN rows : i > saved.mark /\ rows[i] = e)
    <3>1. ASSUME NEW i \in DOMAIN rows, NEW j \in DOMAIN rows, i <= saved.mark, j > saved.mark,
                 rows[i] = e, rows[j] = e
          PROVE  FALSE
      <4>1. i = j
        BY <3>1 DEF Distinct
      <4>2. QED
        BY <1>0, <2>1, <3>1, <4>1
    <3>2. QED
      BY <3>1 DEF RowUpTo
  <2>4. e \in Elems(rows) <=> \/ RowUpTo(e, saved.mark)
                              \/ \E i \in DOMAIN rows : i > saved.mark /\ rows[i] = e
    BY <1>0, <1>1, <2>1 DEF RowUpTo
  <2>5. saved.agg[e] + RowCount(saved.mark)[e] = IF e \in Elems(rows) THEN 1 ELSE 0
    BY <2>1, <2>2, <2>3, <2>4
  <2>6. RowCount(0)[e] = IF e \in Elems(rows) THEN 1 ELSE 0
    <3>1. RowCount(0)[e] = IF \E i \in DOMAIN rows : i > 0 /\ rows[i] = e THEN 1 ELSE 0
      BY <1>0, RowCountIs
    <3>2. (\E i \in DOMAIN rows : i > 0 /\ rows[i] = e) <=> \E i \in DOMAIN rows : rows[i] = e
      BY <1>0
    <3>3. QED
      BY <1>1, <3>1, <3>2
  <2>7. QED
    BY <2>5, <2>6 DEF Recovered
<1>3. CASE saved = None
  <2>1. Recovered = RowCount(0)
    BY <1>3 DEF Recovered
  <2>2. RowCount(0)[e] = IF \E i \in DOMAIN rows : i > 0 /\ rows[i] = e THEN 1 ELSE 0
    BY <1>0, RowCountIs
  <2>3. (\E i \in DOMAIN rows : i > 0 /\ rows[i] = e) <=> \E i \in DOMAIN rows : rows[i] = e
    BY <1>0
  <2>4. QED
    BY <1>1, <2>1, <2>2, <2>3
<1>4. QED
  BY <1>2, <1>3

\* What leaves a part of the invariant alone.
LEMMA SavedKept ==
  ASSUME SavedExact, UNCHANGED <<saved, rows>>, Marked \subseteq Marked'
  PROVE  SavedExact'
BY DEF SavedExact, RowUpTo

\* Steps that leave the aggregate in memory exact.
LEMMA MemoryKept ==
  ASSUME MemoryExact, UNCHANGED <<counted, lastId, rows>>, Marked \subseteq Marked',
         Line' = Line, Running' => Running
  PROVE  MemoryExact'
BY DEF MemoryExact, FreshOf, Fresh

\* Steps that leave a snapshot exact.
LEMMA SnapshotKept ==
  ASSUME SnapshotExact, UNCHANGED <<writer, rows>>, Marked \subseteq Marked'
  PROVE  SnapshotExact'
<1>1. Insertion' = Insertion
  BY DEF Insertion
<1>2. QED
  BY <1>1 DEF SnapshotExact

\* Steps that leave all three exact.
LEMMA AggregatesKept ==
  ASSUME Aggregates, UNCHANGED <<saved, rows, counted, lastId, writer, queue>>,
         Marked \subseteq Marked', Running' => Running
  PROVE  Aggregates'
BY LineUntouched, SavedKept, MemoryKept, SnapshotKept DEF Aggregates

\* The aggregates stay exact in the beginning.
LEMMA AggregatesInit == Init => Aggregates
<1>1. Init => saved = None /\ phase = "down" /\ writer.pc = "select"
  BY DEF Init, IdleWriter
<1>2. QED
  BY <1>1 DEF Aggregates, SavedExact, MemoryExact, SnapshotExact, Running

\* The whole table is up to its own length.
LEMMA AllRows ==
  ASSUME Typed, NEW e
  PROVE  RowUpTo(e, Len(rows)) <=> e \in Elems(rows)
<1>1. rows \in Seq(Events)
  BY DEF Typed
<1>2. \A i \in DOMAIN rows : i <= Len(rows)
  BY <1>1
<1>3. QED
  BY <1>2 DEF RowUpTo, Elems

\* The aggregates stay exact through a start, an end or a crash of the process.
LEMMA AggregatesOfProcess ==
  ASSUME Typed, DirectPath, Aggregates, Start \/ Stopped \/ Crash
  PROVE  Aggregates'
<1>1. MemoryCleared /\ UNCHANGED rows /\ Marked' = Marked
  BY DEF Start, Stopped, Crash, disk, ledger, Marked
<1>2. Line' = <<>> /\ writer'.pc = "select"
  BY <1>1, LineCleared DEF IdleWriter
<1>3. SnapshotExact'
  BY <1>2 DEF SnapshotExact
<1>4. CASE Start
  <2>1. /\ saved' = [agg |-> Recovered, mark |-> Len(rows)] /\ counted' = Recovered
        /\ lastId' = Larger(Len(rows), IF saved = None THEN 0 ELSE saved.mark)
    BY <1>4 DEF Start
  <2>2. lastId' = Len(rows)
    <3>1. Len(rows) \in Nat /\ (saved # None => saved.mark \in Nat /\ saved.mark <= Len(rows))
      BY DEF Typed, Aggregates, SavedExact, Snapshot
    <3>2. QED
      BY <2>1, <3>1 DEF Larger
  <2>3. \A e \in Events \ Marked : Recovered[e] = IF e \in Elems(rows) THEN 1 ELSE 0
    BY RecoveredIs DEF Aggregates, DirectPath
  <2>4. \A e \in Events : ~FreshOf(e)'
    BY <1>2 DEF FreshOf
  <2>5. SavedExact'
    <3>1. Len(rows) <= Len(rows)
      BY DEF Typed
    <3>2. saved'.mark = Len(rows) /\ saved'.agg = Recovered
      BY <2>1
    <3>3. ASSUME NEW e \in Events \ Marked'
          PROVE  saved'.agg[e] = IF RowUpTo(e, saved.mark)' THEN 1 ELSE 0
      <4>1. RowUpTo(e, saved.mark)' <=> RowUpTo(e, Len(rows))
        BY <1>1, <3>2 DEF RowUpTo
      <4>2. QED
        BY <1>1, <2>3, <3>2, <4>1, AllRows
    <3>4. QED
      BY <1>1, <3>1, <3>2, <3>3 DEF SavedExact
  <2>6. MemoryExact'
    BY <1>1, <2>1, <2>2, <2>3, <2>4 DEF MemoryExact
  <2>7. QED
    BY <1>3, <2>5, <2>6 DEF Aggregates
<1>5. CASE Stopped \/ Crash
  <2>1. UNCHANGED saved /\ phase' = "down"
    BY <1>5 DEF Stopped, Crash, disk
  <2>2. QED
    BY <1>1, <1>3, <2>1, SavedKept DEF Aggregates, MemoryExact, Running
<1>6. QED
  BY <1>4, <1>5

\* The aggregates stay exact through pruneSQLite.
LEMMA AggregatesOfPrune ==
  ASSUME Typed, Shape, Aggregates, PruneSQLite
  PROVE  Aggregates'
<1>1. /\ UNCHANGED <<rows, counted, lastId, writer, queue, phase>> /\ phase = "up"
      /\ saved' = [agg |-> counted, mark |-> Len(rows)]
      /\ Marked' = Marked \cup ((NewEvents(queue) \cup NewEvents(writer.batch)) \ Elems(rows))
  BY DEF PruneSQLite, wvars, Marked
<1>2. SnapshotExact'
  BY <1>1, SnapshotKept DEF Aggregates
<1>3. MemoryExact'
  BY <1>1, LineUntouched, MemoryKept DEF Aggregates, Running
<1>4. ASSUME NEW e \in Events \ Marked', FreshOf(e)
      PROVE  e \in Elems(rows)
  <2>1. PICK i \in DOMAIN Line : Fresh(i) /\ Line[i].event = e
    BY <1>4 DEF FreshOf
  <2>2. CASE i \in DOMAIN writer.batch
    <3>1. Line[i] = writer.batch[i]
      BY <2>2, LineFacts
    <3>2. e \in NewEvents(writer.batch)
      BY <2>1, <2>2, <3>1 DEF NewEvents, Fresh
    <3>3. QED
      BY <1>1, <1>4, <3>2
  <2>3. CASE i \notin DOMAIN writer.batch
    <3> DEFINE k == i - Len(writer.batch)
    <3>1. k \in DOMAIN queue /\ Len(writer.batch) + k = i
      BY <2>3, LineFacts
    <3>2. Line[i] = queue[k]
      BY <3>1, LineFacts
    <3>3. e \in NewEvents(queue)
      BY <2>1, <3>1, <3>2 DEF NewEvents, Fresh
    <3>4. QED
      BY <1>1, <1>4, <3>3
  <2>4. QED
    BY <2>2, <2>3
<1>5. ASSUME NEW e \in Events \ Marked'
      PROVE  counted[e] = IF RowUpTo(e, Len(rows)) THEN 1 ELSE 0
  <2>1. e \in Events \ Marked
    BY <1>1
  <2>2. counted[e] = IF e \in Elems(rows) \/ FreshOf(e) THEN 1 ELSE 0
    BY <1>1, <2>1 DEF Aggregates, MemoryExact, Running
  <2>3. QED
    BY <1>4, <1>5, <2>2, AllRows
<1>6. SavedExact'
  <2>1. Len(rows) <= Len(rows)
    BY DEF Typed
  <2>2. saved'.mark = Len(rows) /\ saved'.agg = counted
    BY <1>1
  <2>3. \A e : RowUpTo(e, saved.mark)' <=> RowUpTo(e, Len(rows))
    BY <1>1, <2>2 DEF RowUpTo
  <2>4. QED
    BY <1>1, <1>5, <2>1, <2>2, <2>3 DEF SavedExact
<1>7. QED
  BY <1>2, <1>3, <1>6 DEF Aggregates

\* The aggregates stay exact through Record and its hand-off.
LEMMA AggregatesOfRecord ==
  ASSUME Typed, Sources, Aggregates, NEW x \in Events, Record(x) \/ RecordLate(x) \/ HandOffStep(x)
  PROVE  Aggregates'
<1>1. /\ UNCHANGED <<saved, rows, lastId, writer>> /\ Marked \subseteq Marked'
      /\ phase' = phase
  BY DEF Record, RecordLate, HandOffStep, HandOff, HandOffDrop, disk, wvars, ledger, Marked
<1>2. SavedExact' /\ SnapshotExact'
  BY <1>1, SavedKept, SnapshotKept DEF Aggregates
<1>3. CASE HandOffStep(x)
  <2>1. UNCHANGED <<queue, counted>>
    BY <1>3 DEF HandOffStep, HandOff, HandOffDrop, wvars
  <2>2. QED
    BY <1>1, <1>2, <2>1, LineUntouched, MemoryKept DEF Aggregates, Running
<1>4. CASE Record(x) \/ RecordLate(x)
  <2>1. /\ counted' = [counted EXCEPT ![x] = @ + 1] /\ x \notin recorded
        /\ Running
    BY <1>4 DEF Record, RecordLate, Running
  <2>2. counted \in [Events -> Nat]
    BY DEF Typed, Counts
  <2>3. x \notin Marked /\ x \notin Elems(rows) /\ ~FreshOf(x)
    <3>1. \A i \in DOMAIN Line : Line[i].event # x
      BY <2>1 DEF Sources, Elems
    <3>2. QED
      BY <2>1, <3>1 DEF Sources, Marked, FreshOf
  <2>4. counted[x] = 0
    BY <2>1, <2>3 DEF Aggregates, MemoryExact
  <2>5. ASSUME NEW e \in Events \ Marked', e # x
        PROVE  counted'[e] = IF e \in Elems(rows) \/ FreshOf(e) THEN 1 ELSE 0
    <3>1. e \in Events \ Marked
      BY <1>1
    <3>2. counted'[e] = counted[e]
      BY <2>1, <2>2, <2>5
    <3>3. QED
      BY <2>1, <3>1, <3>2 DEF Aggregates, MemoryExact
  <2>6. CASE x \in Marked'
    <3>1. Line' = Line
      <4>1. UNCHANGED queue
        <5>1. CASE RecordLate(x)
          BY <5>1 DEF RecordLate, wvars
        <5>2. CASE Record(x)
          <6>1. UNCHANGED <<late, early>> /\ (QueueAccepts => UNCHANGED diverted)
                /\ (~QueueAccepts => UNCHANGED queue)
            BY <5>2 DEF Record
          <6>2. QED
            BY <2>3, <2>6, <6>1 DEF Marked
        <5>3. QED
          BY <1>4, <5>1, <5>2
      <4>2. QED
        BY <1>1, <4>1, LineUntouched
    <3>2. \A e : FreshOf(e)' <=> FreshOf(e)
      BY <3>1 DEF FreshOf, Fresh
    <3>3. MemoryExact'
      BY <1>1, <2>1, <2>5, <2>6, <3>2 DEF Aggregates, MemoryExact
    <3>4. QED
      BY <1>2, <3>3 DEF Aggregates
  <2>7. CASE x \notin Marked'
    <3> DEFINE t == [event |-> x, replay |-> None]
    <3>1. t \in Task /\ t.event = x /\ t.replay = None
      BY DEF Task
    <3>2. queue' = Append(queue, t)
      <4>1. CASE RecordLate(x)
        BY <2>7, <4>1 DEF RecordLate, Marked
      <4>2. CASE Record(x)
        <5>1. QueueAccepts
          BY <2>7, <4>2 DEF Record, Marked
        <5>2. QED
          BY <4>2, <5>1 DEF Record
      <4>3. QED
        BY <1>4, <4>1, <4>2
    <3> HIDE DEF t
    <3>3. Line' = Append(Line, t)
      BY <1>1, <3>1, <3>2, LineGrown
    <3>4. /\ \A i \in DOMAIN Line : i \in DOMAIN Line' /\ Line'[i] = Line[i]
          /\ Len(Line) + 1 \in DOMAIN Line' /\ Line'[Len(Line) + 1] = t
          /\ \A i \in DOMAIN Line' : i \in DOMAIN Line \/ i = Len(Line) + 1
      BY <3>1, <3>3, LineFacts
    <3>5. FreshOf(x)'
      BY <3>1, <3>4 DEF FreshOf, Fresh
    <3>6. ASSUME NEW e, e # x PROVE FreshOf(e)' <=> FreshOf(e)
      BY <3>1, <3>4, <3>6 DEF FreshOf, Fresh
    <3>7. counted'[x] = 1
      BY <2>1, <2>2, <2>4
    <3>8. MemoryExact'
      BY <1>1, <2>1, <2>5, <3>5, <3>6, <3>7 DEF Aggregates, MemoryExact
    <3>9. QED
      BY <1>2, <3>8 DEF Aggregates
  <2>8. QED
    BY <2>6, <2>7
<1>5. QED
  BY <1>3, <1>4

\* The tasks of a transaction, and what it adds to the table.
LEMMA InsertionCounts ==
  ASSUME Typed, Sources, NEW e \in Events \ Marked
  PROVE  (e \in Elems(Insertion) \/ FreshOf(e)) <=> (e \in Elems(rows) \/ FreshOf(e))
<1>1. Elems(Insertion) = Elems(rows) \cup {writer.batch[i].event : i \in DOMAIN writer.batch}
  BY LineFacts, InsertionTable DEF Typed
<1>2. ASSUME NEW i \in DOMAIN writer.batch, writer.batch[i].event = e
      PROVE  FreshOf(e)
  <2>1. i \in DOMAIN Line /\ Line[i] = writer.batch[i]
    BY LineFacts
  <2>2. Fresh(i)
    BY <1>2, <2>1 DEF Fresh, Sources, Elems, Marked
  <2>3. QED
    BY <1>2, <2>1, <2>2 DEF FreshOf
<1>3. QED
  BY <1>1, <1>2

\* The aggregates stay exact through the writer where it neither saves, commits nor settles.
LEMMA AggregatesOfMoves ==
  ASSUME Typed, Shape, Aggregates,
         WriterTake \/ WriterCollect \/ WriterFail \/ WriterBatchDone \/ SpoolReserve
  PROVE  Aggregates'
<1>1. /\ UNCHANGED <<saved, rows, counted, lastId, phase>> /\ Marked \subseteq Marked'
      /\ writer'.pc # "commit"
  <2>1. UNCHANGED <<saved, rows, counted, lastId, phase>> /\ Marked \subseteq Marked'
    BY DEF WriterTake, WriterCollect, WriterFail, WriterBatchDone, SpoolReserve, disk, ledger, Marked
  <2>2. CASE WriterTake \/ WriterCollect
    BY <2>1, <2>2, LineTaken
  <2>3. CASE WriterFail \/ SpoolReserve
    BY <2>1, <2>3 DEF WriterFail, SpoolReserve, Typed, WriterType
  <2>4. CASE WriterBatchDone
    BY <2>1, <2>4 DEF WriterBatchDone, IdleWriter
  <2>5. QED
    BY <2>2, <2>3, <2>4
<1>2. Line' = Line
  <2>1. CASE WriterTake \/ WriterCollect
    BY <2>1, LineTaken
  <2>2. CASE WriterFail \/ SpoolReserve
    <3>1. writer'.batch = writer.batch /\ UNCHANGED queue
      BY <2>2 DEF WriterFail, SpoolReserve, Typed, WriterType
    <3>2. QED
      BY <3>1 DEF Line
  <2>3. CASE WriterBatchDone
    BY <2>3 DEF WriterBatchDone, Line, IdleWriter
  <2>4. QED
    BY <2>1, <2>2, <2>3
<1>3. SavedExact' /\ MemoryExact'
  BY <1>1, <1>2, SavedKept, MemoryKept DEF Aggregates, Running
<1>4. QED
  BY <1>1, <1>3 DEF Aggregates, SnapshotExact

\* The aggregates stay exact through the snapshot of the aggregate.
LEMMA AggregatesOfPersist ==
  ASSUME Typed, Shape, Sources, DirectPath, Aggregates, WriterPersist
  PROVE  Aggregates'
<1>1. /\ UNCHANGED <<saved, rows, counted, lastId, queue, phase>> /\ Marked' = Marked
      /\ writer.pc = "collect" /\ writer'.batch = writer.batch /\ writer'.pc = "commit"
  BY DEF WriterPersist, Typed, WriterType, disk, ledger, Marked
<1>2. Line' = Line /\ Insertion' = Insertion
  BY <1>1 DEF Line, Insertion
<1>3. SavedExact' /\ MemoryExact'
  BY <1>1, <1>2, SavedKept, MemoryKept DEF Aggregates, Running
<1>4. Running /\ writer.batch # <<>>
  BY <1>1 DEF Shape, Positions, IdleWriter, Running, Typed
<1>5. lastId = Len(rows)
  BY <1>4 DEF Aggregates, MemoryExact
<1>6. ASSUME writer'.snap # None
      PROVE  /\ writer'.snap.mark = Larger(lastId, LastInserted) /\ writer'.snap.agg = counted
             /\ queue = <<>>
  BY <1>6 DEF WriterPersist, Typed, WriterType, MaySnapshot
<1>7. Larger(lastId, LastInserted) = Len(Insertion)
  <2>1. rows \in Seq(Events) /\ writer.batch \in Seq(Task)
    BY LineFacts DEF Typed
  <2>2. Distinct(Insertion)
    BY <1>1, <2>1, BatchIsNew, InsertionTable DEF DirectPath
  <2>3. QED
    BY <1>4, <1>5, <2>1, <2>2, WatermarkIs
<1>8. ASSUME queue = <<>>, NEW e \in Events \ Marked
      PROVE  counted[e] = IF e \in Elems(Insertion) THEN 1 ELSE 0
  <2>1. counted[e] = IF e \in Elems(rows) \/ FreshOf(e) THEN 1 ELSE 0
    BY <1>4 DEF Aggregates, MemoryExact
  <2>2. ASSUME FreshOf(e) PROVE e \in Elems(Insertion)
    <3>1. PICK i \in DOMAIN Line : Line[i].event = e
      BY <2>2 DEF FreshOf
    <3>2. i \in DOMAIN writer.batch /\ writer.batch[i].event = e
      BY <1>8, <3>1, LineFacts
    <3>3. QED
      BY <3>2, LineFacts, InsertionTable DEF Typed
  <2>3. QED
    BY <2>1, <2>2, InsertionCounts
<1>9. SnapshotExact'
  BY <1>1, <1>2, <1>6, <1>7, <1>8 DEF SnapshotExact
<1>10. QED
  BY <1>3, <1>9 DEF Aggregates

\* The aggregates stay exact through the commit.
LEMMA AggregatesOfCommit ==
  ASSUME Typed, Shape, Sources, DirectPath, Aggregates, WriterCommit
  PROVE  Aggregates'
<1>1. /\ UNCHANGED <<counted, queue, phase>> /\ Marked' = Marked /\ rows' = Insertion
      /\ saved' = IF writer.snap = None THEN saved ELSE writer.snap
      /\ lastId' = Larger(lastId, LastInserted)
      /\ writer.pc = "commit" /\ writer'.batch = writer.batch /\ writer'.pc = "settle"
  BY DEF WriterCommit, Typed, WriterType, ledger, Marked
<1>2. Line' = Line
  BY <1>1 DEF Line
<1>3. \A e : FreshOf(e)' <=> FreshOf(e)
  BY <1>2 DEF FreshOf, Fresh
<1>4. Running /\ writer.batch # <<>>
  BY <1>1 DEF Shape, Positions, IdleWriter, Running, Typed
<1>5. rows \in Seq(Events) /\ writer.batch \in Seq(Task)
  BY LineFacts DEF Typed
<1>6. /\ Insertion \in Seq(Events) /\ Len(rows) <= Len(Insertion)
      /\ \A i \in DOMAIN rows : Insertion[i] = rows[i]
      /\ Distinct(Insertion)
  BY <1>1, <1>5, BatchIsNew, InsertionTable DEF DirectPath, Extends
<1>7. MemoryExact'
  <2>1. lastId' = Len(rows')
    BY <1>1, <1>4, <1>5, <1>6, WatermarkIs DEF Aggregates, MemoryExact
  <2>2. \A e \in Events \ Marked : counted[e] = IF e \in Elems(rows) \/ FreshOf(e) THEN 1 ELSE 0
    BY <1>4 DEF Aggregates, MemoryExact
  <2>3. ASSUME NEW e \in Events \ Marked'
        PROVE  counted'[e] = IF e \in Elems(rows') \/ FreshOf(e)' THEN 1 ELSE 0
    BY <1>1, <1>3, <2>2, InsertionCounts
  <2>4. QED
    BY <2>1, <2>3 DEF MemoryExact
<1>8. SavedExact'
  <2>1. CASE writer.snap = None
    <3>1. UNCHANGED saved
      BY <1>1, <2>1
    <3>2. ASSUME saved # None
          PROVE  /\ saved.mark \in Nat /\ saved.mark <= Len(rows)
                 /\ \A e \in Events \ Marked : saved.agg[e] = IF RowUpTo(e, saved.mark) THEN 1 ELSE 0
      BY <3>2 DEF Aggregates, SavedExact, Typed, Snapshot
    <3>3. ASSUME saved # None, NEW e
          PROVE  RowUpTo(e, saved.mark)' <=> RowUpTo(e, saved.mark)
      <4>1. \A i \in DOMAIN Insertion : i <= saved.mark => i \in DOMAIN rows
        BY <1>5, <1>6, <3>2, <3>3
      <4>2. \A i \in DOMAIN rows : i \in DOMAIN Insertion
        BY <1>5, <1>6
      <4>3. QED
        BY <1>1, <1>6, <3>1, <4>1, <4>2 DEF RowUpTo
    <3>4. Len(rows') \in Nat /\ Len(rows) <= Len(rows') /\ Len(rows) \in Nat
      BY <1>1, <1>5, <1>6
    <3>5. QED
      BY <1>1, <3>1, <3>2, <3>3, <3>4 DEF SavedExact
  <2>2. CASE writer.snap # None
    <3>1. saved' = writer.snap /\ saved'.mark = Len(rows') /\ Len(rows') <= Len(rows')
      BY <1>1, <1>6, <2>2 DEF Aggregates, SnapshotExact
    <3>2. \A e \in Events \ Marked : saved'.agg[e] = IF e \in Elems(rows') THEN 1 ELSE 0
      BY <1>1, <2>2 DEF Aggregates, SnapshotExact
    <3>3. ASSUME NEW e PROVE RowUpTo(e, saved.mark)' <=> e \in Elems(rows')
      <4>1. \A i \in DOMAIN rows' : i <= saved'.mark
        BY <1>1, <1>6, <3>1
      <4>2. QED
        BY <4>1 DEF RowUpTo, Elems
    <3>4. QED
      BY <1>1, <3>1, <3>2, <3>3 DEF SavedExact
  <2>3. QED
    BY <2>1, <2>2
<1>9. QED
  BY <1>1, <1>7, <1>8 DEF Aggregates, SnapshotExact

\* The aggregates stay exact through the settling of a task.
LEMMA AggregatesOfSettle ==
  ASSUME Typed, Shape, Sources, DirectPath, Aggregates, Settles
  PROVE  Aggregates'
<1>1. /\ writer.batch # <<>> /\ Line # <<>> /\ Line' = Tail(Line) /\ Line[1] = Current
      /\ writer'.pc = "settle"
  BY SettlesTask, LineSettled
<1>2. /\ UNCHANGED <<saved, rows, counted, lastId, phase>> /\ Marked \subseteq Marked'
  BY DEF Settles, SettleReplayed, SettleStored, SpoolSend, SpoolSynchronously, disk, ledger, Marked
<1>3. SavedExact'
  BY <1>2, SavedKept DEF Aggregates
<1>4. ASSUME NEW e \in Events \ Marked', Current.event = e
      PROVE  e \in Elems(rows) \/ Current.replay # None
  <2>1. CASE SettleReplayed
    BY <2>1 DEF SettleReplayed
  <2>2. CASE SettleStored
    <3>1. ~Unsettled /\ 1 \in DOMAIN writer.batch /\ Current = writer.batch[1]
      BY <1>1, <2>2, LineFacts DEF SettleStored, Unsettled, Current
    <3>2. QED
      BY <1>4, <3>1 DEF DirectPath
  <2>3. CASE SpoolSend
    <3>1. Current.event \in diverted
      BY <2>3, BlockedIsDiverted DEF SpoolSend
    <3>2. QED
      BY <1>2, <1>4, <3>1 DEF Marked
  <2>4. CASE SpoolSynchronously
    BY <1>4, <2>4 DEF SpoolSynchronously, Marked
  <2>5. QED
    BY <2>1, <2>2, <2>3, <2>4 DEF Settles
<1>5. /\ Line \in Seq(Task) /\ Len(Line) \in Nat
      /\ \A i \in DOMAIN Line' : i + 1 \in DOMAIN Line /\ Line'[i] = Line[i + 1]
      /\ \A i \in DOMAIN Line : i # 1 => i - 1 \in DOMAIN Line' /\ Line'[i - 1] = Line[i]
  BY <1>1, LineFacts
<1>6. ASSUME NEW e \in Events \ Marked'
      PROVE  (e \in Elems(rows) \/ FreshOf(e)) <=> (e \in Elems(rows) \/ FreshOf(e)')
  <2>1. ASSUME FreshOf(e)' PROVE FreshOf(e)
    BY <1>5, <2>1 DEF FreshOf, Fresh
  <2>2. ASSUME FreshOf(e), e \notin Elems(rows) PROVE FreshOf(e)'
    <3>1. PICK i \in DOMAIN Line : Fresh(i) /\ Line[i].event = e
      BY <2>2 DEF FreshOf
    <3>2. i # 1
      BY <1>1, <1>4, <2>2, <3>1 DEF Fresh
    <3>3. QED
      BY <1>5, <3>1, <3>2 DEF FreshOf, Fresh
  <2>3. QED
    BY <2>1, <2>2
<1>7. MemoryExact'
  BY <1>2, <1>6 DEF Aggregates, MemoryExact, Running
<1>8. QED
  BY <1>1, <1>3, <1>7 DEF Aggregates, SnapshotExact

\* The aggregates stay exact through the final snapshot.
LEMMA AggregatesOfFinish ==
  ASSUME Typed, Shape, Aggregates, WriterFinish
  PROVE  Aggregates'
<1>1. /\ UNCHANGED <<rows, counted, lastId, queue, phase>> /\ Marked' = Marked
      /\ phase = "stopping" /\ writer.pc = "select" /\ queue = <<>>
      /\ writer'.batch = writer.batch /\ writer'.pc = "done"
  BY DEF WriterFinish, Typed, WriterType, ledger, Marked
<1>2. Line' = Line
  BY <1>1 DEF Line
<1>3. MemoryExact'
  BY <1>1, <1>2, MemoryKept DEF Aggregates, Running
<1>4. lastId = Len(rows)
  BY <1>1 DEF Aggregates, MemoryExact, Running
<1>5. CASE UNCHANGED saved
  BY <1>1, <1>3, <1>5, SavedKept DEF Aggregates, SnapshotExact
<1>6. CASE saved' = [agg |-> counted, mark |-> IF lastId = 0 THEN Len(rows) ELSE lastId]
  <2>1. saved'.mark = Len(rows) /\ saved'.agg = counted /\ Len(rows) <= Len(rows)
    BY <1>4, <1>6 DEF Typed
  <2>2. \A e : ~FreshOf(e)
    <3>1. Line = <<>>
      BY <1>1 DEF Line, Shape, Positions
    <3>2. QED
      BY <3>1 DEF FreshOf
  <2>3. \A e \in Events \ Marked : counted[e] = IF e \in Elems(rows) THEN 1 ELSE 0
    BY <1>1, <2>2 DEF Aggregates, MemoryExact, Running
  <2>4. ASSUME NEW e PROVE RowUpTo(e, saved.mark)' <=> e \in Elems(rows)
    <3>1. RowUpTo(e, saved.mark)' <=> RowUpTo(e, Len(rows))
      BY <1>1, <2>1 DEF RowUpTo
    <3>2. QED
      BY <3>1, AllRows
  <2>5. SavedExact'
    BY <1>1, <2>1, <2>3, <2>4 DEF SavedExact
  <2>6. QED
    BY <1>1, <1>3, <2>5 DEF Aggregates, SnapshotExact
<1>7. QED
  BY <1>5, <1>6 DEF WriterFinish

\* The aggregates stay exact through a feeder.
LEMMA AggregatesOfFeeder ==
  ASSUME Typed, Shape, Sources, Aggregates, NEW g \in Feeders, FeederStep(g)
  PROVE  Aggregates'
<1>1. CASE ~Feed(g)
  <2>1. UNCHANGED <<saved, rows, counted, lastId, writer, queue, phase>> /\ Marked \subseteq Marked'
    BY <1>1 DEF FeederStep, Merge, Unlink, Scan, Open, FeedStop, FeedEnd, disk, wvars, ledger, Marked
  <2>2. QED
    BY <2>1, AggregatesKept DEF Running
<1>2. CASE Feed(g)
  <2> DEFINE x == Head(feeder[g].rest)
             t == [event |-> x, replay |-> feeder[g].replay]
  <2>1. /\ UNCHANGED <<saved, rows, lastId, writer, phase>> /\ Marked' = Marked
        /\ queue' = Append(queue, t) /\ Running
        /\ counted' = IF g = "startup" THEN [counted EXCEPT ![x] = @ + 1] ELSE counted
    BY <1>2 DEF Feed, disk, ledger, Marked, Running
  <2>2. /\ feeder[g].rest \in Seq(Events) /\ feeder[g].rest # <<>> /\ feeder[g].replay \in Replays
    BY <1>2 DEF Feed, Typed, FeederType, Shape, Placed, Holding
  <2>3. x \in Events /\ x \in Elems(feeder[g].rest)
    BY <2>2, ElemsTail
  <2>4. t \in Task /\ t.replay # None /\ t.event = x
    BY <2>2, <2>3, PipelineAssumption DEF Task
  <2>5. x \in Marked
    BY <2>3 DEF Sources, RestsIn, Marked
  <2> HIDE DEF t, x
  <2>6. Line' = Append(Line, t)
    BY <2>1, <2>4, LineGrown
  <2>7. /\ \A i \in DOMAIN Line : i \in DOMAIN Line' /\ Line'[i] = Line[i]
        /\ Len(Line) + 1 \in DOMAIN Line' /\ Line'[Len(Line) + 1] = t
        /\ \A i \in DOMAIN Line' : i \in DOMAIN Line \/ i = Len(Line) + 1
    BY <2>4, <2>6, LineFacts
  <2>8. \A e : FreshOf(e)' <=> FreshOf(e)
    BY <2>4, <2>7 DEF FreshOf, Fresh
  <2>9. \A e \in Events \ Marked : counted'[e] = counted[e]
    BY <2>1, <2>5 DEF Typed, Counts
  <2>10. MemoryExact'
    BY <2>1, <2>8, <2>9 DEF Aggregates, MemoryExact
  <2>11. QED
    BY <2>1, <2>10, SavedKept, SnapshotKept DEF Aggregates
<1>3. QED
  BY <1>1, <1>2

\* The aggregates stay exact through every step.
LEMMA AggregatesStep ==
  ASSUME Typed, Shape, Sources, DirectPath, Aggregates, Next
  PROVE  Aggregates'
<1>1. CASE Stop \/ Ended
  <2>1. UNCHANGED <<saved, rows, counted, lastId, writer, queue>> /\ Marked' = Marked
        /\ (Running' => Running)
    BY <1>1 DEF Stop, Ended, vars, disk, wvars, ledger, Marked, Running
  <2>2. QED
    BY <2>1, AggregatesKept
<1>2. CASE SpoolStep \/ RetryStep
  <2>1. UNCHANGED <<saved, rows, counted, lastId, writer, queue, phase>> /\ Marked' = Marked
    BY <1>2 DEF SpoolStep, SpoolTake, SpoolWrite, SpoolFinish, RetryStep, RetryBegin, RetryExist,
                RetryWait, RetryExit, Retry, disk, wvars, ledger, Marked
  <2>2. QED
    BY <2>1, AggregatesKept DEF Running
<1>3. CASE WriterStep
  BY <1>3, AggregatesOfMoves, AggregatesOfPersist, AggregatesOfCommit, AggregatesOfSettle,
     AggregatesOfFinish DEF WriterStep, Settles
<1>4. QED
  BY <1>1, <1>2, <1>3, AggregatesOfProcess, AggregatesOfPrune, AggregatesOfRecord, AggregatesOfFeeder
     DEF Next

\* The aggregates stay exact through a stuttering step.
LEMMA AggregatesStutter ==
  ASSUME Aggregates, UNCHANGED vars
  PROVE  Aggregates'
<1>1. UNCHANGED <<saved, rows, counted, lastId, writer, queue, phase>> /\ Marked' = Marked
  BY DEF vars, disk, wvars, ledger, Marked
<1>2. QED
  BY <1>1, AggregatesKept DEF Running

\* applySQLiteAggregateTail after a crash at any point: the aggregate the writer
\* saved and its watermark agree with the table, so a restart counts an event of
\* the direct path exactly when its row is there (go/stats.go).
THEOREM RecoveryIsExact == Spec => []RecoveryExact
<1>1. Init => Aggregates
  BY AggregatesInit
<1>2. Tables /\ Aggregates /\ [Next]_vars => Aggregates'
  BY AggregatesStep, AggregatesStutter DEF Tables
<1>3. Tables /\ Aggregates => RecoveryExact
  <2>1. SUFFICES ASSUME Tables, Aggregates, NEW e \in recorded \ (diverted \cup late \cup early)
                 PROVE  Recovered[e] = IF e \in Elems(rows) THEN 1 ELSE 0
    BY DEF RecoveryExact
  <2>2. e \in Events \ Marked
    BY <2>1 DEF Tables, Typed, Marked
  <2>3. QED
    BY <2>1, <2>2, RecoveredIs DEF Tables, DirectPath, Aggregates
<1>4. QED
  BY <1>1, <1>2, <1>3, PipelineTables, PTL DEF Spec

-----------------------------------------------------------------------------
(***************************************************************************)
(* Replays of the spool, as long as none overlaps another.                 *)
(***************************************************************************)
\* The tasks of replay r in s.
TasksOf(s, r) == {i \in DOMAIN s : s[i].replay = r}
Count(r) == Cardinality(TasksOf(Line, r))

\* A replay has finitely many tasks.
LEMMA TasksFinite ==
  ASSUME NEW s \in Seq(Task), NEW r
  PROVE  IsFiniteSet(TasksOf(s, r)) /\ Cardinality(TasksOf(s, r)) \in Nat
<1>1. IsFiniteSet(1..Len(s))
  BY FS_Interval
<1>2. TasksOf(s, r) \in SUBSET (1..Len(s))
  BY DEF TasksOf
<1>3. QED
  BY <1>1, <1>2, FS_Subset, FS_CardinalityType

\* A new task counts for its replay.
LEMMA TasksAppend ==
  ASSUME NEW s \in Seq(Task), NEW t \in Task, NEW r
  PROVE  Cardinality(TasksOf(Append(s, t), r))
           = Cardinality(TasksOf(s, r)) + (IF t.replay = r THEN 1 ELSE 0)
<1>1. IsFiniteSet(TasksOf(s, r)) /\ Cardinality(TasksOf(s, r)) \in Nat
  BY TasksFinite
<1>2. Len(s) + 1 \notin TasksOf(s, r)
  BY DEF TasksOf
<1>3. TasksOf(Append(s, t), r)
        = IF t.replay = r THEN TasksOf(s, r) \cup {Len(s) + 1} ELSE TasksOf(s, r)
  <2>1. /\ DOMAIN Append(s, t) = DOMAIN s \cup {Len(s) + 1}
        /\ \A i \in DOMAIN s : Append(s, t)[i] = s[i]
        /\ Append(s, t)[Len(s) + 1] = t
    OBVIOUS
  <2>2. Len(s) + 1 \notin DOMAIN s
    OBVIOUS
  <2>3. QED
    BY <2>1, <2>2, Zenon DEF TasksOf
<1> DEFINE S == TasksOf(s, r)
<1>4. Cardinality(S \cup {Len(s) + 1}) = Cardinality(S) + 1
  <2> HIDE DEF S
  <2>1. IsFiniteSet(S) /\ Len(s) + 1 \notin S
    BY <1>1, <1>2 DEF S
  <2>2. QED
    BY <2>1, FS_AddElement
<1>5. CASE t.replay = r
  BY <1>3, <1>4, <1>5
<1>6. CASE t.replay # r
  BY <1>1, <1>3, <1>6
<1>7. QED
  BY <1>5, <1>6

\* A task that leaves no longer counts.
LEMMA TasksTail ==
  ASSUME NEW s \in Seq(Task), s # <<>>, NEW r
  PROVE  Cardinality(TasksOf(Tail(s), r))
           = Cardinality(TasksOf(s, r)) - (IF s[1].replay = r THEN 1 ELSE 0)
<1> DEFINE S == TasksOf(s, r)
           T == TasksOf(Tail(s), r)
           f == [i \in T |-> i + 1]
<1>1. IsFiniteSet(S) /\ Cardinality(S) \in Nat
  BY TasksFinite
<1>2. Tail(s) \in Seq(Task) /\ IsFiniteSet(T) /\ Cardinality(T) \in Nat
  <2>1. Tail(s) \in Seq(Task)
    BY ElemsTail
  <2>2. QED
    BY <2>1, TasksFinite
<1>3. /\ \A i \in DOMAIN Tail(s) : i + 1 \in DOMAIN s /\ i + 1 # 1 /\ Tail(s)[i] = s[i + 1] /\ i \in Int
      /\ \A i \in DOMAIN s : i \in Int /\ (i # 1 => i - 1 \in DOMAIN Tail(s) /\ Tail(s)[i - 1] = s[i])
  OBVIOUS
<1>4. \A i \in T : i + 1 \in S \ {1}
  BY <1>3 DEF TasksOf
<1>5. \A i \in S \ {1} : i - 1 \in T /\ i \in Int
  BY <1>3 DEF TasksOf
<1>6. \A i \in T : i \in Int
  BY <1>3 DEF TasksOf
<1> HIDE DEF S, T
<1>7. f \in Bijection(T, S \ {1})
  <2>1. f \in [T -> S \ {1}]
    BY <1>4
  <2>2. \A i, j \in T : f[i] = f[j] => i = j
    BY <1>6
  <2>3. ASSUME NEW j \in S \ {1} PROVE \E i \in T : f[i] = j
    <3>1. j - 1 \in T /\ f[j - 1] = j
      BY <1>5
    <3>2. QED
      BY <3>1
  <2> HIDE DEF f
  <2>4. QED
    BY <2>1, <2>2, <2>3 DEF Bijection, Injection, Surjection, IsInjective
<1>8. Cardinality(S \ {1}) = Cardinality(T)
  <2>1. ExistsBijection(T, S \ {1})
    BY <1>7 DEF ExistsBijection
  <2>2. QED
    BY <1>2, <2>1, FS_Bijection
<1>9. 1 \in S <=> s[1].replay = r
  BY DEF S, TasksOf
<1>10. Cardinality(S \ {1}) = IF 1 \in S THEN Cardinality(S) - 1 ELSE Cardinality(S)
  BY <1>1, FS_RemoveElement
<1>11. Cardinality(T) = Cardinality(S) - (IF s[1].replay = r THEN 1 ELSE 0)
  BY <1>1, <1>8, <1>9, <1>10
<1>12. QED
  BY <1>11 DEF S, T

\* The count of the tasks of a replay in the line.
LEMMA CountFacts ==
  ASSUME Typed, NEW r
  PROVE  /\ Count(r) \in Nat
         /\ \A i \in DOMAIN Line : Line[i].replay = r => Count(r) > 0
         /\ Line = <<>> => Count(r) = 0
<1>1. Line \in Seq(Task)
  BY LineFacts
<1>2. IsFiniteSet(TasksOf(Line, r)) /\ Count(r) \in Nat
  BY <1>1, TasksFinite DEF Count
<1>3. ASSUME NEW i \in DOMAIN Line, Line[i].replay = r PROVE Count(r) > 0
  <2>1. TasksOf(Line, r) # {}
    BY <1>3 DEF TasksOf
  <2>2. QED
    BY <1>2, <2>1, FS_EmptySet DEF Count
<1>4. ASSUME Line = <<>> PROVE Count(r) = 0
  <2>1. TasksOf(Line, r) = {}
    BY <1>4 DEF TasksOf
  <2>2. QED
    BY <2>1, FS_EmptySet DEF Count
<1>5. QED
  BY <1>2, <1>3, <1>4

\* The count after a task was queued.
LEMMA CountGrown ==
  ASSUME Typed, NEW t \in Task, Line' = Append(Line, t), NEW r
  PROVE  Count(r)' = Count(r) + (IF t.replay = r THEN 1 ELSE 0)
BY LineFacts, TasksAppend DEF Count

\* The count after a task was settled.
LEMMA CountSettled ==
  ASSUME Typed, Line # <<>>, Line' = Tail(Line), NEW r
  PROVE  Count(r)' = Count(r) - (IF Line[1].replay = r THEN 1 ELSE 0)
BY LineFacts, TasksTail DEF Count

-----------------------------------------------------------------------------
(***************************************************************************)
(* The stages of the one replay: not begun; its feeder reads the file; the *)
(* writer still has tasks of it.                                           *)
(***************************************************************************)
Working(F) == F.pc \in {"unlink", "scan", "open", "feed"}
Unfed(F) == IF F.pc = "open" THEN Len(replayFile) ELSE Len(F.rest)

Dead(r) == ~replay[r].live /\ replay[r].remaining = 0 /\ Count(r) = 0
OnlyLive(r) == replay[r].live /\ \A s \in Replays \ {r} : Dead(s)

NoneLive ==
  /\ \A r \in Replays : Dead(r)
  /\ \A g \in Feeders : ~Holding(feeder[g])
  /\ \A g, h \in Feeders : Working(feeder[g]) /\ Working(feeder[h]) => g = h
  /\ pending = SpoolLoad

Reading(g, r) ==
  /\ OnlyLive(r) /\ ~replay[r].read
  /\ Holding(feeder[g]) /\ feeder[g].replay = r
  /\ feeder[g].pc = "open" => replayFile # <<>>
  /\ feeder[g].left = Unfed(feeder[g])
  /\ replay[r].remaining = Count(r) + feeder[g].left
  /\ \A h \in Feeders \ {g} : ~Working(feeder[h])
  /\ pending = SpoolLoad + replay[r].remaining

Draining(r) ==
  /\ OnlyLive(r) /\ replay[r].read
  /\ replay[r].remaining = Count(r) /\ Count(r) > 0
  /\ \A g \in Feeders : ~Working(feeder[g])
  /\ pending = SpoolLoad + replay[r].remaining

OneReplay ==
  \/ NoneLive
  \/ \E g \in Feeders, r \in Replays : Reading(g, r)
  \/ \E r \in Replays : Draining(r)

\* A step that does no more to the feeders than start, wake or end the retry
\* goroutine, or take a removed file from a reader.
SameWork ==
  \A g \in Feeders :
    \/ ~Working(feeder[g]) /\ ~Working(feeder'[g])
    \/ /\ feeder'[g].pc = feeder[g].pc /\ feeder'[g].replay = feeder[g].replay
       /\ feeder'[g].rest = feeder[g].rest /\ feeder'[g].left = feeder[g].left

\* Steps that do nothing for the replay keep its stage.
LEMMA OneReplayKept ==
  ASSUME OneReplay, Typed, Typed', SameWork, UNCHANGED <<replay, replayFile>>,
         \A r \in Replays : Count(r)' = Count(r), pending' - SpoolLoad' = pending - SpoolLoad
  PROVE  OneReplay'
<1>0. /\ pending \in Int /\ pending' \in Int /\ SpoolLoad \in Int /\ SpoolLoad' \in Int
      /\ \A r \in Replays : replay[r].remaining \in Int
  BY DEF Typed, SpoolLoad, Spooling, Waiting, ReplayType
<1>1. CASE NoneLive
  <2>1. NoneLive'
    BY <1>0, <1>1 DEF NoneLive, Dead, SameWork, Holding, Working
  <2>2. QED
    BY <2>1 DEF OneReplay
<1>2. ASSUME NEW g \in Feeders, NEW r \in Replays, Reading(g, r) PROVE OneReplay'
  <2>1. OnlyLive(r)' /\ ~replay'[r].read /\ replay'[r].remaining = Count(r)' + feeder[g].left
    BY <1>2 DEF Reading, OnlyLive, Dead
  <2>2. /\ feeder'[g].pc = feeder[g].pc /\ feeder'[g].replay = feeder[g].replay
        /\ feeder'[g].rest = feeder[g].rest /\ feeder'[g].left = feeder[g].left
    BY <1>2 DEF Reading, SameWork, Holding, Working
  <2>3. \A h \in Feeders \ {g} : ~Working(feeder'[h])
    BY <1>2 DEF Reading, SameWork, Working
  <2>4. pending' = SpoolLoad' + replay'[r].remaining
    BY <1>0, <1>2 DEF Reading
  <2>5. Reading(g, r)'
    BY <1>2, <2>1, <2>2, <2>3, <2>4 DEF Reading, Holding, Unfed
  <2>6. QED
    BY <2>5 DEF OneReplay
<1>3. ASSUME NEW r \in Replays, Draining(r) PROVE OneReplay'
  <2>1. OnlyLive(r)' /\ replay'[r].read /\ replay'[r].remaining = Count(r)' /\ Count(r)' > 0
    BY <1>3 DEF Draining, OnlyLive, Dead
  <2>2. \A h \in Feeders : ~Working(feeder'[h])
    BY <1>3 DEF Draining, SameWork, Working
  <2>3. pending' = SpoolLoad' + replay'[r].remaining
    BY <1>0, <1>3 DEF Draining
  <2>4. Draining(r)'
    BY <2>1, <2>2, <2>3 DEF Draining
  <2>5. QED
    BY <2>4 DEF OneReplay
<1>4. QED
  BY <1>1, <1>2, <1>3 DEF OneReplay

\* What the shared operators do to the feeders at work: nothing.
LEMMA SameWorkOperators ==
  ASSUME NEW f \in [Feeders -> FeederType]
  PROVE  /\ \A g \in Feeders :
              \/ ~Working(f[g]) /\ ~Working(Scheduled(f)[g])
              \/ Scheduled(f)[g] = f[g]
         /\ \A R : \A g \in Feeders :
              \/ ~Working(f[g]) /\ ~Working(FeedersAfter(R, f)[g])
              \/ /\ FeedersAfter(R, f)[g].pc = f[g].pc
                 /\ FeedersAfter(R, f)[g].replay = f[g].replay
                 /\ FeedersAfter(R, f)[g].rest = f[g].rest
                 /\ FeedersAfter(R, f)[g].left = f[g].left
<1>1. \A h \in [Feeders -> FeederType] : \A g \in Feeders :
        \/ ~Working(h[g]) /\ ~Working(Scheduled(h)[g])
        \/ Scheduled(h)[g] = h[g]
  BY DEF Scheduled, IdleFeeder, Working, Feeders
<1>2. /\ Detached(f) \in [Feeders -> FeederType]
      /\ \A g \in Feeders : /\ Detached(f)[g].pc = f[g].pc /\ Detached(f)[g].replay = f[g].replay
                            /\ Detached(f)[g].rest = f[g].rest /\ Detached(f)[g].left = f[g].left
  <2>1. Detached(f) \in [Feeders -> FeederType]
    BY FeederOperators
  <2>2. ASSUME NEW g \in Feeders
        PROVE  /\ Detached(f)[g].pc = f[g].pc /\ Detached(f)[g].replay = f[g].replay
               /\ Detached(f)[g].rest = f[g].rest /\ Detached(f)[g].left = f[g].left
    BY DEF Detached, FeederType
  <2>3. QED
    BY <2>1, <2>2
<1>3. ASSUME NEW R, NEW g \in Feeders
      PROVE  \/ ~Working(f[g]) /\ ~Working(FeedersAfter(R, f)[g])
             \/ /\ FeedersAfter(R, f)[g].pc = f[g].pc
                /\ FeedersAfter(R, f)[g].replay = f[g].replay
                /\ FeedersAfter(R, f)[g].rest = f[g].rest
                /\ FeedersAfter(R, f)[g].left = f[g].left
  <2>1. \/ FeedersAfter(R, f) = f \/ FeedersAfter(R, f) = Scheduled(f)
        \/ FeedersAfter(R, f) = Detached(f) \/ FeedersAfter(R, f) = Scheduled(Detached(f))
    BY DEF FeedersAfter
  <2>2. QED
    BY <1>1, <1>2, <2>1 DEF Working
<1>4. QED
  BY <1>1, <1>3

\* In a cleared memory no replay has begun.
LEMMA OneReplayCleared ==
  ASSUME Typed, MemoryCleared, \A g \in Feeders : ~Working(feeder'[g])
  PROVE  OneReplay'
<1>1. Line' = <<>> /\ writer' = IdleWriter /\ replay' = [r \in Replays |-> NoReplay]
      /\ pending' = 0 /\ spoolQueue' = <<>> /\ spooling' = None
  BY LineCleared DEF MemoryCleared
<1>2. \A r : Count(r)' = 0
  <2>1. ASSUME NEW r PROVE TasksOf(Line', r) = {}
    BY <1>1 DEF TasksOf
  <2>2. QED
    BY <2>1, FS_EmptySet DEF Count
<1>3. \A r \in Replays : Dead(r)'
  BY <1>1, <1>2 DEF Dead, NoReplay
<1>4. SpoolLoad' = 0
  BY <1>1 DEF SpoolLoad, Spooling, Waiting, IdleWriter
<1>5. NoneLive'
  BY <1>1, <1>3, <1>4 DEF NoneLive, Working, Holding
<1>6. QED
  BY <1>5 DEF OneReplay

\* There is one replay at a time, in the beginning.
LEMMA OneReplayInit == Init => OneReplay
<1>1. SUFFICES ASSUME Init PROVE NoneLive
  BY DEF OneReplay
<1>2. /\ Line = <<>> /\ replay = [r \in Replays |-> NoReplay] /\ writer = IdleWriter
      /\ feeder = [g \in Feeders |-> IdleFeeder]
      /\ pending = 0 /\ spoolQueue = <<>> /\ spooling = None
  BY <1>1 DEF Init, Line, IdleWriter
<1>3. Typed
  BY <1>1, TypeInit
<1>4. \A r \in Replays : Dead(r)
  BY <1>2, <1>3, CountFacts DEF Dead, NoReplay
<1>5. SpoolLoad = 0
  BY <1>2 DEF SpoolLoad, Spooling, Waiting, IdleWriter
<1>6. QED
  BY <1>2, <1>4, <1>5 DEF NoneLive, Holding, Working, IdleFeeder

\* Steps that leave the line alone.
LEMMA CountUntouched ==
  ASSUME Line' = Line, NEW r
  PROVE  Count(r)' = Count(r)
BY DEF Count

\* There is one replay at a time, also after a start, an end or a crash of the process.
LEMMA OneReplayOfProcess ==
  ASSUME Typed, Start \/ Stopped \/ Crash
  PROVE  OneReplay'
<1>1. MemoryCleared
  BY DEF Start, Stopped, Crash
<1>2. \A g \in Feeders : ~Working(feeder'[g])
  BY DEF Start, Stopped, Crash, Working, IdleFeeder
<1>3. QED
  BY <1>1, <1>2, OneReplayCleared

\* There is one replay at a time, also after Record and its hand-off.
LEMMA OneReplayOfRecord ==
  ASSUME Typed, Typed', OneReplay, NEW e \in Events, Record(e) \/ RecordLate(e) \/ HandOffStep(e)
  PROVE  OneReplay'
<1>1. /\ UNCHANGED <<replay, replayFile, feeder, writer, spooling>>
  BY DEF Record, RecordLate, HandOffStep, HandOff, HandOffDrop, disk, rvars, wvars, svars
<1>2. \A r \in Replays : Count(r)' = Count(r)
  <2>1. CASE Record(e) /\ QueueAccepts
    <3> DEFINE t == [event |-> e, replay |-> None]
    <3>1. t \in Task /\ t.replay = None /\ queue' = Append(queue, t)
      BY <2>1 DEF Record, Task
    <3> HIDE DEF t
    <3>2. Line' = Append(Line, t)
      BY <1>1, <3>1, LineGrown
    <3>3. ASSUME NEW r \in Replays PROVE Count(r)' = Count(r)
      <4>1. t.replay # r /\ Count(r) \in Nat
        BY <3>1, PipelineAssumption, CountFacts
      <4>2. Count(r)' = Count(r) + 0
        BY <3>1, <3>2, <4>1, CountGrown
      <4>3. QED
        BY <4>1, <4>2
    <3>4. QED
      BY <3>3
  <2>2. CASE ~(Record(e) /\ QueueAccepts)
    <3>1. UNCHANGED queue
      BY <2>2 DEF Record, RecordLate, HandOffStep, HandOff, HandOffDrop, wvars
    <3>2. QED
      BY <1>1, <3>1, LineUntouched, CountUntouched
  <2>3. QED
    BY <2>1, <2>2
<1>3. pending' - SpoolLoad' = pending - SpoolLoad
  <2>1. Spooling' = Spooling /\ Waiting' = Waiting /\ Spooling \in Int /\ Waiting \in Int
        /\ Len(spoolQueue) \in Int /\ pending \in Int
    BY <1>1 DEF Spooling, Waiting, Typed
  <2>2. CASE HandOff(e)
    <3>1. pending' = pending + 1 /\ Len(spoolQueue') = Len(spoolQueue) + 1
      BY <2>2 DEF HandOff, Typed
    <3>2. QED
      BY <2>1, <3>1 DEF SpoolLoad
  <2>3. CASE ~HandOff(e)
    <3>1. UNCHANGED <<pending, spoolQueue>>
      BY <2>3 DEF Record, RecordLate, HandOffStep, HandOffDrop, svars
    <3>2. QED
      BY <2>1, <3>1 DEF SpoolLoad
  <2>4. QED
    BY <2>2, <2>3
<1>4. SameWork
  BY <1>1 DEF SameWork
<1>5. QED
  BY <1>1, <1>2, <1>3, <1>4, OneReplayKept

\* There is one replay at a time, also after a stop request, the end or a prune.
LEMMA OneReplayOfControl ==
  ASSUME Typed, Typed', OneReplay, Stop \/ Ended \/ PruneSQLite
  PROVE  OneReplay'
<1>1. UNCHANGED <<replay, replayFile, feeder, writer, queue, spooling, spoolQueue, pending>>
  BY DEF Stop, Ended, PruneSQLite, vars, disk, rvars, wvars, svars
<1>2. QED
  BY <1>1, LineUntouched, CountUntouched, OneReplayKept
     DEF SameWork, SpoolLoad, Spooling, Waiting

\* A write of the spool file wakes the retry goroutine, or fails.
LEMMA SpoolWritten ==
  ASSUME Typed, NEW e, WriteSpool(e)
  PROVE  SameWork
<1>1. feeder' = feeder \/ feeder' = Scheduled(feeder)
  BY DEF WriteSpool
<1>2. feeder \in [Feeders -> FeederType]
  BY DEF Typed
<1>3. QED
  BY <1>1, <1>2, SameWorkOperators DEF SameWork

\* There is one replay at a time, also after the spool worker.
LEMMA OneReplayOfSpool ==
  ASSUME Typed, Typed', OneReplay, SpoolStep
  PROVE  OneReplay'
<1>1. UNCHANGED <<replay, replayFile, writer, queue>>
  BY DEF SpoolStep, SpoolTake, SpoolWrite, SpoolFinish, disk, rvars, wvars
<1>2. \A r \in Replays : Count(r)' = Count(r)
  BY <1>1, LineUntouched, CountUntouched
<1>3. Waiting' = Waiting /\ Waiting \in Nat /\ Len(spoolQueue) \in Nat /\ pending \in Nat
  BY <1>1 DEF Waiting, Typed
<1>4. CASE SpoolTake
  <2>1. /\ UNCHANGED <<feeder, pending>> /\ spooling = None /\ spooling' # None
        /\ Len(spoolQueue') = Len(spoolQueue) - 1
    <3>1. spoolQueue \in Seq(Events) /\ spoolQueue # <<>>
      BY <1>4 DEF SpoolTake, Typed
    <3>2. Head(spoolQueue) \in Events /\ Len(Tail(spoolQueue)) = Len(spoolQueue) - 1
      BY <3>1, ElemsTail
    <3>3. QED
      BY <1>4, <3>2, PipelineAssumption DEF SpoolTake, rvars
  <2>2. pending' - SpoolLoad' = pending - SpoolLoad
    BY <1>3, <2>1 DEF SpoolLoad, Spooling
  <2>3. QED
    BY <1>1, <1>2, <2>1, <2>2, OneReplayKept DEF SameWork
<1>5. CASE SpoolWrite
  <2>1. /\ UNCHANGED spoolQueue /\ spooling # None /\ spooling' = None
        /\ pending' = AtLeast0(pending - 1) /\ SameWork
    BY <1>5, SpoolWritten DEF SpoolWrite, FinishSpool
  <2>2. pending >= 1
    <3>1. SpoolLoad >= 1
      BY <1>3, <2>1 DEF SpoolLoad, Spooling
    <3>2. pending >= SpoolLoad
      <4>1. \A r \in Replays : replay[r].remaining \in Nat
        BY DEF Typed, ReplayType
      <4>2. SpoolLoad \in Nat
        BY <1>3 DEF SpoolLoad, Spooling
      <4>3. QED
        BY <4>1, <4>2 DEF OneReplay, NoneLive, Reading, Draining
    <3>3. SpoolLoad \in Nat
      BY <1>3 DEF SpoolLoad, Spooling
    <3>4. QED
      BY <1>3, <3>1, <3>2, <3>3
  <2>3. pending' = pending - 1
    BY <1>3, <2>1, <2>2 DEF AtLeast0, Larger
  <2>4. pending' - SpoolLoad' = pending - SpoolLoad
    BY <1>3, <2>1, <2>3 DEF SpoolLoad, Spooling
  <2>5. QED
    BY <1>1, <1>2, <2>1, <2>4, OneReplayKept
<1>6. CASE SpoolFinish
  <2>1. UNCHANGED <<feeder, pending, spoolQueue, spooling>>
    BY <1>6 DEF SpoolFinish, rvars
  <2>2. QED
    BY <1>1, <1>2, <1>3, <2>1, OneReplayKept DEF SameWork, SpoolLoad, Spooling
<1>7. QED
  BY <1>4, <1>5, <1>6 DEF SpoolStep

\* The retry goroutine between two replays does no work.
LEMMA RetryWork ==
  ASSUME Typed, RetryStep
  PROVE  SameWork
<1>1. feeder \in [Feeders -> FeederType] /\ "retry" \in Feeders
  BY DEF Typed, Feeders
<1>2. ASSUME NEW from \in {"begin", "exist", "wait"}, NEW to \in {"merge", "exiting", "wait", "begin"},
             Retry(from, to)
      PROVE  SameWork
  <2>1. /\ feeder["retry"].pc = from
        /\ feeder' = [feeder EXCEPT !["retry"] = [feeder["retry"] EXCEPT !.pc = to]]
    BY <1>2 DEF Retry, Goto
  <2>2. [feeder["retry"] EXCEPT !.pc = to].pc = to
    BY <1>1 DEF FeederType
  <2>3. QED
    BY <1>1, <2>1, <2>2 DEF SameWork, Working
<1>3. CASE RetryExit
  BY <1>1, <1>3 DEF RetryExit, SameWork, Working, IdleFeeder
<1>4. QED
  BY <1>2, <1>3 DEF RetryStep, RetryBegin, RetryExist, RetryWait

\* There is one replay at a time, also after the retry goroutine.
LEMMA OneReplayOfRetry ==
  ASSUME Typed, Typed', OneReplay, RetryStep
  PROVE  OneReplay'
<1>1. UNCHANGED <<replay, replayFile, writer, queue, spooling, spoolQueue, pending>>
  BY DEF RetryStep, RetryBegin, RetryExist, RetryWait, RetryExit, Retry, disk, rvars, wvars, svars
<1>2. SameWork
  BY RetryWork
<1>3. QED
  BY <1>1, <1>2, LineUntouched, CountUntouched, OneReplayKept DEF SpoolLoad, Spooling, Waiting

\* The writer's steps that settle no task leave every replay alone.
LEMMA OneReplayOfWriter ==
  ASSUME Typed, Typed', Shape, OneReplay, WriterStep, ~SettleReplayed
  PROVE  OneReplay'
<1>1. UNCHANGED replay /\ pending \in Nat /\ Len(spoolQueue) \in Nat /\ Spooling \in Nat
      /\ UNCHANGED spooling /\ Spooling' = Spooling
  <2>1. UNCHANGED <<replay, spooling>>
    BY DEF WriterStep, WriterTake, WriterCollect, WriterPersist, WriterCommit, WriterFail, SettleStored,
           SpoolReserve, SpoolSend, SpoolSynchronously, WriterBatchDone, WriterFinish, rvars, svars
  <2>2. QED
    BY <2>1 DEF Typed, Spooling
<1>2. UNCHANGED replayFile
  BY DEF WriterStep, WriterTake, WriterCollect, WriterPersist, WriterCommit, WriterFail, SettleStored,
         SpoolReserve, SpoolSend, SpoolSynchronously, WriterBatchDone, WriterFinish, disk
<1>3. SameWork
  <2>1. CASE SpoolSynchronously
    BY <2>1, SpoolWritten DEF SpoolSynchronously
  <2>2. CASE ~SpoolSynchronously
    <3>1. UNCHANGED feeder
      BY <2>2 DEF WriterStep, WriterTake, WriterCollect, WriterPersist, WriterCommit, WriterFail,
                  SettleStored, SpoolReserve, SpoolSend, WriterBatchDone, WriterFinish, rvars
    <3>2. QED
      BY <3>1 DEF SameWork
  <2>3. QED
    BY <2>1, <2>2
<1>4. \A r \in Replays : Count(r)' = Count(r)
  <2>1. CASE WriterTake \/ WriterCollect
    BY <2>1, LineTaken, CountUntouched
  <2>2. CASE WriterPersist \/ WriterCommit \/ WriterFail \/ SpoolReserve \/ WriterFinish
    <3>1. writer'.batch = writer.batch /\ UNCHANGED queue
      BY <2>2 DEF WriterPersist, WriterCommit, WriterFail, SpoolReserve, WriterFinish, Typed, WriterType
    <3>2. QED
      BY <3>1, CountUntouched DEF Line
  <2>3. CASE WriterBatchDone
    <3>1. Line' = Line
      BY <2>3 DEF WriterBatchDone, IdleWriter, Line
    <3>2. QED
      BY <3>1, CountUntouched
  <2>4. CASE Settles
    <3>1. Line # <<>> /\ Line' = Tail(Line) /\ Line[1] = Current
      BY <2>4, SettlesTask, LineSettled
    <3>2. Current.replay = None
      BY <2>4 DEF Settles, SettleStored, SpoolSend, SpoolSynchronously, Shape, Positions
    <3>3. ASSUME NEW r \in Replays PROVE Count(r)' = Count(r)
      <4>1. Line[1].replay # r /\ Count(r) \in Nat
        BY <3>1, <3>2, PipelineAssumption, CountFacts
      <4>2. Count(r)' = Count(r) - 0
        BY <3>1, <4>1, CountSettled
      <4>3. QED
        BY <4>1, <4>2
    <3>4. QED
      BY <3>3
  <2>5. QED
    BY <2>1, <2>2, <2>3, <2>4 DEF WriterStep, Settles
<1>5. pending' - SpoolLoad' = pending - SpoolLoad
  <2>1. CASE SpoolReserve
    <3>1. /\ pending' = pending + 1 /\ UNCHANGED spoolQueue
          /\ writer.pc = "settle" /\ writer'.pc = "blocked"
      BY <2>1 DEF SpoolReserve, Typed, WriterType
    <3>2. QED
      BY <1>1, <3>1 DEF SpoolLoad, Waiting
  <2>2. CASE SpoolSend
    <3>1. /\ UNCHANGED pending /\ Len(spoolQueue') = Len(spoolQueue) + 1
          /\ writer.pc = "blocked" /\ writer'.pc = "settle"
      BY <2>2 DEF SpoolSend, NextTask, Typed, WriterType
    <3>2. QED
      BY <1>1, <3>1 DEF SpoolLoad, Waiting
  <2>3. CASE ~SpoolReserve /\ ~SpoolSend
    <3>1. UNCHANGED <<pending, spoolQueue>> /\ writer.pc # "blocked"
      BY <2>3 DEF WriterStep, WriterTake, WriterCollect, WriterPersist, WriterCommit, WriterFail,
                  SettleStored, SpoolSynchronously, WriterBatchDone, WriterFinish, svars
    <3>2. writer'.pc # "blocked"
      <4>1. CASE WriterTake \/ WriterCollect
        BY <4>1, LineTaken
      <4>2. CASE Settles
        BY <4>2, SettlesTask, LineSettled
      <4>3. CASE WriterBatchDone
        BY <4>3 DEF WriterBatchDone, IdleWriter
      <4>4. CASE WriterPersist \/ WriterCommit \/ WriterFail \/ WriterFinish
        <5>1. writer \in WriterType
          BY DEF Typed
        <5>2. WriterPersist => writer'.pc = "commit"
          BY <5>1 DEF WriterPersist, WriterType
        <5>3. WriterCommit => writer'.pc = "settle"
          BY <5>1 DEF WriterCommit, WriterType
        <5>4. WriterFail => writer'.pc = "settle"
          BY <5>1 DEF WriterFail, WriterType
        <5>5. WriterFinish => writer'.pc = "done"
          BY <5>1 DEF WriterFinish, WriterType
        <5>6. QED
          BY <4>4, <5>2, <5>3, <5>4, <5>5
      <4>5. QED
        BY <2>3, <4>1, <4>2, <4>3, <4>4 DEF WriterStep, Settles
    <3>3. QED
      BY <1>1, <3>1, <3>2 DEF SpoolLoad, Waiting
  <2>4. QED
    BY <2>1, <2>2, <2>3
<1>6. QED
  BY <1>1, <1>2, <1>3, <1>4, <1>5, OneReplayKept

\* A replay with R records to go: in the next state it is drained, or gone.
LEMMA ReplaySettled ==
  ASSUME Typed, Typed', NEW r \in Replays, OnlyLive(r), NEW R \in ReplayType, SettleReplay(r, R),
         R.live, R.read, R.remaining = Count(r)', \A g \in Feeders : ~Working(feeder'[g]),
         pending' = SpoolLoad' + R.remaining,
         \A s \in Replays \ {r} : Count(s)' = Count(s)
  PROVE  OneReplay'
<1>1. replay \in [Replays -> ReplayType] /\ R.remaining \in Nat /\ Count(r)' \in Nat
  BY DEF Typed, ReplayType
<1>2. CASE R.remaining > 0
  <2>1. replay' = [replay EXCEPT ![r] = R]
    BY <1>2 DEF SettleReplay
  <2>2. OnlyLive(r)'
    BY <1>1, <2>1 DEF OnlyLive, Dead
  <2>3. Draining(r)'
    BY <1>1, <1>2, <2>1, <2>2 DEF Draining
  <2>4. QED
    BY <2>3 DEF OneReplay
<1>3. CASE R.remaining = 0
  <2>1. replay' = [replay EXCEPT ![r] = NoReplay]
    BY <1>3 DEF SettleReplay
  <2>2. \A s \in Replays : Dead(s)'
    BY <1>1, <1>3, <2>1 DEF OnlyLive, Dead, NoReplay
  <2>3. pending' = SpoolLoad'
    BY <1>3 DEF SpoolLoad, Spooling, Waiting, Typed
  <2>4. NoneLive'
    BY <2>2, <2>3 DEF NoneLive, Holding, Working
  <2>5. QED
    BY <2>4 DEF OneReplay
<1>4. QED
  BY <1>1, <1>2, <1>3

\* The load of the spool is a number.
LEMMA SpoolLoadType ==
  /\ Typed => SpoolLoad \in Nat
  /\ Typed' => SpoolLoad' \in Nat
<1>1. Typed => Spooling \in Nat /\ Waiting \in Nat /\ Len(spoolQueue) \in Nat
  BY DEF Spooling, Waiting, Typed
<1>2. Typed' => Spooling' \in Nat /\ Waiting' \in Nat /\ Len(spoolQueue') \in Nat
  BY DEF Spooling, Waiting, Typed
<1>3. QED
  BY <1>1, <1>2 DEF SpoolLoad

\* What becomes of the replay whose task the writer settles.
Counted(r, R) ==
  /\ R \in ReplayType /\ R.live /\ R.read = replay[r].read
  /\ R.remaining = replay[r].remaining - 1
  /\ replay[r].keep => R.keep
  /\ ~R.keep => Elems(replay[r].failed) \subseteq Elems(R.failed)
  /\ ~R.keep /\ ~writer.ok => Current.event \in Elems(R.failed)

\* The task the writer settles belongs to the live replay.
LEMMA SettledReplay ==
  ASSUME Typed, Typed', Shape, OneReplay, SettleReplayed, NEW r \in Replays, r = Current.replay
  PROVE  /\ OnlyLive(r) /\ replay[r].remaining > 0 /\ Count(r) > 0
         /\ \A s \in Replays : Count(s) \in Nat /\ Count(s)' = Count(s) - (IF s = r THEN 1 ELSE 0)
         /\ pending' = SpoolLoad' + replay[r].remaining - 1
         /\ SameWork
         /\ \E R \in ReplayType : SettleReplay(r, R) /\ Counted(r, R)
<1> DEFINE counts == [replay[r] EXCEPT !.remaining = AtLeast0(@ - 1)]
<1>1. /\ writer.batch # <<>> /\ Line # <<>> /\ Line' = Tail(Line) /\ Line[1] = Current
      /\ Current \in Task /\ writer'.pc = "settle" /\ writer.pc = "settle"
  BY SettlesTask, LineSettled DEF SettleReplayed, Settles
<1>2. replay \in [Replays -> ReplayType] /\ replay[r] \in ReplayType
  BY DEF Typed
<1>3. \A s \in Replays : Count(s) \in Nat /\ Count(s)' = Count(s) - (IF s = r THEN 1 ELSE 0)
  BY <1>1, CountSettled, CountFacts
<1>4. Count(r) > 0
  <2>1. 1 \in DOMAIN Line
    BY <1>1, LineFacts
  <2>2. QED
    BY <1>1, <2>1, CountFacts
<1>5. UNCHANGED <<spoolQueue, spooling>> /\ pending' = AtLeast0(pending - 1)
  BY DEF SettleReplayed, svars, FinishSpool
<1>6. SpoolLoad' = SpoolLoad /\ SpoolLoad \in Nat /\ pending \in Nat
  <2>1. Waiting = 0 /\ Waiting' = 0
    BY <1>1 DEF Waiting
  <2>2. Spooling' = Spooling /\ Spooling \in Nat
    BY <1>5 DEF Spooling
  <2>3. Len(spoolQueue) \in Nat /\ pending \in Nat
    BY DEF Typed
  <2>4. QED
    BY <1>5, <2>1, <2>2, <2>3 DEF SpoolLoad
<1>7. SameWork
  <2>1. feeder \in [Feeders -> FeederType]
    BY DEF Typed
  <2>2. feeder' = feeder \/ \E R : feeder' = FeedersAfter(R, feeder)
    BY DEF SettleReplayed
  <2>3. QED
    BY <2>1, <2>2, SameWorkOperators DEF SameWork
<1>8. OnlyLive(r) /\ replay[r].remaining > 0 /\ pending = SpoolLoad + replay[r].remaining
  <2>1. ~Dead(r)
    BY <1>4 DEF Dead
  <2>2. ~NoneLive
    BY <1>2, <2>1 DEF NoneLive
  <2>3. ASSUME NEW g \in Feeders, NEW s \in Replays, Reading(g, s) PROVE s = r /\ Reading(g, r)
    BY <1>2, <2>1, <2>3 DEF Reading, OnlyLive
  <2>4. ASSUME NEW s \in Replays, Draining(s) PROVE s = r /\ Draining(r)
    BY <1>2, <2>1, <2>4 DEF Draining, OnlyLive
  <2>5. ASSUME NEW g \in Feeders, Reading(g, r)
        PROVE  /\ OnlyLive(r) /\ replay[r].remaining > 0
               /\ pending = SpoolLoad + replay[r].remaining
    <3>1. Unfed(feeder[g]) \in Nat
      <4>1. replayFile \in Seq(Events) /\ feeder[g].rest \in Seq(Events)
        BY DEF Typed, FeederType
      <4>2. QED
        BY <4>1 DEF Unfed
    <3>2. QED
      BY <1>2, <1>3, <1>4, <2>5, <3>1 DEF Reading
  <2>6. QED
    BY <1>4, <2>2, <2>3, <2>4, <2>5 DEF OneReplay, Draining
<1>9. \E R \in ReplayType : SettleReplay(r, R) /\ Counted(r, R)
  <2>1. replay[r].live
    BY <1>8 DEF OnlyLive
  <2>2. counts \in ReplayType /\ counts.live /\ counts.read = replay[r].read
        /\ counts.remaining = replay[r].remaining - 1
        /\ counts.keep = replay[r].keep /\ counts.failed = replay[r].failed
    <3>1. replay[r].remaining \in Nat
      BY <1>2 DEF ReplayType
    <3>2. AtLeast0(replay[r].remaining - 1) = replay[r].remaining - 1
          /\ replay[r].remaining - 1 \in Nat
      BY <1>8, <3>1 DEF AtLeast0, Larger
    <3>3. QED
      BY <1>2, <2>1, <3>2 DEF ReplayType
  <2>3. counts.failed \in Seq(Events) /\ Current.event \in Events
    BY <1>1, <2>2 DEF ReplayType, Task
  <2>4. PICK R : /\ SettleReplay(r, R)
                 /\ \/ R = counts /\ writer.ok
                    \/ R = [counts EXCEPT !.failed = Append(@, Current.event)]
                    \/ R = [counts EXCEPT !.keep = TRUE]
    <3>1. CASE writer.ok
      BY <2>1, <3>1 DEF SettleReplayed
    <3>2. CASE ~writer.ok
      BY <2>1, <3>2 DEF SettleReplayed
    <3>3. QED
      BY <3>1, <3>2
  <2> HIDE DEF counts
  <2>5. Counted(r, R)
    <3>1. CASE R = counts /\ writer.ok
      BY <2>2, <3>1 DEF Counted
    <3>2. CASE R = [counts EXCEPT !.failed = Append(@, Current.event)]
      <4>1. /\ Append(counts.failed, Current.event) \in Seq(Events)
            /\ Elems(Append(counts.failed, Current.event)) = Elems(counts.failed) \cup {Current.event}
        BY <2>3, ElemsAppend
      <4>2. /\ R.failed = Append(counts.failed, Current.event) /\ R.keep = counts.keep
            /\ R.live = counts.live /\ R.read = counts.read /\ R.remaining = counts.remaining
            /\ R \in ReplayType
        BY <2>2, <3>2, <4>1 DEF ReplayType
      <4>3. QED
        BY <2>2, <4>1, <4>2 DEF Counted
    <3>3. CASE R = [counts EXCEPT !.keep = TRUE]
      <4>1. /\ R.keep /\ R.live = counts.live /\ R.read = counts.read
            /\ R.remaining = counts.remaining /\ R \in ReplayType
        BY <2>2, <3>3 DEF ReplayType
      <4>2. QED
        BY <2>2, <4>1 DEF Counted
    <3>4. QED
      BY <2>4, <3>1, <3>2, <3>3
  <2>6. QED
    BY <2>4, <2>5 DEF Counted
<1>10. pending' = SpoolLoad' + replay[r].remaining - 1
  <2>1. replay[r].remaining \in Nat
    BY <1>2 DEF ReplayType
  <2>2. QED
    BY <1>5, <1>6, <1>8, <2>1 DEF AtLeast0, Larger
<1>11. QED
  BY <1>3, <1>4, <1>7, <1>8, <1>9, <1>10

\* There is one replay at a time, also after the settling of a task.
LEMMA OneReplayOfSettle ==
  ASSUME Typed, Typed', Shape, OneReplay, SettleReplayed
  PROVE  OneReplay'
<1>0. PICK r \in Replays : r = Current.replay
  BY SettlesTask, LineSettled DEF SettleReplayed, Settles, Task
<1>1. replay \in [Replays -> ReplayType] /\ replay[r].remaining \in Nat
  BY DEF Typed, ReplayType
<1>2. SameWork
  BY <1>0, SettledReplay
<1>3. \A s \in Replays : Count(s) \in Nat /\ Count(s)' = Count(s) - (IF s = r THEN 1 ELSE 0)
  BY <1>0, SettledReplay
<1>4. Count(r) > 0 /\ OnlyLive(r) /\ replay[r].remaining > 0
  BY <1>0, SettledReplay
<1>5. PICK R \in ReplayType : SettleReplay(r, R) /\ Counted(r, R)
  BY <1>0, SettledReplay
<1>6. R.live /\ R.read = replay[r].read /\ R.remaining = replay[r].remaining - 1
  BY <1>5 DEF Counted
<1>7. pending' = SpoolLoad' + R.remaining
  <2>1. pending' = SpoolLoad' + replay[r].remaining - 1
    BY <1>0, SettledReplay
  <2>2. QED
    BY <1>1, <1>6, <2>1, SpoolLoadType
<1>8. CASE replay[r].read
  <2>1. Draining(r)
    BY <1>4, <1>8 DEF OneReplay, NoneLive, Reading, Draining, OnlyLive, Dead
  <2>2. \A g \in Feeders : ~Working(feeder'[g])
    BY <1>2, <2>1 DEF SameWork, Draining, Working
  <2>3. R.remaining = Count(r)'
    BY <1>3, <1>6, <2>1 DEF Draining
  <2>4. \A s \in Replays \ {r} : Count(s)' = Count(s)
    BY <1>3
  <2>5. QED
    BY <1>4, <1>5, <1>6, <1>7, <1>8, <2>2, <2>3, <2>4, ReplaySettled
<1>9. CASE ~replay[r].read
  <2>1. replay' = [replay EXCEPT ![r] = R] /\ UNCHANGED replayFile
    BY <1>5, <1>6, <1>9 DEF SettleReplay
  <2>2. PICK g \in Feeders : Reading(g, r)
    BY <1>4, <1>9 DEF OneReplay, NoneLive, Reading, Draining, OnlyLive, Dead
  <2>3. OnlyLive(r)' /\ ~replay'[r].read
    BY <1>1, <1>3, <1>4, <1>6, <1>9, <2>1 DEF OnlyLive, Dead
  <2>4. /\ feeder'[g].pc = feeder[g].pc /\ feeder'[g].replay = feeder[g].replay
        /\ feeder'[g].rest = feeder[g].rest /\ feeder'[g].left = feeder[g].left
    BY <1>2, <2>2 DEF Reading, SameWork, Holding, Working
  <2>5. \A h \in Feeders \ {g} : ~Working(feeder'[h])
    BY <1>2, <2>2 DEF Reading, SameWork, Working
  <2>6. replay'[r].remaining = Count(r)' + feeder'[g].left
    <3>1. feeder[g].left \in Int
      BY DEF Typed, FeederType
    <3>2. QED
      BY <1>1, <1>3, <1>4, <1>6, <2>1, <2>2, <2>4, <3>1 DEF Reading
  <2>7. pending' = SpoolLoad' + replay'[r].remaining
    BY <1>1, <1>7, <2>1
  <2>8. Reading(g, r)'
    BY <2>1, <2>2, <2>3, <2>4, <2>5, <2>6, <2>7 DEF Reading, Holding, Unfed
  <2>9. QED
    BY <2>8 DEF OneReplay
<1>10. QED
  BY <1>8, <1>9

-----------------------------------------------------------------------------
(***************************************************************************)
(* The steps of a feeder.                                                  *)
(***************************************************************************)
\* A feeder that works is the only one that does, and knows its stage.
LEMMA StageOf ==
  ASSUME OneReplay, NEW g \in Feeders, Working(feeder[g])
  PROVE  /\ \A h \in Feeders \ {g} : ~Working(feeder[h])
         /\ ~Holding(feeder[g]) => NoneLive
         /\ Holding(feeder[g]) =>
              \E r \in Replays : Reading(g, r) /\ feeder[g].replay = r
BY DEF OneReplay, NoneLive, Reading, Draining, Holding, Working

\* A feeder that returns was the only one at work.
LEMMA NotWorkingAfter ==
  ASSUME feeder \in [Feeders -> FeederType], NEW g \in Feeders,
         \A h \in Feeders \ {g} : ~Working(feeder[h])
  PROVE  /\ \A h \in Feeders : ~Working(Returned(g)[h])
         /\ \A R : \A h \in Feeders : ~Working(FeedersAfter(R, Returned(g))[h])
         /\ Returned(g) \in [Feeders -> FeederType]
<1>1. Returned(g) \in [Feeders -> FeederType]
  BY FeederMoves
<1>2. \A h \in Feeders : ~Working(Returned(g)[h])
  BY DEF Returned, Working, IdleFeeder
<1>3. QED
  BY <1>1, <1>2, SameWorkOperators DEF Working

\* There is one replay at a time, also after mergeEventSpoolFiles.
LEMMA OneReplayOfMerge ==
  ASSUME Typed, Typed', Shape, OneReplay, NEW g \in Feeders, Merge(g), ~overlapped'
  PROVE  OneReplay'
<1>1. /\ feeder[g].pc = "merge" /\ UNCHANGED <<replay, writer, queue, spoolQueue, spooling, pending>>
      /\ ~Overlaps(g) /\ feeder \in [Feeders -> FeederType]
  BY DEF Merge, wvars, svars, Typed
<1>2. NoneLive /\ \A h \in Feeders : ~Working(feeder[h])
  <2>1. \A h \in Feeders : ~Working(feeder[h])
    BY <1>1 DEF Overlaps, Working
  <2>2. \A r \in Replays : ~replay[r].live
    BY <1>1 DEF Overlaps
  <2>3. QED
    BY <2>1, <2>2 DEF OneReplay, Reading, Draining, OnlyLive
<1>3. /\ feeder'[g].pc \in {"scan", "unlink"}
      /\ \A h \in Feeders \ {g} : feeder'[h].pc = feeder[h].pc
  <2>1. CASE feeder' = Goto(g, "scan")
    <3>1. feeder' = [feeder EXCEPT ![g] = [feeder[g] EXCEPT !.pc = "scan"]]
      BY <2>1 DEF Goto
    <3>2. [feeder[g] EXCEPT !.pc = "scan"].pc = "scan"
      BY <1>1 DEF FeederType
    <3>3. QED
      BY <1>1, <3>1, <3>2
  <2>2. CASE feeder' = [h \in Feeders |->
                          [Goto(g, "unlink")[h] EXCEPT
                             !.rest = IF feeder[h].attached THEN @ \o active ELSE @]]
    <3>1. Goto(g, "unlink") = [feeder EXCEPT ![g] = [feeder[g] EXCEPT !.pc = "unlink"]]
      BY DEF Goto
    <3>2. [feeder[g] EXCEPT !.pc = "unlink"] \in FeederType
          /\ [feeder[g] EXCEPT !.pc = "unlink"].pc = "unlink"
      BY <1>1 DEF FeederType
    <3> DEFINE f == Goto(g, "unlink")
    <3>3. f \in [Feeders -> FeederType] /\ f[g].pc = "unlink"
          /\ \A h \in Feeders \ {g} : f[h].pc = feeder[h].pc
      BY <1>1, <3>1, <3>2
    <3> HIDE DEF f
    <3>4. ASSUME NEW h \in Feeders PROVE feeder'[h].pc = f[h].pc
      BY <2>2, <3>3 DEF f, FeederType
    <3>5. QED
      BY <3>3, <3>4
  <2>3. QED
    BY <2>1, <2>2 DEF Merge
<1>4. \A h \in Feeders : ~Holding(feeder'[h]) /\ (h # g => ~Working(feeder'[h]))
  BY <1>2, <1>3 DEF Working, Holding
<1>5. \A r \in Replays : Dead(r)'
  BY <1>1, <1>2, LineUntouched, CountUntouched DEF NoneLive, Dead
<1>6. pending' = SpoolLoad'
  BY <1>1, <1>2 DEF NoneLive, SpoolLoad, Spooling, Waiting
<1>7. NoneLive'
  BY <1>4, <1>5, <1>6 DEF NoneLive
<1>8. QED
  BY <1>7 DEF OneReplay

\* There is one replay at a time, also after the removal of the merged file.
LEMMA OneReplayOfUnlink ==
  ASSUME Typed, OneReplay, NEW g \in Feeders, Unlink(g)
  PROVE  OneReplay'
<1>1. /\ feeder[g].pc = "unlink" /\ UNCHANGED <<replay, writer, queue, spoolQueue, spooling, pending>>
      /\ feeder' = [feeder EXCEPT ![g] = [feeder[g] EXCEPT !.pc = "scan"]]
      /\ feeder \in [Feeders -> FeederType]
  BY DEF Unlink, wvars, svars, Typed, Goto
<1>2. [feeder[g] EXCEPT !.pc = "scan"].pc = "scan"
  BY <1>1 DEF FeederType
<1>3. NoneLive /\ \A h \in Feeders \ {g} : ~Working(feeder[h])
  BY <1>1, StageOf DEF Working, Holding
<1>4. \A h \in Feeders : ~Holding(feeder'[h]) /\ (h # g => ~Working(feeder'[h]))
  BY <1>1, <1>2, <1>3 DEF NoneLive, Working, Holding
<1>5. \A r \in Replays : Dead(r)'
  BY <1>1, <1>3, LineUntouched, CountUntouched DEF NoneLive, Dead
<1>6. pending' = SpoolLoad'
  BY <1>1, <1>3 DEF NoneLive, SpoolLoad, Spooling, Waiting
<1>7. NoneLive'
  BY <1>4, <1>5, <1>6 DEF NoneLive
<1>8. QED
  BY <1>7 DEF OneReplay

\* There is one replay at a time, also after the first scan.
LEMMA OneReplayOfScan ==
  ASSUME Typed, Typed', Shape, OneReplay, NEW g \in Feeders, Scan(g)
  PROVE  OneReplay'
<1>1. /\ feeder[g].pc = "scan" /\ UNCHANGED <<writer, queue, spoolQueue, spooling, replayFile>>
      /\ feeder \in [Feeders -> FeederType] /\ feeder[g] \in FeederType
      /\ replay \in [Replays -> ReplayType] /\ replayFile \in Seq(Events)
  BY DEF Scan, wvars, svars, disk, Typed
<1>2. NoneLive /\ \A h \in Feeders \ {g} : ~Working(feeder[h])
  BY <1>1, StageOf DEF Working, Holding
<1>3. SpoolLoad' = SpoolLoad /\ SpoolLoad \in Nat
  BY <1>1, SpoolLoadType DEF SpoolLoad, Spooling, Waiting
<1>4. \A r \in Replays : Count(r)' = Count(r)
  BY <1>1, LineUntouched, CountUntouched
<1>5. CASE feeder' = Returned(g) /\ UNCHANGED <<replay, pending>>
  <2>1. \A h \in Feeders : ~Working(feeder'[h])
    BY <1>1, <1>2, <1>5, NotWorkingAfter
  <2>2. NoneLive'
    BY <1>2, <1>3, <1>4, <1>5, <2>1 DEF NoneLive, Dead, Working, Holding
  <2>3. QED
    BY <2>2 DEF OneReplay
<1>6. ASSUME replayFile # <<>>, NEW r \in Replays,
             replay' = [replay EXCEPT ![r] = [NoReplay EXCEPT
                          !.live = TRUE, !.remaining = Len(replayFile)]],
             feeder' = [feeder EXCEPT ![g].pc = "open", ![g].replay = r,
                                      ![g].left = Len(replayFile)],
             pending' = pending + Len(replayFile)
      PROVE  OneReplay'
  <2> DEFINE F == [feeder[g] EXCEPT !.pc = "open", !.replay = r, !.left = Len(replayFile)]
             R == [NoReplay EXCEPT !.live = TRUE, !.remaining = Len(replayFile)]
  <2>1. feeder' = [feeder EXCEPT ![g] = F]
    BY <1>1, <1>6
  <2>2. F.pc = "open" /\ F.replay = r /\ F.left = Len(replayFile)
    BY <1>1 DEF FeederType
  <2>3. R.live /\ ~R.read /\ R.remaining = Len(replayFile)
    BY DEF NoReplay
  <2>4. replay' = [replay EXCEPT ![r] = R]
    BY <1>6
  <2>5. Len(replayFile) \in Nat
    BY <1>1
  <2> HIDE DEF F, R
  <2>6. OnlyLive(r)' /\ ~replay'[r].read /\ replay'[r].remaining = Len(replayFile)
    BY <1>1, <1>2, <1>4, <2>3, <2>4 DEF OnlyLive, NoneLive, Dead
  <2>7. feeder'[g] = F /\ \A h \in Feeders \ {g} : ~Working(feeder'[h])
    BY <1>1, <1>2, <2>1
  <2>8. Count(r)' = 0
    BY <1>2, <1>4 DEF NoneLive, Dead
  <2>9. Reading(g, r)'
    BY <1>1, <1>2, <1>3, <1>6, <2>2, <2>5, <2>6, <2>7, <2>8 DEF Reading, Holding, Unfed, NoneLive
  <2>10. QED
    BY <2>9 DEF OneReplay
<1>7. QED
  BY <1>5, <1>6 DEF Scan

\* There is one replay at a time, also after the opening for the second scan.
LEMMA OneReplayOfOpen ==
  ASSUME Typed, Typed', Shape, OneReplay, NEW g \in Feeders, Open(g)
  PROVE  /\ OneReplay'
         /\ UNCHANGED replay
         /\ feeder' = [feeder EXCEPT ![g] = [feeder[g] EXCEPT !.pc = "feed", !.rest = replayFile,
                                                             !.attached = TRUE]]
<1>1. /\ feeder[g].pc = "open" /\ UNCHANGED <<writer, queue, spoolQueue, spooling>>
      /\ feeder \in [Feeders -> FeederType] /\ feeder[g] \in FeederType
  BY DEF Open, wvars, svars, disk, Typed
<1>2. PICK r \in Replays : Reading(g, r)
  BY <1>1, StageOf DEF Working, Holding
<1>3. UNCHANGED <<replay, replayFile, pending>>
      /\ feeder' = [feeder EXCEPT ![g] = [feeder[g] EXCEPT !.pc = "feed", !.rest = replayFile,
                                                          !.attached = TRUE]]
  <2>1. replayFile # <<>>
    BY <1>1, <1>2 DEF Reading
  <2>2. QED
    BY <1>1, <2>1 DEF Open
<1>4. SpoolLoad' = SpoolLoad /\ Count(r)' = Count(r) /\ \A s \in Replays : Count(s)' = Count(s)
  BY <1>1, LineUntouched, CountUntouched DEF SpoolLoad, Spooling, Waiting
<1>5. /\ feeder'[g].pc = "feed" /\ feeder'[g].rest = replayFile
      /\ feeder'[g].replay = feeder[g].replay /\ feeder'[g].left = feeder[g].left
      /\ \A h \in Feeders \ {g} : feeder'[h] = feeder[h]
  BY <1>1, <1>3 DEF FeederType
<1>6. OnlyLive(r)' /\ ~replay'[r].read
  BY <1>2, <1>3, <1>4 DEF Reading, OnlyLive, Dead
<1>7. Reading(g, r)'
  BY <1>1, <1>2, <1>3, <1>4, <1>5, <1>6 DEF Reading, Holding, Unfed
<1>8. QED
  BY <1>3, <1>7 DEF OneReplay

\* There is one replay at a time, also after the queueing of a record.
LEMMA OneReplayOfFeed ==
  ASSUME Typed, Typed', Shape, OneReplay, NEW g \in Feeders, Feed(g)
  PROVE  OneReplay'
<1>1. /\ feeder[g].pc = "feed" /\ feeder[g].rest # <<>> /\ feeder[g].rest \in Seq(Events)
      /\ UNCHANGED <<writer, spoolQueue, spooling, replay, replayFile, pending>>
      /\ feeder \in [Feeders -> FeederType] /\ feeder[g] \in FeederType /\ feeder[g].left \in Int
  BY DEF Feed, svars, disk, Typed, FeederType
<1>2. PICK r \in Replays : Reading(g, r) /\ feeder[g].replay = r
  BY <1>1, StageOf DEF Working, Holding
<1> DEFINE t == [event |-> Head(feeder[g].rest), replay |-> r]
           F == [feeder[g] EXCEPT !.rest = Tail(@), !.left = @ - 1]
<1>3. /\ Head(feeder[g].rest) \in Events /\ Len(Tail(feeder[g].rest)) = Len(feeder[g].rest) - 1
      /\ Len(feeder[g].rest) \in Nat
  BY <1>1, ElemsTail
<1>4. t \in Task /\ t.replay = r /\ queue' = Append(queue, t)
  BY <1>2, <1>3 DEF Feed, Task
<1>5. feeder' = [feeder EXCEPT ![g] = F]
  BY <1>1 DEF Feed
<1>6. F.pc = "feed" /\ F.replay = r /\ F.rest = Tail(feeder[g].rest) /\ F.left = feeder[g].left - 1
  BY <1>1, <1>2 DEF FeederType
<1> HIDE DEF t, F
<1>7. feeder'[g] = F /\ \A h \in Feeders \ {g} : feeder'[h] = feeder[h]
  BY <1>1, <1>5
<1>8. Line' = Append(Line, t)
  BY <1>1, <1>4, LineGrown
<1>9. \A s \in Replays : Count(s) \in Nat /\ Count(s)' = Count(s) + (IF r = s THEN 1 ELSE 0)
  BY <1>4, <1>8, CountGrown, CountFacts
<1>10. SpoolLoad' = SpoolLoad
  BY <1>1 DEF SpoolLoad, Spooling, Waiting
<1>11. OnlyLive(r)' /\ ~replay'[r].read
  <2>1. ASSUME NEW s \in Replays \ {r} PROVE Dead(s)'
    <3>1. Count(s)' = 0
      BY <1>2, <1>9 DEF Reading, OnlyLive, Dead
    <3>2. QED
      BY <1>1, <1>2, <3>1 DEF Reading, OnlyLive, Dead
  <2>2. QED
    BY <1>1, <1>2, <2>1 DEF Reading, OnlyLive
<1>12. /\ feeder'[g].left = Unfed(feeder[g])'
       /\ replay'[r].remaining = Count(r)' + feeder'[g].left
  <2>1. feeder[g].left = Len(feeder[g].rest)
    BY <1>1, <1>2 DEF Reading, Unfed
  <2>2. feeder'[g].left = Unfed(feeder[g])'
    BY <1>3, <1>6, <1>7, <2>1 DEF Unfed
  <2>3. replay[r].remaining = Count(r) + feeder[g].left
    BY <1>2 DEF Reading
  <2>4. replay'[r].remaining = Count(r)' + feeder'[g].left
    BY <1>1, <1>6, <1>7, <1>9, <2>3
  <2>5. QED
    BY <2>2, <2>4
<1>13. Reading(g, r)'
  BY <1>1, <1>2, <1>6, <1>7, <1>10, <1>11, <1>12 DEF Reading, Holding
<1>14. QED
  BY <1>13 DEF OneReplay

\* There is one replay at a time, also after a feeder that stops.
LEMMA OneReplayOfStop ==
  ASSUME Typed, Typed', Shape, OneReplay, NEW g \in Feeders, FeedStop(g)
  PROVE  OneReplay'
<1>1. /\ feeder[g].pc = "feed" /\ feeder[g].rest # <<>> /\ feeder[g].rest \in Seq(Events)
      /\ UNCHANGED <<writer, queue, spoolQueue, spooling>> /\ Cancel(g)
      /\ feeder \in [Feeders -> FeederType] /\ feeder[g] \in FeederType
      /\ replay \in [Replays -> ReplayType] /\ pending \in Nat
  BY DEF FeedStop, wvars, svars, disk, Typed, FeederType
<1>2. PICK r \in Replays : Reading(g, r) /\ feeder[g].replay = r
  BY <1>1, StageOf DEF Working, Holding
<1> DEFINE n == feeder[g].left
           R == replay[r]
           after == [R EXCEPT !.remaining = @ - n, !.keep = TRUE, !.read = TRUE]
<1>3. n = Len(feeder[g].rest) /\ n \in Nat /\ n > 0
  <2>1. n = Len(feeder[g].rest)
    BY <1>1, <1>2 DEF Reading, Unfed
  <2>2. Len(feeder[g].rest) \in Nat /\ Len(feeder[g].rest) > 0
    BY <1>1
  <2>3. QED
    BY <2>1, <2>2
<1>4. Count(r) \in Nat /\ R.remaining = Count(r) + n /\ pending = SpoolLoad + R.remaining /\ R.live
  BY <1>2, CountFacts DEF Reading, OnlyLive
<1>5. /\ SettleReplay(r, after) /\ feeder' = FeedersAfter(after, Returned(g))
      /\ pending' = FinishSpool(n)
  <2>1. (IF n > R.remaining THEN R.remaining ELSE n) = n /\ ~(n <= 0)
    BY <1>3, <1>4
  <2>2. QED
    BY <1>1, <1>2, <2>1 DEF Cancel
<1>6. /\ after \in ReplayType /\ after.live /\ after.read /\ after.remaining = Count(r)
  <2>1. R \in ReplayType
    BY <1>1
  <2>2. R.remaining - n = Count(r)
    BY <1>3, <1>4
  <2>3. QED
    BY <1>4, <2>1, <2>2 DEF ReplayType
<1>7. \A s \in Replays : Count(s)' = Count(s)
  BY <1>1, LineUntouched, CountUntouched
<1>8. SpoolLoad' = SpoolLoad /\ SpoolLoad \in Nat
  BY <1>1, SpoolLoadType DEF SpoolLoad, Spooling, Waiting
<1>9. pending' = SpoolLoad' + after.remaining
  <2>1. pending - n >= 0 /\ pending - n = SpoolLoad + Count(r)
    BY <1>3, <1>4, <1>8
  <2>2. QED
    <3>1. pending - n \in Int /\ FinishSpool(n) = pending - n
      <4> HIDE DEF n
      <4>1. pending - n \in Int
        BY <1>1, <1>3
      <4>2. AtLeast0(pending - n) = pending - n
        BY <2>1, <4>1 DEF AtLeast0, Larger
      <4>3. QED
        BY <4>1, <4>2 DEF FinishSpool
    <3>2. QED
      BY <1>5, <1>6, <1>8, <2>1, <3>1
<1> HIDE DEF n, after
<1>10. \A h \in Feeders : ~Working(feeder'[h])
  BY <1>1, <1>2, <1>5, NotWorkingAfter DEF Reading
<1>11. OnlyLive(r)
  BY <1>2 DEF Reading
<1>12. after.remaining = Count(r)' /\ \A s \in Replays \ {r} : Count(s)' = Count(s)
  BY <1>6, <1>7
<1>13. QED
  BY <1>5, <1>6, <1>9, <1>10, <1>11, <1>12, ReplaySettled

\* There is one replay at a time, also after the end of the second scan.
LEMMA OneReplayOfEnd ==
  ASSUME Typed, Typed', Shape, OneReplay, NEW g \in Feeders, FeedEnd(g)
  PROVE  OneReplay'
<1>1. /\ feeder[g].pc = "feed" /\ feeder[g].rest = <<>>
      /\ UNCHANGED <<writer, queue, spoolQueue, spooling, pending>>
      /\ feeder \in [Feeders -> FeederType] /\ replay \in [Replays -> ReplayType]
  BY DEF FeedEnd, wvars, svars, disk, Typed
<1>2. PICK r \in Replays : Reading(g, r) /\ feeder[g].replay = r
  BY <1>1, StageOf DEF Working, Holding
<1> DEFINE after == MarkRead(replay[r])
<1>3. SettleReplay(r, after) /\ feeder' = FeedersAfter(after, Returned(g))
  BY <1>2 DEF FeedEnd
<1>4. feeder[g].left = 0 /\ Count(r) \in Nat
  BY <1>1, <1>2, CountFacts DEF Reading, Unfed
<1>5. /\ after \in ReplayType /\ after.live /\ after.read /\ after.remaining = Count(r)
  <2>1. replay[r].remaining = Count(r) /\ replay[r].live /\ replay[r] \in ReplayType
    BY <1>1, <1>2, <1>4 DEF Reading, OnlyLive
  <2>2. QED
    BY <2>1 DEF MarkRead, ReplayType
<1>6. \A s \in Replays : Count(s)' = Count(s)
  BY <1>1, LineUntouched, CountUntouched
<1>7. SpoolLoad' = SpoolLoad
  BY <1>1 DEF SpoolLoad, Spooling, Waiting
<1>8. pending' = SpoolLoad' + after.remaining
  BY <1>1, <1>2, <1>4, <1>5, <1>7 DEF Reading
<1> HIDE DEF after
<1>9. \A h \in Feeders : ~Working(feeder'[h])
  BY <1>1, <1>2, <1>3, NotWorkingAfter DEF Reading
<1>10. OnlyLive(r) /\ after.remaining = Count(r)' /\ \A s \in Replays \ {r} : Count(s)' = Count(s)
  BY <1>2, <1>5, <1>6 DEF Reading
<1>11. QED
  BY <1>3, <1>5, <1>8, <1>9, <1>10, ReplaySettled

\* overlapped is never taken back.
LEMMA OverlappedStays ==
  ASSUME Next, Typed, ~overlapped'
  PROVE  ~overlapped
BY DEF Next, Start, Stop, Stopped, Ended, Crash, PruneSQLite, Record, RecordLate, HandOffStep, HandOff,
       HandOffDrop, WriterStep, WriterTake, WriterCollect, WriterPersist, WriterCommit, WriterFail,
       SettleReplayed, SettleStored, SpoolReserve, SpoolSend, SpoolSynchronously, WriterBatchDone,
       WriterFinish, SpoolStep, SpoolTake, SpoolWrite, SpoolFinish, FeederStep, Merge, Unlink, Scan,
       Open, Feed, FeedStop, FeedEnd, RetryStep, RetryBegin, RetryExist, RetryWait, RetryExit, Retry,
       vars, ledger

\* There is one replay at a time, also after every step.
LEMMA OneReplayStep ==
  ASSUME Typed, Typed', Shape, OneReplay, Next, ~overlapped'
  PROVE  OneReplay'
<1>1. ASSUME NEW g \in Feeders, FeederStep(g) PROVE OneReplay'
  BY <1>1, OneReplayOfMerge, OneReplayOfUnlink, OneReplayOfScan, OneReplayOfOpen, OneReplayOfFeed,
     OneReplayOfStop, OneReplayOfEnd DEF FeederStep
<1>2. QED
  BY <1>1, OneReplayOfProcess, OneReplayOfControl, OneReplayOfRecord, OneReplayOfWriter,
     OneReplayOfSettle, OneReplayOfSpool, OneReplayOfRetry DEF Next

\* There is one replay at a time, also after a stuttering step.
LEMMA OneReplayStutter ==
  ASSUME Typed, Typed', OneReplay, UNCHANGED vars
  PROVE  OneReplay'
<1>1. UNCHANGED <<replay, replayFile, feeder, writer, queue, spooling, spoolQueue, pending>>
  BY DEF vars, disk, rvars, wvars, svars
<1>2. QED
  BY <1>1, LineUntouched, CountUntouched, OneReplayKept DEF SameWork, SpoolLoad, Spooling, Waiting

\* The records outstanding, added up over the replay objects.
LEMMA OutstandingIs ==
  ASSUME Typed, OneReplay
  PROVE  pending = SpoolLoad + SumFunction([r \in Replays |-> replay[r].remaining])
<1> DEFINE f == [r \in Replays |-> replay[r].remaining]
<1>1. f \in [Replays -> Int] /\ IsFiniteSet(Replays)
  BY PipelineAssumption DEF Typed, ReplayType
<1>2. \A r \in Replays : f[r] = replay[r].remaining
  OBVIOUS
<1> HIDE DEF f
<1>3. CASE NoneLive
  <2>1. SumFunction(f) = 0
    BY <1>1, <1>2, <1>3, SumOfZeros DEF NoneLive, Dead
  <2>2. QED
    BY <1>3, <2>1, SpoolLoadType DEF NoneLive, f
<1>4. ASSUME NEW r \in Replays, OnlyLive(r), pending = SpoolLoad + replay[r].remaining
      PROVE  pending = SpoolLoad + SumFunction(f)
  <2> DEFINE z == [f EXCEPT ![r] = 0]
  <2>1. z \in [Replays -> Int] /\ \A s \in Replays : z[s] = 0
    BY <1>1, <1>2, <1>4 DEF OnlyLive, Dead
  <2>2. SumFunction(z) = 0
    <3> HIDE DEF z
    <3>1. QED
      BY <1>1, <2>1, SumOfZeros
  <2>3. SumFunction(z) = SumFunction(f) - f[r] + 0
    <3>1. \A v \in Int : SumFunction([f EXCEPT ![r] = v]) = SumFunction(f) - f[r] + v
      BY <1>1, SumUpdate
    <3>2. QED
      BY <3>1
  <2>4. SumFunction(f) \in Int /\ f[r] \in Int
    BY <1>1, SumType
  <2> HIDE DEF z
  <2>5. SumFunction(f) = replay[r].remaining
    <3>1. \A a, b \in Int : 0 = a - b + 0 => a = b
      OBVIOUS
    <3>2. 0 = SumFunction(f) - f[r] + 0
      BY <2>2, <2>3, Zenon
    <3>3. QED
      BY <1>2, <2>4, <3>1, <3>2, Zenon
  <2>6. QED
    BY <1>4, <2>5
<1>5. QED
  BY <1>3, <1>4 DEF OneReplay, Reading, Draining, f

\* The byte counters of both queues and eventWriterSpoolPending are what they
\* count after every step of the writer, the spool worker and the feeders, for
\* any queue capacities and any number of replay objects (go/event_writer.go).
THEOREM QueuesAreExact == Spec => []QueuesExact
<1>1. Init => OneReplay
  BY OneReplayInit
<1>2. Tables /\ Tables' /\ (~overlapped => OneReplay) /\ [Next]_vars => (~overlapped => OneReplay)'
  <2>1. ASSUME Tables, Tables', ~overlapped => OneReplay, Next, ~overlapped' PROVE OneReplay'
    BY <2>1, OverlappedStays, OneReplayStep DEF Tables
  <2>2. ASSUME Tables, Tables', ~overlapped => OneReplay, UNCHANGED vars, ~overlapped' PROVE OneReplay'
    <3>1. ~overlapped
      BY <2>2 DEF vars, ledger
    <3>2. QED
      BY <2>2, <3>1, OneReplayStutter DEF Tables
  <2>3. QED
    BY <2>1, <2>2
<1>3. Tables /\ (~overlapped => OneReplay) => QueuesExact
  <2>1. SUFFICES ASSUME Tables, ~overlapped => OneReplay PROVE QueuesExact
    OBVIOUS
  <2>2. OnTheWay = SpoolLoad
    BY OnTheWayIs
  <2>3. ~overlapped => pending = OnTheWay + SumFunction([r \in Replays |-> replay[r].remaining])
    BY <2>1, <2>2, OutstandingIs DEF Tables
  <2>4. Bytes
    BY <2>1 DEF Tables
  <2>5. QED
    BY <2>2, <2>3, <2>4 DEF QueuesExact, Bytes
<1>4. QED
  BY <1>1, <1>2, <1>3, PipelineTables, PTL DEF Spec

-----------------------------------------------------------------------------
(***************************************************************************)
(* The replay file.  While its replay runs, every record in it has a row,  *)
(* failed, is a task of the writer or is still to be read; while the spool *)
(* files are merged, the old one is a part of the new one.                 *)
(***************************************************************************)
OldOf(e) == \E i \in DOMAIN Line : ~Fresh(i) /\ Line[i].event = e
RestOf(e) == \E g \in Feeders : e \in Elems(feeder[g].rest)

Accounted(r, e) ==
  \/ e \in Elems(rows) \/ e \in Elems(replay[r].failed)
  \/ OldOf(e) \/ RestOf(e)

Merging ==
  \A g \in Feeders : feeder[g].pc = "unlink" =>
     spoolMu = g /\ Elems(active) \subseteq Elems(replayFile)

Covered ==
  \A r \in Replays :
    /\ replay[r].live /\ ~replay[r].keep
    /\ \A g \in Feeders : feeder[g].pc # "open"
    => \A e \in Elems(replayFile) : Accounted(r, e)

FileKept == Merging /\ Covered

\* Unread records stay unread.
LEMMA RestsStay ==
  ASSUME Shape, SameWork, NEW e, RestOf(e)
  PROVE  RestOf(e)'
<1>1. PICK g \in Feeders : e \in Elems(feeder[g].rest)
  BY DEF RestOf
<1>2. feeder[g].pc = "feed"
  <2>1. feeder[g].rest # <<>>
    BY <1>1, ElemsEmpty
  <2>2. QED
    BY <2>1 DEF Shape, Placed
<1>3. feeder'[g].rest = feeder[g].rest
  BY <1>2 DEF SameWork, Working
<1>4. QED
  BY <1>1, <1>3 DEF RestOf

\* Steps that do nothing for the replay keep its file accounted for.
LEMMA FileKeptByOthers ==
  ASSUME Shape, FileKept, SameWork, UNCHANGED <<replay, replayFile, spoolMu>>,
         UNCHANGED active \/ spoolMu = None, Elems(rows) \subseteq Elems(rows'),
         \A e : OldOf(e) => OldOf(e)'
  PROVE  FileKept'
<1>1. Merging'
  BY PipelineAssumption DEF FileKept, Merging, SameWork, Working
<1>2. ASSUME NEW r \in Replays, replay'[r].live, ~replay'[r].keep,
             \A g \in Feeders : feeder'[g].pc # "open", NEW e \in Elems(replayFile')
      PROVE  Accounted(r, e)'
  <2>1. \A g \in Feeders : feeder[g].pc # "open"
    BY <1>2 DEF SameWork, Working
  <2>2. Accounted(r, e)
    BY <1>2, <2>1 DEF FileKept, Covered
  <2>3. QED
    BY <2>2, RestsStay DEF Accounted
<1>3. QED
  BY <1>1, <1>2 DEF FileKept, Covered

\* How the old and the fresh tasks of the line stay in it.
LEMMA TasksStay ==
  ASSUME Typed, \/ Line' = Line
                \/ \E t \in Task : Line' = Append(Line, t)
  PROVE  \A e : (OldOf(e) => OldOf(e)') /\ (FreshOf(e) => FreshOf(e)')
<1>1. \A i \in DOMAIN Line : i \in DOMAIN Line' /\ Line'[i] = Line[i]
  <2>1. CASE Line' = Line
    BY <2>1
  <2>2. ASSUME NEW t \in Task, Line' = Append(Line, t)
        PROVE  \A i \in DOMAIN Line : i \in DOMAIN Line' /\ Line'[i] = Line[i]
    BY <2>2, LineFacts
  <2>3. QED
    BY <2>1, <2>2
<1>2. QED
  BY <1>1 DEF OldOf, FreshOf, Fresh

\* Which task a settling step removes.
LEMMA TasksSettled ==
  ASSUME Typed, Line # <<>>, Line' = Tail(Line), NEW e
  PROVE  /\ OldOf(e) => OldOf(e)' \/ (~Fresh(1) /\ Line[1].event = e)
         /\ FreshOf(e) => FreshOf(e)' \/ (Fresh(1) /\ Line[1].event = e)
<1>1. \A i \in DOMAIN Line : i # 1 => i - 1 \in DOMAIN Line' /\ Line'[i - 1] = Line[i]
  BY LineFacts
<1>2. QED
  BY <1>1 DEF OldOf, FreshOf, Fresh

\* Record queues a fresh task or nothing.
LEMMA RecordLine ==
  ASSUME Typed, NEW e \in Events, Record(e) \/ RecordLate(e) \/ HandOffStep(e)
  PROVE  \/ Line' = Line
         \/ Line' = Append(Line, [event |-> e, replay |-> None])
<1>1. UNCHANGED writer
  BY DEF Record, RecordLate, HandOffStep, HandOff, HandOffDrop, wvars
<1>2. CASE Record(e) /\ QueueAccepts
  <2> DEFINE t == [event |-> e, replay |-> None]
  <2>1. t \in Task /\ queue' = Append(queue, t)
    BY <1>2 DEF Record, Task
  <2> HIDE DEF t
  <2>2. Line' = Append(Line, t)
    BY <1>1, <2>1, LineGrown
  <2>3. QED
    BY <2>2 DEF t
<1>3. CASE ~(Record(e) /\ QueueAccepts)
  <2>1. UNCHANGED queue
    BY <1>3 DEF Record, RecordLate, HandOffStep, HandOff, HandOffDrop, wvars
  <2>2. QED
    BY <1>1, <2>1, LineUntouched
<1>4. QED
  BY <1>2, <1>3

\* The writer's steps that settle no task.
KeepsLine ==
  WriterTake \/ WriterCollect \/ WriterPersist \/ WriterCommit \/ WriterFail
  \/ SpoolReserve \/ WriterBatchDone \/ WriterFinish

\* They leave the line as it is.
LEMMA LineKept ==
  ASSUME Typed, Shape, KeepsLine
  PROVE  Line' = Line
<1>1. CASE WriterTake \/ WriterCollect
  BY <1>1, LineTaken
<1>2. CASE WriterPersist \/ WriterCommit \/ WriterFail \/ SpoolReserve \/ WriterFinish
  <2>1. writer'.batch = writer.batch /\ UNCHANGED queue
    BY <1>2 DEF WriterPersist, WriterCommit, WriterFail, SpoolReserve, WriterFinish, Typed, WriterType
  <2>2. QED
    BY <2>1 DEF Line
<1>3. CASE WriterBatchDone
  BY <1>3 DEF WriterBatchDone, IdleWriter, Line
<1>4. QED
  BY <1>1, <1>2, <1>3 DEF KeepsLine

\* The replay file stays accounted for through Record and its hand-off.
LEMMA FileKeptOfRecord ==
  ASSUME Typed, Shape, FileKept, NEW e \in Events, Record(e) \/ RecordLate(e) \/ HandOffStep(e)
  PROVE  FileKept'
<1>1. UNCHANGED <<replay, replayFile, spoolMu, active, rows, feeder>>
  BY DEF Record, RecordLate, HandOffStep, HandOff, HandOffDrop, disk, rvars
<1>2. [event |-> e, replay |-> None] \in Task
  BY DEF Task
<1>3. \A x : OldOf(x) => OldOf(x)'
  BY <1>2, RecordLine, TasksStay
<1>4. QED
  BY <1>1, <1>3, FileKeptByOthers DEF SameWork

\* The replay file stays accounted for through the writer.
LEMMA FileKeptOfWriter ==
  ASSUME Typed, Shape, FileKept, WriterStep, ~SettleReplayed
  PROVE  FileKept'
<1>1. UNCHANGED <<replay, replayFile, spoolMu>>
  BY DEF WriterStep, WriterTake, WriterCollect, WriterPersist, WriterCommit, WriterFail, SettleStored,
         SpoolReserve, SpoolSend, SpoolSynchronously, WriterBatchDone, WriterFinish, rvars, disk
<1>2. SameWork /\ (UNCHANGED active \/ spoolMu = None)
  <2>1. CASE SpoolSynchronously
    BY <2>1, SpoolWritten DEF SpoolSynchronously, WriteSpool
  <2>2. CASE ~SpoolSynchronously
    <3>1. UNCHANGED <<feeder, active>>
      BY <2>2 DEF WriterStep, WriterTake, WriterCollect, WriterPersist, WriterCommit, WriterFail,
                  SettleStored, SpoolReserve, SpoolSend, WriterBatchDone, WriterFinish, rvars, disk
    <3>2. QED
      BY <3>1 DEF SameWork
  <2>3. QED
    BY <2>1, <2>2
<1>3. Elems(rows) \subseteq Elems(rows')
  <2>1. CASE WriterCommit
    <3>1. rows' = Insertion
      BY <2>1 DEF WriterCommit
    <3>2. QED
      BY <3>1, LineFacts, InsertionTable DEF Typed
  <2>2. CASE ~WriterCommit
    BY <2>2 DEF WriterStep, WriterTake, WriterCollect, WriterPersist, WriterFail, SettleStored,
                SpoolReserve, SpoolSend, SpoolSynchronously, WriterBatchDone, WriterFinish, disk
  <2>3. QED
    BY <2>1, <2>2
<1>4. \A e : OldOf(e) => OldOf(e)'
  <2>1. CASE Settles
    <3>1. Line # <<>> /\ Line' = Tail(Line) /\ Line[1] = Current
      BY <2>1, SettlesTask, LineSettled
    <3>2. Current.replay = None
      BY <2>1 DEF Settles, SettleStored, SpoolSend, SpoolSynchronously, Shape, Positions
    <3>3. QED
      BY <3>1, <3>2, TasksSettled DEF Fresh
  <2>2. CASE KeepsLine
    BY <2>2, LineKept, TasksStay
  <2>3. QED
    BY <2>1, <2>2 DEF WriterStep, Settles, KeepsLine
<1>5. QED
  BY <1>1, <1>2, <1>3, <1>4, FileKeptByOthers

\* A record of the replay file that the settled task stood for has a row or failed.
LEMMA RecordSettled ==
  ASSUME Typed, Typed', Shape, DirectPath, OneReplay, FileKept, SettleReplayed,
         NEW r \in Replays, r = Current.replay, NEW R \in ReplayType, Counted(r, R), ~R.keep,
         \A g \in Feeders : feeder[g].pc # "open", NEW e \in Elems(replayFile)
  PROVE  \/ e \in Elems(rows) \/ e \in Elems(R.failed)
         \/ OldOf(e)' \/ RestOf(e)
<1>1. /\ writer.batch # <<>> /\ Line # <<>> /\ Line' = Tail(Line) /\ Line[1] = Current
      /\ writer.pc = "settle"
  BY SettlesTask, LineSettled DEF SettleReplayed, Settles
<1>2. Accounted(r, e)
  BY SettledReplay DEF FileKept, Covered, OnlyLive, Counted
<1>3. e \in Elems(replay[r].failed) => e \in Elems(R.failed)
  BY DEF Counted
<1>4. ASSUME Current.event = e PROVE e \in Elems(rows) \/ e \in Elems(R.failed)
  <2>1. CASE writer.ok
    <3>1. ~Unsettled /\ 1 \in DOMAIN writer.batch /\ Current = writer.batch[1]
      BY <1>1, <2>1, LineFacts DEF Unsettled, Current
    <3>2. QED
      BY <1>4, <3>1 DEF DirectPath
  <2>2. CASE ~writer.ok
    BY <1>4, <2>2 DEF Counted
  <2>3. QED
    BY <2>1, <2>2
<1>5. OldOf(e) => OldOf(e)' \/ Current.event = e
  BY <1>1, TasksSettled
<1>6. QED
  BY <1>2, <1>3, <1>4, <1>5 DEF Accounted

\* The replay file stays accounted for through the settling of a task.
LEMMA FileKeptOfSettle ==
  ASSUME Typed, Typed', Shape, DirectPath, OneReplay, FileKept, SettleReplayed
  PROVE  FileKept'
<1>0. PICK r \in Replays : r = Current.replay
  BY SettlesTask, LineSettled DEF SettleReplayed, Settles, Task
<1>1. OnlyLive(r) /\ SameWork
  BY <1>0, SettledReplay
<1>2. PICK R \in ReplayType : SettleReplay(r, R) /\ Counted(r, R)
  BY <1>0, SettledReplay
<1>3. UNCHANGED rows /\ replay \in [Replays -> ReplayType]
  BY DEF SettleReplayed, Typed
<1>4. Merging'
  <2>1. \A g \in Feeders : feeder[g].pc # "unlink"
    BY <1>1 DEF OneReplay, NoneLive, Reading, Draining, OnlyLive, Dead, Working, Holding
  <2>2. QED
    BY <1>1, <2>1 DEF Merging, SameWork, Working
<1>5. CASE R.remaining > 0 \/ ~R.read
  <2>1. replay' = [replay EXCEPT ![r] = R] /\ UNCHANGED replayFile
    BY <1>2, <1>5 DEF SettleReplay
  <2>2. ASSUME NEW s \in Replays, replay'[s].live, ~replay'[s].keep,
               \A g \in Feeders : feeder'[g].pc # "open", NEW e \in Elems(replayFile')
        PROVE  Accounted(s, e)'
    <3>1. s = r /\ replay'[s] = R
      BY <1>1, <1>3, <2>1, <2>2 DEF OnlyLive, Dead
    <3>2. \A g \in Feeders : feeder[g].pc # "open"
      BY <1>1, <2>2 DEF SameWork, Working
    <3>3. \/ e \in Elems(rows) \/ e \in Elems(R.failed) \/ OldOf(e)' \/ RestOf(e)
      BY <1>0, <1>2, <2>1, <2>2, <3>1, <3>2, RecordSettled
    <3>4. QED
      BY <1>1, <1>3, <3>1, <3>3, RestsStay DEF Accounted
  <2>3. QED
    BY <1>4, <2>2 DEF FileKept, Covered
<1>6. CASE ~(R.remaining > 0 \/ ~R.read)
  <2>1. replay' = [replay EXCEPT ![r] = NoReplay]
    BY <1>2, <1>6 DEF SettleReplay
  <2>2. \A s \in Replays : ~replay'[s].live
    BY <1>1, <1>3, <2>1 DEF OnlyLive, Dead, NoReplay
  <2>3. QED
    BY <1>4, <2>2 DEF FileKept, Covered
<1>7. QED
  BY <1>5, <1>6

\* The replay file stays accounted for through a start, an end or a crash of the process.
LEMMA FileKeptOfProcess ==
  ASSUME Start \/ Stopped \/ Crash
  PROVE  FileKept'
<1>1. \A r \in Replays : ~replay'[r].live
  BY DEF Start, Stopped, Crash, MemoryCleared, NoReplay
<1>2. \A g \in Feeders : feeder'[g].pc # "unlink"
  BY DEF Start, Stopped, Crash, IdleFeeder
<1>3. QED
  BY <1>1, <1>2 DEF FileKept, Merging, Covered

\* The replay file stays accounted for through the other steps.
LEMMA FileKeptOfRest ==
  ASSUME Typed, Shape, FileKept, Stop \/ Ended \/ PruneSQLite \/ SpoolStep \/ RetryStep
  PROVE  FileKept'
<1>1. UNCHANGED <<replay, replayFile, spoolMu, rows, writer, queue>>
  BY DEF Stop, Ended, PruneSQLite, SpoolStep, SpoolTake, SpoolWrite, SpoolFinish, RetryStep, RetryBegin,
         RetryExist, RetryWait, RetryExit, Retry, vars, disk, rvars, wvars
<1>2. SameWork /\ (UNCHANGED active \/ spoolMu = None)
  <2>1. CASE SpoolWrite
    BY <2>1, SpoolWritten DEF SpoolWrite, WriteSpool
  <2>2. CASE RetryStep
    BY <2>2, RetryWork
       DEF RetryStep, RetryBegin, RetryExist, RetryWait, RetryExit, Retry, disk
  <2>3. CASE ~SpoolWrite /\ ~RetryStep
    <3>1. UNCHANGED <<feeder, active>>
      BY <2>3 DEF Stop, Ended, PruneSQLite, SpoolStep, SpoolTake, SpoolFinish, vars, disk, rvars
    <3>2. QED
      BY <3>1 DEF SameWork
  <2>4. QED
    BY <2>1, <2>2, <2>3
<1>3. \A e : OldOf(e) => OldOf(e)'
  BY <1>1, LineUntouched, TasksStay
<1>4. QED
  BY <1>1, <1>2, <1>3, FileKeptByOthers

\* A replay that ends: its file is kept, or replaced by what failed of it.
LEMMA FileReplaced ==
  ASSUME NEW r, NEW R \in ReplayType, SettleReplay(r, R),
         R.remaining = 0 /\ R.read /\ ~R.keep =>
           Elems(replayFile) \subseteq Elems(rows) \cup Elems(R.failed)
  PROVE  Elems(replayFile) \subseteq Elems(rows) \cup Elems(replayFile')
<1>1. R.remaining \in Nat
  BY DEF ReplayType
<1>2. QED
  BY <1>1 DEF SettleReplay, FileAfter

\* Nothing of a settled or ended replay is in memory any more.
LEMMA NothingOld ==
  ASSUME Typed, \A r \in Replays : Count(r) = 0
  PROVE  \A e : ~OldOf(e)
<1>1. ASSUME NEW i \in DOMAIN Line, ~Fresh(i) PROVE FALSE
  <2>0. Line[i] \in Task
    BY <1>1, LineFacts
  <2>1. Line[i].replay \in Replays
    BY <1>1, <2>0 DEF Fresh, Task
  <2>2. Count(Line[i].replay) > 0
    BY <1>1, CountFacts
  <2>3. QED
    BY <2>1, <2>2
<1>2. QED
  BY <1>1 DEF OldOf

\* Without a feeder at work nothing is left to be read.
LEMMA NothingRead ==
  ASSUME Shape, \A g \in Feeders : ~Working(feeder[g])
  PROVE  \A e : ~RestOf(e)
<1>1. \A g \in Feeders : feeder[g].rest = <<>>
  BY DEF Shape, Placed, Working
<1>2. QED
  BY <1>1, ElemsEmpty DEF RestOf

\* The replay file stays accounted for through mergeEventSpoolFiles.
LEMMA FileKeptOfMerge ==
  ASSUME Typed, Shape, OneReplay, FileKept, NEW g \in Feeders, Merge(g), ~overlapped'
  PROVE  /\ FileKept'
         /\ Elems(active) \cup Elems(replayFile) \subseteq Elems(active') \cup Elems(replayFile')
<1>1. /\ ~Overlaps(g) /\ UNCHANGED replay /\ feeder[g].pc = "merge" /\ spoolMu = None
      /\ active \in Seq(Events) /\ replayFile \in Seq(Events)
      /\ feeder \in [Feeders -> FeederType]
  BY DEF Merge, Typed
<1>2. \A r \in Replays : ~replay'[r].live
  BY <1>1 DEF Overlaps
<1>3. CASE replayFile' = replayFile \o active /\ spoolMu' = g /\ UNCHANGED active
  <2>1. Elems(replayFile') = Elems(replayFile) \cup Elems(active)
    BY <1>1, <1>3, ElemsConcat
  <2>2. \A h \in Feeders \ {g} : feeder'[h].pc # "unlink"
    <3>1. \A h \in Feeders \ {g} : feeder[h].pc # "unlink"
      BY <1>1 DEF Overlaps
    <3>2. \A h \in Feeders \ {g} : feeder'[h].pc = feeder[h].pc
      <4>1. CASE feeder' = Goto(g, "scan")
        BY <1>1, <4>1 DEF Goto
      <4>2. CASE feeder' = [h \in Feeders |->
                              [Goto(g, "unlink")[h] EXCEPT
                                 !.rest = IF feeder[h].attached THEN @ \o active ELSE @]]
        <5>1. \A h \in Feeders \ {g} : Goto(g, "unlink")[h] = feeder[h]
          BY <1>1 DEF Goto
        <5>2. \A h \in Feeders \ {g} : feeder[h] \in FeederType
          BY <1>1
        <5>3. ASSUME NEW h \in Feeders \ {g} PROVE feeder'[h].pc = feeder[h].pc
          BY <4>2, <5>1, <5>2 DEF FeederType
        <5>4. QED
          BY <5>3
      <4>3. QED
        BY <4>1, <4>2 DEF Merge
    <3>3. QED
      BY <3>1, <3>2
  <2>3. QED
    BY <1>2, <1>3, <2>1, <2>2 DEF FileKept, Merging, Covered
<1>4. CASE /\ feeder' = Goto(g, "scan")
           /\ \/ UNCHANGED <<active, replayFile>>
              \/ replayFile = <<>> /\ replayFile' = active
  <2>1. \A h \in Feeders : feeder'[h].pc # "unlink"
    <3>1. \A h \in Feeders \ {g} : feeder[h].pc # "unlink"
      BY <1>1 DEF Overlaps
    <3>2. feeder'[g].pc = "scan" /\ \A h \in Feeders \ {g} : feeder'[h] = feeder[h]
      BY <1>1, <1>4 DEF Goto, FeederType
    <3>3. QED
      BY <3>1, <3>2
  <2>2. QED
    BY <1>2, <1>4, <2>1, ElemsEmpty DEF FileKept, Merging, Covered
<1>5. QED
  BY <1>3, <1>4 DEF Merge

\* The replay file stays accounted for through the removal of the merged file.
LEMMA FileKeptOfUnlink ==
  ASSUME Typed, Shape, OneReplay, FileKept, NEW g \in Feeders, Unlink(g)
  PROVE  FileKept' /\ Elems(active) \subseteq Elems(replayFile') /\ UNCHANGED replayFile
<1>1. /\ feeder[g].pc = "unlink" /\ UNCHANGED <<replay, replayFile>> /\ feeder' = Goto(g, "scan")
      /\ feeder \in [Feeders -> FeederType]
  BY DEF Unlink, Typed
<1>2. NoneLive /\ \A h \in Feeders \ {g} : ~Working(feeder[h])
  BY <1>1, StageOf DEF Working, Holding
<1>3. \A h \in Feeders : feeder'[h].pc # "unlink"
  BY <1>1, <1>2 DEF Goto, FeederType, Working
<1>4. \A r \in Replays : ~replay'[r].live
  BY <1>1, <1>2 DEF NoneLive, Dead
<1>5. Elems(active) \subseteq Elems(replayFile)
  BY <1>1 DEF FileKept, Merging
<1>6. QED
  BY <1>1, <1>3, <1>4, <1>5 DEF FileKept, Merging, Covered

\* The replay file stays accounted for through the first scan.
LEMMA FileKeptOfScan ==
  ASSUME Typed, Shape, OneReplay, FileKept, NEW g \in Feeders, Scan(g)
  PROVE  FileKept'
<1>1. /\ feeder[g].pc = "scan" /\ feeder \in [Feeders -> FeederType]
      /\ replay \in [Replays -> ReplayType]
  BY DEF Scan, Typed
<1>2. NoneLive /\ \A h \in Feeders \ {g} : ~Working(feeder[h])
  BY <1>1, StageOf DEF Working, Holding
<1>3. CASE feeder' = Returned(g) /\ UNCHANGED replay
  <2>1. \A h \in Feeders : feeder'[h].pc # "unlink"
    BY <1>1, <1>2, <1>3, NotWorkingAfter DEF Working
  <2>2. \A r \in Replays : ~replay'[r].live
    BY <1>2, <1>3 DEF NoneLive, Dead
  <2>3. QED
    BY <2>1, <2>2 DEF FileKept, Merging, Covered
<1>4. ASSUME NEW r \in Replays,
             feeder' = [feeder EXCEPT ![g].pc = "open", ![g].replay = r,
                                      ![g].left = Len(replayFile)]
      PROVE  FileKept'
  <2>1. feeder'[g].pc = "open" /\ \A h \in Feeders \ {g} : feeder'[h] = feeder[h]
    BY <1>1, <1>4 DEF FeederType
  <2>2. \A h \in Feeders : feeder'[h].pc # "unlink"
    BY <1>2, <2>1 DEF Working
  <2>3. QED
    BY <2>1, <2>2 DEF FileKept, Merging, Covered
<1>5. QED
  BY <1>3, <1>4 DEF Scan

\* The replay file stays accounted for through the opening for the second scan.
LEMMA FileKeptOfOpen ==
  ASSUME Typed, Typed', Shape, OneReplay, FileKept, NEW g \in Feeders, Open(g)
  PROVE  FileKept' /\ UNCHANGED <<replayFile, active>>
<1>1. /\ feeder[g].pc = "open" /\ feeder \in [Feeders -> FeederType] /\ UNCHANGED active
  BY DEF Open, Typed
<1>2. PICK r \in Replays : Reading(g, r)
  BY <1>1, StageOf DEF Working, Holding
<1>3. UNCHANGED replayFile
  BY <1>2, <1>1 DEF Open, Reading
<1>4. feeder' = [feeder EXCEPT ![g] = [feeder[g] EXCEPT !.pc = "feed", !.rest = replayFile,
                                                       !.attached = TRUE]]
  BY OneReplayOfOpen
<1>5. feeder'[g].pc = "feed" /\ feeder'[g].rest = replayFile
      /\ \A h \in Feeders \ {g} : feeder'[h] = feeder[h]
  BY <1>1, <1>4 DEF FeederType
<1>6. \A e \in Elems(replayFile') : RestOf(e)'
  BY <1>3, <1>5 DEF RestOf
<1>7. \A h \in Feeders : feeder'[h].pc # "unlink"
  BY <1>2, <1>5 DEF Reading, Working
<1>8. QED
  BY <1>1, <1>3, <1>6, <1>7 DEF FileKept, Merging, Covered, Accounted

\* The replay file stays accounted for through the queueing of a record.
LEMMA FileKeptOfFeed ==
  ASSUME Typed, Typed', Shape, OneReplay, FileKept, NEW g \in Feeders, Feed(g)
  PROVE  FileKept' /\ \A e : FreshOf(e) => FreshOf(e)'
<1>1. /\ feeder[g].pc = "feed" /\ feeder[g].rest # <<>> /\ feeder[g].rest \in Seq(Events)
      /\ UNCHANGED <<writer, replay, replayFile, rows>>
      /\ feeder \in [Feeders -> FeederType] /\ feeder[g] \in FeederType
  BY DEF Feed, svars, disk, Typed, FeederType
<1>2. PICK r \in Replays : Reading(g, r) /\ feeder[g].replay = r
  BY <1>1, StageOf DEF Working, Holding
<1>3. PICK x \in Events : /\ x = Head(feeder[g].rest)
                          /\ Elems(feeder[g].rest) = {x} \cup Elems(Tail(feeder[g].rest))
  BY <1>1, ElemsTail
<1> DEFINE t == [event |-> x, replay |-> r]
           F == [feeder[g] EXCEPT !.rest = Tail(@), !.left = @ - 1]
<1>4. t \in Task /\ t.event = x /\ t.replay # None /\ queue' = Append(queue, t)
  BY <1>2, <1>3, PipelineAssumption DEF Feed, Task
<1>5. feeder' = [feeder EXCEPT ![g] = F]
  BY <1>1 DEF Feed
<1>6. F.pc = "feed" /\ F.rest = Tail(feeder[g].rest)
  BY <1>1 DEF FeederType
<1> HIDE DEF t, F
<1>7. feeder'[g] = F /\ \A h \in Feeders \ {g} : feeder'[h] = feeder[h]
  BY <1>1, <1>5
<1>8. Line' = Append(Line, t)
  BY <1>1, <1>4, LineGrown
<1>9. \A e : (OldOf(e) => OldOf(e)') /\ (FreshOf(e) => FreshOf(e)')
  BY <1>4, <1>8, TasksStay
<1>10. OldOf(x)'
  <2>1. Len(Line) + 1 \in DOMAIN Line' /\ Line'[Len(Line) + 1] = t
    BY <1>4, <1>8, LineFacts
  <2>2. QED
    BY <1>4, <2>1 DEF OldOf, Fresh
<1>11. ASSUME NEW e, RestOf(e) PROVE RestOf(e)' \/ OldOf(e)'
  <2>1. PICK h \in Feeders : e \in Elems(feeder[h].rest)
    BY <1>11 DEF RestOf
  <2>2. CASE h = g
    BY <1>3, <1>4, <1>6, <1>7, <1>10, <2>1, <2>2 DEF RestOf
  <2>3. CASE h # g
    BY <1>7, <2>1, <2>3 DEF RestOf
  <2>4. QED
    BY <2>2, <2>3
<1>12. \A h \in Feeders : feeder'[h].pc = feeder[h].pc
  BY <1>1, <1>6, <1>7
<1>13. Merging'
  BY <1>2, <1>1, <1>12 DEF Merging, Reading, Working
<1>14. Covered'
  BY <1>1, <1>9, <1>11, <1>12 DEF FileKept, Covered, Accounted
<1>15. QED
  BY <1>9, <1>13, <1>14 DEF FileKept

\* The replay file stays accounted for through a feeder that stops.
LEMMA FileKeptOfStop ==
  ASSUME Typed, Typed', Shape, OneReplay, FileKept, NEW g \in Feeders, FeedStop(g)
  PROVE  FileKept' /\ UNCHANGED <<replayFile, active>>
<1>1. /\ feeder[g].pc = "feed" /\ Cancel(g) /\ UNCHANGED active
      /\ feeder \in [Feeders -> FeederType] /\ replay \in [Replays -> ReplayType]
      /\ feeder[g].rest # <<>> /\ feeder[g].rest \in Seq(Events)
  BY DEF FeedStop, Typed, FeederType
<1>2. PICK r \in Replays : Reading(g, r) /\ feeder[g].replay = r
  BY <1>1, StageOf DEF Working, Holding
<1>3. feeder[g].left > 0
  <2>1. feeder[g].left = Len(feeder[g].rest) /\ Len(feeder[g].rest) \in Nat
        /\ Len(feeder[g].rest) # 0
    BY <1>1, <1>2 DEF Reading, Unfed
  <2>2. QED
    BY <2>1
<1>4. PICK n : LET after == [replay[r] EXCEPT !.remaining = @ - n, !.keep = TRUE, !.read = TRUE]
               IN  SettleReplay(r, after) /\ feeder' = FeedersAfter(after, Returned(g))
  <2>1. feeder[g].left \in Int /\ ~(feeder[g].left <= 0)
    BY <1>1, <1>3 DEF FeederType
  <2>2. QED
    BY <1>1, <1>2, <2>1 DEF Cancel
<1> DEFINE R == [replay[r] EXCEPT !.remaining = @ - n, !.keep = TRUE, !.read = TRUE]
<1>5. R.keep /\ SettleReplay(r, R) /\ feeder' = FeedersAfter(R, Returned(g))
  BY <1>1, <1>4 DEF ReplayType
<1> HIDE DEF R
<1>6. UNCHANGED replayFile /\ (replay' = [replay EXCEPT ![r] = R] \/ replay' = [replay EXCEPT ![r] = NoReplay])
  BY <1>5 DEF SettleReplay, FileAfter
<1>7. \A s \in Replays : replay'[s].live => replay'[s].keep
  BY <1>1, <1>2, <1>5, <1>6 DEF Reading, OnlyLive, Dead, NoReplay
<1>8. \A h \in Feeders : feeder'[h].pc # "unlink"
  BY <1>1, <1>2, <1>5, NotWorkingAfter DEF Reading, Working
<1>9. QED
  BY <1>1, <1>6, <1>7, <1>8 DEF FileKept, Merging, Covered

\* The replay file stays accounted for through the end of the second scan.
LEMMA FileKeptOfEnd ==
  ASSUME Typed, Typed', Shape, OneReplay, FileKept, NEW g \in Feeders, FeedEnd(g)
  PROVE  /\ FileKept' /\ UNCHANGED <<active, rows>>
         /\ Elems(replayFile) \subseteq Elems(rows) \cup Elems(replayFile')
<1>1. /\ feeder[g].pc = "feed" /\ feeder[g].rest = <<>> /\ UNCHANGED <<active, rows, writer, queue>>
      /\ feeder \in [Feeders -> FeederType] /\ replay \in [Replays -> ReplayType]
  BY DEF FeedEnd, Typed, wvars
<1>2. PICK r \in Replays : Reading(g, r) /\ feeder[g].replay = r
  BY <1>1, StageOf DEF Working, Holding
<1> DEFINE R == MarkRead(replay[r])
<1>3. SettleReplay(r, R) /\ feeder' = FeedersAfter(R, Returned(g))
  BY <1>2 DEF FeedEnd
<1>4. /\ R \in ReplayType /\ R.keep = replay[r].keep /\ R.failed = replay[r].failed
      /\ R.remaining = replay[r].remaining /\ R.live
  <2>1. replay[r] \in ReplayType /\ replay[r].live
    BY <1>1, <1>2 DEF Reading, OnlyLive
  <2>2. QED
    BY <2>1 DEF MarkRead, ReplayType
<1> HIDE DEF R
<1>5. \A h \in Feeders : ~Working(feeder'[h]) /\ feeder[h].pc # "open" /\ feeder[h].rest = <<>>
  <2>1. \A h \in Feeders : ~Working(feeder'[h])
    BY <1>1, <1>2, <1>3, NotWorkingAfter DEF Reading
  <2>2. \A h \in Feeders : h # g => feeder[h].pc # "open" /\ feeder[h].rest = <<>>
    BY <1>2 DEF Reading, Working, Shape, Placed
  <2>3. QED
    BY <1>1, <2>1, <2>2
<1>6. ASSUME ~replay[r].keep, NEW e \in Elems(replayFile)
      PROVE  e \in Elems(rows) \/ e \in Elems(replay[r].failed) \/ OldOf(e)
  <2>1. Accounted(r, e)
    BY <1>2, <1>5, <1>6 DEF FileKept, Covered, Reading, OnlyLive
  <2>2. ~RestOf(e)
    BY <1>5, ElemsEmpty DEF RestOf
  <2>3. QED
    BY <2>1, <2>2 DEF Accounted
<1>7. ASSUME R.remaining = 0, ~R.keep
      PROVE  Elems(replayFile) \subseteq Elems(rows) \cup Elems(R.failed)
  <2>1. feeder[g].left = 0 /\ Count(r) \in Nat
    BY <1>1, <1>2, CountFacts DEF Reading, Unfed
  <2>2. \A s \in Replays : Count(s) = 0
    BY <1>2, <1>4, <1>7, <2>1 DEF Reading, OnlyLive, Dead
  <2>3. QED
    BY <1>4, <1>6, <1>7, <2>2, NothingOld
<1>8. Elems(replayFile) \subseteq Elems(rows) \cup Elems(replayFile')
  BY <1>3, <1>4, <1>7, FileReplaced
<1>9. Merging'
  BY <1>5 DEF Merging, Working
<1>10. Line' = Line
  BY <1>1, LineUntouched
<1>11. CASE R.remaining > 0 \/ ~R.read
  <2>1. replay' = [replay EXCEPT ![r] = R] /\ UNCHANGED replayFile
    BY <1>3, <1>11 DEF SettleReplay
  <2>2. ASSUME NEW s \in Replays, replay'[s].live, ~replay'[s].keep, NEW e \in Elems(replayFile')
        PROVE  Accounted(s, e)'
    <3>1. s = r /\ replay'[s] = R
      BY <1>1, <1>2, <2>1, <2>2 DEF Reading, OnlyLive, Dead
    <3>2. e \in Elems(rows) \/ e \in Elems(replay[r].failed) \/ OldOf(e)
      BY <1>4, <1>6, <2>1, <2>2, <3>1
    <3>3. OldOf(e)' <=> OldOf(e)
      BY <1>10 DEF OldOf, Fresh
    <3>4. QED
      BY <1>1, <1>4, <3>1, <3>2, <3>3 DEF Accounted
  <2>3. QED
    BY <1>1, <1>8, <1>9, <2>2 DEF FileKept, Covered
<1>12. CASE ~(R.remaining > 0 \/ ~R.read)
  <2>1. replay' = [replay EXCEPT ![r] = NoReplay]
    BY <1>3, <1>12 DEF SettleReplay
  <2>2. \A s \in Replays : ~replay'[s].live
    BY <1>1, <1>2, <2>1 DEF Reading, OnlyLive, Dead, NoReplay
  <2>3. QED
    BY <1>1, <1>8, <1>9, <2>2 DEF FileKept, Covered
<1>13. QED
  BY <1>11, <1>12

\* The replay file stays accounted for through every step.
LEMMA FileKeptStep ==
  ASSUME Typed, Typed', Shape, DirectPath, OneReplay, FileKept, Next, ~overlapped'
  PROVE  FileKept'
<1>1. ASSUME NEW g \in Feeders, FeederStep(g) PROVE FileKept'
  BY <1>1, FileKeptOfMerge, FileKeptOfUnlink, FileKeptOfScan, FileKeptOfOpen, FileKeptOfFeed,
     FileKeptOfStop, FileKeptOfEnd DEF FeederStep
<1>2. QED
  BY <1>1, FileKeptOfProcess, FileKeptOfRest, FileKeptOfRecord, FileKeptOfWriter, FileKeptOfSettle
     DEF Next

-----------------------------------------------------------------------------
(***************************************************************************)
(* Where a recorded event is.                                              *)
(***************************************************************************)
InHand(e) == FreshOf(e) \/ e \in handoff \/ e \in Elems(spoolQueue) \/ spooling = e
Noted == dropped \cup crashed \cup late

NothingLost == \A e \in recorded : e \in Stored \/ InHand(e) \/ e \in Noted

\* What the loss of the memory of this process would lose.
LEMMA InHandIs ==
  ASSUME Typed, NEW e \in Events
  PROVE  InHand(e) <=> e \in InMemory
<1>1. FreshOf(e) <=> e \in NewEvents(queue) \cup NewEvents(writer.batch)
  <2>1. ASSUME NEW i \in DOMAIN Line, Fresh(i), Line[i].event = e
        PROVE  e \in NewEvents(queue) \cup NewEvents(writer.batch)
    <3>1. CASE i \in DOMAIN writer.batch
      <4>1. Line[i] = writer.batch[i]
        BY <3>1, LineFacts
      <4>2. QED
        BY <2>1, <3>1, <4>1 DEF NewEvents, Fresh
    <3>2. CASE i \notin DOMAIN writer.batch
      <4> DEFINE k == i - Len(writer.batch)
      <4>1. k \in DOMAIN queue /\ Len(writer.batch) + k = i
        BY <3>2, LineFacts
      <4>2. Line[i] = queue[k]
        BY <4>1, LineFacts
      <4>3. QED
        BY <2>1, <4>1, <4>2 DEF NewEvents, Fresh
    <3>3. QED
      BY <3>1, <3>2
  <2>2. ASSUME e \in NewEvents(queue) PROVE FreshOf(e)
    <3>1. PICK k \in DOMAIN queue : queue[k].replay = None /\ queue[k].event = e
      BY <2>2 DEF NewEvents
    <3>2. Len(writer.batch) + k \in DOMAIN Line /\ Line[Len(writer.batch) + k] = queue[k]
      BY LineFacts
    <3>3. QED
      BY <3>1, <3>2 DEF FreshOf, Fresh
  <2>3. ASSUME e \in NewEvents(writer.batch) PROVE FreshOf(e)
    <3>1. PICK k \in DOMAIN writer.batch : writer.batch[k].replay = None /\ writer.batch[k].event = e
      BY <2>3 DEF NewEvents
    <3>2. k \in DOMAIN Line /\ Line[k] = writer.batch[k]
      BY LineFacts
    <3>3. QED
      BY <3>1, <3>2 DEF FreshOf, Fresh
  <2>4. QED
    BY <2>1, <2>2, <2>3 DEF FreshOf
<1>2. e # None
  BY PipelineAssumption
<1>3. QED
  BY <1>1, <1>2 DEF InHand, InMemory

\* Tasks that belong to no replay are fresh.
LEMMA NoTaskOf ==
  ASSUME NEW s \in Seq(Task), \A r \in Replays : Cardinality(TasksOf(s, r)) = 0
  PROVE  \A i \in DOMAIN s : s[i].replay = None
<1>1. ASSUME NEW i \in DOMAIN s, s[i].replay # None PROVE FALSE
  <2>1. s[i] \in Task
    OBVIOUS
  <2>2. s[i].replay \in Replays
    BY <1>1, <2>1 DEF Task
  <2>3. PICK r \in Replays : r = s[i].replay
    BY <2>2
  <2>4. IsFiniteSet(TasksOf(s, r)) /\ Cardinality(TasksOf(s, r)) = 0 /\ i \in TasksOf(s, r)
    BY <2>3, TasksFinite DEF TasksOf
  <2>5. QED
    BY <2>4, FS_EmptySet
<1>2. QED
  BY <1>1

\* What the end of a replay removes from its file has a row.
LEMMA StoredOfSettle ==
  ASSUME Typed, Typed', Shape, DirectPath, OneReplay, FileKept, SettleReplayed
  PROVE  Stored \subseteq Stored'
<1>0. PICK r \in Replays : r = Current.replay
  BY SettlesTask, LineSettled DEF SettleReplayed, Settles, Task
<1>1. /\ writer.batch # <<>> /\ Line # <<>> /\ Line' = Tail(Line) /\ Line \in Seq(Task)
      /\ UNCHANGED <<rows, active>>
  BY SettlesTask, LineSettled, LineFacts DEF SettleReplayed, Settles
<1>2. PICK R \in ReplayType : SettleReplay(r, R) /\ Counted(r, R)
  BY <1>0, SettledReplay
<1>3. /\ OnlyLive(r)
      /\ \A s \in Replays : Count(s) \in Nat /\ Count(s)' = Count(s) - (IF s = r THEN 1 ELSE 0)
  BY <1>0, SettledReplay
<1>4. ASSUME R.remaining = 0, R.read, ~R.keep
      PROVE  Elems(replayFile) \subseteq Elems(rows) \cup Elems(R.failed)
  <2>1. Draining(r)
    BY <1>2, <1>3, <1>4 DEF Counted, OneReplay, NoneLive, Reading, Draining, OnlyLive, Dead
  <2>2. \A g \in Feeders : ~Working(feeder[g])
    BY <2>1 DEF Draining
  <2>3. replay[r].remaining = Count(r) /\ R.remaining = replay[r].remaining - 1
    BY <1>2, <2>1 DEF Draining, Counted
  <2>4. \A s \in Replays : Count(s)' = 0
    BY <1>3, <1>4, <2>3 DEF OnlyLive, Dead
  <2>5. \A i \in DOMAIN Line' : Line'[i].replay = None
    <3>1. Line' \in Seq(Task)
      BY <1>1, ElemsTail
    <3>2. \A s \in Replays : Cardinality(TasksOf(Line', s)) = 0
      BY <2>4 DEF Count
    <3> DEFINE l == Line'
    <3> HIDE DEF l
    <3>3. l \in Seq(Task) /\ \A s \in Replays : Cardinality(TasksOf(l, s)) = 0
      BY <3>1, <3>2 DEF l
    <3>4. \A i \in DOMAIN l : l[i].replay = None
      BY <3>3, NoTaskOf
    <3>5. QED
      BY <3>4 DEF l
  <2>6. ASSUME NEW e PROVE ~OldOf(e)'
    BY <2>5 DEF OldOf, Fresh
  <2>7. \A e : ~RestOf(e)
    BY <2>2, NothingRead
  <2>8. \A g \in Feeders : feeder[g].pc # "open"
    BY <2>2 DEF Working
  <2>9. ASSUME NEW e \in Elems(replayFile) PROVE e \in Elems(rows) \cup Elems(R.failed)
    BY <1>0, <1>2, <1>4, <2>6, <2>7, <2>8, RecordSettled
  <2>10. QED
    BY <2>9
<1>5. Elems(replayFile) \subseteq Elems(rows) \cup Elems(replayFile')
  BY <1>2, <1>4, FileReplaced
<1>6. QED
  BY <1>1, <1>5 DEF Stored

\* A line of the spool file stays when another one is appended.
LEMMA SpoolAppended ==
  ASSUME Typed, NEW e \in Events, WriteSpool(e)
  PROVE  /\ Elems(active) \subseteq Elems(active')
         /\ e \in Elems(active') \/ e \in dropped'
<1>1. Elems(Append(active, e)) = Elems(active) \cup {e}
  BY ElemsAppend DEF Typed
<1>2. QED
  BY <1>1 DEF WriteSpool, CountDrop

\* What is on disk stays there.
LEMMA StoredStep ==
  ASSUME Typed, Typed', Shape, DirectPath, OneReplay, FileKept, Next, ~overlapped'
  PROVE  Stored \subseteq Stored'
<1>1. CASE Start \/ Stop \/ Stopped \/ Ended \/ Crash \/ PruneSQLite \/ RetryStep
  <2>1. UNCHANGED <<rows, active, replayFile>>
    BY <1>1 DEF Start, Stop, Stopped, Ended, Crash, PruneSQLite, RetryStep, RetryBegin, RetryExist,
                RetryWait, RetryExit, Retry, vars, disk
  <2>2. QED
    BY <2>1 DEF Stored
<1>2. ASSUME NEW e \in Events, Record(e) \/ RecordLate(e) \/ HandOffStep(e)
      PROVE  Stored \subseteq Stored'
  BY <1>2 DEF Record, RecordLate, HandOffStep, HandOff, HandOffDrop, disk, Stored
<1>3. CASE WriterStep
  <2>1. CASE SettleReplayed
    BY <2>1, StoredOfSettle
  <2>2. CASE WriterCommit
    <3>1. rows' = Insertion /\ UNCHANGED <<active, replayFile>>
      BY <2>2 DEF WriterCommit
    <3>2. Elems(rows) \subseteq Elems(rows')
      BY <3>1, LineFacts, InsertionTable DEF Typed
    <3>3. QED
      BY <3>1, <3>2 DEF Stored
  <2>3. CASE SpoolSynchronously
    <3>1. writer.batch # <<>> /\ WriteSpool(Current.event) /\ UNCHANGED <<rows, replayFile>>
      BY <2>3 DEF SpoolSynchronously
    <3>2. PICK e \in Events : e = Current.event
      BY <2>3, SettlesTask, LineSettled DEF Settles, Task
    <3>3. QED
      BY <3>1, <3>2, SpoolAppended DEF Stored
  <2>4. CASE ~(SettleReplayed \/ WriterCommit \/ SpoolSynchronously)
    <3>1. UNCHANGED <<rows, active, replayFile>>
      BY <1>3, <2>4 DEF WriterStep, WriterTake, WriterCollect, WriterPersist, WriterFail, SettleStored,
                        SpoolReserve, SpoolSend, WriterBatchDone, WriterFinish, disk
    <3>2. QED
      BY <3>1 DEF Stored
  <2>5. QED
    BY <2>1, <2>2, <2>3, <2>4
<1>4. CASE SpoolStep
  <2>1. UNCHANGED <<rows, replayFile>>
    BY <1>4 DEF SpoolStep, SpoolTake, SpoolWrite, SpoolFinish, disk
  <2>2. Elems(active) \subseteq Elems(active')
    <3>1. CASE SpoolWrite
      <4>1. PICK e \in Events : e = spooling
        BY <3>1 DEF SpoolWrite, Typed
      <4>2. QED
        BY <3>1, <4>1, SpoolAppended DEF SpoolWrite
    <3>2. CASE ~SpoolWrite
      BY <1>4, <3>2 DEF SpoolStep, SpoolTake, SpoolFinish, disk
    <3>3. QED
      BY <3>1, <3>2
  <2>3. QED
    BY <2>1, <2>2 DEF Stored
<1>5. ASSUME NEW g \in Feeders, FeederStep(g) PROVE Stored \subseteq Stored'
  <2>1. UNCHANGED rows
    BY <1>5 DEF FeederStep, Merge, Unlink, Scan, Open, Feed, FeedStop, FeedEnd, disk
  <2>2. CASE Scan(g) \/ Feed(g)
    BY <2>2 DEF Scan, Feed, disk, Stored
  <2>3. CASE Merge(g)
    BY <2>1, <2>3, FileKeptOfMerge DEF Stored
  <2>4. CASE Unlink(g)
    BY <2>1, <2>4, FileKeptOfUnlink DEF Stored
  <2>5. CASE Open(g) \/ FeedStop(g)
    <3>1. UNCHANGED <<replayFile, active>>
      BY <2>5, FileKeptOfOpen, FileKeptOfStop
    <3>2. QED
      BY <2>1, <3>1 DEF Stored
  <2>6. CASE FeedEnd(g)
    BY <2>1, <2>6, FileKeptOfEnd DEF Stored
  <2>7. QED
    BY <1>5, <2>2, <2>3, <2>4, <2>5, <2>6 DEF FeederStep
<1>6. QED
  BY <1>1, <1>2, <1>3, <1>4, <1>5 DEF Next

\* A loss that was counted stays counted.
LEMMA NotedStep ==
  ASSUME Next
  PROVE  Noted \subseteq Noted'
BY DEF Next, Start, Stop, Stopped, Ended, Crash, PruneSQLite, Record, RecordLate, HandOffStep, HandOff,
       HandOffDrop, CountDrop, WriteSpool, WriterStep, WriterTake, WriterCollect, WriterPersist,
       WriterCommit, WriterFail, SettleReplayed, SettleStored, SpoolReserve, SpoolSend,
       SpoolSynchronously, WriterBatchDone, WriterFinish, SpoolStep, SpoolTake, SpoolWrite, SpoolFinish,
       FeederStep, Merge, Unlink, Scan, Open, Feed, FeedStop, FeedEnd, RetryStep, RetryBegin,
       RetryExist, RetryWait, RetryExit, Retry, vars, ledger, Noted

\* The events in memory are lost by no step of a goroutine.
LEMMA InHandKept ==
  ASSUME NEW e, InHand(e), FreshOf(e) => FreshOf(e)', handoff \subseteq handoff',
         UNCHANGED <<spoolQueue, spooling>>
  PROVE  InHand(e)'
BY DEF InHand

\* Fresh tasks stay where the line stays.
LEMMA FreshUntouched ==
  ASSUME Line' = Line, NEW e, FreshOf(e)
  PROVE  FreshOf(e)'
BY DEF FreshOf, Fresh

\* An event in memory is not lost by a start, an end or a crash of the process.
LEMMA InHandOfProcess ==
  ASSUME Typed, Typed', Shape, NEW e \in Events, InHand(e), Stored \subseteq Stored',
         Start \/ Stopped \/ Crash
  PROVE  e \in Stored' \/ InHand(e)' \/ e \in Noted'
<1>1. CASE Start \/ Stopped
  <2>1. /\ writer.batch = <<>> /\ queue = <<>> /\ spoolQueue = <<>> /\ spooling = None
        /\ handoff = {}
    BY <1>1 DEF Start, Stopped, Shape, Positions, IdleWriter
  <2>2. Line = <<>>
    BY <2>1 DEF Line
  <2>3. e # None
    BY PipelineAssumption
  <2>4. QED
    BY <2>1, <2>2, <2>3, ElemsEmpty DEF InHand, FreshOf
<1>2. CASE Crash
  BY <1>2, InHandIs DEF Crash, Noted
<1>3. QED
  BY <1>1, <1>2

\* An event in memory is not lost by Record and its hand-off.
LEMMA InHandOfRecord ==
  ASSUME Typed, NEW e \in Events, InHand(e), NEW x \in Events,
         Record(x) \/ RecordLate(x) \/ HandOffStep(x)
  PROVE  InHand(e)' \/ e \in Noted'
<1>1. FreshOf(e) => FreshOf(e)'
  <2>1. [event |-> x, replay |-> None] \in Task
    BY DEF Task
  <2>2. QED
    BY <2>1, RecordLine, TasksStay
<1>2. CASE Record(x) \/ RecordLate(x)
  <2>1. handoff \subseteq handoff' /\ UNCHANGED <<spoolQueue, spooling>>
    BY <1>2 DEF Record, RecordLate, svars
  <2>2. QED
    BY <1>1, <2>1, InHandKept
<1>3. CASE HandOff(x)
  <2>1. handoff' = handoff \ {x} /\ UNCHANGED spooling /\ spoolQueue' = Append(spoolQueue, x)
    BY <1>3 DEF HandOff
  <2>2. Elems(spoolQueue') = Elems(spoolQueue) \cup {x}
    BY <2>1, ElemsAppend DEF Typed
  <2>3. QED
    BY <1>1, <2>1, <2>2 DEF InHand
<1>4. CASE HandOffDrop(x)
  <2>1. handoff' = handoff \ {x} /\ UNCHANGED <<spoolQueue, spooling>> /\ dropped' = dropped \cup {x}
    BY <1>4 DEF HandOffDrop, CountDrop, svars
  <2>2. QED
    BY <1>1, <2>1 DEF InHand, Noted
<1>5. QED
  BY <1>2, <1>3, <1>4 DEF HandOffStep

\* An event in memory is not lost by the writer.
LEMMA InHandOfWriter ==
  ASSUME Typed, Shape, DirectPath, NEW e \in Events, InHand(e), WriterStep
  PROVE  e \in Stored' \/ InHand(e)' \/ e \in Noted'
<1>1. UNCHANGED handoff /\ UNCHANGED spooling
  BY DEF WriterStep, WriterTake, WriterCollect, WriterPersist, WriterCommit, WriterFail, SettleReplayed,
         SettleStored, SpoolReserve, SpoolSend, SpoolSynchronously, WriterBatchDone, WriterFinish, svars
<1>2. CASE KeepsLine
  <2>1. UNCHANGED spoolQueue
    BY <1>2 DEF KeepsLine, WriterTake, WriterCollect, WriterPersist, WriterCommit, WriterFail,
                SpoolReserve, WriterBatchDone, WriterFinish, svars
  <2>2. QED
    BY <1>1, <1>2, <2>1, LineKept, FreshUntouched, InHandKept
<1>3. CASE Settles
  <2>1. /\ writer.batch # <<>> /\ Line # <<>> /\ Line' = Tail(Line) /\ Line[1] = Current
        /\ 1 \in DOMAIN writer.batch /\ Current = writer.batch[1]
    BY <1>3, SettlesTask, LineSettled, LineFacts DEF Current
  <2>2. FreshOf(e) => FreshOf(e)' \/ (Current.replay = None /\ Current.event = e)
    BY <2>1, TasksSettled DEF Fresh
  <2>3. CASE SettleReplayed
    <3>1. UNCHANGED spoolQueue /\ Current.replay # None
      BY <2>3 DEF SettleReplayed, svars
    <3>2. QED
      BY <1>1, <2>2, <3>1, InHandKept
  <2>4. CASE SettleStored
    <3>1. UNCHANGED <<spoolQueue, rows>> /\ ~Unsettled
      BY <2>4 DEF SettleStored, svars, disk, Unsettled
    <3>2. Current.event \in Elems(rows)
      BY <2>1, <3>1 DEF DirectPath
    <3>3. QED
      BY <1>1, <2>2, <3>1, <3>2 DEF InHand, Stored
  <2>5. CASE SpoolSend
    <3>1. Current.event \in Events /\ spoolQueue' = Append(spoolQueue, Current.event)
      BY <1>3, <2>5, SettlesTask, LineSettled DEF SpoolSend, Task
    <3>2. Elems(spoolQueue') = Elems(spoolQueue) \cup {Current.event}
      BY <3>1, ElemsAppend DEF Typed
    <3>3. QED
      BY <1>1, <2>2, <3>2 DEF InHand
  <2>6. CASE SpoolSynchronously
    <3>1. PICK x \in Events : x = Current.event
      BY <1>3, SettlesTask, LineSettled DEF Task
    <3>2. UNCHANGED spoolQueue /\ WriteSpool(x)
      BY <2>6, <3>1 DEF SpoolSynchronously, svars
    <3>3. x \in Elems(active') \/ x \in dropped'
      BY <3>2, SpoolAppended
    <3>4. QED
      BY <1>1, <2>2, <3>1, <3>2, <3>3 DEF InHand, Stored, Noted
  <2>7. QED
    BY <1>3, <2>3, <2>4, <2>5, <2>6 DEF Settles
<1>4. QED
  BY <1>2, <1>3 DEF WriterStep, Settles, KeepsLine

\* An event in memory is not lost by the spool worker.
LEMMA InHandOfSpool ==
  ASSUME Typed, NEW e \in Events, InHand(e), SpoolStep
  PROVE  e \in Stored' \/ InHand(e)' \/ e \in Noted'
<1>1. UNCHANGED <<handoff, writer, queue>>
  BY DEF SpoolStep, SpoolTake, SpoolWrite, SpoolFinish, wvars
<1>2. FreshOf(e) => FreshOf(e)'
  BY <1>1, LineUntouched, FreshUntouched
<1>3. CASE SpoolTake
  <2>1. spoolQueue # <<>> /\ spooling = None /\ spooling' = Head(spoolQueue)
        /\ spoolQueue' = Tail(spoolQueue) /\ spoolQueue \in Seq(Events)
    BY <1>3 DEF SpoolTake, Typed
  <2>2. Elems(spoolQueue) = {Head(spoolQueue)} \cup Elems(Tail(spoolQueue))
    BY <2>1, ElemsTail
  <2>3. e # None
    BY PipelineAssumption
  <2>4. QED
    BY <1>1, <1>2, <2>1, <2>2, <2>3 DEF InHand
<1>4. CASE SpoolWrite
  <2>1. PICK x \in Events : x = spooling
    BY <1>4 DEF SpoolWrite, Typed
  <2>2. UNCHANGED spoolQueue /\ WriteSpool(x)
    BY <1>4, <2>1 DEF SpoolWrite
  <2>3. x \in Elems(active') \/ x \in dropped'
    BY <2>2, SpoolAppended
  <2>4. QED
    BY <1>1, <1>2, <2>1, <2>2, <2>3 DEF InHand, Stored, Noted
<1>5. CASE SpoolFinish
  BY <1>1, <1>2, <1>5, InHandKept DEF SpoolFinish
<1>6. QED
  BY <1>3, <1>4, <1>5 DEF SpoolStep

\* An event in memory is not lost by a feeder.
LEMMA InHandOfFeeder ==
  ASSUME Typed, Typed', Shape, OneReplay, FileKept, NEW e \in Events, InHand(e),
         NEW g \in Feeders, FeederStep(g)
  PROVE  InHand(e)'
<1>1. UNCHANGED <<handoff, writer, spoolQueue, spooling>>
  BY DEF FeederStep, Merge, Unlink, Scan, Open, Feed, FeedStop, FeedEnd, wvars, svars
<1>2. FreshOf(e) => FreshOf(e)'
  <2>1. CASE Feed(g)
    BY <2>1, FileKeptOfFeed
  <2>2. CASE ~Feed(g)
    <3>1. UNCHANGED queue
      BY <2>2 DEF FeederStep, Merge, Unlink, Scan, Open, FeedStop, FeedEnd, wvars
    <3>2. QED
      BY <1>1, <3>1, LineUntouched, FreshUntouched
  <2>3. QED
    BY <2>1, <2>2
<1>3. QED
  BY <1>1, <1>2, InHandKept

\* An event in memory is not lost by every step.
LEMMA InHandStep ==
  ASSUME Typed, Typed', Shape, DirectPath, OneReplay, FileKept, Next, Stored \subseteq Stored',
         NEW e \in Events, InHand(e)
  PROVE  e \in Stored' \/ InHand(e)' \/ e \in Noted'
<1>1. CASE Stop \/ Ended \/ PruneSQLite \/ RetryStep
  <2>1. UNCHANGED <<writer, queue, handoff, spoolQueue, spooling>>
    BY <1>1 DEF Stop, Ended, PruneSQLite, RetryStep, RetryBegin, RetryExist, RetryWait, RetryExit, Retry,
                vars, wvars, svars
  <2>2. QED
    BY <2>1, LineUntouched, FreshUntouched, InHandKept
<1>2. QED
  BY <1>1, InHandOfProcess, InHandOfRecord, InHandOfWriter, InHandOfSpool, InHandOfFeeder DEF Next

\* An event that Record takes is in memory after the step.
LEMMA RecordedStep ==
  ASSUME Typed, Next, NEW e \in recorded' \ recorded
  PROVE  InHand(e)' \/ e \in Noted'
<1>1. PICK x \in Events : Record(x) \/ RecordLate(x)
  BY DEF Next, Start, Stop, Stopped, Ended, Crash, PruneSQLite, HandOffStep, HandOff, HandOffDrop,
         WriterStep, WriterTake, WriterCollect, WriterPersist, WriterCommit, WriterFail, SettleReplayed,
         SettleStored, SpoolReserve, SpoolSend, SpoolSynchronously, WriterBatchDone, WriterFinish,
         SpoolStep, SpoolTake, SpoolWrite, SpoolFinish, FeederStep, Merge, Unlink, Scan, Open, Feed,
         FeedStop, FeedEnd, RetryStep, RetryBegin, RetryExist, RetryWait, RetryExit, Retry, vars, ledger
<1>2. e = x
  BY <1>1 DEF Record, RecordLate
<1>3. CASE RecordLate(x)
  BY <1>2, <1>3 DEF RecordLate, Noted
<1>4. CASE Record(x) /\ ~QueueAccepts
  BY <1>2, <1>4 DEF Record, InHand
<1>5. CASE Record(x) /\ QueueAccepts
  <2> DEFINE t == [event |-> x, replay |-> None]
  <2>1. t \in Task /\ t.event = x /\ t.replay = None /\ queue' = Append(queue, t) /\ UNCHANGED writer
    BY <1>5 DEF Record, Task
  <2> HIDE DEF t
  <2>2. Line' = Append(Line, t)
    BY <2>1, LineGrown
  <2>3. Len(Line) + 1 \in DOMAIN Line' /\ Line'[Len(Line) + 1] = t
    BY <2>1, <2>2, LineFacts
  <2>4. FreshOf(x)'
    BY <2>1, <2>3 DEF FreshOf, Fresh
  <2>5. QED
    BY <1>2, <2>4 DEF InHand
<1>6. QED
  BY <1>1, <1>3, <1>4, <1>5

\* No step loses an event.
LEMMA NothingLostStep ==
  ASSUME Typed, Typed', Shape, DirectPath, OneReplay, FileKept, NothingLost, Next, ~overlapped'
  PROVE  NothingLost'
<1>1. Stored \subseteq Stored' /\ Noted \subseteq Noted'
  BY StoredStep, NotedStep
<1>2. ASSUME NEW e \in recorded' PROVE e \in Stored' \/ InHand(e)' \/ e \in Noted'
  <2>1. CASE e \in recorded
    <3>1. e \in Events
      BY <2>1 DEF Typed
    <3>2. QED
      BY <1>1, <2>1, <3>1, InHandStep DEF NothingLost
  <2>2. CASE e \notin recorded
    BY <2>2, RecordedStep
  <2>3. QED
    BY <2>1, <2>2
<1>3. QED
  BY <1>2 DEF NothingLost

Kept == OneReplay /\ FileKept /\ NothingLost

\* The invariant of the replays holds in the beginning.
LEMMA KeptInit == Init => Kept
<1>1. SUFFICES ASSUME Init PROVE FileKept /\ NothingLost
  BY OneReplayInit DEF Kept
<1>2. FileKept
  BY <1>1 DEF Init, FileKept, Merging, Covered, IdleFeeder, NoReplay
<1>3. NothingLost
  BY <1>1 DEF Init, NothingLost
<1>4. QED
  BY <1>2, <1>3

\* The invariant of the replays holds after a stuttering step.
LEMMA KeptStutter ==
  ASSUME Typed, Typed', Shape, Kept, UNCHANGED vars
  PROVE  Kept'
<1>1. /\ UNCHANGED <<rows, active, replayFile, queue, writer, spoolQueue, spooling, handoff>>
      /\ UNCHANGED <<feeder, replay, spoolMu, recorded, dropped, crashed, late>>
  BY DEF vars, disk, wvars, svars, rvars, ledger
<1>2. OneReplay'
  BY OneReplayStutter DEF Kept
<1>3. Line' = Line
  BY <1>1, LineUntouched
<1>4. FileKept'
  <2>1. \A e : OldOf(e) => OldOf(e)'
    BY <1>3, TasksStay
  <2>2. SameWork
    BY <1>1 DEF SameWork
  <2>3. QED
    BY <1>1, <2>1, <2>2, FileKeptByOthers DEF Kept
<1>5. NothingLost'
  <2>1. \A e : InHand(e) => InHand(e)'
    BY <1>1, <1>3, FreshUntouched, InHandKept
  <2>2. Stored' = Stored /\ Noted' = Noted
    BY <1>1 DEF Stored, Noted
  <2>3. QED
    BY <1>1, <2>1, <2>2 DEF Kept, NothingLost
<1>6. QED
  BY <1>2, <1>4, <1>5 DEF Kept

\* An event that Record took is stored, in a queue of the running process, or its
\* loss is counted, through failed transactions, spool files that are merged,
\* replayed, rewritten and removed, stops and crashes, as long as no replay
\* begins before the previous one ended (go/stats.go, go/event_writer.go).
THEOREM NothingIsLost == Spec => []NoSilentLoss
<1>1. Init => Kept
  BY KeptInit
<1>2. Tables /\ Tables' /\ (~overlapped => Kept) /\ [Next]_vars => (~overlapped => Kept)'
  <2>1. ASSUME Tables, Tables', ~overlapped => Kept, Next, ~overlapped' PROVE Kept'
    <3>1. ~overlapped /\ Typed /\ Typed' /\ Shape /\ DirectPath
      BY <2>1, OverlappedStays DEF Tables
    <3>2. OneReplay /\ FileKept /\ NothingLost
      BY <2>1, <3>1 DEF Kept
    <3>3. QED
      BY <2>1, <3>1, <3>2, OneReplayStep, FileKeptStep, NothingLostStep DEF Kept
  <2>2. ASSUME Tables, Tables', ~overlapped => Kept, UNCHANGED vars, ~overlapped' PROVE Kept'
    <3>1. ~overlapped
      BY <2>2 DEF vars, ledger
    <3>2. QED
      BY <2>2, <3>1, KeptStutter DEF Tables
  <2>3. QED
    BY <2>1, <2>2
<1>3. Tables /\ (~overlapped => Kept) => NoSilentLoss
  <2>1. SUFFICES ASSUME Tables, Kept, NEW e \in recorded
                 PROVE  e \in Stored \cup InMemory \cup dropped \cup crashed \cup late
    BY DEF NoSilentLoss
  <2>2. e \in Events
    BY <2>1 DEF Tables, Typed
  <2>3. QED
    BY <2>1, <2>2, InHandIs DEF Tables, Kept, NothingLost, Noted
<1>4. QED
  BY <1>1, <1>2, <1>3, PipelineTables, PTL DEF Spec
=============================================================================
