------------------------- MODULE UsageFallbackProofs -------------------------
(***************************************************************************)
(* What holds of the usage fallback coordinator for every set of records,  *)
(* every key and stream, every window and every limit: its counters are    *)
(* exact, its limits kept, each record has one fate, and Flush is          *)
(* complete.                                                               *)
(***************************************************************************)
EXTENDS UsageFallback, DataLemmas

Distinct(s) == \A i, j \in DOMAIN s : s[i] = s[j] => i = j

-----------------------------------------------------------------------------
(***************************************************************************)
(* Lists: what a loop keeps, what is left without one item, and the first  *)
(* item a test accepts.                                                    *)
(***************************************************************************)
\* What the loop of Keep has kept after the first n items.
IsKept(K, s, S, n) ==
  K = [i \in 0..n |-> IF i = 0 THEN <<>>
                      ELSE IF s[i] \in S THEN Append(K[i - 1], s[i]) ELSE K[i - 1]]

\* The loop has a list after every item.
LEMMA KeptExists ==
  ASSUME NEW s, NEW S, NEW n \in Nat
  PROVE  \E K : IsKept(K, s, S, n)
<1> DEFINE Step(k, i) == IF s[i] \in S THEN Append(k, s[i]) ELSE k
           Has(m) == \E K : IsKept(K, s, S, m)
           N == {m \in Nat : Has(m)}
<1>1. 0 \in N
  <2> DEFINE K == [i \in 0..0 |-> <<>>]
  <2>1. IsKept(K, s, S, 0)
    BY DEF IsKept
  <2>2. QED
    BY <2>1
<1>2. ASSUME NEW m \in Nat, m \in N PROVE m + 1 \in N
  <2>1. PICK K : IsKept(K, s, S, m)
    BY <1>2
  <2> DEFINE L == [i \in 0..(m + 1) |-> IF i = m + 1 THEN Step(K[m], m + 1) ELSE K[i]]
  <2>2. \A i \in 0..m : K[i] = IF i = 0 THEN <<>> ELSE Step(K[i - 1], i)
    BY <2>1 DEF IsKept
  <2>3. ASSUME NEW i \in 0..(m + 1)
        PROVE  L[i] = IF i = 0 THEN <<>> ELSE Step(L[i - 1], i)
    <3> HIDE DEF Step
    <3>1. CASE i = m + 1
      <4>1. L[i] = Step(K[m], m + 1) /\ L[i - 1] = K[m]
        BY <3>1
      <4>2. QED
        BY <3>1, <4>1
    <3>2. CASE i = 0
      BY <2>2, <3>2
    <3>3. CASE i \in 1..m
      <4>1. L[i] = K[i] /\ L[i - 1] = K[i - 1]
        BY <3>3
      <4>2. QED
        BY <2>2, <3>3, <4>1
    <3>4. QED
      BY <3>1, <3>2, <3>3
  <2>4. IsKept(L, s, S, m + 1)
    <3>1. L = [i \in 0..(m + 1) |-> L[i]]
      OBVIOUS
    <3> HIDE DEF L
    <3>2. QED
      BY <2>3, <3>1 DEF IsKept
  <2>5. Has(m + 1)
    BY <2>4
  <2> HIDE DEF Has
  <2>6. QED
    BY <2>5
<1>3. Nat \subseteq N
  <2> HIDE DEF N
  <2>1. QED
    BY <1>1, <1>2, NatSetInduction
<1>4. QED
  BY <1>3

\* Keep is the list after the last item.
LEMMA KeepIsKept ==
  ASSUME NEW s, NEW S, Len(s) \in Nat
  PROVE  \E K : IsKept(K, s, S, Len(s)) /\ Keep(s, S) = K[Len(s)]
<1> DEFINE K == CHOOSE K : IsKept(K, s, S, Len(s))
<1>1. IsKept(K, s, S, Len(s))
  BY KeptExists
<1>2. Keep(s, S) = K[Len(s)]
  BY DEF Keep, IsKept
<1>3. QED
  BY <1>1, <1>2

\* Keep makes a list of the items in S, not longer than the list it was given,
\* and without duplicates if that had none.
LEMMA KeepIs ==
  ASSUME NEW T, NEW s \in Seq(T), NEW S
  PROVE  /\ Keep(s, S) \in Seq(T) /\ Len(Keep(s, S)) <= Len(s)
         /\ ToSet(Keep(s, S)) = ToSet(s) \cap S
         /\ Distinct(s) => Distinct(Keep(s, S))
<1> DEFINE First(n) == {s[i] : i \in 1..n}
           Good(k, n) == /\ k \in Seq(T) /\ Len(k) <= n
                         /\ ToSet(k) = First(n) \cap S
                         /\ Distinct(s) => Distinct(k)
<1>1. PICK K : IsKept(K, s, S, Len(s)) /\ Keep(s, S) = K[Len(s)]
  BY KeepIsKept
<1>2. \A i \in 0..Len(s) : K[i] = IF i = 0 THEN <<>>
                            ELSE IF s[i] \in S THEN Append(K[i - 1], s[i]) ELSE K[i - 1]
  BY <1>1 DEF IsKept
<1> DEFINE N == {n \in Nat : n <= Len(s) => Good(K[n], n)}
<1>3. 0 \in N
  <2>1. K[0] = <<>>
    BY <1>2
  <2>2. Len(<<>>) = 0 /\ DOMAIN <<>> = {}
    OBVIOUS
  <2>3. ToSet(<<>>) = {} /\ Distinct(<<>>)
    BY <2>2 DEF ToSet, Distinct
  <2>4. First(0) = {}
    OBVIOUS
  <2>5. <<>> \in Seq(T)
    OBVIOUS
  <2>6. ToSet(<<>>) = First(0) \cap S
    BY <2>3, <2>4
  <2>7. Good(<<>>, 0)
    BY <2>2, <2>3, <2>5, <2>6
  <2> HIDE DEF Good
  <2>8. QED
    BY <2>1, <2>7
<1>4. ASSUME NEW n \in Nat, n \in N PROVE n + 1 \in N
  <2> SUFFICES ASSUME n + 1 <= Len(s) PROVE Good(K[n + 1], n + 1)
    OBVIOUS
  <2>1. K[n + 1] = IF s[n + 1] \in S THEN Append(K[n], s[n + 1]) ELSE K[n]
    BY <1>2
  <2>2. Good(K[n], n)
    BY <1>4
  <2>3. First(n + 1) = First(n) \cup {s[n + 1]}
    OBVIOUS
  <2>4. s[n + 1] \in T
    OBVIOUS
  <2>5. PICK k : k = K[n]
    OBVIOUS
  <2>6. CASE s[n + 1] \in S
    <3>1. K[n + 1] = Append(k, s[n + 1])
      BY <2>1, <2>5, <2>6
    <3>2. k \in Seq(T) /\ Len(k) <= n /\ ToSet(k) = First(n) \cap S
      BY <2>2, <2>5
    <3>3. /\ Append(k, s[n + 1]) \in Seq(T) /\ Len(Append(k, s[n + 1])) = Len(k) + 1
          /\ \A i \in 1..Len(k) : Append(k, s[n + 1])[i] = k[i]
          /\ Append(k, s[n + 1])[Len(k) + 1] = s[n + 1]
      BY <2>4, <3>2
    <3>4. ToSet(Append(k, s[n + 1])) = ToSet(k) \cup {s[n + 1]}
      <4>1. ToSet(Append(k, s[n + 1])) = {Append(k, s[n + 1])[i] : i \in 1..(Len(k) + 1)}
        BY <3>3 DEF ToSet
      <4>2. ToSet(k) = {k[i] : i \in 1..Len(k)}
        BY <3>2 DEF ToSet
      <4>3. ASSUME NEW x PROVE x \in ToSet(Append(k, s[n + 1])) <=> x \in ToSet(k) \/ x = s[n + 1]
        <5>1. x \in ToSet(Append(k, s[n + 1]))
                <=> \E i \in 1..(Len(k) + 1) : x = Append(k, s[n + 1])[i]
          BY <4>1
        <5>2. x \in ToSet(k) <=> \E i \in 1..Len(k) : x = k[i]
          BY <4>2
        <5>3. Len(k) \in Nat
          BY <3>2
        <5>4. QED
          BY <3>3, <5>1, <5>2, <5>3
      <4>4. QED
        BY <4>3
    <3>5. ASSUME Distinct(s) PROVE Distinct(Append(k, s[n + 1]))
      <4>1. Distinct(k)
        BY <2>2, <2>5, <3>5
      <4>2. s[n + 1] \notin First(n)
        BY <3>5 DEF Distinct
      <4>3. s[n + 1] \notin ToSet(k)
        BY <3>2, <4>2
      <4>4. \A i \in 1..Len(k) : k[i] # s[n + 1]
        BY <3>2, <4>3 DEF ToSet
      <4>5. \A i, j \in 1..Len(k) : k[i] = k[j] => i = j
        BY <3>2, <4>1 DEF Distinct
      <4>6. DOMAIN Append(k, s[n + 1]) = 1..(Len(k) + 1)
        BY <3>2, <3>3
      <4>7. QED
        BY <3>2, <3>3, <4>4, <4>5, <4>6 DEF Distinct
    <3>6. QED
      BY <2>3, <2>6, <3>1, <3>2, <3>3, <3>4, <3>5
  <2>7. CASE s[n + 1] \notin S
    <3>1. K[n + 1] = k
      BY <2>1, <2>5, <2>7
    <3>2. k \in Seq(T) /\ Len(k) <= n /\ ToSet(k) = First(n) \cap S /\ (Distinct(s) => Distinct(k))
      BY <2>2, <2>5
    <3>3. First(n + 1) \cap S = First(n) \cap S
      BY <2>3, <2>7
    <3>4. QED
      BY <3>1, <3>2, <3>3
  <2>8. QED
    BY <2>6, <2>7
<1>5. Nat \subseteq N
  <2> HIDE DEF N
  <2>1. QED
    BY <1>3, <1>4, NatSetInduction
<1>6. Good(K[Len(s)], Len(s))
  BY <1>5
<1>7. First(Len(s)) = ToSet(s)
  BY DEF ToSet
<1>8. QED
  BY <1>1, <1>6, <1>7

\* RemoveAt leaves the other items.
LEMMA RemoveAtIs ==
  ASSUME NEW T, NEW s \in Seq(T), NEW i \in 1..Len(s)
  PROVE  /\ RemoveAt(s, i) \in Seq(T) /\ Len(RemoveAt(s, i)) = Len(s) - 1
         /\ ToSet(RemoveAt(s, i)) \subseteq ToSet(s)
         /\ Distinct(s) => /\ Distinct(RemoveAt(s, i))
                           /\ ToSet(RemoveAt(s, i)) = ToSet(s) \ {s[i]}
<1> DEFINE a == SubSeq(s, 1, i - 1)
           b == SubSeq(s, i + 1, Len(s))
           r == RemoveAt(s, i)
<1>1. a \in Seq(T) /\ Len(a) = i - 1 /\ \A j \in 1..(i - 1) : a[j] = s[j]
  OBVIOUS
<1>2. b \in Seq(T) /\ Len(b) = Len(s) - i /\ \A j \in 1..(Len(s) - i) : b[j] = s[i + j]
  OBVIOUS
<1>3. r = a \o b
  BY DEF RemoveAt
<1> HIDE DEF a, b, r
<1>4. r \in Seq(T) /\ Len(r) = Len(s) - 1 /\ DOMAIN r = 1..(Len(s) - 1)
  BY <1>1, <1>2, <1>3
<1>5. \A j \in 1..(Len(s) - 1) : r[j] = IF j < i THEN s[j] ELSE s[j + 1]
  BY <1>1, <1>2, <1>3
<1>6. DOMAIN s = 1..Len(s)
  OBVIOUS
<1>7. ToSet(r) \subseteq ToSet(s)
  <2>1. ASSUME NEW j \in 1..(Len(s) - 1) PROVE r[j] \in ToSet(s)
    <3>1. CASE j < i
      BY <1>5, <1>6, <3>1 DEF ToSet
    <3>2. CASE ~(j < i)
      <4>1. r[j] = s[j + 1] /\ j + 1 \in DOMAIN s
        BY <1>5, <1>6, <3>2
      <4>2. QED
        BY <4>1 DEF ToSet
    <3>3. QED
      BY <3>1, <3>2
  <2>2. QED
    BY <1>4, <2>1 DEF ToSet
<1>8. ASSUME Distinct(s) PROVE Distinct(r) /\ ToSet(r) = ToSet(s) \ {s[i]}
  <2>1. \A j, k \in 1..Len(s) : s[j] = s[k] => j = k
    BY <1>6, <1>8 DEF Distinct
  <2>2. Distinct(r)
    <3>1. ASSUME NEW j \in 1..(Len(s) - 1), NEW k \in 1..(Len(s) - 1), r[j] = r[k]
          PROVE  j = k
      <4>1. j + 1 \in 1..Len(s) /\ k + 1 \in 1..Len(s) /\ j \in 1..Len(s) /\ k \in 1..Len(s)
        OBVIOUS
      <4>2. QED
        BY <1>5, <2>1, <3>1, <4>1
    <3>2. QED
      BY <1>4, <3>1 DEF Distinct
  <2>3. ASSUME NEW j \in 1..Len(s), j # i PROVE s[j] \in ToSet(r)
    <3>1. CASE j < i
      <4>1. j \in 1..(Len(s) - 1) /\ r[j] = s[j]
        BY <1>5, <3>1
      <4>2. QED
        BY <1>4, <4>1 DEF ToSet
    <3>2. CASE j > i
      <4>1. j - 1 \in 1..(Len(s) - 1) /\ r[j - 1] = s[j]
        BY <1>5, <3>2
      <4>2. QED
        BY <1>4, <4>1 DEF ToSet
    <3>3. QED
      BY <2>3, <3>1, <3>2
  <2>4. ASSUME NEW j \in 1..(Len(s) - 1) PROVE r[j] # s[i]
    <3>1. j + 1 \in 1..Len(s) /\ j \in 1..Len(s)
      OBVIOUS
    <3>2. QED
      BY <1>5, <2>1, <3>1
  <2>5. QED
    BY <1>4, <1>6, <1>7, <2>2, <2>3, <2>4 DEF ToSet
<1>9. QED
  BY <1>4, <1>7, <1>8 DEF r

\* The least of some positions is one of them.
LEMMA LeastIs ==
  ASSUME NEW n \in Nat, NEW S \in SUBSET (1..n), S # {}
  PROVE  Min(S) \in S
<1> DEFINE M == {n - m : m \in S}
<1>1. M \subseteq Nat /\ M # {} /\ \A m \in M : m <= n
  <2>1. \A m \in S : m \in 1..n
    OBVIOUS
  <2>2. \A m \in S : n - m \in Nat /\ n - m <= n
    BY <2>1
  <2>3. QED
    BY <2>2
<1>2. PICK m \in M : \A k \in M : k <= m
  <2> HIDE DEF M
  <2>1. QED
    BY <1>1, LargestExists
<1>3. PICK x \in S : m = n - x
  BY <1>2
<1>4. \A y \in S : x <= y
  <2>1. ASSUME NEW y \in S PROVE x <= y
    <3>1. n - y <= n - x
      BY <1>2, <1>3
    <3>2. x \in Nat /\ y \in Nat
      OBVIOUS
    <3>3. QED
      BY <3>1, <3>2
  <2>2. QED
    BY <2>1
<1>5. \E z \in S : \A y \in S : z <= y
  BY <1>4
<1>6. QED
  BY <1>5 DEF Min

\* RemoveFirst takes an item out of a list that has it, and no other.
LEMMA RemoveFirstIs ==
  ASSUME NEW T, NEW s \in Seq(T), NEW e
  PROVE  /\ RemoveFirst(s, e) \in Seq(T)
         /\ Len(RemoveFirst(s, e)) = IF e \in ToSet(s) THEN Len(s) - 1 ELSE Len(s)
         /\ Distinct(s) => /\ Distinct(RemoveFirst(s, e))
                           /\ ToSet(RemoveFirst(s, e)) = ToSet(s) \ {e}
<1>1. e \in ToSet(s) <=> \E i \in 1..Len(s) : s[i] = e
  BY DEF ToSet
<1>2. CASE e \notin ToSet(s)
  <2>1. RemoveFirst(s, e) = s
    BY <1>1, <1>2 DEF RemoveFirst
  <2>2. QED
    BY <1>2, <2>1
<1>3. CASE e \in ToSet(s)
  <2> DEFINE I == {i \in 1..Len(s) : s[i] = e}
  <2>1. I # {}
    BY <1>1, <1>3
  <2>2. Min(I) \in I
    <3>1. I \in SUBSET (1..Len(s)) /\ Len(s) \in Nat
      OBVIOUS
    <3> HIDE DEF I
    <3>2. QED
      BY <2>1, <3>1, LeastIs
  <2>3. PICK i : i = Min(I)
    OBVIOUS
  <2>4. RemoveFirst(s, e) = RemoveAt(s, i)
    BY <1>1, <1>3, <2>1, <2>3 DEF RemoveFirst, SelectInSeq
  <2>5. i \in 1..Len(s) /\ s[i] = e
    BY <2>2, <2>3
  <2>6. /\ RemoveAt(s, i) \in Seq(T) /\ Len(RemoveAt(s, i)) = Len(s) - 1
        /\ ToSet(RemoveAt(s, i)) \subseteq ToSet(s)
        /\ Distinct(s) => /\ Distinct(RemoveAt(s, i))
                          /\ ToSet(RemoveAt(s, i)) = ToSet(s) \ {s[i]}
    BY Zenon, <2>5, RemoveAtIs
  <2>7. QED
    BY <1>3, <2>4, <2>5, <2>6
<1>4. QED
  BY <1>2, <1>3


-----------------------------------------------------------------------------
(***************************************************************************)
(* The tables, and what an operation on them may do.                       *)
(***************************************************************************)
\* The counters are what they count; a pending record is there once, undecided;
\* only a pending record is in the heap; the last record of a stream is pending
\* or decided.
Table(t) ==
  /\ t \in TableType
  /\ t.pendingCount = Len(t.pending)
  /\ t.nativeCount = Len(t.nativeRecent) /\ t.fallbackCount = Len(t.fallbackRecent)
  /\ Distinct(t.pending) /\ t.heap \subseteq ToSet(t.pending)
  /\ ToSet(t.pending) \cap t.cancelled = {}
  /\ \A f \in ToSet(t.pending) : t.fate[f] = "open"
  /\ \A s \in Streams : t.byStream[s] # None => t.byStream[s] \in ToSet(t.pending) \cup t.cancelled

InLimits(t) ==
  /\ Len(t.pending) <= MaxPending
  /\ Len(t.nativeRecent) <= MaxRecent /\ Len(t.fallbackRecent) <= MaxRecent
  /\ Len(t.pending) + Len(t.nativeRecent) + Len(t.fallbackRecent) <= MaxRetained

\* u is t without some pending records, whose fate is decided, and without some
\* of the recent ones.
Lost(t, u) == ToSet(t.pending) \ ToSet(u.pending)
Shrinks(t, u) ==
  /\ Table(u) /\ u.closed = t.closed
  /\ ToSet(u.pending) \subseteq ToSet(t.pending)
  /\ ToSet(u.pending) \ u.heap \subseteq ToSet(t.pending) \ t.heap
  /\ t.cancelled \subseteq u.cancelled
  /\ u.cancelled \subseteq t.cancelled \cup Lost(t, u)
  /\ Lost(t, u) \subseteq u.cancelled
  /\ \A f \in Lost(t, u) : u.fate[f] # "open"
  /\ \A f \in Fallbacks \ Lost(t, u) : u.fate[f] = t.fate[f]
  /\ Len(u.pending) <= Len(t.pending)
  /\ Len(u.nativeRecent) <= Len(t.nativeRecent)
  /\ Len(u.fallbackRecent) <= Len(t.fallbackRecent)

\* A table among its surroundings: A says when the records arrived, and S is the
\* scheduler, which has the pending records that are not in the heap.
TableOK(t, A, S) ==
  /\ Table(t) /\ InLimits(t)
  /\ t.closed => t.pending = <<>>
  /\ \A f \in ToSet(t.pending) : A[f] + Delay <= MaxTime
  /\ ToSet(t.pending) \ t.heap \subseteq ToSet(S.due)

(***************************************************************************)
(* The positions of the scheduler and of Flush.                            *)
(***************************************************************************)
Positions ==
  /\ sched.pc \notin {"commit", "record"} => sched.due = <<>>
  /\ sched.pc = "record" => sched.due # <<>>
  /\ c.closed <=> flush.pc # "idle"
  /\ flush.pc \in {"record", "done"} => sched.pc = "done"
  /\ flush.pc \in {"idle", "done"} => flush.taken = <<>>

(***************************************************************************)
(* The fates of the records: t is the table, S the scheduler, F Flush, R   *)
(* what is counted and D where the callbacks stand.                        *)
(***************************************************************************)
Held(S, f) == S.pc = "record" /\ f = Head(S.due)
Fates(t, S, F, R, D) ==
  /\ Distinct(F.taken)
  /\ ToSet(S.due) \subseteq ToSet(t.pending) \cup t.cancelled
  /\ \A f \in Fallbacks :
       /\ D[f] = "done" <=> \/ f \in ToSet(t.pending) \/ f \in ToSet(F.taken) \/ Held(S, f)
                            \/ R[f] # 0 \/ t.fate[f] # "open"
       /\ f \in ToSet(t.pending) => f \notin ToSet(F.taken) /\ ~Held(S, f) /\ R[f] = 0
       /\ f \in ToSet(F.taken) => ~Held(S, f) /\ R[f] = 0 /\ t.fate[f] = "open"
       /\ Held(S, f) => R[f] = 0 /\ t.fate[f] = "open"
       /\ R[f] <= 1 /\ (R[f] = 1 => t.fate[f] = "open")
       /\ f \in t.cancelled => D[f] = "done"

OneEach == Fates(c, sched, flush, counted, call)

IInv == TypeOK /\ TableOK(c, arrived, sched) /\ Positions /\ OneEach

-----------------------------------------------------------------------------
(***************************************************************************)
(* The operations on the tables.                                           *)
(***************************************************************************)
\* The fields of a table.
LEMMA TableFields ==
  ASSUME NEW t \in TableType
  PROVE  /\ t.pending \in Seq(Fallbacks) /\ t.heap \in SUBSET Fallbacks
         /\ t.byStream \in [Streams -> Fallbacks \cup {None}] /\ t.cancelled \in SUBSET Fallbacks
         /\ t.nativeRecent \in Seq(Occurrence) /\ t.fallbackRecent \in Seq(Occurrence)
         /\ t.pendingCount \in Nat /\ t.nativeCount \in Nat /\ t.fallbackCount \in Nat
         /\ t.lastCleanup \in -CleanupInterval..MaxTime /\ t.closed \in BOOLEAN
         /\ t.fate \in [Fallbacks -> Fate] /\ t.forgotten \in SUBSET Records
  BY DEF TableType

\* Its lists hold records and have a length.
LEMMA TableLists ==
  ASSUME NEW t \in TableType
  PROVE  /\ ToSet(t.pending) \subseteq Fallbacks
         /\ Len(t.pending) \in Nat /\ Len(t.nativeRecent) \in Nat /\ Len(t.fallbackRecent) \in Nat
<1>1. /\ t.pending \in Seq(Fallbacks)
      /\ t.nativeRecent \in Seq(Occurrence) /\ t.fallbackRecent \in Seq(Occurrence)
  BY TableFields
<1>2. QED
  BY <1>1 DEF ToSet

\* Tables with other pending records, fates or recent records have the type.
LEMMA PendingTyped ==
  ASSUME NEW t \in TableType, NEW P \in Seq(Fallbacks), NEW H \in SUBSET Fallbacks,
         NEW B \in [Streams -> Fallbacks \cup {None}], NEW n \in Nat
  PROVE  [t EXCEPT !.heap = H, !.pending = P, !.byStream = B, !.pendingCount = n] \in TableType
  BY DEF TableType

\* So have tables with other decided records and fates.
LEMMA FateTyped ==
  ASSUME NEW t \in TableType, NEW C \in SUBSET Fallbacks, NEW F \in [Fallbacks -> Fate]
  PROVE  [t EXCEPT !.cancelled = C, !.fate = F] \in TableType
  BY DEF TableType

\* A table lost nothing when nothing was done to it.
LEMMA ShrinksRefl ==
  ASSUME NEW t, Table(t)
  PROVE  Shrinks(t, t)
<1>1. t \in TableType
  BY DEF Table
<1>2. Len(t.pending) \in Nat /\ Len(t.nativeRecent) \in Nat /\ Len(t.fallbackRecent) \in Nat
  BY <1>1, TableLists
<1>3. QED
  BY <1>2 DEF Shrinks, Lost

\* What two operations lose is what each of them loses.
LEMMA ShrinksTrans ==
  ASSUME NEW t, NEW u, NEW v, Table(t), Shrinks(t, u), Shrinks(u, v)
  PROVE  Shrinks(t, v)
<1>1. Lost(t, v) = Lost(t, u) \cup Lost(u, v)
  BY DEF Shrinks, Lost
<1>2. t \in TableType /\ u \in TableType /\ v \in TableType
  BY DEF Shrinks, Table
<1>3. ToSet(t.pending) \subseteq Fallbacks /\ ToSet(u.pending) \subseteq Fallbacks
  BY <1>2, TableLists
<1>4. \A f \in Lost(t, v) : v.fate[f] # "open"
  <2>1. ASSUME NEW f \in Lost(t, u) PROVE f \in Fallbacks \ Lost(u, v)
    BY <1>3 DEF Lost
  <2>2. QED
    BY <1>1, <2>1 DEF Shrinks
<1>5. \A f \in Fallbacks \ Lost(t, v) : v.fate[f] = t.fate[f]
  BY <1>1 DEF Shrinks
<1>6. /\ Len(t.pending) \in Nat /\ Len(t.nativeRecent) \in Nat /\ Len(t.fallbackRecent) \in Nat
      /\ Len(u.pending) \in Nat /\ Len(u.nativeRecent) \in Nat /\ Len(u.fallbackRecent) \in Nat
      /\ Len(v.pending) \in Nat /\ Len(v.nativeRecent) \in Nat /\ Len(v.fallbackRecent) \in Nat
  BY <1>2, TableLists
<1>7. /\ Len(v.pending) <= Len(t.pending)
      /\ Len(v.nativeRecent) <= Len(t.nativeRecent)
      /\ Len(v.fallbackRecent) <= Len(t.fallbackRecent)
  <2>1. /\ Len(u.pending) <= Len(t.pending) /\ Len(v.pending) <= Len(u.pending)
        /\ Len(u.nativeRecent) <= Len(t.nativeRecent) /\ Len(v.nativeRecent) <= Len(u.nativeRecent)
        /\ Len(u.fallbackRecent) <= Len(t.fallbackRecent)
        /\ Len(v.fallbackRecent) <= Len(u.fallbackRecent)
    BY DEF Shrinks
  <2>2. \A i, j, k \in Nat : i <= j /\ k <= i => k <= j
    OBVIOUS
  <2>3. QED
    BY Zenon, <1>6, <2>1, <2>2
<1>8. Table(v) /\ v.closed = t.closed
  BY DEF Shrinks
<1>9. /\ ToSet(v.pending) \subseteq ToSet(t.pending)
      /\ ToSet(v.pending) \ v.heap \subseteq ToSet(t.pending) \ t.heap
      /\ t.cancelled \subseteq v.cancelled
  BY DEF Shrinks
<1>10. v.cancelled \subseteq t.cancelled \cup Lost(t, v) /\ Lost(t, v) \subseteq v.cancelled
  BY <1>1 DEF Shrinks
<1>11. QED
  BY <1>4, <1>5, <1>7, <1>8, <1>9, <1>10 DEF Shrinks

\* u is t without f, pending or not.
Removes(t, u, f) ==
  /\ Table(u)
  /\ ToSet(u.pending) = ToSet(t.pending) \ {f} /\ u.heap = t.heap \ {f}
  /\ Len(u.pending) = IF f \in ToSet(t.pending) THEN Len(t.pending) - 1 ELSE Len(t.pending)
  /\ u.cancelled = t.cancelled /\ u.fate = t.fate /\ u.closed = t.closed
  /\ u.nativeRecent = t.nativeRecent /\ u.fallbackRecent = t.fallbackRecent

\* removePendingLocked leaves a table without the record.
LEMMA RemovedIs ==
  ASSUME NEW t, Table(t), NEW f \in Fallbacks, NEW u, u = RemovePending(t, f)
  PROVE  Removes(t, u, f)
<1>1. t \in TableType
  BY DEF Table
<1> DEFINE P == RemoveFirst(t.pending, f)
           B == [s \in Streams |-> IF t.byStream[s] = f THEN None ELSE t.byStream[s]]
           n == IF f \in ToSet(t.pending) THEN AtLeast0(t.pendingCount - 1) ELSE t.pendingCount
<1>2. /\ t.pending \in Seq(Fallbacks) /\ t.pendingCount \in Nat
      /\ t.byStream \in [Streams -> Fallbacks \cup {None}] /\ t.heap \subseteq Fallbacks
  BY <1>1, TableFields
<1>3. /\ P \in Seq(Fallbacks)
      /\ Len(P) = IF f \in ToSet(t.pending) THEN Len(t.pending) - 1 ELSE Len(t.pending)
      /\ Distinct(P) /\ ToSet(P) = ToSet(t.pending) \ {f}
  BY <1>2, RemoveFirstIs DEF Table
<1>4. u = [t EXCEPT !.heap = t.heap \ {f}, !.pending = P, !.byStream = B, !.pendingCount = n]
  BY <1>1 DEF RemovePending, TableType
<1>5. n \in Nat /\ n = Len(P)
  <2>1. t.pendingCount = Len(t.pending)
    BY DEF Table
  <2>2. Len(P) \in Nat
    BY <1>3
  <2> HIDE DEF P
  <2>3. QED
    BY <1>2, <1>3, <2>1, <2>2 DEF AtLeast0
<1>6. B \in [Streams -> Fallbacks \cup {None}]
  BY <1>2
<1>7. \A s \in Streams : B[s] # None => B[s] = t.byStream[s] /\ B[s] # f
  OBVIOUS
<1> HIDE DEF P, B, n
<1>8. u \in TableType
  <2>1. t.heap \ {f} \in SUBSET Fallbacks
    BY <1>2
  <2>2. [t EXCEPT !.heap = t.heap \ {f}, !.pending = P, !.byStream = B, !.pendingCount = n]
          \in TableType
    BY Zenon, <1>1, <1>3, <1>5, <1>6, <2>1, PendingTyped
  <2>3. QED
    BY Zenon, <1>4, <2>2
<1>9. /\ u.pending = P /\ u.heap = t.heap \ {f} /\ u.byStream = B /\ u.pendingCount = n
      /\ u.cancelled = t.cancelled /\ u.fate = t.fate /\ u.closed = t.closed
      /\ u.nativeRecent = t.nativeRecent /\ u.fallbackRecent = t.fallbackRecent
      /\ u.nativeCount = t.nativeCount /\ u.fallbackCount = t.fallbackCount
  BY <1>1, <1>4 DEF TableType
<1>10. Table(u)
  BY <1>3, <1>5, <1>7, <1>8, <1>9 DEF Table
<1>11. QED
  BY <1>3, <1>9, <1>10 DEF Removes

\* The order of two updates of a table does not matter.
LEMMA UpdatesCommute ==
  ASSUME NEW t \in TableType, NEW C, NEW F, NEW H, NEW P, NEW B, NEW n,
         NEW s, s = [t EXCEPT !.cancelled = C, !.fate = F],
         NEW u, u = [s EXCEPT !.heap = H, !.pending = P, !.byStream = B, !.pendingCount = n],
         NEW v, v = [t EXCEPT !.heap = H, !.pending = P, !.byStream = B, !.pendingCount = n],
         NEW w, w = [v EXCEPT !.cancelled = C, !.fate = F]
  PROVE  u = w
  BY DEF TableType

\* u is t without the pending record f, whose fate is decided.
Leaves(t, u, f) ==
  /\ Shrinks(t, u) /\ Len(u.pending) = Len(t.pending) - 1
  /\ ToSet(u.pending) = ToSet(t.pending) \ {f}
  /\ u.nativeRecent = t.nativeRecent /\ u.fallbackRecent = t.fallbackRecent

\* A pending record that gets its fate leaves the table.
LEMMA CancelledIs ==
  ASSUME NEW t, Table(t), NEW f \in ToSet(t.pending), NEW x \in Fate, x # "open",
         NEW u, u = RemovePending(Cancel(t, f, x), f)
  PROVE  Leaves(t, u, f)
<1>1. t \in TableType
  BY DEF Table
<1>2. f \in Fallbacks
  BY <1>1, TableLists
<1>3. PICK v : v = RemovePending(t, f)
  OBVIOUS
<1>4. /\ Table(v)
      /\ ToSet(v.pending) = ToSet(t.pending) \ {f} /\ v.heap = t.heap \ {f}
      /\ Len(v.pending) = Len(t.pending) - 1
      /\ v.cancelled = t.cancelled /\ v.fate = t.fate /\ v.closed = t.closed
      /\ v.nativeRecent = t.nativeRecent /\ v.fallbackRecent = t.fallbackRecent
  <2>1. Removes(t, v, f)
    BY Zenon, <1>2, <1>3, RemovedIs
  <2>2. QED
    BY <2>1 DEF Removes
<1>5. v \in TableType
  BY <1>4 DEF Table
<1>6. u = Cancel(v, f, x)
  <2>1. PICK s : s = Cancel(t, f, x)
    OBVIOUS
  <2>2. PICK C, F : C = t.cancelled \cup {f} /\ F = [t.fate EXCEPT ![f] = x]
    OBVIOUS
  <2>3. /\ s.pending = t.pending /\ s.heap = t.heap /\ s.byStream = t.byStream
        /\ s.pendingCount = t.pendingCount
        /\ s = [t EXCEPT !.cancelled = C, !.fate = F]
    BY <1>1, <2>1, <2>2 DEF Cancel, TableType
  <2> DEFINE P == RemoveFirst(t.pending, f)
             B == [r \in Streams |-> IF t.byStream[r] = f THEN None ELSE t.byStream[r]]
             n == IF f \in ToSet(t.pending) THEN AtLeast0(t.pendingCount - 1) ELSE t.pendingCount
  <2>4. u = [s EXCEPT !.heap = t.heap \ {f}, !.pending = P, !.byStream = B, !.pendingCount = n]
    BY <1>1, <2>1, <2>3 DEF RemovePending, Cancel, TableType
  <2>5. v = [t EXCEPT !.heap = t.heap \ {f}, !.pending = P, !.byStream = B, !.pendingCount = n]
    BY <1>1, <1>3 DEF RemovePending, TableType
  <2>6. Cancel(v, f, x) = [v EXCEPT !.cancelled = C, !.fate = F]
    BY <1>4, <1>5, <2>2 DEF Cancel, TableType
  <2> HIDE DEF P, B, n
  <2>7. PICK H, w : H = t.heap \ {f} /\ w = Cancel(v, f, x)
    OBVIOUS
  <2>8. /\ u = [s EXCEPT !.heap = H, !.pending = P, !.byStream = B, !.pendingCount = n]
        /\ v = [t EXCEPT !.heap = H, !.pending = P, !.byStream = B, !.pendingCount = n]
        /\ w = [v EXCEPT !.cancelled = C, !.fate = F]
        /\ s = [t EXCEPT !.cancelled = C, !.fate = F]
    BY Zenon, <2>3, <2>4, <2>5, <2>6, <2>7
  <2>9. u = w
    BY <1>1, <2>8, UpdatesCommute
  <2>10. QED
    BY <2>7, <2>9
<1>7. u = [v EXCEPT !.cancelled = v.cancelled \cup {f}, !.fate = [v.fate EXCEPT ![f] = x]]
  BY <1>5, <1>6 DEF Cancel, TableType
<1>8. u \in TableType
  <2>1. v.cancelled \cup {f} \in SUBSET Fallbacks
    BY <1>2, <1>5, TableFields
  <2>2. [v.fate EXCEPT ![f] = x] \in [Fallbacks -> Fate]
    <3>1. v.fate \in [Fallbacks -> Fate]
      BY <1>5, TableFields
    <3>2. QED
      BY <3>1
  <2>3. [v EXCEPT !.cancelled = v.cancelled \cup {f}, !.fate = [v.fate EXCEPT ![f] = x]]
          \in TableType
    BY Zenon, <1>5, <2>1, <2>2, FateTyped
  <2>4. QED
    BY Zenon, <1>7, <2>3
<1>9. /\ u.pending = v.pending /\ u.heap = v.heap /\ u.byStream = v.byStream
      /\ u.pendingCount = v.pendingCount /\ u.closed = v.closed
      /\ u.nativeRecent = v.nativeRecent /\ u.fallbackRecent = v.fallbackRecent
      /\ u.nativeCount = v.nativeCount /\ u.fallbackCount = v.fallbackCount
      /\ u.cancelled = v.cancelled \cup {f} /\ u.fate = [v.fate EXCEPT ![f] = x]
  BY <1>5, <1>7 DEF TableType
<1>10. v.fate \in [Fallbacks -> Fate]
  BY <1>5, TableFields
<1>11. Table(u)
  <2>1. f \notin ToSet(u.pending)
    BY <1>4, <1>9
  <2>2. \A g \in ToSet(u.pending) : g \in Fallbacks /\ u.fate[g] = "open"
    <3>1. \A g \in ToSet(u.pending) : g \in Fallbacks
      BY <1>8, TableLists
    <3>2. QED
      BY <1>4, <1>9, <1>10, <2>1, <3>1 DEF Table
  <2>3. QED
    BY <1>4, <1>8, <1>9, <2>1, <2>2 DEF Table
<1>12. Lost(t, u) = {f}
  BY <1>4, <1>9 DEF Lost
<1>13. u.fate[f] = x /\ \A g \in Fallbacks \ {f} : u.fate[g] = t.fate[g]
  BY <1>2, <1>4, <1>9, <1>10
<1>14. Shrinks(t, u)
  <2>1. Len(t.pending) \in Nat /\ Len(t.nativeRecent) \in Nat /\ Len(t.fallbackRecent) \in Nat
    BY <1>1, TableLists
  <2>2. ToSet(u.pending) \ u.heap \subseteq ToSet(t.pending) \ t.heap
    BY <1>4, <1>9
  <2>3. QED
    BY <1>4, <1>9, <1>11, <1>12, <1>13, <2>1, <2>2 DEF Shrinks
<1>15. QED
  BY <1>4, <1>9, <1>14 DEF Leaves

\* Tables with other recent records have the type.
LEMMA NativesTyped ==
  ASSUME NEW t \in TableType, NEW L \in Seq(Occurrence), NEW n \in Nat, NEW G \in SUBSET Records
  PROVE  [t EXCEPT !.nativeRecent = L, !.nativeCount = n, !.forgotten = G] \in TableType
  BY DEF TableType

\* So with other counted fallback records.
LEMMA FallbacksTyped ==
  ASSUME NEW t \in TableType, NEW L \in Seq(Occurrence), NEW n \in Nat, NEW G \in SUBSET Records
  PROVE  [t EXCEPT !.fallbackRecent = L, !.fallbackCount = n, !.forgotten = G] \in TableType
  BY DEF TableType

\* A table that differs in its recent records only, and has exact counters.
LEMMA RecentShrinks ==
  ASSUME NEW t, Table(t), NEW u \in TableType,
         u.pending = t.pending, u.heap = t.heap, u.byStream = t.byStream,
         u.cancelled = t.cancelled, u.fate = t.fate, u.closed = t.closed,
         u.pendingCount = t.pendingCount,
         u.nativeCount = Len(u.nativeRecent), u.fallbackCount = Len(u.fallbackRecent),
         Len(u.nativeRecent) <= Len(t.nativeRecent),
         Len(u.fallbackRecent) <= Len(t.fallbackRecent)
  PROVE  Shrinks(t, u)
<1>1. t \in TableType
  BY DEF Table
<1>2. Len(t.pending) \in Nat
  BY <1>1, TableLists
<1>3. Table(u)
  BY DEF Table
<1>4. Lost(t, u) = {}
  BY DEF Lost
<1>5. QED
  BY <1>2, <1>3, <1>4 DEF Shrinks

\* The result of a search is no position or one that the test accepts.
LEMMA FoundIs ==
  ASSUME NEW n \in Nat, NEW I \in SUBSET (1..n), NEW k, k = IF I # {} THEN Min(I) ELSE 0
  PROVE  /\ k \in 0..n /\ (k # 0 => k \in I) /\ (I # {} => k # 0)
<1>1. CASE I = {}
  BY <1>1
<1>2. CASE I # {}
  <2>1. k \in I
    BY <1>2, LeastIs
  <2>2. QED
    BY <2>1
<1>3. QED
  BY <1>1, <1>2

\* The head of the heap is a pending record.
LEMMA HeapHeadIs ==
  ASSUME NEW t, Table(t), t.heap # {}
  PROVE  HeapHead(t) \in t.heap /\ HeapHead(t) \in ToSet(t.pending)
<1> DEFINE I == {i \in 1..Len(t.pending) : t.pending[i] \in t.heap}
<1>1. t \in TableType
  BY DEF Table
<1>2. Len(t.pending) \in Nat /\ t.pending \in Seq(Fallbacks)
  BY <1>1, TableLists, TableFields
<1>3. PICK k : k = SelectInSeq(t.pending, LAMBDA f : f \in t.heap)
  OBVIOUS
<1>4. k = IF I # {} THEN Min(I) ELSE 0
  BY <1>3 DEF SelectInSeq
<1>5. I # {}
  <2>1. PICK f \in t.heap : f \in ToSet(t.pending)
    BY DEF Table
  <2>2. PICK i \in DOMAIN t.pending : t.pending[i] = f
    BY <2>1 DEF ToSet
  <2>3. i \in I
    BY <1>2, <2>1, <2>2
  <2>4. QED
    BY <2>3
<1>6. I \in SUBSET (1..Len(t.pending))
  OBVIOUS
<1>7. k \in I
  <2> HIDE DEF I
  <2>1. QED
    BY <1>2, <1>4, <1>5, <1>6, FoundIs
<1>8. HeapHead(t) = t.pending[k]
  BY <1>3 DEF HeapHead
<1>9. t.pending[k] \in t.heap
  BY <1>7
<1>10. QED
  BY <1>8, <1>9 DEF Table

\* The evictions take one entry each.
LEMMA EvictPendingIs ==
  ASSUME NEW t, Table(t), NEW u \in EvictPending(t)
  PROVE  /\ Shrinks(t, u) /\ Len(u.pending) = Len(t.pending) - 1
         /\ u.nativeRecent = t.nativeRecent /\ u.fallbackRecent = t.fallbackRecent
<1>1. \E f \in ToSet(t.pending) : u = RemovePending(Cancel(t, f, "evicted"), f)
  <2>1. CASE t.heap # {}
    BY <2>1, HeapHeadIs DEF EvictPending
  <2>2. CASE t.heap = {}
    <3>1. PICK i \in Heads(t.pending, LAMBDA f : Key[f]) :
            u = RemovePending(Cancel(t, t.pending[i], "evicted"), t.pending[i])
      BY <2>2 DEF EvictPending
    <3>2. t.pending[i] \in ToSet(t.pending)
      BY <3>1 DEF Heads, ToSet
    <3>3. QED
      BY <3>1, <3>2
  <2>3. QED
    BY <2>1, <2>2
<1>2. PICK f \in ToSet(t.pending) : u = RemovePending(Cancel(t, f, "evicted"), f)
  BY <1>1
<1>3. "evicted" \in Fate /\ "evicted" # "open"
  BY DEF Fate
<1>4. f \in ToSet(t.pending) /\ u = RemovePending(Cancel(t, f, "evicted"), f)
  BY <1>2
<1>5. PICK x \in Fate : x = "evicted" /\ x # "open"
  BY <1>3
<1>6. u = RemovePending(Cancel(t, f, x), f)
  BY <1>4, <1>5
<1>7. Leaves(t, u, f)
  BY Zenon, <1>4, <1>5, <1>6, CancelledIs
<1>8. QED
  BY <1>7 DEF Leaves

\* For native records.
LEMMA EvictNativeIs ==
  ASSUME NEW t, Table(t), NEW u \in EvictNative(t)
  PROVE  /\ Shrinks(t, u) /\ Len(u.nativeRecent) = Len(t.nativeRecent) - 1
         /\ u.pending = t.pending /\ u.fallbackRecent = t.fallbackRecent
<1>1. t \in TableType /\ t.nativeCount = Len(t.nativeRecent)
      /\ t.fallbackCount = Len(t.fallbackRecent)
  BY DEF Table
<1>2. /\ t.nativeRecent \in Seq(Occurrence) /\ t.forgotten \in SUBSET Records
      /\ t.nativeCount \in Nat /\ Len(t.fallbackRecent) \in Nat
  BY <1>1, TableFields
<1>3. PICK i \in DOMAIN t.nativeRecent :
        u = [t EXCEPT !.nativeRecent = RemoveAt(@, i), !.nativeCount = AtLeast0(@ - 1),
                      !.forgotten = @ \cup {t.nativeRecent[i].record}]
  BY DEF EvictNative, Heads
<1> DEFINE L == RemoveAt(t.nativeRecent, i)
           n == AtLeast0(t.nativeCount - 1)
           G == t.forgotten \cup {t.nativeRecent[i].record}
<1>4. i \in 1..Len(t.nativeRecent)
  BY <1>2
<1>5. L \in Seq(Occurrence) /\ Len(L) = Len(t.nativeRecent) - 1
  BY <1>2, <1>4, RemoveAtIs
<1>6. n = Len(t.nativeRecent) - 1 /\ n \in Nat
  BY <1>1, <1>2, <1>4 DEF AtLeast0
<1>7. G \in SUBSET Records
  <2>1. t.nativeRecent[i] \in Occurrence
    BY <1>2, <1>4
  <2>2. t.nativeRecent[i].record \in Records
    BY <2>1 DEF Occurrence
  <2>3. QED
    BY <1>2, <2>2
<1>8. u = [t EXCEPT !.nativeRecent = L, !.nativeCount = n, !.forgotten = G]
  BY <1>1, <1>3 DEF TableType
<1> HIDE DEF L, n, G
<1>9. u \in TableType
  <2>1. [t EXCEPT !.nativeRecent = L, !.nativeCount = n, !.forgotten = G] \in TableType
    BY Zenon, <1>1, <1>5, <1>6, <1>7, NativesTyped
  <2>2. QED
    BY Zenon, <1>8, <2>1
<1>10. /\ u.nativeRecent = L /\ u.nativeCount = n /\ u.fallbackRecent = t.fallbackRecent
       /\ u.pending = t.pending /\ u.heap = t.heap /\ u.byStream = t.byStream
       /\ u.cancelled = t.cancelled /\ u.fate = t.fate /\ u.closed = t.closed
       /\ u.pendingCount = t.pendingCount /\ u.fallbackCount = t.fallbackCount
  BY <1>1, <1>8 DEF TableType
<1>11. Len(u.nativeRecent) <= Len(t.nativeRecent) /\ Len(u.fallbackRecent) <= Len(t.fallbackRecent)
  BY <1>2, <1>5, <1>6, <1>10
<1>12. Shrinks(t, u)
  BY <1>1, <1>5, <1>6, <1>9, <1>10, <1>11, RecentShrinks
<1>13. QED
  BY <1>5, <1>10, <1>12

\* For counted fallback records.
LEMMA EvictFallbackIs ==
  ASSUME NEW t, Table(t), NEW u \in EvictFallback(t)
  PROVE  /\ Shrinks(t, u) /\ Len(u.fallbackRecent) = Len(t.fallbackRecent) - 1
         /\ u.pending = t.pending /\ u.nativeRecent = t.nativeRecent
<1>1. t \in TableType /\ t.nativeCount = Len(t.nativeRecent)
      /\ t.fallbackCount = Len(t.fallbackRecent)
  BY DEF Table
<1>2. /\ t.fallbackRecent \in Seq(Occurrence) /\ t.forgotten \in SUBSET Records
      /\ t.fallbackCount \in Nat /\ Len(t.nativeRecent) \in Nat
  BY <1>1, TableFields
<1>3. PICK i \in DOMAIN t.fallbackRecent :
        u = [t EXCEPT !.fallbackRecent = RemoveAt(@, i), !.fallbackCount = AtLeast0(@ - 1),
                      !.forgotten = @ \cup {t.fallbackRecent[i].record}]
  BY DEF EvictFallback, Heads
<1> DEFINE L == RemoveAt(t.fallbackRecent, i)
           n == AtLeast0(t.fallbackCount - 1)
           G == t.forgotten \cup {t.fallbackRecent[i].record}
<1>4. i \in 1..Len(t.fallbackRecent)
  BY <1>2
<1>5. L \in Seq(Occurrence) /\ Len(L) = Len(t.fallbackRecent) - 1
  BY <1>2, <1>4, RemoveAtIs
<1>6. n = Len(t.fallbackRecent) - 1 /\ n \in Nat
  BY <1>1, <1>2, <1>4 DEF AtLeast0
<1>7. G \in SUBSET Records
  <2>1. t.fallbackRecent[i] \in Occurrence
    BY <1>2, <1>4
  <2>2. t.fallbackRecent[i].record \in Records
    BY <2>1 DEF Occurrence
  <2>3. QED
    BY <1>2, <2>2
<1>8. u = [t EXCEPT !.fallbackRecent = L, !.fallbackCount = n, !.forgotten = G]
  BY <1>1, <1>3 DEF TableType
<1> HIDE DEF L, n, G
<1>9. u \in TableType
  <2>1. [t EXCEPT !.fallbackRecent = L, !.fallbackCount = n, !.forgotten = G] \in TableType
    BY Zenon, <1>1, <1>5, <1>6, <1>7, FallbacksTyped
  <2>2. QED
    BY Zenon, <1>8, <2>1
<1>10. /\ u.fallbackRecent = L /\ u.fallbackCount = n /\ u.nativeRecent = t.nativeRecent
       /\ u.pending = t.pending /\ u.heap = t.heap /\ u.byStream = t.byStream
       /\ u.cancelled = t.cancelled /\ u.fate = t.fate /\ u.closed = t.closed
       /\ u.pendingCount = t.pendingCount /\ u.nativeCount = t.nativeCount
  BY <1>1, <1>8 DEF TableType
<1>11. Len(u.nativeRecent) <= Len(t.nativeRecent) /\ Len(u.fallbackRecent) <= Len(t.fallbackRecent)
  BY <1>2, <1>5, <1>6, <1>10
<1>12. Shrinks(t, u)
  BY <1>1, <1>5, <1>6, <1>9, <1>10, <1>11, RecentShrinks
<1>13. QED
  BY <1>5, <1>10, <1>12

\* The numbers that the limits are about.
Load(t) == Len(t.pending) + Len(t.nativeRecent) + Len(t.fallbackRecent)

\* After makeRoom one more record fits.
LEMMA MakeRoomIs ==
  ASSUME NEW t, Table(t), Load(t) <= MaxRetained, NEW u \in MakeRoom(t)
  PROVE  Shrinks(t, u) /\ Load(u) + 1 <= MaxRetained
<1>1. t \in TableType
  BY DEF Table
<1>2. Len(t.pending) \in Nat /\ Len(t.nativeRecent) \in Nat /\ Len(t.fallbackRecent) \in Nat
  BY <1>1, TableLists
<1>3. /\ t.pendingCount = Len(t.pending) /\ t.nativeCount = Len(t.nativeRecent)
      /\ t.fallbackCount = Len(t.fallbackRecent)
  BY DEF Table
<1>4. MaxRetained \in Nat \ {0}
  BY FallbackAssumption
<1>5. Retained(t) = Load(t)
  BY <1>3 DEF Retained, Load
<1>6. Load(t) \in Nat
  <2>1. \A i, j, k \in Nat : i + j + k \in Nat
    OBVIOUS
  <2>2. QED
    BY Zenon, <1>2, <2>1 DEF Load
<1>7. CASE Fits(t)
  <2>1. u = t
    BY <1>7 DEF MakeRoom
  <2>2. QED
    BY <1>5, <1>7, <2>1, ShrinksRefl DEF Fits
<1>8. CASE ~Fits(t) /\ t.pendingCount > 0
  <2>1. u \in EvictPending(t)
    BY <1>8 DEF MakeRoom
  <2>2. /\ Shrinks(t, u) /\ Len(u.pending) = Len(t.pending) - 1
        /\ u.nativeRecent = t.nativeRecent /\ u.fallbackRecent = t.fallbackRecent
    BY <2>1, EvictPendingIs
  <2>3. Load(u) = Load(t) - 1
    BY <1>2, <2>2 DEF Load
  <2>4. QED
    BY <1>4, <1>6, <2>2, <2>3
<1>9. CASE ~Fits(t) /\ ~(t.pendingCount > 0) /\ t.nativeCount > 0
  <2>1. u \in EvictNative(t)
    BY <1>9 DEF MakeRoom
  <2>2. /\ Shrinks(t, u) /\ Len(u.nativeRecent) = Len(t.nativeRecent) - 1
        /\ u.pending = t.pending /\ u.fallbackRecent = t.fallbackRecent
    BY <2>1, EvictNativeIs
  <2>3. Load(u) = Load(t) - 1
    BY <1>2, <2>2 DEF Load
  <2>4. QED
    BY <1>4, <1>6, <2>2, <2>3
<1>10. CASE ~Fits(t) /\ ~(t.pendingCount > 0) /\ ~(t.nativeCount > 0) /\ t.fallbackCount > 0
  <2>1. u \in EvictFallback(t)
    BY <1>10 DEF MakeRoom
  <2>2. /\ Shrinks(t, u) /\ Len(u.fallbackRecent) = Len(t.fallbackRecent) - 1
        /\ u.pending = t.pending /\ u.nativeRecent = t.nativeRecent
    BY <2>1, EvictFallbackIs
  <2>3. Load(u) = Load(t) - 1
    BY <1>2, <2>2 DEF Load
  <2>4. QED
    BY <1>4, <1>6, <2>2, <2>3
<1>11. Fits(t) \/ t.pendingCount > 0 \/ t.nativeCount > 0 \/ t.fallbackCount > 0
  <2>1. \A m \in Nat \ {0} : \A i, j, k \in Nat : i + j + k + 1 <= m \/ i > 0 \/ j > 0 \/ k > 0
    OBVIOUS
  <2>2. QED
    BY Zenon, <1>2, <1>3, <1>4, <1>5, <2>1 DEF Load, Fits
<1>12. QED
  BY <1>7, <1>8, <1>9, <1>10, <1>11

-----------------------------------------------------------------------------
(***************************************************************************)
(* Cleanups and superseded records.                                        *)
(***************************************************************************)
\* Tables after a cleanup have the type.
LEMMA CleanTyped ==
  ASSUME NEW t \in TableType, NEW m \in -CleanupInterval..MaxTime,
         NEW L \in Seq(Occurrence), NEW n \in Nat, NEW M \in Seq(Occurrence), NEW k \in Nat
  PROVE  [t EXCEPT !.lastCleanup = m, !.nativeRecent = L, !.nativeCount = n,
                   !.fallbackRecent = M, !.fallbackCount = k] \in TableType
  BY DEF TableType

\* cleanupLocked forgets recent records and leaves the pending ones.
LEMMA CleanedIs ==
  ASSUME NEW t, Table(t), now \in 0..MaxTime, NEW u, u = Cleaned(t)
  PROVE  Shrinks(t, u)
<1>1. t \in TableType
  BY DEF Table
<1>2. CASE now - t.lastCleanup < CleanupInterval
  BY <1>2, ShrinksRefl DEF Cleaned
<1>3. CASE ~(now - t.lastCleanup < CleanupInterval)
  <2> DEFINE L == Unexpired(t.nativeRecent, NativeWindow)
             M == Unexpired(t.fallbackRecent, LateWindow)
             P == Keep(t.pending, Fallbacks \ t.cancelled)
             n == AtLeast0(t.nativeCount - (Len(t.nativeRecent) - Len(L)))
             k == AtLeast0(t.fallbackCount - (Len(t.fallbackRecent) - Len(M)))
             l == AtLeast0(t.pendingCount - (Len(t.pending) - Len(P)))
             H == t.heap \cap ToSet(P)
  <2>1. /\ t.pending \in Seq(Fallbacks) /\ t.heap \in SUBSET Fallbacks
        /\ t.nativeRecent \in Seq(Occurrence) /\ t.fallbackRecent \in Seq(Occurrence)
    BY <1>1, TableFields
  <2>2. L \in Seq(Occurrence) /\ Len(L) <= Len(t.nativeRecent)
    BY <2>1, KeepIs DEF Unexpired
  <2>3. M \in Seq(Occurrence) /\ Len(M) <= Len(t.fallbackRecent)
    BY <2>1, KeepIs DEF Unexpired
  <2>4. /\ P \in Seq(Fallbacks) /\ Len(P) <= Len(t.pending)
        /\ ToSet(P) = ToSet(t.pending) \cap (Fallbacks \ t.cancelled)
        /\ Distinct(P)
    BY <2>1, KeepIs DEF Table
  <2>5. ToSet(P) = ToSet(t.pending)
    <3>1. ToSet(t.pending) \subseteq Fallbacks
      BY <1>1, TableLists
    <3>2. QED
      BY <2>4, <3>1 DEF Table
  <2>6. u = [t EXCEPT !.lastCleanup = now, !.nativeRecent = L, !.nativeCount = n,
                      !.fallbackRecent = M, !.fallbackCount = k,
                      !.pending = P, !.heap = H, !.pendingCount = l]
    BY <1>1, <1>3 DEF Cleaned, TableType
  <2>7. n = Len(L) /\ k = Len(M) /\ l = Len(P)
    <3> HIDE DEF L, M, P
    <3>1. /\ Len(L) \in Nat /\ Len(M) \in Nat /\ Len(P) \in Nat
          /\ Len(t.nativeRecent) \in Nat /\ Len(t.fallbackRecent) \in Nat /\ Len(t.pending) \in Nat
      BY <2>1, <2>2, <2>3, <2>4
    <3>2. /\ t.pendingCount = Len(t.pending) /\ t.nativeCount = Len(t.nativeRecent)
          /\ t.fallbackCount = Len(t.fallbackRecent)
      BY DEF Table
    <3>3. \A i, j \in Nat : AtLeast0(i - (i - j)) = j
      BY DEF AtLeast0
    <3>4. QED
      BY <3>1, <3>2, <3>3
  <2>8. now \in -CleanupInterval..MaxTime
    BY FallbackAssumption
  <2>9. H \in SUBSET Fallbacks /\ n \in Nat /\ k \in Nat /\ l \in Nat
    <3>1. H \in SUBSET Fallbacks
      BY <2>1
    <3> HIDE DEF L, M, P, H, n, k, l
    <3>2. Len(L) \in Nat /\ Len(M) \in Nat /\ Len(P) \in Nat
      BY <2>2, <2>3, <2>4
    <3>3. QED
      BY <2>7, <3>1, <3>2
  <2>10. H = t.heap
    BY <2>5 DEF Table
  <2> HIDE DEF L, M, P, n, k, l, H
  <2>11. u \in TableType
    <3>1. PICK v, B : /\ B = t.byStream
                      /\ v = [t EXCEPT !.lastCleanup = now, !.nativeRecent = L, !.nativeCount = n,
                                      !.fallbackRecent = M, !.fallbackCount = k]
      OBVIOUS
    <3>2. v \in TableType
      <4>1. [t EXCEPT !.lastCleanup = now, !.nativeRecent = L, !.nativeCount = n,
                      !.fallbackRecent = M, !.fallbackCount = k] \in TableType
        BY Zenon, <1>1, <2>2, <2>3, <2>8, <2>9, CleanTyped
      <4>2. QED
        BY Zenon, <3>1, <4>1
    <3>3. u = [v EXCEPT !.heap = H, !.pending = P, !.byStream = B, !.pendingCount = l]
      BY <1>1, <2>6, <3>1 DEF TableType
    <3>4. B \in [Streams -> Fallbacks \cup {None}]
      BY <1>1, <3>1, TableFields
    <3>5. [v EXCEPT !.heap = H, !.pending = P, !.byStream = B, !.pendingCount = l] \in TableType
      BY Zenon, <2>4, <2>9, <3>2, <3>4, PendingTyped
    <3>6. QED
      BY Zenon, <3>3, <3>5
  <2>12. /\ u.pending = P /\ u.heap = H /\ u.nativeRecent = L /\ u.fallbackRecent = M
         /\ u.nativeCount = n /\ u.fallbackCount = k /\ u.pendingCount = l
         /\ u.byStream = t.byStream /\ u.cancelled = t.cancelled /\ u.fate = t.fate
         /\ u.closed = t.closed
    BY <1>1, <2>6 DEF TableType
  <2>13. Table(u)
    BY <2>4, <2>5, <2>7, <2>11, <2>12, <2>10 DEF Table
  <2>14. Lost(t, u) = {}
    BY <2>5, <2>12 DEF Lost
  <2>15. QED
    BY <2>2, <2>3, <2>4, <2>5, <2>12, <2>10, <2>13, <2>14 DEF Shrinks
<1>4. QED
  BY <1>2, <1>3

\* The stream's earlier record leaves the table.
LEMMA WithoutPreviousIs ==
  ASSUME NEW t, Table(t), NEW f \in Fallbacks, NEW u, u = WithoutPrevious(t, f)
  PROVE  Shrinks(t, u)
<1> DEFINE g == IF Stream[f] = None THEN None ELSE t.byStream[Stream[f]]
<1>1. CASE g = None \/ g \in t.cancelled
  BY <1>1, ShrinksRefl DEF WithoutPrevious
<1>2. CASE g # None /\ g \notin t.cancelled
  <2>1. Stream[f] \in Streams /\ g = t.byStream[Stream[f]]
    BY <1>2 DEF Streams
  <2>2. g \in ToSet(t.pending)
    BY <1>2, <2>1 DEF Table
  <2>3. u = RemovePending(Cancel(t, g, "superseded"), g)
    BY <1>2 DEF WithoutPrevious
  <2> HIDE DEF g
  <2>4. PICK x \in Fate : x = "superseded" /\ x # "open"
    BY DEF Fate
  <2>5. u = RemovePending(Cancel(t, g, x), g)
    BY <2>3, <2>4
  <2>6. Leaves(t, u, g)
    BY Zenon, <2>2, <2>4, <2>5, CancelledIs
  <2>7. QED
    BY <2>6 DEF Leaves
<1>3. QED
  BY <1>1, <1>2

\* So does the first pending record of a key that a record of a stream replaces.
LEMMA SupersededIs ==
  ASSUME NEW t, Table(t), NEW k, NEW by, NEW u, u = Superseded(t, k, by)
  PROVE  Shrinks(t, u)
<1> DEFINE I == {i \in 1..Len(t.pending) :
                   /\ Key[t.pending[i]] = k /\ t.pending[i] \notin t.cancelled
                   /\ \/ Stream[t.pending[i]] = None
                      \/ Stream[by] = None
                      \/ Stream[t.pending[i]] = Stream[by]}
           j == IF I # {} THEN Min(I) ELSE 0
<1>1. t \in TableType
  BY DEF Table
<1>2. Len(t.pending) \in Nat /\ t.pending \in Seq(Fallbacks)
  BY <1>1, TableLists, TableFields
<1>3. u = IF j = 0 THEN t
          ELSE RemovePending(Cancel(t, t.pending[j], "superseded"), t.pending[j])
  BY DEF Superseded, SelectInSeq
<1>4. I \in SUBSET (1..Len(t.pending))
  OBVIOUS
<1>5. j # 0 => j \in 1..Len(t.pending)
  <2> HIDE DEF I
  <2>1. QED
    BY <1>2, <1>4, FoundIs
<1> HIDE DEF I, j
<1>6. CASE j = 0
  BY <1>3, <1>6, ShrinksRefl
<1>7. CASE j # 0
  <2>1. PICK f : f = t.pending[j]
    OBVIOUS
  <2>2. f \in ToSet(t.pending)
    BY <1>2, <1>5, <1>7, <2>1 DEF ToSet
  <2>3. PICK x \in Fate : x = "superseded" /\ x # "open"
    BY DEF Fate
  <2>4. u = RemovePending(Cancel(t, f, x), f)
    BY <1>3, <1>7, <2>1, <2>3
  <2>5. Leaves(t, u, f)
    BY Zenon, <2>2, <2>3, <2>4, CancelledIs
  <2>6. QED
    BY <2>5 DEF Leaves
<1>8. QED
  BY <1>6, <1>7

\* The loop of Supersede over a set of keys, as a function of the keys done.
IsSuperseding(G, t, by, D) ==
  G = [T \in SUBSET D |->
         IF T = {} THEN t
         ELSE LET x == CHOOSE x \in T : TRUE IN Superseded(G[T \ {x}], x, by)]

\* The loop has a table after every key.
LEMMA SupersedingExists ==
  ASSUME NEW D, IsFiniteSet(D), NEW t, NEW by
  PROVE  \E G : IsSuperseding(G, t, by, D)
<1> DEFINE Small(n) == {T \in SUBSET D : Cardinality(T) <= n}
           Rec(G, T) == IF T = {} THEN t
                        ELSE LET x == CHOOSE x \in T : TRUE IN Superseded(G[T \ {x}], x, by)
           Has(n) == \E G : G = [T \in Small(n) |-> Rec(G, T)]
           N == {n \in Nat : Has(n)}
<1>1. \A T \in SUBSET D : Cardinality(T) \in Nat /\ IsFiniteSet(T)
  BY FS_Subset, FS_CardinalityType
<1>2. 0 \in N
  <2> DEFINE G == [T \in Small(0) |-> t]
  <2>1. \A T \in Small(0) : T = {}
    BY <1>1, FS_EmptySet
  <2>2. G = [T \in Small(0) |-> Rec(G, T)]
    BY <2>1
  <2>3. Has(0)
    BY <2>2
  <2> HIDE DEF Has
  <2>4. QED
    BY <2>3
<1>3. ASSUME NEW n \in Nat, n \in N PROVE n + 1 \in N
  <2>1. PICK G : G = [T \in Small(n) |-> Rec(G, T)]
    BY <1>3
  <2> DEFINE H == [T \in Small(n + 1) |-> Rec(G, T)]
  <2>2. ASSUME NEW T \in Small(n) PROVE T \in Small(n + 1) /\ H[T] = G[T]
    <3>1. T \in Small(n + 1)
      BY <1>1
    <3>2. G[T] = Rec(G, T)
      BY <2>1
    <3>3. QED
      BY <3>1, <3>2
  <2>3. ASSUME NEW T \in Small(n + 1), T # {}, NEW x \in T PROVE T \ {x} \in Small(n)
    <3>1. Cardinality(T \ {x}) = Cardinality(T) - 1
      BY <1>1, FS_RemoveElement
    <3>2. QED
      BY <1>1, <3>1
  <2>4. ASSUME NEW T \in Small(n + 1) PROVE H[T] = Rec(H, T)
    <3>1. CASE T = {}
      BY <3>1
    <3>2. CASE T # {}
      <4> DEFINE x == CHOOSE x \in T : TRUE
      <4>1. x \in T
        BY <3>2
      <4>2. T \ {x} \in Small(n)
        BY <2>3, <3>2, <4>1
      <4>3. H[T \ {x}] = G[T \ {x}]
        BY <2>2, <4>2
      <4>4. H[T] = Superseded(G[T \ {x}], x, by) /\ Rec(H, T) = Superseded(H[T \ {x}], x, by)
        BY <3>2
      <4> HIDE DEF H, x, Rec
      <4>5. QED
        BY <4>3, <4>4
    <3>3. QED
      BY <3>1, <3>2
  <2>5. H = [T \in Small(n + 1) |-> Rec(H, T)]
    <3>1. H = [T \in Small(n + 1) |-> H[T]]
      OBVIOUS
    <3> HIDE DEF H, Small, Rec
    <3>2. QED
      BY <2>4, <3>1
  <2>6. Has(n + 1)
    <3> HIDE DEF H, Small, Rec
    <3>1. QED
      BY <2>5
  <2> HIDE DEF Has
  <2>7. QED
    BY <2>6
<1>4. Cardinality(D) \in N
  <2>1. Nat \subseteq N
    <3> HIDE DEF N
    <3>1. QED
      BY <1>2, <1>3, NatSetInduction
  <2>2. QED
    BY <2>1, FS_CardinalityType
<1>5. Small(Cardinality(D)) = SUBSET D
  BY FS_Subset
<1>6. QED
  BY <1>4, <1>5 DEF IsSuperseding

\* What one key does, all of them do, by induction on the keys done.
LEMMA SupersedingKeeps ==
  ASSUME NEW t, Table(t), NEW by, NEW D, IsFiniteSet(D), NEW G, IsSuperseding(G, t, by, D)
  PROVE  Shrinks(t, G[D])
<1>1. \A T \in SUBSET D : G[T] = IF T = {} THEN t
        ELSE LET x == CHOOSE x \in T : TRUE IN Superseded(G[T \ {x}], x, by)
  BY DEF IsSuperseding
<1> DEFINE Good(T) == Shrinks(t, G[T])
           All(n) == \A T \in SUBSET D : Cardinality(T) = n => Good(T)
           N == {n \in Nat : All(n)}
<1>2. \A T \in SUBSET D : IsFiniteSet(T) /\ Cardinality(T) \in Nat
  BY FS_Subset, FS_CardinalityType
<1>3. 0 \in N
  <2>1. ASSUME NEW T \in SUBSET D, Cardinality(T) = 0 PROVE Good(T)
    <3>1. T = {}
      BY <1>2, <2>1, FS_EmptySet
    <3>2. G[T] = t
      BY <1>1, <3>1
    <3>3. QED
      BY <3>2, ShrinksRefl
  <2>2. All(0)
    <3> HIDE DEF Good
    <3>1. QED
      BY <2>1
  <2> HIDE DEF All
  <2>3. QED
    BY <2>2
<1>4. ASSUME NEW n \in Nat, n \in N PROVE n + 1 \in N
  <2>1. ASSUME NEW T \in SUBSET D, Cardinality(T) = n + 1 PROVE Good(T)
    <3>1. T # {}
      <4>1. Cardinality({}) = 0
        BY FS_EmptySet
      <4>2. QED
        BY <2>1, <4>1
    <3>2. PICK x \in T : G[T] = Superseded(G[T \ {x}], x, by)
      BY <1>1, <3>1
    <3>3. Cardinality(T \ {x}) = Cardinality(T) - 1
      BY <1>2, FS_RemoveElement
    <3>4. T \ {x} \in SUBSET D /\ Cardinality(T \ {x}) = n
      <4>1. T \ {x} \in SUBSET D
        OBVIOUS
      <4>2. QED
        BY <2>1, <3>3, <4>1
    <3>5. Good(T \ {x})
      <4> HIDE DEF Good
      <4>1. QED
        BY <1>4, <3>4
    <3>6. PICK v, w : v = G[T \ {x}] /\ w = G[T]
      OBVIOUS
    <3>7. Shrinks(t, v) /\ w = Superseded(v, x, by)
      BY <3>2, <3>5, <3>6
    <3>8. Shrinks(v, w)
      <4>1. Table(v)
        BY <3>7 DEF Shrinks
      <4>2. QED
        BY <3>7, <4>1, SupersededIs
    <3>9. QED
      BY <3>6, <3>7, <3>8, ShrinksTrans
  <2>2. All(n + 1)
    <3> HIDE DEF Good
    <3>1. QED
      BY <2>1
  <2> HIDE DEF All
  <2>3. QED
    BY <2>2
<1>5. Nat \subseteq N
  <2> HIDE DEF N
  <2>1. QED
    BY <1>3, <1>4, NatSetInduction
<1>6. Good(D)
  <2>1. Cardinality(D) \in N
    BY <1>2, <1>5
  <2> HIDE DEF Good
  <2>2. QED
    BY <2>1
<1>7. QED
  BY <1>6

\* Supersede loses pending records whose fate it decides.
LEMMA SupersedingIs ==
  ASSUME NEW t, Table(t), NEW by, NEW D, IsFiniteSet(D),
         NEW u, u = SupersededKeys(t, D, by)
  PROVE  Shrinks(t, u)
<1> DEFINE G == CHOOSE G : IsSuperseding(G, t, by, D)
<1>1. IsSuperseding(G, t, by, D)
  BY SupersedingExists
<1>2. u = G[D]
  BY DEF SupersededKeys, FoldSet, MapThenFoldSet, IsSuperseding
<1>3. Shrinks(t, G[D])
  BY Zenon, <1>1, SupersedingKeeps
<1>4. QED
  BY Zenon, <1>2, <1>3

-----------------------------------------------------------------------------
(***************************************************************************)
(* The fates of the records.                                               *)
(***************************************************************************)
\* What an operation that decides fates does to them, whatever else it does.
Decides(t, u) ==
  /\ Table(t) /\ Table(u)
  /\ ToSet(u.pending) \subseteq ToSet(t.pending)
  /\ t.cancelled \subseteq u.cancelled
  /\ u.cancelled \subseteq t.cancelled \cup Lost(t, u)
  /\ Lost(t, u) \subseteq u.cancelled
  /\ \A f \in Lost(t, u) : u.fate[f] # "open"
  /\ \A f \in Fallbacks \ Lost(t, u) : u.fate[f] = t.fate[f]

\* Every operation that shrinks a table is one.
LEMMA ShrinksDecides ==
  ASSUME NEW t, Table(t), NEW u, Shrinks(t, u)
  PROVE  Decides(t, u)
  BY DEF Shrinks, Decides

\* The limits hold of shorter lists ...
LEMMA LimitsLess ==
  ASSUME NEW t \in TableType, InLimits(t), NEW u \in TableType,
         Len(u.pending) <= Len(t.pending),
         Len(u.nativeRecent) <= Len(t.nativeRecent),
         Len(u.fallbackRecent) <= Len(t.fallbackRecent)
  PROVE  InLimits(u)
<1>1. /\ Len(t.pending) \in Nat /\ Len(t.nativeRecent) \in Nat /\ Len(t.fallbackRecent) \in Nat
      /\ Len(u.pending) \in Nat /\ Len(u.nativeRecent) \in Nat /\ Len(u.fallbackRecent) \in Nat
  BY TableLists
<1>2. MaxPending \in Nat /\ MaxRecent \in Nat /\ MaxRetained \in Nat
  BY FallbackAssumption
<1>3. /\ Len(t.pending) <= MaxPending /\ Len(t.nativeRecent) <= MaxRecent
      /\ Len(t.fallbackRecent) <= MaxRecent
      /\ Len(t.pending) + Len(t.nativeRecent) + Len(t.fallbackRecent) <= MaxRetained
  BY DEF InLimits
<1> DEFINE i == Len(t.pending)
           j == Len(t.nativeRecent)
           k == Len(t.fallbackRecent)
           x == Len(u.pending)
           y == Len(u.nativeRecent)
           z == Len(u.fallbackRecent)
<1>4. i \in Nat /\ j \in Nat /\ k \in Nat /\ x \in Nat /\ y \in Nat /\ z \in Nat
  BY <1>1
<1>5. x <= i /\ y <= j /\ z <= k
  OBVIOUS
<1>6. i <= MaxPending /\ j <= MaxRecent /\ k <= MaxRecent /\ i + j + k <= MaxRetained
  BY <1>3
<1>7. x <= MaxPending /\ y <= MaxRecent /\ z <= MaxRecent /\ x + y + z <= MaxRetained
  <2> HIDE DEF i, j, k, x, y, z
  <2>1. QED
    BY <1>2, <1>4, <1>5, <1>6
<1>8. QED
  BY <1>7 DEF InLimits

\* ... and of what an operation leaves.
LEMMA LimitsShrink ==
  ASSUME NEW t, Table(t), InLimits(t), NEW u, Shrinks(t, u)
  PROVE  InLimits(u)
<1>1. t \in TableType /\ u \in TableType
  BY DEF Table, Shrinks
<1>2. /\ Len(u.pending) <= Len(t.pending)
      /\ Len(u.nativeRecent) <= Len(t.nativeRecent)
      /\ Len(u.fallbackRecent) <= Len(t.fallbackRecent)
  BY DEF Shrinks
<1>3. QED
  BY Zenon, <1>1, <1>2, LimitsLess

\* One fate each, before and after an operation that decides fates.
LEMMA FatesDecided ==
  ASSUME NEW t, NEW u, Decides(t, u), NEW S, NEW F, NEW R, NEW D, Fates(t, S, F, R, D),
         NEW P, ToSet(P.due) \subseteq ToSet(S.due) \cup ToSet(t.pending),
         \A f \in Fallbacks : Held(P, f) <=> Held(S, f),
         NEW G, G.taken = F.taken,
         NEW Q, \A f \in Fallbacks : Q[f] = R[f],
         NEW E, \A f \in Fallbacks : E[f] = "done" <=> D[f] = "done"
  PROVE  Fates(u, P, G, Q, E)
<1>1. ToSet(t.pending) \subseteq ToSet(u.pending) \cup u.cancelled
  BY DEF Decides, Lost
<1>2. ToSet(P.due) \subseteq ToSet(u.pending) \cup u.cancelled
  BY <1>1 DEF Fates, Decides
<1>3. Distinct(G.taken)
  BY DEF Fates
<1>4. ASSUME NEW f \in Fallbacks
      PROVE  /\ E[f] = "done" <=> \/ f \in ToSet(u.pending) \/ f \in ToSet(G.taken)
                                  \/ Held(P, f) \/ Q[f] # 0 \/ u.fate[f] # "open"
             /\ f \in ToSet(u.pending) => f \notin ToSet(G.taken) /\ ~Held(P, f) /\ Q[f] = 0
             /\ f \in ToSet(G.taken) => ~Held(P, f) /\ Q[f] = 0 /\ u.fate[f] = "open"
             /\ Held(P, f) => Q[f] = 0 /\ u.fate[f] = "open"
             /\ Q[f] <= 1 /\ (Q[f] = 1 => u.fate[f] = "open")
             /\ f \in u.cancelled => E[f] = "done"
  <2>1. /\ D[f] = "done" <=> \/ f \in ToSet(t.pending) \/ f \in ToSet(F.taken) \/ Held(S, f)
                             \/ R[f] # 0 \/ t.fate[f] # "open"
        /\ f \in ToSet(t.pending) => f \notin ToSet(F.taken) /\ ~Held(S, f) /\ R[f] = 0
        /\ f \in ToSet(F.taken) => ~Held(S, f) /\ R[f] = 0 /\ t.fate[f] = "open"
        /\ Held(S, f) => R[f] = 0 /\ t.fate[f] = "open"
        /\ R[f] <= 1 /\ (R[f] = 1 => t.fate[f] = "open")
        /\ f \in t.cancelled => D[f] = "done"
    BY DEF Fates
  <2>2. /\ Q[f] = R[f] /\ (Held(P, f) <=> Held(S, f)) /\ (E[f] = "done" <=> D[f] = "done")
        /\ G.taken = F.taken
    OBVIOUS
  <2>3. CASE f \in Lost(t, u)
    <3>1. f \in ToSet(t.pending) /\ f \notin ToSet(u.pending) /\ u.fate[f] # "open"
      BY <2>3 DEF Decides, Lost
    <3>2. R[f] = 0 /\ f \notin ToSet(F.taken) /\ ~Held(S, f)
      BY <2>1, <3>1
    <3>3. QED
      BY <2>1, <2>2, <3>1, <3>2
  <2>4. CASE f \notin Lost(t, u)
    <3>1. u.fate[f] = t.fate[f] /\ (f \in ToSet(u.pending) <=> f \in ToSet(t.pending))
      BY <2>4 DEF Decides, Lost
    <3>2. f \in u.cancelled => f \in t.cancelled
      BY <2>4 DEF Decides
    <3>3. QED
      BY <2>1, <2>2, <3>1, <3>2
  <2>5. QED
    BY <2>3, <2>4
<1>5. QED
  BY <1>2, <1>3, <1>4 DEF Fates

\* A record that arrives has no fate yet, is in no table and nobody's.
LEMMA ArrivingIs ==
  ASSUME NEW t, NEW S, NEW F, NEW R, NEW D, Fates(t, S, F, R, D),
         NEW f \in Fallbacks, D[f] # "done"
  PROVE  /\ f \notin ToSet(t.pending) /\ f \notin ToSet(F.taken) /\ ~Held(S, f)
         /\ R[f] = 0 /\ t.fate[f] = "open" /\ f \notin t.cancelled
  BY DEF Fates

\* u is t with a fate for f, which is not pending.
GivesFate(t, u, f) ==
  /\ u.pending = t.pending /\ u.cancelled = t.cancelled /\ u.closed = t.closed
  /\ u.fate[f] # "open" /\ \A g \in Fallbacks \ {f} : u.fate[g] = t.fate[g]

\* u is t with f waiting.
AddsWaiting(t, u, f) ==
  /\ ToSet(u.pending) = ToSet(t.pending) \cup {f} /\ u.cancelled = t.cancelled
  /\ u.fate = t.fate /\ u.closed = t.closed

\* It is given a fate at once ...
LEMMA FatesGiven ==
  ASSUME NEW t, NEW S, NEW F, NEW R, NEW D \in [Records -> {"none", "schedule", "record", "done"}],
         Fates(t, S, F, R, D), NEW f \in Fallbacks, D[f] # "done",
         NEW u, GivesFate(t, u, f), NEW E, E = [D EXCEPT ![f] = "done"]
  PROVE  Fates(u, S, F, R, E)
<1>1. /\ f \notin ToSet(t.pending) /\ f \notin ToSet(F.taken) /\ ~Held(S, f)
      /\ R[f] = 0 /\ t.fate[f] = "open" /\ f \notin t.cancelled
  BY ArrivingIs
<1>2. f \in Records
  BY DEF Records
<1>3. /\ u.pending = t.pending /\ u.cancelled = t.cancelled
      /\ u.fate[f] # "open" /\ \A g \in Fallbacks \ {f} : u.fate[g] = t.fate[g]
  BY DEF GivesFate
<1>4. E[f] = "done" /\ \A g \in Fallbacks \ {f} : E[g] = D[g]
  BY <1>2 DEF Records
<1>5. ASSUME NEW g \in Fallbacks
      PROVE  /\ E[g] = "done" <=> \/ g \in ToSet(u.pending) \/ g \in ToSet(F.taken)
                                  \/ Held(S, g) \/ R[g] # 0 \/ u.fate[g] # "open"
             /\ g \in ToSet(u.pending) => g \notin ToSet(F.taken) /\ ~Held(S, g) /\ R[g] = 0
             /\ g \in ToSet(F.taken) => ~Held(S, g) /\ R[g] = 0 /\ u.fate[g] = "open"
             /\ Held(S, g) => R[g] = 0 /\ u.fate[g] = "open"
             /\ R[g] <= 1 /\ (R[g] = 1 => u.fate[g] = "open")
             /\ g \in u.cancelled => E[g] = "done"
  <2>1. CASE g = f
    BY <1>1, <1>3, <1>4, <2>1
  <2>2. CASE g # f
    <3>1. u.fate[g] = t.fate[g] /\ E[g] = D[g]
      BY <1>3, <1>4, <2>2
    <3>2. QED
      BY <1>3, <3>1 DEF Fates
  <2>3. QED
    BY <2>1, <2>2
<1>6. Distinct(F.taken) /\ ToSet(S.due) \subseteq ToSet(u.pending) \cup u.cancelled
  BY <1>3 DEF Fates
<1>7. QED
  BY <1>5, <1>6 DEF Fates

\* ... or waits.
LEMMA FatesPushed ==
  ASSUME NEW t, NEW S, NEW F, NEW R, NEW D \in [Records -> {"none", "schedule", "record", "done"}],
         Fates(t, S, F, R, D), NEW f \in Fallbacks, D[f] # "done",
         NEW u, AddsWaiting(t, u, f), NEW E, E = [D EXCEPT ![f] = "done"]
  PROVE  Fates(u, S, F, R, E)
<1>1. /\ f \notin ToSet(t.pending) /\ f \notin ToSet(F.taken) /\ ~Held(S, f)
      /\ R[f] = 0 /\ t.fate[f] = "open" /\ f \notin t.cancelled
  BY ArrivingIs
<1>2. f \in Records
  BY DEF Records
<1>3. /\ ToSet(u.pending) = ToSet(t.pending) \cup {f} /\ u.cancelled = t.cancelled
      /\ u.fate = t.fate
  BY DEF AddsWaiting
<1>4. E[f] = "done" /\ \A g \in Fallbacks \ {f} : E[g] = D[g]
  BY <1>2 DEF Records
<1>5. ASSUME NEW g \in Fallbacks
      PROVE  /\ E[g] = "done" <=> \/ g \in ToSet(u.pending) \/ g \in ToSet(F.taken)
                                  \/ Held(S, g) \/ R[g] # 0 \/ u.fate[g] # "open"
             /\ g \in ToSet(u.pending) => g \notin ToSet(F.taken) /\ ~Held(S, g) /\ R[g] = 0
             /\ g \in ToSet(F.taken) => ~Held(S, g) /\ R[g] = 0 /\ u.fate[g] = "open"
             /\ Held(S, g) => R[g] = 0 /\ u.fate[g] = "open"
             /\ R[g] <= 1 /\ (R[g] = 1 => u.fate[g] = "open")
             /\ g \in u.cancelled => E[g] = "done"
  <2>1. CASE g = f
    BY <1>1, <1>3, <1>4, <2>1
  <2>2. CASE g # f
    <3>1. (g \in ToSet(u.pending) <=> g \in ToSet(t.pending)) /\ E[g] = D[g]
      BY <1>3, <1>4, <2>2
    <3>2. QED
      BY <1>3, <3>1 DEF Fates
  <2>3. QED
    BY <2>1, <2>2
<1>6. Distinct(F.taken) /\ ToSet(S.due) \subseteq ToSet(u.pending) \cup u.cancelled
  BY <1>3 DEF Fates
<1>7. QED
  BY <1>5, <1>6 DEF Fates

\* The scheduler takes a pending record out of the table to count it.
LEMMA FatesHeld ==
  ASSUME NEW t, NEW S, NEW F, NEW R, NEW D, Fates(t, S, F, R, D),
         NEW f \in Fallbacks, f \in ToSet(t.pending), \A g \in Fallbacks : ~Held(S, g),
         NEW v, Table(v), ToSet(v.pending) = ToSet(t.pending) \ {f},
         v.cancelled = t.cancelled, v.fate = t.fate, t.fate[f] = "open",
         NEW u, Decides(v, u),
         NEW w, w.pending = u.pending, w.cancelled = u.cancelled \cup {f}, w.fate = u.fate,
         NEW P, P.due = S.due, \A g \in Fallbacks : Held(P, g) <=> g = f
  PROVE  Fates(w, P, F, R, D)
<1>1. f \notin Lost(v, u)
  BY DEF Lost
<1>2. ToSet(P.due) \subseteq ToSet(w.pending) \cup w.cancelled
  BY DEF Fates, Decides, Lost
<1>3. ASSUME NEW g \in Fallbacks
      PROVE  /\ D[g] = "done" <=> \/ g \in ToSet(w.pending) \/ g \in ToSet(F.taken)
                                  \/ Held(P, g) \/ R[g] # 0 \/ w.fate[g] # "open"
             /\ g \in ToSet(w.pending) => g \notin ToSet(F.taken) /\ ~Held(P, g) /\ R[g] = 0
             /\ g \in ToSet(F.taken) => ~Held(P, g) /\ R[g] = 0 /\ w.fate[g] = "open"
             /\ Held(P, g) => R[g] = 0 /\ w.fate[g] = "open"
             /\ R[g] <= 1 /\ (R[g] = 1 => w.fate[g] = "open")
             /\ g \in w.cancelled => D[g] = "done"
  <2>1. /\ D[g] = "done" <=> \/ g \in ToSet(t.pending) \/ g \in ToSet(F.taken) \/ Held(S, g)
                             \/ R[g] # 0 \/ t.fate[g] # "open"
        /\ g \in ToSet(t.pending) => g \notin ToSet(F.taken) /\ ~Held(S, g) /\ R[g] = 0
        /\ g \in ToSet(F.taken) => ~Held(S, g) /\ R[g] = 0 /\ t.fate[g] = "open"
        /\ R[g] <= 1 /\ (R[g] = 1 => t.fate[g] = "open")
        /\ g \in t.cancelled => D[g] = "done"
    BY DEF Fates
  <2>2. ~Held(S, g) /\ (Held(P, g) <=> g = f)
    OBVIOUS
  <2>3. CASE g = f
    <3>1. w.fate[f] = "open" /\ f \notin ToSet(w.pending)
      BY <1>1 DEF Decides
    <3>2. QED
      BY <2>1, <2>2, <2>3, <3>1
  <2>4. CASE g # f /\ g \in Lost(v, u)
    <3>1. g \in ToSet(t.pending) /\ g \notin ToSet(w.pending) /\ w.fate[g] # "open"
      BY <2>4 DEF Decides, Lost
    <3>2. QED
      BY <2>1, <2>2, <2>4, <3>1
  <2>5. CASE g # f /\ g \notin Lost(v, u)
    <3>1. w.fate[g] = t.fate[g] /\ (g \in ToSet(w.pending) <=> g \in ToSet(t.pending))
      BY <2>5 DEF Decides, Lost
    <3>2. g \in w.cancelled => g \in t.cancelled
      BY <2>5 DEF Decides
    <3>3. QED
      BY <2>1, <2>2, <2>5, <3>1, <3>2
  <2>6. QED
    BY <2>3, <2>4, <2>5
<1>4. Distinct(F.taken)
  BY DEF Fates
<1>5. QED
  BY <1>2, <1>3, <1>4 DEF Fates

\* The record in the scheduler's hands is counted.
LEMMA FatesCounted ==
  ASSUME NEW t, NEW S, NEW F, NEW R \in [Records -> Nat], NEW D, Fates(t, S, F, R, D),
         NEW f \in Fallbacks, Held(S, f), \A g \in Fallbacks : Held(S, g) => g = f,
         NEW P, ToSet(P.due) \subseteq ToSet(S.due), \A g \in Fallbacks : ~Held(P, g)
  PROVE  Fates(t, P, F, [R EXCEPT ![f] = @ + 1], D)
<1>1. PICK Q : Q = [R EXCEPT ![f] = @ + 1]
  OBVIOUS
<1>2. R[f] = 0 /\ t.fate[f] = "open" /\ f \notin ToSet(t.pending) /\ f \notin ToSet(F.taken)
  BY DEF Fates
<1>3. f \in Records
  BY DEF Records
<1>4. Q[f] = 1 /\ \A g \in Fallbacks \ {f} : Q[g] = R[g]
  BY <1>1, <1>2, <1>3 DEF Records
<1>5. D[f] = "done"
  BY DEF Fates
<1>6. ASSUME NEW g \in Fallbacks
      PROVE  /\ D[g] = "done" <=> \/ g \in ToSet(t.pending) \/ g \in ToSet(F.taken)
                                  \/ Held(P, g) \/ Q[g] # 0 \/ t.fate[g] # "open"
             /\ g \in ToSet(t.pending) => g \notin ToSet(F.taken) /\ ~Held(P, g) /\ Q[g] = 0
             /\ g \in ToSet(F.taken) => ~Held(P, g) /\ Q[g] = 0 /\ t.fate[g] = "open"
             /\ Held(P, g) => Q[g] = 0 /\ t.fate[g] = "open"
             /\ Q[g] <= 1 /\ (Q[g] = 1 => t.fate[g] = "open")
             /\ g \in t.cancelled => D[g] = "done"
  <2>1. CASE g = f
    BY <1>2, <1>4, <1>5, <2>1
  <2>2. CASE g # f
    <3>1. Q[g] = R[g] /\ ~Held(S, g) /\ ~Held(P, g)
      BY <1>4, <2>2
    <3>2. QED
      BY <3>1 DEF Fates
  <2>3. QED
    BY <2>1, <2>2
<1>7. Distinct(F.taken) /\ ToSet(P.due) \subseteq ToSet(t.pending) \cup t.cancelled
  BY DEF Fates
<1>8. Fates(t, P, F, Q, D)
  BY <1>6, <1>7 DEF Fates
<1>9. QED
  BY <1>1, <1>8

\* Flush takes every pending record ...
LEMMA FatesTaken ==
  ASSUME NEW t, Table(t), NEW S, NEW F, NEW R, NEW D, Fates(t, S, F, R, D), F.taken = <<>>,
         NEW u, u.pending = <<>>, u.cancelled = t.cancelled \cup ToSet(t.pending),
         u.fate = t.fate,
         NEW G, Distinct(G.taken), ToSet(G.taken) = ToSet(t.pending)
  PROVE  Fates(u, S, G, R, D)
<1>1. ToSet(u.pending) = {} /\ ToSet(F.taken) = {}
  BY DEF ToSet
<1>2. ASSUME NEW g \in Fallbacks
      PROVE  /\ D[g] = "done" <=> \/ g \in ToSet(u.pending) \/ g \in ToSet(G.taken)
                                  \/ Held(S, g) \/ R[g] # 0 \/ u.fate[g] # "open"
             /\ g \in ToSet(u.pending) => g \notin ToSet(G.taken) /\ ~Held(S, g) /\ R[g] = 0
             /\ g \in ToSet(G.taken) => ~Held(S, g) /\ R[g] = 0 /\ u.fate[g] = "open"
             /\ Held(S, g) => R[g] = 0 /\ u.fate[g] = "open"
             /\ R[g] <= 1 /\ (R[g] = 1 => u.fate[g] = "open")
             /\ g \in u.cancelled => D[g] = "done"
  <2>1. g \in ToSet(t.pending) => t.fate[g] = "open"
    BY DEF Table
  <2>2. QED
    BY <1>1, <2>1 DEF Fates
<1>3. ToSet(S.due) \subseteq ToSet(u.pending) \cup u.cancelled
  BY DEF Fates
<1>4. QED
  BY <1>2, <1>3 DEF Fates

\* ... and counts them one by one.
LEMMA FatesFlushed ==
  ASSUME NEW t, NEW S, NEW F, NEW R \in [Records -> Nat], NEW D, Fates(t, S, F, R, D),
         NEW f \in Fallbacks, f \in ToSet(F.taken),
         NEW G, Distinct(G.taken), ToSet(G.taken) = ToSet(F.taken) \ {f}
  PROVE  Fates(t, S, G, [R EXCEPT ![f] = @ + 1], D)
<1>1. PICK Q : Q = [R EXCEPT ![f] = @ + 1]
  OBVIOUS
<1>2. R[f] = 0 /\ t.fate[f] = "open" /\ f \notin ToSet(t.pending) /\ ~Held(S, f)
  BY DEF Fates
<1>3. f \in Records
  BY DEF Records
<1>4. Q[f] = 1 /\ \A g \in Fallbacks \ {f} : Q[g] = R[g]
  BY <1>1, <1>2, <1>3 DEF Records
<1>5. D[f] = "done"
  BY DEF Fates
<1>6. ASSUME NEW g \in Fallbacks
      PROVE  /\ D[g] = "done" <=> \/ g \in ToSet(t.pending) \/ g \in ToSet(G.taken)
                                  \/ Held(S, g) \/ Q[g] # 0 \/ t.fate[g] # "open"
             /\ g \in ToSet(t.pending) => g \notin ToSet(G.taken) /\ ~Held(S, g) /\ Q[g] = 0
             /\ g \in ToSet(G.taken) => ~Held(S, g) /\ Q[g] = 0 /\ t.fate[g] = "open"
             /\ Held(S, g) => Q[g] = 0 /\ t.fate[g] = "open"
             /\ Q[g] <= 1 /\ (Q[g] = 1 => t.fate[g] = "open")
             /\ g \in t.cancelled => D[g] = "done"
  <2>1. CASE g = f
    BY <1>2, <1>4, <1>5, <2>1
  <2>2. CASE g # f
    <3>1. Q[g] = R[g] /\ (g \in ToSet(G.taken) <=> g \in ToSet(F.taken))
      BY <1>4, <2>2
    <3>2. QED
      BY <3>1 DEF Fates
  <2>3. QED
    BY <2>1, <2>2
<1>7. ToSet(S.due) \subseteq ToSet(t.pending) \cup t.cancelled
  BY DEF Fates
<1>8. Fates(t, S, G, Q, D)
  BY <1>6, <1>7 DEF Fates
<1>9. QED
  BY <1>1, <1>8


-----------------------------------------------------------------------------
(***************************************************************************)
(* What goes into the tables.                                              *)
(***************************************************************************)
\* What an operation leaves of a table keeps its place among its surroundings.
LEMMA TableShrinks ==
  ASSUME NEW t, NEW A, NEW S, TableOK(t, A, S), NEW u, Shrinks(t, u),
         NEW P, ToSet(t.pending) \ t.heap \subseteq ToSet(P.due)
  PROVE  TableOK(u, A, P)
<1>1. Table(u) /\ InLimits(u)
  BY LimitsShrink DEF TableOK, Shrinks
<1>2. u.closed => u.pending = <<>>
  <2>1. SUFFICES ASSUME u.closed PROVE u.pending = <<>>
    OBVIOUS
  <2>2. t.pending = <<>>
    BY <2>1 DEF TableOK, Shrinks
  <2>3. ToSet(t.pending) = {}
    BY <2>2 DEF ToSet
  <2>4. ToSet(u.pending) = {} /\ u.pending \in Seq(Fallbacks)
    BY <1>1, <2>3, TableFields DEF Shrinks, Table
  <2>5. Len(u.pending) = 0
    <3>1. \A i \in 1..Len(u.pending) : u.pending[i] \in ToSet(u.pending)
      BY <2>4 DEF ToSet
    <3>2. Len(u.pending) \in Nat
      BY <2>4
    <3>3. QED
      BY <2>4, <3>1, <3>2
  <2>6. QED
    BY <2>4, <2>5
<1>3. ToSet(u.pending) \subseteq ToSet(t.pending)
  BY DEF Shrinks
<1>4. ToSet(u.pending) \ u.heap \subseteq ToSet(P.due)
  BY DEF Shrinks
<1>5. QED
  BY <1>1, <1>2, <1>3, <1>4 DEF TableOK

\* A record that is not pending gets its fate.
LEMMA FateGivenIs ==
  ASSUME NEW t, NEW A, NEW S, TableOK(t, A, S),
         NEW f \in Fallbacks, f \notin ToSet(t.pending), NEW x \in Fate, x # "open",
         NEW u, u = [t EXCEPT !.fate[f] = x]
  PROVE  TableOK(u, A, S) /\ GivesFate(t, u, f)
<1>1. Table(t) /\ t \in TableType /\ InLimits(t)
  BY DEF Table, TableOK
<1>2. t.fate \in [Fallbacks -> Fate] /\ t.cancelled \in SUBSET Fallbacks
  BY <1>1, TableFields
<1>3. PICK F : F = [t.fate EXCEPT ![f] = x]
  OBVIOUS
<1>4. /\ F \in [Fallbacks -> Fate] /\ F[f] = x
      /\ \A g \in Fallbacks \ {f} : F[g] = t.fate[g]
  BY <1>2, <1>3
<1>5. u = [t EXCEPT !.cancelled = t.cancelled, !.fate = F]
  BY <1>1, <1>3 DEF TableType
<1>6. u \in TableType
  <2>1. [t EXCEPT !.cancelled = t.cancelled, !.fate = F] \in TableType
    BY Zenon, <1>1, <1>2, <1>4, FateTyped
  <2>2. QED
    BY Zenon, <1>5, <2>1
<1>7. /\ u.pending = t.pending /\ u.heap = t.heap /\ u.byStream = t.byStream
      /\ u.pendingCount = t.pendingCount /\ u.closed = t.closed
      /\ u.nativeRecent = t.nativeRecent /\ u.fallbackRecent = t.fallbackRecent
      /\ u.nativeCount = t.nativeCount /\ u.fallbackCount = t.fallbackCount
      /\ u.cancelled = t.cancelled /\ u.fate = F
  BY <1>1, <1>5 DEF TableType
<1>8. Table(u)
  <2>1. \A g \in ToSet(u.pending) : g \in Fallbacks /\ g # f
    BY <1>6, <1>7, TableLists
  <2>2. \A g \in ToSet(u.pending) : u.fate[g] = "open"
    BY <1>1, <1>4, <1>7, <2>1 DEF Table
  <2>3. QED
    BY <1>1, <1>6, <1>7, <2>2 DEF Table
<1>9. InLimits(u)
  BY <1>1, <1>7 DEF InLimits
<1>10. TableOK(u, A, S)
  BY <1>7, <1>8, <1>9 DEF TableOK
<1>11. QED
  BY <1>4, <1>7, <1>10 DEF GivesFate

\* A counter of a list that has an entry goes down by one.
LEMMA OneLess ==
  ASSUME NEW n \in Nat, NEW i \in 1..n
  PROVE  AtLeast0(n - 1) = n - 1 /\ n - 1 \in Nat /\ n - 1 <= n
  BY DEF AtLeast0

\* A record that meets the other of its request takes it off its list.
LEMMA TakenIs ==
  ASSUME NEW t, Table(t), NEW i, NEW u,
         \/ /\ i \in 1..Len(t.nativeRecent)
            /\ u = [t EXCEPT !.nativeRecent = RemoveAt(@, i), !.nativeCount = AtLeast0(@ - 1)]
         \/ /\ i \in 1..Len(t.fallbackRecent)
            /\ u = [t EXCEPT !.fallbackRecent = RemoveAt(@, i), !.fallbackCount = AtLeast0(@ - 1)]
  PROVE  Shrinks(t, u)
<1>1. t \in TableType /\ t.nativeCount = Len(t.nativeRecent)
      /\ t.fallbackCount = Len(t.fallbackRecent)
  BY DEF Table
<1>2. /\ t.nativeRecent \in Seq(Occurrence) /\ t.fallbackRecent \in Seq(Occurrence)
      /\ t.forgotten \in SUBSET Records
      /\ Len(t.nativeRecent) \in Nat /\ Len(t.fallbackRecent) \in Nat
  BY <1>1, TableFields, TableLists
<1>3. CASE /\ i \in 1..Len(t.nativeRecent)
           /\ u = [t EXCEPT !.nativeRecent = RemoveAt(@, i), !.nativeCount = AtLeast0(@ - 1)]
  <2>1. PICK L, n : L = RemoveAt(t.nativeRecent, i) /\ n = AtLeast0(t.nativeCount - 1)
    OBVIOUS
  <2>2. L \in Seq(Occurrence) /\ Len(L) = Len(t.nativeRecent) - 1
    BY <1>2, <1>3, <2>1, RemoveAtIs
  <2>3. n = Len(L) /\ n \in Nat /\ Len(L) <= Len(t.nativeRecent)
    <3>1. PICK m \in Nat : m = Len(t.nativeRecent) /\ i \in 1..m
      BY <1>2, <1>3
    <3>2. n = AtLeast0(m - 1) /\ Len(L) = m - 1
      BY <1>1, <2>1, <2>2, <3>1
    <3>3. AtLeast0(m - 1) = m - 1 /\ m - 1 \in Nat /\ m - 1 <= m
      BY Zenon, <3>1, OneLess
    <3>4. QED
      BY <3>1, <3>2, <3>3
  <2>4. u = [t EXCEPT !.nativeRecent = L, !.nativeCount = n, !.forgotten = t.forgotten]
    BY <1>1, <1>3, <2>1 DEF TableType
  <2>5. [t EXCEPT !.nativeRecent = L, !.nativeCount = n, !.forgotten = t.forgotten] \in TableType
    BY Zenon, <1>1, <1>2, <2>2, <2>3, NativesTyped
  <2>6. u \in TableType
    BY Zenon, <2>4, <2>5
  <2>7. /\ u.nativeRecent = L /\ u.nativeCount = n /\ u.fallbackRecent = t.fallbackRecent
        /\ u.pending = t.pending /\ u.heap = t.heap /\ u.byStream = t.byStream
        /\ u.cancelled = t.cancelled /\ u.fate = t.fate /\ u.closed = t.closed
        /\ u.pendingCount = t.pendingCount /\ u.fallbackCount = t.fallbackCount
    BY <1>1, <2>4 DEF TableType
  <2>8. QED
    BY <1>1, <1>2, <2>3, <2>6, <2>7, RecentShrinks
<1>4. CASE /\ i \in 1..Len(t.fallbackRecent)
           /\ u = [t EXCEPT !.fallbackRecent = RemoveAt(@, i), !.fallbackCount = AtLeast0(@ - 1)]
  <2>1. PICK L, n : L = RemoveAt(t.fallbackRecent, i) /\ n = AtLeast0(t.fallbackCount - 1)
    OBVIOUS
  <2>2. L \in Seq(Occurrence) /\ Len(L) = Len(t.fallbackRecent) - 1
    BY <1>2, <1>4, <2>1, RemoveAtIs
  <2>3. n = Len(L) /\ n \in Nat /\ Len(L) <= Len(t.fallbackRecent)
    <3>1. PICK m \in Nat : m = Len(t.fallbackRecent) /\ i \in 1..m
      BY <1>2, <1>4
    <3>2. n = AtLeast0(m - 1) /\ Len(L) = m - 1
      BY <1>1, <2>1, <2>2, <3>1
    <3>3. AtLeast0(m - 1) = m - 1 /\ m - 1 \in Nat /\ m - 1 <= m
      BY Zenon, <3>1, OneLess
    <3>4. QED
      BY <3>1, <3>2, <3>3
  <2>4. u = [t EXCEPT !.fallbackRecent = L, !.fallbackCount = n, !.forgotten = t.forgotten]
    BY <1>1, <1>4, <2>1 DEF TableType
  <2>5. [t EXCEPT !.fallbackRecent = L, !.fallbackCount = n, !.forgotten = t.forgotten]
          \in TableType
    BY Zenon, <1>1, <1>2, <2>2, <2>3, FallbacksTyped
  <2>6. u \in TableType
    BY Zenon, <2>4, <2>5
  <2>7. /\ u.fallbackRecent = L /\ u.fallbackCount = n /\ u.nativeRecent = t.nativeRecent
        /\ u.pending = t.pending /\ u.heap = t.heap /\ u.byStream = t.byStream
        /\ u.cancelled = t.cancelled /\ u.fate = t.fate /\ u.closed = t.closed
        /\ u.pendingCount = t.pendingCount /\ u.nativeCount = t.nativeCount
    BY <1>1, <2>4 DEF TableType
  <2>8. QED
    BY <1>1, <1>2, <2>3, <2>6, <2>7, RecentShrinks
<1>5. QED
  BY <1>3, <1>4

\* Room for one more of a kind of which there are k already.
Room(t, k, max) == k + 1 <= max /\ Load(t) + 1 <= MaxRetained

\* The eviction for the limit of a kind and makeRoom leave room for a record.
LEMMA PendingRoom ==
  ASSUME NEW t, NEW A, NEW S, TableOK(t, A, S),
         NEW u \in (IF t.pendingCount >= MaxPending THEN EvictPending(t) ELSE {t}),
         NEW v \in MakeRoom(u)
  PROVE  Shrinks(t, v) /\ TableOK(v, A, S) /\ Room(v, Len(v.pending), MaxPending)
<1>1. /\ Table(t) /\ InLimits(t) /\ t \in TableType /\ Len(t.pending) \in Nat
      /\ t.pendingCount = Len(t.pending)
  BY TableLists DEF Table, TableOK
<1>2. Shrinks(t, u) /\ Len(u.pending) + 1 <= MaxPending
  <2>1. CASE t.pendingCount >= MaxPending
    <3>1. Shrinks(t, u) /\ Len(u.pending) = Len(t.pending) - 1
      BY <1>1, <2>1, EvictPendingIs
    <3>2. Len(t.pending) <= MaxPending /\ MaxPending \in Nat
      BY <1>1, FallbackAssumption DEF InLimits
    <3>3. QED
      BY <1>1, <3>1, <3>2
  <2>2. CASE ~(t.pendingCount >= MaxPending)
    <3>1. u = t
      BY <2>2
    <3>2. Shrinks(t, u)
      BY <1>1, <3>1, ShrinksRefl
    <3>3. MaxPending \in Nat
      BY FallbackAssumption
    <3>4. QED
      BY <1>1, <2>2, <3>1, <3>2, <3>3
  <2>3. QED
    BY <2>1, <2>2
<1>3. Shrinks(u, v) /\ Load(v) + 1 <= MaxRetained
  <2>1. Table(u) /\ InLimits(u)
    BY <1>1, <1>2, LimitsShrink DEF Shrinks
  <2>2. Load(u) <= MaxRetained
    BY <2>1 DEF InLimits, Load
  <2>3. QED
    BY <2>1, <2>2, MakeRoomIs
<1>4. Len(v.pending) + 1 <= MaxPending
  <2>1. Len(v.pending) <= Len(u.pending) /\ u \in TableType /\ v \in TableType
    BY <1>2, <1>3 DEF Shrinks, Table
  <2>2. Len(v.pending) \in Nat /\ Len(u.pending) \in Nat /\ MaxPending \in Nat
    BY <2>1, TableLists, FallbackAssumption
  <2>3. QED
    BY <1>2, <2>1, <2>2
<1>5. Shrinks(t, v)
  BY <1>1, <1>2, <1>3, ShrinksTrans
<1>6. TableOK(v, A, S)
  BY <1>5, TableShrinks DEF TableOK
<1>7. QED
  BY <1>3, <1>4, <1>5, <1>6 DEF Room

\* So for a native record ...
LEMMA NativeRoom ==
  ASSUME NEW t, NEW A, NEW S, TableOK(t, A, S),
         NEW u \in (IF t.nativeCount >= MaxRecent THEN EvictNative(t) ELSE {t}),
         NEW v \in MakeRoom(u)
  PROVE  Shrinks(t, v) /\ TableOK(v, A, S) /\ Room(v, Len(v.nativeRecent), MaxRecent)
<1>1. /\ Table(t) /\ InLimits(t) /\ t \in TableType /\ Len(t.nativeRecent) \in Nat
      /\ t.nativeCount = Len(t.nativeRecent)
  BY TableLists DEF Table, TableOK
<1>2. Shrinks(t, u) /\ Len(u.nativeRecent) + 1 <= MaxRecent
  <2>1. CASE t.nativeCount >= MaxRecent
    <3>1. Shrinks(t, u) /\ Len(u.nativeRecent) = Len(t.nativeRecent) - 1
      BY <1>1, <2>1, EvictNativeIs
    <3>2. Len(t.nativeRecent) <= MaxRecent /\ MaxRecent \in Nat
      BY <1>1, FallbackAssumption DEF InLimits
    <3>3. QED
      BY <1>1, <3>1, <3>2
  <2>2. CASE ~(t.nativeCount >= MaxRecent)
    <3>1. u = t
      BY <2>2
    <3>2. Shrinks(t, u)
      BY <1>1, <3>1, ShrinksRefl
    <3>3. MaxRecent \in Nat
      BY FallbackAssumption
    <3>4. QED
      BY <1>1, <2>2, <3>1, <3>2, <3>3
  <2>3. QED
    BY <2>1, <2>2
<1>3. Shrinks(u, v) /\ Load(v) + 1 <= MaxRetained
  <2>1. Table(u) /\ InLimits(u)
    BY <1>1, <1>2, LimitsShrink DEF Shrinks
  <2>2. Load(u) <= MaxRetained
    BY <2>1 DEF InLimits, Load
  <2>3. QED
    BY <2>1, <2>2, MakeRoomIs
<1>4. Len(v.nativeRecent) + 1 <= MaxRecent
  <2>1. Len(v.nativeRecent) <= Len(u.nativeRecent) /\ u \in TableType /\ v \in TableType
    BY <1>2, <1>3 DEF Shrinks, Table
  <2>2. Len(v.nativeRecent) \in Nat /\ Len(u.nativeRecent) \in Nat /\ MaxRecent \in Nat
    BY <2>1, TableLists, FallbackAssumption
  <2>3. QED
    BY <1>2, <2>1, <2>2
<1>5. Shrinks(t, v)
  BY <1>1, <1>2, <1>3, ShrinksTrans
<1>6. TableOK(v, A, S)
  BY <1>5, TableShrinks DEF TableOK
<1>7. QED
  BY <1>3, <1>4, <1>5, <1>6 DEF Room

\* ... and for a counted fallback record.
LEMMA FallbackRoom ==
  ASSUME NEW t, NEW A, NEW S, TableOK(t, A, S),
         NEW u \in (IF t.fallbackCount >= MaxRecent THEN EvictFallback(t) ELSE {t}),
         NEW v \in MakeRoom(u)
  PROVE  Shrinks(t, v) /\ TableOK(v, A, S) /\ Room(v, Len(v.fallbackRecent), MaxRecent)
<1>1. /\ Table(t) /\ InLimits(t) /\ t \in TableType /\ Len(t.fallbackRecent) \in Nat
      /\ t.fallbackCount = Len(t.fallbackRecent)
  BY TableLists DEF Table, TableOK
<1>2. Shrinks(t, u) /\ Len(u.fallbackRecent) + 1 <= MaxRecent
  <2>1. CASE t.fallbackCount >= MaxRecent
    <3>1. Shrinks(t, u) /\ Len(u.fallbackRecent) = Len(t.fallbackRecent) - 1
      BY <1>1, <2>1, EvictFallbackIs
    <3>2. Len(t.fallbackRecent) <= MaxRecent /\ MaxRecent \in Nat
      BY <1>1, FallbackAssumption DEF InLimits
    <3>3. QED
      BY <1>1, <3>1, <3>2
  <2>2. CASE ~(t.fallbackCount >= MaxRecent)
    <3>1. u = t
      BY <2>2
    <3>2. Shrinks(t, u)
      BY <1>1, <3>1, ShrinksRefl
    <3>3. MaxRecent \in Nat
      BY FallbackAssumption
    <3>4. QED
      BY <1>1, <2>2, <3>1, <3>2, <3>3
  <2>3. QED
    BY <2>1, <2>2
<1>3. Shrinks(u, v) /\ Load(v) + 1 <= MaxRetained
  <2>1. Table(u) /\ InLimits(u)
    BY <1>1, <1>2, LimitsShrink DEF Shrinks
  <2>2. Load(u) <= MaxRetained
    BY <2>1 DEF InLimits, Load
  <2>3. QED
    BY <2>1, <2>2, MakeRoomIs
<1>4. Len(v.fallbackRecent) + 1 <= MaxRecent
  <2>1. Len(v.fallbackRecent) <= Len(u.fallbackRecent) /\ u \in TableType /\ v \in TableType
    BY <1>2, <1>3 DEF Shrinks, Table
  <2>2. Len(v.fallbackRecent) \in Nat /\ Len(u.fallbackRecent) \in Nat /\ MaxRecent \in Nat
    BY <2>1, TableLists, FallbackAssumption
  <2>3. QED
    BY <1>2, <2>1, <2>2
<1>5. Shrinks(t, v)
  BY <1>1, <1>2, <1>3, ShrinksTrans
<1>6. TableOK(v, A, S)
  BY <1>5, TableShrinks DEF TableOK
<1>7. QED
  BY <1>3, <1>4, <1>5, <1>6 DEF Room


\* One more record where there is room for it keeps the limits.
LEMMA OneMore ==
  ASSUME NEW t \in TableType, InLimits(t), Load(t) + 1 <= MaxRetained, NEW u,
         \/ /\ Len(t.pending) + 1 <= MaxPending /\ Len(u.pending) = Len(t.pending) + 1
            /\ u.nativeRecent = t.nativeRecent /\ u.fallbackRecent = t.fallbackRecent
         \/ /\ Len(t.nativeRecent) + 1 <= MaxRecent
            /\ Len(u.nativeRecent) = Len(t.nativeRecent) + 1
            /\ u.pending = t.pending /\ u.fallbackRecent = t.fallbackRecent
         \/ /\ Len(t.fallbackRecent) + 1 <= MaxRecent
            /\ Len(u.fallbackRecent) = Len(t.fallbackRecent) + 1
            /\ u.pending = t.pending /\ u.nativeRecent = t.nativeRecent
  PROVE  InLimits(u)
<1>1. PICK i \in Nat, j \in Nat, k \in Nat :
        i = Len(t.pending) /\ j = Len(t.nativeRecent) /\ k = Len(t.fallbackRecent)
  BY TableLists
<1>2. i <= MaxPending /\ j <= MaxRecent /\ k <= MaxRecent /\ i + j + k + 1 <= MaxRetained
  BY <1>1 DEF InLimits, Load
<1>3. PICK x, y, z : x = Len(u.pending) /\ y = Len(u.nativeRecent) /\ z = Len(u.fallbackRecent)
  OBVIOUS
<1>4. \/ x = i + 1 /\ i + 1 <= MaxPending /\ y = j /\ z = k
      \/ y = j + 1 /\ j + 1 <= MaxRecent /\ x = i /\ z = k
      \/ z = k + 1 /\ k + 1 <= MaxRecent /\ x = i /\ y = j
  BY <1>1, <1>3
<1>5. x <= MaxPending /\ y <= MaxRecent /\ z <= MaxRecent /\ x + y + z <= MaxRetained
  BY <1>2, <1>4
<1>6. QED
  BY <1>3, <1>5 DEF InLimits

\* A list of recent records with one more.
LEMMA RememberIs ==
  ASSUME NEW L \in Seq(Occurrence), NEW r \in Records, now \in 0..MaxTime,
         NEW M, M = Remember(L, [record |-> r, seen |-> now])
  PROVE  M \in Seq(Occurrence) /\ Len(M) = Len(L) + 1
<1>1. PICK o : o = [record |-> r, seen |-> now]
  OBVIOUS
<1>2. o \in Occurrence
  BY <1>1 DEF Occurrence
<1>3. M = Append(L, o)
  BY <1>1 DEF Remember
<1>4. QED
  BY <1>2, <1>3

\* u differs from t in its recent records.
SamePending(t, u) ==
  /\ u.pending = t.pending /\ u.cancelled = t.cancelled /\ u.fate = t.fate
  /\ u.closed = t.closed

\* A native record is remembered ...
LEMMA NativeRemembered ==
  ASSUME NEW t, NEW A, NEW S, TableOK(t, A, S), Room(t, Len(t.nativeRecent), MaxRecent),
         NEW r \in Records, now \in 0..MaxTime, NEW L,
         L = Remember(t.nativeRecent, [record |-> r, seen |-> now]),
         NEW u, u = [t EXCEPT !.nativeRecent = L, !.nativeCount = @ + 1]
  PROVE  TableOK(u, A, S) /\ SamePending(t, u)
<1>1. Table(t) /\ InLimits(t) /\ t \in TableType
  BY DEF TableOK, Table
<1>2. /\ t.nativeRecent \in Seq(Occurrence) /\ t.forgotten \in SUBSET Records
      /\ Len(t.pending) \in Nat /\ Len(t.nativeRecent) \in Nat /\ Len(t.fallbackRecent) \in Nat
      /\ t.nativeCount = Len(t.nativeRecent)
  BY <1>1, TableFields, TableLists DEF Table
<1>3. L \in Seq(Occurrence) /\ Len(L) = Len(t.nativeRecent) + 1
  BY <1>2, RememberIs
<1>4. PICK n \in Nat : n = Len(t.nativeRecent) + 1
  BY <1>2
<1>5. u = [t EXCEPT !.nativeRecent = L, !.nativeCount = n, !.forgotten = t.forgotten]
  BY <1>1, <1>2, <1>4 DEF TableType
<1>6. u \in TableType
  <2>1. [t EXCEPT !.nativeRecent = L, !.nativeCount = n, !.forgotten = t.forgotten] \in TableType
    BY Zenon, <1>1, <1>2, <1>3, <1>4, NativesTyped
  <2>2. QED
    BY Zenon, <1>5, <2>1
<1>7. /\ u.nativeRecent = L /\ u.nativeCount = n /\ u.fallbackRecent = t.fallbackRecent
      /\ u.pending = t.pending /\ u.heap = t.heap /\ u.byStream = t.byStream
      /\ u.cancelled = t.cancelled /\ u.fate = t.fate /\ u.closed = t.closed
      /\ u.pendingCount = t.pendingCount /\ u.fallbackCount = t.fallbackCount
  BY <1>1, <1>5 DEF TableType
<1>8. Table(u)
  BY <1>1, <1>3, <1>4, <1>6, <1>7 DEF Table
<1>9. InLimits(u)
  BY <1>1, <1>3, <1>7, OneMore DEF Room
<1>10. TableOK(u, A, S)
  BY <1>7, <1>8, <1>9 DEF TableOK
<1>11. QED
  BY <1>7, <1>10 DEF SamePending

\* u is t after the commit of f, which is not pending.
Committed(t, u, f) ==
  /\ u.pending = t.pending /\ u.cancelled = t.cancelled \cup {f}
  /\ u.fate = t.fate /\ u.closed = t.closed /\ u.heap = t.heap

\* ... and a fallback record, which is decided.
LEMMA FallbackRemembered ==
  ASSUME NEW t, NEW A, NEW S, TableOK(t, A, S), Room(t, Len(t.fallbackRecent), MaxRecent),
         NEW f \in Fallbacks, f \notin ToSet(t.pending), now \in 0..MaxTime, NEW L,
         L = Remember(t.fallbackRecent, [record |-> f, seen |-> now]),
         NEW u, u = [t EXCEPT !.cancelled = @ \cup {f}, !.fallbackRecent = L,
                              !.fallbackCount = @ + 1]
  PROVE  TableOK(u, A, S) /\ Committed(t, u, f)
<1>1. Table(t) /\ InLimits(t) /\ t \in TableType
  BY DEF TableOK, Table
<1>2. /\ t.fallbackRecent \in Seq(Occurrence) /\ t.forgotten \in SUBSET Records
      /\ t.cancelled \in SUBSET Fallbacks /\ t.fate \in [Fallbacks -> Fate]
      /\ Len(t.pending) \in Nat /\ Len(t.nativeRecent) \in Nat /\ Len(t.fallbackRecent) \in Nat
      /\ t.fallbackCount = Len(t.fallbackRecent)
  BY <1>1, TableFields, TableLists DEF Table
<1>3. L \in Seq(Occurrence) /\ Len(L) = Len(t.fallbackRecent) + 1
  <2>1. f \in Records
    BY DEF Records
  <2>2. QED
    BY <1>2, <2>1, RememberIs
<1>4. PICK n \in Nat : n = Len(t.fallbackRecent) + 1
  BY <1>2
<1>5. PICK C \in SUBSET Fallbacks : C = t.cancelled \cup {f}
  BY <1>2
<1>6. PICK v : v = [t EXCEPT !.cancelled = C, !.fate = t.fate]
  OBVIOUS
<1>7. v \in TableType
  <2>1. [t EXCEPT !.cancelled = C, !.fate = t.fate] \in TableType
    BY Zenon, <1>1, <1>2, <1>5, FateTyped
  <2>2. QED
    BY Zenon, <1>6, <2>1
<1>8. u = [v EXCEPT !.fallbackRecent = L, !.fallbackCount = n, !.forgotten = t.forgotten]
  BY <1>1, <1>2, <1>4, <1>5, <1>6 DEF TableType
<1>9. u \in TableType
  <2>1. [v EXCEPT !.fallbackRecent = L, !.fallbackCount = n, !.forgotten = t.forgotten]
          \in TableType
    BY Zenon, <1>2, <1>3, <1>4, <1>7, FallbacksTyped
  <2>2. QED
    BY Zenon, <1>8, <2>1
<1>10. /\ u.fallbackRecent = L /\ u.fallbackCount = n /\ u.nativeRecent = t.nativeRecent
       /\ u.pending = t.pending /\ u.heap = t.heap /\ u.byStream = t.byStream
       /\ u.cancelled = t.cancelled \cup {f} /\ u.fate = t.fate /\ u.closed = t.closed
       /\ u.pendingCount = t.pendingCount /\ u.nativeCount = t.nativeCount
  <2>1. /\ v.nativeRecent = t.nativeRecent
        /\ v.pending = t.pending /\ v.heap = t.heap /\ v.byStream = t.byStream
        /\ v.cancelled = C /\ v.fate = t.fate /\ v.closed = t.closed
        /\ v.pendingCount = t.pendingCount /\ v.nativeCount = t.nativeCount
    BY <1>1, <1>6 DEF TableType
  <2>2. QED
    BY <1>5, <1>7, <1>8, <2>1 DEF TableType
<1>11. Table(u)
  <2>1. ToSet(u.pending) \cap u.cancelled = {}
    BY <1>1, <1>10 DEF Table
  <2>2. QED
    BY <1>1, <1>3, <1>4, <1>9, <1>10, <2>1 DEF Table
<1>12. InLimits(u)
  BY <1>1, <1>3, <1>10, OneMore DEF Room
<1>13. TableOK(u, A, S)
  BY <1>10, <1>11, <1>12 DEF TableOK
<1>14. QED
  BY <1>10, <1>13 DEF Committed

\* A record that waits.
LEMMA PushedIs ==
  ASSUME NEW t, NEW A \in [Records -> Nat], NEW S, TableOK(t, A, S), ~t.closed,
         Room(t, Len(t.pending), MaxPending), NEW f \in Fallbacks, f \notin ToSet(t.pending),
         f \notin t.cancelled, t.fate[f] = "open", now + Delay <= MaxTime, now \in 0..MaxTime,
         NEW u, u = Pushed(t, f), NEW B, B = [A EXCEPT ![f] = now]
  PROVE  TableOK(u, B, S) /\ AddsWaiting(t, u, f)
<1>1. Table(t) /\ InLimits(t) /\ t \in TableType
  BY DEF TableOK, Table
<1>2. /\ t.pending \in Seq(Fallbacks) /\ t.heap \in SUBSET Fallbacks
      /\ t.byStream \in [Streams -> Fallbacks \cup {None}]
      /\ Len(t.pending) \in Nat /\ Len(t.nativeRecent) \in Nat /\ Len(t.fallbackRecent) \in Nat
      /\ t.pendingCount = Len(t.pending)
  BY <1>1, TableFields, TableLists DEF Table
<1>3. PICK P : P = Append(t.pending, f)
  OBVIOUS
<1>4. /\ P \in Seq(Fallbacks) /\ Len(P) = Len(t.pending) + 1
      /\ \A i \in 1..Len(t.pending) : P[i] = t.pending[i]
      /\ P[Len(t.pending) + 1] = f
  BY <1>2, <1>3
<1>5. DOMAIN P = 1..(Len(t.pending) + 1)
  BY <1>2, <1>4
<1>6. ToSet(P) = ToSet(t.pending) \cup {f}
  <2>1. DOMAIN P = 1..Len(t.pending) \cup {Len(t.pending) + 1}
    BY <1>2, <1>5
  <2>2. DOMAIN t.pending = 1..Len(t.pending)
    BY <1>2
  <2>3. QED
    BY <1>4, <2>1, <2>2 DEF ToSet
<1>7. Distinct(P)
  <2>1. DOMAIN P = 1..Len(t.pending) \cup {Len(t.pending) + 1}
    BY <1>2, <1>5
  <2>2. \A i \in 1..Len(t.pending) : t.pending[i] # f
    BY <1>2 DEF ToSet
  <2>3. \A i, j \in 1..Len(t.pending) : t.pending[i] = t.pending[j] => i = j
    BY <1>1, <1>2 DEF Table, Distinct
  <2>4. QED
    BY <1>4, <2>1, <2>2, <2>3 DEF Distinct
<1>8. PICK Q : Q = [s \in Streams |-> IF s = Stream[f] THEN f ELSE t.byStream[s]]
  OBVIOUS
<1>9. /\ Q \in [Streams -> Fallbacks \cup {None}]
      /\ \A s \in Streams : Q[s] = f \/ Q[s] = t.byStream[s]
  BY <1>2, <1>8
<1>10. PICK n \in Nat : n = Len(t.pending) + 1
  BY <1>2
<1>11. PICK H \in SUBSET Fallbacks : H = t.heap \cup {f}
  BY <1>2
<1>12. u = [t EXCEPT !.heap = H, !.pending = P, !.byStream = Q, !.pendingCount = n]
  BY <1>1, <1>2, <1>3, <1>8, <1>10, <1>11 DEF Pushed, TableType
<1>13. u \in TableType
  <2>1. [t EXCEPT !.heap = H, !.pending = P, !.byStream = Q, !.pendingCount = n] \in TableType
    BY Zenon, <1>1, <1>4, <1>9, <1>10, <1>11, PendingTyped
  <2>2. QED
    BY Zenon, <1>12, <2>1
<1>14. /\ u.pending = P /\ u.heap = H /\ u.byStream = Q /\ u.pendingCount = n
       /\ u.cancelled = t.cancelled /\ u.fate = t.fate /\ u.closed = t.closed
       /\ u.nativeRecent = t.nativeRecent /\ u.fallbackRecent = t.fallbackRecent
       /\ u.nativeCount = t.nativeCount /\ u.fallbackCount = t.fallbackCount
  BY <1>1, <1>12 DEF TableType
<1>15. Table(u)
  <2>1. H \subseteq ToSet(P) /\ ToSet(P) \cap t.cancelled = {}
    BY <1>1, <1>6, <1>11 DEF Table
  <2>2. \A g \in ToSet(P) : t.fate[g] = "open"
    BY <1>1, <1>6 DEF Table
  <2>3. \A s \in Streams : Q[s] # None => Q[s] \in ToSet(P) \cup t.cancelled
    BY <1>1, <1>6, <1>9 DEF Table
  <2>4. QED
    BY <1>1, <1>4, <1>7, <1>10, <1>13, <1>14, <2>1, <2>2, <2>3 DEF Table
<1>16. InLimits(u)
  BY <1>1, <1>4, <1>14, OneMore DEF Room
<1>17. \A g \in ToSet(u.pending) : B[g] + Delay <= MaxTime
  <2>1. f \in Records
    BY DEF Records
  <2>2. B[f] = now /\ \A g \in ToSet(t.pending) : g # f => B[g] = A[g]
    BY <2>1
  <2>3. QED
    BY <1>6, <1>14, <2>2 DEF TableOK
<1>18. ToSet(u.pending) \ u.heap \subseteq ToSet(S.due)
  BY <1>6, <1>11, <1>14 DEF TableOK
<1>19. TableOK(u, B, S)
  BY <1>14, <1>15, <1>16, <1>17, <1>18 DEF TableOK
<1>20. QED
  BY <1>6, <1>14, <1>19 DEF AddsWaiting

-----------------------------------------------------------------------------
(***************************************************************************)
(* The steps.                                                              *)
(***************************************************************************)
\* The initial state.
LEMMA InitInv == Init => IInv
<1> SUFFICES ASSUME Init PROVE IInv
  OBVIOUS
<1>1. \A T : <<>> \in Seq(T) /\ ToSet(<<>>) = {}
  BY DEF ToSet
<1>2. Len(<<>>) = 0 /\ Distinct(<<>>)
  BY DEF Distinct
<1>3. {CleanupInterval, MaxPending, MaxRecent, MaxRetained, MaxTime} \subseteq Nat
  BY FallbackAssumption
<1>4. c \in TableType
  <2>1. -CleanupInterval \in -CleanupInterval..MaxTime
    BY <1>3
  <2>2. [s \in Streams |-> None] \in [Streams -> Fallbacks \cup {None}]
    OBVIOUS
  <2>3. [f \in Fallbacks |-> "open"] \in [Fallbacks -> Fate]
    BY DEF Fate
  <2>4. QED
    BY <1>1, <2>1, <2>2, <2>3 DEF Init, TableType
<1>5. TypeOK
  <2>1. 0 \in 0..MaxTime
    BY <1>3
  <2>2. sched \in SchedType
    BY <1>1, <2>1 DEF Init, SchedType
  <2>3. flush \in FlushType
    BY <1>1 DEF Init, FlushType
  <2>4. QED
    BY <1>4, <2>1, <2>2, <2>3 DEF Init, TypeOK
<1>6. /\ c.pending = <<>> /\ c.heap = {} /\ c.cancelled = {} /\ c.closed = FALSE
      /\ c.nativeRecent = <<>> /\ c.fallbackRecent = <<>> /\ c.pendingCount = 0
      /\ c.nativeCount = 0 /\ c.fallbackCount = 0 /\ c.byStream = [s \in Streams |-> None]
      /\ c.fate = [f \in Fallbacks |-> "open"]
  BY DEF Init
<1>7. TableOK(c, arrived, sched)
  <2>1. Table(c)
    BY <1>1, <1>2, <1>4, <1>6 DEF Table
  <2>2. InLimits(c)
    BY <1>2, <1>3, <1>6 DEF InLimits
  <2>3. QED
    BY <1>1, <1>6, <2>1, <2>2 DEF TableOK
<1>8. sched.pc = "check" /\ sched.due = <<>> /\ flush.pc = "idle" /\ flush.taken = <<>>
  BY DEF Init
<1>9. Positions
  BY <1>6, <1>8 DEF Positions
<1>10. \A f \in Fallbacks : f \in Records
  BY DEF Records
<1>11. \A f \in Fallbacks : ~Held(sched, f)
  BY <1>8 DEF Held
<1>12. \A f \in Fallbacks : call[f] = "none" /\ counted[f] = 0 /\ c.fate[f] = "open"
  BY <1>6, <1>10 DEF Init
<1>13. OneEach
  BY <1>1, <1>2, <1>6, <1>8, <1>11, <1>12 DEF OneEach, Fates
<1>14. QED
  BY <1>5, <1>7, <1>9, <1>13 DEF IInv

\* Supersede.
LEMMA SupersedeStep ==
  ASSUME IInv, NEW f \in Fallbacks, Supersede(f)
  PROVE  IInv'
<1>1. TypeOK /\ TableOK(c, arrived, sched) /\ Positions /\ OneEach /\ Table(c)
  BY DEF IInv, TableOK
<1>2. /\ call[f] # "done" /\ f \in Records
      /\ call' = [call EXCEPT ![f] = "schedule"]
      /\ UNCHANGED <<now, sched, flush, arrived, requestAt, counted>>
  BY DEF Supersede, Records
<1>3. wake' \in BOOLEAN
  BY <1>1 DEF Supersede, TypeOK
<1>4. PICK t, u : t = c /\ u = c'
  OBVIOUS
<1>5. Shrinks(t, u)
  <2>1. CASE c.closed
    <3>1. u = t
      BY <1>4, <2>1 DEF Supersede
    <3>2. QED
      BY <1>1, <1>4, <3>1, ShrinksRefl
  <2>2. CASE ~c.closed
    <3>1. u = SupersededKeys(t, {Key[g] : g \in Earlier[f]}, f)
      BY <1>4, <2>2 DEF Supersede
    <3>2. IsFiniteSet({Key[g] : g \in Earlier[f]})
      <4>1. IsFiniteSet(Earlier[f])
        BY FallbackAssumption
      <4>2. QED
        BY <4>1, ImageIsFinite
    <3>3. Table(t)
      BY <1>1, <1>4
    <3>4. QED
      BY Zenon, <3>1, <3>2, <3>3, SupersedingIs
  <2>3. QED
    BY <2>1, <2>2
<1>6. TableOK(u, arrived, sched) /\ u.closed = t.closed /\ Decides(t, u) /\ u \in TableType
  <2>1. TableOK(t, arrived, sched) /\ Table(t)
    BY <1>1, <1>4
  <2>2. TableOK(u, arrived, sched)
    BY <1>5, <2>1, TableShrinks DEF TableOK
  <2>3. Decides(t, u)
    BY Zenon, <1>5, <2>1, ShrinksDecides
  <2>4. u.closed = t.closed /\ u \in TableType
    BY <1>5 DEF Shrinks, Table
  <2>5. QED
    BY <2>2, <2>3, <2>4
<1>7. /\ call' \in [Records -> {"none", "schedule", "record", "done"}]
      /\ \A g \in Fallbacks : call'[g] = "done" <=> call[g] = "done"
  BY <1>1, <1>2 DEF TypeOK, Records
<1>8. TypeOK'
  BY <1>1, <1>2, <1>3, <1>4, <1>6, <1>7 DEF TypeOK
<1>9. TableOK(c, arrived, sched)'
  BY <1>2, <1>4, <1>6
<1>10. Positions'
  BY <1>1, <1>2, <1>4, <1>6 DEF Positions
<1>11. OneEach'
  <2>1. PICK E : E = call'
    OBVIOUS
  <2>2. Fates(t, sched, flush, counted, call)
    BY <1>1, <1>4 DEF OneEach
  <2>3. Fates(u, sched, flush, counted, E)
    BY <1>6, <1>7, <2>1, <2>2, FatesDecided
  <2>4. QED
    BY <1>2, <1>4, <2>1, <2>3 DEF OneEach
<1>12. QED
  BY <1>8, <1>9, <1>10, <1>11 DEF IInv

\* The fates after an operation that loses pending records.
LEMMA FatesShrink ==
  ASSUME NEW t, Table(t), NEW u, Shrinks(t, u),
         NEW S, NEW F, NEW R, NEW D, Fates(t, S, F, R, D)
  PROVE  Fates(u, S, F, R, D)
<1>1. Decides(t, u)
  BY ShrinksDecides
<1>2. QED
  BY <1>1, FatesDecided

\* A record that is not pending arrives.
LEMMA ArrivedTable ==
  ASSUME NEW t, NEW A \in [Records -> 0..MaxTime], NEW S, TableOK(t, A, S),
         NEW f \in Records, f \notin ToSet(t.pending), NEW n, NEW B, B = [A EXCEPT ![f] = n]
  PROVE  TableOK(t, B, S)
<1>1. ToSet(t.pending) \subseteq Records
  BY TableLists DEF TableOK, Table, Records
<1>2. \A g \in ToSet(t.pending) : B[g] = A[g]
  BY <1>1
<1>3. QED
  BY <1>2 DEF TableOK

\* A callback was made when the clock was not further than now.
LEMMA CallbacksPast ==
  ASSUME now \in 0..MaxTime
  PROVE  Callbacks \subseteq 0..MaxTime
  BY FallbackAssumption DEF Callbacks

\* The searches find a position of their list or none.
LEMMA NativeMatchIs ==
  ASSUME NEW t \in TableType, NEW f, NEW at, NEW k, k = NativeMatch(t, f, at)
  PROVE  k \in 0..Len(t.nativeRecent)
<1> DEFINE I == {i \in 1..Len(t.nativeRecent) :
                   /\ now - t.nativeRecent[i].seen <= NativeWindow
                   /\ Compatible(f, t.nativeRecent[i].record)
                   /\ TimeCompatible(requestAt[t.nativeRecent[i].record], at)}
<1>1. k = IF I # {} THEN Min(I) ELSE 0
  BY DEF NativeMatch, SelectInSeq
<1>2. I \in SUBSET (1..Len(t.nativeRecent)) /\ Len(t.nativeRecent) \in Nat
  BY TableLists
<1> HIDE DEF I
<1>3. QED
  BY <1>1, <1>2, FoundIs

\* That among the pending records.
LEMMA PendingMatchIs ==
  ASSUME NEW t \in TableType, NEW n, NEW k, k = PendingMatch(t, n)
  PROVE  k \in 0..Len(t.pending)
<1> DEFINE I == {i \in 1..Len(t.pending) :
                   t.pending[i] \notin t.cancelled /\ Compatible(t.pending[i], n)}
<1>1. k = IF I # {} THEN Min(I) ELSE 0
  BY DEF PendingMatch, SelectInSeq
<1>2. I \in SUBSET (1..Len(t.pending)) /\ Len(t.pending) \in Nat
  BY TableLists
<1> HIDE DEF I
<1>3. QED
  BY <1>1, <1>2, FoundIs

\* That among the counted fallback records.
LEMMA FallbackMatchIs ==
  ASSUME NEW t \in TableType, NEW n, NEW at, NEW k, k = FallbackMatch(t, n, at)
  PROVE  k \in 0..Len(t.fallbackRecent)
<1> DEFINE I == {i \in 1..Len(t.fallbackRecent) :
                   /\ now - t.fallbackRecent[i].seen <= LateWindow
                   /\ Compatible(t.fallbackRecent[i].record, n)
                   /\ \/ TimeCompatible(at, requestAt[t.fallbackRecent[i].record])
                      \/ at <= t.fallbackRecent[i].seen + NativeWindow}
<1>1. k = IF I # {} THEN Min(I) ELSE 0
  BY DEF FallbackMatch, SelectInSeq
<1>2. I \in SUBSET (1..Len(t.fallbackRecent)) /\ Len(t.fallbackRecent) \in Nat
  BY TableLists
<1> HIDE DEF I
<1>3. QED
  BY <1>1, <1>2, FoundIs

\* t after a native record, the i-th, was matched with f.
Matched(t, i, f) ==
  [t EXCEPT !.nativeRecent = RemoveAt(@, i), !.nativeCount = AtLeast0(@ - 1),
            !.fate[f] = "native"]

\* scheduleForStats with a table t that a cleanup left of c, and a table u after
\* it: a native record was there ...
LEMMA ScheduleMatched ==
  ASSUME IInv, NEW f \in Fallbacks, call[f] # "done", NEW E, E = [call EXCEPT ![f] = "done"],
         NEW t, t = Cleaned(c), NEW at,
         NEW i, i = NativeMatch(t, f, at), i # 0,
         NEW u, u = Matched(t, i, f)
  PROVE  /\ TableOK(u, arrived, sched) /\ u.closed = c.closed /\ f \notin ToSet(u.pending)
         /\ Fates(u, sched, flush, counted, E)
<1>1. PICK b : b = c
  OBVIOUS
<1>2. /\ TableOK(b, arrived, sched) /\ Table(b) /\ now \in 0..MaxTime
      /\ Fates(b, sched, flush, counted, call)
      /\ call \in [Records -> {"none", "schedule", "record", "done"}]
  BY <1>1 DEF IInv, TableOK, TypeOK, OneEach
<1>3. Shrinks(b, t)
  BY <1>1, <1>2, CleanedIs
<1>4. Table(t) /\ t \in TableType
  BY <1>3 DEF Shrinks, Table
<1>5. i \in 1..Len(t.nativeRecent)
  <2>1. i \in 0..Len(t.nativeRecent) /\ Len(t.nativeRecent) \in Nat
    BY <1>4, NativeMatchIs, TableLists
  <2>2. QED
    BY <2>1
<1>6. PICK v : v = [t EXCEPT !.nativeRecent = RemoveAt(@, i), !.nativeCount = AtLeast0(@ - 1)]
  OBVIOUS
<1>7. Shrinks(t, v)
  BY Zenon, <1>4, <1>5, <1>6, TakenIs
<1>8. Shrinks(b, v)
  BY <1>2, <1>3, <1>7, ShrinksTrans
<1>9. TableOK(v, arrived, sched)
  BY <1>2, <1>8, TableShrinks DEF TableOK
<1>10. Fates(v, sched, flush, counted, call)
  BY <1>2, <1>8, FatesShrink
<1>11. f \notin ToSet(v.pending)
  BY <1>10, ArrivingIs
<1>12. PICK x \in Fate : x = "native" /\ x # "open"
  BY DEF Fate
<1>13. u = [v EXCEPT !.fate[f] = x]
  BY <1>4, <1>6, <1>12 DEF Matched, TableType
<1>14. TableOK(u, arrived, sched) /\ GivesFate(v, u, f)
  BY Zenon, <1>9, <1>11, <1>12, <1>13, FateGivenIs
<1>15. Fates(u, sched, flush, counted, E)
  BY <1>2, <1>10, <1>14, FatesGiven
<1>16. u.closed = c.closed
  BY <1>1, <1>8, <1>14 DEF Shrinks, GivesFate
<1>17. QED
  BY <1>11, <1>14, <1>15, <1>16 DEF GivesFate

\* ... or there was none, and the record waits.
LEMMA SchedulePushed ==
  ASSUME IInv, NEW f \in Fallbacks, call[f] # "done", NEW E, E = [call EXCEPT ![f] = "done"],
         NEW t, t = Cleaned(c), ~c.closed,
         now + Delay <= MaxTime,
         NEW u, u = WithoutPrevious(t, f),
         NEW v \in (IF u.pendingCount >= MaxPending THEN EvictPending(u) ELSE {u}),
         NEW w \in MakeRoom(v), NEW x, x = Pushed(w, f),
         NEW B, B = [arrived EXCEPT ![f] = now]
  PROVE  /\ TableOK(x, B, sched) /\ x.closed = c.closed
         /\ Fates(x, sched, flush, counted, E)
<1>1. PICK b : b = c
  OBVIOUS
<1>2. /\ TableOK(b, arrived, sched) /\ Table(b) /\ now \in 0..MaxTime
      /\ Fates(b, sched, flush, counted, call)
      /\ call \in [Records -> {"none", "schedule", "record", "done"}]
      /\ arrived \in [Records -> 0..MaxTime]
  BY <1>1 DEF IInv, TableOK, TypeOK, OneEach
<1>3. Shrinks(b, t)
  BY <1>1, <1>2, CleanedIs
<1>4. Shrinks(t, u)
  <2>1. Table(t)
    BY <1>3 DEF Shrinks
  <2>2. QED
    BY Zenon, <2>1, WithoutPreviousIs
<1>5. Shrinks(b, u)
  BY <1>2, <1>3, <1>4, ShrinksTrans
<1>6. TableOK(u, arrived, sched)
  BY <1>2, <1>5, TableShrinks DEF TableOK
<1>7. Shrinks(u, w) /\ TableOK(w, arrived, sched) /\ Room(w, Len(w.pending), MaxPending)
  BY <1>6, PendingRoom
<1>8. Shrinks(b, w)
  BY <1>2, <1>5, <1>7, ShrinksTrans
<1>9. Fates(w, sched, flush, counted, call)
  BY <1>2, <1>8, FatesShrink
<1>10. f \notin ToSet(w.pending) /\ w.fate[f] = "open" /\ f \notin w.cancelled
  BY <1>9, ArrivingIs
<1>11. ~w.closed
  BY <1>1, <1>8 DEF Shrinks
<1>12. arrived \in [Records -> Nat]
  <2>1. 0..MaxTime \subseteq Nat
    OBVIOUS
  <2>2. QED
    BY <1>2, <2>1
<1>13. TableOK(x, B, sched) /\ AddsWaiting(w, x, f)
  BY Zenon, <1>2, <1>7, <1>10, <1>11, <1>12, PushedIs
<1>14. Fates(x, sched, flush, counted, E)
  BY Zenon, <1>2, <1>9, <1>13, FatesPushed
<1>15. x.closed = c.closed
  BY <1>1, <1>8, <1>13 DEF Shrinks, AddsWaiting
<1>16. QED
  BY <1>13, <1>14, <1>15

\* A record that comes after Flush is refused.
LEMMA ScheduleRefused ==
  ASSUME IInv, NEW f \in Fallbacks, call[f] # "done", NEW E, E = [call EXCEPT ![f] = "done"],
         NEW u, u = [c EXCEPT !.fate[f] = "refused"]
  PROVE  /\ TableOK(u, arrived, sched) /\ u.closed = c.closed /\ f \notin ToSet(u.pending)
         /\ Fates(u, sched, flush, counted, E)
<1>1. PICK b : b = c
  OBVIOUS
<1>2. /\ TableOK(b, arrived, sched) /\ Fates(b, sched, flush, counted, call)
      /\ call \in [Records -> {"none", "schedule", "record", "done"}]
  BY <1>1 DEF IInv, TypeOK, OneEach
<1>3. f \notin ToSet(b.pending)
  BY <1>2, ArrivingIs
<1>4. PICK x \in Fate : x = "refused" /\ x # "open"
  BY DEF Fate
<1>5. u = [b EXCEPT !.fate[f] = x]
  BY <1>1, <1>4
<1>6. TableOK(u, arrived, sched) /\ GivesFate(b, u, f)
  BY Zenon, <1>2, <1>3, <1>4, <1>5, FateGivenIs
<1>7. Fates(u, sched, flush, counted, E)
  BY Zenon, <1>2, <1>6, FatesGiven
<1>8. QED
  BY <1>1, <1>3, <1>6, <1>7 DEF GivesFate

\* scheduleForStats.
LEMMA ScheduleStep ==
  ASSUME IInv, NEW f \in Fallbacks, Schedule(f)
  PROVE  IInv'
<1>1. /\ TypeOK /\ Positions /\ now \in 0..MaxTime /\ arrived \in [Records -> 0..MaxTime]
      /\ requestAt \in [Records -> 0..MaxTime]
      /\ call \in [Records -> {"none", "schedule", "record", "done"}]
  BY DEF IInv, TypeOK
<1>2. PICK u, B, E : u = c' /\ B = arrived' /\ E = call'
  OBVIOUS
<1>3. /\ call[f] # "done" /\ f \in Records
      /\ E = [call EXCEPT ![f] = "done"] /\ B = [arrived EXCEPT ![f] = now]
      /\ now + Delay <= MaxTime
      /\ UNCHANGED <<now, sched, flush, counted>>
  BY <1>2 DEF Schedule, Records
<1>4. wake' \in BOOLEAN
  BY <1>1 DEF Schedule, TypeOK, WasHead
<1>d. PICK at \in DecodedAt(f) :
        LET t == Cleaned(c)
            i == NativeMatch(t, f, at)
        IN
        /\ requestAt' = [requestAt EXCEPT ![f] = at]
        /\ \/ c.closed /\ u = [c EXCEPT !.fate[f] = "refused"]
           \/ ~c.closed /\ i # 0 /\ u = Matched(t, i, f)
           \/ /\ ~c.closed
              /\ \E v \in IF WithoutPrevious(t, f).pendingCount >= MaxPending
                          THEN EvictPending(WithoutPrevious(t, f))
                          ELSE {WithoutPrevious(t, f)} :
                   \E w \in MakeRoom(v) : u = Pushed(w, f)
  BY <1>2 DEF Schedule, Matched
<1>5. TableOK(u, B, sched) /\ u.closed = c.closed /\ Fates(u, sched, flush, counted, E)
  <2> DEFINE t == Cleaned(c)
             i == NativeMatch(t, f, at)
  <2>1. CASE c.closed /\ u = [c EXCEPT !.fate[f] = "refused"]
    <3>1. /\ TableOK(u, arrived, sched) /\ u.closed = c.closed /\ f \notin ToSet(u.pending)
          /\ Fates(u, sched, flush, counted, E)
      BY <1>3, <2>1, ScheduleRefused
    <3>2. TableOK(u, B, sched)
      BY <1>1, <1>3, <3>1, ArrivedTable
    <3>3. QED
      BY <3>1, <3>2
  <2>2. CASE /\ ~c.closed /\ i # 0
             /\ u = Matched(t, i, f)
    <3> HIDE DEF t, i
    <3>1. PICK s, k : s = t /\ k = i
      OBVIOUS
    <3>2. /\ s = Cleaned(c) /\ k = NativeMatch(s, f, at) /\ k # 0
          /\ u = Matched(s, k, f)
      BY <2>2, <3>1 DEF t, i
    <3>3. /\ TableOK(u, arrived, sched) /\ u.closed = c.closed /\ f \notin ToSet(u.pending)
          /\ Fates(u, sched, flush, counted, E)
      BY Zenon, <1>3, <3>2, ScheduleMatched
    <3>4. TableOK(u, B, sched)
      BY <1>1, <1>3, <3>3, ArrivedTable
    <3>5. QED
      BY <3>3, <3>4
  <2>3. CASE /\ ~c.closed
             /\ \E v \in IF WithoutPrevious(t, f).pendingCount >= MaxPending
                         THEN EvictPending(WithoutPrevious(t, f)) ELSE {WithoutPrevious(t, f)} :
                  \E w \in MakeRoom(v) : u = Pushed(w, f)
    <3> HIDE DEF t, i
    <3>1. PICK s, r : s = t /\ r = WithoutPrevious(s, f)
      OBVIOUS
    <3>2. PICK v \in IF r.pendingCount >= MaxPending THEN EvictPending(r) ELSE {r} :
                 \E w \in MakeRoom(v) : u = Pushed(w, f)
      BY <2>3, <3>1
    <3>3. PICK w \in MakeRoom(v) : u = Pushed(w, f)
      BY <3>2
    <3>4. s = Cleaned(c)
      BY <3>1 DEF t
    <3>5. QED
      BY <1>3, <2>3, <3>1, <3>2, <3>3, <3>4, SchedulePushed
  <2>4. QED
    BY <1>d, <2>1, <2>2, <2>3
<1>6. /\ B \in [Records -> 0..MaxTime] /\ requestAt' \in [Records -> 0..MaxTime]
      /\ E \in [Records -> {"none", "schedule", "record", "done"}]
  <2>1. at \in 0..MaxTime
    BY <1>1, CallbacksPast DEF DecodedAt
  <2>2. requestAt' = [requestAt EXCEPT ![f] = at]
    BY <1>d
  <2>3. QED
    BY <1>1, <1>3, <2>1, <2>2
<1>7. u \in TableType
  BY <1>5 DEF TableOK, Table
<1>8. TypeOK'
  BY <1>1, <1>2, <1>3, <1>4, <1>6, <1>7 DEF TypeOK
<1>9. TableOK(c, arrived, sched)'
  BY <1>2, <1>3, <1>5
<1>10. Positions'
  <2>1. u.pending = u.pending /\ c'.closed = c.closed
    BY <1>2, <1>5
  <2>2. QED
    BY <1>1, <1>3, <2>1 DEF Positions
<1>11. OneEach'
  BY <1>2, <1>3, <1>5 DEF OneEach
<1>12. QED
  BY <1>8, <1>9, <1>10, <1>11 DEF IInv

\* HandleNativeForStats with a table t that a cleanup left of c: a pending record
\* is taken ...
LEMMA NativeTakes ==
  ASSUME IInv, NEW n, NEW t, t = Cleaned(c), NEW i, i = PendingMatch(t, n), i # 0,
         NEW u, u = RemovePending(Cancel(t, t.pending[i], "native"), t.pending[i])
  PROVE  Shrinks(c, u)
<1>1. PICK b : b = c
  OBVIOUS
<1>2. Table(b) /\ now \in 0..MaxTime
  BY <1>1 DEF IInv, TableOK, TypeOK
<1>3. Shrinks(b, t)
  BY <1>1, <1>2, CleanedIs
<1>4. Table(t) /\ t \in TableType
  BY <1>3 DEF Shrinks, Table
<1>5. PICK f : f = t.pending[i]
  OBVIOUS
<1>6. f \in ToSet(t.pending)
  <2>1. i \in 0..Len(t.pending) /\ Len(t.pending) \in Nat /\ t.pending \in Seq(Fallbacks)
    BY <1>4, PendingMatchIs, TableLists, TableFields
  <2>2. i \in DOMAIN t.pending
    BY <2>1
  <2>3. QED
    BY <1>5, <2>2 DEF ToSet
<1>7. PICK x \in Fate : x = "native" /\ x # "open"
  BY DEF Fate
<1>8. u = RemovePending(Cancel(t, f, x), f)
  BY <1>5, <1>7
<1>9. Leaves(t, u, f)
  BY Zenon, <1>4, <1>6, <1>7, <1>8, CancelledIs
<1>10. Shrinks(t, u)
  BY <1>9 DEF Leaves
<1>11. QED
  BY <1>1, <1>2, <1>3, <1>10, ShrinksTrans

\* t without the i-th counted fallback record.
Met(t, i) ==
  [t EXCEPT !.fallbackRecent = RemoveAt(@, i), !.fallbackCount = AtLeast0(@ - 1)]

\* ... or a counted one is met, and the native record not counted ...
LEMMA NativeMeets ==
  ASSUME IInv, NEW n, NEW at, NEW t, t = Cleaned(c),
         NEW j, j = FallbackMatch(t, n, at), j # 0, NEW u, u = Met(t, j)
  PROVE  Shrinks(c, u)
<1>1. PICK b : b = c
  OBVIOUS
<1>2. Table(b) /\ now \in 0..MaxTime
  BY <1>1 DEF IInv, TableOK, TypeOK
<1>3. Shrinks(b, t)
  BY <1>1, <1>2, CleanedIs
<1>4. Table(t) /\ t \in TableType
  BY <1>3 DEF Shrinks, Table
<1>5. j \in 1..Len(t.fallbackRecent)
  <2>1. j \in 0..Len(t.fallbackRecent) /\ Len(t.fallbackRecent) \in Nat
    BY <1>4, FallbackMatchIs, TableLists
  <2>2. QED
    BY <2>1
<1>6. u = [t EXCEPT !.fallbackRecent = RemoveAt(@, j), !.fallbackCount = AtLeast0(@ - 1)]
  BY DEF Met
<1>7. Shrinks(t, u)
  BY Zenon, <1>4, <1>5, <1>6, TakenIs
<1>8. QED
  BY <1>1, <1>2, <1>3, <1>7, ShrinksTrans

\* t with a native record remembered.
WithNative(t, n) ==
  [t EXCEPT !.nativeRecent = Remember(@, [record |-> n, seen |-> now]), !.nativeCount = @ + 1]

\* ... or it is remembered.
LEMMA NativeWaits ==
  ASSUME IInv, NEW n \in Natives, NEW t, t = Cleaned(c),
         NEW u \in (IF t.nativeCount >= MaxRecent THEN EvictNative(t) ELSE {t}),
         NEW v \in MakeRoom(u), NEW w, w = WithNative(v, n)
  PROVE  /\ TableOK(w, arrived, sched) /\ w.closed = c.closed
         /\ Fates(w, sched, flush, counted, call)
<1>1. PICK b : b = c
  OBVIOUS
<1>2. /\ TableOK(b, arrived, sched) /\ Table(b) /\ now \in 0..MaxTime
      /\ Fates(b, sched, flush, counted, call)
  BY <1>1 DEF IInv, TableOK, TypeOK, OneEach
<1>3. Shrinks(b, t)
  BY <1>1, <1>2, CleanedIs
<1>4. TableOK(t, arrived, sched)
  BY <1>2, <1>3, TableShrinks DEF TableOK
<1>5. Shrinks(t, v) /\ TableOK(v, arrived, sched) /\ Room(v, Len(v.nativeRecent), MaxRecent)
  BY <1>4, NativeRoom
<1>6. Shrinks(b, v)
  BY <1>2, <1>3, <1>5, ShrinksTrans
<1>7. Fates(v, sched, flush, counted, call)
  BY <1>2, <1>6, FatesShrink
<1>8. PICK L : L = Remember(v.nativeRecent, [record |-> n, seen |-> now])
  OBVIOUS
<1>9. w = [v EXCEPT !.nativeRecent = L, !.nativeCount = @ + 1]
  BY <1>5, <1>8 DEF WithNative, TableOK, Table, TableType
<1>10. TableOK(w, arrived, sched) /\ SamePending(v, w)
  <2>1. n \in Records
    BY DEF Records
  <2>2. QED
    BY Zenon, <1>2, <1>5, <1>8, <1>9, <2>1, NativeRemembered
<1>11. Fates(w, sched, flush, counted, call)
  BY <1>7, <1>10 DEF Fates, SamePending
<1>12. QED
  BY <1>1, <1>6, <1>10, <1>11 DEF Shrinks, SamePending

\* HandleNativeForStats.
LEMMA NativeStep ==
  ASSUME IInv, NEW n \in Natives, HandleNative(n)
  PROVE  IInv'
<1>1. /\ TypeOK /\ Positions /\ now \in 0..MaxTime /\ arrived \in [Records -> 0..MaxTime]
      /\ requestAt \in [Records -> 0..MaxTime] /\ wake \in BOOLEAN
      /\ call \in [Records -> {"none", "schedule", "record", "done"}]
      /\ TableOK(c, arrived, sched) /\ Table(c) /\ Fates(c, sched, flush, counted, call)
  BY DEF IInv, TypeOK, TableOK, OneEach
<1>2. PICK u, B, E : u = c' /\ B = arrived' /\ E = call'
  OBVIOUS
<1>3. n \in Records /\ n \notin Fallbacks
  BY FallbackAssumption DEF Records
<1>4. /\ B = [arrived EXCEPT ![n] = now]
      /\ UNCHANGED <<now, sched, flush, counted>>
      /\ wake' \in BOOLEAN
      /\ E = [call EXCEPT ![n] = "record"] \/ E = [call EXCEPT ![n] = "done"]
  BY <1>1, <1>2 DEF HandleNative
<1>5. PICK at \in {0} \cup Callbacks :
        LET t == Cleaned(c) IN
        /\ requestAt' = [requestAt EXCEPT ![n] = at]
        /\ \/ /\ PendingMatch(t, n) # 0
              /\ u = RemovePending(Cancel(t, t.pending[PendingMatch(t, n)], "native"),
                                   t.pending[PendingMatch(t, n)])
           \/ FallbackMatch(t, n, at) # 0 /\ u = Met(t, FallbackMatch(t, n, at))
           \/ \E v \in IF t.nativeCount >= MaxRecent THEN EvictNative(t) ELSE {t} :
                \E w \in MakeRoom(v) : u = WithNative(w, n)
  BY <1>2 DEF HandleNative, Met, WithNative
<1>6. PICK t : t = Cleaned(c)
  OBVIOUS
<1>7. TableOK(u, arrived, sched) /\ u.closed = c.closed /\ Fates(u, sched, flush, counted, call)
  <2>1. PICK i, j, b : i = PendingMatch(t, n) /\ j = FallbackMatch(t, n, at) /\ b = c
    OBVIOUS
  <2>2. CASE i # 0 /\ u = RemovePending(Cancel(t, t.pending[i], "native"), t.pending[i])
    <3>1. Shrinks(b, u)
      BY Zenon, <1>6, <2>1, <2>2, NativeTakes
    <3>2. TableOK(u, arrived, sched)
      BY <1>1, <2>1, <3>1, TableShrinks DEF TableOK
    <3>3. Fates(u, sched, flush, counted, call)
      BY <1>1, <2>1, <3>1, FatesShrink
    <3>4. QED
      BY <2>1, <3>1, <3>2, <3>3 DEF Shrinks
  <2>3. CASE j # 0 /\ u = Met(t, j)
    <3>1. Shrinks(b, u)
      BY Zenon, <1>6, <2>1, <2>3, NativeMeets
    <3>2. TableOK(u, arrived, sched)
      BY <1>1, <2>1, <3>1, TableShrinks DEF TableOK
    <3>3. Fates(u, sched, flush, counted, call)
      BY <1>1, <2>1, <3>1, FatesShrink
    <3>4. QED
      BY <2>1, <3>1, <3>2, <3>3 DEF Shrinks
  <2>4. CASE \E v \in IF t.nativeCount >= MaxRecent THEN EvictNative(t) ELSE {t} :
               \E w \in MakeRoom(v) : u = WithNative(w, n)
    <3>1. PICK v \in IF t.nativeCount >= MaxRecent THEN EvictNative(t) ELSE {t} :
                 \E w \in MakeRoom(v) : u = WithNative(w, n)
      BY <2>4
    <3>2. PICK w \in MakeRoom(v) : u = WithNative(w, n)
      BY <3>1
    <3>3. QED
      BY <1>6, <3>1, <3>2, NativeWaits
  <2>5. QED
    BY <1>5, <1>6, <2>1, <2>2, <2>3, <2>4
<1>8. /\ B \in [Records -> 0..MaxTime] /\ requestAt' \in [Records -> 0..MaxTime]
      /\ E \in [Records -> {"none", "schedule", "record", "done"}]
      /\ \A g \in Fallbacks : E[g] = call[g] /\ B[g] = arrived[g]
  <2>1. requestAt' \in [Records -> 0..MaxTime]
    <3>1. requestAt' = [requestAt EXCEPT ![n] = at] /\ (at = 0 \/ at \in Callbacks)
      BY Zenon, <1>5
    <3>2. at \in 0..MaxTime
      <4>1. 0 \in 0..MaxTime
        BY FallbackAssumption
      <4>2. QED
        BY Zenon, <1>1, <3>1, <4>1, CallbacksPast
    <3>3. QED
      BY <1>1, <3>1, <3>2
  <2>2. \A g \in Fallbacks : g \in Records /\ g # n
    BY <1>3 DEF Records
  <2>3. QED
    BY <1>1, <1>3, <1>4, <2>1, <2>2
<1>9. u \in TableType /\ ToSet(u.pending) \subseteq Fallbacks
  BY <1>7, TableLists DEF TableOK, Table
<1>10. TypeOK'
  BY <1>1, <1>2, <1>4, <1>8, <1>9 DEF TypeOK
<1>11. TableOK(c, arrived, sched)'
  <2>1. TableOK(u, B, sched)
    BY <1>7, <1>8, <1>9 DEF TableOK
  <2>2. QED
    BY <1>2, <1>4, <2>1
<1>12. Positions'
  <2>1. c'.closed = c.closed
    BY <1>2, <1>7
  <2>2. QED
    BY <1>1, <1>4, <2>1 DEF Positions
<1>13. OneEach'
  <2>1. Fates(u, sched, flush, counted, E)
    BY <1>7, <1>8 DEF Fates
  <2>2. QED
    BY <1>2, <1>4, <2>1 DEF OneEach
<1>14. QED
  BY <1>10, <1>11, <1>12, <1>13 DEF IInv

\* The native record is counted.
LEMMA RecordNativeStep ==
  ASSUME IInv, NEW n \in Natives, RecordNative(n)
  PROVE  IInv'
<1>1. /\ TypeOK /\ Positions /\ counted \in [Records -> Nat]
      /\ call \in [Records -> {"none", "schedule", "record", "done"}]
      /\ TableOK(c, arrived, sched) /\ Fates(c, sched, flush, counted, call)
  BY DEF IInv, TypeOK, OneEach
<1>2. PICK Q, E : Q = counted' /\ E = call'
  OBVIOUS
<1>3. n \in Records /\ \A g \in Fallbacks : g \in Records /\ g # n
  BY FallbackAssumption DEF Records
<1>4. /\ Q = [counted EXCEPT ![n] = @ + 1] /\ E = [call EXCEPT ![n] = "done"]
      /\ UNCHANGED <<now, c, wake, sched, flush, arrived, requestAt>>
  BY <1>2 DEF RecordNative
<1>5. Q \in [Records -> Nat] /\ \A g \in Fallbacks : Q[g] = counted[g]
  BY <1>1, <1>3, <1>4
<1>6. /\ E \in [Records -> {"none", "schedule", "record", "done"}]
      /\ \A g \in Fallbacks : E[g] = call[g]
  BY <1>1, <1>3, <1>4
<1>7. TypeOK'
  BY <1>1, <1>2, <1>4, <1>5, <1>6 DEF TypeOK
<1>8. TableOK(c, arrived, sched)' /\ Positions'
  BY <1>1, <1>4 DEF Positions
<1>9. OneEach'
  <2>1. Fates(c, sched, flush, Q, E)
    BY <1>1, <1>5, <1>6 DEF Fates
  <2>2. QED
    BY <1>2, <1>4, <2>1 DEF OneEach
<1>10. QED
  BY <1>7, <1>8, <1>9 DEF IInv

\* The scheduler goes on without touching the tables.
LEMMA SchedulerMoves ==
  ASSUME IInv, NEW P \in SchedType, sched' = P,
         P.pc \notin {"commit", "record"} /\ P.due = <<>>,
         sched.pc \notin {"commit", "record", "done"} \/ (sched.due = <<>> /\ sched.pc = "commit"),
         wake' \in BOOLEAN,
         UNCHANGED <<now, c, flush, call, arrived, requestAt, counted>>
  PROVE  IInv'
<1>1. /\ TypeOK /\ Positions /\ TableOK(c, arrived, sched)
      /\ Fates(c, sched, flush, counted, call)
  BY DEF IInv, OneEach
<1>2. sched.due = <<>> /\ sched.pc # "record" /\ sched.pc # "done"
  BY <1>1 DEF Positions
<1>3. \A f \in Fallbacks : ~Held(P, f) /\ ~Held(sched, f)
  BY <1>2 DEF Held
<1>4. TypeOK'
  BY <1>1 DEF TypeOK
<1>5. TableOK(c, arrived, P)
  BY <1>1, <1>2 DEF TableOK
<1>6. Fates(c, P, flush, counted, call)
  BY <1>1, <1>2, <1>3 DEF Fates
<1>7. TableOK(c, arrived, sched)' /\ OneEach'
  BY <1>5, <1>6 DEF OneEach
<1>8. Positions'
  BY <1>1, <1>2 DEF Positions
<1>9. QED
  BY <1>4, <1>7, <1>8 DEF IInv

\* SchedCheck.
LEMMA CheckStep ==
  ASSUME IInv, SchedCheck
  PROVE  IInv'
<1>1. /\ TypeOK /\ Positions /\ TableOK(c, arrived, sched) /\ Table(c)
      /\ Fates(c, sched, flush, counted, call) /\ sched \in SchedType
      /\ now \in 0..MaxTime /\ arrived \in [Records -> 0..MaxTime]
  BY DEF IInv, TypeOK, TableOK, OneEach
<1>2. PICK b, u, P : b = c /\ u = c' /\ P = sched'
  OBVIOUS
<1>3. sched.pc = "check" /\ UNCHANGED <<now, wake, flush, call, arrived, requestAt, counted>>
  BY DEF SchedCheck
<1>4. sched.due = <<>>
  BY <1>1, <1>3 DEF Positions
<1>5. PICK t : t = Cleaned(c)
  OBVIOUS
<1>6. \/ c.closed /\ P = [sched EXCEPT !.pc = "done"] /\ u = b
      \/ ~c.closed /\ u = t /\ P = [sched EXCEPT !.pc = "idle"]
      \/ ~c.closed /\ u = t /\ t.heap # {} /\ P = [sched EXCEPT !.pc = "pop"]
      \/ /\ ~c.closed /\ u = t /\ t.heap # {}
         /\ P = [sched EXCEPT !.pc = "sleep", !.until = Deadline(HeapHead(t))]
  BY Zenon, <1>2, <1>5 DEF SchedCheck
<1>7. Shrinks(b, t)
  BY <1>1, <1>2, <1>5, CleanedIs
<1>8. Shrinks(b, u)
  BY <1>1, <1>2, <1>6, <1>7, ShrinksRefl
<1>9. TableOK(t, arrived, sched)
  BY <1>1, <1>2, <1>7, TableShrinks DEF TableOK
<1>10. t.heap # {} => Deadline(HeapHead(t)) \in 0..MaxTime
  <2>1. SUFFICES ASSUME t.heap # {} PROVE Deadline(HeapHead(t)) \in 0..MaxTime
    OBVIOUS
  <2>2. PICK f : f = HeapHead(t)
    OBVIOUS
  <2>3. f \in ToSet(t.pending)
    BY <1>9, <2>1, <2>2, HeapHeadIs DEF TableOK
  <2>4. arrived[f] + Delay <= MaxTime
    BY <1>9, <2>3 DEF TableOK
  <2>5. f \in Records
    BY <1>9, <2>3, TableLists DEF TableOK, Table, Records
  <2>6. arrived[f] \in 0..MaxTime
    BY <1>1, <2>5
  <2>7. arrived[f] + Delay \in 0..MaxTime
    BY <2>4, <2>6, FallbackAssumption
  <2>8. QED
    BY <2>2, <2>7 DEF Deadline
<1>11. /\ P \in SchedType /\ P.due = <<>>
       /\ P.pc \in {"done", "idle", "pop", "sleep"} /\ (P.pc = "done" => c.closed)
  BY <1>1, <1>4, <1>6, <1>10 DEF SchedType
<1>12. \A f \in Fallbacks : ~Held(P, f) /\ ~Held(sched, f)
  BY <1>3, <1>11 DEF Held
<1>13. TableOK(u, arrived, P) /\ u.closed = c.closed /\ u \in TableType
  <2>1. ToSet(b.pending) \ b.heap \subseteq ToSet(P.due)
    BY <1>1, <1>2, <1>4, <1>11 DEF TableOK
  <2>2. TableOK(u, arrived, P)
    BY <1>1, <1>2, <1>8, <2>1, TableShrinks
  <2>3. QED
    BY <1>2, <1>8, <2>2 DEF Shrinks, Table
<1>14. Fates(u, P, flush, counted, call)
  <2>1. Fates(b, P, flush, counted, call)
    BY <1>1, <1>2, <1>4, <1>11, <1>12 DEF Fates
  <2>2. QED
    BY <1>1, <1>2, <1>8, <2>1, FatesShrink
<1>15. TypeOK'
  BY <1>1, <1>2, <1>3, <1>11, <1>13 DEF TypeOK
<1>16. TableOK(c, arrived, sched)' /\ OneEach'
  BY <1>2, <1>3, <1>13, <1>14 DEF OneEach
<1>17. Positions'
  <2>1. c'.closed = c.closed
    BY <1>2, <1>13
  <2>2. QED
    BY <1>1, <1>2, <1>3, <1>11, <2>1 DEF Positions
<1>18. QED
  BY <1>15, <1>16, <1>17 DEF IInv

\* The scheduler wakes, its timer expires, it is stopped, or it has done a batch.
LEMMA MoveSteps ==
  ASSUME IInv, SchedWake \/ SchedTimer \/ SchedStop \/ CommitEnd
  PROVE  IInv'
<1>1. sched \in SchedType /\ Positions /\ wake \in BOOLEAN
  BY DEF IInv, TypeOK
<1>2. PICK P : P = sched'
  OBVIOUS
<1>3. /\ UNCHANGED <<now, c, flush, call, arrived, requestAt, counted>> /\ wake' \in BOOLEAN
      /\ \/ P = [sched EXCEPT !.pc = "check"] \/ P = [sched EXCEPT !.pc = "pop"]
         \/ P = [sched EXCEPT !.pc = "done"]
      /\ sched.pc \notin {"commit", "record", "done"} \/ (sched.due = <<>> /\ sched.pc = "commit")
  <2>1. CASE SchedWake
    BY <1>2, <2>1 DEF SchedWake
  <2>2. CASE SchedTimer
    BY <1>1, <1>2, <2>2 DEF SchedTimer
  <2>3. CASE SchedStop
    BY <1>1, <1>2, <2>3 DEF SchedStop
  <2>4. CASE CommitEnd
    BY <1>1, <1>2, <2>4 DEF CommitEnd
  <2>5. QED
    BY <2>1, <2>2, <2>3, <2>4
<1>4. sched.due = <<>>
  BY <1>1, <1>3 DEF Positions
<1>5. P \in SchedType /\ P.due = <<>> /\ P.pc \notin {"commit", "record"}
  BY <1>1, <1>3, <1>4 DEF SchedType
<1>6. QED
  BY <1>2, <1>3, <1>5, SchedulerMoves

\* A table with another heap has the type.
LEMMA HeapTyped ==
  ASSUME NEW t \in TableType, NEW H \in SUBSET Fallbacks
  PROVE  [t EXCEPT !.heap = H] \in TableType
  BY DEF TableType

\* commitDue takes what is due out of the heap.
LEMMA DueStep ==
  ASSUME IInv, CommitDue
  PROVE  IInv'
<1>1. /\ TypeOK /\ Positions /\ TableOK(c, arrived, sched) /\ Table(c) /\ c \in TableType
      /\ Fates(c, sched, flush, counted, call) /\ sched \in SchedType
  BY DEF IInv, TypeOK, TableOK, OneEach
<1>2. PICK b, u, P : b = c /\ u = c' /\ P = sched'
  OBVIOUS
<1>3. sched.pc = "pop" /\ UNCHANGED <<now, wake, flush, call, arrived, requestAt, counted>>
  BY DEF CommitDue
<1>4. sched.due = <<>>
  BY <1>1, <1>3 DEF Positions
<1>5. PICK D, K : D = Keep(c.pending, K) /\ K = {f \in c.heap : Deadline(f) <= now}
  OBVIOUS
<1>6. \/ c.closed /\ P = [sched EXCEPT !.pc = "check"] /\ u = b
      \/ /\ ~c.closed /\ u = [b EXCEPT !.heap = @ \ ToSet(D)]
         /\ P = [sched EXCEPT !.pc = "commit", !.due = D]
  BY Zenon, <1>2, <1>5 DEF CommitDue
<1>7. CASE c.closed
  <2>1. P = [sched EXCEPT !.pc = "check"] /\ u = b
    BY <1>6, <1>7
  <2>2. P \in SchedType /\ P.due = <<>> /\ P.pc = "check"
    BY <1>1, <1>4, <2>1 DEF SchedType
  <2>3. UNCHANGED c /\ wake' \in BOOLEAN
    BY <1>1, <1>2, <1>3, <2>1 DEF TypeOK
  <2>4. QED
    BY <1>2, <1>3, <2>2, <2>3, SchedulerMoves
<1>8. CASE ~c.closed
  <2>1. u = [b EXCEPT !.heap = b.heap \ ToSet(D)] /\ P = [sched EXCEPT !.pc = "commit", !.due = D]
    BY <1>6, <1>8
  <2>2. b.pending \in Seq(Fallbacks) /\ b.heap \in SUBSET Fallbacks
    BY <1>1, <1>2, TableFields
  <2>3. D \in Seq(Fallbacks) /\ ToSet(D) = ToSet(b.pending) \cap K
    BY <1>2, <1>5, <2>2, KeepIs
  <2>4. P \in SchedType /\ P.due = D /\ P.pc = "commit"
    BY <1>1, <2>1, <2>3 DEF SchedType
  <2>5. u \in TableType
    <3>1. PICK H \in SUBSET Fallbacks : H = b.heap \ ToSet(D)
      BY <2>2
    <3>2. [b EXCEPT !.heap = H] \in TableType
      BY Zenon, <1>1, <1>2, <3>1, HeapTyped
    <3>3. QED
      BY Zenon, <2>1, <3>1, <3>2
  <2>6. /\ u.pending = b.pending /\ u.heap = b.heap \ ToSet(D) /\ u.byStream = b.byStream
        /\ u.pendingCount = b.pendingCount /\ u.closed = b.closed
        /\ u.nativeRecent = b.nativeRecent /\ u.fallbackRecent = b.fallbackRecent
        /\ u.nativeCount = b.nativeCount /\ u.fallbackCount = b.fallbackCount
        /\ u.cancelled = b.cancelled /\ u.fate = b.fate
    BY <1>1, <1>2, <2>1 DEF TableType
  <2>7. Table(u) /\ InLimits(u)
    <3>1. Table(u)
      BY <1>1, <1>2, <2>5, <2>6 DEF Table
    <3>2. InLimits(u)
      BY <1>1, <1>2, <2>6 DEF InLimits, TableOK
    <3>3. QED
      BY <3>1, <3>2
  <2>8. TableOK(u, arrived, P)
    <3>1. ToSet(u.pending) \ u.heap \subseteq ToSet(P.due)
      <4>1. ToSet(b.pending) \ b.heap = {}
        BY <1>1, <1>2, <1>4 DEF TableOK, ToSet
      <4>2. QED
        BY <2>4, <2>6, <4>1
    <3>2. QED
      BY <1>1, <1>2, <2>6, <2>7, <3>1 DEF TableOK
  <2>9. \A f \in Fallbacks : ~Held(P, f) /\ ~Held(sched, f)
    BY <1>3, <2>4 DEF Held
  <2>10. Fates(u, P, flush, counted, call)
    <3>1. ToSet(P.due) \subseteq ToSet(u.pending) \cup u.cancelled
      BY <2>3, <2>4, <2>6
    <3>2. QED
      BY <1>1, <1>2, <2>6, <2>9, <3>1 DEF Fates
  <2>11. TypeOK'
    BY <1>1, <1>2, <1>3, <2>4, <2>5 DEF TypeOK
  <2>12. TableOK(c, arrived, sched)' /\ OneEach'
    BY <1>2, <1>3, <2>8, <2>10 DEF OneEach
  <2>13. Positions'
    <3>1. c'.closed = c.closed
      BY <1>2, <2>6
    <3>2. QED
      BY <1>1, <1>2, <1>3, <2>4, <3>1 DEF Positions
  <2>14. QED
    BY <2>11, <2>12, <2>13 DEF IInv
<1>9. QED
  BY <1>7, <1>8

\* The head of the batch is a fallback record.
LEMMA HeadIs ==
  ASSUME NEW T, NEW s \in Seq(T), s # <<>>
  PROVE  Head(s) \in T /\ Head(s) \in ToSet(s) /\ Tail(s) \in Seq(T)
         /\ ToSet(s) \subseteq ToSet(Tail(s)) \cup {Head(s)} /\ ToSet(Tail(s)) \subseteq ToSet(s)
<1>1. Len(s) \in Nat /\ Len(s) >= 1 /\ Head(s) = s[1] /\ DOMAIN s = 1..Len(s)
  OBVIOUS
<1>2. /\ Tail(s) \in Seq(T) /\ Len(Tail(s)) = Len(s) - 1
      /\ \A i \in 1..(Len(s) - 1) : Tail(s)[i] = s[i + 1]
  BY <1>1
<1>3. Head(s) \in ToSet(s) /\ Head(s) \in T
  BY <1>1 DEF ToSet
<1>4. DOMAIN Tail(s) = 1..(Len(s) - 1)
  BY <1>2
<1>5. ASSUME NEW x \in ToSet(s), x # Head(s) PROVE x \in ToSet(Tail(s))
  <2>1. PICK i \in 1..Len(s) : x = s[i]
    BY <1>1 DEF ToSet
  <2>2. i - 1 \in 1..(Len(s) - 1)
    BY <1>1, <1>5, <2>1
  <2>3. Tail(s)[i - 1] = s[(i - 1) + 1] /\ (i - 1) + 1 = i
    BY <1>2, <2>2
  <2>4. QED
    BY <1>4, <2>1, <2>2, <2>3 DEF ToSet
<1>6. ASSUME NEW x \in ToSet(Tail(s)) PROVE x \in ToSet(s)
  <2>1. PICK i \in 1..(Len(s) - 1) : x = Tail(s)[i]
    BY <1>4 DEF ToSet
  <2>2. x = s[i + 1] /\ i + 1 \in 1..Len(s)
    BY <1>1, <1>2, <2>1
  <2>3. QED
    BY <1>1, <2>2 DEF ToSet
<1>7. QED
  BY <1>2, <1>3, <1>5, <1>6

\* removePendingLocked keeps a table's place among its surroundings.
LEMMA RemovedOK ==
  ASSUME NEW t, NEW A, NEW S, TableOK(t, A, S), ~t.closed,
         NEW f \in Fallbacks, NEW u, u = RemovePending(t, f)
  PROVE  TableOK(u, A, S)
<1>1. Table(t) /\ InLimits(t) /\ t \in TableType
  BY DEF TableOK, Table
<1>2. Removes(t, u, f)
  BY Zenon, <1>1, RemovedIs
<1>3. /\ Table(u)
      /\ ToSet(u.pending) = ToSet(t.pending) \ {f} /\ u.heap = t.heap \ {f}
      /\ Len(u.pending) = IF f \in ToSet(t.pending) THEN Len(t.pending) - 1 ELSE Len(t.pending)
      /\ u.closed = t.closed
      /\ u.nativeRecent = t.nativeRecent /\ u.fallbackRecent = t.fallbackRecent
  BY <1>2 DEF Removes
<1>4. u \in TableType
  BY <1>3 DEF Table
<1>5. /\ Len(u.pending) <= Len(t.pending)
      /\ Len(u.nativeRecent) <= Len(t.nativeRecent)
      /\ Len(u.fallbackRecent) <= Len(t.fallbackRecent)
  <2>1. Len(t.pending) \in Nat /\ Len(t.nativeRecent) \in Nat /\ Len(t.fallbackRecent) \in Nat
    BY <1>1, TableLists
  <2>2. QED
    BY <1>3, <2>1
<1>6. InLimits(u)
  BY Zenon, <1>1, <1>4, <1>5, LimitsLess
<1>7. QED
  BY <1>3, <1>6 DEF TableOK

\* t with a fallback record decided and remembered.
WithFallback(t, f) ==
  [t EXCEPT !.cancelled = @ \cup {f},
            !.fallbackRecent = Remember(@, [record |-> f, seen |-> now]),
            !.fallbackCount = @ + 1]

\* commit of a record that is still pending: it is in the scheduler's hands.
LEMMA CommitTakes ==
  ASSUME IInv, sched.pc = "commit", NEW f \in Fallbacks, f \in ToSet(c.pending), ~c.closed,
         NEW t, t = RemovePending(c, f),
         NEW u \in (IF t.fallbackCount >= MaxRecent THEN EvictFallback(t) ELSE {t}),
         NEW v \in MakeRoom(u), NEW x, x = Cleaned(WithFallback(v, f)),
         NEW P, P.due = sched.due, \A g \in Fallbacks : Held(P, g) <=> g = f
  PROVE  TableOK(x, arrived, P) /\ x.closed = c.closed /\ Fates(x, P, flush, counted, call)
<1>1. PICK b : b = c
  OBVIOUS
<1>2. /\ TableOK(b, arrived, sched) /\ Table(b) /\ now \in 0..MaxTime
      /\ Fates(b, sched, flush, counted, call) /\ ~b.closed /\ f \in ToSet(b.pending)
      /\ t = RemovePending(b, f)
  BY <1>1 DEF IInv, TableOK, TypeOK, OneEach
<1>3. TableOK(t, arrived, sched) /\ Table(t)
  BY <1>2, RemovedOK DEF TableOK
<1>4. /\ ToSet(t.pending) = ToSet(b.pending) \ {f}
      /\ t.cancelled = b.cancelled /\ t.fate = b.fate /\ t.closed = b.closed
  <2>1. Removes(b, t, f)
    BY Zenon, <1>2, RemovedIs
  <2>2. QED
    BY <2>1 DEF Removes
<1>5. Shrinks(t, v) /\ TableOK(v, arrived, sched) /\ Room(v, Len(v.fallbackRecent), MaxRecent)
  BY <1>3, FallbackRoom
<1>6. PICK w, L : /\ w = WithFallback(v, f)
                  /\ L = Remember(v.fallbackRecent, [record |-> f, seen |-> now])
  OBVIOUS
<1>7. f \notin ToSet(v.pending)
  BY <1>4, <1>5 DEF Shrinks
<1>8. w = [v EXCEPT !.cancelled = @ \cup {f}, !.fallbackRecent = L, !.fallbackCount = @ + 1]
  BY <1>5, <1>6 DEF WithFallback, TableOK, Table, TableType
<1>9. /\ TableOK(w, arrived, sched) /\ w.pending = v.pending /\ w.cancelled = v.cancelled \cup {f}
      /\ w.fate = v.fate /\ w.closed = v.closed /\ w.heap = v.heap
  <2>1. TableOK(w, arrived, sched) /\ Committed(v, w, f)
    BY Zenon, <1>2, <1>5, <1>6, <1>7, <1>8, FallbackRemembered
  <2>2. QED
    BY <2>1 DEF Committed
<1>10. \A g \in Fallbacks : ~Held(sched, g)
  BY DEF Held
<1>11. b.fate[f] = "open"
  BY <1>2 DEF Table
<1>12. Decides(t, v)
  BY <1>3, <1>5, ShrinksDecides
<1>13. Fates(w, P, flush, counted, call)
  BY <1>2, <1>3, <1>4, <1>9, <1>10, <1>11, <1>12, FatesHeld
<1>14. Shrinks(w, x) /\ Table(w)
  <2>1. Table(w) /\ x = Cleaned(w)
    BY <1>6, <1>9 DEF TableOK
  <2>2. QED
    BY <1>2, <2>1, CleanedIs
<1>15. TableOK(x, arrived, P)
  <2>1. ToSet(w.pending) \ w.heap \subseteq ToSet(P.due)
    BY <1>9 DEF TableOK
  <2>2. QED
    BY <1>9, <1>14, <2>1, TableShrinks
<1>16. Fates(x, P, flush, counted, call)
  BY <1>13, <1>14, FatesShrink
<1>17. x.closed = c.closed
  BY <1>1, <1>4, <1>5, <1>9, <1>14 DEF Shrinks
<1>18. QED
  BY <1>15, <1>16, <1>17

\* commit of a record that somebody else took, or after Flush.
LEMMA CommitSkips ==
  ASSUME IInv, sched.pc = "commit", NEW f \in Fallbacks, f \notin ToSet(c.pending),
         NEW u, u = RemovePending(c, f),
         NEW P, P.pc = "commit", ToSet(P.due) \subseteq ToSet(sched.due),
         ToSet(sched.due) \subseteq ToSet(P.due) \cup {f}
  PROVE  TableOK(u, arrived, P) /\ u.closed = c.closed /\ Fates(u, P, flush, counted, call)
<1>1. PICK b : b = c
  OBVIOUS
<1>2. /\ TableOK(b, arrived, sched) /\ Table(b) /\ f \notin ToSet(b.pending)
      /\ Fates(b, sched, flush, counted, call) /\ u = RemovePending(b, f)
  BY <1>1 DEF IInv, TableOK, OneEach
<1>3. /\ Table(u)
      /\ ToSet(u.pending) = ToSet(b.pending) \ {f} /\ u.heap = b.heap \ {f}
      /\ Len(u.pending) = IF f \in ToSet(b.pending) THEN Len(b.pending) - 1 ELSE Len(b.pending)
      /\ u.cancelled = b.cancelled /\ u.fate = b.fate /\ u.closed = b.closed
      /\ u.nativeRecent = b.nativeRecent /\ u.fallbackRecent = b.fallbackRecent
  <2>1. Removes(b, u, f)
    BY Zenon, <1>2, RemovedIs
  <2>2. QED
    BY <2>1 DEF Removes
<1>4. ToSet(u.pending) = ToSet(b.pending) /\ u.heap = b.heap /\ Len(u.pending) = Len(b.pending)
  BY <1>2, <1>3 DEF Table
<1>5. Shrinks(b, u)
  <2>1. Len(b.pending) \in Nat /\ Len(b.nativeRecent) \in Nat /\ Len(b.fallbackRecent) \in Nat
    BY <1>2, TableLists DEF Table
  <2>2. Lost(b, u) = {}
    BY <1>4 DEF Lost
  <2>3. QED
    BY <1>3, <1>4, <2>1, <2>2 DEF Shrinks
<1>6. TableOK(u, arrived, P)
  <2>1. ToSet(b.pending) \ b.heap \subseteq ToSet(P.due)
    BY <1>2 DEF TableOK
  <2>2. QED
    BY <1>2, <1>5, <2>1, TableShrinks
<1>7. \A g \in Fallbacks : ~Held(P, g) /\ ~Held(sched, g)
  BY DEF Held
<1>8. Fates(u, P, flush, counted, call)
  <2>1. Fates(b, P, flush, counted, call)
    BY <1>2, <1>7 DEF Fates
  <2>2. QED
    BY <1>2, <1>5, <2>1, FatesShrink
<1>9. QED
  BY <1>1, <1>3, <1>6, <1>8

\* commit.
LEMMA CommitStep ==
  ASSUME IInv, Commit
  PROVE  IInv'
<1>1. /\ TypeOK /\ Positions /\ sched \in SchedType /\ TableOK(c, arrived, sched) /\ Table(c)
      /\ Fates(c, sched, flush, counted, call)
  BY DEF IInv, TypeOK, TableOK, OneEach
<1>2. PICK u, P, f : u = c' /\ P = sched' /\ f = Head(sched.due)
  OBVIOUS
<1>3. /\ sched.pc = "commit" /\ sched.due # <<>> /\ sched.due \in Seq(Fallbacks)
      /\ UNCHANGED <<now, wake, flush, call, arrived, requestAt, counted>>
  BY <1>1 DEF Commit, SchedType
<1>4. /\ f \in Fallbacks /\ f \in ToSet(sched.due) /\ Tail(sched.due) \in Seq(Fallbacks)
      /\ ToSet(sched.due) \subseteq ToSet(Tail(sched.due)) \cup {f}
      /\ ToSet(Tail(sched.due)) \subseteq ToSet(sched.due)
  BY <1>2, <1>3, HeadIs
<1>5. PICK t : t = RemovePending(c, f)
  OBVIOUS
<1>6. \/ ~MayCommit(f) /\ u = t /\ P = [sched EXCEPT !.due = Tail(@)]
      \/ /\ MayCommit(f) /\ P = [sched EXCEPT !.pc = "record"]
         /\ \E r \in IF t.fallbackCount >= MaxRecent THEN EvictFallback(t) ELSE {t} :
              \E v \in MakeRoom(r) : u = Cleaned(WithFallback(v, f))
  BY Zenon, <1>2, <1>5 DEF Commit, WithFallback
<1>7. /\ TableOK(u, arrived, P) /\ u.closed = c.closed /\ Fates(u, P, flush, counted, call)
      /\ P \in SchedType /\ P.pc \in {"commit", "record"} /\ (P.pc = "record" => P.due # <<>>)
  <2>1. CASE ~MayCommit(f) /\ u = t /\ P = [sched EXCEPT !.due = Tail(@)]
    <3>1. f \notin ToSet(c.pending)
      <4>1. CASE c.closed
        BY <1>1, <4>1 DEF TableOK, ToSet
      <4>2. CASE f \in c.cancelled
        BY <1>1, <4>2 DEF Table
      <4>3. QED
        BY <2>1, <4>1, <4>2 DEF MayCommit
    <3>2. P \in SchedType /\ P.pc = "commit" /\ P.due = Tail(sched.due)
      BY <1>1, <1>3, <1>4, <2>1 DEF SchedType
    <3>3. TableOK(u, arrived, P) /\ u.closed = c.closed /\ Fates(u, P, flush, counted, call)
      BY <1>3, <1>4, <1>5, <2>1, <3>1, <3>2, CommitSkips
    <3>4. QED
      BY <3>2, <3>3
  <2>2. CASE /\ MayCommit(f) /\ P = [sched EXCEPT !.pc = "record"]
             /\ \E r \in IF t.fallbackCount >= MaxRecent THEN EvictFallback(t) ELSE {t} :
                  \E v \in MakeRoom(r) : u = Cleaned(WithFallback(v, f))
    <3>1. f \in ToSet(c.pending) /\ ~c.closed
      BY <1>1, <1>4, <2>2 DEF MayCommit, Fates
    <3>2. P \in SchedType /\ P.pc = "record" /\ P.due = sched.due
      BY <1>1, <2>2 DEF SchedType
    <3>3. \A g \in Fallbacks : Held(P, g) <=> g = f
      BY <1>2, <3>2 DEF Held
    <3>4. PICK r \in IF t.fallbackCount >= MaxRecent THEN EvictFallback(t) ELSE {t} :
                 \E v \in MakeRoom(r) : u = Cleaned(WithFallback(v, f))
      BY <2>2
    <3>5. PICK v \in MakeRoom(r) : u = Cleaned(WithFallback(v, f))
      BY <3>4
    <3>6. TableOK(u, arrived, P) /\ u.closed = c.closed /\ Fates(u, P, flush, counted, call)
      BY <1>3, <1>4, <1>5, <3>1, <3>2, <3>3, <3>4, <3>5, CommitTakes
    <3>7. QED
      BY <1>3, <3>2, <3>6
  <2>3. QED
    BY <1>6, <2>1, <2>2
<1>8. u \in TableType
  BY <1>7 DEF TableOK, Table
<1>9. TypeOK'
  BY <1>1, <1>2, <1>3, <1>7, <1>8 DEF TypeOK
<1>10. TableOK(c, arrived, sched)' /\ OneEach'
  BY <1>2, <1>3, <1>7 DEF OneEach
<1>11. Positions'
  <2>1. c'.closed = c.closed
    BY <1>2, <1>7
  <2>2. QED
    BY <1>1, <1>2, <1>3, <1>7, <2>1 DEF Positions
<1>12. QED
  BY <1>9, <1>10, <1>11 DEF IInv

\* The scheduler counts the record in its hands.
LEMMA RecordDueStep ==
  ASSUME IInv, RecordDue
  PROVE  IInv'
<1>1. /\ TypeOK /\ Positions /\ sched \in SchedType /\ counted \in [Records -> Nat]
      /\ TableOK(c, arrived, sched) /\ Fates(c, sched, flush, counted, call)
  BY DEF IInv, TypeOK, OneEach
<1>2. PICK P, Q, f : P = sched' /\ Q = counted' /\ f = Head(sched.due)
  OBVIOUS
<1>3. /\ sched.pc = "record" /\ sched.due # <<>> /\ sched.due \in Seq(Fallbacks)
      /\ UNCHANGED <<now, c, wake, flush, call, arrived, requestAt>>
      /\ Q = [counted EXCEPT ![f] = @ + 1] /\ P = [sched EXCEPT !.pc = "commit", !.due = Tail(@)]
  BY <1>1, <1>2 DEF RecordDue, SchedType, Positions
<1>4. /\ f \in Fallbacks /\ Tail(sched.due) \in Seq(Fallbacks)
      /\ ToSet(sched.due) \subseteq ToSet(Tail(sched.due)) \cup {f}
      /\ ToSet(Tail(sched.due)) \subseteq ToSet(sched.due)
  BY <1>2, <1>3, HeadIs
<1>5. P \in SchedType /\ P.pc = "commit" /\ P.due = Tail(sched.due)
  BY <1>1, <1>3, <1>4 DEF SchedType
<1>6. Held(sched, f) /\ (\A g \in Fallbacks : Held(sched, g) => g = f)
  BY <1>2, <1>3 DEF Held
<1>7. \A g \in Fallbacks : ~Held(P, g)
  BY <1>5 DEF Held
<1>8. Fates(c, P, flush, [counted EXCEPT ![f] = @ + 1], call)
  BY <1>1, <1>4, <1>5, <1>6, <1>7, FatesCounted
<1>9. TableOK(c, arrived, P)
  <2>1. f \notin ToSet(c.pending)
    BY <1>1, <1>4, <1>6 DEF Fates
  <2>2. QED
    BY <1>1, <1>4, <1>5, <2>1 DEF TableOK
<1>10. Q \in [Records -> Nat]
  <2>1. f \in Records
    BY <1>4 DEF Records
  <2>2. QED
    BY <1>1, <1>3, <2>1
<1>11. TypeOK'
  BY <1>1, <1>2, <1>3, <1>5, <1>10 DEF TypeOK
<1>12. TableOK(c, arrived, sched)' /\ OneEach'
  BY <1>2, <1>3, <1>8, <1>9 DEF OneEach
<1>13. Positions'
  BY <1>1, <1>2, <1>3, <1>5 DEF Positions
<1>14. QED
  BY <1>11, <1>12, <1>13 DEF IInv

\* A table that is closed or not, with other decided records, has the type.
LEMMA ClosedTyped ==
  ASSUME NEW t \in TableType, NEW d \in BOOLEAN, NEW C \in SUBSET Fallbacks
  PROVE  [t EXCEPT !.closed = d, !.cancelled = C] \in TableType
  BY DEF TableType

\* A table may be closed before its pending records are taken.
LEMMA ClosesFirst ==
  ASSUME NEW t \in TableType, NEW d, NEW C, NEW H, NEW P, NEW n,
         NEW v, v = [t EXCEPT !.closed = d, !.cancelled = C], NEW B, B = t.byStream
  PROVE  [t EXCEPT !.closed = d, !.cancelled = C, !.heap = H, !.pending = P, !.pendingCount = n]
           = [v EXCEPT !.heap = H, !.pending = P, !.byStream = B, !.pendingCount = n]
  BY DEF TableType

\* Flush takes the pending records.
LEMMA FlushStarts ==
  ASSUME IInv, Flush
  PROVE  IInv'
<1>1. /\ TypeOK /\ Positions /\ flush \in FlushType /\ TableOK(c, arrived, sched) /\ Table(c)
      /\ c \in TableType /\ Fates(c, sched, flush, counted, call)
  BY DEF IInv, TypeOK, TableOK, OneEach
<1>2. PICK b, u, G : b = c /\ u = c' /\ G = flush'
  OBVIOUS
<1>3. PICK D : D = Keep(b.pending, Fallbacks \ b.cancelled)
  OBVIOUS
<1>4. /\ flush.pc = "idle" /\ G = [pc |-> "await", taken |-> D]
      /\ u = [b EXCEPT !.closed = TRUE, !.cancelled = b.cancelled \cup ToSet(D),
                       !.heap = b.heap \ ToSet(D), !.pending = <<>>, !.pendingCount = 0]
      /\ UNCHANGED <<now, wake, sched, call, arrived, requestAt, counted>>
  BY <1>1, <1>2, <1>3 DEF Flush, TableType
<1>5. /\ b.pending \in Seq(Fallbacks) /\ b.heap \in SUBSET Fallbacks
      /\ b.cancelled \in SUBSET Fallbacks
  BY <1>1, <1>2, TableFields
<1>6. /\ D \in Seq(Fallbacks) /\ Distinct(D)
      /\ ToSet(D) = ToSet(b.pending) \cap (Fallbacks \ b.cancelled)
  BY <1>1, <1>2, <1>3, <1>5, KeepIs DEF Table
<1>7. ToSet(D) = ToSet(b.pending) /\ ToSet(b.pending) \subseteq Fallbacks
  BY <1>1, <1>2, <1>6, TableLists DEF Table
<1>8. u \in TableType
  <2>1. b.cancelled \cup ToSet(D) \in SUBSET Fallbacks /\ b.heap \ ToSet(D) \in SUBSET Fallbacks
    BY <1>5, <1>7
  <2>2. TRUE \in BOOLEAN /\ <<>> \in Seq(Fallbacks) /\ 0 \in Nat
    OBVIOUS
  <2>3. PICK d \in BOOLEAN, C \in SUBSET Fallbacks : d = TRUE /\ C = b.cancelled \cup ToSet(D)
    BY Zenon, <2>1, <2>2
  <2>4. PICK H \in SUBSET Fallbacks, P \in Seq(Fallbacks), n \in Nat :
          H = b.heap \ ToSet(D) /\ P = <<>> /\ n = 0
    BY Zenon, <2>1, <2>2
  <2>5. PICK v, B : v = [b EXCEPT !.closed = d, !.cancelled = C] /\ B = b.byStream
    OBVIOUS
  <2>6. v \in TableType /\ B \in [Streams -> Fallbacks \cup {None}]
    <3>1. [b EXCEPT !.closed = d, !.cancelled = C] \in TableType
      BY Zenon, <1>1, <1>2, <2>3, ClosedTyped
    <3>2. B \in [Streams -> Fallbacks \cup {None}]
      BY <1>1, <1>2, <2>5, TableFields
    <3>3. QED
      BY Zenon, <2>5, <3>1, <3>2
  <2>7. u = [v EXCEPT !.heap = H, !.pending = P, !.byStream = B, !.pendingCount = n]
    <3>1. u = [b EXCEPT !.closed = d, !.cancelled = C, !.heap = H, !.pending = P,
                        !.pendingCount = n]
      BY Zenon, <1>4, <2>3, <2>4
    <3>2. [b EXCEPT !.closed = d, !.cancelled = C, !.heap = H, !.pending = P, !.pendingCount = n]
            = [v EXCEPT !.heap = H, !.pending = P, !.byStream = B, !.pendingCount = n]
      BY Zenon, <1>1, <1>2, <2>5, ClosesFirst
    <3>3. QED
      BY Zenon, <3>1, <3>2
  <2>8. [v EXCEPT !.heap = H, !.pending = P, !.byStream = B, !.pendingCount = n] \in TableType
    BY Zenon, <2>4, <2>6, PendingTyped
  <2>9. QED
    BY Zenon, <2>7, <2>8
<1>9. /\ u.pending = <<>> /\ u.heap = {} /\ u.byStream = b.byStream
      /\ u.pendingCount = 0 /\ u.closed = TRUE
      /\ u.nativeRecent = b.nativeRecent /\ u.fallbackRecent = b.fallbackRecent
      /\ u.nativeCount = b.nativeCount /\ u.fallbackCount = b.fallbackCount
      /\ u.cancelled = b.cancelled \cup ToSet(b.pending) /\ u.fate = b.fate
  <2>1. b.heap \ ToSet(D) = {}
    BY <1>1, <1>2, <1>7 DEF Table
  <2>2. QED
    BY <1>1, <1>2, <1>4, <1>7, <2>1 DEF TableType
<1>10. ToSet(u.pending) = {} /\ Len(u.pending) = 0 /\ Distinct(u.pending)
  BY <1>9 DEF ToSet, Distinct
<1>11. TableOK(u, arrived, sched)
  <2>1. Table(u)
    BY <1>1, <1>2, <1>8, <1>9, <1>10 DEF Table
  <2>2. InLimits(u)
    <3>1. Len(b.pending) \in Nat /\ Len(b.nativeRecent) \in Nat /\ Len(b.fallbackRecent) \in Nat
      BY <1>1, <1>2, TableLists
    <3>2. /\ Len(u.pending) <= Len(b.pending) /\ Len(u.nativeRecent) <= Len(b.nativeRecent)
          /\ Len(u.fallbackRecent) <= Len(b.fallbackRecent)
      BY <1>9, <1>10, <3>1
    <3>3. InLimits(b) /\ b \in TableType
      BY <1>1, <1>2 DEF TableOK
    <3>4. QED
      BY Zenon, <1>8, <3>2, <3>3, LimitsLess
  <2>3. QED
    BY <1>9, <1>10, <2>1, <2>2 DEF TableOK
<1>12. G \in FlushType /\ G.pc = "await" /\ G.taken = D
  BY <1>4, <1>6 DEF FlushType
<1>13. Fates(u, sched, G, counted, call)
  <2>1. flush.taken = <<>>
    BY <1>1, <1>4 DEF Positions
  <2>2. Table(b) /\ Fates(b, sched, flush, counted, call)
    BY <1>1, <1>2
  <2>3. u.cancelled = b.cancelled \cup ToSet(b.pending) /\ u.pending = <<>> /\ u.fate = b.fate
    BY <1>9
  <2>4. Distinct(G.taken) /\ ToSet(G.taken) = ToSet(b.pending)
    BY <1>6, <1>7, <1>12
  <2>5. QED
    BY Zenon, <2>1, <2>2, <2>3, <2>4, FatesTaken
<1>14. TypeOK'
  BY <1>1, <1>2, <1>4, <1>8, <1>12 DEF TypeOK
<1>15. TableOK(c, arrived, sched)' /\ OneEach'
  BY <1>2, <1>4, <1>11, <1>13 DEF OneEach
<1>16. Positions'
  BY <1>1, <1>2, <1>4, <1>9, <1>12 DEF Positions
<1>17. QED
  BY <1>14, <1>15, <1>16 DEF IInv

\* Without its head a list of distinct records has the others.
LEMMA TailIs ==
  ASSUME NEW T, NEW s \in Seq(T), s # <<>>, Distinct(s)
  PROVE  Distinct(Tail(s)) /\ ToSet(Tail(s)) = ToSet(s) \ {Head(s)}
<1>1. Len(s) \in Nat /\ Len(s) >= 1 /\ Head(s) = s[1] /\ DOMAIN s = 1..Len(s)
  OBVIOUS
<1>2. /\ DOMAIN Tail(s) = 1..(Len(s) - 1)
      /\ \A i \in 1..(Len(s) - 1) : Tail(s)[i] = s[i + 1]
  BY <1>1
<1>3. Distinct(Tail(s))
  <2>1. ASSUME NEW i \in DOMAIN Tail(s), NEW j \in DOMAIN Tail(s), Tail(s)[i] = Tail(s)[j]
        PROVE i = j
    <3>1. s[i + 1] = s[j + 1] /\ i + 1 \in DOMAIN s /\ j + 1 \in DOMAIN s
      BY <1>1, <1>2, <2>1
    <3>2. i + 1 = j + 1
      BY <3>1 DEF Distinct
    <3>3. QED
      BY <1>1, <1>2, <3>2
  <2>2. QED
    BY <2>1 DEF Distinct
<1>4. Head(s) \notin ToSet(Tail(s))
  <2>1. SUFFICES ASSUME NEW i \in DOMAIN Tail(s), Tail(s)[i] = Head(s) PROVE FALSE
    BY DEF ToSet
  <2>2. s[i + 1] = s[1] /\ i + 1 \in DOMAIN s /\ 1 \in DOMAIN s /\ i + 1 # 1
    BY <1>1, <1>2, <2>1
  <2>3. QED
    BY <2>2 DEF Distinct
<1>5. QED
  BY <1>3, <1>4, HeadIs

\* Flush counts a record it took.
LEMMA FlushRecordStep ==
  ASSUME IInv, FlushRecord
  PROVE  IInv'
<1>1. /\ TypeOK /\ Positions /\ flush \in FlushType /\ counted \in [Records -> Nat]
      /\ TableOK(c, arrived, sched) /\ Fates(c, sched, flush, counted, call)
  BY DEF IInv, TypeOK, OneEach
<1>2. PICK G, Q, f : G = flush' /\ Q = counted' /\ f = Head(flush.taken)
  OBVIOUS
<1>3. /\ flush.pc = "record" /\ flush.taken # <<>> /\ flush.taken \in Seq(Fallbacks)
      /\ UNCHANGED <<now, c, wake, sched, call, arrived, requestAt>>
      /\ Q = [counted EXCEPT ![f] = @ + 1] /\ G = [flush EXCEPT !.taken = Tail(@)]
  BY <1>1, <1>2 DEF FlushRecord, FlushType
<1>4. f \in Fallbacks /\ f \in ToSet(flush.taken) /\ Tail(flush.taken) \in Seq(Fallbacks)
  BY <1>2, <1>3, HeadIs
<1>5. Distinct(Tail(flush.taken)) /\ ToSet(Tail(flush.taken)) = ToSet(flush.taken) \ {f}
  BY <1>1, <1>2, <1>3, TailIs DEF Fates
<1>6. G \in FlushType /\ G.pc = "record" /\ G.taken = Tail(flush.taken)
  BY <1>1, <1>3, <1>4 DEF FlushType
<1>7. Fates(c, sched, G, [counted EXCEPT ![f] = @ + 1], call)
  BY <1>1, <1>4, <1>5, <1>6, FatesFlushed
<1>8. Q \in [Records -> Nat]
  <2>1. f \in Records
    BY <1>4 DEF Records
  <2>2. QED
    BY <1>1, <1>3, <2>1
<1>9. TypeOK'
  BY <1>1, <1>2, <1>3, <1>6, <1>8 DEF TypeOK
<1>10. TableOK(c, arrived, sched)' /\ OneEach'
  BY <1>1, <1>2, <1>3, <1>7 DEF OneEach
<1>11. Positions'
  BY <1>1, <1>2, <1>3, <1>6 DEF Positions
<1>12. QED
  BY <1>9, <1>10, <1>11 DEF IInv

\* Flush stops waiting for the scheduler, or returns.
LEMMA FlushMoves ==
  ASSUME IInv, FlushAwait \/ FlushReturn
  PROVE  IInv'
<1>1. /\ TypeOK /\ Positions /\ flush \in FlushType
      /\ TableOK(c, arrived, sched) /\ Fates(c, sched, flush, counted, call)
  BY DEF IInv, TypeOK, OneEach
<1>2. PICK G : G = flush'
  OBVIOUS
<1>3. /\ UNCHANGED <<now, c, wake, sched, call, arrived, requestAt, counted>>
      /\ \/ flush.pc = "await" /\ sched.pc = "done" /\ G = [flush EXCEPT !.pc = "record"]
         \/ flush.pc = "record" /\ flush.taken = <<>> /\ G = [flush EXCEPT !.pc = "done"]
  BY <1>2 DEF FlushAwait, FlushReturn, SchedulerDone
<1>4. G \in FlushType /\ G.taken = flush.taken /\ G.pc \in {"record", "done"}
      /\ flush.pc # "idle" /\ (G.pc = "done" => G.taken = <<>>)
  BY <1>1, <1>3 DEF FlushType
<1>5. sched.pc = "done"
  BY <1>1, <1>3 DEF Positions
<1>6. Fates(c, sched, G, counted, call)
  BY <1>1, <1>4 DEF Fates
<1>7. TypeOK'
  BY <1>1, <1>2, <1>3, <1>4 DEF TypeOK
<1>8. TableOK(c, arrived, sched)' /\ OneEach'
  BY <1>1, <1>2, <1>3, <1>6 DEF OneEach
<1>9. Positions'
  BY <1>1, <1>2, <1>3, <1>4, <1>5 DEF Positions
<1>10. QED
  BY <1>7, <1>8, <1>9 DEF IInv

\* Time passes, or nothing happens.
LEMMA TimeStep ==
  ASSUME IInv, Tick \/ UNCHANGED vars
  PROVE  IInv'
<1>1. TypeOK /\ Positions /\ TableOK(c, arrived, sched) /\ OneEach
  BY DEF IInv
<1>2. /\ UNCHANGED <<c, wake, sched, flush, call, arrived, requestAt, counted>>
      /\ \/ now < MaxTime /\ now' = now + 1
         \/ now' = now
  BY DEF Tick, vars
<1>3. now' \in 0..MaxTime
  BY <1>1, <1>2, FallbackAssumption DEF TypeOK
<1>4. TypeOK'
  BY <1>1, <1>2, <1>3 DEF TypeOK
<1>5. TableOK(c, arrived, sched)' /\ OneEach'
  BY <1>1, <1>2 DEF OneEach
<1>6. Positions'
  BY <1>1, <1>2 DEF Positions
<1>7. QED
  BY <1>4, <1>5, <1>6 DEF IInv

-----------------------------------------------------------------------------
(***************************************************************************)
(* The theorems.                                                           *)
(***************************************************************************)
\* The invariant is inductive: no step of the coordinator breaks it.
THEOREM Inductive == Spec => []IInv
<1>1. ASSUME IInv, [Next]_vars PROVE IInv'
  <2>1. ASSUME NEW f \in Fallbacks, Supersede(f) \/ Schedule(f) PROVE IInv'
    BY <1>1, <2>1, SupersedeStep, ScheduleStep
  <2>2. ASSUME NEW n \in Natives, HandleNative(n) \/ RecordNative(n) PROVE IInv'
    BY <1>1, <2>2, NativeStep, RecordNativeStep
  <2>3. CASE SchedStep
    BY <1>1, <2>3, CheckStep, MoveSteps, DueStep, CommitStep, RecordDueStep DEF SchedStep
  <2>4. CASE Flush \/ FlushStep
    BY <1>1, <2>4, FlushStarts, FlushRecordStep, FlushMoves DEF FlushStep
  <2>5. CASE Tick \/ UNCHANGED vars
    BY <1>1, <2>5, TimeStep
  <2>6. QED
    BY <1>1, <2>1, <2>2, <2>3, <2>4, <2>5 DEF Next
<1>2. QED
  BY <1>1, InitInv, PTL DEF Spec

\* Every table, timer and list of the coordinator keeps its type, and no timer is
\* set for a time after the last.
THEOREM FallbackTypes == Spec => []TypeOK
<1>1. IInv => TypeOK
  BY DEF IInv
<1>2. QED
  BY <1>1, Inductive, PTL

\* The counters that decide about evictions are exact after every operation, in
\* every order, so the coordinator never holds more records than its limits allow.
THEOREM LimitsAreExact == Spec => []LimitsExact
<1>1. IInv => LimitsExact
  BY DEF IInv, TableOK, Table, InLimits, LimitsExact
<1>2. QED
  BY <1>1, Inductive, PTL

\* However the scheduler, a native record, a newer record of its stream, an
\* eviction and Flush race for a fallback record, exactly one of them gets it.
THEOREM RecordsHaveOneFate == Spec => []OneFate
<1>1. ASSUME IInv, NEW f \in Fallbacks, Scheduled(f)
      PROVE  /\ counted[f] <= 1
             /\ Cardinality({x \in {"waits", "counted", "taken"} :
                  \/ x = "waits" /\ Waiting(f)
                  \/ x = "counted" /\ counted[f] = 1
                  \/ x = "taken" /\ c.fate[f] # "open"}) = 1
  <2>1. /\ Fates(c, sched, flush, counted, call) /\ Table(c) /\ counted \in [Records -> Nat]
    BY <1>1 DEF IInv, OneEach, TableOK, TypeOK
  <2>2. call[f] = "done" /\ f \in Records
    BY <1>1 DEF Scheduled, Records
  <2>3. counted[f] \in Nat /\ counted[f] <= 1
    BY <2>1, <2>2 DEF Fates
  <2>4. Waiting(f) <=> f \in ToSet(c.pending) \/ f \in ToSet(flush.taken) \/ Held(sched, f)
    BY DEF Waiting, Held
  <2>5. f \in ToSet(c.pending) => c.fate[f] = "open"
    BY <2>1 DEF Table
  <2>6. /\ Waiting(f) \/ counted[f] # 0 \/ c.fate[f] # "open"
        /\ Waiting(f) => counted[f] = 0 /\ c.fate[f] = "open"
        /\ counted[f] = 1 => c.fate[f] = "open"
    BY <2>1, <2>2, <2>4, <2>5 DEF Fates
  <2> DEFINE S == {x \in {"waits", "counted", "taken"} :
                     \/ x = "waits" /\ Waiting(f)
                     \/ x = "counted" /\ counted[f] = 1
                     \/ x = "taken" /\ c.fate[f] # "open"}
  <2>7. S = {"waits"} \/ S = {"counted"} \/ S = {"taken"}
    <3>1. CASE Waiting(f)
      BY <2>6, <3>1
    <3>2. CASE ~Waiting(f) /\ counted[f] = 1
      BY <2>6, <3>2
    <3>3. CASE ~Waiting(f) /\ counted[f] # 1
      BY <2>3, <2>6, <3>3
    <3>4. QED
      BY <3>1, <3>2, <3>3
  <2>8. \A x : Cardinality({x}) = 1
    BY FS_Singleton
  <2>9. Cardinality(S) = 1
    <3> HIDE DEF S
    <3>1. QED
      BY <2>7, <2>8
  <2>10. QED
    BY <2>3, <2>9
<1>2. IInv => OneFate
  BY <1>1 DEF OneFate
<1>3. QED
  BY <1>2, Inductive, PTL

\* When Flush has returned nobody has a fallback record that is not counted yet:
\* it waited for the scheduler, and the scheduler takes none after the close.
THEOREM FlushIsComplete == Spec => []FlushComplete
<1>1. ASSUME IInv, flush.pc = "done", NEW f \in Fallbacks PROVE ~Waiting(f)
  <2>1. Positions /\ TableOK(c, arrived, sched)
    BY <1>1 DEF IInv
  <2>2. sched.pc = "done" /\ flush.taken = <<>> /\ c.pending = <<>>
    BY <1>1, <2>1 DEF Positions, TableOK
  <2>3. QED
    BY <2>2 DEF Waiting, ToSet
<1>2. IInv => FlushComplete
  BY <1>1 DEF FlushComplete
<1>3. QED
  BY <1>2, Inductive, PTL
=============================================================================
