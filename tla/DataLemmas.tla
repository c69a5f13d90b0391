----------------------------- MODULE DataLemmas -----------------------------
(***************************************************************************)
(* Induction, stated over sets, and what follows from it: sums over finite *)
(* functions, the largest element of a finite set of numbers, and the      *)
(* tables that a loop over a batch builds.                                 *)
(***************************************************************************)
EXTENDS Integers, Sequences, FiniteSets, FiniteSetsExt, FiniteSetTheorems,
        WellFoundedInduction, TLAPS

\* A set of numbers with zero and every successor has all of them.
LEMMA NatSetInduction ==
  ASSUME NEW S, 0 \in S, \A n \in Nat : n \in S => n + 1 \in S
  PROVE  Nat \subseteq S
<1> DEFINE T == Nat \ S
           R == OpToRel(<, Nat)
<1>1. SUFFICES ASSUME T # {} PROVE FALSE
  OBVIOUS
<1>2. IsWellFoundedOn(R, Nat)
  BY NatLessThanWellFounded
<1>3. PICK m \in T : \A y \in T : ~(<<y, m>> \in R)
  <2>1. T \subseteq Nat
    OBVIOUS
  <2> HIDE DEF R, T
  <2>2. QED
    BY <1>1, <1>2, <2>1, WFMin
<1>4. m # 0 /\ m \in Nat
  OBVIOUS
<1>5. m - 1 \in Nat /\ m - 1 < m
  BY <1>4
<1>6. <<m - 1, m>> \in R
  BY <1>4, <1>5 DEF OpToRel
<1>7. m - 1 \in S
  BY <1>3, <1>5, <1>6
<1>8. QED
  BY <1>4, <1>5, <1>7

\* A set of subsets that has the empty one, and with a subset the one with one
\* element more, has the whole finite set.
LEMMA FiniteSetInduction ==
  ASSUME NEW S, IsFiniteSet(S), NEW Good, {} \in Good,
         \A T \in SUBSET S : \A x \in S \ T : T \in Good => T \cup {x} \in Good
  PROVE  S \in Good
<1> DEFINE N == {n \in Nat : \A T \in SUBSET S : Cardinality(T) = n => T \in Good}
<1>1. 0 \in N
  BY FS_EmptySet, FS_Subset
<1>2. ASSUME NEW n \in Nat, n \in N PROVE n + 1 \in N
  <2>1. ASSUME NEW T \in SUBSET S, Cardinality(T) = n + 1 PROVE T \in Good
    <3>1. IsFiniteSet(T)
      BY FS_Subset
    <3>2. Cardinality({}) = 0
      BY FS_EmptySet
    <3>3. T # {}
      BY <2>1, <3>2
    <3>4. PICK x \in T : TRUE
      BY <3>3
    <3>5. Cardinality(T \ {x}) = Cardinality(T) - 1
      BY <3>1, <3>4, FS_RemoveElement
    <3>6. Cardinality(T \ {x}) = n
      BY <2>1, <3>5
    <3>7. T \ {x} \in Good
      BY <1>2, <3>6
    <3>8. (T \ {x}) \cup {x} = T
      OBVIOUS
    <3>9. QED
      BY <3>7, <3>8
  <2>2. QED
    BY <2>1
<1>3. Nat \subseteq N
  <2> HIDE DEF N
  <2>1. QED
    BY <1>1, <1>2, NatSetInduction
<1>4. Cardinality(S) \in N
  BY <1>3, FS_CardinalityType
<1>5. QED
  BY <1>4

-----------------------------------------------------------------------------
(***************************************************************************)
(* Sums.                                                                   *)
(***************************************************************************)
\* What the fold of SumFunction computes on every subset of the domain.
IsFold(F, f, D) ==
  F = [T \in SUBSET D |->
         IF T = {} THEN 0
         ELSE LET x == CHOOSE x \in T : TRUE IN f[x] + F[T \ {x}]]

\* Such a fold exists on the subsets of at most n elements, for every n.
LEMMA FoldExists ==
  ASSUME NEW D, IsFiniteSet(D), NEW f
  PROVE  \E F : IsFold(F, f, D)
<1> DEFINE Small(n) == {T \in SUBSET D : Cardinality(T) <= n}
           Rec(G, T) == IF T = {} THEN 0
                        ELSE LET x == CHOOSE x \in T : TRUE IN f[x] + G[T \ {x}]
           Has(n) == \E G : G = [T \in Small(n) |-> Rec(G, T)]
           N == {n \in Nat : Has(n)}
<1>1. \A T \in SUBSET D : Cardinality(T) \in Nat /\ IsFiniteSet(T)
  BY FS_Subset, FS_CardinalityType
<1>2. 0 \in N
  <2> DEFINE G == [T \in Small(0) |-> 0]
  <2>1. \A T \in Small(0) : T = {}
    BY <1>1, FS_EmptySet
  <2>2. G = [T \in Small(0) |-> Rec(G, T)]
    BY <2>1
  <2>3. Has(0)
    BY <2>2
  <2> HIDE DEF Has
  <2>4. QED
    BY <2>3
<1>3. ASSUME NEW n \in Nat, n \in N PROVE n + 1 \in N
  <2>1. PICK G : G = [T \in Small(n) |-> Rec(G, T)]
    BY <1>3
  <2> DEFINE H == [T \in Small(n + 1) |-> Rec(G, T)]
  <2>2. ASSUME NEW T \in Small(n) PROVE T \in Small(n + 1) /\ H[T] = G[T]
    <3>1. T \in Small(n + 1)
      BY <1>1
    <3>2. G[T] = Rec(G, T)
      BY <2>1
    <3>3. QED
      BY <3>1, <3>2
  <2>3. ASSUME NEW T \in Small(n + 1), T # {}, NEW x \in T PROVE T \ {x} \in Small(n)
    <3>1. Cardinality(T \ {x}) = Cardinality(T) - 1
      BY <1>1, FS_RemoveElement
    <3>2. QED
      BY <1>1, <3>1
  <2>4. ASSUME NEW T \in Small(n + 1) PROVE H[T] = Rec(H, T)
    <3>1. CASE T = {}
      BY <3>1
    <3>2. CASE T # {}
      <4> DEFINE x == CHOOSE x \in T : TRUE
      <4>1. x \in T
        BY <3>2
      <4>2. T \ {x} \in Small(n)
        BY <2>3, <3>2, <4>1
      <4>3. H[T \ {x}] = G[T \ {x}]
        BY <2>2, <4>2
      <4>4. H[T] = f[x] + G[T \ {x}] /\ Rec(H, T) = f[x] + H[T \ {x}]
        BY <3>2
      <4>5. QED
        BY <4>3, <4>4
    <3>3. QED
      BY <3>1, <3>2
  <2>5. H = [T \in Small(n + 1) |-> Rec(H, T)]
    <3>1. H = [T \in Small(n + 1) |-> H[T]]
      OBVIOUS
    <3> HIDE DEF H, Small, Rec
    <3>2. QED
      BY <2>4, <3>1
  <2>6. Has(n + 1)
    <3> HIDE DEF H, Small, Rec
    <3>1. QED
      BY <2>5
  <2> HIDE DEF Has
  <2>7. QED
    BY <2>6
<1>4. Cardinality(D) \in N
  <2>1. Nat \subseteq N
    <3> HIDE DEF N
    <3>1. QED
      BY <1>2, <1>3, NatSetInduction
  <2>2. QED
    BY <2>1, FS_CardinalityType
<1>5. Small(Cardinality(D)) = SUBSET D
  BY FS_Subset
<1>6. QED
  BY <1>4, <1>5 DEF IsFold

\* SumFunction is a fold over the whole domain.
LEMMA SumIsFold ==
  ASSUME NEW D, IsFiniteSet(D), NEW f, DOMAIN f = D
  PROVE  \E F : IsFold(F, f, D) /\ SumFunction(f) = F[D]
<1> DEFINE F == CHOOSE F : IsFold(F, f, D)
<1>1. IsFold(F, f, D)
  BY FoldExists
<1>2. SumFunction(f) = F[D]
  BY DEF SumFunction, SumFunctionOnSet, FoldFunctionOnSet, MapThenFoldSet, IsFold
<1>3. QED
  BY <1>1, <1>2

\* The parts of a sum: one element more or less, wherever it is taken.
Splits(F, f, D) ==
  /\ F[{}] = 0
  /\ \A T \in SUBSET D : F[T] \in Int
  /\ \A T \in SUBSET D : \A x \in T : F[T] = f[x] + F[T \ {x}]

\* The order in which the fold takes the elements does not matter.
LEMMA FoldSplits ==
  ASSUME NEW D, IsFiniteSet(D), NEW f \in [D -> Int], NEW F, IsFold(F, f, D)
  PROVE  Splits(F, f, D)
<1> DEFINE Good(T) == F[T] \in Int /\ \A x \in T : F[T] = f[x] + F[T \ {x}]
           Upto(n) == \A T \in SUBSET D : Cardinality(T) <= n => Good(T)
           N == {n \in Nat : Upto(n)}
<1>0. \A T \in SUBSET D : IsFiniteSet(T) /\ Cardinality(T) \in Nat
  BY FS_Subset, FS_CardinalityType
<1>1. F[{}] = 0
  BY DEF IsFold
<1>2. 0 \in N
  <2>1. ASSUME NEW T \in SUBSET D, Cardinality(T) <= 0 PROVE T = {}
    BY <1>0, <2>1, FS_EmptySet
  <2>2. QED
    BY <1>1, <2>1
<1>3. ASSUME NEW n \in Nat, n \in N PROVE n + 1 \in N
  <2>1. ASSUME NEW T \in SUBSET D, Cardinality(T) <= n + 1, T # {} PROVE Good(T)
    <3>1. ASSUME NEW x \in T PROVE T \ {x} \in SUBSET D /\ Good(T \ {x})
      <4>1. Cardinality(T \ {x}) = Cardinality(T) - 1
        BY <1>0, FS_RemoveElement
      <4>2. Cardinality(T \ {x}) <= n /\ Upto(n)
        BY <1>0, <1>3, <2>1, <4>1
      <4> HIDE DEF Good
      <4>3. QED
        BY <4>2
    <3> DEFINE c == CHOOSE x \in T : TRUE
    <3>3. c \in T
      BY <2>1
    <3>4. F[T] = f[c] + F[T \ {c}]
      BY <2>1 DEF IsFold
    <3>5. F[T] \in Int
      <4> HIDE DEF c
      <4>1. F[T \ {c}] \in Int /\ f[c] \in Int
        BY <3>1, <3>3
      <4>2. QED
        BY <3>4, <4>1
    <3>6. ASSUME NEW x \in T PROVE F[T] = f[x] + F[T \ {x}]
      <4>1. CASE x = c
        BY <3>4, <4>1
      <4>2. CASE x # c
        <5> HIDE DEF c
        <5> DEFINE U == (T \ {c}) \ {x}
        <5>1. F[T \ {c}] = f[x] + F[(T \ {c}) \ {x}]
          BY <3>1, <3>3, <4>2
        <5>2. F[T \ {x}] = f[c] + F[(T \ {x}) \ {c}]
          BY <3>1, <3>3, <4>2
        <5>3. (T \ {x}) \ {c} = (T \ {c}) \ {x}
          OBVIOUS
        <5>4. F[(T \ {c}) \ {x}] \in Int
          <6>1. T \ {c} \in SUBSET D /\ Cardinality(T \ {c}) <= n
            <7>1. Cardinality(T \ {c}) = Cardinality(T) - 1
              BY <1>0, <3>3, FS_RemoveElement
            <7>2. QED
              BY <1>0, <2>1, <7>1
          <6>2. (T \ {c}) \ {x} \in SUBSET D /\ Cardinality((T \ {c}) \ {x}) <= n
            <7>1. Cardinality((T \ {c}) \ {x}) = Cardinality(T \ {c}) - 1
              BY <1>0, <4>2, FS_RemoveElement
            <7>2. QED
              BY <1>0, <6>1, <7>1
          <6>3. QED
            BY <1>3, <6>2
        <5>5. f[x] \in Int /\ f[c] \in Int
          BY <3>3
        <5>6. F[T] = f[c] + (f[x] + F[(T \ {c}) \ {x}])
          BY <3>4, <5>1
        <5>7. F[T \ {x}] = f[c] + F[(T \ {c}) \ {x}]
          BY <5>2, <5>3
        <5>8. QED
          BY <5>4, <5>5, <5>6, <5>7
      <4>3. QED
        BY <4>1, <4>2
    <3>7. QED
      BY <3>5, <3>6
  <2>2. ASSUME NEW T \in SUBSET D, T = {} PROVE Good(T)
    BY <1>1, <2>2
  <2>3. Upto(n + 1)
    <3> HIDE DEF Good
    <3>1. QED
      BY <2>1, <2>2
  <2> HIDE DEF Upto
  <2>4. QED
    BY <2>3
<1>4. Nat \subseteq N
  <2> HIDE DEF N
  <2>1. QED
    BY <1>2, <1>3, NatSetInduction
<1>5. ASSUME NEW T \in SUBSET D PROVE Good(T)
  <2>1. Cardinality(T) \in N
    BY <1>0, <1>4
  <2>2. QED
    BY <2>1
<1>6. QED
  BY <1>1, <1>5 DEF Splits

\* Two functions that agree on a part of their domain have the same sums there.
LEMMA FoldsAgree ==
  ASSUME NEW D, IsFiniteSet(D), NEW f \in [D -> Int], NEW g \in [D -> Int],
         NEW F, IsFold(F, f, D), NEW G, IsFold(G, g, D),
         NEW T \in SUBSET D, \A x \in T : f[x] = g[x]
  PROVE  F[T] = G[T]
<1> DEFINE Good == {U \in SUBSET T : F[U] = G[U]}
<1>1. IsFiniteSet(T)
  BY FS_Subset
<1>2. Splits(F, f, D) /\ Splits(G, g, D)
  BY FoldSplits
<1>3. {} \in Good
  BY <1>2 DEF Splits
<1>4. ASSUME NEW U \in SUBSET T, NEW x \in T \ U, U \in Good PROVE U \cup {x} \in Good
  <2>1. (U \cup {x}) \ {x} = U /\ U \cup {x} \in SUBSET D /\ x \in U \cup {x}
    OBVIOUS
  <2>2. F[U \cup {x}] = f[x] + F[(U \cup {x}) \ {x}]
    BY <1>2, <2>1 DEF Splits
  <2>3. G[U \cup {x}] = g[x] + G[(U \cup {x}) \ {x}]
    BY <1>2, <2>1 DEF Splits
  <2>4. QED
    BY <1>4, <2>1, <2>2, <2>3
<1>5. T \in Good
  <2> HIDE DEF Good
  <2>1. QED
    BY <1>1, <1>3, <1>4, FiniteSetInduction
<1>6. QED
  BY <1>5

\* A sum of integers is an integer.
LEMMA SumType ==
  ASSUME NEW D, IsFiniteSet(D), NEW f \in [D -> Int]
  PROVE  SumFunction(f) \in Int
<1>1. PICK F : IsFold(F, f, D) /\ SumFunction(f) = F[D]
  BY SumIsFold
<1>2. QED
  BY <1>1, FoldSplits DEF Splits

\* Changing one number changes the sum by the difference.
LEMMA SumUpdate ==
  ASSUME NEW D, IsFiniteSet(D), NEW f \in [D -> Int], NEW x \in D, NEW v \in Int
  PROVE  SumFunction([f EXCEPT ![x] = v]) = SumFunction(f) - f[x] + v
<1> DEFINE g == [f EXCEPT ![x] = v]
<1>1. g \in [D -> Int] /\ DOMAIN g = D /\ DOMAIN f = D
  OBVIOUS
<1>2. PICK F : IsFold(F, f, D) /\ SumFunction(f) = F[D]
  BY SumIsFold
<1>3. PICK G : IsFold(G, g, D) /\ SumFunction(g) = G[D]
  BY <1>1, SumIsFold
<1>4. g[x] = v /\ \A y \in D \ {x} : f[y] = g[y]
  OBVIOUS
<1> HIDE DEF g
<1>5. F[D \ {x}] = G[D \ {x}]
  BY <1>1, <1>2, <1>3, <1>4, FoldsAgree
<1>6. F[D] = f[x] + F[D \ {x}] /\ F[D \ {x}] \in Int
  BY <1>2, FoldSplits DEF Splits
<1>7. G[D] = g[x] + G[D \ {x}]
  <2>1. Splits(G, g, D)
    BY <1>1, <1>3, FoldSplits
  <2>2. QED
    BY <2>1 DEF Splits
<1>8. SumFunction(g) = SumFunction(f) - f[x] + v
  BY <1>2, <1>3, <1>4, <1>5, <1>6, <1>7
<1>9. QED
  BY <1>8 DEF g

\* A sum of zeros is zero.
LEMMA SumOfZeros ==
  ASSUME NEW D, IsFiniteSet(D), NEW f \in [D -> Int], \A x \in D : f[x] = 0
  PROVE  SumFunction(f) = 0
<1>1. PICK F : IsFold(F, f, D) /\ SumFunction(f) = F[D]
  BY SumIsFold
<1> DEFINE Good == {U \in SUBSET D : F[U] = 0}
<1>2. {} \in Good
  BY <1>1, FoldSplits DEF Splits
<1>3. ASSUME NEW U \in SUBSET D, NEW x \in D \ U, U \in Good PROVE U \cup {x} \in Good
  <2>1. (U \cup {x}) \ {x} = U /\ U \cup {x} \in SUBSET D /\ x \in U \cup {x}
    OBVIOUS
  <2>2. F[U \cup {x}] = f[x] + F[U]
    BY <1>1, <2>1, FoldSplits DEF Splits
  <2>3. QED
    BY <1>3, <2>2
<1>4. D \in Good
  <2> HIDE DEF Good
  <2>1. QED
    BY <1>2, <1>3, FiniteSetInduction
<1>5. QED
  BY <1>1, <1>4

\* A sum of natural numbers is one.
LEMMA SumIsNat ==
  ASSUME NEW D, IsFiniteSet(D), NEW f \in [D -> Nat]
  PROVE  SumFunction(f) \in Nat
<1>1. f \in [D -> Int]
  OBVIOUS
<1>2. PICK F : IsFold(F, f, D) /\ SumFunction(f) = F[D]
  BY SumIsFold
<1> DEFINE Good == {U \in SUBSET D : F[U] \in Nat}
<1>3. {} \in Good
  BY <1>1, <1>2, FoldSplits DEF Splits
<1>4. ASSUME NEW U \in SUBSET D, NEW x \in D \ U, U \in Good PROVE U \cup {x} \in Good
  <2>1. (U \cup {x}) \ {x} = U /\ U \cup {x} \in SUBSET D /\ x \in U \cup {x}
    OBVIOUS
  <2>2. F[U \cup {x}] = f[x] + F[U]
    BY <1>1, <1>2, <2>1, FoldSplits DEF Splits
  <2>3. QED
    BY <1>4, <2>2
<1>5. D \in Good
  <2> HIDE DEF Good
  <2>1. QED
    BY <1>3, <1>4, FiniteSetInduction
<1>6. QED
  BY <1>2, <1>5

\* The sum of two functions is the sum of their sums.
LEMMA SumOfSums ==
  ASSUME NEW D, IsFiniteSet(D), NEW f \in [D -> Int], NEW g \in [D -> Int],
         NEW h \in [D -> Int], \A x \in D : f[x] = g[x] + h[x]
  PROVE  SumFunction(f) = SumFunction(g) + SumFunction(h)
<1>1. PICK F : IsFold(F, f, D) /\ SumFunction(f) = F[D]
  BY SumIsFold
<1>2. PICK G : IsFold(G, g, D) /\ SumFunction(g) = G[D]
  BY SumIsFold
<1>3. PICK H : IsFold(H, h, D) /\ SumFunction(h) = H[D]
  BY SumIsFold
<1>4. Splits(F, f, D) /\ Splits(G, g, D) /\ Splits(H, h, D)
  BY <1>1, <1>2, <1>3, FoldSplits
<1> DEFINE Good == {U \in SUBSET D : F[U] = G[U] + H[U]}
<1>5. {} \in Good
  BY <1>4 DEF Splits
<1>6. ASSUME NEW U \in SUBSET D, NEW x \in D \ U, U \in Good PROVE U \cup {x} \in Good
  <2>1. (U \cup {x}) \ {x} = U /\ U \cup {x} \in SUBSET D /\ x \in U \cup {x}
    OBVIOUS
  <2>2. F[U \cup {x}] = f[x] + F[U]
    BY <1>4, <2>1 DEF Splits
  <2>3. G[U \cup {x}] = g[x] + G[U] /\ G[U] \in Int
    <3>1. G[U \cup {x}] = g[x] + G[(U \cup {x}) \ {x}]
      BY <1>4, <2>1 DEF Splits
    <3>2. G[U] \in Int
      BY <1>4 DEF Splits
    <3>3. QED
      BY <2>1, <3>1, <3>2
  <2>4. H[U \cup {x}] = h[x] + H[U] /\ H[U] \in Int
    <3>1. H[U \cup {x}] = h[x] + H[(U \cup {x}) \ {x}]
      BY <1>4, <2>1 DEF Splits
    <3>2. H[U] \in Int
      BY <1>4 DEF Splits
    <3>3. QED
      BY <2>1, <3>1, <3>2
  <2>5. g[x] \in Int /\ h[x] \in Int /\ f[x] = g[x] + h[x]
    OBVIOUS
  <2>6. F[U] = G[U] + H[U]
    BY <1>6
  <2>7. F[U \cup {x}] = G[U \cup {x}] + H[U \cup {x}]
    BY <2>2, <2>3, <2>4, <2>5, <2>6
  <2>8. QED
    BY <2>1, <2>7
<1>7. D \in Good
  <2> HIDE DEF Good
  <2>1. QED
    BY <1>5, <1>6, FiniteSetInduction
<1>8. QED
  BY <1>1, <1>2, <1>3, <1>7

-----------------------------------------------------------------------------
(***************************************************************************)
(* Loops.                                                                  *)
(***************************************************************************)
\* What a loop has reached after each number of turns up to n.
IsIteration(g, x, F, n) == g = [m \in 0..n |-> IF m = 0 THEN x ELSE F[g[m - 1]]]

\* Two such histories agree where both are defined.
LEMMA IterationsAgree ==
  ASSUME NEW x, NEW F, NEW a \in Nat, NEW b \in Nat, NEW g, NEW h,
         IsIteration(g, x, F, a), IsIteration(h, x, F, b)
  PROVE  \A m \in Nat : m <= a /\ m <= b => g[m] = h[m]
<1> DEFINE N == {m \in Nat : m <= a /\ m <= b => g[m] = h[m]}
<1>1. \A m \in 0..a : g[m] = IF m = 0 THEN x ELSE F[g[m - 1]]
  BY DEF IsIteration
<1>2. \A m \in 0..b : h[m] = IF m = 0 THEN x ELSE F[h[m - 1]]
  BY DEF IsIteration
<1>3. 0 \in N
  BY <1>1, <1>2
<1>4. ASSUME NEW m \in Nat, m \in N PROVE m + 1 \in N
  <2>1. CASE m + 1 <= a /\ m + 1 <= b
    <3>1. g[m + 1] = F[g[m]]
      BY <1>1, <2>1
    <3>2. h[m + 1] = F[h[m]]
      BY <1>2, <2>1
    <3>3. g[m] = h[m]
      BY <1>4, <2>1
    <3>4. QED
      BY <3>1, <3>2, <3>3
  <2>2. QED
    BY <2>1
<1>5. Nat \subseteq N
  <2> HIDE DEF N
  <2>1. QED
    BY <1>3, <1>4, NatSetInduction
<1>6. QED
  BY <1>5

\* What a loop has reached after each number of turns.
IsLoop(f, x, F) == f = [n \in Nat |-> IF n = 0 THEN x ELSE F[f[n - 1]]]

\* A function can be iterated: the recursive definition has a solution.
LEMMA IterationExists ==
  ASSUME NEW x, NEW F
  PROVE  \E f : IsLoop(f, x, F)
<1> DEFINE N == {n \in Nat : \E g : IsIteration(g, x, F, n)}
           G(n) == CHOOSE g : IsIteration(g, x, F, n)
           f == [n \in Nat |-> G(n)[n]]
<1>1. 0 \in N
  <2> DEFINE g == [m \in 0..0 |-> x]
  <2>1. g = [m \in 0..0 |-> IF m = 0 THEN x ELSE F[g[m - 1]]]
    OBVIOUS
  <2>2. IsIteration(g, x, F, 0)
    BY <2>1 DEF IsIteration
  <2> HIDE DEF g
  <2>3. QED
    BY <2>2
<1>2. ASSUME NEW n \in Nat, n \in N PROVE n + 1 \in N
  <2>1. PICK g : IsIteration(g, x, F, n)
    BY <1>2
  <2> DEFINE h == [m \in 0..(n + 1) |-> IF m = 0 THEN x ELSE F[g[m - 1]]]
  <2>2. \A m \in 0..n : m \in 0..(n + 1) /\ h[m] = g[m]
    BY <2>1 DEF IsIteration
  <2>3. \A m \in 0..(n + 1) : m # 0 => m - 1 \in 0..n
    OBVIOUS
  <2>4. h = [m \in 0..(n + 1) |-> IF m = 0 THEN x ELSE F[h[m - 1]]]
    BY <2>2, <2>3
  <2>5. IsIteration(h, x, F, n + 1)
    BY <2>4 DEF IsIteration
  <2> HIDE DEF h
  <2>6. QED
    BY <2>5
<1>3. \A n \in Nat : IsIteration(G(n), x, F, n)
  <2>1. Nat \subseteq N
    <3> HIDE DEF N
    <3>1. QED
      BY <1>1, <1>2, NatSetInduction
  <2>2. QED
    BY <2>1
<1> HIDE DEF G
<1>4. ASSUME NEW n \in Nat PROVE f[n] = IF n = 0 THEN x ELSE F[f[n - 1]]
  <2>1. \A m \in 0..n : G(n)[m] = IF m = 0 THEN x ELSE F[G(n)[m - 1]]
    BY <1>3 DEF IsIteration
  <2>2. CASE n = 0
    BY <2>1, <2>2
  <2>3. CASE n # 0
    <3>1. n - 1 \in Nat /\ n - 1 <= n /\ n - 1 <= n - 1
      BY <2>3
    <3>2. G(n)[n - 1] = G(n - 1)[n - 1]
      <4>1. IsIteration(G(n), x, F, n) /\ IsIteration(G(n - 1), x, F, n - 1)
        BY <1>3, <3>1
      <4>2. \A m \in Nat : m <= n /\ m <= n - 1 => G(n)[m] = G(n - 1)[m]
        BY <3>1, <4>1, IterationsAgree
      <4>3. QED
        BY <3>1, <4>2
    <3>3. G(n)[n] = F[G(n)[n - 1]]
      BY <2>1, <2>3
    <3>4. QED
      BY <2>3, <3>1, <3>2, <3>3
  <2>4. QED
    BY <2>2, <2>3
<1>5. f = [n \in Nat |-> IF n = 0 THEN x ELSE F[f[n - 1]]]
  <2>1. f = [n \in Nat |-> f[n]]
    OBVIOUS
  <2> HIDE DEF f
  <2>2. QED
    BY <1>4, <2>1
<1>6. IsLoop(f, x, F)
  BY <1>5 DEF IsLoop
<1>7. QED
  BY <1>6

-----------------------------------------------------------------------------
\* A finite set of numbers that is not empty has a largest element.
LEMMA LargestExists ==
  ASSUME NEW S \in SUBSET Nat, NEW n \in Nat, \A m \in S : m <= n, S # {}
  PROVE  \E m \in S : \A k \in S : k <= m
<1> DEFINE Has(b) == (\E m \in S : m <= b) => \E m \in S : m <= b /\ \A k \in S : k <= b => k <= m
           N == {b \in Nat : Has(b)}
<1>1. 0 \in N
  OBVIOUS
<1>2. ASSUME NEW b \in Nat, b \in N PROVE b + 1 \in N
  <2>1. Has(b)
    BY <1>2
  <2>2. CASE b + 1 \in S
    <3>1. Has(b + 1)
      BY <2>2
    <3>2. QED
      BY <3>1
  <2>3. CASE b + 1 \notin S
    <3>1. \A k \in S : k <= b + 1 => k <= b
      BY <2>3
    <3>2. Has(b + 1)
      BY <2>1, <3>1
    <3>3. QED
      BY <3>2
  <2>4. QED
    BY <2>2, <2>3
<1>3. Nat \subseteq N
  <2> HIDE DEF N
  <2>1. QED
    BY <1>1, <1>2, NatSetInduction
<1>4. Has(n)
  BY <1>3
<1>5. QED
  BY <1>4

\* The image of a finite set is finite.
LEMMA ImageIsFinite ==
  ASSUME NEW F, NEW S, IsFiniteSet(S)
  PROVE  IsFiniteSet({F[x] : x \in S})
<1> DEFINE T == {F[x] : x \in S}
           h == [x \in S |-> F[x]]
<1>1. h \in [S -> T] /\ \A y \in T : \E x \in S : h[x] = y
  OBVIOUS
<1>2. h \in Surjection(S, T)
  BY <1>1 DEF Surjection
<1>3. QED
  BY <1>2, FS_Surjection

\* Of finitely many elements with a number each, one has a largest number.
LEMMA LargestBy ==
  ASSUME NEW S, IsFiniteSet(S), NEW f \in [S -> Nat], S # {}
  PROVE  \E x \in S : \A y \in S : f[y] <= f[x]
<1> DEFINE Has(T) == \E x \in T : \A y \in T : f[y] <= f[x]
           Good == {T \in SUBSET S : T = {} \/ Has(T)}
<1>1. {} \in Good
  OBVIOUS
<1>2. ASSUME NEW T \in SUBSET S, NEW z \in S \ T, T \in Good PROVE T \cup {z} \in Good
  <2>1. CASE T = {}
    <3>1. \A y \in T \cup {z} : f[y] <= f[z]
      BY <2>1
    <3>2. QED
      BY <3>1
  <2>2. CASE T # {}
    <3>1. PICK x \in T : \A y \in T : f[y] <= f[x]
      BY <1>2, <2>2
    <3>2. CASE f[z] <= f[x]
      <4>1. \A y \in T \cup {z} : f[y] <= f[x]
        BY <3>1, <3>2
      <4>2. QED
        BY <4>1
    <3>3. CASE ~(f[z] <= f[x])
      <4>1. \A y \in T \cup {z} : f[y] <= f[z]
        BY <3>1, <3>3
      <4>2. QED
        BY <4>1
    <3>4. QED
      BY <3>2, <3>3
  <2>3. QED
    BY <2>1, <2>2
<1>3. S \in Good
  <2> HIDE DEF Good
  <2>1. QED
    BY <1>1, <1>2, FiniteSetInduction
<1>4. QED
  BY <1>3

-----------------------------------------------------------------------------
(***************************************************************************)
(* Places in an order.                                                     *)
(***************************************************************************)
\* R is a strict total order of S.
Orders(R, S) ==
  /\ \A x \in S : <<x, x>> \notin R
  /\ \A x, y \in S : x # y => <<x, y>> \in R \/ <<y, x>> \in R
  /\ \A x, y, z \in S : <<x, y>> \in R /\ <<y, z>> \in R => <<x, z>> \in R

\* How many of S come before i.
Rank(S, R, i) == Cardinality({x \in S : <<x, i>> \in R})

\* One comes before another when its rank is less, and every rank is taken.
LEMMA Ranks ==
  ASSUME NEW S, IsFiniteSet(S), NEW R, Orders(R, S)
  PROVE  /\ Cardinality(S) \in Nat
         /\ \A i \in S : Rank(S, R, i) \in 0..(Cardinality(S) - 1)
         /\ \A i, k \in S : <<i, k>> \in R <=> Rank(S, R, i) < Rank(S, R, k)
         /\ \A p \in 0..(Cardinality(S) - 1) : \E i \in S : Rank(S, R, i) = p
<1> DEFINE Before(i) == {x \in S : <<x, i>> \in R}
           n == Cardinality(S)
           f == [i \in S |-> Rank(S, R, i) + 1]
<1>1. IsFiniteSet(S) /\ n \in Nat
  BY FS_CardinalityType
<1>2. \A i \in S : /\ Before(i) \subseteq S /\ i \notin Before(i)
                   /\ Rank(S, R, i) = Cardinality(Before(i))
  BY DEF Rank, Orders
<1>3. \A i, k \in S : /\ i # k => i \in Before(k) \/ k \in Before(i)
                      /\ i \in Before(k) => Before(i) \subseteq Before(k)
                      /\ i \in Before(k) <=> <<i, k>> \in R
  BY DEF Orders
<1>4. DOMAIN f = S /\ \A i \in S : f[i] = Rank(S, R, i) + 1
  OBVIOUS
<1> HIDE DEF Before, n, f
<1>5. \A i \in S : IsFiniteSet(Before(i)) /\ Rank(S, R, i) \in Nat
  BY <1>1, <1>2, FS_Subset, FS_CardinalityType
<1>6. ASSUME NEW i \in S PROVE Rank(S, R, i) < n
  <2>1. Before(i) # S
    BY <1>2
  <2>2. Cardinality(Before(i)) < Cardinality(S)
    BY <1>1, <1>2, <1>5, <2>1, FS_Subset, FS_CardinalityType
  <2>3. QED
    BY <1>2, <2>2 DEF n
<1>7. ASSUME NEW i \in S, NEW k \in S, i \in Before(k) PROVE Rank(S, R, i) < Rank(S, R, k)
  <2>1. Before(i) # Before(k)
    BY <1>2, <1>7
  <2>2. Before(i) \in SUBSET Before(k)
    BY <1>3, <1>7
  <2>3. IsFiniteSet(Before(k))
    BY <1>5
  <2>4. /\ Cardinality(Before(i)) <= Cardinality(Before(k))
        /\ Cardinality(Before(i)) # Cardinality(Before(k))
    BY <2>1, <2>2, <2>3, FS_Subset
  <2>5. Cardinality(Before(i)) = Rank(S, R, i) /\ Cardinality(Before(k)) = Rank(S, R, k)
    BY <1>2
  <2>6. Rank(S, R, i) \in Nat /\ Rank(S, R, k) \in Nat
    BY <1>5
  <2>7. QED
    BY <2>4, <2>5, <2>6
<1>8. ASSUME NEW i \in S, NEW k \in S, i # k, ~(Rank(S, R, i) < Rank(S, R, k))
      PROVE  Rank(S, R, k) < Rank(S, R, i) /\ i \notin Before(k)
  <2>1. i \notin Before(k)
    BY <1>7, <1>8
  <2>2. k \in Before(i)
    BY <1>3, <1>8, <2>1
  <2>3. QED
    BY <1>7, <2>1, <2>2
<1>9. \A i, k \in S : <<i, k>> \in R <=> Rank(S, R, i) < Rank(S, R, k)
  <2>1. \A i, k \in S : i \in Before(k) <=> Rank(S, R, i) < Rank(S, R, k)
    <3>1. ASSUME NEW i \in S, NEW k \in S, i \in Before(k) PROVE Rank(S, R, i) < Rank(S, R, k)
      BY <1>7, <3>1
    <3>2. ASSUME NEW i \in S, NEW k \in S, Rank(S, R, i) < Rank(S, R, k) PROVE i \in Before(k)
      <4>1. i # k /\ ~(Rank(S, R, k) < Rank(S, R, i))
        BY <1>5, <3>2
      <4>2. k \notin Before(i)
        BY <1>7, <4>1
      <4>3. QED
        BY <1>3, <4>1, <4>2
    <3>3. QED
      BY <3>1, <3>2
  <2>2. QED
    BY <1>3, <2>1
<1>10. f \in Injection(S, 1..n)
  <2>1. \A i \in S : f[i] \in 1..n
    BY <1>1, <1>4, <1>5, <1>6
  <2>2. ASSUME NEW i \in S, NEW k \in S, f[i] = f[k] PROVE i = k
    BY <1>4, <1>5, <1>8, <2>2
  <2>3. f \in [S -> 1..n]
    BY <1>4, <2>1 DEF f
  <2>4. QED
    BY <1>4, <2>2, <2>3 DEF Injection, IsInjective
<1>11. IsFiniteSet(1..n) /\ Cardinality(1..n) = n
  BY <1>1, FS_Interval
<1>12. f \in Surjection(S, 1..n)
  BY <1>10, <1>11, FS_Injection DEF n
<1>13. ASSUME NEW p \in 0..(n - 1) PROVE \E i \in S : Rank(S, R, i) = p
  <2>1. p + 1 \in 1..n
    BY <1>1
  <2>2. PICK i \in S : f[i] = p + 1
    BY <1>12, <2>1 DEF Surjection
  <2>3. QED
    BY <1>4, <1>5, <2>2
<1>14. \A i \in S : Rank(S, R, i) \in 0..(n - 1)
  BY <1>1, <1>5, <1>6
<1>15. QED
  BY <1>1, <1>9, <1>13, <1>14 DEF n
=============================================================================
