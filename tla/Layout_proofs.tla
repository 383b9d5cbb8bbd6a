----------------------------- MODULE Layout_proofs -----------------------------
(***************************************************************************)
(* The laws of running sums, sorted and flattened sequences, sums over     *)
(* processes and the coordinates of the grid, and the inductions behind    *)
(* them.                                                                   *)
(***************************************************************************)
EXTENDS Grid, SequencesExt, FunctionTheorems, FiniteSetTheorems, SequenceTheorems,
        WellFoundedInduction, TLAPS

\* Induction over the natural numbers, on a set.
LEMMA NatSetInduction ==
  ASSUME NEW T, 0 \in T, \A n \in Nat : n \in T => n + 1 \in T
  PROVE  Nat \subseteq T
<1> DEFINE Bad == Nat \ T
<1> SUFFICES ASSUME Bad # {} PROVE FALSE
  OBVIOUS
<1>1. PICK x \in Bad : \A y \in Bad : ~ (<<y, x>> \in OpToRel(<, Nat))
  <2>1. Bad \subseteq Nat
    OBVIOUS
  <2> QED BY <2>1, NatLessThanWellFounded, WFMin
<1>2. x # 0 /\ x \in Nat
  OBVIOUS
<1>3. x - 1 \in Nat /\ x - 1 < x /\ (x - 1) + 1 = x
  BY <1>2
<1>4. <<x - 1, x>> \in OpToRel(<, Nat)
  BY <1>2, <1>3 DEF OpToRel
<1>5. x - 1 \in T
  BY <1>1, <1>3, <1>4
<1> QED BY <1>3, <1>5

\* The partial sums up to any point exist.
LEMMA PartialSums ==
  ASSUME NEW n \in Nat, NEW size, \A k \in 1..n : size[k] \in Int
  PROVE  \E f \in [0..n -> Int] :
           f[0] = 0 /\ \A k \in 1..n : f[k] = f[k - 1] + size[k]
<1> DEFINE Sums(m) == \E f \in [0..m -> Int] :
                        f[0] = 0 /\ \A k \in 1..m : f[k] = f[k - 1] + size[k]
           T == {m \in Nat : m <= n => Sums(m)}
<1>1. 0 \in T
  <2> DEFINE z == [i \in 0..0 |-> 0]
  <2>1. z \in [0..0 -> Int] /\ z[0] = 0
    OBVIOUS
  <2>2. \A k \in 1..0 : z[k] = z[k - 1] + size[k]
    OBVIOUS
  <2> HIDE DEF z
  <2>3. Sums(0)
    BY <2>1, <2>2
  <2> QED BY <2>3
<1>2. ASSUME NEW m \in Nat, m \in T, m + 1 <= n PROVE Sums(m + 1)
  <2>1. PICK f \in [0..m -> Int] :
          f[0] = 0 /\ \A k \in 1..m : f[k] = f[k - 1] + size[k]
    BY <1>2
  <2> DEFINE g == [k \in 0..(m + 1) |-> IF k <= m THEN f[k] ELSE f[m] + size[m + 1]]
  <2>2. g \in [0..(m + 1) -> Int]
    BY <1>2, <2>1
  <2>3. g[0] = 0
    BY <2>1
  <2>4. ASSUME NEW k \in 1..(m + 1) PROVE g[k] = g[k - 1] + size[k]
    BY <2>1
  <2> QED BY <2>2, <2>3, <2>4
<1>3. ASSUME NEW m \in Nat, m \in T PROVE m + 1 \in T
  <2>1. m + 1 <= n => Sums(m + 1)
    BY <1>2, <1>3
  <2> HIDE DEF Sums
  <2> QED BY <2>1
<1> HIDE DEF T
<1>4. n \in T
  BY <1>1, <1>3, NatSetInduction
<1> USE DEF T
<1> QED BY <1>4

\* A running sum starts at zero and advances by the sizes.
LEMMA RunningSumSteps ==
  ASSUME NEW n \in Nat, NEW size, \A k \in 1..n : size[k] \in Int
  PROVE  /\ RunningSum(size, n) \in [0..n -> Int]
         /\ RunningSum(size, n)[0] = 0
         /\ \A k \in 1..n : RunningSum(size, n)[k] = RunningSum(size, n)[k - 1] + size[k]
<1> DEFINE Def(f) == [k \in 0..n |-> IF k = 0 THEN 0 ELSE f[k - 1] + size[k]]
<1>1. PICK f \in [0..n -> Int] :
        f[0] = 0 /\ \A k \in 1..n : f[k] = f[k - 1] + size[k]
  BY PartialSums
<1>2. f = Def(f)
  BY <1>1
<1>3. RunningSum(size, n) = CHOOSE g : g = Def(g)
  BY DEF RunningSum
<1>4. RunningSum(size, n) = Def(RunningSum(size, n))
  BY <1>2, <1>3
<1> DEFINE s == RunningSum(size, n)
           T == {k \in Nat : k <= n => s[k] \in Int}
<1> HIDE DEF s
<1>5. s = [k \in 0..n |-> IF k = 0 THEN 0 ELSE s[k - 1] + size[k]]
  BY <1>4 DEF s
<1>6. s[0] = 0 /\ \A k \in 1..n : s[k] = s[k - 1] + size[k]
  BY <1>5
<1>7. 0 \in T
  BY <1>6
<1>8. ASSUME NEW k \in Nat, k \in T PROVE k + 1 \in T
  <2>1. k + 1 <= n => s[k + 1] = s[k] + size[k + 1] /\ s[k] \in Int
    BY <1>6, <1>8
  <2> QED BY <2>1
<1>9. Nat \subseteq T
  <2> HIDE DEF T
  <2> QED BY <1>7, <1>8, NatSetInduction
<1>10. s \in [0..n -> Int]
  <2>1. \A k \in 0..n : s[k] \in Int
    BY <1>9
  <2> QED BY <1>5, <2>1
<1> QED BY <1>6, <1>10 DEF s

\* Without negative sizes the offsets never step back.
LEMMA RunningSumMonotone ==
  ASSUME NEW n \in Nat, NEW size, \A k \in 1..n : size[k] \in Nat
  PROVE  /\ RunningSum(size, n) \in [0..n -> Nat]
         /\ \A i, j \in 0..n : i <= j => RunningSum(size, n)[i] <= RunningSum(size, n)[j]
<1> DEFINE s == RunningSum(size, n)
<1> HIDE DEF s
<1>1. /\ s \in [0..n -> Int]
      /\ s[0] = 0
      /\ \A k \in 1..n : s[k] = s[k - 1] + size[k]
  BY RunningSumSteps DEF s
<1>2. ASSUME NEW i \in 0..n
      PROVE  \A j \in i..n : s[i] <= s[j]
  <2> DEFINE T == {d \in Nat : i + d <= n => s[i] <= s[i + d]}
  <2>1. 0 \in T
    BY <1>1
  <2>2. ASSUME NEW d \in Nat, d \in T PROVE d + 1 \in T
    <3>1. ASSUME i + (d + 1) <= n PROVE s[i] <= s[i + (d + 1)]
      <4>1. s[i + (d + 1)] = s[i + d] + size[i + (d + 1)] /\ size[i + (d + 1)] \in Nat
        BY <1>1, <3>1
      <4>2. s[i] <= s[i + d] /\ s[i] \in Int /\ s[i + d] \in Int
        BY <1>1, <2>2, <3>1
      <4> QED BY <4>1, <4>2
    <3> QED BY <3>1
  <2>3. Nat \subseteq T
    <3> HIDE DEF T
    <3> QED BY <2>1, <2>2, NatSetInduction
  <2> TAKE j \in i..n
  <2>4. j - i \in T /\ i + (j - i) = j /\ j - i \in Nat
    BY <2>3
  <2> QED BY <2>4
<1>3. \A k \in 0..n : s[k] \in Nat
  BY <1>1, <1>2
<1>4. s \in [0..n -> Nat]
  BY <1>1, <1>3
<1>5. \A i, j \in 0..n : i <= j => s[i] <= s[j]
  BY <1>2
<1> QED BY <1>4, <1>5 DEF s

\* Every position below the total lies in a part.
LEMMA PartCovers ==
  ASSUME NEW n \in Nat, NEW size, \A k \in 1..n : size[k] \in Nat,
         NEW i \in Nat, i < RunningSum(size, n)[n]
  PROVE  \E k \in 1..n : RunningSum(size, n)[k - 1] <= i /\ i < RunningSum(size, n)[k]
<1> DEFINE s == RunningSum(size, n)
           T == {k \in Nat : k <= n => s[k] <= i}
<1> HIDE DEF s
<1>1. /\ s \in [0..n -> Nat]
      /\ s[0] = 0
      /\ i < s[n]
  BY RunningSumSteps, RunningSumMonotone DEF s
<1> SUFFICES ASSUME \A k \in 1..n : ~ (s[k - 1] <= i /\ i < s[k]) PROVE FALSE
  BY DEF s
<1>2. 0 \in T
  BY <1>1
<1>3. ASSUME NEW k \in Nat, k \in T PROVE k + 1 \in T
  <2>1. ASSUME k + 1 <= n PROVE s[k + 1] <= i
    <3>1. s[k] <= i /\ k + 1 \in 1..n /\ (k + 1) - 1 = k
      BY <1>3, <2>1
    <3>2. s[k + 1] \in Nat
      BY <1>1, <3>1
    <3> QED BY <3>1, <3>2
  <2> QED BY <2>1
<1>4. Nat \subseteq T
  <2> HIDE DEF T
  <2> QED BY <1>2, <1>3, NatSetInduction
<1> QED BY <1>1, <1>4

\* And in one only.
LEMMA PartUnique ==
  ASSUME NEW n \in Nat, NEW size, \A k \in 1..n : size[k] \in Nat,
         NEW i \in Nat, NEW k \in 1..n, NEW l \in 1..n,
         RunningSum(size, n)[k - 1] <= i, i < RunningSum(size, n)[k],
         RunningSum(size, n)[l - 1] <= i, i < RunningSum(size, n)[l]
  PROVE  k = l
<1> DEFINE s == RunningSum(size, n)
<1> HIDE DEF s
<1>1. /\ s \in [0..n -> Nat]
      /\ \A a, b \in 0..n : a <= b => s[a] <= s[b]
      /\ s[k - 1] <= i /\ i < s[k] /\ s[l - 1] <= i /\ i < s[l]
  BY RunningSumMonotone DEF s
<1>2. /\ k \in 0..n /\ l \in 0..n /\ k - 1 \in 0..n /\ l - 1 \in 0..n
      /\ s[k] \in Nat /\ s[l] \in Nat /\ s[k - 1] \in Nat /\ s[l - 1] \in Nat
  BY <1>1
<1>3. ~ k < l
  BY <1>1, <1>2
<1>4. ~ l < k
  BY <1>1, <1>2
<1> QED BY <1>2, <1>3, <1>4

-----------------------------------------------------------------------------
\* Sorting a finite set by a strict total order lists it, each element once,
\* in that order.
LEMMA SortedSequence ==
  ASSUME NEW S, IsFiniteSet(S), NEW before,
         \A x \in S : <<x, x>> \notin before,
         \A x, y, z \in S : <<x, y>> \in before /\ <<y, z>> \in before => <<x, z>> \in before,
         \A x, y \in S : x # y => <<x, y>> \in before \/ <<y, x>> \in before
  PROVE  /\ Cardinality(S) \in Nat
         /\ Sorted(S, before) \in [1..Cardinality(S) -> S]
         /\ \A x \in S : \E i \in 1..Cardinality(S) : Sorted(S, before)[i] = x
         /\ \A i, j \in 1..Cardinality(S) :
              i < j => <<Sorted(S, before)[i], Sorted(S, before)[j]>> \in before
<1> DEFINE n == Cardinality(S)
           below(x) == {y \in S : <<y, x>> \in before}
           rank == [x \in S |-> Cardinality(below(x))]
           T == 0..(n - 1)
<1>1. n \in Nat
  BY FS_CardinalityType
<1>2. ASSUME NEW x \in S
      PROVE  IsFiniteSet(below(x)) /\ Cardinality(below(x)) \in Nat
  <2>1. below(x) \in SUBSET S
    OBVIOUS
  <2> QED BY <2>1, FS_Subset, FS_CardinalityType
<1>3. ASSUME NEW x \in S, NEW y \in S, <<x, y>> \in before
      PROVE  rank[x] < rank[y]
  <2>1. IsFiniteSet(below(x)) /\ Cardinality(below(x)) \in Nat
    BY <1>2
  <2>2. IsFiniteSet(below(y)) /\ Cardinality(below(y)) \in Nat
    BY <1>2
  <2>3. below(x) \union {x} \in SUBSET below(y) /\ x \notin below(x)
    BY <1>3
  <2>4. Cardinality(below(x) \union {x}) = Cardinality(below(x)) + 1
    BY <2>1, <2>3, FS_AddElement
  <2>5. Cardinality(below(x) \union {x}) <= Cardinality(below(y))
    BY <2>2, <2>3, FS_Subset
  <2> QED BY <2>1, <2>2, <2>4, <2>5
<1>4. ASSUME NEW x \in S PROVE rank[x] \in T
  <2>1. below(x) \union {x} \in SUBSET S /\ x \notin below(x)
    OBVIOUS
  <2>2. IsFiniteSet(below(x)) /\ Cardinality(below(x)) \in Nat
    BY <1>2
  <2>3. Cardinality(below(x) \union {x}) = Cardinality(below(x)) + 1
    BY <2>1, <2>2, FS_AddElement
  <2>4. Cardinality(below(x) \union {x}) <= n
    BY <2>1, FS_Subset
  <2> QED BY <1>1, <2>2, <2>3, <2>4
<1> HIDE DEF below
<1>5. \A x, y \in S : rank[x] = rank[y] => x = y
  <2> SUFFICES ASSUME NEW x \in S, NEW y \in S, rank[x] = rank[y], x # y PROVE FALSE
    OBVIOUS
  <2>1. rank[x] \in Int /\ rank[y] \in Int
    BY <1>4
  <2>2. rank[x] < rank[y] \/ rank[y] < rank[x]
    BY <1>3
  <2> HIDE DEF rank
  <2> QED BY <2>1, <2>2
<1>6. rank \in Injection(S, T)
  BY <1>4, <1>5 DEF Injection, IsInjective
<1>7. IsFiniteSet(T) /\ Cardinality(T) = n
  <2>1. 0 \in Int /\ n - 1 \in Int
    BY <1>1
  <2> QED BY <1>1, <2>1, FS_Interval
<1>8. rank \in Surjection(S, T)
  BY <1>6, <1>7, FS_Injection
<1>9. ASSUME NEW i \in 1..n
      PROVE  /\ Sorted(S, before)[i] \in S
             /\ rank[Sorted(S, before)[i]] = i - 1
  <2>1. i - 1 \in T
    BY <1>1
  <2>2. PICK x \in S : rank[x] = i - 1
    BY <1>8, <2>1 DEF Surjection
  <2>3. Sorted(S, before)[i] = CHOOSE z \in S : Cardinality({y \in S : <<y, z>> \in before}) = i - 1
    BY DEF Sorted
  <2>4. Cardinality({y \in S : <<y, x>> \in before}) = i - 1
    BY <2>2 DEF below
  <2>5. \E z \in S : Cardinality({y \in S : <<y, z>> \in before}) = i - 1
    BY <2>4
  <2>6. LET z == Sorted(S, before)[i]
        IN  z \in S /\ Cardinality({y \in S : <<y, z>> \in before}) = i - 1
    BY <2>3, <2>5
  <2> QED BY <2>6 DEF below
<1>10. Sorted(S, before) \in [1..n -> S]
  BY <1>9 DEF Sorted
<1>11. \A x \in S : \E i \in 1..n : Sorted(S, before)[i] = x
  <2> TAKE x \in S
  <2>1. rank[x] \in T
    BY <1>4
  <2>2. rank[x] + 1 \in 1..n /\ (rank[x] + 1) - 1 = rank[x]
    BY <1>1, <2>1
  <2>3. /\ Sorted(S, before)[rank[x] + 1] \in S
        /\ rank[Sorted(S, before)[rank[x] + 1]] = rank[x]
    BY <1>9, <2>2
  <2> QED BY <1>5, <2>2, <2>3
<1>12. ASSUME NEW i \in 1..n, NEW j \in 1..n, i < j
       PROVE  <<Sorted(S, before)[i], Sorted(S, before)[j]>> \in before
  <2> DEFINE x == Sorted(S, before)[i]
             y == Sorted(S, before)[j]
  <2>1. x \in S /\ y \in S /\ rank[x] = i - 1 /\ rank[y] = j - 1
    BY <1>9
  <2>2. x # y /\ ~ rank[y] < rank[x]
    BY <1>12, <2>1
  <2> QED BY <1>3, <2>1, <2>2
<1> QED BY <1>1, <1>10, <1>11, <1>12

LEMMA SortedNumbers ==
  ASSUME NEW S \in SUBSET Int, IsFiniteSet(S)
  PROVE  /\ Cardinality(S) \in Nat
         /\ Sorted(S, Increasing(S)) \in [1..Cardinality(S) -> S]
         /\ \A x \in S : \E i \in 1..Cardinality(S) : Sorted(S, Increasing(S))[i] = x
         /\ \A i, j \in 1..Cardinality(S) :
              i < j => Sorted(S, Increasing(S))[i] < Sorted(S, Increasing(S))[j]
<1> DEFINE before == Increasing(S)
<1>1. \A x, y \in S : <<x, y>> \in before <=> x < y
  BY DEF Increasing
<1>2. S \subseteq Int
  OBVIOUS
<1> HIDE DEF before
<1>3. /\ \A x \in S : <<x, x>> \notin before
      /\ \A x, y, z \in S : <<x, y>> \in before /\ <<y, z>> \in before => <<x, z>> \in before
      /\ \A x, y \in S : x # y => <<x, y>> \in before \/ <<y, x>> \in before
  BY <1>1, <1>2
<1>4. /\ Cardinality(S) \in Nat
      /\ Sorted(S, before) \in [1..Cardinality(S) -> S]
      /\ \A x \in S : \E i \in 1..Cardinality(S) : Sorted(S, before)[i] = x
      /\ \A i, j \in 1..Cardinality(S) :
           i < j => <<Sorted(S, before)[i], Sorted(S, before)[j]>> \in before
  BY <1>3, SortedSequence
<1> QED BY <1>1, <1>4 DEF before

LEMMA MaximumExists ==
  ASSUME NEW S \in SUBSET Int, IsFiniteSet(S), S # {}
  PROVE  \E x \in S : \A y \in S : y <= x
<1> DEFINE n == Cardinality(S)
           s == Sorted(S, Increasing(S))
<1>1. /\ n \in Nat
      /\ s \in [1..n -> S]
      /\ \A x \in S : \E i \in 1..n : s[i] = x
      /\ \A i, j \in 1..n : i < j => s[i] < s[j]
  BY SortedNumbers
<1> HIDE DEF s, n
<1>2. n \in 1..n /\ \A i \in 1..n : i = n \/ i < n
  <2>1. PICK x \in S : TRUE
    OBVIOUS
  <2>2. PICK i \in 1..n : s[i] = x
    BY <1>1
  <2> QED BY <1>1, <2>2
<1>3. s[n] \in S /\ \A i \in 1..n : s[i] <= s[n]
  <2>1. \A i \in 1..n : s[i] \in Int
    BY <1>1
  <2> QED BY <1>1, <1>2, <2>1
<1> QED BY <1>1, <1>3

LEMMA MinimumExists ==
  ASSUME NEW S \in SUBSET Int, IsFiniteSet(S), S # {}
  PROVE  \E x \in S : \A y \in S : x <= y
<1> DEFINE n == Cardinality(S)
           s == Sorted(S, Increasing(S))
<1>1. /\ n \in Nat
      /\ s \in [1..n -> S]
      /\ \A x \in S : \E i \in 1..n : s[i] = x
      /\ \A i, j \in 1..n : i < j => s[i] < s[j]
  BY SortedNumbers
<1> HIDE DEF s, n
<1>2. 1 \in 1..n /\ \A i \in 1..n : i = 1 \/ 1 < i
  <2>1. PICK x \in S : TRUE
    OBVIOUS
  <2>2. PICK i \in 1..n : s[i] = x
    BY <1>1
  <2> QED BY <1>1, <2>2
<1>3. s[1] \in S /\ \A i \in 1..n : s[1] <= s[i]
  <2>1. \A i \in 1..n : s[i] \in Int
    BY <1>1
  <2> QED BY <1>1, <1>2, <2>1
<1> QED BY <1>1, <1>3

\* A set of positions that has all positions before its own is an initial one.
LEMMA InitialPositions ==
  ASSUME NEW n \in Nat, NEW D \in SUBSET (1..n),
         \A i \in D, j \in 1..n : j <= i => j \in D
  PROVE  /\ IsFiniteSet(D)
         /\ Cardinality(D) \in Nat
         /\ D = 1..Cardinality(D)
<1>1. IsFiniteSet(D) /\ Cardinality(D) \in Nat
  <2>1. IsFiniteSet(1..n)
    BY FS_Interval
  <2> QED BY <2>1, FS_Subset, FS_CardinalityType
<1>2. CASE D = {}
  BY <1>2, FS_EmptySet
<1>3. CASE D # {}
  <2>1. PICK x \in D : \A y \in D : y <= x
    BY <1>1, <1>3, MaximumExists
  <2>2. D = 1..x
    <3>1. x \in 1..n
      OBVIOUS
    <3>2. \A y \in D : y \in 1..n /\ y <= x
      BY <2>1
    <3>3. D \subseteq 1..x
      BY <3>1, <3>2
    <3>4. \A y \in 1..x : y \in 1..n /\ y <= x
      BY <3>1
    <3> QED BY <3>3, <3>4
  <2>3. Cardinality(1..x) = x
    BY <2>1, FS_Interval
  <2> QED BY <1>1, <2>2, <2>3
<1> QED BY <1>1, <1>2, <1>3


-----------------------------------------------------------------------------
(* Sums over finite sets: the order the members are taken in does not      *)
(* matter.                                                                 *)

\* What holds of the empty set, and of a set when it holds of what is left
\* without any one of its members, holds of all finite sets.
LEMMA SubsetInduction ==
  ASSUME NEW S, IsFiniteSet(S), NEW C, {} \in C,
         \A s \in SUBSET S : s # {} /\ (\A x \in s : s \ {x} \in C) => s \in C
  PROVE  SUBSET S \subseteq C
<1> DEFINE T == {n \in Nat : \A s \in SUBSET S : Cardinality(s) = n => s \in C}
<1>1. \A s \in SUBSET S : IsFiniteSet(s) /\ Cardinality(s) \in Nat
  BY FS_Subset, FS_CardinalityType
<1>2. 0 \in T
  <2>1. \A s \in SUBSET S : Cardinality(s) = 0 => s = {}
    BY <1>1, FS_EmptySet
  <2> QED BY <2>1
<1>3. ASSUME NEW n \in Nat, n \in T PROVE n + 1 \in T
  <2> SUFFICES ASSUME NEW s \in SUBSET S, Cardinality(s) = n + 1 PROVE s \in C
    OBVIOUS
  <2>1. s # {}
    <3>1. n + 1 # 0
      OBVIOUS
    <3> QED BY <3>1, FS_EmptySet
  <2>2. ASSUME NEW x \in s PROVE s \ {x} \in C
    <3>1. Cardinality(s \ {x}) = n
      BY <1>1, FS_RemoveElement
    <3> QED BY <1>3, <3>1
  <2> QED BY <2>1, <2>2
<1>4. Nat \subseteq T
  <2> HIDE DEF T
  <2> QED BY <1>2, <1>3, NatSetInduction
<1> QED BY <1>1, <1>4

\* A fold over the subsets of a finite set, each taken as the member c
\* chooses and what is left, exists for any step.
FoldsUp(g, step, base, c, D) ==
  \A s \in D : g[s] = IF s = {} THEN base ELSE step[<<s, g[s \ {c[s]}]>>]

LEMMA FoldExists ==
  ASSUME NEW S, IsFiniteSet(S), NEW V, NEW base \in V,
         NEW c, \A s \in SUBSET S : s # {} => c[s] \in s,
         NEW step \in [(SUBSET S) \X V -> V]
  PROVE  \E g \in [SUBSET S -> V] : FoldsUp(g, step, base, c, SUBSET S)
<1> DEFINE D(n) == {s \in SUBSET S : Cardinality(s) <= n}
           Q(n) == \E g \in [D(n) -> V] : FoldsUp(g, step, base, c, D(n))
           T == {n \in Nat : Q(n)}
<1>1. \A s \in SUBSET S : IsFiniteSet(s) /\ Cardinality(s) \in Nat
                          /\ Cardinality(s) <= Cardinality(S)
  BY FS_Subset, FS_CardinalityType
<1>2. \A s \in SUBSET S : s # {} => Cardinality(s \ {c[s]}) = Cardinality(s) - 1
  BY <1>1, FS_RemoveElement
<1>3. 0 \in T
  <2> DEFINE g == [s \in D(0) |-> base]
  <2>1. \A s \in D(0) : s = {}
    <3>1. \A s \in D(0) : Cardinality(s) = 0
      BY <1>1
    <3> QED BY <1>1, <3>1, FS_EmptySet
  <2>2. g \in [D(0) -> V]
    OBVIOUS
  <2>3. FoldsUp(g, step, base, c, D(0))
    BY <2>1 DEF FoldsUp
  <2> HIDE DEF g
  <2> QED BY <2>2, <2>3
<1>4. ASSUME NEW n \in Nat, n \in T PROVE n + 1 \in T
  <2>1. PICK g \in [D(n) -> V] : FoldsUp(g, step, base, c, D(n))
    BY <1>4
  <2> DEFINE E == D(n + 1)
             h == [s \in E |-> IF Cardinality(s) <= n THEN g[s] ELSE step[<<s, g[s \ {c[s]}]>>]]
  <2>2. ASSUME NEW s \in E, s # {} PROVE s \ {c[s]} \in D(n) /\ s \ {c[s]} \in E
    <3>1. Cardinality(s \ {c[s]}) = Cardinality(s) - 1
      BY <1>2, <2>2
    <3>2. Cardinality(s) \in Nat /\ Cardinality(s) <= n + 1
      BY <1>1, <2>2
    <3> QED BY <2>2, <3>1, <3>2
  <2>3. ASSUME NEW s \in E, ~(Cardinality(s) <= n) PROVE s # {}
    <3>1. Cardinality({}) <= n
      <4>1. Cardinality({}) = 0
        BY FS_EmptySet
      <4> QED BY <4>1
    <3> HIDE DEF E
    <3> QED BY <2>3, <3>1
  <2>4. h \in [E -> V]
    <3> SUFFICES ASSUME NEW s \in E PROVE h[s] \in V
      OBVIOUS
    <3>1. CASE Cardinality(s) <= n
      BY <2>1, <3>1
    <3>2. CASE ~(Cardinality(s) <= n)
      <4>1. g[s \ {c[s]}] \in V
        BY <2>1, <2>2, <2>3, <3>2
      <4>2. step[<<s, g[s \ {c[s]}]>>] \in V
        BY <4>1
      <4> QED BY <3>2, <4>2
    <3> QED BY <3>1, <3>2
  <2>5. ASSUME NEW s \in E
        PROVE  h[s] = IF s = {} THEN base ELSE step[<<s, h[s \ {c[s]}]>>]
    <3>1. s # {} => h[s \ {c[s]}] = g[s \ {c[s]}]
      BY <2>2
    <3>2. CASE Cardinality(s) <= n
      <4>1. s \in D(n) /\ h[s] = g[s]
        BY <3>2
      <4> QED BY <2>1, <3>1, <4>1 DEF FoldsUp
    <3>3. CASE ~(Cardinality(s) <= n)
      BY <2>3, <3>1, <3>3
    <3> QED BY <3>2, <3>3
  <2>6. FoldsUp(h, step, base, c, E)
    <3> HIDE DEF h, E
    <3> QED BY <2>5 DEF FoldsUp
  <2> HIDE DEF h
  <2>7. Q(n + 1)
    BY <2>4, <2>6
  <2> HIDE DEF Q
  <2> QED BY <2>7
<1>5. Cardinality(S) \in T
  <2> HIDE DEF T
  <2> QED BY <1>1, <1>3, <1>4, NatSetInduction
<1>6. D(Cardinality(S)) = SUBSET S
  BY <1>1
<1>7. Q(Cardinality(S))
  BY <1>5
<1> QED
  <2> HIDE DEF D
  <2> QED BY <1>6, <1>7

Whichever(s) == CHOOSE x \in s : TRUE
SumsUp(g, f, D) == \A s \in D : g[s] = IF s = {} THEN 0
                                       ELSE f[Whichever(s)] + g[s \ {Whichever(s)}]

LEMMA SumsExist ==
  ASSUME NEW S, IsFiniteSet(S), NEW f, \A x \in S : f[x] \in Int
  PROVE  \E g \in [SUBSET S -> Int] : SumsUp(g, f, SUBSET S)
<1> DEFINE c == [s \in SUBSET S |-> Whichever(s)]
           step == [x \in (SUBSET S) \X Int |->
                      IF x[1] = {} THEN 0 ELSE f[Whichever(x[1])] + x[2]]
<1>1. \A s \in SUBSET S : s # {} => c[s] \in s
  BY DEF Whichever
<1>2. step \in [(SUBSET S) \X Int -> Int]
  <2> SUFFICES ASSUME NEW s \in SUBSET S, NEW i \in Int, s # {} PROVE f[Whichever(s)] + i \in Int
    OBVIOUS
  <2>1. f[Whichever(s)] \in Int
    BY DEF Whichever
  <2> QED BY <2>1
<1>3. PICK g \in [SUBSET S -> Int] : FoldsUp(g, step, 0, c, SUBSET S)
  <2>1. 0 \in Int
    OBVIOUS
  <2> HIDE DEF c, step
  <2> QED BY <1>1, <1>2, <2>1, FoldExists
<1>4. ASSUME NEW s \in SUBSET S
      PROVE  g[s] = IF s = {} THEN 0 ELSE f[Whichever(s)] + g[s \ {Whichever(s)}]
  <2>1. g[s] = IF s = {} THEN 0 ELSE step[<<s, g[s \ {c[s]}]>>]
    BY <1>3 DEF FoldsUp
  <2>2. c[s] = Whichever(s) /\ g[s \ {Whichever(s)}] \in Int
    BY <1>3
  <2> QED BY <2>1, <2>2
<1> QED BY <1>3, <1>4 DEF SumsUp

LEMMA SumsUnique ==
  ASSUME NEW S, IsFiniteSet(S), NEW R \in SUBSET S, NEW f, NEW g, NEW h,
         SumsUp(g, f, SUBSET S), SumsUp(h, f, SUBSET R)
  PROVE  g[R] = h[R]
<1> DEFINE C == {s \in SUBSET R : g[s] = h[s]}
<1>1. IsFiniteSet(R)
  BY FS_Subset
<1>2. {} \in C
  BY DEF SumsUp
<1>3. ASSUME NEW s \in SUBSET R, s # {}, \A x \in s : s \ {x} \in C PROVE s \in C
  <2> DEFINE c == Whichever(s)
  <2>1. c \in s
    BY <1>3 DEF Whichever
  <2>2. g[s \ {c}] = h[s \ {c}]
    BY <1>3, <2>1
  <2>3. g[s] = f[c] + g[s \ {c}] /\ h[s] = f[c] + h[s \ {c}]
    BY <1>3 DEF SumsUp
  <2> QED BY <2>2, <2>3
<1>4. SUBSET R \subseteq C
  <2> HIDE DEF C
  <2> QED BY <1>1, <1>2, <1>3, SubsetInduction
<1> QED BY <1>4

\* The sum by the definition.
SumsOf(g, f, S) == /\ g \in [SUBSET S -> Int]
                   /\ SumsUp(g, f, SUBSET S)
                   /\ \A s \in SUBSET S : SumOver(f, s) = g[s]
LEMMA SumIs ==
  ASSUME NEW S, IsFiniteSet(S), NEW f, \A x \in S : f[x] \in Int
  PROVE  \E g : SumsOf(g, f, S)
<1>1. PICK g \in [SUBSET S -> Int] : SumsUp(g, f, SUBSET S)
  BY SumsExist
<1>2. ASSUME NEW R \in SUBSET S PROVE SumOver(f, R) = g[R]
  <2> DEFINE Def(h) == [s \in SUBSET R |->
                 IF s = {} THEN 0
                 ELSE f[CHOOSE x \in s : TRUE] + h[s \ {CHOOSE x \in s : TRUE}]]
             it == CHOOSE h : h = Def(h)
  <2>1. IsFiniteSet(R) /\ \A x \in R : f[x] \in Int
    BY FS_Subset
  <2>2. PICK h \in [SUBSET R -> Int] : SumsUp(h, f, SUBSET R)
    BY <2>1, SumsExist
  <2>3. h = Def(h)
    BY <2>2 DEF SumsUp, Whichever
  <2>4. it = Def(it)
    BY <2>3
  <2>5. SumOver(f, R) = it[R]
    BY DEF SumOver, MapThenSumSet, MapThenFoldSet
  <2> HIDE DEF it
  <2>6. SumsUp(it, f, SUBSET R)
    BY <2>4 DEF SumsUp, Whichever
  <2>7. g[R] = it[R]
    <3>1. SumsUp(g, f, SUBSET S)
      BY <1>1
    <3>2. IsFiniteSet(S) /\ R \in SUBSET S
      BY <1>2
    <3> HIDE <1>1
    <3> QED BY <2>6, <3>1, <3>2, SumsUnique
  <2> QED BY <2>5, <2>7
<1> QED BY <1>1, <1>2 DEF SumsOf

\* A sum is that of any one member and that of the others.
LEMMA SumSteps ==
  ASSUME NEW S, IsFiniteSet(S), NEW f, \A x \in S : f[x] \in Int
  PROVE  /\ SumOver(f, S) \in Int
         /\ SumOver(f, {}) = 0
         /\ \A x \in S : SumOver(f, S \ {x}) \in Int
                         /\ SumOver(f, S) = f[x] + SumOver(f, S \ {x})
<1>1. PICK g : SumsOf(g, f, S)
  BY SumIs
<1> DEFINE C == {s \in SUBSET S : \A x \in s : g[s] = f[x] + g[s \ {x}]}
<1>2. {} \in C
  OBVIOUS
<1>3. ASSUME NEW s \in SUBSET S, s # {}, \A x \in s : s \ {x} \in C PROVE s \in C
  <2> DEFINE c == Whichever(s)
  <2>1. c \in s
    BY <1>3 DEF Whichever
  <2>2. g[s] = f[c] + g[s \ {c}]
    BY <1>1, <1>3 DEF SumsOf, SumsUp
  <2> HIDE DEF c
  <2> SUFFICES ASSUME NEW x \in s, x # c PROVE g[s] = f[x] + g[s \ {x}]
    BY <2>2
  <2>3. g[s \ {c}] = f[x] + g[(s \ {c}) \ {x}]
    BY <1>3, <2>1
  <2>4. g[s \ {x}] = f[c] + g[(s \ {x}) \ {c}]
    BY <1>3, <2>1
  <2>5. (s \ {c}) \ {x} = (s \ {x}) \ {c}
    OBVIOUS
  <2>6. f[c] \in Int /\ f[x] \in Int /\ g[(s \ {x}) \ {c}] \in Int
    BY <1>1, <2>1 DEF SumsOf
  <2>7. g[s \ {c}] = f[x] + g[(s \ {x}) \ {c}]
    BY <2>3, <2>5
  <2> DEFINE k == g[(s \ {x}) \ {c}]
             a == g[s \ {c}]
             b == g[s \ {x}]
  <2>8. a = f[x] + k /\ b = f[c] + k /\ g[s] = f[c] + a /\ k \in Int
    BY <2>2, <2>4, <2>6, <2>7
  <2> HIDE DEF a, b, k
  <2>9. g[s] = f[x] + b
    BY <2>6, <2>8
  <2> QED BY <2>9 DEF b
<1>4. S \in C
  <2> HIDE DEF C
  <2> QED BY <1>2, <1>3, SubsetInduction
<1>5. g[{}] = 0
  BY <1>1 DEF SumsOf, SumsUp
<1> QED BY <1>1, <1>4, <1>5 DEF SumsOf

\* Sums compare member by member.
LEMMA SumCompares ==
  ASSUME NEW S, IsFiniteSet(S), NEW f, \A x \in S : f[x] \in Int,
         NEW h, \A x \in S : h[x] \in Int /\ f[x] <= h[x]
  PROVE  SumOver(f, S) <= SumOver(h, S)
<1>1. PICK F : SumsOf(F, f, S)
  BY SumIs
<1>2. PICK H : SumsOf(H, h, S)
  BY SumIs
<1> DEFINE C == {s \in SUBSET S : F[s] <= H[s]}
<1>3. {} \in C
  <2>1. {} \in SUBSET S
    OBVIOUS
  <2>2. F[{}] = 0
    BY <1>1, <2>1 DEF SumsOf, SumsUp
  <2>3. H[{}] = 0
    BY <1>2, <2>1 DEF SumsOf, SumsUp
  <2> QED BY <2>2, <2>3
<1>4. ASSUME NEW s \in SUBSET S, s # {}, \A x \in s : s \ {x} \in C PROVE s \in C
  <2> DEFINE c == Whichever(s)
  <2>1. c \in s
    BY <1>4 DEF Whichever
  <2>2. F[s] = f[c] + F[s \ {c}] /\ H[s] = h[c] + H[s \ {c}]
    BY <1>1, <1>2, <1>4 DEF SumsOf, SumsUp
  <2> HIDE DEF c
  <2>3. F[s \ {c}] <= H[s \ {c}]
    BY <1>4, <2>1
  <2>4. f[c] \in Int /\ h[c] \in Int /\ f[c] <= h[c] /\ F[s \ {c}] \in Int /\ H[s \ {c}] \in Int
    BY <1>1, <1>2, <2>1 DEF SumsOf
  <2> QED BY <2>2, <2>3, <2>4
<1>5. S \in C
  <2> HIDE DEF C
  <2> QED BY <1>3, <1>4, SubsetInduction
<1> QED BY <1>1, <1>2, <1>5 DEF SumsOf

LEMMA SumEquals ==
  ASSUME NEW S, IsFiniteSet(S), NEW f, \A x \in S : f[x] \in Int,
         NEW h, \A x \in S : h[x] = f[x]
  PROVE  SumOver(f, S) = SumOver(h, S)
<1>1. SumOver(f, S) <= SumOver(h, S) /\ SumOver(h, S) <= SumOver(f, S)
  BY SumCompares
<1>2. SumOver(f, S) \in Int
  BY SumSteps
<1>3. SumOver(h, S) \in Int
  BY SumSteps
<1> QED BY <1>1, <1>2, <1>3

LEMMA SumOfNaturals ==
  ASSUME NEW S, IsFiniteSet(S), NEW f, \A x \in S : f[x] \in Nat
  PROVE  SumOver(f, S) \in Nat
<1>1. PICK F : SumsOf(F, f, S)
  BY SumIs
<1> DEFINE C == {s \in SUBSET S : F[s] \in Nat}
<1>2. {} \in C
  <2>1. {} \in SUBSET S
    OBVIOUS
  <2>2. F[{}] = 0
    BY <1>1, <2>1 DEF SumsOf, SumsUp
  <2> QED BY <2>2
<1>3. ASSUME NEW s \in SUBSET S, s # {}, \A x \in s : s \ {x} \in C PROVE s \in C
  <2> DEFINE c == Whichever(s)
  <2>1. c \in s
    BY <1>3 DEF Whichever
  <2>2. F[s] = f[c] + F[s \ {c}]
    BY <1>1, <1>3 DEF SumsOf, SumsUp
  <2> HIDE DEF c
  <2> QED BY <1>3, <2>1, <2>2
<1>4. S \in C
  <2> HIDE DEF C
  <2> QED BY <1>2, <1>3, SubsetInduction
<1> QED BY <1>1, <1>4 DEF SumsOf

LEMMA SumOfZeros ==
  ASSUME NEW S, IsFiniteSet(S), NEW f, \A x \in S : f[x] = 0
  PROVE  SumOver(f, S) = 0
<1> DEFINE Z == {s \in SUBSET S : SumOver(f, s) = 0}
<1>1. \A s \in SUBSET S : IsFiniteSet(s) /\ \A x \in s : f[x] \in Int
  BY FS_Subset
<1>2. {} \in Z
  BY <1>1, SumSteps
<1>3. ASSUME NEW s \in SUBSET S, s # {}, \A x \in s : s \ {x} \in Z PROVE s \in Z
  <2>1. PICK x \in s : TRUE
    BY <1>3
  <2>2. SumOver(f, s) = f[x] + SumOver(f, s \ {x})
    BY <1>1, <2>1, SumSteps
  <2>3. SumOver(f, s \ {x}) = 0 /\ f[x] = 0
    BY <1>3, <2>1
  <2> QED BY <2>2, <2>3
<1>4. SUBSET S \subseteq Z
  <2> HIDE DEF Z
  <2> QED BY <1>2, <1>3, SubsetInduction
<1> QED BY <1>4

\* Data that no two processes share add up to all of them, each once.
LEMMA DisjointSum ==
  ASSUME NEW S, IsFiniteSet(S), NEW data,
         \A q, r \in S : \A d : d \in data[q] /\ d \in data[r] => q = r
  PROVE  BagSum([q \in S |-> SetToBag(data[q])]) = SetToBag(UNION {data[q] : q \in S})
<1> DEFINE bags == [q \in S |-> SetToBag(data[q])]
           D == UNION {data[q] : q \in S}
           copies(d) == [q \in S |-> IF BagIn(d, bags[q]) THEN bags[q][d] ELSE 0]
<1>1. \A q \in S : \A d : BagIn(d, bags[q]) <=> d \in data[q]
  BY DEF BagIn, BagToSet, SetToBag
<1>2. \A q \in S : \A d \in data[q] : bags[q][d] = 1
  BY DEF SetToBag
<1>3. \A q \in S : DOMAIN bags[q] = data[q]
  BY DEF SetToBag
<1>4. BagSum(bags) = [d \in UNION {DOMAIN bags[q] : q \in S} |-> SumOver(copies(d), S)]
  BY DEF BagSum
<1> HIDE DEF bags
<1>5. UNION {DOMAIN bags[q] : q \in S} = D
  BY <1>3
<1>6. ASSUME NEW d \in D PROVE SumOver(copies(d), S) = 1
  <2> DEFINE f == copies(d)
  <2>1. PICK q \in S : d \in data[q]
    OBVIOUS
  <2>2. f[q] = 1 /\ \A r \in S \ {q} : f[r] = 0
    BY <1>1, <1>2, <2>1
  <2> HIDE DEF f
  <2>3. \A r \in S : f[r] \in Int
    BY <2>2
  <2>4. SumOver(f, S) = f[q] + SumOver(f, S \ {q})
    BY <2>1, <2>3, SumSteps
  <2>5. SumOver(f, S \ {q}) = 0
    BY <2>2, FS_Subset, SumOfZeros
  <2>6. SumOver(f, S) = 1
    BY <2>2, <2>4, <2>5
  <2> QED BY <2>6 DEF f
<1>7. BagSum(bags) = [d \in D |-> 1]
  <2> DEFINE sum(d) == SumOver(copies(d), S)
  <2>1. BagSum(bags) = [d \in D |-> sum(d)]
    BY <1>4, <1>5
  <2>2. \A d \in D : sum(d) = 1
    BY <1>6
  <2> HIDE DEF sum, D
  <2> QED BY <2>1, <2>2
<1> QED BY <1>7 DEF bags, SetToBag

-----------------------------------------------------------------------------
(* Sequences laid out one after the other.                                 *)

FlatUpTo(A, seqs, m) ==
  \E f \in [1..m -> Seq(A)] :
    f[1] = seqs[1] /\ \A i \in 2..m : f[i] = f[i - 1] \o seqs[i]

LEMMA FlatParts ==
  ASSUME NEW A, NEW n \in Nat, NEW seqs, \A i \in 1..n : seqs[i] \in Seq(A)
  PROVE  \A m \in 1..n : FlatUpTo(A, seqs, m)
<1> USE DEF FlatUpTo
<1> DEFINE Flat(m) == FlatUpTo(A, seqs, m)
           T == {m \in Nat : m \in 1..n => Flat(m)}
<1>1. 0 \in T
  OBVIOUS
<1>2. ASSUME 1 <= n PROVE Flat(1)
  <2> DEFINE f == [i \in 1..1 |-> seqs[1]]
  <2>1. f \in [1..1 -> Seq(A)] /\ f[1] = seqs[1] /\ \A i \in 2..1 : FALSE
    BY <1>2
  <2> HIDE DEF f
  <2> QED BY <2>1
<1>3. ASSUME NEW m \in Nat, m >= 1, m + 1 <= n, Flat(m) PROVE Flat(m + 1)
  <2>1. PICK f \in [1..m -> Seq(A)] :
          f[1] = seqs[1] /\ \A i \in 2..m : f[i] = f[i - 1] \o seqs[i]
    BY <1>3
  <2> DEFINE g == [i \in 1..(m + 1) |-> IF i <= m THEN f[i] ELSE f[m] \o seqs[m + 1]]
  <2>2. f[m] \in Seq(A) /\ seqs[m + 1] \in Seq(A)
    BY <1>3, <2>1
  <2>3. f[m] \o seqs[m + 1] \in Seq(A)
    BY <2>2, ConcatProperties
  <2>4. g \in [1..(m + 1) -> Seq(A)]
    <3>1. \A i \in 1..(m + 1) : g[i] \in Seq(A)
      BY <2>3
    <3> QED BY <3>1
  <2>5. g[1] = seqs[1]
    BY <1>3, <2>1
  <2>6. ASSUME NEW i \in 2..(m + 1) PROVE g[i] = g[i - 1] \o seqs[i]
    <3>1. CASE i <= m
      <4>1. i \in 1..(m + 1) /\ i - 1 \in 1..(m + 1) /\ i - 1 <= m /\ i \in 2..m
        BY <3>1
      <4>2. g[i] = f[i] /\ g[i - 1] = f[i - 1]
        BY <3>1, <4>1
      <4>3. f[i] = f[i - 1] \o seqs[i]
        BY <2>1, <4>1
      <4> QED BY <4>2, <4>3
    <3>2. CASE i = m + 1
      <4>1. g[i] = f[m] \o seqs[i] /\ g[i - 1] = f[m]
        BY <1>3, <3>2
      <4> QED BY <4>1
    <3>3. i <= m \/ i = m + 1
      OBVIOUS
    <3> HIDE DEF g
    <3> QED BY <3>1, <3>2, <3>3
  <2> HIDE DEF g
  <2> QED BY <2>4, <2>5, <2>6
<1>4. ASSUME NEW m \in Nat, m \in T PROVE m + 1 \in T
  <2>1. CASE m = 0
    <3>1. m + 1 = 1
      BY <2>1
    <3> HIDE DEF Flat
    <3> QED BY <1>2, <3>1
  <2>2. CASE m >= 1
    <3> HIDE DEF Flat
    <3> QED BY <1>3, <1>4, <2>2
  <2>3. m = 0 \/ m >= 1
    OBVIOUS
  <2> HIDE DEF T
  <2> QED BY <2>1, <2>2, <2>3
<1> HIDE DEF T
<1>5. Nat \subseteq T
  BY <1>1, <1>4, NatSetInduction
<1> USE DEF T
<1> HIDE DEF FlatUpTo
<1> QED BY <1>5

\* FlattenSeq puts part i behind the parts before it.
Lengths(seqs, n, size) == \A i \in 1..n : size[i] = Len(seqs[i])

LaidOut(seqs, n, sum, whole) ==
  \A i \in 1..n : \A k \in 1..Len(seqs[i]) : whole[sum[i - 1] + k] = seqs[i][k]

LEMMA Flattened ==
  ASSUME NEW A, NEW n \in Nat, NEW seqs \in [1..n -> Seq(A)],
         NEW size, Lengths(seqs, n, size)
  PROVE  /\ FlattenSeq(seqs) \in Seq(A)
         /\ Len(FlattenSeq(seqs)) = RunningSum(size, n)[n]
         /\ LaidOut(seqs, n, RunningSum(size, n), FlattenSeq(seqs))
<1> USE DEF Lengths, LaidOut
<1> DEFINE sum == RunningSum(size, n)
<1>1. Len(seqs) = n /\ \A i \in 1..n : seqs[i] \in Seq(A) /\ Len(seqs[i]) \in Nat
  BY LenProperties
<1>2. \A i \in 1..n : size[i] \in Nat /\ size[i] \in Int
  BY <1>1
<1>3. sum[0] = 0 /\ \A i \in 1..n : sum[i] = sum[i - 1] + size[i]
  BY <1>2, RunningSumSteps
<1>4. /\ sum \in [0..n -> Nat]
      /\ \A i, j \in 0..n : i <= j => sum[i] <= sum[j]
  BY <1>2, RunningSumMonotone
<1> HIDE DEF sum
<1>5. CASE n = 0
  <2>1. seqs = <<>>
    BY <1>5
  <2>2. FlattenSeq(seqs) = <<>>
    BY <1>1, <1>5, <2>1 DEF FlattenSeq
  <2> QED BY <1>3, <1>5, <2>2 DEF sum
<1>6. CASE n >= 1
  <2> DEFINE Def(f) == [i \in 1..n |-> IF i = 1 THEN seqs[i] ELSE f[i - 1] \o seqs[i]]
             flat == CHOOSE f : f = Def(f)
  <2>1. n \in 1..n
    BY <1>6
  <2>2. PICK f \in [1..n -> Seq(A)] :
          f[1] = seqs[1] /\ \A i \in 2..n : f[i] = f[i - 1] \o seqs[i]
    <3>1. \A i \in 1..n : seqs[i] \in Seq(A)
      BY <1>1
    <3>2. FlatUpTo(A, seqs, n)
      BY <2>1, <3>1, FlatParts
    <3> QED BY <3>2 DEF FlatUpTo
  <2>3. f = Def(f)
    <3>1. ASSUME NEW i \in 1..n
          PROVE  f[i] = IF i = 1 THEN seqs[i] ELSE f[i - 1] \o seqs[i]
      <4>1. CASE i = 1
        BY <2>2, <4>1
      <4>2. CASE i # 1
        <5>1. i \in 2..n
          BY <4>2
        <5> QED BY <2>2, <4>2, <5>1
      <4> QED BY <4>1, <4>2
    <3> QED BY <3>1
  <2>4. flat = Def(flat)
    BY <2>3
  <2>5. FlattenSeq(seqs) = flat[n]
    BY <1>1, <1>6 DEF FlattenSeq
  <2> HIDE DEF flat
  <2>6. flat[1] = seqs[1] /\ \A i \in 2..n : flat[i] = flat[i - 1] \o seqs[i]
    <3>1. 1 \in 1..n
      BY <1>6
    <3>2. \A i \in 1..n : flat[i] = IF i = 1 THEN seqs[i] ELSE flat[i - 1] \o seqs[i]
      BY <2>4
    <3>3. \A i \in 2..n : i \in 1..n /\ i # 1
      OBVIOUS
    <3> QED BY <3>1, <3>2, <3>3
  <2> DEFINE Good(i) == /\ flat[i] \in Seq(A)
                        /\ Len(flat[i]) = sum[i]
                        /\ \A j \in 1..i : \A k \in 1..Len(seqs[j]) :
                             flat[i][sum[j - 1] + k] = seqs[j][k]
             T == {i \in Nat : i \in 1..n => Good(i)}
  <2>7. 0 \in T
    OBVIOUS
  <2>8. Good(1)
    <3>1. sum[1] = size[1] /\ size[1] = Len(seqs[1]) /\ sum[1 - 1] = 0
      BY <1>1, <1>3, <1>6
    <3>2. \A j \in 1..1 : j = 1
      OBVIOUS
    <3>3. \A k \in 1..Len(seqs[1]) : 0 + k = k
      OBVIOUS
    <3> QED BY <1>1, <1>6, <2>6, <3>1, <3>2, <3>3
  <2>9. ASSUME NEW i \in Nat, i >= 1, i + 1 <= n, Good(i) PROVE Good(i + 1)
    <3>1. flat[i + 1] = flat[i] \o seqs[i + 1] /\ flat[i] \in Seq(A) /\ seqs[i + 1] \in Seq(A)
      <4>1. i + 1 \in 2..n /\ i + 1 \in 1..n /\ (i + 1) - 1 = i
        BY <2>9
      <4> QED BY <1>1, <2>6, <2>9, <4>1
    <3>2. /\ flat[i + 1] \in Seq(A)
          /\ Len(flat[i + 1]) = Len(flat[i]) + Len(seqs[i + 1])
          /\ \A q \in 1..(Len(flat[i]) + Len(seqs[i + 1])) :
               flat[i + 1][q] = IF q <= Len(flat[i]) THEN flat[i][q]
                                ELSE seqs[i + 1][q - Len(flat[i])]
      <4> DEFINE a == flat[i]
                 b == seqs[i + 1]
      <4>1. a \in Seq(A) /\ b \in Seq(A)
        BY <3>1
      <4> HIDE DEF a, b
      <4>2. /\ a \o b \in Seq(A)
            /\ Len(a \o b) = Len(a) + Len(b)
            /\ \A q \in 1..(Len(a) + Len(b)) :
                 (a \o b)[q] = IF q <= Len(a) THEN a[q] ELSE b[q - Len(a)]
        BY <4>1, ConcatProperties
      <4> QED BY <3>1, <4>2 DEF a, b
    <3>3. Len(flat[i]) = sum[i] /\ sum[i] \in Nat
      BY <1>4, <2>9
    <3>4. sum[i + 1] = sum[i] + Len(seqs[i + 1])
      <4>1. i + 1 \in 1..n /\ (i + 1) - 1 = i
        BY <2>9
      <4>2. size[i + 1] = Len(seqs[i + 1])
        BY <4>1
      <4> QED BY <1>3, <4>1, <4>2
    <3>5. ASSUME NEW j \in 1..(i + 1), NEW k \in 1..Len(seqs[j])
          PROVE  flat[i + 1][sum[j - 1] + k] = seqs[j][k]
      <4>1. CASE j <= i
        <5>0. j \in 1..n /\ j \in 0..n /\ i \in 0..n /\ j - 1 \in 0..n /\ i + 1 \in 1..n
          BY <2>9, <4>1
        <5>1. /\ sum[j] = sum[j - 1] + Len(seqs[j]) /\ sum[j - 1] \in Nat
              /\ Len(seqs[j]) \in Nat /\ sum[j] <= sum[i]
          <6>1. size[j] = Len(seqs[j])
            BY <5>0
          <6> QED BY <1>1, <1>3, <1>4, <4>1, <5>0, <6>1
        <5>2. /\ sum[j - 1] + k \in 1..(Len(flat[i]) + Len(seqs[i + 1]))
              /\ sum[j - 1] + k <= Len(flat[i])
          <6>1. Len(seqs[i + 1]) \in Nat
            BY <1>1, <5>0
          <6> DEFINE x == sum[j - 1]
                     l == Len(seqs[j])
                     m == Len(seqs[i + 1])
                     y == Len(flat[i])
          <6>2. k \in 1..l /\ l \in Nat /\ x \in Nat /\ m \in Nat /\ y \in Nat /\ x + l <= y
            BY <3>3, <5>1, <6>1
          <6> HIDE DEF x, l, m, y
          <6>3. x + k \in 1..(y + m) /\ x + k <= y
            BY <6>2
          <6> QED BY <6>3 DEF x, m, y
        <5>3. flat[i][sum[j - 1] + k] = seqs[j][k]
          BY <2>9, <4>1
        <5> QED BY <3>2, <5>2, <5>3
      <4>2. CASE j = i + 1
        <5>1. j - 1 = i /\ Len(seqs[j]) \in Nat
          BY <1>1, <2>9, <4>2
        <5>2. /\ sum[i] + k \in 1..(Len(flat[i]) + Len(seqs[i + 1]))
              /\ ~ (sum[i] + k <= Len(flat[i])) /\ (sum[i] + k) - Len(flat[i]) = k
          BY <3>3, <4>2, <5>1, SMTT(30)
        <5>3. flat[i + 1][sum[i] + k] = seqs[i + 1][k]
          BY <3>2, <5>2
        <5> QED BY <4>2, <5>1, <5>3
      <4> QED BY <4>1, <4>2
    <3> QED BY <3>2, <3>3, <3>4, <3>5
  <2>10. ASSUME NEW i \in Nat, i \in T PROVE i + 1 \in T
    <3>1. CASE i = 0
      <4>1. i + 1 = 1
        BY <3>1
      <4> HIDE DEF Good
      <4> QED BY <2>8, <4>1
    <3>2. CASE i >= 1
      <4> HIDE DEF Good
      <4> QED BY <2>9, <2>10, <3>2
    <3> QED BY <3>1, <3>2
  <2> HIDE DEF T
  <2>11. n \in T
    BY <2>7, <2>10, NatSetInduction
  <2>12. Good(n)
    BY <2>1, <2>11 DEF T
  <2> QED BY <2>5, <2>12 DEF sum
<1> QED BY <1>5, <1>6

\* FlattenSeq puts sequence i behind the sequences before it.
LenOf(seqs, n) == [i \in 1..n |-> Len(seqs[i])]

Ends(seqs, n) == RunningSum(LenOf(seqs, n), n)

LEMMA EndsStep ==
  ASSUME NEW A, NEW n \in Nat, NEW seqs \in [1..n -> Seq(A)]
  PROVE  /\ Ends(seqs, n) \in [0..n -> Nat]
         /\ Ends(seqs, n)[0] = 0
         /\ \A i \in 1..n : Ends(seqs, n)[i] = Ends(seqs, n)[i - 1] + Len(seqs[i])
         /\ \A i, j \in 0..n : i <= j => Ends(seqs, n)[i] <= Ends(seqs, n)[j]
<1> DEFINE size == LenOf(seqs, n)
<1>1. \A i \in 1..n : size[i] = Len(seqs[i]) /\ size[i] \in Nat
  BY DEF LenOf
<1> HIDE DEF size
<1>2. \A i \in 1..n : size[i] \in Int
  BY <1>1
<1>3. \A i \in 1..n : size[i] \in Nat
  BY <1>1
<1>4. /\ RunningSum(size, n) \in [0..n -> Nat]
      /\ \A i, j \in 0..n : i <= j => RunningSum(size, n)[i] <= RunningSum(size, n)[j]
  BY <1>3, RunningSumMonotone
<1>5. /\ RunningSum(size, n)[0] = 0
      /\ \A i \in 1..n : RunningSum(size, n)[i] = RunningSum(size, n)[i - 1] + size[i]
  BY <1>2, RunningSumSteps
<1>6. Ends(seqs, n) = RunningSum(size, n)
  BY DEF Ends, size
<1> QED BY <1>1, <1>4, <1>5, <1>6

OneAfterOther(A, n, seqs) ==
  /\ FlattenSeq(seqs) \in Seq(A)
  /\ Len(FlattenSeq(seqs)) = Ends(seqs, n)[n]
  /\ \A i \in 1..n : \A k \in 1..Len(seqs[i]) :
       /\ Ends(seqs, n)[i - 1] + k \in 1..Len(FlattenSeq(seqs))
       /\ FlattenSeq(seqs)[Ends(seqs, n)[i - 1] + k] = seqs[i][k]
  /\ \A t \in 1..Len(FlattenSeq(seqs)) :
       \E i \in 1..n : \E k \in 1..Len(seqs[i]) : t = Ends(seqs, n)[i - 1] + k

LEMMA FlattenedAt ==
  ASSUME NEW A, NEW n \in Nat, NEW seqs \in [1..n -> Seq(A)]
  PROVE  OneAfterOther(A, n, seqs)
<1> DEFINE size == LenOf(seqs, n)
           sum == Ends(seqs, n)
           g == FlattenSeq(seqs)
<1>1. \A i \in 1..n : size[i] = Len(seqs[i]) /\ size[i] \in Nat
  BY DEF LenOf
<1>2. sum = RunningSum(size, n)
  BY DEF Ends
<1> HIDE DEF size
<1>3. Lengths(seqs, n, size)
  BY <1>1 DEF Lengths
<1>4. /\ g \in Seq(A) /\ Len(g) = RunningSum(size, n)[n]
      /\ LaidOut(seqs, n, RunningSum(size, n), g)
  BY <1>3, Flattened
<1>5. \A i \in Nat : i < RunningSum(size, n)[n] =>
        \E k \in 1..n : RunningSum(size, n)[k - 1] <= i /\ i < RunningSum(size, n)[k]
  <2>1. \A i \in 1..n : size[i] \in Nat
    BY <1>1
  <2> QED BY <2>1, PartCovers
<1>6. /\ sum \in [0..n -> Nat]
      /\ \A i \in 1..n : sum[i] = sum[i - 1] + Len(seqs[i])
      /\ \A i, j \in 0..n : i <= j => sum[i] <= sum[j]
  BY EndsStep
<1> HIDE DEF sum, g
<1>7. \A i \in 1..n : \A k \in 1..Len(seqs[i]) : g[sum[i - 1] + k] = seqs[i][k]
  BY <1>2, <1>4 DEF LaidOut
<1>8. ASSUME NEW i \in 1..n, NEW k \in 1..Len(seqs[i]) PROVE sum[i - 1] + k \in 1..Len(g)
  <2>1. sum[i - 1] \in Nat /\ sum[i] = sum[i - 1] + Len(seqs[i]) /\ sum[i] <= sum[n]
        /\ sum[n] \in Nat /\ Len(seqs[i]) \in Nat
    BY <1>6
  <2>2. Len(g) = sum[n]
    BY <1>2, <1>4
  <2> QED BY <2>1, <2>2
<1>9. ASSUME NEW t \in 1..Len(g)
      PROVE  \E i \in 1..n : \E k \in 1..Len(seqs[i]) : t = sum[i - 1] + k
  <2>1. Len(g) = sum[n] /\ sum[n] \in Nat
    BY <1>2, <1>4, <1>6
  <2>2. t - 1 \in Nat /\ t - 1 < RunningSum(size, n)[n]
    BY <1>2, <2>1
  <2>3. PICK i \in 1..n : sum[i - 1] <= t - 1 /\ t - 1 < sum[i]
    BY <1>2, <1>5, <2>2
  <2>4. sum[i - 1] \in Nat /\ sum[i] = sum[i - 1] + Len(seqs[i]) /\ Len(seqs[i]) \in Nat
    BY <1>6
  <2>5. t \in Int
    BY <2>1
  <2> DEFINE k == t - sum[i - 1]
  <2>6. k \in 1..Len(seqs[i]) /\ t = sum[i - 1] + k
    BY <2>3, <2>4, <2>5
  <2> HIDE DEF k
  <2> QED BY <2>6
<1>10. Len(g) = sum[n]
  BY <1>2, <1>4
<1> QED BY <1>4, <1>7, <1>8, <1>9, <1>10 DEF OneAfterOther, sum, g

-----------------------------------------------------------------------------
(* Division, and the coordinates of a process.                             *)

LEMMA Steps ==
  ASSUME NEW d \in Nat, NEW x \in Nat, NEW y \in Nat, x < y
  PROVE  x * d + d <= y * d
<1>1. y * d = x * d + (y - x) * d
  OBVIOUS
<1>2. (y - x) * d >= d
  <2>1. y - x - 1 \in Nat
    OBVIOUS
  <2>2. (y - x) * d = (y - x - 1) * d + d
    OBVIOUS
  <2>3. (y - x - 1) * d \in Nat
    BY <2>1
  <2> QED BY <2>2, <2>3
<1> QED BY <1>1, <1>2

LEMMA DivisionUnique ==
  ASSUME NEW d \in Nat, NEW x \in Nat, NEW y \in Nat,
         NEW r \in 0..(d - 1), NEW s \in 0..(d - 1), x * d + r = y * d + s
  PROVE  x = y /\ r = s
<1> DEFINE X == x * d
           Y == y * d
<1>1. X \in Nat /\ Y \in Nat
  OBVIOUS
<1>2. x < y => X + d <= Y
  BY Steps
<1>3. y < x => Y + d <= X
  BY Steps
<1>4. X + r = Y + s
  OBVIOUS
<1>5. x = y => X = Y
  OBVIOUS
<1> HIDE DEF X, Y
<1>6. ~ x < y
  BY <1>1, <1>2, <1>4
<1>7. ~ y < x
  BY <1>1, <1>3, <1>4
<1>8. x = y
  BY <1>6, <1>7
<1> QED BY <1>1, <1>4, <1>5, <1>8

Quot(a, d) == a \div d

Rem(a, d) == a % d

LEMMA DivMod ==
  ASSUME NEW a \in Nat, NEW d \in Nat \ {0}
  PROVE  Quot(a, d) \in Nat /\ Rem(a, d) \in 0..(d - 1) /\ a = Quot(a, d) * d + Rem(a, d)
<1>1. Quot(a, d) \in Nat
  BY DEF Quot
<1>2. Rem(a, d) \in 0..(d - 1)
  BY DEF Rem
<1>3. a = d * Quot(a, d) + Rem(a, d)
  <2>1. \A q, r : q = a \div d /\ r = a % d => a = d * q + r
    BY SMTT(30)
  <2>2. Quot(a, d) = a \div d /\ Rem(a, d) = a % d
    BY Zenon DEF Quot, Rem
  <2> QED BY <2>1, <2>2, Zenon
<1>4. a = Quot(a, d) * d + Rem(a, d)
  BY <1>1, <1>2, <1>3
<1> QED BY <1>1, <1>2, <1>4

LEMMA DivModOf ==
  ASSUME NEW d \in Nat \ {0}, NEW q \in Nat, NEW r \in 0..(d - 1)
  PROVE  q * d + r \in Nat /\ Quot(q * d + r, d) = q /\ Rem(q * d + r, d) = r
<1> DEFINE a == q * d + r
<1>1. a \in Nat
  <2>1. q * d \in Nat
    OBVIOUS
  <2> QED BY <2>1
<1> DEFINE x == Quot(a, d)
           s == Rem(a, d)
<1>2. x \in Nat /\ s \in 0..(d - 1) /\ a = x * d + s
  <2> HIDE DEF a
  <2> QED BY <1>1, DivMod
<1>3. q * d + r = x * d + s
  BY <1>2
<1> HIDE DEF x, s
<1>4. q = x /\ r = s
  BY <1>2, <1>3, DivisionUnique
<1> QED BY <1>1, <1>4 DEF x, s

IsDims(d) == /\ d \in (Nat \ {0}) \X (Nat \ {0}) \X (Nat \ {0})
             /\ d[1] * d[2] * d[3] = world_size

\* A process is the one at its coordinates.
LEMMA CoordinatesOf ==
  ASSUME NEW d, IsDims(d), NEW p \in Procs
  PROVE  /\ Coords(d, p) \in (0..(d[1] - 1)) \X (0..(d[2] - 1)) \X (0..(d[3] - 1))
         /\ p = (Coords(d, p)[1] * d[2] + Coords(d, p)[2]) * d[3] + Coords(d, p)[3]
<1> DEFINE a == d[1]
           b == d[2]
           c == d[3]
           q == Quot(p, c)
           k == Rem(p, c)
           i == Quot(q, b)
           j == Rem(q, b)
<1>1. a \in Nat \ {0} /\ b \in Nat \ {0} /\ c \in Nat \ {0} /\ a * b * c = world_size
  BY DEF IsDims
<1>2. p \in Nat /\ p < world_size
  BY WorldAssumption DEF Procs
<1> HIDE DEF a, b, c
<1>3. q \in Nat /\ k \in 0..(c - 1) /\ p = q * c + k
  BY <1>1, <1>2, DivMod
<1> HIDE DEF q, k
<1>4. i \in Nat /\ j \in 0..(b - 1) /\ q = i * b + j
  BY <1>1, <1>3, DivMod
<1>5. Coords(d, p) = <<i, j, k>>
  BY Zenon DEF Coords, Quot, Rem, q, k, b, c
<1> HIDE DEF i, j
<1>6. i < a
  <2> SUFFICES ASSUME a <= i PROVE FALSE
    BY <1>1, <1>4
  <2>1. a * b <= i * b
    BY <1>1, <1>4
  <2>2. i * b \in Nat /\ a * b \in Nat
    BY <1>1, <1>4
  <2>3. a * b <= q
    BY <1>1, <1>4, <2>1, <2>2
  <2>4. (a * b) * c <= q * c
    <3> DEFINE x == a * b
    <3>1. x \in Nat /\ x <= q
      BY <2>2, <2>3
    <3> HIDE DEF x
    <3>2. x * c <= q * c
      BY <1>1, <1>3, <3>1
    <3> QED BY <3>2 DEF x
  <2> DEFINE y == q * c
             z == (a * b) * c
  <2>5. y \in Nat /\ z \in Nat /\ z = world_size /\ z <= y /\ p = y + k
    BY <1>1, <1>3, <2>2, <2>4
  <2> HIDE DEF y, z
  <2> QED BY <1>1, <1>2, <1>3, <2>5
<1>7. i \in 0..(a - 1)
  BY <1>1, <1>4, <1>6
<1>8. p = (i * b + j) * c + k
  BY <1>3, <1>4
<1> QED BY <1>3, <1>4, <1>5, <1>7, <1>8 DEF a, b, c

\* At every coordinate there is a process, and no other one.
LEMMA ProcessAt ==
  ASSUME NEW d, IsDims(d),
         NEW i \in 0..(d[1] - 1), NEW j \in 0..(d[2] - 1), NEW k \in 0..(d[3] - 1)
  PROVE  /\ (i * d[2] + j) * d[3] + k \in Procs
         /\ Coords(d, (i * d[2] + j) * d[3] + k) = <<i, j, k>>
<1> DEFINE a == d[1]
           b == d[2]
           c == d[3]
           q == i * b + j
           p == q * c + k
<1>1. a \in Nat \ {0} /\ b \in Nat \ {0} /\ c \in Nat \ {0} /\ a * b * c = world_size
  BY DEF IsDims
<1>2. i \in Nat /\ i < a /\ j \in 0..(b - 1) /\ k \in 0..(c - 1)
  BY <1>1
<1> HIDE DEF a, b, c
<1>3. q \in Nat /\ Quot(q, b) = i /\ Rem(q, b) = j
  BY <1>1, <1>2, DivModOf
<1>4. q + 1 <= a * b
  <2>1. i * b + b <= a * b
    BY <1>1, <1>2, Steps
  <2>2. i * b \in Nat
    BY <1>1, <1>2
  <2> QED BY <1>1, <1>2, <2>1, <2>2
<1> HIDE DEF q
<1>5. p \in Nat /\ Quot(p, c) = q /\ Rem(p, c) = k
  BY <1>1, <1>2, <1>3, DivModOf
<1>6. p < world_size
  <2> DEFINE x == a * b
  <2>1. x \in Nat /\ q < x
    BY <1>1, <1>3, <1>4
  <2>2. x * c = world_size
    BY <1>1
  <2> HIDE DEF x
  <2>3. q * c + c <= x * c
    BY <1>1, <1>3, <2>1, Steps
  <2>4. q * c \in Nat
    BY <1>1, <1>3
  <2> QED BY <1>1, <1>2, <1>5, <2>2, <2>3, <2>4, WorldAssumption
<1>7. p \in Procs
  BY <1>5, <1>6, WorldAssumption DEF Procs
<1>8. Coords(d, p) = <<i, j, k>>
  <2>1. Coords(d, p) = <<Quot(Quot(p, c), b), Rem(Quot(p, c), b), Rem(p, c)>>
    BY Zenon DEF Coords, Quot, Rem, b, c
  <2> HIDE DEF p
  <2> QED BY <1>3, <1>5, <2>1
<1> QED BY <1>7, <1>8 DEF p, q, b, c

LEMMA CoordinatesUnique ==
  ASSUME NEW d, IsDims(d), NEW p \in Procs, NEW q \in Procs, Coords(d, p) = Coords(d, q)
  PROVE  p = q
BY CoordinatesOf

-----------------------------------------------------------------------------
(* Sorted sequences and what is first in them.                             *)

\* A strict total order on S.
Linear(before, S) ==
  /\ \A x \in S : <<x, x>> \notin before
  /\ \A x, y, z \in S : <<x, y>> \in before /\ <<y, z>> \in before => <<x, z>> \in before
  /\ \A x, y \in S : x # y => <<x, y>> \in before \/ <<y, x>> \in before

\* How many of S are before x, and those with fewer than m before them.
RankIn(x, S, before) == Cardinality({y \in S : <<y, x>> \in before})
FirstOf(m, S, before) == {x \in S : RankIn(x, S, before) < m}

\* The place of a member in the sorted sequence is how many are before it.
LEMMA SortedRank ==
  ASSUME NEW S, IsFiniteSet(S), NEW before, Linear(before, S), NEW i \in 1..Cardinality(S)
  PROVE  RankIn(Sorted(S, before)[i], S, before) = i - 1
<1> DEFINE n == Cardinality(S)
           s == Sorted(S, before)
           T == {y \in S : <<y, s[i]>> \in before}
<1>1. /\ n \in Nat /\ s \in [1..n -> S]
      /\ \A x \in S : \E j \in 1..n : s[j] = x
      /\ \A j, k \in 1..n : j < k => <<s[j], s[k]>> \in before
  BY SortedSequence DEF Linear
<1> HIDE DEF s, n
<1>2. i \in 1..n
  BY DEF n
<1>3. \A j \in 1..n : s[j] \in S
  BY <1>1
<1>4. \A j \in 1..n : <<s[j], s[i]>> \in before <=> j < i
  <2> TAKE j \in 1..n
  <2>1. CASE j < i
    BY <1>1, <1>2, <2>1
  <2>2. CASE j = i
    BY <1>1, <1>3, <2>2 DEF Linear
  <2>3. CASE j > i
    <3>1. <<s[i], s[j]>> \in before /\ s[i] \in S /\ s[j] \in S
      BY <1>1, <1>2, <1>3, <2>3
    <3>2. <<s[i], s[i]>> \notin before
      BY <3>1 DEF Linear
    <3>3. <<s[j], s[i]>> \notin before
      BY <3>1, <3>2 DEF Linear
    <3> QED BY <1>2, <2>3, <3>3
  <2> QED BY <1>2, <2>1, <2>2, <2>3
<1> DEFINE I == 1..(i - 1)
           f == [j \in I |-> s[j]]
<1>5. I \subseteq 1..n
  BY <1>1, <1>2
<1>6. \A j \in I : f[j] = s[j] /\ s[j] \in T
  <2> TAKE j \in I
  <2>1. j \in 1..n /\ j < i
    BY <1>2, <1>5
  <2> QED BY <1>3, <1>4, <2>1
<1>7. f \in [I -> T]
  BY <1>6
<1>8. \A j, k \in I : f[j] = f[k] => j = k
  <2> SUFFICES ASSUME NEW j \in I, NEW k \in I, j < k PROVE s[j] # s[k]
    BY <1>2, <1>6
  <2>1. j \in 1..n /\ k \in 1..n
    BY <1>5
  <2>2. <<s[j], s[k]>> \in before /\ s[j] \in S
    BY <1>1, <1>3, <2>1
  <2> QED BY <2>2 DEF Linear
<1>9. \A y \in T : \E j \in I : f[j] = y
  <2> TAKE y \in T
  <2>1. PICK j \in 1..n : s[j] = y
    BY <1>1
  <2>2. j < i
    BY <1>4, <2>1
  <2>3. j \in I
    BY <1>2, <2>1, <2>2
  <2> QED BY <1>6, <2>1, <2>3
<1> HIDE DEF f, T, I
<1>10. f \in Bijection(I, T)
  BY <1>7, <1>8, <1>9 DEF Bijection, Injection, Surjection, IsInjective
<1>11. IsFiniteSet(I) /\ Cardinality(I) = i - 1
  <2>1. i - 1 \in Int /\ 1 <= i
    BY <1>2
  <2> QED BY <2>1, FS_Interval DEF I
<1>12. Cardinality(T) = i - 1
  BY <1>10, <1>11, FS_Bijection DEF ExistsBijection
<1> QED BY <1>12 DEF RankIn, T, s

\* The first m of the sorted sequence are those of the lowest ranks: m of them,
\* or all, and each is before any other.
LEMMA FirstOnes ==
  ASSUME NEW S, IsFiniteSet(S), NEW before, Linear(before, S), NEW m \in Nat
  PROVE  LET s == Sorted(S, before)
             k == Min({m, Len(s)})
         IN  /\ k \in Nat /\ k <= Cardinality(S) /\ k = (IF m <= Cardinality(S) THEN m ELSE Cardinality(S))
             /\ FirstOf(m, S, before) = {s[i] : i \in 1..k}
             /\ IsFiniteSet(FirstOf(m, S, before))
             /\ Cardinality(FirstOf(m, S, before)) = k
             /\ \A i, j \in 1..k : s[i] = s[j] => i = j
             /\ \A x \in FirstOf(m, S, before), y \in S \ FirstOf(m, S, before) : <<x, y>> \in before
<1> DEFINE n == Cardinality(S)
           s == Sorted(S, before)
           k == Min({m, Len(s)})
           T == FirstOf(m, S, before)
<1>1. /\ n \in Nat /\ s \in [1..n -> S]
      /\ \A x \in S : \E j \in 1..n : s[j] = x
      /\ \A i, j \in 1..n : i < j => <<s[i], s[j]>> \in before
  BY SortedSequence DEF Linear
<1>2. \A i \in 1..n : RankIn(s[i], S, before) = i - 1
  BY SortedRank
<1> HIDE DEF s, n
<1>3. Len(s) = n
  BY <1>1, LenProperties
<1>4. k = IF m <= n THEN m ELSE n
  BY <1>1, <1>3 DEF Min
<1>5. k \in Nat /\ k <= n
  BY <1>1, <1>4
<1>6. \A i \in 1..n : s[i] \in T <=> i <= k
  <2> TAKE i \in 1..n
  <2>1. s[i] \in S /\ RankIn(s[i], S, before) = i - 1
    BY <1>1, <1>2
  <2>2. s[i] \in T <=> i - 1 < m
    BY <2>1 DEF FirstOf
  <2>3. i - 1 < m <=> i <= k
    BY <1>1, <1>4
  <2> QED BY <2>2, <2>3
<1> HIDE DEF k
<1>7. T \subseteq S
  BY DEF FirstOf
<1>8. \A x \in T : \E i \in 1..k : s[i] = x
  <2> TAKE x \in T
  <2>1. PICK i \in 1..n : s[i] = x
    BY <1>1, <1>7
  <2>2. i <= k
    BY <1>6, <2>1
  <2> QED BY <1>5, <2>1, <2>2
<1>9. \A i \in 1..k : i \in 1..n /\ s[i] \in T
  <2> TAKE i \in 1..k
  <2>1. i \in 1..n /\ i <= k
    BY <1>1, <1>5
  <2> QED BY <1>6, <2>1
<1>10. \A i, j \in 1..k : s[i] = s[j] => i = j
  <2> SUFFICES ASSUME NEW i \in 1..k, NEW j \in 1..k, i < j PROVE s[i] # s[j]
    BY <1>5
  <2>1. <<s[i], s[j]>> \in before /\ s[i] \in S
    BY <1>1, <1>9
  <2> QED BY <2>1 DEF Linear
<1> HIDE DEF T
<1>11. T = {s[i] : i \in 1..k}
  BY <1>8, <1>9
<1> DEFINE f == [i \in 1..k |-> s[i]]
<1>12. f \in Bijection(1..k, T)
  <2>1. \A i \in 1..k : f[i] = s[i]
    OBVIOUS
  <2>2. f \in [1..k -> T]
    BY <1>9
  <2> HIDE DEF f
  <2> QED BY <1>8, <1>10, <2>1, <2>2 DEF Bijection, Injection, Surjection, IsInjective
<1> HIDE DEF f
<1>13. IsFiniteSet(1..k) /\ Cardinality(1..k) = k
  <2>1. 1 \in Int /\ k \in Int /\ ~ (1 > k) => k - 1 + 1 = k
    BY <1>5
  <2>2. IsFiniteSet(1..k) /\ Cardinality(1..k) = IF 1 > k THEN 0 ELSE k - 1 + 1
    BY <1>5, FS_Interval
  <2> QED BY <1>5, <2>2
<1>14. IsFiniteSet(T) /\ Cardinality(T) = k
  BY <1>12, <1>13, FS_Bijection DEF ExistsBijection
<1>15. \A x \in T, y \in S \ T : <<x, y>> \in before
  <2> TAKE x \in T, y \in S \ T
  <2>1. PICK i \in 1..k : s[i] = x
    BY <1>8
  <2>2. PICK j \in 1..n : s[j] = y
    BY <1>1
  <2>3. ~ j <= k
    BY <1>6, <2>2
  <2>4. i \in 1..n /\ i < j
    BY <1>5, <1>9, <2>2, <2>3
  <2> QED BY <1>1, <2>1, <2>2, <2>4
<1> QED BY <1>4, <1>5, <1>10, <1>11, <1>14, <1>15 DEF T, k, s, n

\* A one-to-one function onto T counts it.
LEMMA OneToOne ==
  ASSUME NEW S, IsFiniteSet(S), NEW T, NEW f \in [S -> T],
         \A x, y \in S : f[x] = f[y] => x = y, \A t \in T : \E x \in S : f[x] = t
  PROVE  IsFiniteSet(T) /\ Cardinality(T) = Cardinality(S)
<1>1. f \in Bijection(S, T)
  BY DEF Bijection, Injection, Surjection, IsInjective
<1> QED BY <1>1, FS_Bijection DEF ExistsBijection

\* A place of a flattened sequence is in one of the sequences only.
OnePlace(n, seqs, i, k, j, l) == Ends(seqs, n)[i - 1] + k = Ends(seqs, n)[j - 1] + l

LEMMA PlaceOnce ==
  ASSUME NEW A, NEW n \in Nat, NEW seqs \in [1..n -> Seq(A)],
         NEW i \in 1..n, NEW j \in 1..n, NEW k \in 1..Len(seqs[i]), NEW l \in 1..Len(seqs[j]),
         OnePlace(n, seqs, i, k, j, l)
  PROVE  i = j /\ k = l
<1> DEFINE e == Ends(seqs, n)
<1>1. /\ e \in [0..n -> Nat]
      /\ \A h \in 1..n : e[h] = e[h - 1] + Len(seqs[h])
      /\ \A h, m \in 0..n : h <= m => e[h] <= e[m]
  BY EndsStep
<1>2. e[i - 1] + k = e[j - 1] + l
  BY DEF OnePlace
<1> HIDE DEF e
<1>3. Len(seqs[i]) \in Nat /\ Len(seqs[j]) \in Nat
  BY LenProperties
<1>4. ~ i < j
  <2> SUFFICES ASSUME i < j PROVE FALSE
    OBVIOUS
  <2>1. i \in 0..n /\ j - 1 \in 0..n /\ i - 1 \in 0..n /\ i <= j - 1
    OBVIOUS
  <2>2. e[i] <= e[j - 1] /\ e[i] = e[i - 1] + Len(seqs[i]) /\ e[i] \in Nat /\ e[j - 1] \in Nat
        /\ e[i - 1] \in Nat
    BY <1>1, <2>1
  <2> QED BY <1>2, <1>3, <2>2
<1>5. ~ j < i
  <2> SUFFICES ASSUME j < i PROVE FALSE
    OBVIOUS
  <2>1. j \in 0..n /\ i - 1 \in 0..n /\ j - 1 \in 0..n /\ j <= i - 1
    OBVIOUS
  <2>2. e[j] <= e[i - 1] /\ e[j] = e[j - 1] + Len(seqs[j]) /\ e[j] \in Nat /\ e[i - 1] \in Nat
        /\ e[j - 1] \in Nat
    BY <1>1, <2>1
  <2> QED BY <1>2, <1>3, <2>2
<1>6. i = j
  BY <1>4, <1>5
<1>7. e[i - 1] \in Nat
  <2>1. i - 1 \in 0..n
    OBVIOUS
  <2> QED BY <1>1, <2>1
<1> QED BY <1>2, <1>6, <1>7

\* The first c of the sequences end where they do among all of them.
LEMMA FirstEnds ==
  ASSUME NEW A, NEW n \in Nat, NEW seqs \in [1..n -> Seq(A)], NEW c \in 0..n
  PROVE  Len(FlattenSeq(SubSeq(seqs, 1, c))) = Ends(seqs, n)[c]
<1> DEFINE first == SubSeq(seqs, 1, c)
           e == Ends(seqs, n)
           d == Ends(first, c)
<1>1. first \in [1..c -> Seq(A)] /\ \A i \in 1..c : first[i] = seqs[i]
  <2>1. Len(seqs) = n /\ seqs \in Seq(Seq(A))
    BY LenProperties
  <2>2. /\ Len(first) = c /\ \A i \in 1..c : first[i] = seqs[1 + i - 1]
        /\ first \in Seq(Seq(A))
    BY <2>1, SubSeqProperties
  <2> HIDE DEF first
  <2>3. DOMAIN first = 1..c
    BY <2>2, LenProperties
  <2>4. \A i \in 1..c : first[i] = seqs[i] /\ first[i] \in Seq(A)
    BY <2>2
  <2>5. first = [i \in 1..c |-> first[i]]
    BY <2>2, <2>3, LenProperties
  <2> QED BY <2>4, <2>5
<1> HIDE DEF first
<1>2. /\ d \in [0..c -> Nat] /\ d[0] = 0
      /\ \A i \in 1..c : d[i] = d[i - 1] + Len(first[i])
  <2>1. c \in Nat
    OBVIOUS
  <2> QED BY <1>1, <2>1, EndsStep
<1>3. /\ e \in [0..n -> Nat] /\ e[0] = 0
      /\ \A i \in 1..n : e[i] = e[i - 1] + Len(seqs[i])
  BY EndsStep
<1>4. Len(FlattenSeq(first)) = d[c]
  BY <1>1, FlattenedAt DEF OneAfterOther
<1> HIDE DEF d, e
<1> DEFINE T == {i \in Nat : i \in 0..c => d[i] = e[i]}
<1>5. 0 \in T
  BY <1>2, <1>3
<1>6. ASSUME NEW i \in Nat, i \in T PROVE i + 1 \in T
  <2> SUFFICES ASSUME i + 1 \in 0..c PROVE d[i + 1] = e[i + 1]
    OBVIOUS
  <2>1. i \in 0..c /\ i + 1 \in 1..c /\ i + 1 \in 1..n /\ i + 1 - 1 = i
    OBVIOUS
  <2> QED BY <1>1, <1>2, <1>3, <1>6, <2>1
<1> HIDE DEF T
<1>7. c \in T
  BY <1>5, <1>6, NatSetInduction
<1>8. d[c] = e[c]
  BY <1>7 DEF T
<1> QED BY <1>4, <1>8 DEF first, e

\* The members of a list, each with the number of the list.
Labelled(b, list) == [i \in 1..Len(list) |-> <<b, list[i]>>]

LabelledLists(n, lists, seqs) == seqs = [b \in 1..n |-> Labelled(b, lists[b])]
Distinct(n, lists) ==
  \A b \in 1..n : \A i, j \in 1..Len(lists[b]) : lists[b][i] = lists[b][j] => i = j

LabelledOnes(A, n, lists, whole) ==
  /\ whole \in Seq((1..n) \X A)
  /\ \A t \in 1..Len(whole) : \E b \in 1..n : \E i \in 1..Len(lists[b]) : whole[t] = <<b, lists[b][i]>>
  /\ \A b \in 1..n : \A i \in 1..Len(lists[b]) : \E t \in 1..Len(whole) : whole[t] = <<b, lists[b][i]>>
  /\ \A t, u \in 1..Len(whole) : whole[t] = whole[u] => t = u

\* Lists of different members, each member with the number of its list, one
\* after the other: each is there once.
LEMMA LabelledOnce ==
  ASSUME NEW A, NEW n \in Nat, NEW lists \in [1..n -> Seq(A)],
         Distinct(n, lists), NEW seqs, LabelledLists(n, lists, seqs), NEW whole, whole = FlattenSeq(seqs)
  PROVE  LabelledOnes(A, n, lists, whole)
<1> DEFINE B == (1..n) \X A
           e == Ends(seqs, n)
<1>1. \A b \in 1..n : Len(lists[b]) \in Nat /\ \A i \in 1..Len(lists[b]) : lists[b][i] \in A
  BY LenProperties
<1>2. ASSUME NEW b \in 1..n
      PROVE  /\ seqs[b] \in Seq(B) /\ Len(seqs[b]) = Len(lists[b])
             /\ \A i \in 1..Len(lists[b]) : seqs[b][i] = <<b, lists[b][i]>>
  <2> DEFINE l == Len(lists[b])
             s == [i \in 1..l |-> <<b, lists[b][i]>>]
  <2>1. seqs[b] = s /\ l \in Nat
    BY <1>1 DEF Labelled, LabelledLists
  <2>2. \A i \in 1..l : s[i] = <<b, lists[b][i]>> /\ s[i] \in B
    BY <1>1
  <2>3. s \in [1..l -> B]
    BY <2>2
  <2> HIDE DEF s, l, B
  <2>4. s \in Seq(B) /\ Len(s) = l
    <3>1. s \in Seq(B)
      BY <2>1, <2>3
    <3>2. DOMAIN s = 1..l /\ DOMAIN s = 1..Len(s) /\ Len(s) \in Nat
      BY <2>3, <3>1, LenProperties
    <3> QED BY <2>1, <2>3, <3>1
  <2> QED BY <2>1, <2>2, <2>4 DEF l
<1>3. seqs \in [1..n -> Seq(B)]
  <2>1. \A b \in 1..n : seqs[b] \in Seq(B)
    BY <1>2
  <2>2. seqs = [b \in 1..n |-> seqs[b]]
    BY DEF LabelledLists
  <2> HIDE DEF B
  <2> QED BY <2>1, <2>2
<1>4. whole = FlattenSeq(seqs)
  OBVIOUS
<1> HIDE DEF B
<1>5. OneAfterOther(B, n, seqs)
  BY <1>3, FlattenedAt
<1>6. /\ whole \in Seq(B)
      /\ \A b \in 1..n : \A i \in 1..Len(seqs[b]) :
           e[b - 1] + i \in 1..Len(whole) /\ whole[e[b - 1] + i] = seqs[b][i]
      /\ \A t \in 1..Len(whole) : \E b \in 1..n : \E i \in 1..Len(seqs[b]) : t = e[b - 1] + i
  <2> DEFINE g == FlattenSeq(seqs)
  <2>1. whole = g
    BY <1>4
  <2>2. /\ g \in Seq(B)
        /\ \A b \in 1..n : \A i \in 1..Len(seqs[b]) :
             e[b - 1] + i \in 1..Len(g) /\ g[e[b - 1] + i] = seqs[b][i]
        /\ \A t \in 1..Len(g) : \E b \in 1..n : \E i \in 1..Len(seqs[b]) : t = e[b - 1] + i
    BY <1>5, Zenon DEF OneAfterOther
  <2> HIDE DEF g, e
  <2> QED BY <2>1, <2>2
<1> HIDE DEF e
<1>7. \A t \in 1..Len(whole) : \E b \in 1..n : \E i \in 1..Len(lists[b]) :
         whole[t] = <<b, lists[b][i]>> /\ t = e[b - 1] + i
  <2> TAKE t \in 1..Len(whole)
  <2>1. PICK b \in 1..n : \E i \in 1..Len(seqs[b]) : t = e[b - 1] + i
    BY <1>6
  <2>2. PICK i \in 1..Len(seqs[b]) : t = e[b - 1] + i
    BY <2>1
  <2>3. whole[t] = seqs[b][i]
    BY <1>6, <2>2
  <2>4. i \in 1..Len(lists[b]) /\ seqs[b][i] = <<b, lists[b][i]>>
    BY <1>2
  <2> QED BY <2>2, <2>3, <2>4
<1>8. \A b \in 1..n : \A i \in 1..Len(lists[b]) : \E t \in 1..Len(whole) : whole[t] = <<b, lists[b][i]>>
  <2> TAKE b \in 1..n
  <2> TAKE i \in 1..Len(lists[b])
  <2>1. i \in 1..Len(seqs[b]) /\ seqs[b][i] = <<b, lists[b][i]>>
    BY <1>2
  <2>2. e[b - 1] + i \in 1..Len(whole) /\ whole[e[b - 1] + i] = seqs[b][i]
    BY <1>6, <2>1
  <2> QED BY <2>1, <2>2
<1>9. ASSUME NEW t \in 1..Len(whole), NEW u \in 1..Len(whole), whole[t] = whole[u]
      PROVE  t = u
  <2>1. PICK b \in 1..n : \E i \in 1..Len(lists[b]) : whole[t] = <<b, lists[b][i]>> /\ t = e[b - 1] + i
    BY <1>7
  <2>2. PICK i \in 1..Len(lists[b]) : whole[t] = <<b, lists[b][i]>> /\ t = e[b - 1] + i
    BY <2>1
  <2>3. PICK c \in 1..n : \E j \in 1..Len(lists[c]) : whole[u] = <<c, lists[c][j]>> /\ u = e[c - 1] + j
    BY <1>7
  <2>4. PICK j \in 1..Len(lists[c]) : whole[u] = <<c, lists[c][j]>> /\ u = e[c - 1] + j
    BY <2>3
  <2>5. b = c /\ lists[b][i] = lists[c][j]
    <3>1. <<b, lists[b][i]>> = <<c, lists[c][j]>>
      BY <1>9, <2>2, <2>4
    <3> HIDE DEF e
    <3> QED BY <3>1
  <2>6. j \in 1..Len(lists[b]) /\ lists[b][i] = lists[b][j]
    BY <2>5
  <2>7. \A k, l \in 1..Len(lists[b]) : lists[b][k] = lists[b][l] => k = l
    BY DEF Distinct
  <2>8. i = j
    BY <2>6, <2>7
  <2> QED BY <2>2, <2>4, <2>5, <2>8
<1>10. \A t \in 1..Len(whole) : \E b \in 1..n : \E i \in 1..Len(lists[b]) : whole[t] = <<b, lists[b][i]>>
  <2> TAKE t \in 1..Len(whole)
  <2>1. PICK b \in 1..n : \E i \in 1..Len(lists[b]) : whole[t] = <<b, lists[b][i]>> /\ t = e[b - 1] + i
    BY <1>7
  <2> QED BY <2>1
<1> QED BY <1>6, <1>8, <1>9, <1>10 DEF B, LabelledOnes

\* Of things that have a place each in a sequence of values, those at the first
\* places: as many as may be, none with a larger value than one left out.
HavePlaces(n, C, place) ==
  /\ place \in [C -> 1..n]
  /\ \A x, y \in C : place[x] = place[y] => x = y
  /\ \A i \in 1..n : \E x \in C : place[x] = i
Ascends(n, value, before) ==
  /\ Linear(before, 1..n)
  /\ \A i, j \in 1..n : <<i, j>> \in before => value[i] <= value[j]
Lowest(value, place, C, K) == \A x \in K, y \in C \ K : value[place[x]] <= value[place[y]]
PlacedFirst(m, n, before, C, place, K) == K = {x \in C : place[x] \in FirstOf(m, 1..n, before)}

LEMMA FirstPlaces ==
  ASSUME NEW n \in Nat, NEW value, NEW before, Ascends(n, value, before),
         NEW m \in Nat, NEW C, NEW place, HavePlaces(n, C, place),
         NEW K, PlacedFirst(m, n, before, C, place, K)
  PROVE  /\ Cardinality(C) = n
         /\ Cardinality(K) = Min({m, Cardinality(C)})
         /\ Lowest(value, place, C, K)
<1>a. /\ place \in [C -> 1..n]
      /\ \A x, y \in C : place[x] = place[y] => x = y
      /\ \A i \in 1..n : \E x \in C : place[x] = i
  BY DEF HavePlaces
<1>b. Linear(before, 1..n) /\ \A i, j \in 1..n : <<i, j>> \in before => value[i] <= value[j]
  BY DEF Ascends
<1>c. K = {x \in C : place[x] \in FirstOf(m, 1..n, before)}
  BY DEF PlacedFirst
<1> DEFINE D == 1..n
           T == FirstOf(m, D, before)
<1>1. IsFiniteSet(D) /\ Cardinality(D) = n
  <2>1. IsFiniteSet(D) /\ Cardinality(D) = IF 1 > n THEN 0 ELSE n - 1 + 1
    BY FS_Interval
  <2> QED BY <2>1
<1>2. T \subseteq D /\ IsFiniteSet(T) /\ Cardinality(T) = (IF m <= n THEN m ELSE n)
      /\ \A i \in T, j \in D \ T : <<i, j>> \in before
  <2>1. T \subseteq D
    BY DEF FirstOf
  <2> HIDE DEF D
  <2>2. Linear(before, D)
    BY <1>b DEF D
  <2> HIDE DEF T
  <2> DEFINE k == Min({m, Len(Sorted(D, before))})
  <2>3. /\ k = (IF m <= Cardinality(D) THEN m ELSE Cardinality(D))
        /\ IsFiniteSet(FirstOf(m, D, before)) /\ Cardinality(FirstOf(m, D, before)) = k
        /\ \A x \in FirstOf(m, D, before), y \in D \ FirstOf(m, D, before) : <<x, y>> \in before
    BY <1>1, <2>2, FirstOnes
  <2> HIDE DEF k
  <2> QED BY <1>1, <2>1, <2>3 DEF T
<1>3. Cardinality(C) = n
  <2> DEFINE f == [i \in D |-> CHOOSE x \in C : place[x] = i]
  <2>1. \A i \in D : f[i] \in C /\ place[f[i]] = i
    BY <1>a
  <2>2. f \in [D -> C]
    BY <2>1
  <2> HIDE DEF f
  <2>3. \A x \in C : \E i \in D : f[i] = x
    <3> TAKE x \in C
    <3>1. place[x] \in D
      BY <1>a
    <3>2. f[place[x]] = x
      BY <1>a, <2>1, <3>1
    <3> QED BY <3>1, <3>2
  <2>4. \A i, j \in D : f[i] = f[j] => i = j
    BY <2>1
  <2> HIDE DEF D
  <2> QED BY <1>1, <2>2, <2>3, <2>4, OneToOne
<1> HIDE DEF T, D
<1>4. K = {x \in C : place[x] \in T}
  BY <1>c DEF T, D
<1>5. Cardinality(K) = Cardinality(T)
  <2> DEFINE f == [i \in T |-> CHOOSE x \in C : place[x] = i]
  <2>1. \A i \in T : f[i] \in C /\ place[f[i]] = i
    BY <1>2, <1>a DEF D
  <2>2. \A i \in T : f[i] \in K
    BY <1>4, <2>1
  <2>3. f \in [T -> K]
    BY <2>2
  <2> HIDE DEF f
  <2>4. \A x \in K : \E i \in T : f[i] = x
    <3> TAKE x \in K
    <3>1. place[x] \in T /\ x \in C
      BY <1>4
    <3>2. f[place[x]] = x
      BY <1>a, <2>1, <3>1, <1>4
    <3> QED BY <3>1, <3>2
  <2>5. \A i, j \in T : f[i] = f[j] => i = j
    BY <2>1
  <2> QED BY <1>2, <2>3, <2>4, <2>5, OneToOne
<1>6. Min({m, n}) = IF m <= n THEN m ELSE n
  BY DEF Min
<1>7. ASSUME NEW x \in K, NEW y \in C \ K
      PROVE  value[place[x]] <= value[place[y]]
  <2>1. place[x] \in T /\ place[y] \in D \ T /\ place[x] \in 1..n /\ place[y] \in 1..n
    BY <1>4, <1>a DEF D
  <2> QED BY <1>2, <1>b, <2>1
<1>8. Lowest(value, place, C, K)
  BY <1>7 DEF Lowest
<1> QED BY <1>2, <1>3, <1>5, <1>6, <1>8

\* They are ordered by their values.
LEMMA ByValueOrders ==
  ASSUME NEW values \in Seq(Int)
  PROVE  /\ DOMAIN values = 1..Len(values) /\ Len(values) \in Nat /\ IsFiniteSet(DOMAIN values)
         /\ Linear(ByValue(values), DOMAIN values)
         /\ \A i, j \in DOMAIN values : <<i, j>> \in ByValue(values) => values[i] <= values[j]
         /\ \A i, j \in DOMAIN values : <<i, j>> \in ByValue(values) <=>
              values[i] < values[j] \/ (values[i] = values[j] /\ i < j)
<1>1. DOMAIN values = 1..Len(values) /\ Len(values) \in Nat
  BY LenProperties
<1>2. IsFiniteSet(1..Len(values))
  BY <1>1, FS_Interval
<1> DEFINE D == DOMAIN values
           v == values
<1>3. \A i \in D : v[i] \in Int /\ i \in Nat
  BY <1>1
<1>4. \A i, j \in D : <<i, j>> \in ByValue(values) <=> v[i] < v[j] \/ (v[i] = v[j] /\ i < j)
  BY DEF ByValue
<1>5. Linear(ByValue(values), D)
  <2> HIDE DEF D
  <2>1. \A x, y, z \in D : <<x, y>> \in ByValue(values) /\ <<y, z>> \in ByValue(values)
                             => <<x, z>> \in ByValue(values)
    BY <1>3, <1>4
  <2>2. \A x \in D : <<x, x>> \notin ByValue(values)
    BY <1>3, <1>4
  <2>3. \A x, y \in D : x # y => <<x, y>> \in ByValue(values) \/ <<y, x>> \in ByValue(values)
    BY <1>3, <1>4
  <2> QED BY <2>1, <2>2, <2>3 DEF Linear
<1>6. \A i, j \in D : <<i, j>> \in ByValue(values) => v[i] <= v[j]
  <2> TAKE i, j \in D
  <2> QED BY <1>3, <1>4
<1> QED BY <1>1, <1>2, <1>4, <1>5, <1>6

\* The positions of the m smallest of the values.
Smallest(m, values) == FirstOf(m, DOMAIN values, ByValue(values))

\* s lists the m smallest of the values, and T holds their positions.
IsFirst(m, values, s, T) ==
  s = AtMost(m, Ascending(values)) /\ T = Smallest(m, values)
Listed(values, s, T) ==
  /\ s \in Seq(Nat)
  /\ \A i \in 1..Len(s) : s[i] = Ascending(values)[i] /\ s[i] \in T
  /\ \A d \in T : \E i \in 1..Len(s) : s[i] = d
  /\ \A i, j \in 1..Len(s) : s[i] = s[j] => i = j

LEMMA FirstList ==
  ASSUME NEW values \in Seq(Int), NEW m \in Nat, NEW s, NEW T, IsFirst(m, values, s, T)
  PROVE  Listed(values, s, T)
<1> DEFINE D == DOMAIN values
           B == ByValue(values)
           a == Sorted(D, B)
           k == Min({m, Len(a)})
<1>1. /\ D = 1..Len(values) /\ Len(values) \in Nat /\ IsFiniteSet(D) /\ Linear(B, D)
  BY ByValueOrders
<1>2. a = Ascending(values) /\ s = SubSeq(a, 1, k)
  BY DEF Ascending, AtMost, IsFirst
<1>3. T = FirstOf(m, D, B)
  BY DEF IsFirst, Smallest
<1> HIDE DEF D, B
<1>4. a \in [1..Cardinality(D) -> D] /\ Cardinality(D) \in Nat
  BY <1>1, SortedSequence DEF Linear
<1>5. /\ k \in Nat /\ k <= Cardinality(D)
      /\ FirstOf(m, D, B) = {a[i] : i \in 1..k}
      /\ \A i, j \in 1..k : a[i] = a[j] => i = j
  BY <1>1, FirstOnes
<1> HIDE DEF a, k
<1>6. D \subseteq Nat
  BY <1>1
<1>7. a \in Seq(Nat) /\ Len(a) = Cardinality(D)
  <2>1. a \in [1..Cardinality(D) -> Nat]
    BY <1>4, <1>6
  <2>2. a \in Seq(Nat)
    BY <1>4, <2>1
  <2> QED BY <1>4, <2>2, LenProperties
<1>8. s \in Seq(Nat) /\ Len(s) = k /\ \A i \in 1..k : s[i] = a[i]
  <2>1. /\ SubSeq(a, 1, k) \in Seq(Nat) /\ Len(SubSeq(a, 1, k)) = k
        /\ \A i \in 1..k : SubSeq(a, 1, k)[i] = a[1 + i - 1]
    BY <1>5, <1>7, SubSeqProperties
  <2> QED BY <1>2, <1>5, <2>1
<1>9. T = {a[i] : i \in 1..k}
  BY <1>3, <1>5
<1> QED BY <1>2, <1>5, <1>8, <1>9 DEF Listed

\* A set of lists that is closed under concatenation has their flattening.
LEMMA FlattenIn ==
  ASSUME NEW A, NEW n \in Nat, n >= 1, NEW seqs \in [1..n -> Seq(A)],
         NEW S, \A i \in 1..n : seqs[i] \in S, \A a, b \in S : a \o b \in S
  PROVE  FlattenSeq(seqs) \in S
<1> DEFINE Def(f) == [i \in 1..n |-> IF i = 1 THEN seqs[i] ELSE f[i - 1] \o seqs[i]]
           flat == CHOOSE f : f = Def(f)
<1>1. n \in 1..n /\ Len(seqs) = n
  BY LenProperties
<1>2. PICK f \in [1..n -> Seq(A)] :
        f[1] = seqs[1] /\ \A i \in 2..n : f[i] = f[i - 1] \o seqs[i]
  <2>1. \A i \in 1..n : seqs[i] \in Seq(A)
    OBVIOUS
  <2>2. FlatUpTo(A, seqs, n)
    BY <1>1, <2>1, FlatParts
  <2> QED BY <2>2 DEF FlatUpTo
<1>3. f = Def(f)
  <2>1. ASSUME NEW i \in 1..n
        PROVE  f[i] = IF i = 1 THEN seqs[i] ELSE f[i - 1] \o seqs[i]
    <3>1. i = 1 \/ i \in 2..n
      OBVIOUS
    <3> QED BY <1>2, <3>1
  <2> QED BY <2>1
<1>4. flat = Def(flat)
  BY <1>3
<1>5. FlattenSeq(seqs) = flat[n]
  BY <1>1 DEF FlattenSeq
<1> HIDE DEF flat
<1>6. flat[1] = seqs[1] /\ \A i \in 2..n : flat[i] = flat[i - 1] \o seqs[i]
  <2>1. 1 \in 1..n
    OBVIOUS
  <2>2. \A i \in 1..n : flat[i] = IF i = 1 THEN seqs[i] ELSE flat[i - 1] \o seqs[i]
    BY <1>4
  <2>3. \A i \in 2..n : i \in 1..n /\ i # 1
    OBVIOUS
  <2> QED BY <2>1, <2>2, <2>3
<1> DEFINE T == {k \in Nat : k \in 1..n => flat[k] \in S}
<1>7. 0 \in T
  OBVIOUS
<1>8. ASSUME NEW i \in Nat, i \in T PROVE i + 1 \in T
  <2>1. CASE i = 0
    <3>1. i + 1 = 1 /\ 1 \in 1..n
      BY <2>1
    <3>2. flat[1] \in S
      BY <1>6, <3>1
    <3>3. flat[i + 1] \in S /\ i + 1 \in Nat
      BY <2>1, <3>1, <3>2
    <3> QED BY <3>3
  <2>2. CASE i >= 1 /\ i + 1 <= n
    <3>1. i + 1 \in 2..n /\ (i + 1) - 1 = i /\ i \in 1..n /\ i + 1 \in 1..n
      BY <2>2
    <3>2. flat[i + 1] = flat[i] \o seqs[i + 1]
      BY <1>6, <3>1
    <3>3. flat[i] \in S /\ seqs[i + 1] \in S
      BY <1>8, <3>1
    <3>4. flat[i] \o seqs[i + 1] \in S
      BY <3>3
    <3>5. flat[i + 1] \in S
      BY <3>2, <3>4
    <3> QED BY <3>5
  <2>3. CASE ~ (i + 1 <= n)
    <3>1. i + 1 \notin 1..n
      BY <2>3
    <3> QED BY <3>1
  <2>4. i = 0 \/ i >= 1
    OBVIOUS
  <2> QED BY <2>1, <2>2, <2>3, <2>4
<1> HIDE DEF T
<1>9. n \in T
  BY <1>7, <1>8, NatSetInduction
<1> QED BY <1>1, <1>5, <1>9 DEF T

LEMMA FlattenNone ==
  ASSUME NEW seqs, Len(seqs) = 0
  PROVE  FlattenSeq(seqs) = seqs
BY DEF FlattenSeq

LEMMA LeastOfTwo ==
  ASSUME NEW a \in Nat \ {0}, NEW b \in Nat \ {0}
  PROVE  Min({a, b}) \in Nat \ {0} /\ Min({a, b}) <= a /\ Min({a, b}) <= b
         /\ Min({a, b}) \in {a, b}
<1>1. \E x \in {a, b} : \A y \in {a, b} : x <= y
  <2>1. a <= b \/ b <= a
    OBVIOUS
  <2> QED BY <2>1
<1>2. Min({a, b}) \in {a, b} /\ \A y \in {a, b} : Min({a, b}) <= y
  BY <1>1 DEF Min
<1> QED BY <1>2

LEMMA LeastOfThree ==
  ASSUME NEW a \in Nat, NEW b \in Nat, NEW c \in Nat
  PROVE  /\ Min({a, b, c}) \in {a, b, c}
         /\ Min({a, b, c}) <= a /\ Min({a, b, c}) <= b /\ Min({a, b, c}) <= c
<1> DEFINE S == {a, b, c}
<1>1. S \in SUBSET Int /\ S # {}
  OBVIOUS
<1>2. IsFiniteSet(S)
  <2>1. IsFiniteSet({}) /\ S = (({} \union {a}) \union {b}) \union {c}
    BY FS_EmptySet
  <2> HIDE DEF S
  <2> QED BY <2>1, FS_AddElement
<1> HIDE DEF S
<1>3. \E m \in S : \A y \in S : m <= y
  BY <1>1, <1>2, MinimumExists
<1>4. Min(S) \in S /\ \A y \in S : Min(S) <= y
  BY <1>3 DEF Min
<1> QED BY <1>4 DEF S

LEMMA ConcatAt ==
  ASSUME NEW A, NEW s \in Seq(A), NEW t \in Seq(A), NEW u, u = s \o t
  PROVE  /\ \A i \in 1..Len(s) : u[i] = s[i]
         /\ \A i \in 1..Len(t) : u[Len(s) + i] = t[i]
<1>1. /\ Len(s) \in Nat /\ Len(t) \in Nat
      /\ \A i \in 1..(Len(s) + Len(t)) : u[i] = IF i <= Len(s) THEN s[i] ELSE t[i - Len(s)]
  BY ConcatProperties
<1>2. ASSUME NEW i \in 1..Len(s) PROVE u[i] = s[i]
  <2>1. i \in 1..(Len(s) + Len(t)) /\ i <= Len(s)
    BY <1>1
  <2> QED BY <1>1, <2>1
<1>3. ASSUME NEW i \in 1..Len(t) PROVE u[Len(s) + i] = t[i]
  <2>1. Len(s) + i \in 1..(Len(s) + Len(t)) /\ ~ (Len(s) + i <= Len(s)) /\ (Len(s) + i) - Len(s) = i
    BY <1>1
  <2> QED BY <1>1, <2>1
<1> QED BY <1>2, <1>3

\* One of a set of processes is the least by a natural measure.
LEMMA Least ==
  ASSUME NEW S, S # {}, NEW f, \A p \in S : f[p] \in Nat
  PROVE  \E p \in S : \A q \in S : f[p] <= f[q]
<1>1. PICK p0 \in S : TRUE
  OBVIOUS
<1> DEFINE T == {n \in 0..f[p0] : \E p \in S : f[p] = n}
<1>2. T \in SUBSET Int /\ T \in SUBSET (0..f[p0])
  OBVIOUS
<1>3. IsFiniteSet(0..f[p0])
  BY <1>1, FS_Interval
<1>4. IsFiniteSet(T)
  BY <1>2, <1>3, FS_Subset
<1>5. f[p0] \in T
  BY <1>1
<1>6. PICK x \in T : \A y \in T : x <= y
  <2> HIDE DEF T
  <2> QED BY <1>2, <1>4, <1>5, MinimumExists
<1>7. PICK p \in S : f[p] = x
  OBVIOUS
<1>8. ASSUME NEW q \in S PROVE f[p] <= f[q]
  <2>1. f[q] \in Nat /\ f[p0] \in Nat /\ x \in Nat /\ x <= f[p0]
    BY <1>1
  <2>2. CASE f[q] <= f[p0]
    <3>1. f[q] \in T
      BY <2>1, <2>2
    <3> QED BY <1>6, <1>7, <3>1
  <2>3. CASE ~ (f[q] <= f[p0])
    BY <1>7, <2>1, <2>3
  <2> QED BY <2>2, <2>3
<1> QED BY <1>7, <1>8


\* The directions that the blocks offer, block after block, m of each, and their
\* values; and those chosen of each block when the processes hand over parts.
Listing(m, eig) ==
  FlattenSeq([b \in DOMAIN eig |->
    [i \in DOMAIN AtMost(m, Ascending(eig[b])) |-> <<b, Ascending(eig[b])[i]>>]])
ValuesOf(m, eig) ==
  [i \in DOMAIN Listing(m, eig) |-> eig[Listing(m, eig)[i][1]][Listing(m, eig)[i][2]]]
StartOf(parts, c) == Len(FlattenSeq(AtMost(c, parts)))
Strongest(cap, parts) == ToSet(AtMost(cap, Ascending(FlattenSeq(parts))))
Selection(m, cap, eig, parts, c) ==
  LET kept(b) == {d \in DOMAIN eig[b] : \E i \in DOMAIN Listing(m, eig) :
                    Listing(m, eig)[i] = <<b, d>> /\ StartOf(parts, c) + i \in Strongest(cap, parts)}
  IN  [b \in DOMAIN eig |-> Sorted(kept(b), ByValue(eig[b]))]

\* What a process found: values of the directions of its blocks.
Found(eig) == \E m \in Nat : DOMAIN eig = 1..m /\ \A b \in 1..m : eig[b] \in Seq(Int)

\* Of the directions that a block may offer each is listed once.
Lists(m, eig) ==
  LET C == Listing(m, eig)
  IN  /\ Len(C) \in Nat /\ DOMAIN C = 1..Len(C)
      /\ \A t \in 1..Len(C) : \E b \in DOMAIN eig : \E d \in Smallest(m, eig[b]) : C[t] = <<b, d>>
      /\ \A b \in DOMAIN eig : \A d \in Smallest(m, eig[b]) : \E t \in 1..Len(C) : C[t] = <<b, d>>
      /\ \A t, u \in 1..Len(C) : C[t] = C[u] => t = u
      /\ ValuesOf(m, eig) \in Seq(Int) /\ Len(ValuesOf(m, eig)) = Len(C)
      /\ \A t \in 1..Len(C) : ValuesOf(m, eig)[t] = eig[C[t][1]][C[t][2]]

LEMMA ListingIs ==
  ASSUME NEW m \in Nat, NEW eig, Found(eig)
  PROVE  Lists(m, eig)
<1> DEFINE C == Listing(m, eig)
<1>1. PICK n \in Nat : DOMAIN eig = 1..n /\ \A b \in 1..n : eig[b] \in Seq(Int)
  BY DEF Found
<1> DEFINE lists == [b \in 1..n |-> AtMost(m, Ascending(eig[b]))]
           part(b) == Labelled(b, lists[b])
           seqs == [b \in 1..n |-> part(b)]
<1>2. ASSUME NEW b \in 1..n
      PROVE  /\ lists[b] \in Seq(Nat)
             /\ \A i \in 1..Len(lists[b]) : lists[b][i] = Ascending(eig[b])[i]
                                            /\ lists[b][i] \in Smallest(m, eig[b])
             /\ \A d \in Smallest(m, eig[b]) : \E i \in 1..Len(lists[b]) : lists[b][i] = d
             /\ \A i, j \in 1..Len(lists[b]) : lists[b][i] = lists[b][j] => i = j
             /\ DOMAIN lists[b] = 1..Len(lists[b])
  <2>1. lists[b] = AtMost(m, Ascending(eig[b])) /\ eig[b] \in Seq(Int)
    BY <1>1
  <2> HIDE DEF lists
  <2>2. /\ lists[b] \in Seq(Nat)
        /\ \A i \in 1..Len(lists[b]) : lists[b][i] = Ascending(eig[b])[i]
                                       /\ lists[b][i] \in Smallest(m, eig[b])
        /\ \A d \in Smallest(m, eig[b]) : \E i \in 1..Len(lists[b]) : lists[b][i] = d
        /\ \A i, j \in 1..Len(lists[b]) : lists[b][i] = lists[b][j] => i = j
    <3>1. IsFirst(m, eig[b], lists[b], Smallest(m, eig[b]))
      BY <2>1 DEF IsFirst
    <3>2. Listed(eig[b], lists[b], Smallest(m, eig[b]))
      BY <2>1, <3>1, FirstList
    <3> QED BY <3>2 DEF Listed
  <2> QED BY <2>2, LenProperties
<1>3. lists \in [1..n -> Seq(Nat)]
  <2>1. lists = [b \in 1..n |-> lists[b]]
    OBVIOUS
  <2>2. \A b \in 1..n : lists[b] \in Seq(Nat)
    BY <1>2
  <2> HIDE DEF lists
  <2> QED BY <2>1, <2>2
<1>4. [b \in DOMAIN eig |-> [i \in DOMAIN AtMost(m, Ascending(eig[b])) |-> <<b, Ascending(eig[b])[i]>>]]
        = [b \in 1..n |-> part(b)]
  <2> DEFINE one(b) == [i \in DOMAIN AtMost(m, Ascending(eig[b])) |-> <<b, Ascending(eig[b])[i]>>]
  <2>1. ASSUME NEW b \in 1..n PROVE one(b) = part(b)
    <3>1. lists[b] = AtMost(m, Ascending(eig[b]))
      OBVIOUS
    <3> HIDE DEF lists
    <3>2. one(b) = [i \in 1..Len(lists[b]) |-> <<b, Ascending(eig[b])[i]>>]
      BY <1>2, <3>1
    <3>3. \A i \in 1..Len(lists[b]) : <<b, Ascending(eig[b])[i]>> = <<b, lists[b][i]>>
      BY <1>2
    <3>4. one(b) = [i \in 1..Len(lists[b]) |-> <<b, lists[b][i]>>]
      BY <3>2, <3>3
    <3> QED BY <3>4 DEF Labelled
  <2> HIDE DEF one, part
  <2> QED BY <1>1, <2>1 DEF one
<1> HIDE DEF lists
<1>5. C = FlattenSeq(seqs)
  BY <1>4 DEF Listing
<1> HIDE DEF C
<1>6. /\ C \in Seq((1..n) \X Nat)
      /\ \A t \in 1..Len(C) : \E b \in 1..n : \E i \in 1..Len(lists[b]) : C[t] = <<b, lists[b][i]>>
      /\ \A b \in 1..n : \A i \in 1..Len(lists[b]) : \E t \in 1..Len(C) : C[t] = <<b, lists[b][i]>>
      /\ \A t, u \in 1..Len(C) : C[t] = C[u] => t = u
  <2>1. Distinct(n, lists)
    BY <1>2 DEF Distinct
  <2>2. LabelledLists(n, lists, seqs)
    BY DEF LabelledLists
  <2> HIDE DEF seqs
  <2>3. LabelledOnes(Nat, n, lists, C)
    BY <1>3, <1>5, <2>1, <2>2, LabelledOnce
  <2> QED BY <2>3 DEF LabelledOnes
<1> HIDE DEF part, seqs
<1>7. Len(C) \in Nat /\ DOMAIN C = 1..Len(C)
  BY <1>6, LenProperties
<1>8. \A t \in 1..Len(C) : \E b \in DOMAIN eig : \E d \in Smallest(m, eig[b]) : C[t] = <<b, d>>
  <2> TAKE t \in 1..Len(C)
  <2>1. PICK b \in 1..n : \E i \in 1..Len(lists[b]) : C[t] = <<b, lists[b][i]>>
    BY <1>6
  <2>2. PICK i \in 1..Len(lists[b]) : C[t] = <<b, lists[b][i]>>
    BY <2>1
  <2>3. lists[b][i] \in Smallest(m, eig[b])
    BY <1>2
  <2> QED BY <1>1, <2>2, <2>3
<1>9. \A b \in DOMAIN eig : \A d \in Smallest(m, eig[b]) : \E t \in 1..Len(C) : C[t] = <<b, d>>
  <2> TAKE b \in DOMAIN eig
  <2> TAKE d \in Smallest(m, eig[b])
  <2>1. b \in 1..n
    BY <1>1
  <2>2. PICK i \in 1..Len(lists[b]) : lists[b][i] = d
    BY <1>2, <2>1
  <2> QED BY <1>6, <2>1, <2>2
<1> DEFINE s == ValuesOf(m, eig)
<1>10. s = [t \in 1..Len(C) |-> eig[C[t][1]][C[t][2]]]
  BY <1>7 DEF ValuesOf, C
<1> HIDE DEF s
<1>11. \A t \in 1..Len(C) : s[t] = eig[C[t][1]][C[t][2]] /\ s[t] \in Int
  <2> TAKE t \in 1..Len(C)
  <2>1. s[t] = eig[C[t][1]][C[t][2]]
    BY <1>10
  <2>2. PICK b \in DOMAIN eig : \E d \in Smallest(m, eig[b]) : C[t] = <<b, d>>
    BY <1>8
  <2>3. PICK d \in Smallest(m, eig[b]) : C[t] = <<b, d>>
    BY <2>2
  <2>4. d \in DOMAIN eig[b] /\ eig[b] \in Seq(Int)
    BY <1>1 DEF Smallest, FirstOf
  <2>5. eig[b][d] \in Int
    BY <2>4
  <2> QED BY <2>1, <2>3, <2>5
<1>12. s \in Seq(Int) /\ Len(s) = Len(C)
  <2>1. s \in [1..Len(C) -> Int]
    BY <1>10, <1>11
  <2>2. s \in Seq(Int)
    BY <1>7, <2>1
  <2> QED BY <1>7, <2>1, <2>2, LenProperties
<1> QED BY <1>6, <1>7, <1>8, <1>9, <1>11, <1>12 DEF s, C, Lists

LEMMA StartIs ==
  ASSUME NEW n \in Nat, NEW A, NEW parts \in [1..n -> Seq(A)], NEW k \in 0..n
  PROVE  StartOf(parts, k) = Ends(parts, n)[k]
<1>1. Len(parts) = n
  BY LenProperties
<1>2. Min({k, n}) = k
  BY DEF Min
<1> QED BY <1>1, <1>2, FirstEnds DEF StartOf, AtMost

\* The directions of the processes Q, with what a process found and kept.
Directions(Q, found) ==
  UNION {UNION {{<<q, b, d>> : d \in DOMAIN found[q][b]} : b \in DOMAIN found[q]} : q \in Q}
Eigenvalue(found, t) == found[t[1]][t[2]][t[3]]
OfferedOf(m, Q, found) == {t \in Directions(Q, found) : t[3] \in Smallest(m, found[t[1]][t[2]])}
KeptOf(Q, found, kept) == {t \in Directions(Q, found) : t[3] \in ToSet(kept[t[1]][t[2]])}

LEMMA DirectionsAre ==
  ASSUME NEW Q, NEW found
  PROVE  /\ \A q \in Q : \A b \in DOMAIN found[q] : \A d \in DOMAIN found[q][b] :
              <<q, b, d>> \in Directions(Q, found)
         /\ \A t \in Directions(Q, found) :
              /\ t = <<t[1], t[2], t[3]>> /\ t[1] \in Q /\ t[2] \in DOMAIN found[t[1]]
              /\ t[3] \in DOMAIN found[t[1]][t[2]]
BY DEF Directions

\* The directions kept of a block are its strongest candidates.
ChosenOf(m, cap, eig, parts, k, b, d) ==
  \E i \in 1..Len(Listing(m, eig)) : Listing(m, eig)[i] = <<b, d>>
                                      /\ StartOf(parts, k) + i \in Strongest(cap, parts)
Keeps(m, cap, eig, parts, k, b, kept) ==
  \A d : d \in ToSet(kept[b]) <=> d \in DOMAIN eig[b] /\ ChosenOf(m, cap, eig, parts, k, b, d)

LEMMA KeptDirections ==
  ASSUME NEW m \in Nat, NEW cap \in Nat, NEW eig, Found(eig), NEW parts, NEW k, NEW b \in DOMAIN eig
  PROVE  Keeps(m, cap, eig, parts, k, b, Selection(m, cap, eig, parts, k))
<1> DEFINE C == Listing(m, eig)
           S == Strongest(cap, parts)
           x == StartOf(parts, k)
           chosen(a) == {e \in DOMAIN eig[a] : \E i \in DOMAIN C : C[i] = <<a, e>> /\ x + i \in S}
           kept == Selection(m, cap, eig, parts, k)
<1>1. kept = [a \in DOMAIN eig |-> Sorted(chosen(a), ByValue(eig[a]))]
  BY DEF Selection, Strongest
<1>2. DOMAIN C = 1..Len(C)
  <2>1. Lists(m, eig)
    BY ListingIs
  <2> QED BY <2>1 DEF Lists
<1> DEFINE K == chosen(b)
           B == ByValue(eig[b])
           s == Sorted(K, B)
<1> HIDE DEF kept
<1>3. kept[b] = s
  BY <1>1
<1>4. eig[b] \in Seq(Int)
  BY DEF Found
<1>5. IsFiniteSet(DOMAIN eig[b]) /\ Linear(B, DOMAIN eig[b])
  BY <1>4, ByValueOrders
<1>6. K \subseteq DOMAIN eig[b]
  OBVIOUS
<1>7. \A d : d \in K <=> d \in DOMAIN eig[b] /\ ChosenOf(m, cap, eig, parts, k, b, d)
  BY <1>2 DEF ChosenOf
<1> HIDE DEF K, B, chosen, C
<1>8. IsFiniteSet(K) /\ Linear(B, K)
  <2>1. IsFiniteSet(K)
    BY <1>5, <1>6, FS_Subset
  <2>2. Linear(B, K)
    BY <1>5, <1>6 DEF Linear
  <2> QED BY <2>1, <2>2
<1>9. /\ Cardinality(K) \in Nat /\ s \in [1..Cardinality(K) -> K]
      /\ \A y \in K : \E i \in 1..Cardinality(K) : s[i] = y
  BY <1>8, SortedSequence DEF Linear
<1> HIDE DEF s
<1>10. ToSet(s) = K
  BY <1>9 DEF ToSet
<1>11. \A d : d \in ToSet(kept[b]) <=> d \in DOMAIN eig[b] /\ ChosenOf(m, cap, eig, parts, k, b, d)
  BY <1>3, <1>7, <1>10
<1> QED BY <1>11 DEF Keeps, kept

\* A line of processes, each with a cone of its own, and what they hand over.
Side(m, n, Q, cone, found, parts) ==
  /\ cone \in [Q -> 1..n]
  /\ \A q, r \in Q : cone[q] = cone[r] => q = r
  /\ \A c \in 1..n : \E q \in Q : cone[q] = c
  /\ \A q \in Q : Found(found[q]) /\ parts[cone[q]] = ValuesOf(m, found[q])
SelectedOn(m, cap, Q, cone, found, parts, kept) ==
  \A q \in Q : kept[q] = Selection(m, cap, found[q], parts, cone[q] - 1)

\* Each direction offered has a place in what the processes hand over.
Spot(parts, n, cone, t, i) == Ends(parts, n)[cone[t[1]] - 1] + i
ListedAt(m, found, t, i) ==
  i \in 1..Len(Listing(m, found[t[1]])) /\ Listing(m, found[t[1]])[i] = <<t[2], t[3]>>
Spots(m, n, Q, cone, found, parts, place) ==
  /\ HavePlaces(Len(FlattenSeq(parts)), OfferedOf(m, Q, found), place)
  /\ \A t \in OfferedOf(m, Q, found) : /\ FlattenSeq(parts)[place[t]] = Eigenvalue(found, t)
                                    /\ \A i : ListedAt(m, found, t, i) =>
                                                place[t] = Spot(parts, n, cone, t, i)

LEMMA OfferedAt ==
  ASSUME NEW m \in Nat, NEW n \in Nat, NEW Q, NEW cone, NEW found, NEW parts \in [1..n -> Seq(Int)],
         Side(m, n, Q, cone, found, parts)
  PROVE  \E place : Spots(m, n, Q, cone, found, parts, place)
<1> DEFINE F == FlattenSeq(parts)
           N == Len(F)
           e == Ends(parts, n)
           O == OfferedOf(m, Q, found)
           index == [t \in O |-> CHOOSE i : ListedAt(m, found, t, i)]
           place == [t \in O |-> e[cone[t[1]] - 1] + index[t]]
<1>1. /\ cone \in [Q -> 1..n]
      /\ \A q, r \in Q : cone[q] = cone[r] => q = r
      /\ \A c \in 1..n : \E q \in Q : cone[q] = c
      /\ \A q \in Q : Found(found[q]) /\ parts[cone[q]] = ValuesOf(m, found[q])
  BY DEF Side
<1>2. ASSUME NEW t \in O
      PROVE  /\ t = <<t[1], t[2], t[3]>> /\ t[1] \in Q /\ t[2] \in DOMAIN found[t[1]]
             /\ t[3] \in Smallest(m, found[t[1]][t[2]])
  BY DirectionsAre DEF OfferedOf
<1>3. ASSUME NEW q \in Q, NEW b \in DOMAIN found[q], NEW d \in Smallest(m, found[q][b])
      PROVE  <<q, b, d>> \in O
  <2> DEFINE t == <<q, b, d>>
  <2>1. t[1] = q /\ t[2] = b /\ t[3] = d
    OBVIOUS
  <2>2. d \in DOMAIN found[q][b]
    BY DEF Smallest, FirstOf
  <2>3. t \in Directions(Q, found)
    BY <2>2, DirectionsAre
  <2> HIDE DEF t
  <2>4. t \in O
    BY <2>1, <2>3 DEF OfferedOf
  <2> QED BY <2>4 DEF t
<1> HIDE DEF O
<1>4. ASSUME NEW t \in O PROVE \E i : ListedAt(m, found, t, i)
  <2> DEFINE eig == found[t[1]]
             b == t[2]
             d == t[3]
  <2>1. Found(eig) /\ b \in DOMAIN eig /\ d \in Smallest(m, eig[b])
    BY <1>1, <1>2
  <2>2. PICK i \in 1..Len(Listing(m, eig)) : Listing(m, eig)[i] = <<b, d>>
    <3> HIDE DEF eig, b, d
    <3>1. Lists(m, eig)
      BY <2>1, ListingIs
    <3> QED BY <2>1, <3>1 DEF Lists
  <2> QED BY <2>2 DEF ListedAt
<1>5. \A t \in O : ListedAt(m, found, t, index[t])
  BY <1>4
<1>6. \A t \in O : place[t] = e[cone[t[1]] - 1] + index[t]
  OBVIOUS
<1>7. place = [t \in O |-> place[t]]
  OBVIOUS
<1> HIDE DEF index, place
<1>8. ASSUME NEW t \in O, NEW i, ListedAt(m, found, t, i)
      PROVE  i = index[t]
  <2> DEFINE eig == found[t[1]]
             c == Listing(m, eig)
             k == index[t]
             w == Len(c)
  <2>1. Found(eig)
    BY <1>1, <1>2
  <2>2. k \in 1..w /\ i \in 1..w /\ c[k] = c[i]
    BY <1>5, <1>8 DEF ListedAt
  <2>3. \A u, v \in 1..w : c[u] = c[v] => u = v
    <3> HIDE DEF eig
    <3>1. Lists(m, eig)
      BY <2>1, ListingIs
    <3> QED BY <2>1, <3>1 DEF Lists
  <2> HIDE DEF c, k, w
  <2>4. k = i
    BY <2>2, <2>3
  <2> QED BY <2>4 DEF k
<1>9. /\ F \in Seq(Int)
      /\ \A c \in 1..n : \A i \in 1..Len(parts[c]) :
           e[c - 1] + i \in 1..N /\ F[e[c - 1] + i] = parts[c][i]
      /\ \A k \in 1..N : \E c \in 1..n : \E i \in 1..Len(parts[c]) : k = e[c - 1] + i
  <2>1. OneAfterOther(Int, n, parts)
    BY FlattenedAt
  <2> QED BY <2>1, Zenon DEF OneAfterOther
<1>10. ASSUME NEW c \in 1..n, NEW a \in 1..n, NEW i \in 1..Len(parts[c]), NEW j \in 1..Len(parts[a]),
              e[c - 1] + i = e[a - 1] + j
       PROVE  c = a /\ i = j
  <2>1. OnePlace(n, parts, c, i, a, j)
    BY <1>10 DEF OnePlace
  <2> QED BY <2>1, PlaceOnce
<1> HIDE DEF F, N, e
<1>11. ASSUME NEW t \in O
       PROVE  /\ cone[t[1]] \in 1..n /\ index[t] \in 1..Len(parts[cone[t[1]]])
              /\ place[t] \in 1..N /\ F[place[t]] = Eigenvalue(found, t)
  <2> DEFINE q == t[1]
             c == cone[q]
             i == index[t]
             eig == found[q]
             C == Listing(m, eig)
             s == ValuesOf(m, eig)
  <2>1. q \in Q /\ c \in 1..n /\ place[t] = e[c - 1] + i /\ Found(eig) /\ parts[c] = s
    BY <1>1, <1>2, <1>6
  <2>2. i \in 1..Len(C) /\ C[i] = <<t[2], t[3]>>
    BY <1>5 DEF ListedAt
  <2>3. Len(s) = Len(C) /\ s[i] = eig[C[i][1]][C[i][2]]
    <3> HIDE DEF eig, i
    <3>1. Lists(m, eig)
      BY <2>1, ListingIs
    <3> QED BY <2>2, <3>1 DEF Lists
  <2>4. C[i][1] = t[2] /\ C[i][2] = t[3]
    BY <2>2
  <2>5. s[i] = Eigenvalue(found, t)
    BY <2>3, <2>4 DEF Eigenvalue
  <2> HIDE DEF c, i, s, C, eig
  <2>6. i \in 1..Len(parts[c]) /\ place[t] \in 1..N /\ F[place[t]] = parts[c][i]
    <3>1. c \in 1..n /\ i \in 1..Len(parts[c])
      BY <2>1, <2>2, <2>3
    <3>2. e[c - 1] + i \in 1..N /\ F[e[c - 1] + i] = parts[c][i]
      BY <1>9, <3>1
    <3> QED BY <2>1, <3>1, <3>2
  <2>7. c \in 1..n /\ i \in 1..Len(parts[c]) /\ place[t] \in 1..N /\ F[place[t]] = Eigenvalue(found, t)
    BY <2>1, <2>5, <2>6
  <2> QED BY <2>7 DEF c, i
<1>12. place \in [O -> 1..N]
  BY <1>7, <1>11
<1>13. ASSUME NEW t \in O, NEW s \in O, place[t] = place[s] PROVE t = s
  <2> DEFINE c == cone[t[1]]
             a == cone[s[1]]
             i == index[t]
             j == index[s]
  <2>1. /\ c \in 1..n /\ a \in 1..n /\ i \in 1..Len(parts[c]) /\ j \in 1..Len(parts[a])
        /\ e[c - 1] + i = e[a - 1] + j
    BY <1>6, <1>11, <1>13
  <2>2. c = a /\ i = j
    <3> HIDE DEF c, a, i, j
    <3> QED BY <1>10, <2>1
  <2>3. t[1] = s[1]
    BY <1>1, <1>2, <2>2
  <2>4. <<t[2], t[3]>> = <<s[2], s[3]>>
    BY <1>5, <2>2, <2>3 DEF ListedAt
  <2>5. t[2] = s[2] /\ t[3] = s[3]
    BY <2>4
  <2>6. t = <<t[1], t[2], t[3]>> /\ s = <<s[1], s[2], s[3]>>
    BY <1>2
  <2> QED BY <2>3, <2>5, <2>6
<1>14. ASSUME NEW k \in 1..N PROVE \E t \in O : place[t] = k
  <2>1. PICK c \in 1..n : \E i \in 1..Len(parts[c]) : k = e[c - 1] + i
    BY <1>9
  <2>2. PICK i \in 1..Len(parts[c]) : k = e[c - 1] + i
    BY <2>1
  <2>3. PICK q \in Q : cone[q] = c
    BY <1>1
  <2> DEFINE eig == found[q]
             C == Listing(m, eig)
  <2>4. Found(eig) /\ parts[c] = ValuesOf(m, eig)
    BY <1>1, <2>3
  <2>5. i \in 1..Len(C) /\ \E b \in DOMAIN eig : \E d \in Smallest(m, eig[b]) : C[i] = <<b, d>>
    <3> HIDE DEF eig
    <3>1. Lists(m, eig)
      BY <2>4, ListingIs
    <3>2. i \in 1..Len(ValuesOf(m, eig))
      BY <2>2, <2>4
    <3> QED BY <3>1, <3>2 DEF Lists
  <2>6. PICK b \in DOMAIN eig : \E d \in Smallest(m, eig[b]) : C[i] = <<b, d>>
    BY <2>5
  <2>7. PICK d \in Smallest(m, eig[b]) : C[i] = <<b, d>>
    BY <2>6
  <2> DEFINE t == <<q, b, d>>
  <2>8. t \in O /\ t[1] = q /\ t[2] = b /\ t[3] = d
    BY <1>3
  <2> HIDE DEF t
  <2>9. ListedAt(m, found, t, i)
    BY <2>5, <2>7, <2>8 DEF ListedAt
  <2>10. i = index[t]
    BY <1>8, <2>8, <2>9
  <2>11. place[t] = k
    BY <1>6, <2>2, <2>3, <2>8, <2>10
  <2> QED BY <2>8, <2>11
<1>15. HavePlaces(N, O, place)
  BY <1>12, <1>13, <1>14 DEF HavePlaces
<1>16. ASSUME NEW t \in O, NEW i, ListedAt(m, found, t, i)
       PROVE  place[t] = Spot(parts, n, cone, t, i)
  BY <1>6, <1>8, <1>16 DEF Spot, e
<1> QED BY <1>11, <1>15, <1>16 DEF Spots, N, F, O

\* What the selection comes to, over all the processes of a line.
LEMMA JointSelection ==
  ASSUME NEW m \in Nat, NEW cap \in Nat, NEW n \in Nat, NEW Q, NEW cone, NEW found, NEW parts \in [1..n -> Seq(Int)],
         Side(m, n, Q, cone, found, parts), NEW kept, SelectedOn(m, cap, Q, cone, found, parts, kept)
  PROVE  /\ KeptOf(Q, found, kept) \subseteq OfferedOf(m, Q, found)
         /\ Cardinality(KeptOf(Q, found, kept)) = Min({cap, Cardinality(OfferedOf(m, Q, found))})
         /\ \A t \in KeptOf(Q, found, kept), s \in OfferedOf(m, Q, found) \ KeptOf(Q, found, kept) :
              Eigenvalue(found, t) <= Eigenvalue(found, s)
<1> DEFINE F == FlattenSeq(parts)
           N == Len(F)
           O == OfferedOf(m, Q, found)
           K == KeptOf(Q, found, kept)
           B == ByValue(F)
<1>1. PICK place : Spots(m, n, Q, cone, found, parts, place)
  BY OfferedAt
<1>2. /\ HavePlaces(N, O, place)
      /\ \A t \in O : F[place[t]] = Eigenvalue(found, t)
      /\ \A t \in O : \A i : ListedAt(m, found, t, i) => place[t] = Spot(parts, n, cone, t, i)
  BY <1>1 DEF Spots
<1>3. cap \in Nat
  OBVIOUS
<1>4. F \in Seq(Int)
  <2>1. OneAfterOther(Int, n, parts)
    BY FlattenedAt
  <2> QED BY <2>1, Zenon DEF OneAfterOther
<1>5. N \in Nat /\ DOMAIN F = 1..N
  BY <1>4, LenProperties
<1>6. Strongest(cap, parts) = FirstOf(cap, 1..N, B)
  <2> DEFINE s == AtMost(cap, Ascending(F))
             T == FirstOf(cap, DOMAIN F, B)
  <2>1. IsFirst(cap, F, s, T) /\ Strongest(cap, parts) = ToSet(s) /\ T = FirstOf(cap, 1..N, B)
    BY <1>5 DEF IsFirst, Strongest, Smallest
  <2> HIDE DEF F, s, T, B, N
  <2>2. Listed(F, s, T)
    BY <1>3, <1>4, <2>1, FirstList
  <2>3. /\ s \in Seq(Nat) /\ \A i \in 1..Len(s) : s[i] \in T
        /\ \A d \in T : \E i \in 1..Len(s) : s[i] = d
    BY <2>2 DEF Listed
  <2>4. DOMAIN s = 1..Len(s)
    BY <2>3, LenProperties
  <2>5. ToSet(s) = T
    BY <2>3, <2>4 DEF ToSet
  <2> QED BY <2>1, <2>5
<1>7. Ascends(N, F, B)
  <2> HIDE DEF F, N
  <2>1. Linear(B, 1..N) /\ \A i, j \in 1..N : <<i, j>> \in B => F[i] <= F[j]
    BY <1>4, <1>5, ByValueOrders
  <2> HIDE DEF B
  <2> QED BY <2>1 DEF Ascends
<1> HIDE DEF F, N, B
<1>8. ASSUME NEW t \in Directions(Q, found)
      PROVE  t \in K <=> t \in O /\ place[t] \in Strongest(cap, parts)
  <2> DEFINE q == t[1]
             b == t[2]
             d == t[3]
             k == cone[q] - 1
             eig == found[q]
             C == Listing(m, eig)
             S == Strongest(cap, parts)
  <2>1. q \in Q /\ b \in DOMAIN eig /\ d \in DOMAIN eig[b]
    BY DirectionsAre
  <2>2. cone[q] \in 1..n /\ Found(eig) /\ kept[q] = Selection(m, cap, eig, parts, k)
    BY <2>1 DEF Side, SelectedOn
  <2>3. Keeps(m, cap, eig, parts, k, b, kept[q])
    <3> HIDE DEF eig, b, k
    <3> QED BY <2>1, <2>2, KeptDirections
  <2>4. d \in ToSet(kept[q][b]) <=> ChosenOf(m, cap, eig, parts, k, b, d)
    BY <2>1, <2>3 DEF Keeps
  <2>5. StartOf(parts, k) = Ends(parts, n)[k]
    <3>1. k \in 0..n
      BY <2>2
    <3> HIDE DEF k
    <3> QED BY <3>1, StartIs
  <2>6. t \in K <=> d \in ToSet(kept[q][b])
    BY DEF KeptOf
  <2>7. t \in O <=> d \in Smallest(m, eig[b])
    BY DEF OfferedOf
  <2>8. \A i : ListedAt(m, found, t, i) <=> i \in 1..Len(C) /\ C[i] = <<b, d>>
    BY DEF ListedAt
  <2>9. ChosenOf(m, cap, eig, parts, k, b, d) <=> \E i : ListedAt(m, found, t, i) /\ Spot(parts, n, cone, t, i) \in S
    BY <2>5, <2>8 DEF ChosenOf, Spot
  <2>10. ASSUME NEW i, ListedAt(m, found, t, i) PROVE t \in O
    <3>1. i \in 1..Len(C) /\ C[i] = <<b, d>>
      BY <2>8, <2>10
    <3>2. PICK a \in DOMAIN eig : \E f \in Smallest(m, eig[a]) : C[i] = <<a, f>>
      <4> HIDE DEF eig, b, d
      <4>1. Lists(m, eig)
        BY <2>2, ListingIs
      <4> QED BY <3>1, <4>1 DEF Lists
    <3>3. PICK f \in Smallest(m, eig[a]) : C[i] = <<a, f>>
      BY <3>2
    <3>4. <<a, f>> = <<b, d>>
      BY <3>1, <3>3
    <3>5. a = b /\ f = d
      BY <3>4
    <3> QED BY <2>7, <3>5
  <2>11. ASSUME t \in O PROVE \E i : ListedAt(m, found, t, i)
    <3>1. PICK i \in 1..Len(C) : C[i] = <<b, d>>
      <4>1. d \in Smallest(m, eig[b])
        BY <2>7, <2>11
      <4> HIDE DEF eig, b, d
      <4>2. Found(eig) /\ b \in DOMAIN eig
        BY <2>1, <2>2
      <4>3. \A a \in DOMAIN eig : \A f \in Smallest(m, eig[a]) :
              \E u \in 1..Len(Listing(m, eig)) : Listing(m, eig)[u] = <<a, f>>
        <5>1. Lists(m, eig)
          BY <4>2, ListingIs
        <5> QED BY <5>1 DEF Lists
      <4> QED BY <4>1, <4>2, <4>3
    <3> QED BY <2>8, <3>1
  <2> HIDE DEF q, b, d, k, eig, C, S, K, O
  <2>12. t \in K <=> \E i : ListedAt(m, found, t, i) /\ Spot(parts, n, cone, t, i) \in S
    BY <2>4, <2>6, <2>9
  <2>13. (t \in O /\ place[t] \in S) <=> \E i : ListedAt(m, found, t, i) /\ Spot(parts, n, cone, t, i) \in S
    BY <1>2, <2>10, <2>11
  <2> QED BY <2>12, <2>13 DEF S
<1>9. K \subseteq Directions(Q, found) /\ O \subseteq Directions(Q, found)
  BY DEF KeptOf, OfferedOf
<1> HIDE DEF O, K
<1>10. K = {t \in O : place[t] \in Strongest(cap, parts)}
  BY <1>8, <1>9
<1>11. PlacedFirst(cap, N, B, O, place, K)
  BY <1>6, <1>10 DEF PlacedFirst
<1>12. /\ Cardinality(K) = Min({cap, Cardinality(O)})
       /\ \A t \in K, s \in O \ K : F[place[t]] <= F[place[s]]
  <2>1. N \in Nat /\ HavePlaces(N, O, place)
    BY <1>2, <1>5
  <2>2. ASSUME NEW a \in Nat, PlacedFirst(a, N, B, O, place, K)
        PROVE  Cardinality(K) = Min({a, Cardinality(O)}) /\ Lowest(F, place, O, K)
    <3>1. Ascends(N, F, B) /\ PlacedFirst(a, N, B, O, place, K)
      BY <1>7, <2>2
    <3>2. Cardinality(K) = Min({a, Cardinality(O)})
      BY <2>1, <3>1, FirstPlaces
    <3>3. Lowest(F, place, O, K)
      BY <2>1, <3>1, FirstPlaces
    <3> QED BY <3>2, <3>3
  <2> QED BY <1>3, <1>11, <2>2 DEF Lowest
<1>13. K \subseteq O
  BY <1>10
<1>14. \A t \in K, s \in O \ K : Eigenvalue(found, t) <= Eigenvalue(found, s)
  <2> TAKE t \in K, s \in O \ K
  <2>1. F[place[t]] = Eigenvalue(found, t) /\ F[place[s]] = Eigenvalue(found, s)
    BY <1>2, <1>13
  <2> QED BY <1>12, <2>1
<1> QED BY <1>12, <1>13, <1>14 DEF O, K

\* The rest of a list.
LEMMA RestOf ==
  ASSUME NEW C, NEW L \in Seq(C), NEW i \in 0..Len(L), NEW M, M = SubSeq(L, i + 1, Len(L))
  PROVE  /\ M \in Seq(C)
         /\ Len(L) \in Nat
         /\ (M = <<>>) <=> (i = Len(L))
         /\ M # <<>> => /\ i + 1 \in 1..Len(L)
                        /\ Head(M) = L[i + 1]
                        /\ Tail(M) = SubSeq(L, i + 2, Len(L))
<1> DEFINE m == Len(L)
<1>1. m \in Nat /\ i \in Nat /\ i <= m
  BY LenProperties
<1>2. i + 1 \in 1..(m + 1) /\ m \in i..m
  BY <1>1
<1>3. /\ M \in Seq(C) /\ Len(M) = m - i
      /\ \A k \in 1..(m - i) : M[k] = L[k + i]
  <2>1. M \in Seq(C)
    BY <1>1, <1>2, SubSeqProperties
  <2>2. Len(M) = IF i + 1 <= m THEN m - (i + 1) + 1 ELSE 0
    BY <1>2, SubSeqProperties
  <2>3. Len(M) = m - i
    BY <1>1, <2>2
  <2>4. \A k \in 1..(m - i) : M[k] = L[k + i]
    BY <1>1, <1>2, <2>3, SubSeqProperties
  <2> QED BY <2>1, <2>3, <2>4
<1> HIDE DEF m
<1>4. (M = <<>>) <=> (Len(M) = 0)
  BY <1>3, EmptySeq
<1>5. ASSUME M # <<>>
      PROVE  /\ i + 1 \in 1..m
             /\ Head(M) = L[i + 1]
             /\ Tail(M) = SubSeq(L, i + 2, m)
  <2>1. m - i >= 1 /\ Len(M) >= 1
    BY <1>1, <1>3, <1>4, <1>5
  <2>2. 1 \in 1..(m - i) /\ 1 + i = i + 1 /\ i + 1 \in 1..m
    BY <1>1, <2>1
  <2>3. Head(M) = L[i + 1]
    <3>1. Head(M) = M[1]
      BY <1>3, <1>5, HeadTailProperties
    <3> QED BY <1>3, <2>2, <3>1
  <2>4. Tail(M) \in Seq(C) /\ Len(Tail(M)) = m - i - 1
        /\ \A k \in 1..(m - i - 1) : Tail(M)[k] = M[k + 1]
    <3>1. Tail(M) \in Seq(C) /\ Len(Tail(M)) = Len(M) - 1
          /\ \A k \in 1..(Len(M) - 1) : Tail(M)[k] = M[k + 1]
      BY <1>3, <1>5, HeadTailProperties
    <3> QED BY <1>1, <1>3, <3>1
  <2> DEFINE N == SubSeq(L, i + 2, m)
  <2>5. N \in Seq(C) /\ Len(N) = m - i - 1 /\ \A k \in 1..(m - i - 1) : N[k] = L[k + i + 1]
    <3>1. i + 2 \in 1..(m + 1) /\ m \in ((i + 2) - 1)..m
      BY <1>1, <2>1
    <3>2. N \in Seq(C)
      BY <1>1, <3>1, SubSeqProperties DEF m
    <3>3. Len(N) = IF i + 2 <= m THEN m - (i + 2) + 1 ELSE 0
      BY <3>1, SubSeqProperties DEF m
    <3>4. Len(N) = m - i - 1
      BY <1>1, <2>1, <3>3
    <3>5. \A k \in 1..Len(N) : N[k] = L[(i + 2) + k - 1]
      BY <3>1, SubSeqProperties DEF m
    <3>6. \A k \in 1..(m - i - 1) : N[k] = L[k + i + 1]
      <4> TAKE k \in 1..(m - i - 1)
      <4>1. (i + 2) + k - 1 = k + i + 1
        BY <1>1
      <4> QED BY <3>4, <3>5, <4>1
    <3> QED BY <3>2, <3>4, <3>6
  <2>6. Tail(M) = N
    <3> HIDE DEF N
    <3>1. \A k \in 1..(m - i - 1) : Tail(M)[k] = N[k]
      <4> TAKE k \in 1..(m - i - 1)
      <4>1. k + 1 \in 1..(m - i) /\ (k + 1) + i = k + i + 1
        BY <1>1
      <4> QED BY <1>3, <2>4, <2>5, <4>1
    <3> QED BY <2>4, <2>5, <3>1, SeqEqual
  <2> QED BY <2>2, <2>3, <2>6
<1> QED BY <1>1, <1>3, <1>4, <1>5 DEF m

LEMMA RestOfRest ==
  ASSUME NEW C, NEW L \in Seq(C), NEW i \in 0..Len(L), i + 1 \in 1..Len(L), NEW T,
         T = SubSeq(L, i + 2, Len(L)), NEW m \in 0..Len(T)
  PROVE  /\ Len(T) = Len(L) - i - 1
         /\ \A e \in 1..m : T[e] = L[i + 1 + e]
         /\ SubSeq(T, m + 1, Len(T)) = SubSeq(L, i + 1 + m + 1, Len(L))
<1>1. Len(L) \in Nat
  OBVIOUS
<1>2. T \in Seq(C) /\ Len(T) = Len(L) - i - 1
  BY <1>1
<1>3. \A e \in 1..Len(T) : T[e] = L[i + 1 + e]
  BY <1>1, <1>2
<1>4. SubSeq(T, m + 1, Len(T)) = SubSeq(L, i + 1 + m + 1, Len(L))
  <2> DEFINE A == SubSeq(T, m + 1, Len(T))
             k == i + 1 + m
             B == SubSeq(L, k + 1, Len(L))
  <2>1. m \in Nat /\ Len(T) \in Nat /\ k \in Nat /\ Len(L) \in Nat /\ i \in Nat
    BY <1>1, <1>2
  <2>2. \A e \in (m + 1)..Len(T) : T[e] \in C
    BY <1>2, <2>1
  <2>3. /\ A \in Seq(C) /\ Len(A) = Len(T) - m
        /\ \A e \in 1..(Len(T) - m) : A[e] = T[m + e]
    <3>1. \A e \in 1..(Len(T) - (m + 1) + 1) : (m + 1) + e - 1 = m + e
      BY <2>1
    <3>2. m + 1 <= Len(T) \/ m = Len(T)
      BY <2>1
    <3> QED BY <2>1, <2>2, <3>1, <3>2, SubSeqProperties
  <2>4. \A e \in (k + 1)..Len(L) : L[e] \in C
    BY <2>1
  <2>5. Len(L) - k = Len(T) - m
    BY <1>2, <2>1
  <2>6. /\ B \in Seq(C) /\ Len(B) = Len(L) - k
        /\ \A e \in 1..(Len(L) - k) : B[e] = L[k + e]
    <3>1. \A e \in 1..(Len(L) - (k + 1) + 1) : (k + 1) + e - 1 = k + e
      BY <2>1
    <3>2. k + 1 <= Len(L) \/ k = Len(L)
      BY <2>1, <2>5
    <3> QED BY <2>1, <2>4, <3>1, <3>2, SubSeqProperties
  <2>7. ASSUME NEW e \in 1..Len(A)
        PROVE  A[e] = B[e]
    <3>1. e \in 1..(Len(T) - m) /\ e \in 1..(Len(L) - k)
      BY <2>3, <2>5, <2>7
    <3>2. A[e] = T[m + e] /\ B[e] = L[k + e]
      BY <2>3, <2>6, <3>1
    <3>3. m + e \in 1..Len(T) /\ i + 1 + (m + e) = k + e
      BY <2>1, <3>1
    <3> QED BY <1>3, <3>2, <3>3
  <2>8. Len(A) = Len(B)
    BY <2>3, <2>5, <2>6
  <2>9. A \in Seq(C) /\ B \in Seq(C)
    BY <2>3, <2>6
  <2> HIDE DEF A, B
  <2>10. A = B
    BY <2>7, <2>8, <2>9, SeqEqual
  <2> QED BY <2>10 DEF A, B
<1>5. \A e \in 1..m : T[e] = L[i + 1 + e]
  BY <1>2, <1>3
<1> QED BY <1>2, <1>4, <1>5

\* What is listed one by one is a list.
LEMMA ListOfMany ==
  ASSUME NEW n \in Nat, NEW f, f = [i \in 1..n |-> f[i]]
  PROVE  \E A : f \in Seq(A)
<1> DEFINE A == {f[i] : i \in 1..n}
<1>1. f \in Seq(A)
  OBVIOUS
<1> QED BY <1>1

LEMMA JoinedLists ==
  ASSUME NEW A, NEW s \in Seq(A), NEW B, NEW t \in Seq(B)
  PROVE  \E C : s \o t \in Seq(C)
<1> DEFINE C == A \union B
<1>1. s \in Seq(C) /\ t \in Seq(C)
  OBVIOUS
<1> HIDE DEF C
<1>2. s \o t \in Seq(C)
  BY <1>1, ConcatProperties
<1> QED BY <1>2

\* Lists of whatever are lists of members of one set.
EachList(n, seqs) ==
  seqs = [i \in 1..n |-> seqs[i]] /\ \A i \in 1..n : \E A : seqs[i] \in Seq(A)

LEMMA OneKind ==
  ASSUME NEW n \in Nat, NEW seqs, EachList(n, seqs)
  PROVE  \E A : seqs \in [1..n -> Seq(A)]
<1> DEFINE A == UNION {{seqs[i][k] : k \in DOMAIN seqs[i]} : i \in 1..n}
<1>1. ASSUME NEW i \in 1..n PROVE seqs[i] \in Seq(A)
  <2>1. PICK B : seqs[i] \in Seq(B)
    BY DEF EachList
  <2> DEFINE s == seqs[i]
             m == Len(s)
  <2>2. m \in Nat /\ DOMAIN s = 1..m /\ s = [k \in 1..m |-> s[k]]
    BY <2>1, LenProperties
  <2>3. \A k \in 1..m : s[k] \in A
    BY <2>2
  <2> HIDE DEF A, s, m
  <2>4. s \in Seq(A)
    BY <2>2, <2>3
  <2> QED BY <2>4 DEF s
<1> HIDE DEF A
<1>2. seqs \in [1..n -> Seq(A)]
  BY <1>1 DEF EachList
<1> QED BY <1>2

\* Of parts laid out one after the other each is where it starts.
LEMMA PartStarts ==
  ASSUME NEW n \in Nat, NEW parts, EachList(n, parts), NEW c \in 1..n, NEW own, own = parts[c]
  PROVE  LET start == StartOf(parts, c - 1)
         IN  SubSeq(FlattenSeq(parts), start + 1, start + Len(own)) = own
<1>1. PICK A : parts \in [1..n -> Seq(A)]
  BY OneKind
<1> DEFINE F == FlattenSeq(parts)
           e == Ends(parts, n)
           start == StartOf(parts, c - 1)
           l == Len(own)
<1>2. start = e[c - 1]
  <2> DEFINE k == c - 1
  <2>1. k \in 0..n
    OBVIOUS
  <2> HIDE DEF k
  <2>2. StartOf(parts, k) = e[k]
    BY <1>1, <2>1, StartIs
  <2> QED BY <2>2 DEF k
<1>3. own \in Seq(A) /\ l \in Nat
  BY <1>1, LenProperties
<1>4. /\ F \in Seq(A) /\ Len(F) = e[n]
      /\ \A k \in 1..l : e[c - 1] + k \in 1..Len(F) /\ F[e[c - 1] + k] = own[k]
  <2>1. OneAfterOther(A, n, parts)
    BY <1>1, FlattenedAt
  <2>2. /\ F \in Seq(A) /\ Len(F) = e[n]
        /\ \A i \in 1..n : \A k \in 1..Len(parts[i]) :
             e[i - 1] + k \in 1..Len(F) /\ F[e[i - 1] + k] = parts[i][k]
    BY <2>1, Zenon DEF OneAfterOther
  <2> HIDE DEF F, e
  <2> QED BY <2>2
<1>5. e[c - 1] \in Nat /\ e[c - 1] + l <= e[n] /\ e[n] \in Nat
  <2>1. /\ e \in [0..n -> Nat] /\ e[c] = e[c - 1] + Len(parts[c])
        /\ \A i, j \in 0..n : i <= j => e[i] <= e[j]
    BY <1>1, EndsStep
  <2>2. c - 1 \in 0..n /\ c \in 0..n /\ n \in 0..n /\ c <= n
    OBVIOUS
  <2> HIDE DEF e
  <2> QED BY <2>1, <2>2
<1> HIDE DEF F, e, start, l
<1> DEFINE s == SubSeq(F, start + 1, start + l)
<1>6. /\ s \in Seq(A) /\ Len(s) = l
      /\ \A k \in 1..l : s[k] = own[k]
  <2> DEFINE a == start + 1
             b == start + l
  <2>1. start \in Nat /\ start + l <= Len(F) /\ Len(F) \in Nat
    BY <1>2, <1>3, <1>4, <1>5
  <2>2. a \in Int /\ b \in Int /\ (\A i \in a..b : i \in 1..Len(F)) /\ b - a + 1 = l
        /\ (IF a <= b THEN b - a + 1 ELSE 0) = l
    BY <1>3, <2>1
  <2>3. \A i \in a..b : F[i] \in A
    BY <1>4, <2>2
  <2>4. \A k \in 1..l : a + k - 1 = e[c - 1] + k
    BY <1>2, <1>5
  <2>5. s = SubSeq(F, a, b)
    OBVIOUS
  <2> HIDE DEF a, b, s
  <2>6. /\ SubSeq(F, a, b) \in Seq(A) /\ Len(SubSeq(F, a, b)) = (IF a <= b THEN b - a + 1 ELSE 0)
        /\ \A k \in 1..(b - a + 1) : SubSeq(F, a, b)[k] = F[a + k - 1]
    BY <2>2, <2>3, SubSeqProperties
  <2> QED BY <1>4, <2>2, <2>4, <2>5, <2>6
<1> HIDE DEF s
<1>7. s = own
  BY <1>3, <1>6, SeqEqual DEF l
<1> QED BY <1>7 DEF s, F, start, l

\* The directions of one block come in an order.
OneBlock(s, t) == SubSeq(s, 1, 2) = SubSeq(t, 1, 2)
Weaker(found, s, t) ==
  \/ Eigenvalue(found, s) < Eigenvalue(found, t)
  \/ Eigenvalue(found, s) = Eigenvalue(found, t) /\ s[3] < t[3]
Ahead(Q, found, t) == {s \in Directions(Q, found) : OneBlock(s, t) /\ Weaker(found, s, t)}
FirstInBlock(m, Q, found) ==
  {t \in Directions(Q, found) : Cardinality(Ahead(Q, found, t)) < m}

LEMMA BlockOf ==
  ASSUME NEW a, NEW b, NEW c, NEW s, s = <<a, b, c>>
  PROVE  SubSeq(s, 1, 2) = <<a, b>>
<1>1. s \in Seq({a, b, c}) /\ Len(s) = 3
  OBVIOUS
<1> DEFINE w == SubSeq(s, 1, 2)
<1>2. \A i \in 1..2 : s[i] \in {a, b, c}
  BY <1>1
<1>3. w \in Seq({a, b, c}) /\ Len(w) = 2 /\ w[1] = s[1] /\ w[2] = s[2]
  <2>1. /\ SubSeq(s, 1, 2) \in Seq({a, b, c})
        /\ Len(SubSeq(s, 1, 2)) = IF 1 <= 2 THEN 2 - 1 + 1 ELSE 0
        /\ \A i \in 1..(2 - 1 + 1) : SubSeq(s, 1, 2)[i] = s[1 + i - 1]
    BY <1>2, SubSeqProperties
  <2> QED BY <2>1
<1> HIDE DEF w
<1>4. w = <<a, b>>
  <2>1. w = [i \in 1..2 |-> w[i]]
    BY <1>3, LenProperties
  <2> QED BY <1>3, <2>1
<1> QED BY <1>4 DEF w

LEMMA RankAmong ==
  ASSUME NEW Q, NEW found, \A q \in Q : Found(found[q]), NEW t \in Directions(Q, found)
  PROVE  Cardinality(Ahead(Q, found, t))
           = RankIn(t[3], DOMAIN found[t[1]][t[2]], ByValue(found[t[1]][t[2]]))
<1> DEFINE v == found[t[1]][t[2]]
           D == DOMAIN v
           S == {y \in D : <<y, t[3]>> \in ByValue(v)}
           T == Ahead(Q, found, t)
           f == [y \in S |-> <<t[1], t[2], y>>]
<1>1. t = <<t[1], t[2], t[3]>> /\ t[1] \in Q /\ t[2] \in DOMAIN found[t[1]] /\ t[3] \in D
  BY DirectionsAre
<1>2. v \in Seq(Int)
  BY <1>1 DEF Found
<1>3. \A i, j \in D : <<i, j>> \in ByValue(v) <=> v[i] < v[j] \/ (v[i] = v[j] /\ i < j)
  <2> HIDE DEF v
  <2> QED BY <1>2, ByValueOrders
<1>4. IsFiniteSet(D)
  <2> HIDE DEF v
  <2> QED BY <1>2, ByValueOrders
<1>5. IsFiniteSet(S)
  <2>1. S \subseteq D
    OBVIOUS
  <2> HIDE DEF S, D
  <2> QED BY <1>4, <2>1, FS_Subset
<1>6. ASSUME NEW y \in D PROVE /\ <<t[1], t[2], y>> \in Directions(Q, found)
                                 /\ Eigenvalue(found, <<t[1], t[2], y>>) = v[y]
                                 /\ OneBlock(<<t[1], t[2], y>>, t)
  <2> DEFINE s == <<t[1], t[2], y>>
  <2>1. s \in Directions(Q, found)
    BY <1>1, DirectionsAre
  <2>2. s[1] = t[1] /\ s[2] = t[2] /\ s[3] = y
    OBVIOUS
  <2>3. SubSeq(s, 1, 2) = <<t[1], t[2]>> /\ SubSeq(t, 1, 2) = <<t[1], t[2]>>
    BY <1>1, BlockOf
  <2> HIDE DEF s, D, v
  <2>4. Eigenvalue(found, s) = v[y]
    BY <2>2 DEF Eigenvalue, v
  <2> QED BY <2>1, <2>3, <2>4 DEF OneBlock, s
<1>7. Eigenvalue(found, t) = v[t[3]]
  BY DEF Eigenvalue
<1>8. \A y \in S : f[y] = <<t[1], t[2], y>> /\ y \in D
  OBVIOUS
<1>9. \A y \in D : y \in S <=> v[y] < v[t[3]] \/ (v[y] = v[t[3]] /\ y < t[3])
  BY <1>1, <1>3
<1>10. f = [y \in S |-> f[y]]
  OBVIOUS
<1> HIDE DEF f, S, D, v
<1>11. \A y \in S : f[y] \in T
  <2> TAKE y \in S
  <2>1. y \in D /\ (v[y] < v[t[3]] \/ (v[y] = v[t[3]] /\ y < t[3]))
    BY <1>8, <1>9
  <2> DEFINE s == <<t[1], t[2], y>>
  <2>2. s \in Directions(Q, found) /\ Eigenvalue(found, s) = v[y] /\ OneBlock(s, t) /\ s[3] = y
    BY <1>6, <2>1
  <2> HIDE DEF s
  <2>3. s \in T
    BY <1>7, <2>1, <2>2 DEF Ahead, Weaker
  <2> QED BY <1>8, <2>3 DEF s
<1>12. \A s \in T : \E y \in S : f[y] = s
  <2> TAKE s \in T
  <2>1. s \in Directions(Q, found) /\ OneBlock(s, t) /\ Weaker(found, s, t)
    BY DEF Ahead
  <2>2. s = <<s[1], s[2], s[3]>> /\ s[3] \in DOMAIN found[s[1]][s[2]]
    BY <2>1, DirectionsAre
  <2>3. <<s[1], s[2]>> = <<t[1], t[2]>>
    <3>1. SubSeq(s, 1, 2) = <<s[1], s[2]>> /\ SubSeq(t, 1, 2) = <<t[1], t[2]>>
      BY <1>1, <2>2, BlockOf
    <3> QED BY <2>1, <3>1 DEF OneBlock
  <2>4. s[1] = t[1] /\ s[2] = t[2]
    BY <2>3
  <2>5. s[3] \in D /\ Eigenvalue(found, s) = v[s[3]]
    BY <2>2, <2>4 DEF Eigenvalue, v, D
  <2>6. s[3] \in S
    BY <1>7, <1>9, <2>1, <2>5 DEF Weaker
  <2>7. f[s[3]] = s
    BY <1>8, <2>2, <2>4, <2>6
  <2> QED BY <2>6, <2>7
<1>13. \A x, y \in S : f[x] = f[y] => x = y
  BY <1>8
<1> HIDE DEF T
<1>14. f \in [S -> T]
  BY <1>10, <1>11
<1>15. Cardinality(T) = Cardinality(S)
  BY <1>5, <1>12, <1>13, <1>14, OneToOne
<1> QED BY <1>15 DEF RankIn, T, S, D, v

\* What the selection comes to, of the directions that are first in their block.
LEMMA JointlyKept ==
  ASSUME NEW m \in Nat, NEW cap \in Nat, NEW n \in Nat, NEW Q, NEW cone, NEW found,
         NEW parts \in [1..n -> Seq(Int)],
         Side(m, n, Q, cone, found, parts), NEW kept, SelectedOn(m, cap, Q, cone, found, parts, kept)
  PROVE  /\ KeptOf(Q, found, kept) \subseteq FirstInBlock(m, Q, found)
         /\ Cardinality(KeptOf(Q, found, kept)) = Min({cap, Cardinality(FirstInBlock(m, Q, found))})
         /\ \A t \in KeptOf(Q, found, kept), s \in FirstInBlock(m, Q, found) \ KeptOf(Q, found, kept) :
              Eigenvalue(found, t) <= Eigenvalue(found, s)
<1>1. \A q \in Q : Found(found[q])
  BY DEF Side
<1>2. ASSUME NEW t \in Directions(Q, found)
      PROVE  t \in FirstInBlock(m, Q, found) <=> t \in OfferedOf(m, Q, found)
  <2>1. Cardinality(Ahead(Q, found, t))
           = RankIn(t[3], DOMAIN found[t[1]][t[2]], ByValue(found[t[1]][t[2]]))
    BY <1>1, RankAmong
  <2>2. t[3] \in DOMAIN found[t[1]][t[2]]
    BY DirectionsAre
  <2> QED BY <2>1, <2>2 DEF FirstInBlock, OfferedOf, Smallest, FirstOf
<1>3. FirstInBlock(m, Q, found) = OfferedOf(m, Q, found)
  <2>1. FirstInBlock(m, Q, found) \subseteq Directions(Q, found)
    BY DEF FirstInBlock
  <2>2. OfferedOf(m, Q, found) \subseteq Directions(Q, found)
    BY DEF OfferedOf
  <2> QED BY <1>2, <2>1, <2>2
<1>4. /\ KeptOf(Q, found, kept) \subseteq OfferedOf(m, Q, found)
      /\ Cardinality(KeptOf(Q, found, kept)) = Min({cap, Cardinality(OfferedOf(m, Q, found))})
      /\ \A t \in KeptOf(Q, found, kept), s \in OfferedOf(m, Q, found) \ KeptOf(Q, found, kept) :
           Eigenvalue(found, t) <= Eigenvalue(found, s)
  BY JointSelection, Zenon
<1> QED BY <1>3, <1>4
=============================================================================
