-------------------------------- MODULE FoldLemmas --------------------------------
(***************************************************************************)
(* Induction over data for the proofs of the other modules.  The numbers   *)
(* are well-founded, so a set of numbers that has 0 and every successor    *)
(* has them all; functions that are defined by recursion, and the folds of *)
(* the community modules, are then what their equations say.               *)
(***************************************************************************)
EXTENDS Integers, SequencesExt, FiniteSetTheorems, SequenceTheorems, WellFoundedInduction, TLAPS

NatBelow == {pair \in Nat \X Nat : pair[1] < pair[2]}

LEMMA BelowIsWellFounded == IsWellFoundedOn(NatBelow, Nat)
  BY NatLessThanWellFounded, Zenon DEF OpToRel, NatBelow

\* A set of numbers that is not empty has a least one.
LEMMA LeastNatural ==
    ASSUME NEW S \in SUBSET Nat, S # {}
    PROVE  \E m \in S : \A k \in S : m <= k
  <1>1. PICK m \in S : \A k \in S : <<k, m>> \notin NatBelow
    BY WFMin, BelowIsWellFounded, Zenon
  <1>2. ASSUME NEW k \in S PROVE ~ (k < m)
    <2>1. k < m => <<k, m>> \in NatBelow
      BY DEF NatBelow
    <2> QED BY <1>1, <2>1
  <1> QED BY <1>2

\* Induction: the predicate is a set.
LEMMA Induction ==
    ASSUME NEW S, 0 \in S, \A n \in Nat : n \in S => n + 1 \in S
    PROVE  Nat \subseteq S
  <1> SUFFICES ASSUME Nat \ S # {} PROVE FALSE
    OBVIOUS
  <1>1. PICK m \in Nat \ S : \A k \in Nat \ S : m <= k
    BY LeastNatural
  <1>2. m # 0 /\ m - 1 \in Nat /\ m - 1 \in S
    BY <1>1
  <1> QED BY <1>2

\* Induction up to n.
LEMMA InductionUpTo ==
    ASSUME NEW n \in Nat, NEW S, 0 \in S, \A i \in 0..(n - 1) : i \in S => i + 1 \in S
    PROVE  0..n \subseteq S
  <1> DEFINE T == {i \in Nat : i <= n => i \in S}
  <1>1. 0 \in T
    OBVIOUS
  <1>2. ASSUME NEW i \in Nat, i \in T PROVE i + 1 \in T
    <2>1. CASE i + 1 <= n
      BY <1>2, <2>1
    <2> QED BY <2>1
  <1>3. Nat \subseteq T
    <2> HIDE DEF T
    <2> QED BY <1>1, <1>2, Induction
  <1> QED BY <1>3

\* Complete induction, over what has a size.
LEMMA InductionBySize ==
    ASSUME NEW D, NEW size \in [D -> Nat], NEW S,
           \A d \in D : (\A e \in D : size[e] < size[d] => e \in S) => d \in S
    PROVE  D \subseteq S
  <1> SUFFICES ASSUME D \ S # {} PROVE FALSE
    OBVIOUS
  <1> DEFINE sizes == {size[d] : d \in D \ S}
  <1>1. sizes \in SUBSET Nat /\ sizes # {}
    OBVIOUS
  <1>2. PICK m \in sizes : \A k \in sizes : m <= k
    <2> HIDE DEF sizes
    <2> QED BY <1>1, LeastNatural
  <1>3. PICK d \in D \ S : m = size[d]
    OBVIOUS
  <1>4. ASSUME NEW e \in D, size[e] < size[d] PROVE e \in S
    BY <1>2, <1>3, <1>4
  <1> QED BY <1>3, <1>4
-----------------------------------------------------------------------------
\* F is defined by recursion along the subsets of D: step adds the chosen element.
RecursiveOnSubsets(F, D, chosen, base, step) ==
    \A s \in SUBSET D :
        F[s] = IF s = {} THEN base ELSE step[<<chosen[s], F[s \ {chosen[s]}]>>]

\* F is defined by recursion along the natural numbers.
RecursiveOnNat(F, first, step) ==
    \A n \in Nat : F[n] = IF n = 0 THEN first ELSE step[<<n, F[n - 1]>>]

\* F is what a fold from the left applies, when step gives the values of its operator.
RecursiveOnPrefixes(F, n, base, step) ==
    \A s \in SUBSET (1..n) :
        F[s] = IF s = {} THEN base ELSE step[<<Max(s), F[s \ {Max(s)}]>>]

\* F is defined by recursion along the interval a..b.
RecursiveOnInterval(F, a, b, first, step) ==
    \A i \in a..b : F[i] = IF i = a THEN first ELSE step[<<i, F[i - 1]>>]

LEMMA SubsetRecursion ==
    ASSUME NEW D, IsFiniteSet(D), NEW V, NEW base \in V, NEW step \in [D \X V -> V],
           NEW chosen, \A s \in SUBSET D : s # {} => chosen[s] \in s
    PROVE  \E F \in [SUBSET D -> V] : RecursiveOnSubsets(F, D, chosen, base, step)
  <1> DEFINE Level(n) == {s \in SUBSET D : Cardinality(s) <= n}
             Solves(F, n) == /\ F \in [Level(n) -> V]
                             /\ \A s \in Level(n) :
                                  F[s] = IF s = {} THEN base
                                         ELSE step[<<chosen[s], F[s \ {chosen[s]}]>>]
             S == {n \in Nat : \E F : Solves(F, n)}
  <1>0. \A s \in SUBSET D : IsFiniteSet(s) /\ Cardinality(s) \in Nat
    BY FS_Subset, FS_CardinalityType
  <1>1. \A s \in SUBSET D : s # {} =>
            s \ {chosen[s]} \in SUBSET D /\ Cardinality(s \ {chosen[s]}) = Cardinality(s) - 1
    <2> TAKE s \in SUBSET D
    <2> HAVE s # {}
    <2> QED BY <1>0, FS_RemoveElement
  <1>2. 0 \in S
    <2>1. Level(0) = {{}}
      BY <1>0, FS_EmptySet
    <2>2. Solves([s \in Level(0) |-> base], 0)
      BY <2>1
    <2> QED BY <2>2
  <1>3. ASSUME NEW n \in Nat, n \in S PROVE n + 1 \in S
    <2>1. PICK F : Solves(F, n)
      BY <1>3
    <2> DEFINE G == [s \in Level(n + 1) |->
                        IF s = {} THEN base ELSE step[<<chosen[s], F[s \ {chosen[s]}]>>]]
    <2>2. \A s \in Level(n + 1) : s # {} => s \ {chosen[s]} \in Level(n)
      BY <1>0, <1>1
    <2>3. G \in [Level(n + 1) -> V]
      <3> SUFFICES ASSUME NEW s \in Level(n + 1) PROVE G[s] \in V
        OBVIOUS
      <3>1. CASE s = {}
        BY <3>1
      <3>2. CASE s # {}
        <4>1. F[s \ {chosen[s]}] \in V /\ chosen[s] \in D
          BY <2>1, <2>2, <3>2
        <4>2. step[<<chosen[s], F[s \ {chosen[s]}]>>] \in V
          BY <4>1
        <4> QED BY <3>2, <4>2
      <3> QED BY <3>1, <3>2
    <2>4. Level(n) \subseteq Level(n + 1)
      BY <1>0
    <2>5. \A s \in Level(n) : G[s] = F[s]
      BY <2>1, <2>4
    <2>6. \A s \in Level(n + 1) : s # {} => G[s \ {chosen[s]}] = F[s \ {chosen[s]}]
      BY <2>2, <2>5
    <2>7. Solves(G, n + 1)
      <3> HIDE DEF Level
      <3> QED BY <2>3, <2>6
    <2>8. \E H : Solves(H, n + 1)
      <3> HIDE DEF Solves, G
      <3> QED BY <2>7
    <2> QED
      <3> HIDE DEF Solves
      <3> QED BY <2>8
  <1>4. Nat \subseteq S
    <2> HIDE DEF S
    <2> QED BY <1>2, <1>3, Induction
  <1>5. Cardinality(D) \in S
    BY <1>0, <1>4
  <1>6. PICK F : Solves(F, Cardinality(D))
    BY <1>5
  <1>7. Level(Cardinality(D)) = SUBSET D
    BY <1>0, FS_Subset
  <1>8. F \in [SUBSET D -> V] /\ \A s \in SUBSET D :
                                  F[s] = IF s = {} THEN base
                                         ELSE step[<<chosen[s], F[s \ {chosen[s]}]>>]
    <2> HIDE DEF Level
    <2> QED BY <1>6, <1>7
  <1> QED BY <1>8 DEF RecursiveOnSubsets

\* Recursion along an interval.
LEMMA IntervalRecursion ==
    ASSUME NEW a \in Int, NEW b \in Int, NEW V, NEW first \in V,
           NEW step \in [(a..b) \X V -> V]
    PROVE  \E F \in [a..b -> V] : RecursiveOnInterval(F, a, b, first, step)
  <1> DEFINE Solves(F, n) == /\ F \in [a..n -> V]
                             /\ \A i \in a..n : F[i] = IF i = a THEN first ELSE step[<<i, F[i - 1]>>]
             S == {n \in Nat : a + n <= b => \E F : Solves(F, a + n)}
  <1>1. 0 \in S
    <2>1. Solves([i \in a..(a + 0) |-> first], a + 0)
      OBVIOUS
    <2>2. \E F : Solves(F, a + 0)
      <3> HIDE DEF Solves
      <3> QED BY <2>1
    <2> QED BY <2>2
  <1>2. ASSUME NEW n \in Nat, n \in S PROVE n + 1 \in S
    <2> SUFFICES ASSUME a + (n + 1) <= b PROVE \E F : Solves(F, a + (n + 1))
      OBVIOUS
    <2>1. PICK F : Solves(F, a + n)
      BY <1>2
    <2> DEFINE G == [i \in a..(a + (n + 1)) |-> IF i = a THEN first ELSE step[<<i, F[i - 1]>>]]
    <2>2. \A i \in a..(a + (n + 1)) : i # a => i - 1 \in a..(a + n) /\ F[i - 1] \in V /\ i \in a..b
      BY <2>1
    <2>3. G \in [a..(a + (n + 1)) -> V]
      <3> SUFFICES ASSUME NEW i \in a..(a + (n + 1)) PROVE G[i] \in V
        OBVIOUS
      <3>1. CASE i # a
        <4>1. step[<<i, F[i - 1]>>] \in V
          BY <2>2, <3>1
        <4> QED BY <3>1, <4>1
      <3> QED BY <3>1
    <2>4. \A i \in a..(a + n) : i \in a..(a + (n + 1)) /\ G[i] = F[i]
      BY <2>1
    <2>5. \A i \in a..(a + (n + 1)) : i # a => G[i - 1] = F[i - 1]
      BY <2>2, <2>4
    <2>6. Solves(G, a + (n + 1))
      BY <2>3, <2>5
    <2> QED
      <3> HIDE DEF Solves, G
      <3> QED BY <2>6
  <1>3. Nat \subseteq S
    <2> HIDE DEF S
    <2> QED BY <1>1, <1>2, Induction
  <1>4. CASE a <= b
    <2>1. b - a \in S /\ a + (b - a) = b
      <3>1. b - a \in Nat
        BY <1>4
      <3> HIDE DEF S
      <3> QED BY <1>3, <3>1
    <2>2. \E F : Solves(F, b)
      <3> HIDE DEF Solves
      <3> QED BY <1>4, <2>1
    <2> QED BY <2>2 DEF RecursiveOnInterval
  <1>5. CASE a > b
    <2>1. a..b = {}
      BY <1>5
    <2> DEFINE F == [i \in a..b |-> first]
    <2>2. F \in [a..b -> V] /\ \A i \in a..b : F[i] = IF i = a THEN first ELSE step[<<i, F[i - 1]>>]
      BY <2>1
    <2> QED BY <2>2 DEF RecursiveOnInterval
  <1> QED BY <1>4, <1>5

\* Recursion along the natural numbers.
LEMMA NatRecursion ==
    ASSUME NEW V, NEW first \in V, NEW step \in [Nat \X V -> V]
    PROVE  \E F \in [Nat -> V] : RecursiveOnNat(F, first, step)
  <1> DEFINE Solves(F, n) == /\ F \in [0..n -> V]
                             /\ \A i \in 0..n : F[i] = IF i = 0 THEN first ELSE step[<<i, F[i - 1]>>]
             Up == [n \in Nat |-> CHOOSE F : Solves(F, n)]
             H == [n \in Nat |-> Up[n][n]]
  <1>1. ASSUME NEW n \in Nat PROVE Solves(Up[n], n)
    <2> DEFINE st == [p \in (0..n) \X V |-> step[p]]
    <2>1. \A p \in (0..n) \X V : p \in Nat \X V /\ st[p] = step[p] /\ step[p] \in V
      OBVIOUS
    <2>2. st \in [(0..n) \X V -> V]
      BY <2>1
    <2>3. PICK F \in [0..n -> V] : RecursiveOnInterval(F, 0, n, first, st)
      <3> HIDE DEF st
      <3>1. 0 \in Int /\ n \in Int
        OBVIOUS
      <3> QED BY <2>2, <3>1, IntervalRecursion
    <2>4. \A i \in 0..n : i # 0 => <<i, F[i - 1]>> \in (0..n) \X V
      OBVIOUS
    <2>5. Solves(F, n)
      <3> HIDE DEF st
      <3> QED BY <2>1, <2>3, <2>4 DEF RecursiveOnInterval
    <2>6. \E G : Solves(G, n)
      <3> HIDE DEF Solves
      <3> QED BY <2>5
    <2> QED
      <3> HIDE DEF Solves
      <3> QED BY <2>6
  <1> HIDE DEF Up
  <1>2. ASSUME NEW n \in Nat PROVE Up[n + 1][n] = Up[n][n]
    <2> DEFINE S == {i \in Nat : i <= n => Up[n + 1][i] = Up[n][i]}
    <2>1. Solves(Up[n + 1], n + 1) /\ Solves(Up[n], n)
      <3> HIDE DEF Solves
      <3> QED BY <1>1
    <2>2. 0 \in S
      <3>1. 0 \in 0..(n + 1) /\ 0 \in 0..n
        OBVIOUS
      <3>2. Up[n + 1][0] = first /\ Up[n][0] = first
        BY <2>1, <3>1
      <3> QED BY <3>2
    <2>3. ASSUME NEW i \in Nat, i \in S PROVE i + 1 \in S
      <3> SUFFICES ASSUME i + 1 <= n PROVE Up[n + 1][i + 1] = Up[n][i + 1]
        OBVIOUS
      <3>1. Up[n + 1][i] = Up[n][i]
        BY <2>3
      <3>2. /\ Up[n + 1][i + 1] = step[<<i + 1, Up[n + 1][i]>>]
            /\ Up[n][i + 1] = step[<<i + 1, Up[n][i]>>]
        BY <2>1
      <3> QED BY <3>1, <3>2
    <2>4. Nat \subseteq S
      <3> HIDE DEF S
      <3> QED BY <2>2, <2>3, Induction
    <2>5. n \in S
      BY <2>4
    <2> QED BY <2>5
  <1>3. \A n \in Nat : Up[n] \in [0..n -> V]
    BY <1>1
  <1>4. H \in [Nat -> V]
    BY <1>3
  <1>5. ASSUME NEW n \in Nat PROVE H[n] = IF n = 0 THEN first ELSE step[<<n, H[n - 1]>>]
    <2>1. Solves(Up[n], n)
      BY <1>1
    <2>2. CASE n = 0
      BY <2>1, <2>2
    <2>3. CASE n # 0
      <3>1. n - 1 \in Nat /\ (n - 1) + 1 = n
        BY <2>3
      <3>2. Up[n][n - 1] = Up[n - 1][n - 1]
        BY <1>2, <3>1
      <3> QED BY <2>1, <2>3, <3>1, <3>2
    <2> QED BY <2>2, <2>3
  <1> QED
    <2> HIDE DEF H
    <2> QED BY <1>4, <1>5 DEF RecursiveOnNat
-----------------------------------------------------------------------------
\* The greatest of some numbers up to n, as the folds choose it.
LEMMA MaxIsIn ==
    ASSUME NEW n \in Nat, NEW s \in SUBSET (1..n), s # {}
    PROVE  Max(s) \in s /\ \A i \in s : i <= Max(s)
  <1> DEFINE T == {n - i : i \in s}
  <1>1. T \in SUBSET Nat /\ T # {}
    <2>1. \A i \in s : i \in 1..n /\ n - i \in Nat
      OBVIOUS
    <2> QED BY <2>1
  <1>2. PICK m \in T : \A k \in T : m <= k
    <2> HIDE DEF T
    <2> QED BY <1>1, LeastNatural
  <1>3. PICK j \in s : m = n - j
    OBVIOUS
  <1>4. \A i \in s : j >= i
    BY <1>2, <1>3
  <1>5. Max(s) \in s /\ \A i \in s : Max(s) >= i
    BY <1>4, Zenon DEF Max
  <1> QED BY <1>5

LEMMA MaxOfPrefix ==
    ASSUME NEW n \in Nat, NEW i \in 1..n
    PROVE  Max(1..i) = i /\ (1..i) \ {i} = 1..(i - 1)
  <1>1. 1..i \in SUBSET (1..n) /\ 1..i # {}
    OBVIOUS
  <1>2. Max(1..i) \in 1..i /\ \A j \in 1..i : j <= Max(1..i)
    BY <1>1, MaxIsIn, Zenon
  <1> QED BY <1>2

\* What FoldLeft expands to: the function it chooses exists.  The step is given as
\* a function on some set V that the fold does not leave.
LEMMA FoldExists ==
    ASSUME NEW n \in Nat, NEW V, NEW base \in V, NEW step \in [(1..n) \X V -> V]
    PROVE  \E F \in [SUBSET (1..n) -> V] : RecursiveOnPrefixes(F, n, base, step)
  <1> DEFINE chosen == [s \in SUBSET (1..n) |-> Max(s)]
  <1>1. \A s \in SUBSET (1..n) : s # {} => chosen[s] \in s
    BY MaxIsIn
  <1>2. IsFiniteSet(1..n)
    BY FS_Interval
  <1>3. PICK F \in [SUBSET (1..n) -> V] : RecursiveOnSubsets(F, 1..n, chosen, base, step)
    <2> HIDE DEF chosen
    <2> QED BY <1>1, <1>2, SubsetRecursion
  <1> QED BY <1>3 DEF RecursiveOnSubsets, RecursiveOnPrefixes

\* F is what a fold chose: it follows step as long as its values are in V.
FollowsOn(F, n, V, base, step) ==
    /\ F[{}] = base
    /\ \A s \in SUBSET (1..n) : s # {} /\ F[s \ {Max(s)}] \in V =>
           F[s] = step[<<Max(s), F[s \ {Max(s)}]>>]

\* The values of F after each element.
RunsThrough(F, n, V, base, step) ==
    /\ F[1..0] = base
    /\ \A i \in 0..n : F[1..i] \in V
    /\ \A i \in 1..n : F[1..i] = step[<<i, F[1..(i - 1)]>>]

LEMMA FoldValues ==
    ASSUME NEW n \in Nat, NEW V, NEW base \in V, NEW step \in [(1..n) \X V -> V], NEW F,
           FollowsOn(F, n, V, base, step)
    PROVE  RunsThrough(F, n, V, base, step)
  <1>0. /\ F[{}] = base
        /\ \A s \in SUBSET (1..n) : s # {} /\ F[s \ {Max(s)}] \in V =>
               F[s] = step[<<Max(s), F[s \ {Max(s)}]>>]
    BY DEF FollowsOn
  <1> DEFINE S == {i \in 0..n : F[1..i] \in V}
  <1>1. 1..0 = {}
    OBVIOUS
  <1>2. 0 \in S
    BY <1>0, <1>1
  <1>3. ASSUME NEW i \in 1..n, F[1..(i - 1)] \in V
        PROVE  F[1..i] = step[<<i, F[1..(i - 1)]>>] /\ F[1..i] \in V
    <2>1. 1..i \in SUBSET (1..n) /\ 1..i # {} /\ Max(1..i) = i /\ (1..i) \ {i} = 1..(i - 1)
      BY MaxOfPrefix
    <2>2. F[1..i] = step[<<i, F[1..(i - 1)]>>]
      BY <1>0, <1>3, <2>1
    <2> QED BY <1>3, <2>2
  <1>4. \A i \in 0..(n - 1) : i \in S => i + 1 \in S
    <2> TAKE i \in 0..(n - 1)
    <2> HAVE i \in S
    <2>1. i + 1 \in 1..n /\ (i + 1) - 1 = i /\ i + 1 \in 0..n
      OBVIOUS
    <2>2. F[1..((i + 1) - 1)] \in V
      BY <2>1
    <2>3. F[1..(i + 1)] \in V
      BY <1>3, <2>1, <2>2
    <2> QED BY <2>1, <2>3
  <1>5. 0..n \subseteq S
    <2> HIDE DEF S
    <2> QED BY <1>2, <1>4, InductionUpTo
  <1>6. \A i \in 0..n : F[1..i] \in V
    BY <1>5
  <1>7. \A i \in 1..n : F[1..i] = step[<<i, F[1..(i - 1)]>>]
    <2> TAKE i \in 1..n
    <2>1. i - 1 \in 0..n
      OBVIOUS
    <2> QED BY <1>3, <1>6, <2>1
  <1>8. F[1..0] = base
    BY <1>0, <1>1
  <1> QED BY <1>6, <1>7, <1>8 DEF RunsThrough
-----------------------------------------------------------------------------
(***************************************************************************)
(* Quotients and remainders.                                               *)
(***************************************************************************)
LEMMA RemainderIs ==
    ASSUME NEW b \in Nat \ {0}, NEW a \in Int
    PROVE  /\ a % b \in 0..(b - 1)
           /\ 0 <= a /\ a < b => a % b = a
           /\ -b <= a /\ a < 0 => a % b = a + b
           /\ b <= a /\ a < 2 * b => a % b = a - b
           /\ a \div b \in Int /\ a = b * (a \div b) + (a % b)
  <1>1. a % b \in 0..(b - 1)
    BY SMT
  <1>2. a \div b \in Int /\ a = b * (a \div b) + (a % b)
    BY SMT
  <1>3. 0 <= a /\ a < b => a % b = a
    BY SMT
  <1>4. -b <= a /\ a < 0 => a % b = a + b
    BY SMT
  <1>5. b <= a /\ a < 2 * b => a % b = a - b
    BY SMT
  <1> QED BY <1>1, <1>2, <1>3, <1>4, <1>5

\* Products grow with their factors.
LEMMA ProductGrows ==
    ASSUME NEW h \in Nat, NEW a \in Int, NEW b \in Int, a < b
    PROVE  h * a \in Int /\ h * b \in Int /\ h * a + h <= h * b
  <1>1. PICK c \in Nat : b = a + 1 + c
    <2>1. b - a - 1 \in Nat /\ b = a + 1 + (b - a - 1)
      OBVIOUS
    <2> QED BY <2>1
  <1>2. h * b = h * a + h + h * c /\ h * c \in Nat /\ h * a \in Int
    BY <1>1
  <1> QED BY <1>2

\* Quotient and remainder are the only ones.
LEMMA QuotientIs ==
    ASSUME NEW b \in Nat \ {0}, NEW q \in Nat, NEW r \in 0..(b - 1)
    PROVE  b * q + r \in Nat /\ (b * q + r) \div b = q /\ (b * q + r) % b = r
  <1> DEFINE a == b * q + r
             p == a \div b
             s == a % b
  <1>1. b * q \in Nat /\ a \in Nat
    OBVIOUS
  <1>2. p \in Int /\ s \in 0..(b - 1) /\ a = b * p + s
    <2>1. a \in Int
      BY <1>1
    <2> HIDE DEF a
    <2> QED BY <2>1, RemainderIs, Zenon
  <1>3. a = b * q + r
    OBVIOUS
  <1> HIDE DEF a, p, s
  <1>4. ~ (p < q)
    <2> SUFFICES ASSUME p < q PROVE FALSE
      OBVIOUS
    <2>1. b * p \in Int /\ b * p + b <= b * q
      BY <1>2, ProductGrows
    <2> QED BY <1>1, <1>2, <1>3, <2>1
  <1>5. ~ (q < p)
    <2> SUFFICES ASSUME q < p PROVE FALSE
      OBVIOUS
    <2>1. b * p \in Int /\ b * q + b <= b * p
      BY <1>2, ProductGrows
    <2> QED BY <1>1, <1>2, <1>3, <2>1
  <1>6. p = q
    BY <1>2, <1>4, <1>5
  <1>7. s = r
    BY <1>1, <1>2, <1>3, <1>6
  <1> QED BY <1>1, <1>6, <1>7 DEF a, p, s

\* Division by a product is division by one factor and then by the other.
Divides(a, b, c) ==
    /\ a \div b \in Nat /\ b * c \in Nat \ {0}
    /\ a \div (b * c) = (a \div b) \div c
    /\ (a % (b * c)) \div b = (a \div b) % c
    /\ (a % (b * c)) % b = a % b

LEMMA DivideTwice ==
    ASSUME NEW a \in Nat, NEW b \in Nat \ {0}, NEW c \in Nat \ {0}
    PROVE  Divides(a, b, c)
  <1> DEFINE x == a \div b
             r == a % b
             y == x \div c
             s == x % c
  <1>1. x \in Nat /\ r \in 0..(b - 1) /\ a = b * x + r
    <2>0. a \in Int
      OBVIOUS
    <2>1. x \in Int /\ r \in 0..(b - 1) /\ a = b * x + r
      BY <2>0, RemainderIs, Zenon
    <2> HIDE DEF x, r
    <2>2. ~ (x < 0)
      <3> SUFFICES ASSUME x < 0 PROVE FALSE
        OBVIOUS
      <3>1. b * x \in Int /\ b * x + b <= b * 0
        BY <2>1, ProductGrows
      <3> QED BY <2>1, <3>1
    <2> QED BY <2>1, <2>2
  <1> HIDE DEF x, r
  <1>2. y \in Nat /\ s \in 0..(c - 1) /\ x = c * y + s
    <2>0. x \in Int
      BY <1>1
    <2>1. y \in Int /\ s \in 0..(c - 1) /\ x = c * y + s
      BY <2>0, RemainderIs, Zenon
    <2> HIDE DEF y, s
    <2>2. ~ (y < 0)
      <3> SUFFICES ASSUME y < 0 PROVE FALSE
        OBVIOUS
      <3>1. c * y \in Int /\ c * y + c <= c * 0
        BY <2>1, ProductGrows
      <3> QED BY <1>1, <2>1, <3>1
    <2> QED BY <2>1, <2>2
  <1> HIDE DEF y, s
  <1>3. b * c \in Nat \ {0} /\ b * s \in Nat /\ b * s + b <= b * c
    <2>1. b * c \in Nat \ {0}
      OBVIOUS
    <2>2. b * s \in Int /\ b * s + b <= b * c
      BY <1>2, ProductGrows
    <2>3. s \in Nat
      BY <1>2
    <2>4. \A i, j \in Nat : i * j \in Nat
      OBVIOUS
    <2> QED BY <2>1, <2>2, <2>3, <2>4
  <1>4. a = (b * c) * y + (b * s + r) /\ b * s + r \in 0..(b * c - 1)
    <2>1. \A d, e, f, g \in Nat : d * (e * f + g) = (d * e) * f + d * g
      OBVIOUS
    <2>2. b * (c * y + s) = (b * c) * y + b * s
      <3>1. b \in Nat /\ c \in Nat /\ s \in Nat
        BY <1>2
      <3> QED BY <1>2, <2>1, <3>1
    <2>3. (b * c) * y \in Nat
      <3>1. \A i, j \in Nat : i * j \in Nat
        OBVIOUS
      <3> QED BY <1>2, <1>3, <3>1
    <2> QED BY <1>1, <1>2, <1>3, <2>2, <2>3
  <1>5. a \div (b * c) = y /\ a % (b * c) = b * s + r
    <2> DEFINE bc == b * c
               t == b * s + r
    <2>1. bc \in Nat \ {0} /\ t \in 0..(bc - 1) /\ a = bc * y + t
      BY <1>3, <1>4
    <2> HIDE DEF bc, t
    <2>2. a \div bc = y /\ a % bc = t
      BY <1>2, <2>1, QuotientIs
    <2> QED BY <2>2 DEF bc, t
  <1>6. (b * s + r) \div b = s /\ (b * s + r) % b = r
    <2>1. s \in Nat
      BY <1>2
    <2> QED BY <1>1, <2>1, QuotientIs
  <1> QED BY <1>1, <1>3, <1>5, <1>6 DEF x, r, y, s, Divides

-----------------------------------------------------------------------------
(***************************************************************************)
(* Sequences: what they hold, and FlattenSeq.                              *)
(***************************************************************************)
Distinct(s) == \A i, j \in DOMAIN s : s[i] = s[j] => i = j

\* What the sequences of a sequence hold.
Elements(b) == UNION {ToSet(b[i]) : i \in DOMAIN b}

LEMMA ConcatSet ==
    ASSUME NEW E, NEW s \in Seq(E), NEW t \in Seq(E)
    PROVE  ToSet(s \o t) = ToSet(s) \cup ToSet(t)
  <1>1. \A i \in DOMAIN s : i \in DOMAIN (s \o t) /\ (s \o t)[i] = s[i]
    BY ConcatProperties
  <1>2. \A i \in DOMAIN t : Len(s) + i \in DOMAIN (s \o t) /\ (s \o t)[Len(s) + i] = t[i]
    BY ConcatProperties
  <1>3. \A i \in DOMAIN (s \o t) : \/ i \in DOMAIN s /\ (s \o t)[i] = s[i]
                                   \/ i - Len(s) \in DOMAIN t /\ (s \o t)[i] = t[i - Len(s)]
    BY ConcatProperties
  <1>4. ToSet(s \o t) \subseteq ToSet(s) \cup ToSet(t)
    BY <1>3 DEF ToSet
  <1>5. ToSet(s) \subseteq ToSet(s \o t)
    BY <1>1, Zenon DEF ToSet
  <1>6. ToSet(t) \subseteq ToSet(s \o t)
    BY <1>2, Zenon DEF ToSet
  <1> QED BY <1>4, <1>5, <1>6

LEMMA ConcatDistinct ==
    ASSUME NEW E, NEW s \in Seq(E), NEW t \in Seq(E), Distinct(s), Distinct(t),
           ToSet(s) \cap ToSet(t) = {}
    PROVE  Distinct(s \o t)
  <1>1. \A i \in DOMAIN (s \o t) : \/ i \in DOMAIN s /\ (s \o t)[i] = s[i]
                                   \/ i - Len(s) \in DOMAIN t /\ (s \o t)[i] = t[i - Len(s)]
    BY ConcatProperties
  <1>2. \A i \in DOMAIN s, j \in DOMAIN t : s[i] # t[j]
    BY DEF ToSet
  <1>3. \A i \in DOMAIN (s \o t) : i \in Nat /\ Len(s) \in Nat
    BY ConcatProperties
  <1> SUFFICES ASSUME NEW i \in DOMAIN (s \o t), NEW j \in DOMAIN (s \o t),
                      (s \o t)[i] = (s \o t)[j]
               PROVE  i = j
    BY DEF Distinct
  <1>4. CASE i \in DOMAIN s /\ (s \o t)[i] = s[i]
    BY <1>1, <1>2, <1>4 DEF Distinct
  <1>5. CASE i - Len(s) \in DOMAIN t /\ (s \o t)[i] = t[i - Len(s)]
    <2>1. j - Len(s) \in DOMAIN t /\ (s \o t)[j] = t[j - Len(s)]
      BY <1>1, <1>2, <1>5
    <2>2. i - Len(s) = j - Len(s)
      BY <1>5, <2>1 DEF Distinct
    <2> QED BY <1>3, <2>2
  <1> QED BY <1>1, <1>4, <1>5

\* A sequence without duplicates is as long as the set of what it holds.
LEMMA DistinctLen ==
    ASSUME NEW E, NEW s \in Seq(E)
    PROVE  /\ IsFiniteSet(ToSet(s)) /\ Cardinality(ToSet(s)) <= Len(s)
           /\ Distinct(s) => Cardinality(ToSet(s)) = Len(s)
  <1>1. s \in [1..Len(s) -> ToSet(s)] /\ Len(s) \in Nat
    BY LenProperties DEF ToSet
  <1>2. IsFiniteSet(1..Len(s)) /\ Cardinality(1..Len(s)) = Len(s)
    <2>1. 1 \in Int /\ Len(s) \in Int /\ (1 > Len(s) => Len(s) = 0)
      BY <1>1
    <2>2. IsFiniteSet(1..Len(s)) /\ Cardinality(1..Len(s)) = IF 1 > Len(s) THEN 0 ELSE Len(s) - 1 + 1
      BY <2>1, FS_Interval
    <2> QED BY <2>1, <2>2
  <1>3. s \in Surjection(1..Len(s), ToSet(s))
    <2>1. \A e \in ToSet(s) : \E i \in 1..Len(s) : s[i] = e
      BY <1>1 DEF ToSet
    <2> QED BY <1>1, <2>1 DEF Surjection
  <1>4. ASSUME Distinct(s) PROVE Cardinality(ToSet(s)) = Len(s)
    <2>1. s \in Injection(1..Len(s), ToSet(s))
      BY <1>1, <1>4 DEF Injection, IsInjective, Distinct
    <2>2. Cardinality(ToSet(s)) = Cardinality(1..Len(s)) <=> s \in Injection(1..Len(s), ToSet(s))
      BY <1>2, <1>3, FS_Surjection
    <2> QED BY <1>2, <2>1, <2>2
  <1>5. IsFiniteSet(ToSet(s)) /\ Cardinality(ToSet(s)) <= Cardinality(1..Len(s))
    BY <1>2, <1>3, FS_Surjection
  <1> QED BY <1>2, <1>4, <1>5

\* F gives what the first i sequences of b are together.
Concatenates(F, b) ==
    \A i \in 1..Len(b) : F[i] = IF i = 1 THEN b[i] ELSE F[i - 1] \o b[i]

LEMMA FlattenIs ==
    ASSUME NEW E, NEW b \in Seq(Seq(E)), b # <<>>
    PROVE  \E F \in [1..Len(b) -> Seq(E)] : FlattenSeq(b) = F[Len(b)] /\ Concatenates(F, b)
  <1> DEFINE n == Len(b)
             V == Seq(E)
             step == [p \in (1..n) \X V |-> p[2] \o b[p[1]]]
             flatten == CHOOSE f : f = [i \in 1..n |-> IF i = 1 THEN b[i] ELSE f[i - 1] \o b[i]]
  <1>1. n \in Nat \ {0} /\ \A i \in 1..n : b[i] \in V
    BY EmptySeq, LenProperties
  <1>2. \A s, t \in V : s \o t \in V
    BY ConcatProperties
  <1>3. step \in [(1..n) \X V -> V] /\ b[1] \in V /\ 1 \in Int /\ n \in Int
    <2> HIDE DEF n, V
    <2> QED BY <1>1, <1>2
  <1>4. PICK F \in [1..n -> V] : RecursiveOnInterval(F, 1, n, b[1], step)
    <2> HIDE DEF V, step, n
    <2> QED BY <1>3, IntervalRecursion
  <1>5. \A i \in 1..n : i # 1 => i - 1 \in 1..n /\ <<i, F[i - 1]>> \in (1..n) \X V
    <2> HIDE DEF V, step, n, flatten
    <2>1. \A i \in 1..n : i # 1 => i - 1 \in 1..n
      BY <1>1
    <2>2. \A i \in 1..n : F[i] \in V
      BY <1>4
    <2> QED BY <2>1, <2>2
  <1>6. F = [i \in 1..n |-> IF i = 1 THEN b[i] ELSE F[i - 1] \o b[i]]
    <2> HIDE DEF V, n
    <2> QED BY <1>4, <1>5 DEF RecursiveOnInterval
  <1>7. flatten = [i \in 1..n |-> IF i = 1 THEN b[i] ELSE flatten[i - 1] \o b[i]]
    BY <1>6, Zenon
  <1>8. FlattenSeq(b) = flatten[n]
    BY <1>1 DEF FlattenSeq
  <1> HIDE DEF flatten
  <1>9. \A i \in 1..n : flatten[i] \in V
    <2> DEFINE S == {i \in Nat : i + 1 <= n => flatten[i + 1] \in V}
    <2> HIDE DEF V, n
    <2>0. \A i \in 1..(n - 1) : flatten[i + 1] = flatten[i] \o b[i + 1]
      <3> TAKE i \in 1..(n - 1)
      <3>1. i + 1 \in 1..n /\ i + 1 # 1 /\ (i + 1) - 1 = i
        BY <1>1
      <3> QED BY <1>7, <3>1
    <2>1. 0 \in S
      BY <1>1, <1>7
    <2>2. ASSUME NEW i \in Nat, i \in S PROVE i + 1 \in S
      <3> SUFFICES ASSUME (i + 1) + 1 <= n PROVE flatten[(i + 1) + 1] \in V
        OBVIOUS
      <3>1. flatten[(i + 1) + 1] = flatten[i + 1] \o b[(i + 1) + 1]
        <4>1. i + 1 \in 1..(n - 1)
          BY <1>1
        <4> QED BY <2>0, <4>1
      <3>2. flatten[i + 1] \in V /\ b[(i + 1) + 1] \in V
        BY <1>1, <2>2
      <3> QED BY <1>2, <3>1, <3>2
    <2>3. Nat \subseteq S
      <3> HIDE DEF S
      <3> QED BY <2>1, <2>2, Induction
    <2>4. \A i \in 1..n : i - 1 \in S /\ (i - 1) + 1 = i
      <3> HIDE DEF S
      <3> QED BY <1>1, <2>3
    <2> QED BY <1>1, <2>4
  <1>10. flatten \in [1..n -> V]
    <2> HIDE DEF V, n
    <2> QED BY <1>7, <1>9
  <1>11. Concatenates(flatten, b)
    BY <1>7 DEF Concatenates
  <1> QED BY <1>8, <1>10, <1>11

LEMMA FlattenHolds ==
    ASSUME NEW E, NEW b \in Seq(Seq(E))
    PROVE  /\ FlattenSeq(b) \in Seq(E) /\ ToSet(FlattenSeq(b)) = Elements(b)
           /\ (/\ \A i \in DOMAIN b : Distinct(b[i])
               /\ \A i, j \in DOMAIN b : i # j => ToSet(b[i]) \cap ToSet(b[j]) = {})
                  => Distinct(FlattenSeq(b))
  <1>1. CASE b = <<>>
    <2>1. FlattenSeq(b) = <<>>
      BY <1>1 DEF FlattenSeq
    <2>2. ToSet(<<>>) = {} /\ Elements(<<>>) = {} /\ Distinct(<<>>) /\ <<>> \in Seq(E)
      BY DEF ToSet, Elements, Distinct
    <2> QED BY <1>1, <2>1, <2>2
  <1>2. CASE b # <<>>
    <2> DEFINE n == Len(b)
    <2>1. n \in Nat \ {0} /\ DOMAIN b = 1..n /\ \A i \in 1..n : b[i] \in Seq(E)
      BY <1>2, EmptySeq, LenProperties
    <2>2. PICK F \in [1..n -> Seq(E)] : FlattenSeq(b) = F[n] /\ Concatenates(F, b)
      BY <1>2, FlattenIs
    <2>10. \A i \in 1..n : F[i] = IF i = 1 THEN b[i] ELSE F[i - 1] \o b[i]
      BY <2>2 DEF Concatenates
    <2> HIDE DEF n
    <2>11. F[1] = b[1]
      BY <2>1, <2>10
    <2>12. \A i \in 1..(n - 1) : F[i + 1] = F[i] \o b[i + 1]
      <3> TAKE i \in 1..(n - 1)
      <3>1. i + 1 \in 1..n /\ i + 1 # 1 /\ (i + 1) - 1 = i
        BY <2>1
      <3> QED BY <2>10, <3>1
    <2>3. \A i \in Nat : (i + 1) + 1 <= n => F[(i + 1) + 1] = F[i + 1] \o b[(i + 1) + 1]
      <3> TAKE i \in Nat
      <3> HAVE (i + 1) + 1 <= n
      <3>1. i + 1 \in 1..(n - 1)
        BY <2>1
      <3> QED BY <2>12, <3>1
    <2> DEFINE Upto(i) == UNION {ToSet(b[j]) : j \in 1..i}
               S == {i \in Nat : i + 1 <= n => ToSet(F[i + 1]) = Upto(i + 1)}
    <2>4. 0 \in S
      <3>1. Upto(1) = ToSet(b[1])
        OBVIOUS
      <3> QED BY <2>11, <3>1
    <2>5. ASSUME NEW i \in Nat, i \in S PROVE i + 1 \in S
      <3> SUFFICES ASSUME (i + 1) + 1 <= n
                   PROVE  ToSet(F[(i + 1) + 1]) = Upto((i + 1) + 1)
        OBVIOUS
      <3>1. F[(i + 1) + 1] = F[i + 1] \o b[(i + 1) + 1]
        BY <2>1, <2>3
      <3>2. F[i + 1] \in Seq(E) /\ b[(i + 1) + 1] \in Seq(E)
        BY <2>1, <2>2
      <3>3. ToSet(F[(i + 1) + 1]) = ToSet(F[i + 1]) \cup ToSet(b[(i + 1) + 1])
        BY <3>1, <3>2, ConcatSet
      <3>4. 1..((i + 1) + 1) = 1..(i + 1) \cup {(i + 1) + 1}
        OBVIOUS
      <3>5. Upto((i + 1) + 1) = Upto(i + 1) \cup ToSet(b[(i + 1) + 1])
        BY <3>4, Zenon
      <3>6. ToSet(F[i + 1]) = Upto(i + 1)
        <4>1. i + 1 <= n
          BY <2>1
        <4> QED BY <2>5, <4>1
      <3> QED BY <3>3, <3>5, <3>6
    <2>6. Nat \subseteq S
      <3> HIDE DEF S
      <3> QED BY <2>4, <2>5, Induction
    <2>7. \A i \in 1..n : ToSet(F[i]) = Upto(i)
      <3> TAKE i \in 1..n
      <3>1. i - 1 \in Nat /\ (i - 1) + 1 = i /\ i <= n
        BY <2>1
      <3>2. i - 1 \in S
        <4> HIDE DEF S
        <4> QED BY <2>6, <3>1
      <3>3. ToSet(F[(i - 1) + 1]) = Upto((i - 1) + 1)
        BY <3>1, <3>2
      <3> QED BY <3>1, <3>3
    <2>8. ToSet(F[n]) = Elements(b)
      BY <2>1, <2>7 DEF Elements
    <2>9. ASSUME \A i \in DOMAIN b : Distinct(b[i]),
                 \A i, j \in DOMAIN b : i # j => ToSet(b[i]) \cap ToSet(b[j]) = {}
          PROVE  Distinct(F[n])
      <3> DEFINE R == {i \in Nat : i + 1 <= n => Distinct(F[i + 1])}
      <3>1. 0 \in R
        <4>1. Distinct(b[1])
          <5>1. 1 \in DOMAIN b
            BY <2>1
          <5> QED BY <2>9, <5>1, Zenon
        <4> QED BY <2>11, <4>1
      <3>2. ASSUME NEW i \in Nat, i \in R PROVE i + 1 \in R
        <4> SUFFICES ASSUME (i + 1) + 1 <= n PROVE Distinct(F[(i + 1) + 1])
          OBVIOUS
        <4>1. F[(i + 1) + 1] = F[i + 1] \o b[(i + 1) + 1]
          BY <2>1, <2>3
        <4>2. /\ F[i + 1] \in Seq(E) /\ b[(i + 1) + 1] \in Seq(E)
              /\ (i + 1) + 1 \in 1..n /\ i + 1 \in 1..n
          BY <2>1, <2>2
        <4>3. Distinct(F[i + 1]) /\ Distinct(b[(i + 1) + 1])
          <5>1. Distinct(b[(i + 1) + 1])
            BY <2>1, <2>9, <4>2, Zenon
          <5>2. i + 1 <= n
            BY <2>1
          <5> QED BY <3>2, <5>1, <5>2
        <4>4. \A j \in 1..(i + 1) : j \in 1..n /\ j # (i + 1) + 1
          BY <2>1, <4>2
        <4>5. ToSet(F[i + 1]) \cap ToSet(b[(i + 1) + 1]) = {}
          BY <2>1, <2>7, <2>9, <4>2, <4>4
        <4> QED BY <4>1, <4>2, <4>3, <4>5, ConcatDistinct
      <3>3. Nat \subseteq R
        <4> HIDE DEF R
        <4> QED BY <3>1, <3>2, Induction
      <3>4. n - 1 \in R /\ (n - 1) + 1 = n
        <4> HIDE DEF R
        <4> QED BY <2>1, <3>3
      <3> QED BY <2>1, <3>4
    <2> QED BY <2>1, <2>2, <2>8, <2>9
  <1> QED BY <1>1, <1>2

\* A set of positions that has all smaller ones is a prefix.
LEMMA PrefixOf ==
    ASSUME NEW n \in Nat, NEW D \in SUBSET (1..n),
           \A i, j \in 1..n : i <= j /\ j \in D => i \in D
    PROVE  Cardinality(D) \in 0..n /\ D = 1..Cardinality(D)
  <1>1. CASE D = {}
    <2>1. Cardinality(D) = 0 /\ 1..0 = {}
      BY <1>1, FS_EmptySet
    <2> QED BY <1>1, <2>1
  <1>2. CASE D # {}
    <2>1. Max(D) \in D /\ \A i \in D : i <= Max(D)
      BY <1>2, MaxIsIn
    <2>2. PICK m \in D : \A i \in D : i <= m
      BY <2>1
    <2>3. D = 1..m
      <3>1. \A i \in 1..m : i \in 1..n /\ i <= m /\ m \in 1..n
        BY <2>2
      <3>2. 1..m \subseteq D
        BY <2>2, <3>1
      <3>3. \A i \in D : i \in 1..m
        BY <2>2
      <3> QED BY <3>2, <3>3
    <2>4. m \in 1..n /\ 1 \in Int /\ m \in Int /\ ~ (1 > m)
      BY <2>2
    <2>5. Cardinality(1..m) = IF 1 > m THEN 0 ELSE m - 1 + 1
      BY <2>4, FS_Interval
    <2>6. Cardinality(1..m) = m
      BY <2>4, <2>5
    <2> QED BY <2>3, <2>4, <2>6
  <1> QED BY <1>1, <1>2

LEMMA InsertIs ==
    ASSUME NEW E, NEW s \in Seq(E), NEW p \in 1..(Len(s) + 1), NEW e \in E
    PROVE  /\ InsertAt(s, p, e) \in Seq(E) /\ Len(InsertAt(s, p, e)) = Len(s) + 1
           /\ \A i \in 1..(Len(s) + 1) :
                  InsertAt(s, p, e)[i] = IF i < p THEN s[i] ELSE IF i = p THEN e ELSE s[i - 1]
           /\ ToSet(InsertAt(s, p, e)) = ToSet(s) \cup {e}
  <1> DEFINE t == InsertAt(s, p, e)
             u == SubSeq(s, 1, p - 1)
             v == SubSeq(s, p, Len(s))
  <1>1. Len(s) \in Nat /\ p \in Nat \ {0} /\ DOMAIN s = 1..Len(s)
    BY LenProperties
  <1>2. u \in Seq(E) /\ Len(u) = p - 1 /\ \A i \in 1..(p - 1) : u[i] = s[i]
    BY <1>1, SubSeqProperties
  <1>3. v \in Seq(E) /\ Len(v) = Len(s) - p + 1 /\ \A i \in 1..(Len(s) - p + 1) : v[i] = s[p + i - 1]
    BY <1>1, SubSeqProperties
  <1>4. <<e>> \in Seq(E) /\ Len(<<e>>) = 1 /\ <<e>>[1] = e
    OBVIOUS
  <1>5. t = (u \o <<e>>) \o v
    BY DEF InsertAt
  <1> HIDE DEF t, u, v
  <1>6. /\ u \o <<e>> \in Seq(E) /\ Len(u \o <<e>>) = p
        /\ \A i \in 1..p : (u \o <<e>>)[i] = IF i < p THEN s[i] ELSE e
    <2>1. u \o <<e>> \in Seq(E) /\ Len(u \o <<e>>) = Len(u) + Len(<<e>>)
      BY <1>2, <1>4, ConcatProperties
    <2>2. \A i \in 1..(Len(u) + Len(<<e>>)) :
              (u \o <<e>>)[i] = IF i <= Len(u) THEN u[i] ELSE <<e>>[i - Len(u)]
      BY <1>2, <1>4, ConcatProperties
    <2>3. p = Len(u) + Len(<<e>>)
      BY <1>1, <1>2, <1>4
    <2>4. ASSUME NEW i \in 1..p PROVE (u \o <<e>>)[i] = IF i < p THEN s[i] ELSE e
      <3>1. CASE i < p
        <4>1. i \in 1..(Len(u) + Len(<<e>>)) /\ i <= Len(u) /\ i \in 1..(p - 1)
          BY <1>1, <1>2, <2>3, <3>1
        <4> QED BY <1>2, <2>2, <3>1, <4>1
      <3>2. CASE i = p
        <4>1. i \in 1..(Len(u) + Len(<<e>>)) /\ ~ (i <= Len(u)) /\ i - Len(u) = 1 /\ ~ (i < p)
          BY <1>1, <1>2, <2>3, <3>2
        <4> QED BY <1>4, <2>2, <4>1
      <3>3. i < p \/ i = p
        BY <1>1
      <3> QED BY <3>1, <3>2, <3>3
    <2> QED BY <2>1, <2>3, <2>4
  <1>7. t \in Seq(E) /\ Len(t) = Len(s) + 1
    <2>1. t \in Seq(E) /\ Len(t) = Len(u \o <<e>>) + Len(v)
      BY <1>3, <1>5, <1>6, ConcatProperties
    <2>2. Len(u \o <<e>>) + Len(v) = Len(s) + 1
      <3>1. Len(u \o <<e>>) = p /\ Len(v) = Len(s) - p + 1
        BY <1>3, <1>6
      <3>2. \A a, b \in Nat : b + (a - b + 1) = a + 1
        OBVIOUS
      <3> QED BY <1>1, <3>1, <3>2
    <2> QED BY <2>1, <2>2
  <1>8. ASSUME NEW i \in 1..(Len(s) + 1)
        PROVE  t[i] = IF i < p THEN s[i] ELSE IF i = p THEN e ELSE s[i - 1]
    <2>1. \A k \in 1..(Len(u \o <<e>>) + Len(v)) :
              t[k] = IF k <= Len(u \o <<e>>) THEN (u \o <<e>>)[k] ELSE v[k - Len(u \o <<e>>)]
      BY <1>3, <1>5, <1>6, ConcatProperties
    <2>2. i \in 1..(Len(u \o <<e>>) + Len(v))
      BY <1>1, <1>3, <1>6
    <2>3. CASE i <= p
      <3>1. i \in 1..p
        BY <2>3
      <3> QED BY <1>1, <1>6, <2>1, <2>2, <2>3, <3>1
    <2>4. CASE i > p
      <3>1. i - p \in 1..(Len(s) - p + 1) /\ p + (i - p) - 1 = i - 1
        BY <1>1, <2>4
      <3>2. v[i - p] = s[p + (i - p) - 1]
        BY <1>3, <3>1
      <3>3. t[i] = v[i - p]
        <4>1. Len(u \o <<e>>) = p /\ ~ (i <= p)
          BY <1>1, <1>6, <2>4
        <4> HIDE DEF t, u, v
        <4> QED BY <2>1, <2>2, <4>1
      <3>4. t[i] = s[i - 1]
        BY <3>1, <3>2, <3>3
      <3>5. ~ (i < p) /\ i # p
        BY <1>1, <2>4
      <3> QED BY <3>4, <3>5
    <2> QED BY <1>1, <2>3, <2>4
  <1>9. ToSet(t) = ToSet(s) \cup {e}
    <2>1. ToSet(u \o <<e>>) = ToSet(u) \cup ToSet(<<e>>) /\ ToSet(t) = ToSet(u \o <<e>>) \cup ToSet(v)
      BY <1>2, <1>3, <1>4, <1>5, <1>6, ConcatSet, ZenonT(40)
    <2>2. ToSet(<<e>>) = {e}
      BY DEF ToSet
    <2>3. ToSet(u) \cup ToSet(v) = ToSet(s)
      <3>1. DOMAIN u = 1..(p - 1) /\ DOMAIN v = 1..(Len(s) - p + 1)
        BY <1>2, <1>3, LenProperties
      <3>2. \A i \in 1..(p - 1) : i \in 1..Len(s)
        BY <1>1
      <3>3. \A i \in 1..(Len(s) - p + 1) : p + i - 1 \in 1..Len(s)
        BY <1>1
      <3>4. ToSet(u) \subseteq ToSet(s) /\ ToSet(v) \subseteq ToSet(s)
        BY <1>1, <1>2, <1>3, <3>1, <3>2, <3>3 DEF ToSet
      <3>5. ASSUME NEW i \in 1..Len(s) PROVE s[i] \in ToSet(u) \cup ToSet(v)
        <4>1. CASE i < p
          <5>1. i \in 1..(p - 1)
            BY <1>1, <4>1
          <5> QED BY <1>2, <3>1, <5>1 DEF ToSet
        <4>2. CASE i >= p
          <5>1. i - p + 1 \in 1..(Len(s) - p + 1) /\ p + (i - p + 1) - 1 = i
            BY <1>1, <4>2
          <5>2. v[i - p + 1] = s[i]
            BY <1>3, <5>1
          <5> QED BY <3>1, <5>1, <5>2 DEF ToSet
        <4> QED BY <1>1, <4>1, <4>2
      <3>6. ToSet(s) \subseteq ToSet(u) \cup ToSet(v)
        BY <1>1, <3>5 DEF ToSet
      <3> QED BY <3>4, <3>6
    <2> QED BY <2>1, <2>2, <2>3
  <1> QED BY <1>7, <1>8, <1>9 DEF t

LEMMA RemoveIs ==
    ASSUME NEW E, NEW s \in Seq(E), NEW p \in 1..Len(s)
    PROVE  /\ RemoveAt(s, p) \in Seq(E) /\ Len(RemoveAt(s, p)) = Len(s) - 1
           /\ \A i \in 1..(Len(s) - 1) :
                  RemoveAt(s, p)[i] = IF i < p THEN s[i] ELSE s[i + 1]
           /\ Distinct(s) => ToSet(RemoveAt(s, p)) = ToSet(s) \ {s[p]}
  <1> DEFINE t == RemoveAt(s, p)
             u == SubSeq(s, 1, p - 1)
             v == SubSeq(s, p + 1, Len(s))
  <1>1. Len(s) \in Nat \ {0} /\ p \in Nat \ {0} /\ DOMAIN s = 1..Len(s)
    BY LenProperties
  <1>2. u \in Seq(E) /\ Len(u) = p - 1 /\ \A i \in 1..(p - 1) : u[i] = s[i]
    <2>1. 1 \in Int /\ p - 1 \in Int /\ \A i \in 1..(p - 1) : s[i] \in E
      BY <1>1, LenProperties
    <2>2. /\ u \in Seq(E) /\ Len(u) = IF 1 <= p - 1 THEN (p - 1) - 1 + 1 ELSE 0
          /\ \A i \in 1..((p - 1) - 1 + 1) : u[i] = s[1 + i - 1]
      <3> HIDE DEF t, v
      <3> QED BY <2>1, SubSeqProperties
    <2> HIDE DEF u
    <2>3. (p - 1) - 1 + 1 = p - 1 /\ (1 <= p - 1 \/ p - 1 = 0) /\ \A i \in 1..(p - 1) : 1 + i - 1 = i
      BY <1>1
    <2> QED BY <1>1, <2>2, <2>3
  <1>3. v \in Seq(E) /\ Len(v) = Len(s) - p /\ \A i \in 1..(Len(s) - p) : v[i] = s[(p + 1) + i - 1]
    <2>1. p + 1 \in Int /\ Len(s) \in Int /\ \A i \in (p + 1)..Len(s) : s[i] \in E
      BY <1>1
    <2>2. /\ v \in Seq(E) /\ Len(v) = IF p + 1 <= Len(s) THEN Len(s) - (p + 1) + 1 ELSE 0
          /\ \A i \in 1..(Len(s) - (p + 1) + 1) : v[i] = s[(p + 1) + i - 1]
      <3> HIDE DEF t, u
      <3> QED BY <2>1, SubSeqProperties
    <2>3. Len(s) - (p + 1) + 1 = Len(s) - p /\ (~ (p + 1 <= Len(s)) => Len(s) - p = 0)
      <3>1. \A a, b \in Nat : b <= a => a - (b + 1) + 1 = a - b /\ (~ (b + 1 <= a) => a - b = 0)
        OBVIOUS
      <3>2. Len(s) \in Nat /\ p \in Nat /\ p <= Len(s)
        BY <1>1
      <3> QED BY <3>1, <3>2
    <2> HIDE DEF t, u, v
    <2> QED BY <2>2, <2>3, Zenon
  <1>4. t = u \o v
    BY DEF RemoveAt
  <1> HIDE DEF t, u, v
  <1>5. t \in Seq(E) /\ Len(t) = Len(s) - 1
    <2>1. t \in Seq(E) /\ Len(t) = Len(u) + Len(v)
      BY <1>2, <1>3, <1>4, ConcatProperties
    <2> QED BY <1>1, <1>2, <1>3, <2>1
  <1>6. ASSUME NEW i \in 1..(Len(s) - 1) PROVE t[i] = IF i < p THEN s[i] ELSE s[i + 1]
    <2>1. \A k \in 1..(Len(u) + Len(v)) : t[k] = IF k <= Len(u) THEN u[k] ELSE v[k - Len(u)]
      BY <1>2, <1>3, <1>4, ConcatProperties
    <2>2. i \in 1..(Len(u) + Len(v))
      BY <1>1, <1>2, <1>3
    <2>3. CASE i < p
      <3>1. i \in 1..(p - 1) /\ i <= Len(u)
        BY <1>1, <1>2, <2>3
      <3> QED BY <1>2, <2>1, <2>2, <2>3, <3>1
    <2>4. CASE i >= p
      <3>1. i - Len(u) \in 1..(Len(s) - p) /\ (p + 1) + (i - Len(u)) - 1 = i + 1 /\ ~ (i <= Len(u))
        BY <1>1, <1>2, <2>4
      <3>2. v[i - Len(u)] = s[i + 1]
        BY <1>3, <3>1
      <3> QED BY <1>1, <2>1, <2>2, <2>4, <3>1, <3>2
    <2> QED BY <1>1, <2>3, <2>4
  <1>7. ASSUME Distinct(s) PROVE ToSet(t) = ToSet(s) \ {s[p]}
    <2>1. DOMAIN t = 1..(Len(s) - 1)
      BY <1>5, LenProperties
    <2>2. ASSUME NEW i \in 1..(Len(s) - 1) PROVE t[i] \in ToSet(s) \ {s[p]}
      <3>1. i \in 1..Len(s) /\ i + 1 \in 1..Len(s) /\ (i < p => i # p) /\ (~ (i < p) => i + 1 # p)
        BY <1>1
      <3>2. s[i] \in ToSet(s) /\ s[i + 1] \in ToSet(s)
        BY <1>1, <3>1 DEF ToSet
      <3>3. (i < p => s[i] # s[p]) /\ (~ (i < p) => s[i + 1] # s[p])
        BY <1>1, <1>7, <3>1 DEF Distinct
      <3> QED BY <1>6, <3>2, <3>3
    <2>3. ASSUME NEW i \in 1..Len(s), s[i] # s[p] PROVE s[i] \in ToSet(t)
      <3>1. CASE i < p
        <4>1. i \in 1..(Len(s) - 1)
          BY <1>1, <3>1
        <4> QED BY <1>6, <2>1, <3>1, <4>1 DEF ToSet
      <3>2. CASE i > p
        <4>1. i - 1 \in 1..(Len(s) - 1) /\ ~ (i - 1 < p) /\ (i - 1) + 1 = i
          BY <1>1, <3>2
        <4>2. t[i - 1] = s[i]
          BY <1>6, <4>1
        <4> QED BY <2>1, <4>1, <4>2 DEF ToSet
      <3> QED BY <1>1, <2>3, <3>1, <3>2
    <2>4. ToSet(t) \subseteq ToSet(s) \ {s[p]}
      BY <2>1, <2>2 DEF ToSet
    <2>5. ToSet(s) \ {s[p]} \subseteq ToSet(t)
      BY <1>1, <2>3 DEF ToSet
    <2> QED BY <2>4, <2>5
  <1> QED BY <1>5, <1>6, <1>7 DEF t
-----------------------------------------------------------------------------
(***************************************************************************)
(* Sums: SumFunctionOnSet takes the elements in an order of its own.       *)
(***************************************************************************)
Some(s) == CHOOSE x \in s : TRUE

\* F has the sums of fun over the subsets of T.
SumsUp(F, fun, T) ==
    \A s \in SUBSET T : F[s] = IF s = {} THEN 0 ELSE fun[Some(s)] + F[s \ {Some(s)}]

LEMMA SomeIsIn == ASSUME NEW s, s # {} PROVE Some(s) \in s
  BY DEF Some

\* The equation has one solution.
LEMMA SumsAgree ==
    ASSUME NEW T, IsFiniteSet(T), NEW fun, NEW F, NEW G, SumsUp(F, fun, T), SumsUp(G, fun, T)
    PROVE  \A s \in SUBSET T : F[s] = G[s]
  <1> DEFINE size == [s \in SUBSET T |-> Cardinality(s)]
             S == {s \in SUBSET T : F[s] = G[s]}
  <1>1. size \in [SUBSET T -> Nat]
    BY FS_Subset, FS_CardinalityType
  <1>2. ASSUME NEW s \in SUBSET T, \A r \in SUBSET T : size[r] < size[s] => r \in S
        PROVE  s \in S
    <2>1. CASE s = {}
      BY <2>1 DEF SumsUp
    <2>2. CASE s # {}
      <3> DEFINE r == s \ {Some(s)}
      <3>1. Some(s) \in s /\ r \in SUBSET T
        BY <2>2, SomeIsIn
      <3>2. size[r] < size[s]
        <4>1. IsFiniteSet(s) /\ Cardinality(s) \in Nat
          BY FS_Subset, FS_CardinalityType
        <4>2. Cardinality(r) = Cardinality(s) - 1
          BY <3>1, <4>1, FS_RemoveElement
        <4> QED BY <3>1, <4>1, <4>2
      <3>3. F[r] = G[r]
        BY <1>2, <3>1, <3>2
      <3> QED BY <2>2, <3>3 DEF SumsUp
    <2> QED BY <2>1, <2>2
  <1>3. SUBSET T \subseteq S
    <2> HIDE DEF size, S
    <2> QED BY <1>1, <1>2, InductionBySize
  <1> QED BY <1>3

\* The sum over T is that of such a solution.
LEMMA SumFollows ==
    ASSUME NEW T, IsFiniteSet(T), NEW fun, \A x \in T : fun[x] \in Nat
    PROVE  \E F \in [SUBSET T -> Nat] : SumsUp(F, fun, T) /\ F[T] = SumFunctionOnSet(fun, T)
  <1> DEFINE step == [pair \in T \X Nat |-> fun[pair[1]] + pair[2]]
             chosen == [s \in SUBSET T |-> Some(s)]
             F == CHOOSE f : f = [s \in SUBSET T |->
                                     IF s = {} THEN 0 ELSE fun[Some(s)] + f[s \ {Some(s)}]]
  <1>1. SumFunctionOnSet(fun, T) = F[T]
    BY DEF SumFunctionOnSet, FoldFunctionOnSet, MapThenFoldSet, Some
  <1>2. step \in [T \X Nat -> Nat] /\ \A s \in SUBSET T : s # {} => chosen[s] \in s
    BY SomeIsIn
  <1>3. PICK G \in [SUBSET T -> Nat] : RecursiveOnSubsets(G, T, chosen, 0, step)
    <2> HIDE DEF step, chosen
    <2> QED BY <1>2, SubsetRecursion
  <1>4. SumsUp(G, fun, T)
    <2> SUFFICES ASSUME NEW s \in SUBSET T, s # {}
                 PROVE  G[s] = fun[Some(s)] + G[s \ {Some(s)}]
      BY <1>3 DEF SumsUp, RecursiveOnSubsets
    <2>1. G[s] = step[<<Some(s), G[s \ {Some(s)}]>>]
      BY <1>3 DEF RecursiveOnSubsets
    <2>2. <<Some(s), G[s \ {Some(s)}]>> \in T \X Nat
      BY <1>3, SomeIsIn
    <2> QED BY <2>1, <2>2
  <1>5. G = [s \in SUBSET T |-> IF s = {} THEN 0 ELSE fun[Some(s)] + G[s \ {Some(s)}]]
    BY <1>3, <1>4 DEF SumsUp
  <1>6. F = [s \in SUBSET T |-> IF s = {} THEN 0 ELSE fun[Some(s)] + F[s \ {Some(s)}]]
    BY <1>5, Zenon
  <1> HIDE DEF F
  <1>7. SumsUp(F, fun, T)
    BY <1>6 DEF SumsUp
  <1>8. F[T] = G[T]
    BY <1>4, <1>7, SumsAgree
  <1> QED BY <1>1, <1>3, <1>4, <1>8

\* Any element may be taken first.
AnyFirst(F, fun, T) == \A s \in SUBSET T : \A x \in s : F[s] = fun[x] + F[s \ {x}]

LEMMA SumWithout ==
    ASSUME NEW T, IsFiniteSet(T), NEW fun, \A x \in T : fun[x] \in Nat,
           NEW F, F \in [SUBSET T -> Nat], SumsUp(F, fun, T)
    PROVE  AnyFirst(F, fun, T)
  <1> DEFINE size == [s \in SUBSET T |-> Cardinality(s)]
             S == {s \in SUBSET T : \A x \in s : F[s] = fun[x] + F[s \ {x}]}
  <1>1. size \in [SUBSET T -> Nat]
    BY FS_Subset, FS_CardinalityType
  <1>2. \A s \in SUBSET T : \A x \in s : s \ {x} \in SUBSET T /\ size[s \ {x}] < size[s]
    <2> TAKE s \in SUBSET T
    <2> TAKE x \in s
    <2>1. IsFiniteSet(s) /\ Cardinality(s) \in Nat
      BY FS_Subset, FS_CardinalityType
    <2>2. Cardinality(s \ {x}) = Cardinality(s) - 1
      BY <2>1, FS_RemoveElement
    <2> QED BY <2>1, <2>2
  <1>3. ASSUME NEW s \in SUBSET T, \A r \in SUBSET T : size[r] < size[s] => r \in S
        PROVE  s \in S
    <2> SUFFICES ASSUME NEW x \in s PROVE F[s] = fun[x] + F[s \ {x}]
      OBVIOUS
    <2> DEFINE c == Some(s)
    <2>1. c \in s /\ F[s] = fun[c] + F[s \ {c}]
      BY SomeIsIn DEF SumsUp
    <2> HIDE DEF c
    <2>2. CASE c # x
      <3>1. F[s \ {c}] = fun[x] + F[(s \ {c}) \ {x}]
        BY <1>2, <1>3, <2>1, <2>2
      <3>2. F[s \ {x}] = fun[c] + F[(s \ {x}) \ {c}]
        BY <1>2, <1>3, <2>1, <2>2
      <3>3. (s \ {c}) \ {x} = (s \ {x}) \ {c} /\ (s \ {x}) \ {c} \in SUBSET T
        OBVIOUS
      <3>4. fun[c] \in Nat /\ fun[x] \in Nat /\ F[(s \ {x}) \ {c}] \in Nat
        BY <2>1, <3>3
      <3>5. \A a, b, d \in Nat : a + (b + d) = b + (a + d)
        OBVIOUS
      <3>6. F[s] = fun[c] + (fun[x] + F[(s \ {x}) \ {c}])
        BY <2>1, <3>1, <3>3
      <3>7. F[s] = fun[x] + (fun[c] + F[(s \ {x}) \ {c}])
        BY <3>4, <3>5, <3>6
      <3> QED BY <3>2, <3>7
    <2> QED BY <2>1, <2>2
  <1>4. SUBSET T \subseteq S
    <2> HIDE DEF size, S
    <2> QED BY <1>1, <1>3, InductionBySize
  <1> QED BY <1>4 DEF AnyFirst

\* What a solution for a set says of its parts.
LEMMA SumOfPart ==
    ASSUME NEW T, IsFiniteSet(T), NEW fun, NEW F \in [SUBSET T -> Nat], SumsUp(F, fun, T),
           \A x \in T : fun[x] \in Nat, NEW s \in SUBSET T
    PROVE  SumFunctionOnSet(fun, s) = F[s]
  <1>1. IsFiniteSet(s)
    BY FS_Subset
  <1>2. PICK G \in [SUBSET s -> Nat] : SumsUp(G, fun, s) /\ G[s] = SumFunctionOnSet(fun, s)
    BY <1>1, SumFollows
  <1>3. SumsUp(F, fun, s)
    BY DEF SumsUp
  <1>4. F[s] = G[s]
    BY <1>1, <1>2, <1>3, SumsAgree
  <1> QED BY <1>2, <1>4

\* The sum over no element, and over one more.
LEMMA SumIs ==
    ASSUME NEW T, IsFiniteSet(T), NEW fun, \A x \in T : fun[x] \in Nat
    PROVE  /\ SumFunctionOnSet(fun, {}) = 0
           /\ SumFunctionOnSet(fun, T) \in Nat
           /\ \A x \in T : SumFunctionOnSet(fun, T) = fun[x] + SumFunctionOnSet(fun, T \ {x})
  <1>1. PICK F \in [SUBSET T -> Nat] : SumsUp(F, fun, T) /\ F[T] = SumFunctionOnSet(fun, T)
    BY SumFollows
  <1>2. \A s \in SUBSET T : SumFunctionOnSet(fun, s) = F[s]
    BY <1>1, SumOfPart
  <1>3. F[{}] = 0
    BY <1>1 DEF SumsUp
  <1>4. \A x \in T : F[T] = fun[x] + F[T \ {x}]
    <2>1. AnyFirst(F, fun, T)
      BY <1>1, SumWithout
    <2> QED BY <2>1 DEF AnyFirst
  <1> QED BY <1>1, <1>2, <1>3, <1>4
=============================================================================
