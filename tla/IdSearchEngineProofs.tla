--------------------------- MODULE IdSearchEngineProofs ---------------------------
(***************************************************************************)
(* Proofs about SnowflakeIdSearchEngine: the buckets are sound after every *)
(* call, and the calls answer what those of a set of ids would.            *)
(***************************************************************************)
EXTENDS IdSearchEngine, SequenceTheorems, FoldLemmas

-----------------------------------------------------------------------------
(***************************************************************************)
(* Powers, digits and the index of a bucket.                               *)
(***************************************************************************)

LEMMA PowerIs ==
    /\ Power \in [0..(MaxDigits + T) -> Nat \ {0}]
    /\ Power[0] = 1
    /\ \A k \in 0..(MaxDigits + T - 1) : Power[k + 1] = Base * Power[k]
  <1> DEFINE V == Nat \ {0}
             step == [p \in Nat \X V |-> Base * p[2]]
             power == CHOOSE f : f = [k \in Nat |-> IF k = 0 THEN 1 ELSE Base * f[k - 1]]
  <1>1. MaxDigits \in Nat /\ T \in Nat /\ Base \in Nat \ {0}
    BY IdAssumption
  <1>2. \A a, b \in V : a * b \in V
    OBVIOUS
  <1>3. step \in [Nat \X V -> V] /\ 1 \in V
    BY <1>1, <1>2
  <1>4. PICK F \in [Nat -> V] : RecursiveOnNat(F, 1, step)
    <2> HIDE DEF V, step
    <2> QED BY <1>3, NatRecursion
  <1>5. \A n \in Nat : n # 0 => <<n, F[n - 1]>> \in Nat \X V
    BY <1>4
  <1>6. F = [k \in Nat |-> IF k = 0 THEN 1 ELSE Base * F[k - 1]]
    <2> HIDE DEF V
    <2> QED BY <1>4, <1>5 DEF RecursiveOnNat
  <1>7. power = [k \in Nat |-> IF k = 0 THEN 1 ELSE Base * power[k - 1]]
    BY <1>6, Zenon
  <1>8. Power = [k \in 0..(MaxDigits + T) |-> power[k]]
    BY DEF Power
  <1>9. \A k \in Nat : power[k] \in V
    <2> DEFINE S == {k \in Nat : power[k] \in V}
    <2> HIDE DEF power
    <2>1. 0 \in S
      BY <1>7
    <2>2. ASSUME NEW k \in Nat, k \in S PROVE k + 1 \in S
      <3>1. power[k + 1] = Base * power[k]
        BY <1>7
      <3> QED BY <1>1, <1>2, <2>2, <3>1
    <2> HIDE DEF S
    <2>3. Nat \subseteq S
      BY <2>1, <2>2, Induction
    <2> QED BY <2>3 DEF S
  <1> HIDE DEF power
  <1>10. \A k \in Nat : power[k + 1] = Base * power[k]
    BY <1>7
  <1>11. power[0] = 1
    BY <1>7
  <1>12. \A k \in 0..(MaxDigits + T - 1) :
            k \in Nat /\ k \in 0..(MaxDigits + T) /\ k + 1 \in 0..(MaxDigits + T)
    BY <1>1
  <1>13. 0 \in 0..(MaxDigits + T) /\ \A k \in 0..(MaxDigits + T) : k \in Nat
    BY <1>1
  <1> QED BY <1>8, <1>9, <1>10, <1>11, <1>12, <1>13

LEMMA PowerGrows ==
    ASSUME NEW i \in 0..(MaxDigits + T), NEW j \in 0..(MaxDigits + T), i <= j
    PROVE  Power[i] <= Power[j] /\ (i < j => Power[i] < Power[j])
  <1> DEFINE S == {n \in Nat : i + n <= MaxDigits + T =>
                        Power[i] <= Power[i + n] /\ (n # 0 => Power[i] < Power[i + n])}
  <1>0. MaxDigits \in Nat /\ T \in Nat /\ Base \in Nat \ {0, 1}
    BY IdAssumption
  <1>1. 0 \in S
    BY <1>0, PowerIs
  <1>2. ASSUME NEW n \in Nat, n \in S PROVE n + 1 \in S
    <2> SUFFICES ASSUME i + (n + 1) <= MaxDigits + T
                 PROVE  Power[i] <= Power[i + (n + 1)] /\ Power[i] < Power[i + (n + 1)]
      OBVIOUS
    <2>1. i + n \in 0..(MaxDigits + T - 1) /\ i + (n + 1) = (i + n) + 1
      BY <1>0
    <2>2. Power[(i + n) + 1] = Base * Power[i + n]
      BY <2>1, PowerIs
    <2>3. Power[i] \in Nat \ {0} /\ Power[i + n] \in Nat \ {0} /\ Power[i] <= Power[i + n]
      BY <1>0, <1>2, <2>1, PowerIs
    <2>4. \A p \in Nat \ {0} : p < Base * p
      BY <1>0
    <2>5. Power[i + n] < Power[(i + n) + 1] /\ Power[(i + n) + 1] \in Nat
      BY <1>0, <2>1, <2>2, <2>3, <2>4
    <2> QED BY <2>1, <2>3, <2>5
  <1>3. Nat \subseteq S
    <2> HIDE DEF S
    <2> QED BY <1>1, <1>2, Induction
  <1>4. j - i \in S /\ i + (j - i) = j
    <2> HIDE DEF S
    <2> QED BY <1>0, <1>3
  <1> QED BY <1>0, <1>4

LEMMA PowerSum ==
    ASSUME NEW i \in Nat, NEW j \in Nat, i + j <= MaxDigits + T
    PROVE  Power[i + j] = Power[i] * Power[j]
  <1> DEFINE S == {n \in Nat : i + n <= MaxDigits + T => Power[i + n] = Power[i] * Power[n]}
  <1>0. MaxDigits \in Nat /\ T \in Nat /\ Base \in Nat \ {0, 1}
    BY IdAssumption
  <1>1. 0 \in S
    <2>1. i \in 0..(MaxDigits + T) /\ Power[i] \in Nat /\ Power[0] = 1
      BY <1>0, PowerIs
    <2> QED BY <2>1
  <1>2. ASSUME NEW n \in Nat, n \in S PROVE n + 1 \in S
    <2> SUFFICES ASSUME i + (n + 1) <= MaxDigits + T
                 PROVE  Power[i + (n + 1)] = Power[i] * Power[n + 1]
      OBVIOUS
    <2>1. /\ i + n \in 0..(MaxDigits + T - 1) /\ n \in 0..(MaxDigits + T - 1)
          /\ i \in 0..(MaxDigits + T) /\ i + (n + 1) = (i + n) + 1
      BY <1>0
    <2>2. Power[(i + n) + 1] = Base * Power[i + n] /\ Power[n + 1] = Base * Power[n]
      BY <2>1, PowerIs
    <2>3. Power[i] \in Nat /\ Power[n] \in Nat
      BY <1>0, <2>1, PowerIs
    <2>4. Power[i + n] = Power[i] * Power[n]
      <3>1. i + n <= MaxDigits + T
        BY <1>0
      <3> QED BY <1>2, <3>1
    <2>5. \A a, b, c \in Nat : a * (b * c) = b * (a * c)
      OBVIOUS
    <2>6. Base * (Power[i] * Power[n]) = Power[i] * (Base * Power[n])
      BY <1>0, <2>3, <2>5
    <2> QED BY <2>1, <2>2, <2>4, <2>6
  <1>3. Nat \subseteq S
    <2> HIDE DEF S
    <2> QED BY <1>1, <1>2, Induction
  <1> QED BY <1>3

\* A number has more than k digits exactly when it is as large as Power[k].
LEMMA DigitsOf ==
    ASSUME NEW n \in Nat
    PROVE  /\ base10_len(n) \in 0..MaxDigits
           /\ \A k \in 0..(MaxDigits - 1) : Power[k] <= n <=> k < base10_len(n)
  <1> DEFINE D == {k \in 0..(MaxDigits - 1) : Power[k] <= n}
             E == {k + 1 : k \in D}
  <1>0. MaxDigits \in Nat /\ T \in Nat
    BY IdAssumption
  <1>1. \A i, j \in 0..(MaxDigits - 1) : i <= j /\ j \in D => i \in D
    <2> TAKE i, j \in 0..(MaxDigits - 1)
    <2> HAVE i <= j /\ j \in D
    <2>1. i \in 0..(MaxDigits + T) /\ j \in 0..(MaxDigits + T)
      BY <1>0
    <2>2. Power[i] <= Power[j] /\ Power[i] \in Nat /\ Power[j] \in Nat
      BY <2>1, PowerGrows, PowerIs
    <2> QED BY <2>2
  <1>2. CASE D = {}
    <2>1. base10_len(n) = 0
      BY <1>2, FS_EmptySet DEF base10_len
    <2>2. \A k \in 0..(MaxDigits - 1) : ~ (Power[k] <= n)
      BY <1>2
    <2> QED BY <1>0, <2>1, <2>2
  <1>3. CASE D # {}
    <2>1. E \in SUBSET (1..MaxDigits) /\ E # {}
      BY <1>0, <1>3
    <2>2. Max(E) \in E /\ \A e \in E : e <= Max(E)
      <3> HIDE DEF E
      <3> QED BY <1>0, <2>1, MaxIsIn
    <2> DEFINE m == Max(E)
    <2>3. PICK d \in D : m = d + 1
      BY <2>2
    <2>4. D = 0..d
      <3>1. \A k \in D : k <= d
        <4> TAKE k \in D
        <4>1. k + 1 \in E
          OBVIOUS
        <4> QED BY <2>2, <2>3, <4>1
      <3> QED BY <1>0, <1>1, <2>3, <3>1
    <2>5. Cardinality(D) = d + 1
      <3>1. 0 \in Int /\ d \in Int /\ 0 <= d
        BY <1>0, <2>3
      <3>2. Cardinality(0..d) = d - 0 + 1
        BY <3>1, FS_Interval
      <3>3. Cardinality(0..d) = d + 1
        BY <3>1, <3>2
      <3> QED BY <2>4, <3>3, Zenon
    <2>6. base10_len(n) = d + 1 /\ d \in 0..(MaxDigits - 1)
      BY <2>3, <2>5 DEF base10_len
    <2>7. \A k \in 0..(MaxDigits - 1) : Power[k] <= n <=> k <= d
      BY <2>4
    <2> QED BY <1>0, <2>6, <2>7
  <1> QED BY <1>2, <1>3

\* Every id has a bucket.
LEMMA IdIndexInRange ==
    ASSUME NEW n \in Nat \ {0}, NEW id \in Ids
    PROVE  IdIndex(n, id) \in 1..n
  <1>0. /\ MaxDigits \in Nat /\ T \in Nat /\ MinDigits \in Nat
        /\ 2 * T < MinDigits /\ MinDigits <= MaxDigits
        /\ id \in Power[MinDigits - 1]..(Power[MaxDigits] - 1)
    BY IdAssumption
  <1> DEFINE kept == id \div Power[T]
             k == MinDigits - 1 - T
  <1>1. /\ T \in 0..(MaxDigits + T) /\ k \in 0..(MaxDigits + T) /\ k \in 0..(MaxDigits - 1)
        /\ MinDigits - 1 = T + k /\ T <= k
        /\ MinDigits - 1 \in 0..(MaxDigits + T) /\ MaxDigits \in 0..(MaxDigits + T)
    BY <1>0
  <1>2. /\ Power[T] \in Nat \ {0} /\ Power[k] \in Nat \ {0} /\ id \in Nat
        /\ Power[MinDigits - 1] <= id /\ Power[MinDigits - 1] = Power[T] * Power[k]
    <2>1. T + k <= MaxDigits + T /\ T \in Nat /\ k \in Nat
      BY <1>0, <1>1
    <2>2. Power[T + k] = Power[T] * Power[k]
      <3> HIDE DEF k
      <3> QED BY <2>1, PowerSum
    <2>3. /\ Power[T] \in Nat \ {0} /\ Power[k] \in Nat \ {0}
          /\ Power[MinDigits - 1] \in Nat /\ Power[MaxDigits] \in Nat
      <3> HIDE DEF k
      <3> QED BY <1>1, PowerIs
    <2>4. id \in Power[MinDigits - 1]..(Power[MaxDigits] - 1)
      BY <1>0
    <2> QED BY <1>1, <2>2, <2>3, <2>4
  <1>3. kept \in Nat /\ Power[k] <= kept
    <2>1. \A a, q \in Nat, b \in Nat \ {0} : b * q <= a => a \div b \in Nat /\ q <= a \div b
      OBVIOUS
    <2>2. Power[T] * Power[k] <= id
      BY <1>2
    <2> HIDE DEF k
    <2> QED BY <1>2, <2>1, <2>2
  <1>4. base10_len(kept) - T \in 0..(MaxDigits + T)
    <2> HIDE DEF k, kept
    <2>1. k < base10_len(kept) /\ base10_len(kept) \in 0..MaxDigits
      BY <1>1, <1>3, DigitsOf
    <2> QED BY <1>0, <1>1, <2>1
  <1> DEFINE rest == kept % Power[base10_len(kept) - T]
  <1>5. rest \in Nat
    <2>1. \A a \in Nat, b \in Nat \ {0} : a % b \in Nat
      OBVIOUS
    <2> HIDE DEF kept
    <2>2. Power[base10_len(kept) - T] \in Nat \ {0}
      BY <1>4, PowerIs
    <2> QED BY <1>3, <2>1, <2>2
  <1>6. (rest % n) + 1 \in 1..n
    <2> HIDE DEF rest
    <2> QED BY <1>5
  <1> QED BY <1>6 DEF IdIndex

\* Ids are numbers.
LEMMA IdsAreNumbers == Ids \subseteq Nat
  <1>1. /\ MaxDigits \in Nat /\ T \in Nat /\ MinDigits \in Nat
        /\ 2 * T < MinDigits /\ MinDigits <= MaxDigits
        /\ \A id \in Ids : id \in Power[MinDigits - 1]..(Power[MaxDigits] - 1)
    BY IdAssumption
  <1>2. MinDigits - 1 \in 0..(MaxDigits + T) /\ MaxDigits \in 0..(MaxDigits + T)
    BY <1>1
  <1>3. Power[MinDigits - 1] \in Nat /\ Power[MaxDigits] \in Nat
    BY <1>2, PowerIs
  <1> QED BY <1>1, <1>3
-----------------------------------------------------------------------------
(***************************************************************************)
(* Digits.                                                                 *)
(***************************************************************************)

\* Cutting off i digits on the right, and keeping j of the others.
Cuts(n, i, j) ==
    /\ Power[i] \in Nat \ {0} /\ Power[j] \in Nat \ {0} /\ Power[i + j] \in Nat \ {0}
    /\ n \div Power[i] \in Nat /\ n % Power[i] \in 0..(Power[i] - 1)
    /\ n \div Power[i + j] = (n \div Power[i]) \div Power[j]
    /\ (n % Power[i + j]) \div Power[i] = (n \div Power[i]) % Power[j]
    /\ (n % Power[i + j]) % Power[i] = n % Power[i]

LEMMA CutIs ==
    ASSUME NEW n \in Nat, NEW i \in Nat, NEW j \in Nat, i + j <= MaxDigits + T
    PROVE  Cuts(n, i, j)
  <1>1. MaxDigits \in Nat /\ T \in Nat
    BY IdAssumption
  <1>2. i \in 0..(MaxDigits + T) /\ j \in 0..(MaxDigits + T) /\ i + j \in 0..(MaxDigits + T)
    BY <1>1
  <1>3. Power[i] \in Nat \ {0} /\ Power[j] \in Nat \ {0} /\ Power[i + j] \in Nat \ {0}
    BY <1>2, PowerIs
  <1>4. Power[i + j] = Power[i] * Power[j]
    BY PowerSum
  <1>5. /\ n \div Power[i] \in Nat
        /\ n \div (Power[i] * Power[j]) = (n \div Power[i]) \div Power[j]
        /\ (n % (Power[i] * Power[j])) \div Power[i] = (n \div Power[i]) % Power[j]
        /\ (n % (Power[i] * Power[j])) % Power[i] = n % Power[i]
    <2> DEFINE p == Power[i]
               q == Power[j]
    <2>1. p \in Nat \ {0} /\ q \in Nat \ {0}
      BY <1>3
    <2> HIDE DEF p, q
    <2>2. Divides(n, p, q)
      BY <2>1, DivideTwice
    <2> QED BY <2>2 DEF p, q, Divides
  <1>6. n % Power[i] \in 0..(Power[i] - 1)
    <2>1. n \in Int
      OBVIOUS
    <2> QED BY <1>3, <2>1, RemainderIs, Zenon
  <1> QED BY <1>3, <1>4, <1>5, <1>6 DEF Cuts

LEMMA QuotientBounds ==
    ASSUME NEW a \in Nat, NEW b \in Nat \ {0}, NEW c \in Nat \ {0}
    PROVE  /\ a \div b = 0 <=> a < b
           /\ a \div b < c <=> a < b * c
  <1> DEFINE x == a \div b
             r == a % b
  <1>1. x \in Nat /\ r \in 0..(b - 1) /\ a = b * x + r
    <2>1. a \in Int /\ x \in Nat
      BY DivideTwice DEF Divides
    <2> QED BY <2>1, RemainderIs, Zenon
  <1> HIDE DEF x, r
  <1>2. b * c \in Nat /\ b * x \in Nat
    BY <1>1
  <1>3. x < c => a < b * c
    <2> SUFFICES ASSUME x < c PROVE a < b * c
      OBVIOUS
    <2>1. b * x + b <= b * c
      BY <1>1, ProductGrows
    <2> QED BY <1>1, <1>2, <2>1
  <1>4. c <= x => b * c <= a
    <2> SUFFICES ASSUME c < x PROVE b * c <= a
      BY <1>1
    <2>1. b * c + b <= b * x
      BY <1>1, ProductGrows
    <2> QED BY <1>1, <1>2, <2>1
  <1>5. x = 0 <=> a < b
    <2>1. x # 0 => b <= a
      <3> SUFFICES ASSUME 0 < x PROVE b <= a
        BY <1>1
      <3>1. b * 0 + b <= b * x
        BY <1>1, ProductGrows
      <3> QED BY <1>1, <1>2, <3>1
    <2>2. x = 0 => a < b
      BY <1>1
    <2> QED BY <1>1, <2>1, <2>2
  <1>6. x < c <=> a < b * c
    BY <1>1, <1>2, <1>3, <1>4
  <1> QED BY <1>5, <1>6 DEF x

LEMMA SmallerTimes ==
    ASSUME NEW n \in Nat, NEW x \in Nat \ {0}, NEW y \in Nat \ {0}, n < x
    PROVE  n < x * y /\ n < y * x
  <1>1. x \in Nat /\ 0 \in Int /\ y \in Int /\ 0 < y
    OBVIOUS
  <1>2. x * y \in Int /\ x * 0 + x <= x * y
    BY <1>1, ProductGrows
  <1>3. x * 0 = 0 /\ x * y = y * x
    OBVIOUS
  <1> QED BY <1>2, <1>3

\* The number of digits, from both sides.
LEMMA LengthIs ==
    ASSUME NEW n \in Nat, NEW d \in 1..MaxDigits
    PROVE  base10_len(n) = d <=> Power[d - 1] <= n /\ (d < MaxDigits => n < Power[d])
  <1>1. MaxDigits \in Nat /\ T \in Nat
    BY IdAssumption
  <1>2. /\ base10_len(n) \in 0..MaxDigits
        /\ \A k \in 0..(MaxDigits - 1) : Power[k] <= n <=> k < base10_len(n)
    BY DigitsOf
  <1>3. d - 1 \in 0..(MaxDigits - 1) /\ (d < MaxDigits => d \in 0..(MaxDigits - 1))
    BY <1>1
  <1>4. \A k \in 0..(MaxDigits - 1) : Power[k] \in Nat
    <2> SUFFICES ASSUME NEW k \in 0..(MaxDigits - 1) PROVE Power[k] \in Nat
      OBVIOUS
    <2>1. k \in 0..(MaxDigits + T)
      BY <1>1
    <2> QED BY <2>1, PowerIs
  <1>5. Power[d - 1] <= n <=> d - 1 < base10_len(n)
    BY <1>2, <1>3
  <1>6. d < MaxDigits => (Power[d] <= n <=> d < base10_len(n))
    BY <1>2, <1>3
  <1>7. d < MaxDigits => (n < Power[d] <=> ~ (Power[d] <= n))
    BY <1>3, <1>4
  <1> QED BY <1>1, <1>2, <1>5, <1>6, <1>7

\* Two numbers of as many digits are equal when their digits are.
LEMMA DigitsDecide ==
    ASSUME NEW m \in 0..MaxDigits, NEW x \in Nat, NEW y \in Nat, x < Power[m], y < Power[m],
           \A i \in 1..m : (x \div Power[m - i]) % Base = (y \div Power[m - i]) % Base
    PROVE  x = y
  <1> DEFINE S == {i \in 0..m : x \div Power[m - i] = y \div Power[m - i]}
  <1>1. MaxDigits \in Nat /\ T \in Nat /\ Base \in Nat \ {0} /\ m \in Nat /\ m \in 0..(MaxDigits + T)
    BY IdAssumption
  <1>2. Power[m] \in Nat \ {0} /\ Power[0] = 1
    BY <1>1, PowerIs
  <1>3. 0 \in S
    <2>1. x \div Power[m] = 0 /\ y \div Power[m] = 0
      BY <1>2, QuotientBounds
    <2> QED BY <1>1, <2>1
  <1>4. \A i \in 0..(m - 1) : i \in S => i + 1 \in S
    <2> SUFFICES ASSUME NEW i \in 0..(m - 1), i \in S PROVE i + 1 \in S
      OBVIOUS
    <2>1. m - (i + 1) \in Nat /\ 1 \in Nat /\ (m - (i + 1)) + 1 = m - i /\ m - i <= MaxDigits + T
      BY <1>1
    <2> DEFINE k == m - (i + 1)
    <2>2. Power[1] = Base
      <3>1. 0 \in 0..(MaxDigits + T - 1) /\ 0 + 1 = 1
        BY <1>1
      <3> QED BY <1>1, <1>2, <3>1, PowerIs
    <2>3. ASSUME NEW n \in Nat
          PROVE  n \div Power[k] \in Nat /\ n \div Power[m - i] = (n \div Power[k]) \div Base
      <3> HIDE DEF k
      <3>1. k \in Nat /\ k + 1 <= MaxDigits + T /\ k + 1 = m - i
        BY <2>1 DEF k
      <3>2. /\ n \div Power[k] \in Nat
            /\ n \div Power[k + 1] = (n \div Power[k]) \div Power[1]
        BY <2>1, <3>1, CutIs DEF Cuts
      <3> QED BY <2>2, <3>1, <3>2
    <2>4. (x \div Power[k]) % Base = (y \div Power[k]) % Base
      <3>1. i + 1 \in 1..m
        OBVIOUS
      <3> QED BY <3>1
    <2>5. \A a \in Nat : a \in Int /\ a = Base * (a \div Base) + (a % Base)
      <3> SUFFICES ASSUME NEW a \in Nat PROVE a \in Int /\ a = Base * (a \div Base) + (a % Base)
        OBVIOUS
      <3>1. a \in Int
        OBVIOUS
      <3> QED BY <1>1, <3>1, RemainderIs, Zenon
    <2>6. x \div Power[m - i] = y \div Power[m - i]
      OBVIOUS
    <2> HIDE DEF k
    <2>7. x \div Power[k] = y \div Power[k]
      BY <2>3, <2>4, <2>5, <2>6
    <2> QED BY <2>7 DEF k
  <1>5. 0..m \subseteq S
    <2> HIDE DEF S
    <2> QED BY <1>1, <1>3, <1>4, InductionUpTo
  <1>6. m \in S /\ m - m = 0
    <2> HIDE DEF S
    <2> QED BY <1>1, <1>5
  <1>7. x \div 1 = x /\ y \div 1 = y
    OBVIOUS
  <1> QED BY <1>2, <1>6, <1>7

\* The number a text stands for, digit by digit.
Accumulates(F, text) ==
    /\ FuzzyMatchedId(text).number = F[1..Len(text)] /\ F[1..0] = 0
    /\ \A i \in 0..Len(text) : F[1..i] \in Nat
    /\ \A i \in 1..Len(text) : F[1..i] = Base * F[1..(i - 1)] + text[i]

LEMMA NumberFold ==
    ASSUME NEW text \in Seq(0..(Base - 1))
    PROVE  \E F : Accumulates(F, text)
  <1> DEFINE n == Len(text)
             step == [p \in (1..n) \X Nat |-> Base * p[2] + text[p[1]]]
             F == CHOOSE f : f = [t \in SUBSET DOMAIN text |->
                                     IF t = {} THEN 0 ELSE Base * f[t \ {Max(t)}] + text[Max(t)]]
  <1>0. Base \in Nat
    BY IdAssumption
  <1>1. n \in Nat /\ DOMAIN text = 1..n /\ \A i \in 1..n : text[i] \in Nat
    <2>1. n \in Nat /\ DOMAIN text = 1..n /\ \A i \in 1..n : text[i] \in 0..(Base - 1)
      BY LenProperties
    <2> QED BY <1>0, <2>1
  <1>2. FuzzyMatchedId(text).number = F[DOMAIN text]
    BY DEF FuzzyMatchedId, FoldLeft, MapThenFoldSet
  <1>3. \A c, d \in Nat : Base * c + d \in Nat
    BY <1>0
  <1> HIDE DEF n
  <1>5. step \in [(1..n) \X Nat -> Nat]
    BY <1>1, <1>3
  <1>6. PICK G \in [SUBSET (1..n) -> Nat] : RecursiveOnPrefixes(G, n, 0, step)
    <2> HIDE DEF step
    <2> QED BY <1>1, <1>5, FoldExists
  <1>7. \A t \in SUBSET (1..n) : t # {} => Max(t) \in 1..n /\ t \ {Max(t)} \in SUBSET (1..n)
    BY <1>1, MaxIsIn
  <1>8. G = [t \in SUBSET DOMAIN text |-> IF t = {} THEN 0 ELSE Base * G[t \ {Max(t)}] + text[Max(t)]]
    <2> SUFFICES ASSUME NEW t \in SUBSET (1..n)
                 PROVE  G[t] = IF t = {} THEN 0 ELSE Base * G[t \ {Max(t)}] + text[Max(t)]
      BY <1>1
    <2>1. CASE t = {}
      BY <1>6, <2>1 DEF RecursiveOnPrefixes
    <2>2. CASE t # {}
      <3>1. G[t] = step[<<Max(t), G[t \ {Max(t)}]>>]
        BY <1>6, <2>2 DEF RecursiveOnPrefixes
      <3>2. <<Max(t), G[t \ {Max(t)}]>> \in (1..n) \X Nat
        BY <1>6, <1>7, <2>2
      <3> QED BY <2>2, <3>1, <3>2
    <2> QED BY <2>1, <2>2
  <1>9. F = [t \in SUBSET DOMAIN text |-> IF t = {} THEN 0 ELSE Base * F[t \ {Max(t)}] + text[Max(t)]]
    BY <1>8, Zenon
  <1> HIDE DEF F
  <1>10. F[{}] = 0
    BY <1>9
  <1>11. ASSUME NEW t \in SUBSET (1..n), t # {}, F[t \ {Max(t)}] \in Nat
         PROVE  F[t] = step[<<Max(t), F[t \ {Max(t)}]>>]
    <2>1. F[t] = Base * F[t \ {Max(t)}] + text[Max(t)]
      BY <1>1, <1>9, <1>11
    <2>2. <<Max(t), F[t \ {Max(t)}]>> \in (1..n) \X Nat
      BY <1>7, <1>11
    <2> QED BY <2>1, <2>2
  <1>12. RunsThrough(F, n, Nat, 0, step)
    <2> HIDE DEF step
    <2>1. FollowsOn(F, n, Nat, 0, step)
      BY <1>10, <1>11 DEF FollowsOn
    <2> QED BY <1>1, <1>5, <2>1, FoldValues
  <1>13. \A i \in 1..n : F[1..i] = Base * F[1..(i - 1)] + text[i]
    <2> TAKE i \in 1..n
    <2>1. i - 1 \in 0..n
      BY <1>1
    <2>2. F[1..i] = step[<<i, F[1..(i - 1)]>>] /\ F[1..(i - 1)] \in Nat
      BY <1>12, <2>1 DEF RunsThrough
    <2> QED BY <2>2
  <1>14. F[1..0] = 0 /\ \A i \in 0..n : F[1..i] \in Nat
    BY <1>12 DEF RunsThrough
  <1>15. FuzzyMatchedId(text).number = F[1..n]
    BY <1>1, <1>2
  <1>16. Accumulates(F, text)
    BY <1>13, <1>14, <1>15 DEF n, Accumulates
  <1> QED BY <1>16

\* The digits of that number are the text's.
LEMMA NumberIs ==
    ASSUME NEW text \in Seq(0..(Base - 1)), Len(text) <= MaxDigits
    PROVE  LET N == FuzzyMatchedId(text).number
               m == Len(text)
           IN  /\ N \in Nat /\ N < Power[m]
               /\ \A i \in 1..m : (N \div Power[m - i]) % Base = text[i]
               /\ \A z \in 0..(m - 1) :
                     (\A i \in 1..z : text[i] = 0) /\ text[z + 1] # 0
                         => Power[m - z - 1] <= N /\ N < Power[m - z]
  <1> DEFINE N == FuzzyMatchedId(text).number
             m == Len(text)
  <1>1. PICK F : Accumulates(F, text)
    BY NumberFold
  <1> DEFINE P(i) == F[1..i]
  <1>2. /\ MaxDigits \in Nat /\ T \in Nat /\ Base \in Nat \ {0, 1} /\ m \in Nat /\ m <= MaxDigits
        /\ \A i \in 1..m : text[i] \in 0..(Base - 1)
    BY IdAssumption, LenProperties
  <1>3. /\ N = P(m) /\ P(0) = 0 /\ N \in Nat
        /\ \A i \in 0..m : P(i) \in Nat
        /\ \A i \in 1..m : P(i) = Base * P(i - 1) + text[i]
    BY <1>1, <1>2 DEF Accumulates
  <1> HIDE DEF N, m, P
  <1>4. \A i \in 1..m : P(i) \div Base = P(i - 1) /\ P(i) % Base = text[i]
    <2> TAKE i \in 1..m
    <2>1. i - 1 \in 0..m
      BY <1>2
    <2>2. P(i - 1) \in Nat /\ text[i] \in 0..(Base - 1) /\ P(i) = Base * P(i - 1) + text[i]
      BY <1>2, <1>3, <2>1
    <2>3. Base \in Nat \ {0}
      BY <1>2
    <2> DEFINE q == P(i - 1)
               r == text[i]
    <2>4. (Base * q + r) \div Base = q /\ (Base * q + r) % Base = r
      <3> HIDE DEF q, r
      <3>1. q \in Nat /\ r \in 0..(Base - 1)
        BY <2>2 DEF q, r
      <3> QED BY <2>3, <3>1, QuotientIs
    <2> QED BY <2>2, <2>4
  <1>5. Power[0] = 1 /\ Power[1] = Base
    <2>1. (0 \in 0..(MaxDigits + T - 1) /\ 0 + 1 = 1) \/ MaxDigits = 0
      BY <1>2
    <2>2. MaxDigits # 0
      BY IdAssumption
    <2> QED BY <1>2, <2>1, <2>2, PowerIs
  <1> DEFINE S == {i \in 0..m : N \div Power[i] = P(m - i)}
  <1>6. 0..m \subseteq S
    <2>1. 0 \in S
      <3>1. N \div 1 = N
        BY <1>3
      <3> QED BY <1>2, <1>3, <1>5, <3>1
    <2>2. \A i \in 0..(m - 1) : i \in S => i + 1 \in S
      <3> SUFFICES ASSUME NEW i \in 0..(m - 1), i \in S PROVE i + 1 \in S
        OBVIOUS
      <3>1. i \in Nat /\ 1 \in Nat /\ i + 1 <= MaxDigits + T
        BY <1>2
      <3>2. N \div Power[i + 1] = (N \div Power[i]) \div Power[1]
        BY <1>3, <3>1, CutIs DEF Cuts
      <3>3. m - i \in 1..m /\ (m - i) - 1 = m - (i + 1) /\ i + 1 \in 0..m
        BY <1>2
      <3>4. P(m - i) \div Base = P((m - i) - 1)
        BY <1>4, <3>3
      <3>5. N \div Power[i] = P(m - i)
        OBVIOUS
      <3> QED BY <1>5, <3>2, <3>3, <3>4, <3>5
    <2> HIDE DEF S
    <2> QED BY <1>2, <2>1, <2>2, InductionUpTo
  <1>7. \A i \in 0..m : N \div Power[m - i] = P(i)
    <2> TAKE i \in 0..m
    <2>1. m - i \in 0..m /\ m - (m - i) = i
      BY <1>2
    <2>2. m - i \in S
      BY <1>6, <2>1
    <2> QED BY <2>1, <2>2
  <1> HIDE DEF S
  <1>8. \A i \in 1..m : (N \div Power[m - i]) % Base = text[i]
    <2> TAKE i \in 1..m
    <2>1. i \in 0..m
      BY <1>2
    <2> QED BY <1>4, <1>7, <2>1
  <1>9. \A k \in 0..m : Power[k] \in Nat \ {0}
    <2> TAKE k \in 0..m
    <2>1. k \in 0..(MaxDigits + T)
      BY <1>2
    <2> QED BY <2>1, PowerIs
  <1>10. N < Power[m]
    <2>1. 0 \in 0..m /\ m - 0 = m /\ m \in 0..m
      BY <1>2
    <2>2. N \div Power[m] = 0
      BY <1>3, <1>7, <2>1
    <2> QED BY <1>3, <1>9, <2>1, <2>2, QuotientBounds
  <1>11. ASSUME NEW z \in 0..(m - 1), \A i \in 1..z : text[i] = 0, text[z + 1] # 0
         PROVE  Power[m - z - 1] <= N /\ N < Power[m - z]
    <2> DEFINE Z == {i \in 0..z : P(i) = 0}
    <2>1. 0 \in Z
      BY <1>2, <1>3
    <2>2. \A i \in 0..(z - 1) : i \in Z => i + 1 \in Z
      <3> SUFFICES ASSUME NEW i \in 0..(z - 1), i \in Z PROVE i + 1 \in Z
        OBVIOUS
      <3>1. i + 1 \in 1..z /\ i + 1 \in 1..m /\ (i + 1) - 1 = i /\ i + 1 \in 0..z
        BY <1>2
      <3>2. P(i + 1) = Base * P(i) + text[i + 1] /\ text[i + 1] = 0 /\ P(i) = 0
        BY <1>3, <1>11, <3>1
      <3>3. Base * 0 + 0 = 0
        BY <1>2
      <3> QED BY <3>1, <3>2, <3>3
    <2>3. P(z) = 0
      <3> HIDE DEF Z
      <3>1. z \in Nat /\ z \in 0..z
        BY <1>2
      <3>2. 0..z \subseteq Z
        BY <2>1, <2>2, <3>1, InductionUpTo
      <3> QED BY <3>1, <3>2 DEF Z
    <2>4. z + 1 \in 1..m /\ (z + 1) - 1 = z /\ m - (z + 1) = m - z - 1 /\ m - z - 1 \in 0..m /\ m - z \in 0..m
      BY <1>2
    <2>5. P(z + 1) = text[z + 1]
      <3>1. P(z + 1) = Base * 0 + text[z + 1]
        BY <1>3, <2>3, <2>4
      <3>2. Base * 0 + text[z + 1] = text[z + 1]
        BY <1>2, <2>4
      <3> QED BY <3>1, <3>2
    <2>6. N \div Power[m - z - 1] # 0
      <3>1. z + 1 \in 0..m
        BY <2>4
      <3> QED BY <1>7, <1>11, <2>4, <2>5, <3>1
    <2>7. N \div Power[m - z] = 0
      <3>1. z \in 0..m
        BY <1>2
      <3> QED BY <1>7, <2>3, <3>1
    <2>8. Power[m - z - 1] \in Nat \ {0} /\ Power[m - z] \in Nat \ {0}
      BY <1>9, <2>4
    <2>9. ~ (N < Power[m - z - 1])
      BY <1>3, <2>6, <2>8, QuotientBounds
    <2>10. N < Power[m - z]
      BY <1>3, <2>7, <2>8, QuotientBounds
    <2> QED BY <1>3, <2>8, <2>9, <2>10
  <1> QED BY <1>3, <1>8, <1>10, <1>11 DEF N, m

-----------------------------------------------------------------------------
(***************************************************************************)
(* Sorting.                                                                *)
(***************************************************************************)
Ascending(s) == \A i, j \in DOMAIN s : i < j => s[i] < s[j]

\* j is not after i when s is sorted.
NotAfter(s, j, i) == s[j] < s[i] \/ (s[j] = s[i] /\ j <= i)

\* Ranks are the numbers from 1 to the length, each once.
LEMMA RanksAreDistinct ==
    ASSUME NEW s \in Seq(Ids)
    PROVE  /\ \A i \in DOMAIN s : Rank(s, i) \in DOMAIN s
           /\ \A i, j \in DOMAIN s : i # j /\ NotAfter(s, j, i) => Rank(s, j) < Rank(s, i)
           /\ \A r \in DOMAIN s : \E i \in DOMAIN s : Rank(s, i) = r
  <1> DEFINE n == Len(s)
             Before(i) == {j \in DOMAIN s : NotAfter(s, j, i)}
             rank == [i \in 1..n |-> Rank(s, i)]
  <1>1. n \in Nat /\ DOMAIN s = 1..n /\ \A i \in 1..n : s[i] \in Nat
    BY LenProperties, IdsAreNumbers
  <1> HIDE DEF n
  <1>2. IsFiniteSet(1..n) /\ Cardinality(1..n) = n
    <2>1. 1 \in Int /\ n \in Int /\ (1 > n => n = 0)
      BY <1>1
    <2>2. IsFiniteSet(1..n) /\ Cardinality(1..n) = IF 1 > n THEN 0 ELSE n - 1 + 1
      BY <2>1, FS_Interval
    <2> QED BY <2>1, <2>2
  <1>3. \A i \in 1..n : Rank(s, i) = Cardinality(Before(i))
    BY DEF Rank, NotAfter
  <1>4. \A i \in 1..n : IsFiniteSet(Before(i)) /\ Cardinality(Before(i)) \in Nat /\ Cardinality(Before(i)) <= n
    <2> TAKE i \in 1..n
    <2>1. Before(i) \in SUBSET (1..n)
      BY <1>1
    <2> HIDE DEF Before
    <2> QED BY <1>2, <2>1, FS_Subset, FS_CardinalityType
  <1>5. \A i \in 1..n : i \in Before(i)
    BY <1>1 DEF NotAfter
  <1>6. ASSUME NEW i \in 1..n PROVE Rank(s, i) \in 1..n
    <2>1. Cardinality(Before(i)) # 0
      <3> HIDE DEF Before
      <3> QED BY <1>4, <1>5, FS_EmptySet
    <2> HIDE DEF Before
    <2> QED BY <1>1, <1>3, <1>4, <2>1
  <1>7. ASSUME NEW i \in 1..n, NEW j \in 1..n, i # j, NotAfter(s, j, i)
        PROVE  Rank(s, j) < Rank(s, i)
    <2>1. Before(j) \subseteq Before(i)
      <3> SUFFICES ASSUME NEW k \in 1..n, NotAfter(s, k, j) PROVE NotAfter(s, k, i)
        BY <1>1
      <3> QED BY <1>1, <1>7 DEF NotAfter
    <2>2. i \notin Before(j)
      <3>1. ~ NotAfter(s, i, j)
        BY <1>1, <1>7 DEF NotAfter
      <3> QED BY <3>1
    <2> HIDE DEF Before
    <2>3. Before(j) \in SUBSET Before(i) /\ Before(j) # Before(i)
      BY <1>5, <2>1, <2>2
    <2>4. Cardinality(Before(j)) <= Cardinality(Before(i)) /\ Cardinality(Before(j)) # Cardinality(Before(i))
      BY <1>4, <2>3, FS_Subset
    <2> QED BY <1>3, <1>4, <2>4
  <1>8. \A i, j \in 1..n : NotAfter(s, i, j) \/ NotAfter(s, j, i)
    BY <1>1 DEF NotAfter
  <1>9. ASSUME NEW i \in 1..n, NEW j \in 1..n, Rank(s, i) = Rank(s, j) PROVE i = j
    <2>1. NotAfter(s, i, j) \/ NotAfter(s, j, i)
      BY <1>8
    <2>2. Rank(s, i) \in Nat /\ Rank(s, j) \in Nat
      BY <1>1, <1>6
    <2>3. ~ (Rank(s, i) < Rank(s, j)) /\ ~ (Rank(s, j) < Rank(s, i))
      BY <1>9, <2>2
    <2> QED BY <1>7, <2>1, <2>3
  <1>10. rank \in Injection(1..n, 1..n)
    BY <1>6, <1>9 DEF Injection, IsInjective
  <1>11. rank \in Surjection(1..n, 1..n)
    <2> HIDE DEF rank
    <2> QED BY <1>2, <1>10, FS_Injection
  <1>12. \A r \in 1..n : \E i \in 1..n : rank[i] = r
    <2> HIDE DEF rank
    <2> QED BY <1>11 DEF Surjection
  <1> QED BY <1>1, <1>6, <1>7, <1>12

\* Sorting keeps the ids and, when there are no duplicates, makes them ascend.
LEMMA SortedIs ==
    ASSUME NEW s \in Seq(Ids)
    PROVE  /\ Sorted(s) \in Seq(Ids) /\ Len(Sorted(s)) = Len(s) /\ ToSet(Sorted(s)) = ToSet(s)
           /\ \A i, j \in DOMAIN Sorted(s) : i <= j => Sorted(s)[i] <= Sorted(s)[j]
           /\ Distinct(s) => Ascending(Sorted(s))
  <1> DEFINE place == [r \in DOMAIN s |-> CHOOSE i \in DOMAIN s : Rank(s, i) = r]
  <1>1. Len(s) \in Nat /\ DOMAIN s = 1..Len(s) /\ \A i \in DOMAIN s : s[i] \in Ids /\ s[i] \in Nat
    BY LenProperties, IdsAreNumbers
  <1>2. \A r \in DOMAIN s : place[r] \in DOMAIN s /\ Rank(s, place[r]) = r
    BY RanksAreDistinct
  <1>3. \A r \in DOMAIN s : Sorted(s)[r] = s[place[r]]
    BY DEF Sorted
  <1>4. DOMAIN Sorted(s) = DOMAIN s
    BY DEF Sorted
  <1>5. Sorted(s) \in Seq(Ids) /\ Len(Sorted(s)) = Len(s)
    <2> HIDE DEF place
    <2>1. Sorted(s) = [r \in 1..Len(s) |-> s[place[r]]]
      BY <1>1 DEF Sorted, place
    <2>2. \A r \in 1..Len(s) : s[place[r]] \in Ids
      BY <1>1, <1>2
    <2> QED BY <1>1, <2>1, <2>2
  <1> HIDE DEF place
  <1>6. \A i \in DOMAIN s : place[Rank(s, i)] = i
    <2> TAKE i \in DOMAIN s
    <2>1. Rank(s, i) \in DOMAIN s
      BY RanksAreDistinct
    <2> DEFINE k == place[Rank(s, i)]
    <2>2. k \in DOMAIN s /\ Rank(s, k) = Rank(s, i)
      BY <1>2, <2>1
    <2> HIDE DEF k
    <2>3. NotAfter(s, i, k) \/ NotAfter(s, k, i)
      BY <1>1, <2>2 DEF NotAfter
    <2>4. Rank(s, i) \in Nat /\ Rank(s, k) \in Nat
      BY <1>1, <2>1, <2>2
    <2>5. i = k
      BY <2>2, <2>3, <2>4, RanksAreDistinct
    <2> QED BY <2>5 DEF k
  <1>7. ToSet(Sorted(s)) = ToSet(s)
    <2>1. \A r \in DOMAIN s : Sorted(s)[r] \in ToSet(s)
      BY <1>2, <1>3 DEF ToSet
    <2>2. \A i \in DOMAIN s : Rank(s, i) \in DOMAIN s /\ Sorted(s)[Rank(s, i)] = s[i]
      BY <1>3, <1>6, RanksAreDistinct
    <2> QED BY <1>4, <2>1, <2>2 DEF ToSet
  <1>8. ASSUME NEW i \in DOMAIN s, NEW j \in DOMAIN s, i < j PROVE NotAfter(s, place[i], place[j])
    <2>1. NotAfter(s, place[i], place[j]) \/ NotAfter(s, place[j], place[i])
      BY <1>1, <1>2 DEF NotAfter
    <2>2. place[i] # place[j]
      BY <1>2, <1>8, <1>1
    <2>3. NotAfter(s, place[j], place[i]) => Rank(s, place[j]) < Rank(s, place[i])
      BY <1>2, <2>2, RanksAreDistinct
    <2> QED BY <1>1, <1>2, <1>8, <2>1, <2>3
  <1>9. \A i, j \in DOMAIN s : i <= j => Sorted(s)[i] <= Sorted(s)[j]
    BY <1>1, <1>2, <1>3, <1>8 DEF NotAfter
  <1>10. ASSUME Distinct(s) PROVE Ascending(Sorted(s))
    <2> SUFFICES ASSUME NEW i \in DOMAIN s, NEW j \in DOMAIN s, i < j
                 PROVE  Sorted(s)[i] < Sorted(s)[j]
      BY <1>4 DEF Ascending
    <2>1. s[place[i]] <= s[place[j]]
      BY <1>1, <1>2, <1>8 DEF NotAfter
    <2>2. place[i] # place[j]
      BY <1>1, <1>2
    <2>3. s[place[i]] # s[place[j]]
      BY <1>2, <1>10, <2>2 DEF Distinct
    <2> QED BY <1>1, <1>2, <1>3, <2>1, <2>3
  <1> QED BY <1>4, <1>5, <1>7, <1>9, <1>10
-----------------------------------------------------------------------------
(***************************************************************************)
(* Binary searches.                                                        *)
(***************************************************************************)
\* In an ascending bucket the search finds what is there, and where to put
\* what is not.
LEMMA SearchIs ==
    ASSUME NEW bucket \in Seq(Ids), Ascending(bucket), NEW id \in Ids
    PROVE  /\ Position(bucket, id) \in 1..(Len(bucket) + 1)
           /\ \A i \in DOMAIN bucket : bucket[i] < id <=> i < Position(bucket, id)
           /\ Found(bucket, id) <=> id \in ToSet(bucket)
  <1> DEFINE n == Len(bucket)
             D == {i \in DOMAIN bucket : bucket[i] < id}
             k == Cardinality(D)
  <1>1. n \in Nat /\ DOMAIN bucket = 1..n /\ id \in Nat /\ \A i \in 1..n : bucket[i] \in Nat
    BY LenProperties, IdsAreNumbers
  <1>2. D \in SUBSET (1..n) /\ \A i, j \in 1..n : i <= j /\ j \in D => i \in D
    <2>1. \A i, j \in 1..n : i <= j => bucket[i] <= bucket[j]
      BY <1>1 DEF Ascending
    <2> QED BY <1>1, <2>1
  <1>3. k \in 0..n /\ D = 1..k
    <2> HIDE DEF D, n
    <2> QED BY <1>1, <1>2, PrefixOf
  <1>4. Position(bucket, id) = k + 1
    BY DEF Position
  <1>5. \A i \in DOMAIN bucket : bucket[i] < id <=> i <= k
    BY <1>1, <1>3
  <1> HIDE DEF D, k
  <1>6. \A i \in DOMAIN bucket : bucket[i] < id <=> i < Position(bucket, id)
    BY <1>1, <1>3, <1>4, <1>5
  <1>7. Found(bucket, id) <=> k + 1 <= n /\ bucket[k + 1] = id
    BY <1>4 DEF Found
  <1>8. ASSUME NEW i \in 1..n, bucket[i] = id PROVE k + 1 <= n /\ bucket[k + 1] = id
    <2>1. ~ (i <= k)
      BY <1>1, <1>5, <1>8
    <2>2. k + 1 \in 1..n /\ k + 1 <= i
      BY <1>1, <1>3, <2>1
    <2>3. ~ (bucket[k + 1] < id)
      BY <1>1, <1>3, <1>5, <2>2
    <2>4. k + 1 < i => bucket[k + 1] < bucket[i]
      BY <1>1, <2>2 DEF Ascending
    <2>5. k + 1 = i
      BY <1>1, <1>3, <1>8, <2>2, <2>3, <2>4
    <2> QED BY <1>8, <2>2, <2>5
  <1>9. k + 1 <= n /\ bucket[k + 1] = id => id \in ToSet(bucket)
    <2>1. k + 1 <= n => k + 1 \in DOMAIN bucket
      BY <1>1, <1>3
    <2> QED BY <2>1 DEF ToSet
  <1>10. id \in ToSet(bucket) => k + 1 <= n /\ bucket[k + 1] = id
    BY <1>1, <1>8 DEF ToSet
  <1>11. k + 1 \in 1..(n + 1)
    BY <1>1, <1>3
  <1> QED BY <1>4, <1>6, <1>7, <1>9, <1>10, <1>11

LEMMA AscendingIsDistinct ==
    ASSUME NEW s \in Seq(Ids), Ascending(s)
    PROVE  Distinct(s)
  <1>1. \A i \in DOMAIN s : i \in Nat /\ s[i] \in Nat
    <2>1. Len(s) \in Nat /\ DOMAIN s = 1..Len(s) /\ \A i \in DOMAIN s : s[i] \in Ids
      BY LenProperties
    <2>2. \A i \in DOMAIN s : s[i] \in Nat
      BY <2>1, IdsAreNumbers, Zenon
    <2>3. \A i \in DOMAIN s : i \in Nat
      BY <2>1
    <2> QED BY <2>2, <2>3
  <1> QED BY <1>1 DEF Ascending, Distinct

\* An id is put where the search says.
LEMMA InsertedIs ==
    ASSUME NEW bucket \in Seq(Ids), Ascending(bucket), NEW id \in Ids, ~ Found(bucket, id)
    PROVE  LET new == InsertAt(bucket, Position(bucket, id), id)
           IN  new \in Seq(Ids) /\ Ascending(new) /\ ToSet(new) = ToSet(bucket) \cup {id}
  <1> DEFINE p == Position(bucket, id)
             n == Len(bucket)
             new == InsertAt(bucket, p, id)
  <1>1. n \in Nat /\ DOMAIN bucket = 1..n /\ id \in Nat /\ \A i \in 1..n : bucket[i] \in Nat
    BY LenProperties, IdsAreNumbers
  <1>2. /\ p \in 1..(n + 1) /\ \A i \in 1..n : bucket[i] < id <=> i < p
        /\ id \notin ToSet(bucket)
    BY <1>1, SearchIs
  <1>3. /\ new \in Seq(Ids) /\ Len(new) = n + 1
        /\ \A i \in 1..(n + 1) : new[i] = IF i < p THEN bucket[i] ELSE IF i = p THEN id ELSE bucket[i - 1]
        /\ ToSet(new) = ToSet(bucket) \cup {id}
    <2> HIDE DEF p
    <2> QED BY <1>2, InsertIs
  <1> HIDE DEF p, n, new
  <1>4. \A i \in 1..n : bucket[i] # id
    BY <1>1, <1>2 DEF ToSet
  <1>5. DOMAIN new = 1..(n + 1)
    BY <1>3, LenProperties
  <1>6. \A i, j \in 1..n : i < j => bucket[i] < bucket[j]
    BY <1>1 DEF Ascending
  <1>7. ASSUME NEW i \in 1..(n + 1), NEW j \in 1..(n + 1), i < j PROVE new[i] < new[j]
    <2>1. CASE j < p
      <3>1. i \in 1..n /\ j \in 1..n /\ i < p
        BY <1>1, <1>2, <1>7, <2>1
      <3> QED BY <1>3, <1>6, <1>7, <2>1, <3>1
    <2>2. CASE j = p
      <3>1. i \in 1..n /\ i < p /\ ~ (j < p)
        BY <1>1, <1>2, <1>7, <2>2
      <3> QED BY <1>2, <1>3, <2>2, <3>1
    <2>3. CASE j > p
      <3>1. j - 1 \in 1..n /\ ~ (j < p) /\ j # p /\ ~ (j - 1 < p)
        BY <1>1, <1>2, <2>3
      <3>2. new[j] = bucket[j - 1] /\ id < bucket[j - 1]
        BY <1>1, <1>2, <1>3, <1>4, <3>1
      <3>3. CASE i < p
        <4>1. i \in 1..n
          BY <1>1, <1>2, <3>3
        <4>2. new[i] = bucket[i] /\ bucket[i] < id
          BY <1>2, <1>3, <3>3, <4>1
        <4> QED BY <1>1, <3>1, <3>2, <4>1, <4>2
      <3>4. CASE i = p
        <4>1. new[i] = id
          BY <1>2, <1>3, <3>4
        <4> QED BY <3>2, <4>1
      <3>5. CASE i > p
        <4>1. i - 1 \in 1..n /\ ~ (i < p) /\ i # p /\ i - 1 < j - 1
          BY <1>1, <1>2, <1>7, <3>5
        <4>2. new[i] = bucket[i - 1]
          BY <1>3, <4>1
        <4> QED BY <1>6, <3>1, <3>2, <4>1, <4>2
      <3> QED BY <1>2, <3>3, <3>4, <3>5
    <2> QED BY <1>2, <2>1, <2>2, <2>3
  <1>8. Ascending(new)
    BY <1>5, <1>7 DEF Ascending
  <1> QED BY <1>3, <1>8 DEF new, p

\* An id is removed where the search finds it.
LEMMA RemovedIs ==
    ASSUME NEW bucket \in Seq(Ids), Ascending(bucket), NEW id \in Ids, Found(bucket, id)
    PROVE  LET new == RemoveAt(bucket, Position(bucket, id))
           IN  new \in Seq(Ids) /\ Ascending(new) /\ ToSet(new) = ToSet(bucket) \ {id}
  <1> DEFINE p == Position(bucket, id)
             n == Len(bucket)
             new == RemoveAt(bucket, p)
  <1>1. n \in Nat /\ DOMAIN bucket = 1..n
    BY LenProperties
  <1>2. p \in 1..n /\ bucket[p] = id
    <2>1. p \in 1..(n + 1)
      BY SearchIs
    <2>2. p <= n /\ bucket[p] = id
      BY DEF Found
    <2> HIDE DEF p, n
    <2> QED BY <1>1, <2>1, <2>2
  <1>3. Distinct(bucket)
    BY AscendingIsDistinct
  <1>4. /\ new \in Seq(Ids) /\ Len(new) = n - 1
        /\ \A i \in 1..(n - 1) : new[i] = IF i < p THEN bucket[i] ELSE bucket[i + 1]
        /\ ToSet(new) = ToSet(bucket) \ {id}
    <2> HIDE DEF p
    <2> QED BY <1>2, <1>3, RemoveIs
  <1> HIDE DEF p, n, new
  <1>5. DOMAIN new = 1..(n - 1)
    BY <1>4, LenProperties
  <1>6. ASSUME NEW i \in 1..(n - 1), NEW j \in 1..(n - 1), i < j PROVE new[i] < new[j]
    <2>1. /\ i \in 1..n /\ j \in 1..n /\ i + 1 \in 1..n /\ j + 1 \in 1..n
          /\ i < j + 1 /\ i + 1 < j + 1
      BY <1>1, <1>6
    <2>2. /\ bucket[i] < bucket[j] /\ bucket[i] < bucket[j + 1] /\ bucket[i + 1] < bucket[j + 1]
      BY <1>1, <1>6, <2>1 DEF Ascending
    <2>3. j < p => i < p
      BY <1>2, <1>6
    <2> QED BY <1>4, <2>2, <2>3
  <1>7. Ascending(new)
    BY <1>5, <1>6 DEF Ascending
  <1> QED BY <1>4, <1>7 DEF new, p
-----------------------------------------------------------------------------
(***************************************************************************)
(* Tables: every id is in the bucket it hashes to.                         *)
(***************************************************************************)
Table(b) ==
    /\ b \in Seq(Seq(Ids))
    /\ \A i \in DOMAIN b : \A id \in ToSet(b[i]) : IdIndex(Len(b), id) = i

WithoutDuplicates(b) == \A i \in DOMAIN b : Distinct(b[i])

LEMMA TableIs ==
    ASSUME NEW b, Table(b)
    PROVE  /\ Len(b) \in Nat /\ DOMAIN b = 1..Len(b) /\ (b # <<>> <=> Len(b) # 0)
           /\ \A i \in DOMAIN b : b[i] \in Seq(Ids) /\ ToSet(b[i]) \subseteq Ids
           /\ Elements(b) \subseteq Ids
           /\ FlattenSeq(b) \in Seq(Ids) /\ ToSet(FlattenSeq(b)) = Elements(b)
           /\ WithoutDuplicates(b) => Distinct(FlattenSeq(b))
           /\ IsFiniteSet(Elements(b)) /\ Cardinality(Elements(b)) \in Nat
           /\ \A id \in Ids : b # <<>> =>
                  /\ IdIndex(Len(b), id) \in DOMAIN b
                  /\ id \in Elements(b) <=> id \in ToSet(b[IdIndex(Len(b), id)])
  <1>1. b \in Seq(Seq(Ids)) /\ \A i \in DOMAIN b : \A id \in ToSet(b[i]) : IdIndex(Len(b), id) = i
    BY DEF Table
  <1>2. /\ Len(b) \in Nat /\ DOMAIN b = 1..Len(b) /\ (b # <<>> <=> Len(b) # 0)
        /\ \A i \in DOMAIN b : b[i] \in Seq(Ids)
    BY <1>1, LenProperties, EmptySeq
  <1>3. \A i \in DOMAIN b : ToSet(b[i]) \subseteq Ids
    <2> TAKE i \in DOMAIN b
    <2>1. b[i] \in Seq(Ids)
      BY <1>2
    <2>2. \A k \in DOMAIN b[i] : b[i][k] \in Ids
      BY <2>1, LenProperties
    <2> QED BY <2>2 DEF ToSet
  <1>4. Elements(b) \subseteq Ids
    BY <1>3 DEF Elements
  <1>5. \A i, j \in DOMAIN b : i # j => ToSet(b[i]) \cap ToSet(b[j]) = {}
    BY <1>1
  <1>6. /\ FlattenSeq(b) \in Seq(Ids) /\ ToSet(FlattenSeq(b)) = Elements(b)
        /\ WithoutDuplicates(b) => Distinct(FlattenSeq(b))
    BY <1>1, <1>5, FlattenHolds DEF WithoutDuplicates
  <1>7. IsFiniteSet(Elements(b)) /\ Cardinality(Elements(b)) \in Nat
    BY <1>6, DistinctLen, FS_CardinalityType
  <1>8. ASSUME NEW id \in Ids, b # <<>>
        PROVE  /\ IdIndex(Len(b), id) \in DOMAIN b
               /\ id \in Elements(b) <=> id \in ToSet(b[IdIndex(Len(b), id)])
    <2>1. Len(b) \in Nat \ {0}
      BY <1>2, <1>8
    <2>2. IdIndex(Len(b), id) \in DOMAIN b
      BY <1>2, <2>1, IdIndexInRange
    <2>3. id \in ToSet(b[IdIndex(Len(b), id)]) => id \in Elements(b)
      BY <2>2 DEF Elements
    <2>4. ASSUME id \in Elements(b) PROVE id \in ToSet(b[IdIndex(Len(b), id)])
      <3>1. PICK i \in DOMAIN b : id \in ToSet(b[i])
        BY <2>4 DEF Elements
      <3> QED BY <1>1, <3>1
    <2> QED BY <2>2, <2>3, <2>4
  <1> QED BY <1>2, <1>3, <1>4, <1>6, <1>7, <1>8

\* One bucket is changed: the table still is one when the new bucket holds ids that
\* hash to it.
LEMMA ExceptIs ==
    ASSUME NEW b, Table(b), NEW i \in DOMAIN b, NEW new \in Seq(Ids),
           \A id \in ToSet(new) : IdIndex(Len(b), id) = i
    PROVE  LET c == [b EXCEPT ![i] = new]
           IN  /\ Table(c) /\ Len(c) = Len(b) /\ DOMAIN c = DOMAIN b /\ c[i] = new
               /\ \A j \in DOMAIN b : j # i => c[j] = b[j]
               /\ Elements(c) = (Elements(b) \ ToSet(b[i])) \cup ToSet(new)
  <1> DEFINE c == [b EXCEPT ![i] = new]
  <1>1. /\ Len(b) \in Nat /\ DOMAIN b = 1..Len(b) /\ \A j \in DOMAIN b : b[j] \in Seq(Ids)
    BY TableIs
  <1>2. /\ DOMAIN c = DOMAIN b /\ c[i] = new /\ \A j \in DOMAIN b : j # i => c[j] = b[j]
    BY <1>1
  <1>3. c \in Seq(Seq(Ids)) /\ Len(c) = Len(b)
    <2>1. c \in [1..Len(b) -> Seq(Ids)]
      BY <1>1
    <2> HIDE DEF c
    <2> QED BY <1>1, <2>1, IsASeq, LenProperties
  <1> HIDE DEF c
  <1>4. \A j \in DOMAIN b : \A id \in ToSet(b[j]) : IdIndex(Len(b), id) = j
    BY DEF Table
  <1>5. Table(c)
    <2> SUFFICES ASSUME NEW j \in DOMAIN c, NEW id \in ToSet(c[j])
                 PROVE  IdIndex(Len(c), id) = j
      BY <1>3 DEF Table
    <2> QED BY <1>2, <1>3, <1>4
  <1>6. \A j \in DOMAIN b : j # i => ToSet(b[j]) \cap ToSet(b[i]) = {}
    BY <1>4
  <1>7. Elements(c) = (Elements(b) \ ToSet(b[i])) \cup ToSet(new)
    <2>1. \A id : id \in Elements(c) <=> \E j \in DOMAIN b : id \in ToSet(c[j])
      BY <1>2 DEF Elements
    <2>2. \A id : id \in Elements(b) <=> \E j \in DOMAIN b : id \in ToSet(b[j])
      BY DEF Elements
    <2> QED BY <1>2, <1>6, <2>1, <2>2
  <1> QED BY <1>2, <1>3, <1>5, <1>7 DEF c

LEMMA PushIs ==
    ASSUME NEW b, Table(b), b # <<>>, NEW id \in Ids
    PROVE  /\ Table(Push(b, id)) /\ Len(Push(b, id)) = Len(b)
           /\ Elements(Push(b, id)) = Elements(b) \cup {id}
           /\ WithoutDuplicates(b) /\ id \notin Elements(b) => WithoutDuplicates(Push(b, id))
  <1> DEFINE i == IdIndex(Len(b), id)
             new == Append(b[i], id)
             c == [b EXCEPT ![i] = new]
  <1>1. Push(b, id) = c
    BY DEF Push
  <1>2. i \in DOMAIN b /\ b[i] \in Seq(Ids) /\ (id \in Elements(b) <=> id \in ToSet(b[i]))
    BY TableIs
  <1>3. \A old \in ToSet(b[i]) : IdIndex(Len(b), old) = i
    BY <1>2 DEF Table
  <1> HIDE DEF i
  <1>4. /\ new = b[i] \o <<id>> /\ new \in Seq(Ids)
        /\ <<id>> \in Seq(Ids) /\ ToSet(<<id>>) = {id} /\ Distinct(<<id>>)
    <2>1. <<id>> \in Seq(Ids) /\ ToSet(<<id>>) = {id}
      BY DEF ToSet
    <2>2. Distinct(<<id>>)
      BY DEF Distinct
    <2> QED BY <1>2, <2>1, <2>2, AppendIsConcat, ConcatProperties
  <1> HIDE DEF new
  <1>5. ToSet(new) = ToSet(b[i]) \cup {id}
    <2>1. ToSet(b[i] \o <<id>>) = ToSet(b[i]) \cup ToSet(<<id>>)
      <3>1. \A s, t \in Seq(Ids) : ToSet(s \o t) = ToSet(s) \cup ToSet(t)
        BY ConcatSet
      <3> QED BY <1>2, <1>4, <3>1, Zenon
    <2> QED BY <1>4, <2>1
  <1>6. \A old \in ToSet(new) : IdIndex(Len(b), old) = i
    BY <1>3, <1>5 DEF i
  <1>7. /\ Table(c) /\ Len(c) = Len(b) /\ DOMAIN c = DOMAIN b /\ c[i] = new
        /\ \A j \in DOMAIN b : j # i => c[j] = b[j]
        /\ Elements(c) = (Elements(b) \ ToSet(b[i])) \cup ToSet(new)
    <2>1. LET d == [b EXCEPT ![i] = new]
          IN  /\ Table(d) /\ Len(d) = Len(b) /\ DOMAIN d = DOMAIN b /\ d[i] = new
              /\ \A j \in DOMAIN b : j # i => d[j] = b[j]
              /\ Elements(d) = (Elements(b) \ ToSet(b[i])) \cup ToSet(new)
      <3>1. i \in DOMAIN b /\ new \in Seq(Ids) /\ Table(b)
        BY <1>2, <1>4
      <3> QED BY <1>6, <3>1, ExceptIs, Zenon
    <2> QED BY <2>1
  <1>8. ToSet(b[i]) \subseteq Elements(b)
    BY <1>2 DEF Elements
  <1>9. ASSUME WithoutDuplicates(b), id \notin Elements(b) PROVE WithoutDuplicates(c)
    <2>1. Distinct(new)
      BY <1>2, <1>4, <1>9, ConcatDistinct DEF WithoutDuplicates
    <2> HIDE DEF c
    <2> QED BY <1>7, <1>9, <2>1 DEF WithoutDuplicates
  <1> HIDE DEF c
  <1> QED BY <1>1, <1>5, <1>7, <1>8, <1>9

LEMMA TwoToTheIs ==
    \A k \in Nat : TwoToThe[k] \in Nat /\ k < TwoToThe[k] /\ TwoToThe[0] = 1
                  /\ TwoToThe[k + 1] = 2 * TwoToThe[k]
  <1> DEFINE step == [p \in Nat \X Nat |-> 2 * p[2]]
  <1>1. step \in [Nat \X Nat -> Nat] /\ 1 \in Nat
    OBVIOUS
  <1>2. PICK F \in [Nat -> Nat] : RecursiveOnNat(F, 1, step)
    <2> HIDE DEF step
    <2> QED BY <1>1, NatRecursion
  <1>3. \A n \in Nat : n # 0 => <<n, F[n - 1]>> \in Nat \X Nat
    BY <1>2
  <1>4. F = [k \in Nat |-> IF k = 0 THEN 1 ELSE 2 * F[k - 1]]
    BY <1>2, <1>3 DEF RecursiveOnNat
  <1>5. TwoToThe = [k \in Nat |-> IF k = 0 THEN 1 ELSE 2 * TwoToThe[k - 1]]
    BY <1>4, Zenon DEF TwoToThe
  <1>6. TwoToThe[0] = 1 /\ \A k \in Nat : TwoToThe[k + 1] = 2 * TwoToThe[k]
    BY <1>5
  <1> DEFINE S == {k \in Nat : TwoToThe[k] \in Nat /\ k < TwoToThe[k]}
  <1>7. 0 \in S
    BY <1>6
  <1>8. \A k \in Nat : k \in S => k + 1 \in S
    BY <1>6
  <1>9. Nat \subseteq S
    <2> HIDE DEF S
    <2> QED BY <1>7, <1>8, Induction
  <1> QED BY <1>6, <1>9

LEMMA NextPowerOfTwoIs ==
    ASSUME NEW n \in Nat
    PROVE  NextPowerOfTwo(n) \in Nat /\ n <= NextPowerOfTwo(n)
  <1> DEFINE Big == {k \in Nat : n <= TwoToThe[k]}
  <1>1. n \in Big
    BY TwoToTheIs
  <1>2. PICK m \in Big : \A k \in Big : m <= k
    <2>1. Big \in SUBSET Nat /\ Big # {}
      BY <1>1
    <2> HIDE DEF Big
    <2> QED BY <2>1, LeastNatural
  <1>3. m \in 0..n /\ TwoToThe[m] \in Nat /\ n <= TwoToThe[m]
    BY <1>1, <1>2, TwoToTheIs
  <1>4. TwoToThe[m] = 1 \/ TwoToThe[m] < 2 * n
    <2>1. CASE m = 0
      BY <2>1, TwoToTheIs
    <2>2. CASE m # 0
      <3>1. m - 1 \in Nat /\ (m - 1) + 1 = m /\ m - 1 \notin Big
        BY <1>2, <2>2
      <3>2. TwoToThe[m - 1] < n /\ TwoToThe[m] = 2 * TwoToThe[m - 1] /\ TwoToThe[m - 1] \in Nat
        BY <3>1, TwoToTheIs
      <3> QED BY <3>2
    <2> QED BY <2>1, <2>2
  <1>5. \E p \in {TwoToThe[k] : k \in 0..n} : n <= p /\ (p = 1 \/ p < 2 * n)
    BY <1>3, <1>4
  <1>6. NextPowerOfTwo(n) \in {TwoToThe[k] : k \in 0..n} /\ n <= NextPowerOfTwo(n)
    BY <1>5 DEF NextPowerOfTwo
  <1>7. \A k \in 0..n : TwoToThe[k] \in Nat
    BY TwoToTheIs
  <1> QED BY <1>6, <1>7

\* A new table is empty, and has room for what was asked and for LoadFactor ids more.
LEMMA CreateBucketsIs ==
    ASSUME NEW capacity \in Nat
    PROVE  LET b == CreateBuckets(capacity)
           IN  /\ Table(b) /\ b # <<>> /\ Elements(b) = {} /\ WithoutDuplicates(b)
               /\ \A i \in DOMAIN b : b[i] = <<>>
               /\ capacity + LoadFactor <= LoadFactor * Len(b)
  <1> DEFINE needed == (capacity + LoadFactor - 1) \div LoadFactor
             p == NextPowerOfTwo(needed)
             m == AtLeast(p, MinBuckets) + 1
             b == [i \in 1..m |-> <<>>]
  <1>1. CreateBuckets(capacity) = b
    BY DEF CreateBuckets
  <1>2. LoadFactor \in Nat \ {0} /\ MinBuckets \in Nat \ {0}
    BY IdAssumption
  <1>3. needed \in Nat /\ capacity <= LoadFactor * needed
    <2>1. \A c \in Nat, f \in Nat \ {0} :
              (c + f - 1) \div f \in Nat /\ c <= f * ((c + f - 1) \div f)
      OBVIOUS
    <2> QED BY <1>2, <2>1
  <1> HIDE DEF needed
  <1>4. p \in Nat /\ needed <= p
    BY <1>3, NextPowerOfTwoIs
  <1> HIDE DEF p
  <1>5. m \in Nat \ {0} /\ p + 1 <= m
    BY <1>2, <1>4 DEF AtLeast
  <1> HIDE DEF m
  <1>6. capacity + LoadFactor <= LoadFactor * m
    <2>1. \A f, c, d, k \in Nat : c <= f * d /\ d + 1 <= k => c + f <= f * k
      <3> TAKE f, c, d, k \in Nat
      <3> HAVE c <= f * d /\ d + 1 <= k
      <3>1. f * (d + 1) <= f * k
        <4>1. k - (d + 1) \in Nat
          OBVIOUS
        <4>2. f * k = f * (d + 1) + f * (k - (d + 1))
          OBVIOUS
        <4>3. f * (k - (d + 1)) \in Nat /\ f * (d + 1) \in Nat
          BY <4>1
        <4> QED BY <4>2, <4>3
      <3>2. f * (d + 1) = f * d + f /\ f * d \in Nat /\ f * k \in Nat
        OBVIOUS
      <3> QED BY <3>1, <3>2
    <2>2. needed + 1 <= m
      BY <1>3, <1>4, <1>5
    <2> QED BY <1>2, <1>3, <1>5, <2>1, <2>2
  <1>7. <<>> \in Seq(Ids) /\ ToSet(<<>>) = {} /\ Distinct(<<>>)
    BY DEF ToSet, Distinct
  <1>8. b \in Seq(Seq(Ids)) /\ Len(b) = m /\ DOMAIN b = 1..m /\ \A i \in DOMAIN b : b[i] = <<>>
    BY <1>5, <1>7
  <1>9. b # <<>>
    BY <1>5, <1>8
  <1> HIDE DEF b
  <1>10. Table(b) /\ WithoutDuplicates(b) /\ Elements(b) = {}
    BY <1>7, <1>8 DEF Table, WithoutDuplicates, Elements
  <1> QED BY <1>1, <1>6, <1>8, <1>9, <1>10
-----------------------------------------------------------------------------
(***************************************************************************)
(* Pushing many ids, and new tables.                                       *)
(***************************************************************************)
\* After i pushes F[1..i] is the table.
Pushes(F, b, s) ==
    /\ FoldLeft(Push, b, s) = F[1..Len(s)] /\ F[1..0] = b
    /\ \A i \in 0..Len(s) : Table(F[1..i]) /\ Len(F[1..i]) = Len(b)
    /\ \A i \in 1..Len(s) : F[1..i] = Push(F[1..(i - 1)], s[i])

LEMMA PushFold ==
    ASSUME NEW b, Table(b), b # <<>>, NEW s \in Seq(Ids)
    PROVE  \E F : Pushes(F, b, s)
  <1> DEFINE n == Len(s)
             V == {c \in Seq(Seq(Ids)) : Table(c) /\ Len(c) = Len(b)}
             step == [p \in (1..n) \X V |-> Push(p[2], s[p[1]])]
             F == CHOOSE f : f = [t \in SUBSET DOMAIN s |->
                                     IF t = {} THEN b ELSE Push(f[t \ {Max(t)}], s[Max(t)])]
  <1>1. n \in Nat /\ DOMAIN s = 1..n /\ \A i \in 1..n : s[i] \in Ids
    BY LenProperties
  <1>2. FoldLeft(Push, b, s) = F[DOMAIN s]
    BY DEF FoldLeft, MapThenFoldSet
  <1>3. \A c \in V, id \in Ids : Push(c, id) \in V
    <2> TAKE c \in V, id \in Ids
    <2>1. Table(c) /\ Len(c) = Len(b) /\ c # <<>>
      BY TableIs
    <2>2. Table(Push(c, id)) /\ Len(Push(c, id)) = Len(b)
      BY <2>1, PushIs
    <2> QED BY <2>2 DEF Table
  <1>4. b \in V
    BY DEF Table
  <1> HIDE DEF n, V
  <1>5. step \in [(1..n) \X V -> V]
    BY <1>1, <1>3
  <1>6. PICK G \in [SUBSET (1..n) -> V] : RecursiveOnPrefixes(G, n, b, step)
    <2> HIDE DEF step
    <2> QED BY <1>1, <1>4, <1>5, FoldExists
  <1>7. \A t \in SUBSET (1..n) : t # {} => Max(t) \in 1..n /\ t \ {Max(t)} \in SUBSET (1..n)
    BY <1>1, MaxIsIn
  <1>8. G = [t \in SUBSET DOMAIN s |-> IF t = {} THEN b ELSE Push(G[t \ {Max(t)}], s[Max(t)])]
    <2> SUFFICES ASSUME NEW t \in SUBSET (1..n)
                 PROVE  G[t] = IF t = {} THEN b ELSE Push(G[t \ {Max(t)}], s[Max(t)])
      BY <1>1
    <2>1. CASE t = {}
      BY <1>6, <2>1 DEF RecursiveOnPrefixes
    <2>2. CASE t # {}
      <3>1. G[t] = step[<<Max(t), G[t \ {Max(t)}]>>]
        BY <1>6, <2>2 DEF RecursiveOnPrefixes
      <3>2. <<Max(t), G[t \ {Max(t)}]>> \in (1..n) \X V
        BY <1>6, <1>7, <2>2
      <3> QED BY <2>2, <3>1, <3>2
    <2> QED BY <2>1, <2>2
  <1>9. F = [t \in SUBSET DOMAIN s |-> IF t = {} THEN b ELSE Push(F[t \ {Max(t)}], s[Max(t)])]
    BY <1>8, Zenon
  <1> HIDE DEF F
  <1>10. F[{}] = b
    BY <1>9
  <1>11. ASSUME NEW t \in SUBSET (1..n), t # {}, F[t \ {Max(t)}] \in V
         PROVE  F[t] = step[<<Max(t), F[t \ {Max(t)}]>>]
    <2>1. F[t] = Push(F[t \ {Max(t)}], s[Max(t)])
      BY <1>1, <1>9, <1>11
    <2>2. <<Max(t), F[t \ {Max(t)}]>> \in (1..n) \X V
      BY <1>7, <1>11
    <2> QED BY <2>1, <2>2
  <1>12. RunsThrough(F, n, V, b, step)
    <2> HIDE DEF step
    <2>1. FollowsOn(F, n, V, b, step)
      BY <1>10, <1>11 DEF FollowsOn
    <2> QED BY <1>1, <1>4, <1>5, <2>1, FoldValues
  <1>13. \A i \in 1..n : F[1..i] = Push(F[1..(i - 1)], s[i])
    <2> TAKE i \in 1..n
    <2>1. i - 1 \in 0..n
      BY <1>1
    <2>2. F[1..i] = step[<<i, F[1..(i - 1)]>>] /\ F[1..(i - 1)] \in V
      BY <1>12, <2>1 DEF RunsThrough
    <2> QED BY <2>2
  <1>14. F[1..0] = b
    BY <1>12 DEF RunsThrough
  <1>15. \A i \in 0..n : Table(F[1..i]) /\ Len(F[1..i]) = Len(b)
    BY <1>12 DEF V, RunsThrough
  <1>16. FoldLeft(Push, b, s) = F[1..n]
    BY <1>1, <1>2
  <1>17. Pushes(F, b, s)
    BY <1>13, <1>14, <1>15, <1>16 DEF n, Pushes
  <1> QED BY <1>17

LEMMA PushAllIs ==
    ASSUME NEW b, Table(b), b # <<>>, NEW s \in Seq(Ids)
    PROVE  LET c == FoldLeft(Push, b, s)
           IN  /\ Table(c) /\ Len(c) = Len(b) /\ Elements(c) = Elements(b) \cup ToSet(s)
               /\ WithoutDuplicates(b) /\ Distinct(s) /\ ToSet(s) \cap Elements(b) = {}
                      => WithoutDuplicates(c)
  <1> DEFINE n == Len(s)
             First(i) == {s[j] : j \in 1..i}
             Apart == /\ WithoutDuplicates(b) /\ Distinct(s) /\ ToSet(s) \cap Elements(b) = {}
  <1>1. n \in Nat /\ DOMAIN s = 1..n /\ \A i \in 1..n : s[i] \in Ids
    BY LenProperties
  <1>2. PICK F : /\ FoldLeft(Push, b, s) = F[1..n] /\ F[1..0] = b
                 /\ \A i \in 0..n : Table(F[1..i]) /\ Len(F[1..i]) = Len(b)
                 /\ \A i \in 1..n : F[1..i] = Push(F[1..(i - 1)], s[i])
    <2>1. PICK F : Pushes(F, b, s)
      BY PushFold
    <2> QED BY <2>1 DEF Pushes
  <1> HIDE DEF n
  <1> DEFINE Complete(i) == Elements(F[1..i]) = Elements(b) \cup First(i)
             Once(i) == Apart => WithoutDuplicates(F[1..i])
             S == {i \in Nat : i <= n => Complete(i) /\ Once(i)}
  <1>3. 0 \in S
    <2>1. First(0) = {}
      OBVIOUS
    <2> QED BY <1>2, <2>1
  <1>4. ASSUME NEW i \in Nat, i \in S PROVE i + 1 \in S
    <2> SUFFICES ASSUME i + 1 <= n
                 PROVE  Complete(i + 1) /\ Once(i + 1)
      OBVIOUS
    <2>1. i + 1 \in 1..n /\ (i + 1) - 1 = i /\ i \in 0..n /\ i <= n
      BY <1>1
    <2> DEFINE c == F[1..i]
               id == s[i + 1]
    <2>2. /\ F[1..(i + 1)] = Push(c, id) /\ Table(c) /\ Len(c) = Len(b) /\ id \in Ids
      BY <1>1, <1>2, <2>1
    <2>3. Elements(c) = Elements(b) \cup First(i) /\ (Apart => WithoutDuplicates(c))
      BY <1>4, <2>1
    <2>4. First(i + 1) = First(i) \cup {id}
      <3>1. 1..(i + 1) = 1..i \cup {i + 1}
        OBVIOUS
      <3> QED BY <3>1, Zenon
    <2>5. ASSUME Apart PROVE id \notin Elements(c)
      <3>1. \A j \in 1..i : j \in 1..n /\ j # i + 1
        BY <1>1, <2>1
      <3>2. id \notin First(i)
        BY <1>1, <2>1, <2>5, <3>1 DEF Distinct
      <3>3. id \notin Elements(b)
        BY <1>1, <2>1, <2>5 DEF ToSet
      <3> QED BY <2>3, <3>2, <3>3
    <2>6. c # <<>>
      BY <2>2, TableIs
    <2> HIDE DEF c, id, First
    <2>7. /\ Elements(Push(c, id)) = Elements(c) \cup {id}
          /\ WithoutDuplicates(c) /\ id \notin Elements(c) => WithoutDuplicates(Push(c, id))
      BY <2>2, <2>6, PushIs
    <2> HIDE DEF Apart
    <2> QED BY <2>2, <2>3, <2>4, <2>5, <2>7
  <1>5. n \in S
    <2> HIDE DEF S
    <2>1. Nat \subseteq S
      BY <1>3, <1>4, Induction
    <2> QED BY <1>1, <2>1
  <1>6. First(n) = ToSet(s)
    BY <1>1 DEF ToSet
  <1>7. Elements(F[1..n]) = Elements(b) \cup First(n) /\ (Apart => WithoutDuplicates(F[1..n]))
    BY <1>1, <1>5
  <1>8. Table(F[1..n]) /\ Len(F[1..n]) = Len(b)
    BY <1>1, <1>2
  <1> HIDE DEF First
  <1> QED BY <1>2, <1>6, <1>7, <1>8

\* Another table of the same ids, with room for capacity + LoadFactor.
LEMMA ReallocateBucketsIs ==
    ASSUME NEW b, Table(b), NEW capacity \in Nat
    PROVE  LET c == ReallocateBuckets(b, capacity)
           IN  /\ Table(c) /\ c # <<>> /\ Elements(c) = Elements(b)
               /\ capacity + LoadFactor <= LoadFactor * Len(c)
               /\ WithoutDuplicates(b) => WithoutDuplicates(c)
  <1> DEFINE new == CreateBuckets(capacity)
             s == FlattenSeq(b)
             c == FoldLeft(Push, new, s)
  <1>1. /\ Table(new) /\ new # <<>> /\ Elements(new) = {} /\ WithoutDuplicates(new)
        /\ capacity + LoadFactor <= LoadFactor * Len(new)
    BY CreateBucketsIs
  <1>2. s \in Seq(Ids) /\ ToSet(s) = Elements(b) /\ (WithoutDuplicates(b) => Distinct(s))
    BY TableIs
  <1> HIDE DEF new, s
  <1>3. /\ Table(c) /\ Len(c) = Len(new) /\ Elements(c) = Elements(new) \cup ToSet(s)
        /\ WithoutDuplicates(new) /\ Distinct(s) /\ ToSet(s) \cap Elements(new) = {}
               => WithoutDuplicates(c)
    BY <1>1, <1>2, PushAllIs
  <1>4. ReallocateBuckets(b, capacity) = c
    BY DEF ReallocateBuckets, new, s
  <1> HIDE DEF c
  <1>5. c # <<>>
    BY <1>1, <1>3, TableIs
  <1> QED BY <1>1, <1>2, <1>3, <1>4, <1>5

\* Sorting all buckets.
LEMMA SortAllBucketsIs ==
    ASSUME NEW b, Table(b)
    PROVE  LET c == SortAllBuckets(b)
           IN  /\ Table(c) /\ Len(c) = Len(b) /\ Elements(c) = Elements(b)
               /\ \A i \in DOMAIN c : \A j, k \in DOMAIN c[i] : j <= k => c[i][j] <= c[i][k]
               /\ WithoutDuplicates(b) => \A i \in DOMAIN c : Ascending(c[i])
  <1> DEFINE c == SortAllBuckets(b)
  <1>1. /\ Len(b) \in Nat /\ DOMAIN b = 1..Len(b) /\ \A i \in DOMAIN b : b[i] \in Seq(Ids)
    BY TableIs
  <1>2. DOMAIN c = DOMAIN b /\ \A i \in DOMAIN b : c[i] = Sorted(b[i])
    BY DEF SortAllBuckets
  <1>3. \A i \in DOMAIN b : c[i] \in Seq(Ids) /\ ToSet(c[i]) = ToSet(b[i])
    BY <1>1, <1>2, SortedIs
  <1>4. c \in Seq(Seq(Ids)) /\ Len(c) = Len(b)
    <2>1. c = [i \in 1..Len(b) |-> Sorted(b[i])]
      BY <1>1 DEF SortAllBuckets
    <2>2. c \in [1..Len(b) -> Seq(Ids)]
      BY <1>1, <1>2, <1>3, <2>1
    <2> HIDE DEF c
    <2> QED BY <1>1, <2>2, IsASeq, LenProperties
  <1>5. \A i \in DOMAIN b : \A j, k \in DOMAIN c[i] : j <= k => c[i][j] <= c[i][k]
    BY <1>1, <1>2, SortedIs
  <1>6. WithoutDuplicates(b) => \A i \in DOMAIN b : Ascending(c[i])
    BY <1>1, <1>2, SortedIs DEF WithoutDuplicates
  <1> HIDE DEF c
  <1>7. Table(c)
    BY <1>2, <1>3, <1>4 DEF Table
  <1>8. Elements(c) = Elements(b)
    BY <1>2, <1>3 DEF Elements
  <1> QED BY <1>2, <1>4, <1>5, <1>6, <1>7, <1>8 DEF c
-----------------------------------------------------------------------------
(***************************************************************************)
(* Dropping duplicates.                                                    *)
(***************************************************************************)
\* What dedup does with the next id.
Keep(kept, id) == IF kept # <<>> /\ Last(kept) = id THEN kept ELSE Append(kept, id)

LEMMA KeepIs ==
    ASSUME NEW kept \in Seq(Ids), Ascending(kept), NEW id \in Ids,
           kept # <<>> => Last(kept) <= id
    PROVE  LET new == Keep(kept, id)
           IN  /\ new \in Seq(Ids) /\ Ascending(new) /\ new # <<>> /\ Last(new) = id
               /\ ToSet(new) = ToSet(kept) \cup {id}
  <1> DEFINE n == Len(kept)
             new == Append(kept, id)
  <1>1. n \in Nat /\ DOMAIN kept = 1..n /\ (kept # <<>> <=> n # 0) /\ \A i \in 1..n : kept[i] \in Ids
    BY LenProperties, EmptySeq
  <1>2. id \in Nat /\ \A i \in 1..n : kept[i] \in Nat
    BY <1>1, IdsAreNumbers
  <1>3. CASE kept # <<>> /\ Last(kept) = id
    <2>1. n \in DOMAIN kept /\ kept[n] = id
      BY <1>1, <1>3 DEF Last
    <2>2. id \in ToSet(kept)
      BY <2>1 DEF ToSet
    <2> QED BY <1>3, <2>2 DEF Keep
  <1>4. CASE ~ (kept # <<>> /\ Last(kept) = id)
    <2>1. /\ new \in Seq(Ids) /\ Len(new) = n + 1 /\ DOMAIN new = 1..(n + 1)
          /\ new[n + 1] = id /\ \A i \in 1..n : new[i] = kept[i]
      <3>1. new \in Seq(Ids) /\ Len(new) = n + 1 /\ new[n + 1] = id /\ \A i \in 1..n : new[i] = kept[i]
        BY AppendProperties
      <3> HIDE DEF new
      <3> QED BY <3>1, LenProperties
    <2>2. Keep(kept, id) = new
      BY <1>4 DEF Keep
    <2>3. ToSet(new) = ToSet(kept) \cup {id}
      <3>1. new = kept \o <<id>> /\ <<id>> \in Seq(Ids) /\ ToSet(<<id>>) = {id}
        BY AppendIsConcat DEF ToSet
      <3>2. \A s, t \in Seq(Ids) : ToSet(s \o t) = ToSet(s) \cup ToSet(t)
        BY ConcatSet
      <3> HIDE DEF new
      <3> QED BY <3>1, <3>2, Zenon
    <2>4. \A i, j \in 1..n : i < j => kept[i] < kept[j]
      BY <1>1 DEF Ascending
    <2>5. \A i \in 1..n : kept[i] < id
      <3> TAKE i \in 1..n
      <3>1. n # 0 /\ kept # <<>> /\ kept[n] <= id /\ kept[n] # id /\ n \in 1..n
        BY <1>1, <1>4 DEF Last
      <3>2. kept[i] <= kept[n]
        BY <1>1, <1>2, <2>4, <3>1
      <3> QED BY <1>2, <3>1, <3>2
    <2> HIDE DEF new
    <2>6. ASSUME NEW i \in 1..(n + 1), NEW j \in 1..(n + 1), i < j PROVE new[i] < new[j]
      <3>1. i \in 1..n
        BY <1>1, <2>6
      <3>2. CASE j \in 1..n
        BY <2>1, <2>4, <2>6, <3>1, <3>2
      <3>3. CASE j = n + 1
        BY <2>1, <2>5, <3>1, <3>3
      <3> QED BY <1>1, <3>2, <3>3
    <2>7. Ascending(new)
      BY <2>1, <2>6 DEF Ascending
    <2>8. new # <<>> /\ Last(new) = id
      BY <1>1, <2>1, EmptySeq DEF Last
    <2> QED BY <2>1, <2>2, <2>3, <2>7, <2>8
  <1> QED BY <1>3, <1>4

Keeps(F, s) ==
    /\ Dedup(s) = F[1..Len(s)] /\ F[1..0] = <<>>
    /\ \A i \in 0..Len(s) : F[1..i] \in Seq(Ids)
    /\ \A i \in 1..Len(s) : F[1..i] = Keep(F[1..(i - 1)], s[i])

LEMMA DedupFold ==
    ASSUME NEW s \in Seq(Ids)
    PROVE  \E F : Keeps(F, s)
  <1> DEFINE n == Len(s)
             V == Seq(Ids)
             step == [p \in (1..n) \X V |-> Keep(p[2], s[p[1]])]
             F == CHOOSE f : f = [t \in SUBSET DOMAIN s |->
                                     IF t = {} THEN <<>> ELSE Keep(f[t \ {Max(t)}], s[Max(t)])]
  <1>1. n \in Nat /\ DOMAIN s = 1..n /\ \A i \in 1..n : s[i] \in Ids
    BY LenProperties
  <1>2. Dedup(s) = F[DOMAIN s]
    BY DEF Dedup, FoldLeft, MapThenFoldSet, Keep
  <1>3. \A c \in V, id \in Ids : Keep(c, id) \in V
    BY AppendProperties DEF Keep
  <1>4. <<>> \in V
    OBVIOUS
  <1> HIDE DEF n, V
  <1>5. step \in [(1..n) \X V -> V]
    BY <1>1, <1>3
  <1>6. PICK G \in [SUBSET (1..n) -> V] : RecursiveOnPrefixes(G, n, <<>>, step)
    <2> HIDE DEF step
    <2> QED BY <1>1, <1>4, <1>5, FoldExists
  <1>7. \A t \in SUBSET (1..n) : t # {} => Max(t) \in 1..n /\ t \ {Max(t)} \in SUBSET (1..n)
    BY <1>1, MaxIsIn
  <1>8. G = [t \in SUBSET DOMAIN s |-> IF t = {} THEN <<>> ELSE Keep(G[t \ {Max(t)}], s[Max(t)])]
    <2> SUFFICES ASSUME NEW t \in SUBSET (1..n)
                 PROVE  G[t] = IF t = {} THEN <<>> ELSE Keep(G[t \ {Max(t)}], s[Max(t)])
      BY <1>1
    <2>1. CASE t = {}
      BY <1>6, <2>1 DEF RecursiveOnPrefixes
    <2>2. CASE t # {}
      <3>1. G[t] = step[<<Max(t), G[t \ {Max(t)}]>>]
        BY <1>6, <2>2 DEF RecursiveOnPrefixes
      <3>2. <<Max(t), G[t \ {Max(t)}]>> \in (1..n) \X V
        BY <1>6, <1>7, <2>2
      <3> QED BY <2>2, <3>1, <3>2
    <2> QED BY <2>1, <2>2
  <1>9. F = [t \in SUBSET DOMAIN s |-> IF t = {} THEN <<>> ELSE Keep(F[t \ {Max(t)}], s[Max(t)])]
    BY <1>8, Zenon
  <1> HIDE DEF F
  <1>10. F[{}] = <<>>
    BY <1>9
  <1>11. ASSUME NEW t \in SUBSET (1..n), t # {}, F[t \ {Max(t)}] \in V
         PROVE  F[t] = step[<<Max(t), F[t \ {Max(t)}]>>]
    <2>1. F[t] = Keep(F[t \ {Max(t)}], s[Max(t)])
      BY <1>1, <1>9, <1>11
    <2>2. <<Max(t), F[t \ {Max(t)}]>> \in (1..n) \X V
      BY <1>7, <1>11
    <2> QED BY <2>1, <2>2
  <1>12. RunsThrough(F, n, V, <<>>, step)
    <2> HIDE DEF step
    <2>1. FollowsOn(F, n, V, <<>>, step)
      BY <1>10, <1>11 DEF FollowsOn
    <2> QED BY <1>1, <1>4, <1>5, <2>1, FoldValues
  <1>13. \A i \in 1..n : F[1..i] = Keep(F[1..(i - 1)], s[i])
    <2> TAKE i \in 1..n
    <2>1. i - 1 \in 0..n
      BY <1>1
    <2>2. F[1..i] = step[<<i, F[1..(i - 1)]>>] /\ F[1..(i - 1)] \in V
      BY <1>12, <2>1 DEF RunsThrough
    <2> QED BY <2>2
  <1>14. F[1..0] = <<>> /\ \A i \in 0..n : F[1..i] \in Seq(Ids)
    BY <1>12 DEF V, RunsThrough
  <1>15. Dedup(s) = F[1..n]
    BY <1>1, <1>2
  <1>16. Keeps(F, s)
    BY <1>13, <1>14, <1>15 DEF n, Keeps
  <1> QED BY <1>16

LEMMA DedupIs ==
    ASSUME NEW s \in Seq(Ids), \A i, j \in DOMAIN s : i <= j => s[i] <= s[j]
    PROVE  Dedup(s) \in Seq(Ids) /\ Ascending(Dedup(s)) /\ ToSet(Dedup(s)) = ToSet(s)
  <1> DEFINE n == Len(s)
             First(i) == {s[j] : j \in 1..i}
  <1>1. n \in Nat /\ DOMAIN s = 1..n /\ \A i \in 1..n : s[i] \in Ids
    BY LenProperties
  <1>2. PICK F : /\ Dedup(s) = F[1..n] /\ F[1..0] = <<>>
                 /\ \A i \in 0..n : F[1..i] \in Seq(Ids)
                 /\ \A i \in 1..n : F[1..i] = Keep(F[1..(i - 1)], s[i])
    <2>1. PICK F : Keeps(F, s)
      BY DedupFold
    <2> QED BY <2>1 DEF Keeps
  <1> HIDE DEF n
  <1> DEFINE Complete(i) == ToSet(F[1..i]) = First(i)
             Once(i) == Ascending(F[1..i])
             EndsIn(i) == i # 0 => F[1..i] # <<>> /\ Last(F[1..i]) = s[i]
             S == {i \in Nat : i <= n => Complete(i) /\ Once(i) /\ EndsIn(i)}
  <1>3. 0 \in S
    <2>1. First(0) = {}
      OBVIOUS
    <2>2. ToSet(<<>>) = {} /\ Ascending(<<>>)
      BY DEF ToSet, Ascending
    <2> QED BY <1>2, <2>1, <2>2
  <1>4. ASSUME NEW i \in Nat, i \in S PROVE i + 1 \in S
    <2> SUFFICES ASSUME i + 1 <= n PROVE Complete(i + 1) /\ Once(i + 1) /\ EndsIn(i + 1)
      OBVIOUS
    <2>1. i + 1 \in 1..n /\ (i + 1) - 1 = i /\ i \in 0..n /\ i <= n /\ i + 1 # 0
      BY <1>1
    <2> DEFINE c == F[1..i]
               id == s[i + 1]
    <2>2. /\ F[1..(i + 1)] = Keep(c, id) /\ c \in Seq(Ids) /\ id \in Ids
      BY <1>1, <1>2, <2>1
    <2>3. ToSet(c) = First(i) /\ Ascending(c) /\ EndsIn(i)
      BY <1>4, <2>1
    <2>4. First(i + 1) = First(i) \cup {id}
      <3>1. 1..(i + 1) = 1..i \cup {i + 1}
        OBVIOUS
      <3> QED BY <3>1, Zenon
    <2>5. c # <<>> => Last(c) <= id
      <3>1. CASE i = 0
        BY <1>2, <3>1
      <3>2. CASE i # 0
        <4>1. i \in DOMAIN s /\ i + 1 \in DOMAIN s /\ i <= i + 1
          BY <1>1, <2>1, <3>2
        <4>2. s[i] <= s[i + 1]
          BY <4>1
        <4> QED BY <2>3, <3>2, <4>2
      <3> QED BY <3>1, <3>2
    <2> HIDE DEF c, id, First
    <2>6. /\ Ascending(Keep(c, id)) /\ Keep(c, id) # <<>> /\ Last(Keep(c, id)) = id
          /\ ToSet(Keep(c, id)) = ToSet(c) \cup {id}
      BY <2>2, <2>3, <2>5, KeepIs
    <2> QED BY <2>2, <2>3, <2>4, <2>6 DEF id
  <1>5. n \in S
    <2> HIDE DEF S
    <2>1. Nat \subseteq S
      BY <1>3, <1>4, Induction
    <2> QED BY <1>1, <2>1
  <1>6. First(n) = ToSet(s)
    BY <1>1 DEF ToSet
  <1>7. Complete(n) /\ Once(n) /\ F[1..n] \in Seq(Ids)
    BY <1>1, <1>2, <1>5
  <1> HIDE DEF First
  <1> QED BY <1>2, <1>6, <1>7
-----------------------------------------------------------------------------
(***************************************************************************)
(* The engine.  Sound is what every call relies on and leaves behind;      *)
(* Light is the load factor, which an iterator can exceed that gives more  *)
(* ids than it said.                                                       *)
(***************************************************************************)
Sound(e) ==
    /\ e \in [buckets : Seq(Seq(Ids)), len : Nat]
    /\ Table(e.buckets)
    /\ \A i \in DOMAIN e.buckets : Ascending(e.buckets[i])
    /\ e.len = Cardinality(Elements(e.buckets))

Light(e) == e.len <= LoadFactor * Len(e.buckets)

LEMMA LoadFactorIs ==
    /\ LoadFactor \in Nat \ {0}
    /\ \A n \in Nat : LoadFactor * n \in Nat /\ (LoadFactor * n = 0 => n = 0)
  <1>1. LoadFactor \in Nat \ {0}
    BY IdAssumption
  <1>2. \A f \in Nat \ {0}, n \in Nat : f * n \in Nat /\ (f * n = 0 => n = 0)
    OBVIOUS
  <1> QED BY <1>1, <1>2

LEMMA SoundIs ==
    ASSUME NEW e, Sound(e)
    PROVE  /\ Table(e.buckets) /\ WithoutDuplicates(e.buckets)
           /\ e.len \in Nat /\ Len(e.buckets) \in Nat
           /\ e.buckets = <<>> => e.len = 0
           /\ Elements(e.buckets) \subseteq Ids /\ IsFiniteSet(Elements(e.buckets))
           /\ \A id \in Ids : e.buckets # <<>> =>
                  /\ IdIndex(Len(e.buckets), id) \in DOMAIN e.buckets
                  /\ Holds(e.buckets, id) <=> id \in Elements(e.buckets)
  <1> DEFINE b == e.buckets
  <1>1. /\ Table(b) /\ e.len \in Nat /\ e.len = Cardinality(Elements(b))
        /\ \A i \in DOMAIN b : Ascending(b[i])
    BY DEF Sound
  <1> HIDE DEF b
  <1>2. /\ Len(b) \in Nat /\ DOMAIN b = 1..Len(b)
        /\ \A i \in DOMAIN b : b[i] \in Seq(Ids)
        /\ Elements(b) \subseteq Ids /\ IsFiniteSet(Elements(b))
    BY <1>1, TableIs
  <1>3. WithoutDuplicates(b)
    BY <1>1, <1>2, AscendingIsDistinct DEF WithoutDuplicates
  <1>4. b = <<>> => e.len = 0
    <2>1. Elements(<<>>) = {}
      BY DEF Elements
    <2> QED BY <1>1, <2>1, FS_EmptySet
  <1>5. ASSUME NEW id \in Ids, b # <<>>
        PROVE  IdIndex(Len(b), id) \in DOMAIN b /\ (Holds(b, id) <=> id \in Elements(b))
    <2> DEFINE i == IdIndex(Len(b), id)
    <2>1. i \in DOMAIN b /\ (id \in Elements(b) <=> id \in ToSet(b[i]))
      BY <1>1, <1>5, TableIs
    <2>2. Holds(b, id) <=> Found(b[i], id)
      BY DEF Holds
    <2> HIDE DEF i
    <2>3. b[i] \in Seq(Ids) /\ Ascending(b[i])
      BY <1>1, <1>2, <2>1
    <2>4. Found(b[i], id) <=> id \in ToSet(b[i])
      BY <2>3, SearchIs
    <2> QED BY <2>1, <2>2, <2>4 DEF i
  <1> QED BY <1>1, <1>2, <1>3, <1>4, <1>5 DEF b

\* The table in which add_id looks and inserts has room for one more.
LEMMA RoomIs ==
    ASSUME NEW e, Sound(e)
    PROVE  LET b == IF Exceeds(e.buckets, e.len, 1)
                    THEN SortAllBuckets(ReallocateBuckets(e.buckets, e.len + 1)) ELSE e.buckets
           IN  /\ Sound([buckets |-> b, len |-> e.len]) /\ b # <<>>
               /\ Elements(b) = Elements(e.buckets) /\ e.len + 1 <= LoadFactor * Len(b)
  <1> DEFINE b == IF Exceeds(e.buckets, e.len, 1)
                  THEN SortAllBuckets(ReallocateBuckets(e.buckets, e.len + 1)) ELSE e.buckets
  <1>0. /\ Table(e.buckets) /\ WithoutDuplicates(e.buckets) /\ e.len \in Nat
        /\ e.len = Cardinality(Elements(e.buckets)) /\ Len(e.buckets) \in Nat
        /\ \A i \in DOMAIN e.buckets : Ascending(e.buckets[i])
    BY SoundIs DEF Sound
  <1>1. /\ Table(b) /\ Elements(b) = Elements(e.buckets)
        /\ \A i \in DOMAIN b : Ascending(b[i])
        /\ e.len + 1 <= LoadFactor * Len(b)
    <2>1. CASE Exceeds(e.buckets, e.len, 1)
      <3> DEFINE c == ReallocateBuckets(e.buckets, e.len + 1)
                 d == SortAllBuckets(c)
      <3>0. e.len + 1 \in Nat
        BY <1>0
      <3>1. /\ Table(c) /\ Elements(c) = Elements(e.buckets)
            /\ (e.len + 1) + LoadFactor <= LoadFactor * Len(c) /\ WithoutDuplicates(c)
        BY <1>0, <3>0, ReallocateBucketsIs
      <3> HIDE DEF c
      <3>2. /\ Table(d) /\ Len(d) = Len(c) /\ Elements(d) = Elements(c)
            /\ \A i \in DOMAIN d : Ascending(d[i])
        BY <3>1, SortAllBucketsIs
      <3>3. e.len + 1 <= LoadFactor * Len(d)
        <4>1. Len(d) \in Nat /\ LoadFactor * Len(d) \in Nat /\ LoadFactor \in Nat
          BY <3>2, TableIs, LoadFactorIs
        <4> QED BY <1>0, <3>1, <3>2, <4>1
      <3>4. b = d
        BY <2>1 DEF c
      <3> HIDE DEF d, b
      <3> QED BY <3>1, <3>2, <3>3, <3>4
    <2>2. CASE ~ Exceeds(e.buckets, e.len, 1)
      <3>1. ~ (e.len + 1 > LoadFactor * Len(e.buckets))
        BY <2>2 DEF Exceeds
      <3>2. LoadFactor * Len(e.buckets) \in Nat
        BY <1>0, LoadFactorIs
      <3> QED BY <1>0, <2>2, <3>1, <3>2
    <2> QED BY <2>1, <2>2
  <1> HIDE DEF b
  <1>2. b # <<>>
    <2>1. Len(b) \in Nat /\ LoadFactor * 0 = 0
      BY <1>1, TableIs, LoadFactorIs
    <2>2. Len(b) # 0
      BY <1>0, <1>1, <2>1
    <2> QED BY <1>1, <2>2, TableIs
  <1>3. Sound([buckets |-> b, len |-> e.len])
    BY <1>0, <1>1 DEF Sound, Table
  <1> QED BY <1>1, <1>2, <1>3 DEF b

\* add_id.
LEMMA AddedIs ==
    ASSUME NEW e, Sound(e), NEW id \in Ids
    PROVE  LET f == Added(e, id)
           IN  /\ Sound(f) /\ Light(f) /\ Elements(f.buckets) = Elements(e.buckets) \cup {id}
               /\ f.len > e.len <=> id \notin Elements(e.buckets)
  <1> DEFINE b == IF Exceeds(e.buckets, e.len, 1)
                  THEN SortAllBuckets(ReallocateBuckets(e.buckets, e.len + 1)) ELSE e.buckets
             i == IdIndex(Len(b), id)
             new == InsertAt(b[i], Position(b[i], id), id)
             c == [b EXCEPT ![i] = new]
             f == Added(e, id)
  <1>1. /\ Sound([buckets |-> b, len |-> e.len]) /\ b # <<>>
        /\ Elements(b) = Elements(e.buckets) /\ e.len + 1 <= LoadFactor * Len(b)
    BY RoomIs
  <1>2. f = IF Found(b[i], id) THEN [buckets |-> b, len |-> e.len]
            ELSE [buckets |-> c, len |-> e.len + 1]
    BY DEF Added
  <1> HIDE DEF b, f
  <1>3. /\ Table(b) /\ \A j \in DOMAIN b : Ascending(b[j])
        /\ e.len \in Nat /\ e.len = Cardinality(Elements(b))
    BY <1>1 DEF Sound
  <1>4. /\ i \in DOMAIN b /\ (id \in Elements(b) <=> id \in ToSet(b[i]))
        /\ b[i] \in Seq(Ids) /\ Len(b) \in Nat /\ IsFiniteSet(Elements(b))
        /\ LoadFactor * Len(b) \in Nat
    BY <1>1, <1>3, TableIs, LoadFactorIs
  <1>5. Ascending(b[i]) /\ (Found(b[i], id) <=> id \in ToSet(b[i]))
    BY <1>3, <1>4, SearchIs
  <1>6. CASE Found(b[i], id)
    <2>1. f = [buckets |-> b, len |-> e.len]
      BY <1>2, <1>6
    <2>2. Elements(b) \cup {id} = Elements(b)
      BY <1>4, <1>5, <1>6
    <2>3. Light(f)
      BY <1>1, <1>3, <1>4, <2>1 DEF Light
    <2> QED BY <1>1, <1>3, <1>4, <1>5, <1>6, <2>1, <2>2, <2>3 DEF f
  <1>7. CASE ~ Found(b[i], id)
    <2>1. f = [buckets |-> c, len |-> e.len + 1]
      BY <1>2, <1>7
    <2>2. new \in Seq(Ids) /\ Ascending(new) /\ ToSet(new) = ToSet(b[i]) \cup {id}
      BY <1>4, <1>5, <1>7, InsertedIs
    <2>3. \A old \in ToSet(new) : IdIndex(Len(b), old) = i
      BY <1>3, <1>4, <2>2 DEF Table
    <2> HIDE DEF new, i
    <2>4. /\ Table(c) /\ Len(c) = Len(b) /\ DOMAIN c = DOMAIN b /\ c[i] = new
          /\ \A j \in DOMAIN b : j # i => c[j] = b[j]
          /\ Elements(c) = (Elements(b) \ ToSet(b[i])) \cup ToSet(new)
      <3>1. LET d == [b EXCEPT ![i] = new]
            IN  /\ Table(d) /\ Len(d) = Len(b) /\ DOMAIN d = DOMAIN b /\ d[i] = new
                /\ \A j \in DOMAIN b : j # i => d[j] = b[j]
                /\ Elements(d) = (Elements(b) \ ToSet(b[i])) \cup ToSet(new)
        BY <1>3, <1>4, <2>2, <2>3, ExceptIs, Zenon
      <3> QED BY <3>1
    <2> HIDE DEF c
    <2>5. ToSet(b[i]) \subseteq Elements(b)
      BY <1>4 DEF Elements
    <2>6. Elements(c) = Elements(b) \cup {id} /\ id \notin Elements(b)
      BY <1>4, <1>5, <1>7, <2>2, <2>4, <2>5
    <2>7. Cardinality(Elements(c)) = e.len + 1
      BY <1>3, <1>4, <2>6, FS_AddElement
    <2>8. \A j \in DOMAIN c : Ascending(c[j])
      BY <1>3, <2>2, <2>4
    <2>9. Sound(f)
      <3>1. c \in Seq(Seq(Ids)) /\ e.len + 1 \in Nat
        BY <1>3, <2>4 DEF Table
      <3>2. f \in [buckets : Seq(Seq(Ids)), len : Nat] /\ f.buckets = c /\ f.len = e.len + 1
        BY <2>1, <3>1
      <3> QED BY <2>4, <2>7, <2>8, <3>2 DEF Sound
    <2>10. Light(f)
      BY <1>1, <1>3, <1>4, <2>1, <2>4 DEF Light
    <2> QED BY <1>1, <1>3, <2>1, <2>6, <2>9, <2>10 DEF f
  <1> QED BY <1>6, <1>7 DEF f

\* The table in which remove_id looks.
LEMMA ReallocateOnRemoveIs ==
    ASSUME NEW e, Sound(e), e.len # 0
    PROVE  LET b == ReallocateOnRemove(e)
           IN  /\ Sound([buckets |-> b, len |-> e.len]) /\ b # <<>>
               /\ Elements(b) = Elements(e.buckets)
               /\ Light(e) => e.len <= LoadFactor * Len(b)
  <1> DEFINE b == ReallocateOnRemove(e)
  <1>0. /\ Table(e.buckets) /\ WithoutDuplicates(e.buckets) /\ e.len \in Nat /\ e.buckets # <<>>
        /\ e.len = Cardinality(Elements(e.buckets)) /\ e.buckets \in Seq(Seq(Ids))
        /\ \A i \in DOMAIN e.buckets : Ascending(e.buckets[i])
    BY SoundIs DEF Sound
  <1>1. CASE 8 * (e.len - 1) < 3 * LoadFactor * Len(e.buckets)
    <2> DEFINE c == ReallocateBuckets(e.buckets, e.len - 1)
               d == SortAllBuckets(c)
    <2>0. e.len - 1 \in Nat
      BY <1>0
    <2>1. /\ Table(c) /\ Elements(c) = Elements(e.buckets) /\ c # <<>>
          /\ (e.len - 1) + LoadFactor <= LoadFactor * Len(c) /\ WithoutDuplicates(c)
      BY <1>0, <2>0, ReallocateBucketsIs
    <2> HIDE DEF c
    <2>2. /\ Table(d) /\ Len(d) = Len(c) /\ Elements(d) = Elements(c)
          /\ \A i \in DOMAIN d : Ascending(d[i])
      BY <2>1, SortAllBucketsIs
    <2>3. e.len <= LoadFactor * Len(d)
      <3>1. Len(d) \in Nat /\ LoadFactor * Len(d) \in Nat /\ LoadFactor \in Nat \ {0}
        BY <2>2, TableIs, LoadFactorIs
      <3> QED BY <1>0, <2>1, <2>2, <3>1
    <2>4. b = d
      BY <1>1 DEF c, ReallocateOnRemove
    <2>5. d # <<>>
      BY <2>1, <2>2, TableIs
    <2> HIDE DEF d, b
    <2>6. Sound([buckets |-> b, len |-> e.len])
      BY <1>0, <2>1, <2>2, <2>4 DEF Sound, Table
    <2> QED BY <2>1, <2>2, <2>3, <2>4, <2>5, <2>6 DEF b
  <1>2. CASE ~ (8 * (e.len - 1) < 3 * LoadFactor * Len(e.buckets))
    <2>1. b = e.buckets
      BY <1>2 DEF ReallocateOnRemove
    <2>2. Sound([buckets |-> e.buckets, len |-> e.len])
      BY <1>0 DEF Sound
    <2> QED BY <1>0, <2>1, <2>2 DEF Light
  <1> QED BY <1>1, <1>2

\* remove_id, of an engine that is not empty.
LEMMA RemovedFromIs ==
    ASSUME NEW e, Sound(e), e.len # 0, NEW id \in Ids
    PROVE  LET b == ReallocateOnRemove(e)
               i == IdIndex(Len(b), id)
               found == Found(b[i], id)
               f == IF found
                    THEN [buckets |-> [b EXCEPT ![i] = RemoveAt(@, Position(@, id))],
                          len |-> e.len - 1]
                    ELSE [e EXCEPT !.buckets = b]
           IN  /\ Sound(f)
               /\ Light(e) => Light(f)
               /\ Elements(f.buckets) = Elements(e.buckets) \ {id}
               /\ found <=> id \in Elements(e.buckets)
  <1> DEFINE b == ReallocateOnRemove(e)
             i == IdIndex(Len(b), id)
             found == Found(b[i], id)
             new == RemoveAt(b[i], Position(b[i], id))
             c == [b EXCEPT ![i] = new]
             f == IF found
                  THEN [buckets |-> [b EXCEPT ![i] = RemoveAt(@, Position(@, id))],
                        len |-> e.len - 1]
                  ELSE [e EXCEPT !.buckets = b]
  <1>0. e \in [buckets : Seq(Seq(Ids)), len : Nat]
    BY DEF Sound
  <1>1. /\ Sound([buckets |-> b, len |-> e.len]) /\ b # <<>>
        /\ Elements(b) = Elements(e.buckets)
        /\ Light(e) => e.len <= LoadFactor * Len(b)
    BY ReallocateOnRemoveIs
  <1>2. f = IF found THEN [buckets |-> c, len |-> e.len - 1] ELSE [buckets |-> b, len |-> e.len]
    BY <1>0
  <1> HIDE DEF b, f
  <1>3. /\ Table(b) /\ \A j \in DOMAIN b : Ascending(b[j])
        /\ e.len \in Nat /\ e.len = Cardinality(Elements(b))
    BY <1>1 DEF Sound
  <1>4. /\ i \in DOMAIN b /\ (id \in Elements(b) <=> id \in ToSet(b[i]))
        /\ b[i] \in Seq(Ids) /\ Len(b) \in Nat /\ IsFiniteSet(Elements(b))
        /\ LoadFactor * Len(b) \in Nat
    BY <1>1, <1>3, TableIs, LoadFactorIs
  <1>5. Ascending(b[i]) /\ (found <=> id \in ToSet(b[i]))
    BY <1>3, <1>4, SearchIs
  <1>6. CASE ~ found
    <2>1. f = [buckets |-> b, len |-> e.len]
      BY <1>2, <1>6
    <2>2. Elements(b) \ {id} = Elements(b)
      BY <1>4, <1>5, <1>6
    <2>3. Light(e) => Light(f)
      BY <1>1, <2>1 DEF Light
    <2> QED BY <1>1, <1>4, <1>5, <2>1, <2>2, <2>3 DEF f, b
  <1>7. CASE found
    <2>1. f = [buckets |-> c, len |-> e.len - 1]
      BY <1>2, <1>7
    <2>2. new \in Seq(Ids) /\ Ascending(new) /\ ToSet(new) = ToSet(b[i]) \ {id}
      BY <1>4, <1>5, <1>7, RemovedIs
    <2>3. \A old \in ToSet(new) : IdIndex(Len(b), old) = i
      BY <1>3, <1>4, <2>2 DEF Table
    <2>11. id \in ToSet(b[i]) /\ id \in Elements(b)
      BY <1>4, <1>5, <1>7
    <2> HIDE DEF new, i
    <2>4. /\ Table(c) /\ Len(c) = Len(b) /\ DOMAIN c = DOMAIN b /\ c[i] = new
          /\ \A j \in DOMAIN b : j # i => c[j] = b[j]
          /\ Elements(c) = (Elements(b) \ ToSet(b[i])) \cup ToSet(new)
      <3>1. LET d == [b EXCEPT ![i] = new]
            IN  /\ Table(d) /\ Len(d) = Len(b) /\ DOMAIN d = DOMAIN b /\ d[i] = new
                /\ \A j \in DOMAIN b : j # i => d[j] = b[j]
                /\ Elements(d) = (Elements(b) \ ToSet(b[i])) \cup ToSet(new)
        BY <1>3, <1>4, <2>2, <2>3, ExceptIs, Zenon
      <3> QED BY <3>1
    <2> HIDE DEF c
    <2>5. ToSet(b[i]) \subseteq Elements(b)
      BY <1>4 DEF Elements
    <2>6. Elements(c) = Elements(b) \ {id}
      BY <2>2, <2>4, <2>5, <2>11
    <2>7. Cardinality(Elements(c)) = e.len - 1 /\ e.len - 1 \in Nat
      <3>1. Cardinality(Elements(b) \ {id}) = Cardinality(Elements(b)) - 1
        BY <1>4, <2>11, FS_RemoveElement
      <3> QED BY <1>3, <2>6, <3>1
    <2>8. \A j \in DOMAIN c : Ascending(c[j])
      BY <1>3, <2>2, <2>4
    <2>9. Sound(f)
      BY <2>1, <2>4, <2>7, <2>8 DEF Sound, Table
    <2>10. Light(e) => Light(f)
      BY <1>1, <1>3, <1>4, <2>1, <2>4 DEF Light
    <2> QED BY <1>1, <1>7, <2>1, <2>6, <2>9, <2>10, <2>11 DEF f, b, i
  <1> QED BY <1>6, <1>7
-----------------------------------------------------------------------------
(***************************************************************************)
(* extend.                                                                 *)
(***************************************************************************)
Adds(F, e, s) ==
    /\ FoldLeft(Added, e, s) = F[1..Len(s)] /\ F[1..0] = e
    /\ \A i \in 0..Len(s) : Sound(F[1..i])
    /\ \A i \in 1..Len(s) : F[1..i] = Added(F[1..(i - 1)], s[i])

LEMMA AddFold ==
    ASSUME NEW e, Sound(e), NEW s \in Seq(Ids)
    PROVE  \E F : Adds(F, e, s)
  <1> DEFINE n == Len(s)
             V == {f \in [buckets : Seq(Seq(Ids)), len : Nat] : Sound(f)}
             step == [p \in (1..n) \X V |-> Added(p[2], s[p[1]])]
             F == CHOOSE f : f = [t \in SUBSET DOMAIN s |->
                                     IF t = {} THEN e ELSE Added(f[t \ {Max(t)}], s[Max(t)])]
  <1>1. n \in Nat /\ DOMAIN s = 1..n /\ \A i \in 1..n : s[i] \in Ids
    BY LenProperties
  <1>2. FoldLeft(Added, e, s) = F[DOMAIN s]
    BY DEF FoldLeft, MapThenFoldSet
  <1>3. \A f \in V, id \in Ids : Added(f, id) \in V
    <2> TAKE f \in V, id \in Ids
    <2>1. Sound(Added(f, id))
      BY AddedIs
    <2> QED BY <2>1 DEF Sound
  <1>4. e \in V
    BY DEF Sound
  <1> HIDE DEF n, V
  <1>5. step \in [(1..n) \X V -> V]
    BY <1>1, <1>3
  <1>6. PICK G \in [SUBSET (1..n) -> V] : RecursiveOnPrefixes(G, n, e, step)
    <2> HIDE DEF step
    <2> QED BY <1>1, <1>4, <1>5, FoldExists
  <1>7. \A t \in SUBSET (1..n) : t # {} => Max(t) \in 1..n /\ t \ {Max(t)} \in SUBSET (1..n)
    BY <1>1, MaxIsIn
  <1>8. G = [t \in SUBSET DOMAIN s |->
                IF t = {} THEN e ELSE Added(G[t \ {Max(t)}], s[Max(t)])]
    <2> SUFFICES ASSUME NEW t \in SUBSET (1..n)
                 PROVE  G[t] = IF t = {} THEN e ELSE Added(G[t \ {Max(t)}], s[Max(t)])
      BY <1>1
    <2>1. CASE t = {}
      BY <1>6, <2>1 DEF RecursiveOnPrefixes
    <2>2. CASE t # {}
      <3>1. G[t] = step[<<Max(t), G[t \ {Max(t)}]>>]
        BY <1>6, <2>2 DEF RecursiveOnPrefixes
      <3>2. <<Max(t), G[t \ {Max(t)}]>> \in (1..n) \X V /\ Max(t) \in 1..n
        BY <1>6, <1>7, <2>2
      <3> QED BY <1>1, <2>2, <3>1, <3>2
    <2> QED BY <2>1, <2>2
  <1>9. F = [t \in SUBSET DOMAIN s |->
                IF t = {} THEN e ELSE Added(F[t \ {Max(t)}], s[Max(t)])]
    BY <1>8, Zenon
  <1> HIDE DEF F
  <1>10. F[{}] = e
    BY <1>9
  <1>11. ASSUME NEW t \in SUBSET (1..n), t # {}, F[t \ {Max(t)}] \in V
         PROVE  F[t] = step[<<Max(t), F[t \ {Max(t)}]>>]
    <2>1. F[t] = Added(F[t \ {Max(t)}], s[Max(t)])
      BY <1>1, <1>9, <1>11
    <2>2. <<Max(t), F[t \ {Max(t)}]>> \in (1..n) \X V /\ Max(t) \in 1..n
      BY <1>7, <1>11
    <2> QED BY <1>1, <2>1, <2>2
  <1>12. RunsThrough(F, n, V, e, step)
    <2> HIDE DEF step
    <2>1. FollowsOn(F, n, V, e, step)
      BY <1>10, <1>11 DEF FollowsOn
    <2> QED BY <1>1, <1>4, <1>5, <2>1, FoldValues
  <1>13. \A i \in 1..n : F[1..i] = Added(F[1..(i - 1)], s[i])
    <2> TAKE i \in 1..n
    <2>1. i - 1 \in 0..n
      BY <1>1
    <2>2. F[1..i] = step[<<i, F[1..(i - 1)]>>] /\ F[1..(i - 1)] \in V
      BY <1>12, <2>1 DEF RunsThrough
    <2> QED BY <2>2
  <1>14. F[1..0] = e /\ \A i \in 0..n : Sound(F[1..i])
    BY <1>12 DEF V, RunsThrough
  <1>15. FoldLeft(Added, e, s) = F[1..n]
    BY <1>1, <1>2
  <1>16. Adds(F, e, s)
    BY <1>13, <1>14, <1>15 DEF n, Adds
  <1> QED BY <1>16

\* The ids are added one by one.
LEMMA AddAllIs ==
    ASSUME NEW e, Sound(e), NEW s \in Seq(Ids)
    PROVE  LET f == FoldLeft(Added, e, s)
           IN  /\ Sound(f)
               /\ Light(e) => Light(f)
               /\ Elements(f.buckets) = Elements(e.buckets) \cup ToSet(s)
  <1> DEFINE n == Len(s)
             First(i) == {s[j] : j \in 1..i}
  <1>1. n \in Nat /\ DOMAIN s = 1..n /\ \A i \in 1..n : s[i] \in Ids
    BY LenProperties
  <1>2. PICK F : /\ FoldLeft(Added, e, s) = F[1..n] /\ F[1..0] = e
                 /\ \A i \in 0..n : Sound(F[1..i])
                 /\ \A i \in 1..n : F[1..i] = Added(F[1..(i - 1)], s[i])
    <2>1. PICK F : Adds(F, e, s)
      BY AddFold
    <2> QED BY <2>1 DEF Adds
  <1> HIDE DEF n
  <1> DEFINE Complete(i) == Elements(F[1..i].buckets) = Elements(e.buckets) \cup First(i)
             Fits(i) == Light(e) => Light(F[1..i])
             S == {i \in Nat : i <= n => Complete(i) /\ Fits(i)}
  <1>3. 0 \in S
    <2>1. First(0) = {}
      OBVIOUS
    <2> QED BY <1>2, <2>1
  <1>4. ASSUME NEW i \in Nat, i \in S PROVE i + 1 \in S
    <2> SUFFICES ASSUME i + 1 <= n PROVE Complete(i + 1) /\ Fits(i + 1)
      OBVIOUS
    <2>1. i + 1 \in 1..n /\ (i + 1) - 1 = i /\ i \in 0..n /\ i <= n
      BY <1>1
    <2> DEFINE c == F[1..i]
               id == s[i + 1]
    <2>2. F[1..(i + 1)] = Added(c, id) /\ Sound(c) /\ id \in Ids
      BY <1>1, <1>2, <2>1
    <2>3. Elements(c.buckets) = Elements(e.buckets) \cup First(i)
      BY <1>4, <2>1
    <2>4. First(i + 1) = First(i) \cup {id}
      <3>1. 1..(i + 1) = 1..i \cup {i + 1}
        OBVIOUS
      <3> QED BY <3>1, Zenon
    <2> HIDE DEF c, id, First
    <2>5. Light(Added(c, id)) /\ Elements(Added(c, id).buckets) = Elements(c.buckets) \cup {id}
      BY <2>2, AddedIs
    <2> QED BY <2>2, <2>3, <2>4, <2>5
  <1>5. n \in S
    <2> HIDE DEF S
    <2>1. Nat \subseteq S
      BY <1>3, <1>4, Induction
    <2> QED BY <1>1, <2>1
  <1>6. First(n) = ToSet(s)
    BY <1>1 DEF ToSet
  <1>7. Complete(n) /\ Fits(n) /\ Sound(F[1..n])
    BY <1>1, <1>2, <1>5
  <1> HIDE DEF First
  <1> QED BY <1>2, <1>6, <1>7

\* reallocate_on_add without the sort.
LEMMA ReallocateOnAddIs ==
    ASSUME NEW b, Table(b), NEW len \in Nat, NEW added \in Nat
    PROVE  LET c == ReallocateOnAdd(b, len, added)
           IN  /\ Table(c) /\ Elements(c) = Elements(b)
               /\ len + added <= LoadFactor * Len(c)
               /\ b # <<>> \/ added # 0 => c # <<>>
  <1> DEFINE c == ReallocateOnAdd(b, len, added)
  <1>1. CASE Exceeds(b, len, added)
    <2>1. len + added \in Nat
      OBVIOUS
    <2> DEFINE d == ReallocateBuckets(b, len + added)
    <2>2. /\ Table(d) /\ d # <<>> /\ Elements(d) = Elements(b)
          /\ (len + added) + LoadFactor <= LoadFactor * Len(d)
      BY <2>1, ReallocateBucketsIs
    <2>3. c = d
      BY <1>1 DEF ReallocateOnAdd
    <2> HIDE DEF c, d
    <2>4. LoadFactor \in Nat /\ LoadFactor * Len(d) \in Nat
      BY <2>2, TableIs, LoadFactorIs
    <2>5. len + added <= LoadFactor * Len(d)
      BY <2>1, <2>2, <2>4
    <2> QED BY <2>2, <2>3, <2>5 DEF c
  <1>2. CASE ~ Exceeds(b, len, added)
    <2>1. c = b
      BY <1>2 DEF ReallocateOnAdd
    <2>2. ~ (len + added > LoadFactor * Len(b)) /\ LoadFactor * Len(b) \in Nat
      BY <1>2, TableIs, LoadFactorIs DEF Exceeds
    <2>3. added # 0 => b # <<>>
      <3>1. LoadFactor * 0 = 0
        BY LoadFactorIs
      <3>2. Len(b) = 0 => added = 0
        BY <2>2, <3>1
      <3> QED BY <3>2, TableIs
    <2>4. len + added <= LoadFactor * Len(b)
      BY <2>2
    <2> QED BY <2>1, <2>3, <2>4
  <1> QED BY <1>1, <1>2

\* The table into which the i-th id of a batch is pushed.
Grown(b, len, bound, i) == IF i > bound THEN ReallocateOnAdd(b, len, 1) ELSE b

PushesGrowing(F, e, s, bound) ==
    /\ Pushed(e, s, bound) = F[1..Len(s)] /\ F[1..0] = ReallocateOnAdd(e.buckets, e.len, bound)
    /\ \A i \in 0..Len(s) : Table(F[1..i]) /\ F[1..i] # <<>>
    /\ \A i \in 1..Len(s) : F[1..i] = Push(Grown(F[1..(i - 1)], e.len, bound, i), s[i])

LEMMA PushGrowingFold ==
    ASSUME NEW e, Sound(e), NEW s \in Seq(Ids), NEW bound \in Nat, e.buckets # <<>> \/ bound # 0
    PROVE  \E F : PushesGrowing(F, e, s, bound)
  <1> DEFINE n == Len(s)
             V == {c \in Seq(Seq(Ids)) : Table(c) /\ c # <<>>}
             base == ReallocateOnAdd(e.buckets, e.len, bound)
             at == [i \in DOMAIN s |-> i]
             step == [p \in (1..n) \X V |-> Push(Grown(p[2], e.len, bound, p[1]), s[p[1]])]
             F == CHOOSE f : f = [t \in SUBSET DOMAIN at |->
                                     IF t = {} THEN base ELSE Push(Grown(f[t \ {Max(t)}], e.len, bound, at[Max(t)]), s[at[Max(t)]])]
  <1>1. /\ n \in Nat /\ DOMAIN s = 1..n /\ DOMAIN at = 1..n
        /\ \A i \in 1..n : s[i] \in Ids /\ at[i] = i
    BY LenProperties
  <1>2. Pushed(e, s, bound) = F[DOMAIN at]
    BY DEF FoldLeft, MapThenFoldSet, Pushed, Grown
  <1>3. \A c \in V, id \in Ids, i \in 1..n : Push(Grown(c, e.len, bound, i), id) \in V
    <2> TAKE c \in V, id \in Ids, i \in 1..n
    <2> DEFINE d == Grown(c, e.len, bound, i)
    <2>1. Table(d) /\ d # <<>>
      <3>1. Table(c) /\ c # <<>> /\ e.len \in Nat
        BY SoundIs
      <3>2. LET r == ReallocateOnAdd(c, e.len, 1) IN Table(r) /\ r # <<>>
        BY <3>1, ReallocateOnAddIs
      <3> QED BY <3>1, <3>2 DEF Grown
    <2> HIDE DEF d
    <2>2. Table(Push(d, id)) /\ Len(Push(d, id)) = Len(d)
      BY <2>1, PushIs
    <2>3. Push(d, id) # <<>>
      BY <2>1, <2>2, TableIs
    <2> QED BY <2>2, <2>3 DEF Table, d
  <1>4. base \in V
    <2>1. Table(e.buckets) /\ e.len \in Nat
      BY SoundIs
    <2>2. Table(base) /\ base # <<>>
      BY <2>1, ReallocateOnAddIs
    <2> QED BY <2>2 DEF Table
  <1> HIDE DEF n, V, base, at
  <1>5. step \in [(1..n) \X V -> V]
    BY <1>1, <1>3
  <1>6. PICK G \in [SUBSET (1..n) -> V] : RecursiveOnPrefixes(G, n, base, step)
    <2> HIDE DEF step
    <2> QED BY <1>1, <1>4, <1>5, FoldExists
  <1>7. \A t \in SUBSET (1..n) : t # {} => Max(t) \in 1..n /\ t \ {Max(t)} \in SUBSET (1..n)
    BY <1>1, MaxIsIn
  <1>8. G = [t \in SUBSET DOMAIN at |->
                IF t = {} THEN base ELSE Push(Grown(G[t \ {Max(t)}], e.len, bound, at[Max(t)]), s[at[Max(t)]])]
    <2> SUFFICES ASSUME NEW t \in SUBSET (1..n)
                 PROVE  G[t] = IF t = {} THEN base ELSE Push(Grown(G[t \ {Max(t)}], e.len, bound, at[Max(t)]), s[at[Max(t)]])
      BY <1>1
    <2>1. CASE t = {}
      BY <1>6, <2>1 DEF RecursiveOnPrefixes
    <2>2. CASE t # {}
      <3>1. G[t] = step[<<Max(t), G[t \ {Max(t)}]>>]
        BY <1>6, <2>2 DEF RecursiveOnPrefixes
      <3>2. <<Max(t), G[t \ {Max(t)}]>> \in (1..n) \X V /\ Max(t) \in 1..n
        BY <1>6, <1>7, <2>2
      <3> QED BY <1>1, <2>2, <3>1, <3>2
    <2> QED BY <2>1, <2>2
  <1>9. F = [t \in SUBSET DOMAIN at |->
                IF t = {} THEN base ELSE Push(Grown(F[t \ {Max(t)}], e.len, bound, at[Max(t)]), s[at[Max(t)]])]
    BY <1>8, Zenon
  <1> HIDE DEF F
  <1>10. F[{}] = base
    BY <1>9
  <1>11. ASSUME NEW t \in SUBSET (1..n), t # {}, F[t \ {Max(t)}] \in V
         PROVE  F[t] = step[<<Max(t), F[t \ {Max(t)}]>>]
    <2>1. F[t] = Push(Grown(F[t \ {Max(t)}], e.len, bound, at[Max(t)]), s[at[Max(t)]])
      BY <1>1, <1>9, <1>11
    <2>2. <<Max(t), F[t \ {Max(t)}]>> \in (1..n) \X V /\ Max(t) \in 1..n
      BY <1>7, <1>11
    <2> QED BY <1>1, <2>1, <2>2
  <1>12. RunsThrough(F, n, V, base, step)
    <2> HIDE DEF step
    <2>1. FollowsOn(F, n, V, base, step)
      BY <1>10, <1>11 DEF FollowsOn
    <2> QED BY <1>1, <1>4, <1>5, <2>1, FoldValues
  <1>13. \A i \in 1..n : F[1..i] = Push(Grown(F[1..(i - 1)], e.len, bound, i), s[i])
    <2> TAKE i \in 1..n
    <2>1. i - 1 \in 0..n
      BY <1>1
    <2>2. F[1..i] = step[<<i, F[1..(i - 1)]>>] /\ F[1..(i - 1)] \in V
      BY <1>12, <2>1 DEF RunsThrough
    <2> QED BY <2>2
  <1>14. F[1..0] = base /\ \A i \in 0..n : Table(F[1..i]) /\ F[1..i] # <<>>
    BY <1>12 DEF V, RunsThrough
  <1>15. Pushed(e, s, bound) = F[1..n]
    BY <1>1, <1>2
  <1>16. PushesGrowing(F, e, s, bound)
    BY <1>13, <1>14, <1>15 DEF n, base, PushesGrowing
  <1> QED BY <1>16

\* What extend pushes: all ids are in, some perhaps twice, and if there are not more
\* than bound the table has room for bound ids more.
LEMMA PushedIs ==
    ASSUME NEW e, Sound(e), NEW s \in Seq(Ids), NEW bound \in Nat, e.buckets # <<>> \/ bound # 0
    PROVE  LET b == Pushed(e, s, bound)
           IN  /\ Table(b) /\ b # <<>> /\ Elements(b) = Elements(e.buckets) \cup ToSet(s)
               /\ Len(s) <= bound => e.len + bound <= LoadFactor * Len(b)
  <1> DEFINE n == Len(s)
             First(i) == {s[j] : j \in 1..i}
             base == ReallocateOnAdd(e.buckets, e.len, bound)
  <1>0. Table(e.buckets) /\ e.len \in Nat
    BY SoundIs
  <1>1. n \in Nat /\ DOMAIN s = 1..n /\ \A i \in 1..n : s[i] \in Ids
    BY LenProperties
  <1>2. PICK F : /\ Pushed(e, s, bound) = F[1..n] /\ F[1..0] = base
                 /\ \A i \in 0..n : Table(F[1..i]) /\ F[1..i] # <<>>
                 /\ \A i \in 1..n : F[1..i] = Push(Grown(F[1..(i - 1)], e.len, bound, i), s[i])
    <2>1. PICK F : PushesGrowing(F, e, s, bound)
      BY PushGrowingFold
    <2> QED BY <2>1 DEF PushesGrowing
  <1>3. Elements(base) = Elements(e.buckets) /\ e.len + bound <= LoadFactor * Len(base)
    BY <1>0, ReallocateOnAddIs
  <1> HIDE DEF n, base
  <1> DEFINE Complete(i) == Elements(F[1..i]) = Elements(e.buckets) \cup First(i)
             AsLong(i) == n <= bound => Len(F[1..i]) = Len(base)
             S == {i \in Nat : i <= n => Complete(i) /\ AsLong(i)}
  <1>4. 0 \in S
    <2>1. First(0) = {}
      OBVIOUS
    <2> QED BY <1>2, <1>3, <2>1
  <1>5. ASSUME NEW i \in Nat, i \in S PROVE i + 1 \in S
    <2> SUFFICES ASSUME i + 1 <= n PROVE Complete(i + 1) /\ AsLong(i + 1)
      OBVIOUS
    <2>1. i + 1 \in 1..n /\ (i + 1) - 1 = i /\ i \in 0..n /\ i <= n
      BY <1>1
    <2> DEFINE c == F[1..i]
               d == Grown(c, e.len, bound, i + 1)
               id == s[i + 1]
    <2>2. F[1..(i + 1)] = Push(d, id) /\ Table(c) /\ c # <<>> /\ id \in Ids
      BY <1>1, <1>2, <2>1
    <2>3. Elements(c) = Elements(e.buckets) \cup First(i) /\ (n <= bound => Len(c) = Len(base))
      BY <1>5, <2>1
    <2>4. First(i + 1) = First(i) \cup {id}
      <3>1. 1..(i + 1) = 1..i \cup {i + 1}
        OBVIOUS
      <3> QED BY <3>1, Zenon
    <2> HIDE DEF c, id, First
    <2>5. Table(d) /\ d # <<>> /\ Elements(d) = Elements(c)
      <3>1. LET r == ReallocateOnAdd(c, e.len, 1) IN Table(r) /\ r # <<>> /\ Elements(r) = Elements(c)
        BY <1>0, <2>2, ReallocateOnAddIs
      <3> QED BY <2>2, <3>1 DEF Grown
    <2>6. n <= bound => d = c
      BY <1>1, <2>1 DEF Grown
    <2> HIDE DEF d
    <2>7. Len(Push(d, id)) = Len(d) /\ Elements(Push(d, id)) = Elements(d) \cup {id}
      BY <2>2, <2>5, PushIs
    <2> QED BY <2>2, <2>3, <2>4, <2>5, <2>6, <2>7
  <1>6. n \in S
    <2> HIDE DEF S
    <2>1. Nat \subseteq S
      BY <1>4, <1>5, Induction
    <2> QED BY <1>1, <2>1
  <1>7. First(n) = ToSet(s)
    BY <1>1 DEF ToSet
  <1>8. Complete(n) /\ AsLong(n) /\ Table(F[1..n]) /\ F[1..n] # <<>>
    BY <1>1, <1>2, <1>6
  <1> HIDE DEF First
  <1>9. n <= bound => e.len + bound <= LoadFactor * Len(F[1..n])
    BY <1>3, <1>8
  <1> QED BY <1>2, <1>7, <1>8, <1>9 DEF n

LEMMA ExtendedAtOnceIs ==
    ASSUME NEW e, Sound(e), NEW s \in Seq(Ids), NEW bound \in Nat, e.buckets # <<>> \/ bound # 0
    PROVE  LET f == ExtendedAtOnce(e, s, bound)
           IN  /\ Sound(f)
               /\ Len(s) <= bound => Light(f)
               /\ Elements(f.buckets) = Elements(e.buckets) \cup ToSet(s)
  <1> DEFINE pushed == Pushed(e, s, bound)
             sorted == SortAllBuckets(pushed)
             b == [i \in DOMAIN sorted |-> Dedup(sorted[i])]
             len == Len(FlattenSeq(b))
             f == ExtendedAtOnce(e, s, bound)
  <1>1. /\ Table(pushed) /\ pushed # <<>> /\ Elements(pushed) = Elements(e.buckets) \cup ToSet(s)
        /\ Len(s) <= bound => e.len + bound <= LoadFactor * Len(pushed)
    BY PushedIs
  <1> HIDE DEF pushed
  <1>2. /\ Table(sorted) /\ Len(sorted) = Len(pushed) /\ Elements(sorted) = Elements(pushed)
        /\ \A i \in DOMAIN sorted : \A j, k \in DOMAIN sorted[i] : j <= k => sorted[i][j] <= sorted[i][k]
    BY <1>1, SortAllBucketsIs
  <1> HIDE DEF sorted
  <1>3. /\ Len(sorted) \in Nat /\ DOMAIN sorted = 1..Len(sorted)
        /\ \A i \in DOMAIN sorted : sorted[i] \in Seq(Ids)
    BY <1>2, TableIs
  <1>4. \A i \in DOMAIN sorted : /\ b[i] \in Seq(Ids) /\ Ascending(b[i])
                                 /\ ToSet(b[i]) = ToSet(sorted[i])
    BY <1>2, <1>3, DedupIs
  <1>5. DOMAIN b = DOMAIN sorted /\ b \in Seq(Seq(Ids)) /\ Len(b) = Len(sorted)
    <2>1. b \in [1..Len(sorted) -> Seq(Ids)] /\ DOMAIN b = DOMAIN sorted
      BY <1>3, <1>4
    <2> HIDE DEF b
    <2> QED BY <1>3, <2>1, IsASeq, LenProperties
  <1>6. f = [buckets |-> b, len |-> len]
    BY DEF ExtendedAtOnce, sorted, pushed
  <1> HIDE DEF b, f
  <1>7. Table(b)
    BY <1>2, <1>4, <1>5 DEF Table
  <1>8. Elements(b) = Elements(e.buckets) \cup ToSet(s)
    <2>1. Elements(b) = Elements(sorted)
      BY <1>4, <1>5 DEF Elements
    <2> QED BY <1>1, <1>2, <2>1
  <1>9. WithoutDuplicates(b)
    BY <1>4, <1>5, AscendingIsDistinct DEF WithoutDuplicates
  <1>10. len \in Nat /\ len = Cardinality(Elements(b))
    <2>1. /\ FlattenSeq(b) \in Seq(Ids) /\ ToSet(FlattenSeq(b)) = Elements(b)
          /\ Distinct(FlattenSeq(b)) /\ Cardinality(Elements(b)) \in Nat
      BY <1>7, <1>9, TableIs
    <2> QED BY <2>1, DistinctLen
  <1> HIDE DEF len
  <1>11. Sound(f)
    <2>1. f \in [buckets : Seq(Seq(Ids)), len : Nat] /\ f.buckets = b /\ f.len = len
      BY <1>5, <1>6, <1>10
    <2> QED BY <1>4, <1>5, <1>7, <1>10, <2>1 DEF Sound
  <1>12. ASSUME Len(s) <= bound PROVE Light(f)
    <2>1. /\ IsFiniteSet(Elements(e.buckets)) /\ e.len = Cardinality(Elements(e.buckets)) /\ e.len \in Nat
      BY SoundIs DEF Sound
    <2>2. /\ IsFiniteSet(ToSet(s)) /\ Cardinality(ToSet(s)) <= Len(s) /\ Len(s) \in Nat
          /\ Cardinality(ToSet(s)) \in Nat
      BY DistinctLen, FS_CardinalityType, LenProperties
    <2>3. Cardinality(Elements(e.buckets) \cup ToSet(s)) <= e.len + Cardinality(ToSet(s))
      <3> DEFINE A == Elements(e.buckets)
                 B == ToSet(s)
      <3>1. IsFiniteSet(A) /\ IsFiniteSet(B) /\ A \cap B \in SUBSET A
        BY <2>1, <2>2
      <3> HIDE DEF A, B
      <3>2. Cardinality(A \cup B) = Cardinality(A) + Cardinality(B) - Cardinality(A \cap B)
        BY <3>1, FS_Union
      <3>3. Cardinality(A \cap B) \in Nat /\ Cardinality(A) \in Nat /\ Cardinality(B) \in Nat
        BY <3>1, FS_Subset, FS_CardinalityType
      <3>4. Cardinality(A \cup B) <= Cardinality(A) + Cardinality(B)
        BY <3>2, <3>3
      <3> QED BY <2>1, <3>4 DEF A, B
    <2>4. LoadFactor * Len(b) \in Nat
      BY <1>7, TableIs, LoadFactorIs
    <2>5. len <= e.len + Len(s)
      BY <1>8, <1>10, <2>1, <2>2, <2>3
    <2>6. e.len + bound <= LoadFactor * Len(b)
      BY <1>1, <1>2, <1>5, <1>12
    <2>7. len <= LoadFactor * Len(b)
      BY <1>10, <1>12, <2>1, <2>2, <2>4, <2>5, <2>6
    <2> QED BY <1>6, <2>7 DEF Light
  <1>13. f.buckets = b
    BY <1>6
  <1> QED BY <1>8, <1>11, <1>12, <1>13 DEF f

\* extend, with an upper bound.
LEMMA ExtendedIs ==
    ASSUME NEW e, Sound(e), NEW s \in Seq(Ids), NEW bound \in Nat
    PROVE  LET f == Extended(e, s, bound)
           IN  /\ Sound(f)
               /\ Light(e) /\ Len(s) <= bound => Light(f)
               /\ Elements(f.buckets) = Elements(e.buckets) \cup ToSet(s)
  <1>1. bound # NoBound
    BY IdAssumption
  <1>2. Len(e.buckets) \in Nat /\ LoadFactor * Len(e.buckets) \in Nat /\ LoadFactor * 0 = 0
    BY SoundIs, LoadFactorIs
  <1>3. CASE bound > (LoadFactor * Len(e.buckets)) \div 2
    <2>1. bound # 0
      <3>1. \A k \in Nat : k \div 2 \in Nat
        OBVIOUS
      <3> QED BY <1>2, <1>3, <3>1
    <2>2. Extended(e, s, bound) = ExtendedAtOnce(e, s, bound)
      BY <1>1, <1>3 DEF Extended
    <2> QED BY <2>1, <2>2, ExtendedAtOnceIs
  <1>4. CASE ~ (bound > (LoadFactor * Len(e.buckets)) \div 2)
    <2>1. Extended(e, s, bound) = FoldLeft(Added, e, s)
      BY <1>1, <1>4 DEF Extended
    <2> QED BY <2>1, AddAllIs
  <1> QED BY <1>3, <1>4

\* A new engine.
LEMMA NewIs ==
    ASSUME NEW b, b = <<>> \/ \E c \in Nat : b = CreateBuckets(c)
    PROVE  LET e == [buckets |-> b, len |-> 0]
           IN  Sound(e) /\ Light(e) /\ Elements(b) = {}
  <1>1. Table(b) /\ (\A i \in DOMAIN b : b[i] = <<>>) /\ Elements(b) = {}
    <2>1. CASE b = <<>>
      BY <2>1 DEF Table, Elements
    <2>2. CASE b # <<>>
      <3>1. PICK c \in Nat : b = CreateBuckets(c)
        BY <2>2
      <3> QED BY <3>1, CreateBucketsIs
    <2> QED BY <2>1, <2>2
  <1>2. Ascending(<<>>)
    BY DEF Ascending
  <1>3. b \in Seq(Seq(Ids)) /\ Len(b) \in Nat /\ LoadFactor * Len(b) \in Nat
    BY <1>1, TableIs, LoadFactorIs DEF Table
  <1>4. Sound([buckets |-> b, len |-> 0])
    BY <1>1, <1>2, <1>3, FS_EmptySet DEF Sound
  <1>5. Light([buckets |-> b, len |-> 0])
    BY <1>3 DEF Light
  <1> QED BY <1>1, <1>4, <1>5

LEMMA FromIterIs ==
    ASSUME NEW s \in Seq(Ids)
    PROVE  Sound(FromIter(s)) /\ Elements(FromIter(s).buckets) = ToSet(s)
  <1> DEFINE e == [buckets |-> CreateBuckets(Len(s)), len |-> 0]
  <1>1. Len(s) \in Nat
    BY LenProperties
  <1>2. Sound(e) /\ Elements(e.buckets) = {}
    BY <1>1, NewIs
  <1>3. FromIter(s) = Extended(e, s, Len(s))
    BY DEF FromIter
  <1> HIDE DEF e
  <1> DEFINE bound == Len(s)
             f == Extended(e, s, bound)
  <1>4. bound \in Nat
    BY <1>1
  <1> HIDE DEF bound
  <1>5. Sound(f) /\ Elements(f.buckets) = Elements(e.buckets) \cup ToSet(s)
    BY <1>2, <1>4, ExtendedIs
  <1>6. FromIter(s) = f
    BY <1>3 DEF bound
  <1> HIDE DEF f
  <1> QED BY <1>2, <1>5, <1>6

\* Two engines are equal when they hold the same ids.
LEMMA EqualIs ==
    ASSUME NEW e, Sound(e), NEW f, Sound(f)
    PROVE  Equal(e, f) <=> Elements(e.buckets) = Elements(f.buckets)
  <1> DEFINE A == Elements(e.buckets)
             B == Elements(f.buckets)
  <1>1. /\ e.len = Cardinality(A) /\ f.len = Cardinality(B)
        /\ IsFiniteSet(A) /\ IsFiniteSet(B) /\ A \subseteq Ids
        /\ \A id \in Ids : f.buckets # <<>> => (Holds(f.buckets, id) <=> id \in B)
    BY SoundIs DEF Sound
  <1>2. ToSet(FlattenSeq(e.buckets)) = A
    BY TableIs DEF Sound
  <1>3. Equal(e, f) <=> e.len = f.len /\ \A id \in A : Holds(f.buckets, id)
    BY <1>2 DEF Equal
  <1>4. f.buckets = <<>> => B = {}
    BY DEF Elements
  <1> HIDE DEF A, B
  <1>5. A \subseteq B /\ Cardinality(A) = Cardinality(B) => A = B
    BY <1>1, FS_Subset
  <1>6. CASE f.buckets # <<>>
    BY <1>1, <1>3, <1>5, <1>6 DEF A, B
  <1>7. CASE f.buckets = <<>>
    <2>1. B = {} /\ Cardinality(B) = 0 /\ (Cardinality(A) = 0 <=> A = {})
      BY <1>1, <1>4, <1>7, FS_EmptySet
    <2> QED BY <1>1, <1>3, <2>1 DEF A, B
  <1> QED BY <1>6, <1>7
-----------------------------------------------------------------------------
(***************************************************************************)
(* The theorems.                                                           *)
(***************************************************************************)
\* Bounds that extend is given, as far as an iterator has one.
Bound(batch, slack) == IF slack = NoBound THEN NoBound ELSE AtLeast(Len(batch) + slack, 0)

LEMMA BoundIs ==
    ASSUME NEW batch \in Batches, NEW slack \in Slacks
    PROVE  /\ batch \in Seq(Ids)
           /\ slack # NoBound => Bound(batch, slack) \in Nat
           /\ slack = NoBound => Bound(batch, slack) = NoBound
           /\ slack \in Nat => Len(batch) <= Bound(batch, slack)
  <1>1. batch \in Seq(Ids) /\ NoBound \notin Int /\ (slack \in Int \/ slack = NoBound)
    BY IdAssumption
  <1>2. Len(batch) \in Nat
    BY <1>1, LenProperties
  <1> QED BY <1>1, <1>2 DEF Bound, AtLeast

LEMMA InitIs == Init => Sound(engine) /\ Light(engine) /\ Elements(engine.buckets) = {}
  <1> SUFFICES ASSUME Init PROVE Sound(engine) /\ Light(engine) /\ Elements(engine.buckets) = {}
    OBVIOUS
  <1>1. PICK b : b \in {<<>>} \cup {CreateBuckets(c) : c \in Capacities} /\ engine = [buckets |-> b, len |-> 0]
    BY DEF Init
  <1>2. Capacities \subseteq Nat
    BY IdAssumption
  <1>3. b = <<>> \/ \E c \in Nat : b = CreateBuckets(c)
    BY <1>1, <1>2
  <1> QED BY <1>1, <1>3, NewIs

\* The steps of Next, one by one, keep the engine sound and, with true bounds, light.
LEMMA StepIs ==
    ASSUME Sound(engine), [Next]_vars
    PROVE  /\ Sound(engine')
           /\ Light(engine) /\ Slacks \subseteq Nat => Light(engine')
  <1>1. ASSUME NEW id \in Ids, AddId(id)
        PROVE  Sound(engine') /\ Light(engine')
    BY <1>1, AddedIs DEF AddId
  <1>2. ASSUME NEW id \in Ids, RemoveId(id)
        PROVE  Sound(engine') /\ (Light(engine) => Light(engine'))
    <2>1. CASE engine.len = 0
      <3>1. engine' = engine
        BY <1>2, <2>1 DEF RemoveId
      <3> QED BY <3>1
    <2>2. CASE engine.len # 0
      <3> DEFINE b == ReallocateOnRemove(engine)
                 i == IdIndex(Len(b), id)
                 found == Found(b[i], id)
                 f == IF found
                      THEN [buckets |-> [b EXCEPT ![i] = RemoveAt(@, Position(@, id))],
                            len |-> engine.len - 1]
                      ELSE [engine EXCEPT !.buckets = b]
      <3>1. engine' = f
        BY <1>2, <2>2, Zenon DEF RemoveId
      <3>2. Sound(f) /\ (Light(engine) => Light(f))
        BY <2>2, RemovedFromIs
      <3> HIDE DEF f
      <3> QED BY <3>1, <3>2
    <2> QED BY <2>1, <2>2
  <1>3. ASSUME NEW id \in Ids, ContainsId(id)
        PROVE  engine' = engine
    BY <1>3 DEF ContainsId
  <1>4. ASSUME NEW batch \in Batches, NEW slack \in Slacks, Extend(batch, slack)
        PROVE  Sound(engine') /\ (Light(engine) /\ slack \in Nat => Light(engine'))
    <2> DEFINE bound == Bound(batch, slack)
    <2>1. engine' = Extended(engine, batch, bound)
      BY <1>4 DEF Extend, Bound
    <2>2. /\ batch \in Seq(Ids)
          /\ slack # NoBound => bound \in Nat
          /\ slack = NoBound => bound = NoBound
          /\ slack \in Nat => Len(batch) <= bound
      BY BoundIs
    <2> HIDE DEF bound
    <2>3. CASE slack = NoBound
      <3>1. engine' = engine
        BY <2>1, <2>2, <2>3 DEF Extended
      <3> QED BY <3>1
    <2>4. CASE slack # NoBound
      BY <2>1, <2>2, <2>4, ExtendedIs
    <2> QED BY <2>3, <2>4
  <1>5. ASSUME NEW batch \in Batches, Compare(batch)
        PROVE  engine' = engine
    BY <1>5 DEF Compare
  <1>6. CASE UNCHANGED vars
    BY <1>6 DEF vars
  <1>7. CASE Next
    <2>1. CASE \E id \in Ids : AddId(id) \/ RemoveId(id) \/ ContainsId(id)
      <3>1. PICK id \in Ids : AddId(id) \/ RemoveId(id) \/ ContainsId(id)
        BY <2>1
      <3> QED BY <1>1, <1>2, <1>3, <3>1
    <2>2. CASE \E batch \in Batches, slack \in Slacks : Extend(batch, slack)
      <3>1. PICK batch \in Batches, slack \in Slacks : Extend(batch, slack)
        BY <2>2
      <3> QED BY <1>4, <3>1
    <2>3. CASE \E batch \in Batches : Compare(batch)
      <3>1. PICK batch \in Batches : Compare(batch)
        BY <2>3
      <3> QED BY <1>5, <3>1
    <2> QED BY <1>7, <2>1, <2>2, <2>3 DEF Next
  <1> QED BY <1>6, <1>7

LEMMA StoredIs == Sound(engine) => Stored = Elements(engine.buckets)
  BY TableIs DEF Sound, Stored

\* A sound and light engine is what BucketsAreSound says.
LEMMA SoundImplies == Sound(engine) /\ Light(engine) => BucketsAreSound
  <1> SUFFICES ASSUME Sound(engine), Light(engine) PROVE BucketsAreSound
    OBVIOUS
  <1> DEFINE b == engine.buckets
  <1>1. /\ Table(b) /\ \A i \in DOMAIN b : Ascending(b[i]) /\ b[i] \in Seq(Ids)
        /\ engine.len = Cardinality(Stored)
    BY StoredIs, TableIs DEF Sound
  <1>2. \A i \in DOMAIN b : \A j \in DOMAIN b[i] : b[i][j] \in ToSet(b[i])
    BY DEF ToSet
  <1>3. \A i \in DOMAIN b : \A j \in DOMAIN b[i] : IdIndex(Len(b), b[i][j]) = i
    BY <1>1, <1>2 DEF Table
  <1>4. ASSUME NEW i \in DOMAIN b, NEW j \in 1..(Len(b[i]) - 1) PROVE b[i][j] < b[i][j + 1]
    <2>1. Len(b[i]) \in Nat /\ DOMAIN b[i] = 1..Len(b[i])
      BY <1>1, LenProperties
    <2>2. j \in DOMAIN b[i] /\ j + 1 \in DOMAIN b[i] /\ j < j + 1
      BY <2>1
    <2> QED BY <1>1, <2>2 DEF Ascending
  <1>5. engine.len <= LoadFactor * Len(b)
    BY DEF Light
  <1> QED BY <1>1, <1>3, <1>4, <1>5 DEF BucketsAreSound

-----------------------------------------------------------------------------
(***************************************************************************)
(* Searches.                                                               *)
(***************************************************************************)

\* A text that can be searched for: its zeros are counted, the others are the
\* digits of its number.
LEMMA FragmentIs ==
    ASSUME NEW text \in Fragments, Len(text) <= MaxDigits
    PROVE  LET f == FuzzyMatchedId(text)
           IN  /\ text \in Seq(0..(Base - 1)) /\ Len(text) \in Nat \ {0}
               /\ f.number \in Nat /\ f.zeros \in 0..(Len(text) - 1)
               /\ base10_len(f.number) = Len(text) - f.zeros
               /\ base10_len(f.number) >= 2 * T /\ base10_len(f.number) >= 1
               /\ f.number < Power[base10_len(f.number)]
               /\ FragmentLen(f) = Len(text)
               /\ text[1] # 0 => f.zeros = 0
  <1> DEFINE f == FuzzyMatchedId(text)
             m == Len(text)
             Counts(z) == /\ \A i \in 1..z : text[i] = 0
                          /\ z = m - 1 \/ text[z + 1] # 0
  <1>1. /\ MaxDigits \in Nat /\ T \in Nat /\ text \in Seq(0..(Base - 1)) /\ m \in Nat /\ m <= MaxDigits
        /\ \E z \in 0..(m - 1) : (\A i \in 1..z : text[i] = 0) /\ text[z + 1] # 0 /\ m - z >= 2 * T
    BY IdAssumption, LenProperties
  <1>2. PICK z \in 0..(m - 1) : (\A i \in 1..z : text[i] = 0) /\ text[z + 1] # 0 /\ m - z >= 2 * T
    BY <1>1
  <1>3. /\ f.number \in Nat
        /\ Power[m - z - 1] <= f.number /\ f.number < Power[m - z]
    BY <1>1, <1>2, NumberIs
  <1>4. f.zeros = CHOOSE y \in 0..(m - 1) : Counts(y)
    BY Zenon DEF FuzzyMatchedId
  <1> HIDE DEF f, m
  <1>5. \A y \in 0..(m - 1) : Counts(y) <=> y = z
    <2> TAKE y \in 0..(m - 1)
    <2>1. Counts(z)
      BY <1>2
    <2>2. ASSUME Counts(y), y < z PROVE FALSE
      <3>1. y + 1 \in 1..z /\ y # m - 1
        BY <1>1, <2>2
      <3> QED BY <1>2, <2>2, <3>1
    <2>3. ASSUME Counts(y), z < y PROVE FALSE
      <3>1. z + 1 \in 1..y
        BY <1>1, <2>3
      <3> QED BY <1>2, <2>3, <3>1
    <2>4. y < z \/ z < y \/ y = z
      BY <1>1
    <2> QED BY <2>1, <2>2, <2>3, <2>4
  <1>6. f.zeros = z
    <2> HIDE DEF Counts
    <2> QED BY <1>4, <1>5
  <1>7. base10_len(f.number) = m - z
    <2>1. m - z \in 1..MaxDigits
      BY <1>1, <1>2
    <2> QED BY <1>3, <2>1, LengthIs
  <1>8. FragmentLen(f) = m
    <2>1. m - z >= 1 /\ (m - z) + z = m /\ ~ (m - z < 1)
      BY <1>1, <1>2
    <2> QED BY <1>6, <1>7, <2>1 DEF FragmentLen, AtLeast
  <1>9. text[1] # 0 => z = 0
    <2>1. z # 0 => 1 \in 1..z
      BY <1>1
    <2> QED BY <1>2, <2>1
  <1> QED BY <1>1, <1>2, <1>3, <1>6, <1>7, <1>8, <1>9 DEF f, m

LEMMA IdLength ==
    ASSUME NEW id \in Ids
    PROVE  /\ id \in Nat /\ id < Power[MaxDigits]
           /\ base10_len(id) \in 1..MaxDigits /\ base10_len(id) > 2 * T
  <1>1. /\ MaxDigits \in Nat /\ T \in Nat /\ MinDigits \in Nat
        /\ 2 * T < MinDigits /\ MinDigits <= MaxDigits
        /\ id \in Power[MinDigits - 1]..(Power[MaxDigits] - 1)
    BY IdAssumption
  <1>2. /\ MinDigits - 1 \in 0..(MaxDigits - 1)
        /\ MinDigits - 1 \in 0..(MaxDigits + T) /\ MaxDigits \in 0..(MaxDigits + T)
    BY <1>1
  <1>3. Power[MinDigits - 1] \in Nat /\ Power[MaxDigits] \in Nat
    BY <1>2, PowerIs
  <1>4. id \in Nat /\ Power[MinDigits - 1] <= id /\ id < Power[MaxDigits]
    BY <1>1, <1>3
  <1>5. base10_len(id) \in 0..MaxDigits /\ MinDigits - 1 < base10_len(id)
    BY <1>2, <1>4, DigitsOf
  <1> QED BY <1>1, <1>4, <1>5

\* What an id is hashed by: its digits without T at either end.
Middle(id) == (id \div Power[T]) % Power[base10_len(id) - 2 * T]

LEMMA MiddleIs ==
    ASSUME NEW n \in Nat \ {0}, NEW x \in Nat, x < Power[MaxDigits],
           base10_len(x) >= 2 * T, base10_len(x) >= 1
    PROVE  IdIndex(n, x) = (Middle(x) % n) + 1 /\ IdIndex(n, x) \in 1..n
  <1> DEFINE d == base10_len(x)
             kept == x \div Power[T]
  <1>1. MaxDigits \in Nat /\ T \in Nat /\ d \in 1..MaxDigits /\ d >= 2 * T
    BY IdAssumption, DigitsOf
  <1>2. Power[d - 1] <= x /\ x < Power[d]
    <2>1. Power[d - 1] <= x /\ (d < MaxDigits => x < Power[d])
      BY <1>1, LengthIs
    <2> QED BY <1>1, <2>1
  <1> HIDE DEF d
  <1>3. d - T \in 1..MaxDigits /\ d - T - 1 \in Nat /\ d - T \in Nat /\ d - 2 * T \in Nat
    BY <1>1
  <1>4. /\ kept \in Nat /\ x \div Power[d] = kept \div Power[d - T]
        /\ Power[d] \in Nat \ {0} /\ Power[d - T] \in Nat \ {0}
    <2>1. T + (d - T) = d /\ T + (d - T) <= MaxDigits + T
      BY <1>1
    <2>2. Cuts(x, T, d - T)
      BY <1>1, <1>3, <2>1, CutIs
    <2> QED BY <2>1, <2>2 DEF Cuts
  <1>5. /\ x \div Power[d - 1] = kept \div Power[d - T - 1]
        /\ Power[d - 1] \in Nat \ {0} /\ Power[d - T - 1] \in Nat \ {0}
    <2>1. T + (d - T - 1) = d - 1 /\ T + (d - T - 1) <= MaxDigits + T
      BY <1>1
    <2>2. Cuts(x, T, d - T - 1)
      BY <1>1, <1>3, <2>1, CutIs
    <2> QED BY <2>1, <2>2 DEF Cuts
  <1> HIDE DEF kept
  <1>6. kept < Power[d - T]
    <2>1. x \div Power[d] = 0
      BY <1>2, <1>4, QuotientBounds
    <2> QED BY <1>4, <2>1, QuotientBounds
  <1>7. Power[d - T - 1] <= kept
    <2>1. x \div Power[d - 1] # 0
      <3>1. ~ (x < Power[d - 1])
        BY <1>2, <1>5
      <3> QED BY <1>5, <3>1, QuotientBounds
    <2>2. ~ (kept < Power[d - T - 1])
      BY <1>4, <1>5, <2>1, QuotientBounds
    <2> QED BY <1>4, <1>5, <2>2
  <1>8. base10_len(kept) = d - T
    BY <1>3, <1>4, <1>6, <1>7, LengthIs
  <1>9. (d - T) - T = d - 2 * T
    BY <1>1
  <1>10. IdIndex(n, x) = (Middle(x) % n) + 1
    BY <1>8, <1>9 DEF IdIndex, Middle, kept, d
  <1>11. Middle(x) \in Nat
    <2>1. d - 2 * T \in 0..(MaxDigits + T)
      BY <1>1, <1>3
    <2>2. Power[d - 2 * T] \in Nat \ {0} /\ kept \in Int
      BY <1>4, <2>1, PowerIs
    <2>3. kept % Power[d - 2 * T] \in 0..(Power[d - 2 * T] - 1)
      BY <2>2, RemainderIs, Zenon
    <2> QED BY <2>2, <2>3 DEF Middle, kept, d
  <1>12. (Middle(x) % n) + 1 \in 1..n
    <2>1. Middle(x) \in Int
      BY <1>11
    <2>2. Middle(x) % n \in 0..(n - 1)
      BY <2>1, RemainderIs, Zenon
    <2> QED BY <2>2
  <1> QED BY <1>10, <1>12

\* A digit of the last m ones is that of the number.
LEMMA DigitOfCut ==
    ASSUME NEW q \in Nat, NEW m \in 0..MaxDigits, NEW i \in 1..m
    PROVE  ((q % Power[m]) \div Power[m - i]) % Base = (q \div Power[m - i]) % Base
  <1>1. MaxDigits \in Nat /\ T \in Nat /\ Base \in Nat \ {0}
    BY IdAssumption
  <1>2. Power[1] = Base
    <2>1. 0 \in 0..(MaxDigits + T - 1) /\ 0 + 1 = 1
      BY <1>1
    <2> QED BY <1>1, <2>1, PowerIs
  <1> DEFINE k == m - i
             z == q \div Power[k]
  <1>3. k \in Nat /\ i \in Nat /\ k + i = m /\ k + i <= MaxDigits + T
    BY <1>1
  <1> HIDE DEF k
  <1>4. Cuts(q, k, i)
    BY <1>3, CutIs
  <1>5. z \in Nat /\ (q % Power[k + i]) \div Power[k] = z % Power[i]
    BY <1>4 DEF Cuts
  <1> HIDE DEF z
  <1>6. (z % Power[i]) % Base = z % Base
    <2>1. 1 \in Nat /\ i - 1 \in Nat /\ 1 + (i - 1) = i /\ 1 + (i - 1) <= MaxDigits + T
      BY <1>1
    <2>2. Cuts(z, 1, i - 1)
      BY <1>5, <2>1, CutIs
    <2> QED BY <1>2, <2>1, <2>2 DEF Cuts
  <1>7. ((q % Power[m]) \div Power[k]) % Base = (q \div Power[k]) % Base
    BY <1>3, <1>5, <1>6 DEF z
  <1> QED BY <1>7 DEF k

\* What stays of an id of as many digits as the text and the wildcards have.
Window(id, m, right) == (id \div Power[right]) % Power[m]

LEMMA WindowIs ==
    ASSUME NEW id \in Ids, NEW m \in 0..MaxDigits, NEW left \in 0..T, NEW right \in 0..T,
           base10_len(id) = left + m + right
    PROVE  /\ (id % Power[m + right]) \div Power[right] = Window(id, m, right)
           /\ Window(id, m, right) \in Nat /\ Window(id, m, right) < Power[m]
           /\ Digits(id) \in Seq(0..(Base - 1)) /\ Len(Digits(id)) = left + m + right
           /\ \A i \in 1..m :
                 Digits(id)[left + i] = (Window(id, m, right) \div Power[m - i]) % Base
  <1> DEFINE q == id \div Power[right]
  <1>1. /\ MaxDigits \in Nat /\ T \in Nat /\ Base \in Nat \ {0} /\ id \in Nat
        /\ base10_len(id) \in 1..MaxDigits
    BY IdAssumption, IdLength
  <1>2. Cuts(id, right, m) /\ right + m = m + right
    <2>1. right \in Nat /\ m \in Nat /\ right + m <= MaxDigits + T
      BY <1>1
    <2> QED BY <1>1, <2>1, CutIs
  <1>3. q \in Nat /\ (id % Power[m + right]) \div Power[right] = Window(id, m, right)
    BY <1>2 DEF Cuts, Window
  <1>4. Window(id, m, right) \in Nat /\ Window(id, m, right) < Power[m]
    <2>1. m \in Nat /\ 0 \in Nat /\ m + 0 <= MaxDigits + T
      BY <1>1
    <2>2. Cuts(q, m, 0)
      BY <1>3, <2>1, CutIs
    <2>3. Power[m] \in Nat \ {0} /\ q % Power[m] \in 0..(Power[m] - 1)
      BY <2>2 DEF Cuts
    <2> QED BY <2>3 DEF Window
  <1>5. ASSUME NEW k \in 1..base10_len(id)
        PROVE  (id \div Power[base10_len(id) - k]) % Base \in 0..(Base - 1)
    <2>1. base10_len(id) - k \in Nat /\ 0 \in Nat /\ (base10_len(id) - k) + 0 <= MaxDigits + T
      BY <1>1
    <2>2. Cuts(id, base10_len(id) - k, 0)
      BY <1>1, <2>1, CutIs
    <2>3. id \div Power[base10_len(id) - k] \in Int
      BY <2>2 DEF Cuts
    <2> QED BY <1>1, <2>3, RemainderIs, Zenon
  <1>6. Digits(id) \in Seq(0..(Base - 1)) /\ Len(Digits(id)) = left + m + right
    <2>1. Digits(id) \in [1..base10_len(id) -> 0..(Base - 1)]
      BY <1>5 DEF Digits
    <2>2. base10_len(id) \in Nat /\ DOMAIN Digits(id) = 1..base10_len(id)
      BY <1>1, <2>1
    <2>3. Digits(id) \in Seq(0..(Base - 1))
      BY <2>1, <2>2, SeqDef
    <2>4. Len(Digits(id)) = base10_len(id)
      BY <2>2, <2>3, LenProperties
    <2> QED BY <2>3, <2>4
  <1>7. ASSUME NEW i \in 1..m
        PROVE  Digits(id)[left + i] = (Window(id, m, right) \div Power[m - i]) % Base
    <2>1. left + i \in 1..base10_len(id) /\ base10_len(id) - (left + i) = right + (m - i)
      BY <1>1
    <2>2. Digits(id)[left + i] = (id \div Power[base10_len(id) - (left + i)]) % Base
      BY <2>1 DEF Digits
    <2>3. Cuts(id, right, m - i)
      <3>1. right \in Nat /\ m - i \in Nat /\ right + (m - i) <= MaxDigits + T
        BY <1>1
      <3> QED BY <1>1, <3>1, CutIs
    <2>4. Digits(id)[left + i] = (q \div Power[m - i]) % Base
      BY <2>1, <2>2, <2>3 DEF Cuts
    <2> HIDE DEF q
    <2>5. ((q % Power[m]) \div Power[m - i]) % Base = (q \div Power[m - i]) % Base
      BY <1>3, DigitOfCut
    <2> QED BY <2>4, <2>5 DEF q, Window
  <1> QED BY <1>3, <1>4, <1>6, <1>7

\* A match is what reads like the text.
LEMMA ReadsIs ==
    ASSUME NEW text \in Fragments, Len(text) <= MaxDigits, NEW id \in Ids,
           NEW left \in 0..T, NEW right \in 0..T
    PROVE  Reads(id, left, right, text) <=> Matches(FuzzyMatchedId(text), left, right, id)
  <1> DEFINE f == FuzzyMatchedId(text)
             m == Len(text)
             y == Window(id, m, right)
  <1>1. /\ text \in Seq(0..(Base - 1)) /\ m \in Nat \ {0} /\ f.number \in Nat /\ FragmentLen(f) = m
        /\ MaxDigits \in Nat /\ T \in Nat
    BY FragmentIs, IdAssumption
  <1>2. f.number < Power[m] /\ \A i \in 1..m : (f.number \div Power[m - i]) % Base = text[i]
    BY <1>1, NumberIs
  <1> HIDE DEF f
  <1>3. m + left + right = left + m + right
    BY <1>1
  <1>4. CASE base10_len(id) = left + m + right
    <2>1. m \in 0..MaxDigits
      BY <1>1
    <2> HIDE DEF m
    <2>2. /\ (id % Power[m + right]) \div Power[right] = y
          /\ y \in Nat /\ y < Power[m]
          /\ Digits(id) \in Seq(0..(Base - 1)) /\ Len(Digits(id)) = left + m + right
          /\ \A i \in 1..m : Digits(id)[left + i] = (y \div Power[m - i]) % Base
      BY <1>4, <2>1, WindowIs
    <2> HIDE DEF y
    <2> DEFINE cut == SubSeq(Digits(id), left + 1, left + m)
    <2>3. cut \in Seq(0..(Base - 1)) /\ Len(cut) = m /\ \A i \in 1..m : cut[i] = Digits(id)[left + i]
      <3>1. left + 1 \in Int /\ left + m \in Int /\ (left + m) - (left + 1) + 1 = m /\ left + 1 <= left + m
        BY <1>1 DEF m
      <3>2. \A i \in (left + 1)..(left + m) : Digits(id)[i] \in 0..(Base - 1)
        <4> TAKE i \in (left + 1)..(left + m)
        <4>1. i \in 1..(left + m + right)
          BY <1>1 DEF m
        <4> QED BY <2>2, <4>1, ElementOfSeq
      <3>3. /\ cut \in Seq(0..(Base - 1))
            /\ Len(cut) = IF left + 1 <= left + m THEN (left + m) - (left + 1) + 1 ELSE 0
            /\ \A i \in 1..((left + m) - (left + 1) + 1) : cut[i] = Digits(id)[(left + 1) + i - 1]
        <4> HIDE DEF cut
        <4>1. cut = SubSeq(Digits(id), left + 1, left + m)
          BY DEF cut
        <4> QED BY <3>1, <3>2, <4>1, SubSeqProperties
      <3> HIDE DEF cut
      <3>4. \A i \in 1..m : (left + 1) + i - 1 = left + i
        BY <1>1 DEF m
      <3> QED BY <3>1, <3>3, <3>4
    <2> HIDE DEF cut
    <2>4. cut = text <=> \A i \in 1..m : cut[i] = text[i]
      BY <1>1, <2>3, SeqEqual DEF m
    <2>5. cut = text <=> \A i \in 1..m : (y \div Power[m - i]) % Base = text[i]
      BY <2>2, <2>3, <2>4
    <2>6. y = f.number <=> \A i \in 1..m : (y \div Power[m - i]) % Base = text[i]
      <3>1. (\A i \in 1..m : (y \div Power[m - i]) % Base = text[i]) => y = f.number
        <4> SUFFICES ASSUME \A i \in 1..m : (y \div Power[m - i]) % Base = text[i] PROVE y = f.number
          OBVIOUS
        <4>1. \A i \in 1..m : (y \div Power[m - i]) % Base = (f.number \div Power[m - i]) % Base
          BY <1>2 DEF m
        <4>2. f.number \in Nat /\ f.number < Power[m]
          BY <1>1, <1>2 DEF m
        <4> QED BY <2>1, <2>2, <4>1, <4>2, DigitsDecide
      <3> QED BY <1>2, <3>1 DEF m
    <2>7. Reads(id, left, right, text) <=> cut = text
      BY <1>4 DEF Reads, cut, m
    <2>8. Matches(f, left, right, id) <=> y = f.number
      BY <1>1, <1>3, <1>4, <2>2 DEF Matches, m
    <2> QED BY <2>5, <2>6, <2>7, <2>8 DEF f
  <1>5. CASE base10_len(id) # left + m + right
    BY <1>1, <1>3, <1>5 DEF Reads, Matches, f
  <1> QED BY <1>4, <1>5

\* The wildcards that are tried: up to T at either end, and not none at all.
Missing == {w \in (0..T) \X (0..T) : w[1] + w[2] >= 1}

LEMMA WildcardsAre == Wildcards \in Seq(Missing) /\ ToSet(Wildcards) \subseteq Missing
  <1> DEFINE least(added) == AtLeast(added - T, 0)
             n(added) == added - 2 * least(added) + 1
             row(added) == [k \in 1..n(added) |-> <<least(added) + k - 1, added - least(added) - k + 1>>]
             rows == [added \in 1..(2 * T) |-> row(added)]
  <1>1. T \in Nat /\ 2 * T \in Nat
    BY IdAssumption
  <1>2. ASSUME NEW added \in 1..(2 * T) PROVE row(added) \in Seq(Missing)
    <2>1. least(added) \in Nat /\ least(added) <= T /\ n(added) \in Nat
          /\ ((least(added) = 0 /\ added <= T) \/ least(added) = added - T)
      BY <1>1, <1>2 DEF AtLeast
    <2>2. ASSUME NEW k \in 1..n(added)
          PROVE  <<least(added) + k - 1, added - least(added) - k + 1>> \in Missing
      <3> DEFINE a == least(added) + k - 1
                 c == added - least(added) - k + 1
      <3>1. a \in 0..T /\ c \in 0..T /\ a + c >= 1
        <4> DEFINE b == least(added)
        <4>1. b \in Nat /\ b <= T /\ ((b = 0 /\ added <= T) \/ b = added - T)
          BY <2>1
        <4>2. k \in 1..(added - 2 * b + 1) /\ a = b + k - 1 /\ c = added - b - k + 1
          OBVIOUS
        <4> HIDE DEF b, a, c
        <4> QED BY <1>1, <1>2, <4>1, <4>2
      <3> HIDE DEF a, c
      <3>2. <<a, c>> \in Missing
        BY <3>1 DEF Missing
      <3> QED BY <3>2 DEF a, c
    <2> HIDE DEF least, n
    <2>3. row(added) \in [1..n(added) -> Missing]
      BY <2>2
    <2> HIDE DEF row
    <2> QED BY <2>1, <2>3, SeqDef
  <1>3. Wildcards = FlattenSeq(rows)
    BY DEF Wildcards
  <1> HIDE DEF row
  <1>4. rows \in Seq(Seq(Missing))
    <2>1. rows \in [1..(2 * T) -> Seq(Missing)]
      BY <1>2
    <2> HIDE DEF rows
    <2> QED BY <1>1, <2>1, SeqDef
  <1> HIDE DEF rows
  <1>5. Wildcards \in Seq(Missing)
    BY <1>3, <1>4, FlattenHolds
  <1>6. \A i \in DOMAIN Wildcards : Wildcards[i] \in Missing
    BY <1>5, LenProperties, ElementOfSeq
  <1> QED BY <1>5, <1>6 DEF ToSet

\* What get_bucket_with_fuzzy_match hashes.
FuzzyMiddle(f, left, right) ==
    (f.number \div Power[T - right]) % Power[base10_len(f.number) - (T - left)]

\* Either no bucket is looked into or one of the table.
LEMMA FuzzyBucketIs ==
    ASSUME NEW b, Table(b), b # <<>>, NEW text \in Fragments, Len(text) <= MaxDigits,
           NEW left \in 0..T, NEW right \in 0..T
    PROVE  FuzzyBucket(b, FuzzyMatchedId(text), left, right) \in {<<>>} \cup {b[i] : i \in DOMAIN b}
  <1> DEFINE f == FuzzyMatchedId(text)
             d == base10_len(f.number)
             middle == FuzzyMiddle(f, left, right)
  <1>1. /\ MaxDigits \in Nat /\ T \in Nat /\ f.number \in Nat
        /\ d \in 0..MaxDigits /\ d >= 2 * T
    BY FragmentIs, IdAssumption, DigitsOf
  <1>2. FuzzyBucket(b, f, left, right) = IF f.zeros # 0 /\ left = 0 THEN <<>>
                                         ELSE b[(middle % Len(b)) + 1]
    BY DEF FuzzyBucket, FuzzyMiddle
  <1>3. middle \in Nat
    <2>1. T - right \in Nat /\ 0 \in Nat /\ (T - right) + 0 <= MaxDigits + T
      BY <1>1
    <2>2. d - (T - left) \in Nat /\ (d - (T - left)) + 0 <= MaxDigits + T
      BY <1>1
    <2> HIDE DEF f, d
    <2>3. Cuts(f.number, T - right, 0)
      BY <1>1, <2>1, CutIs
    <2>4. f.number \div Power[T - right] \in Nat
      BY <2>3 DEF Cuts
    <2>5. Cuts(f.number \div Power[T - right], d - (T - left), 0)
      BY <2>1, <2>2, <2>4, CutIs
    <2> QED BY <2>5 DEF Cuts, FuzzyMiddle, d
  <1> HIDE DEF f, d, middle
  <1>4. (middle % Len(b)) + 1 \in DOMAIN b
    <2>1. Len(b) \in Nat \ {0} /\ DOMAIN b = 1..Len(b) /\ middle \in Int
      BY <1>3, TableIs
    <2>2. middle % Len(b) \in 0..(Len(b) - 1)
      BY <2>1, RemainderIs, Zenon
    <2> QED BY <2>1, <2>2
  <1> QED BY <1>2, <1>4 DEF f

\* An id that lost T digits on the left, or T on the right and has no zero in
\* front, is in the bucket that is looked into.
LEMMA SameBucket ==
    ASSUME NEW b, Table(b), b # <<>>, NEW text \in Fragments, Len(text) <= MaxDigits,
           NEW left \in 0..T, NEW right \in 0..T, left + right >= 1,
           NEW id \in Ids, Reads(id, left, right, text),
           left = T \/ (right = T /\ text[1] # 0)
    PROVE  FuzzyBucket(b, FuzzyMatchedId(text), left, right) = b[IdIndex(Len(b), id)]
  <1> DEFINE f == FuzzyMatchedId(text)
             m == Len(text)
             N == f.number
             e == base10_len(N)
             d == base10_len(id)
             q == id \div Power[right]
  <1>1. /\ MaxDigits \in Nat /\ T \in Nat /\ Len(b) \in Nat \ {0}
        /\ m \in Nat /\ N \in Nat /\ e >= 2 * T /\ e >= 1 /\ N < Power[e]
        /\ f.zeros \in 0..(m - 1) /\ e = m - f.zeros /\ (text[1] # 0 => f.zeros = 0)
        /\ e \in 0..MaxDigits
    BY FragmentIs, IdAssumption, TableIs, DigitsOf
  <1>2. id \in Nat /\ id < Power[MaxDigits] /\ d \in 1..MaxDigits /\ d > 2 * T
    BY IdLength
  <1>3. d = left + m + right /\ N = Window(id, m, right)
    <2>1. d = left + m + right
      BY DEF Reads
    <2>2. Matches(f, left, right, id) /\ FragmentLen(f) = m
      BY ReadsIs, FragmentIs
    <2>3. N = (id % Power[m + right]) \div Power[right]
      BY <2>2 DEF Matches
    <2>4. m \in 0..MaxDigits
      BY <1>1
    <2> HIDE DEF f, N, m
    <2>5. (id % Power[m + right]) \div Power[right] = Window(id, m, right)
      BY <2>1, <2>4, WindowIs DEF d
    <2> QED BY <2>1, <2>3, <2>5
  <1>4. IdIndex(Len(b), id) = (Middle(id) % Len(b)) + 1
    BY <1>1, <1>2, MiddleIs
  <1>5. FuzzyBucket(b, f, left, right) = b[(FuzzyMiddle(f, left, right) % Len(b)) + 1]
    <2>1. ~ (f.zeros # 0 /\ left = 0)
      BY <1>1
    <2> QED BY <2>1 DEF FuzzyBucket, FuzzyMiddle
  <1>6. FuzzyMiddle(f, left, right) = (N \div Power[T - right]) % Power[e - (T - left)]
    BY DEF FuzzyMiddle
  <1>7. Middle(id) = (id \div Power[T]) % Power[d - 2 * T]
    BY DEF Middle
  <1>8. N = q % Power[m]
    BY <1>3 DEF Window
  <1> HIDE DEF f, m, N, e, d
  <1>9. q \in Nat
    <2>1. right \in Nat /\ 0 \in Nat /\ right + 0 <= MaxDigits + T
      BY <1>1
    <2>2. Cuts(id, right, 0)
      BY <1>2, <2>1, CutIs
    <2> QED BY <2>2 DEF Cuts
  <1>10. CASE left = T
    <2> DEFINE i == T - right
               k == m + right - T
    <2>1. i \in Nat /\ k \in Nat /\ i + k = m /\ i + k <= MaxDigits + T /\ k = d - 2 * T
          /\ right + i = T /\ right + i <= MaxDigits + T /\ right \in Nat /\ e - (T - left) = e
      BY <1>1, <1>2, <1>3, <1>10
    <2> HIDE DEF i, k, q
    <2>2. Cuts(q, i, k)
      BY <1>9, <2>1, CutIs
    <2>3. N \div Power[i] = (q \div Power[i]) % Power[k]
      BY <1>8, <2>1, <2>2 DEF Cuts
    <2>4. q \div Power[i] = id \div Power[T]
      <3>1. Cuts(id, right, i)
        BY <1>2, <2>1, CutIs
      <3> QED BY <2>1, <3>1 DEF Cuts, q
    <2>5. N \div Power[i] = Middle(id)
      BY <1>7, <2>1, <2>3, <2>4
    <2>6. (N \div Power[i]) % Power[e] = N \div Power[i]
      <3>1. Cuts(N, i, 0)
        BY <1>1, <2>1, CutIs
      <3>2. e \in 0..MaxDigits /\ e \in 0..(MaxDigits + T)
        BY <1>1
      <3> DEFINE p == Power[e]
                 r == Power[i]
                 x == N \div r
      <3>3. p \in Nat \ {0} /\ r \in Nat \ {0} /\ x \in Nat /\ N < p
        BY <1>1, <3>1, <3>2, PowerIs DEF Cuts
      <3> HIDE DEF p, r
      <3>4. N < r * p
        BY <1>1, <3>3, SmallerTimes
      <3>5. x < p
        BY <1>1, <3>3, <3>4, QuotientBounds
      <3> HIDE DEF x
      <3>6. x = p * 0 + x /\ x \in 0..(p - 1)
        BY <3>3, <3>5
      <3>7. x % p = x
        BY <3>3, <3>5
      <3> QED BY <3>7 DEF p, r, x
    <2> QED BY <1>4, <1>5, <1>6, <2>1, <2>5, <2>6 DEF f, i
  <1>11. CASE right = T /\ text[1] # 0
    <2> DEFINE k == m - (T - left)
    <2>1. k \in Nat /\ T - left \in Nat /\ k + (T - left) = m /\ m <= MaxDigits + T
          /\ e = m /\ k = d - 2 * T /\ T - right = 0
      BY <1>1, <1>2, <1>3, <1>11
    <2> HIDE DEF k, q
    <2>2. Cuts(q, k, T - left)
      BY <1>9, <2>1, CutIs
    <2>3. N % Power[k] = q % Power[k]
      BY <1>8, <2>1, <2>2 DEF Cuts
    <2>4. N \div Power[0] = N
      <3>1. Power[0] = 1 /\ N \div 1 = N
        BY <1>1, PowerIs
      <3> QED BY <3>1
    <2>5. FuzzyMiddle(f, left, right) = Middle(id)
      BY <1>6, <1>7, <1>11, <2>1, <2>3, <2>4 DEF k, q
    <2> QED BY <1>4, <1>5, <2>5 DEF f
  <1> QED BY <1>10, <1>11

\* `find' gives at most one id, a match, and one if there is any.
LEMMA FirstMatchIs ==
    ASSUME NEW bucket \in Seq(Ids), NEW f, NEW left, NEW right
    PROVE  LET found == FirstMatch(bucket, f, left, right)
           IN  /\ found \in Seq(Ids)
               /\ \A id \in ToSet(found) : id \in ToSet(bucket) /\ Matches(f, left, right, id)
               /\ (\E id \in ToSet(bucket) : Matches(f, left, right, id)) => ToSet(found) # {}
  <1> DEFINE M == {i \in DOMAIN bucket : Matches(f, left, right, bucket[i])}
             first == CHOOSE i \in M : \A j \in M : i <= j
  <1>1. FirstMatch(bucket, f, left, right) = IF M = {} THEN <<>> ELSE <<bucket[first]>>
    BY DEF FirstMatch
  <1>2. DOMAIN bucket = 1..Len(bucket) /\ Len(bucket) \in Nat /\ \A i \in DOMAIN bucket : bucket[i] \in Ids
    BY LenProperties
  <1>3. M # {} => first \in M
    <2> SUFFICES ASSUME M # {} PROVE first \in M
      OBVIOUS
    <2>1. M \in SUBSET Nat
      BY <1>2
    <2> HIDE DEF M
    <2>2. \E i \in M : \A j \in M : i <= j
      BY <2>1, LeastNatural
    <2> QED BY <2>2
  <1>4. (\E id \in ToSet(bucket) : Matches(f, left, right, id)) => M # {}
    BY DEF ToSet
  <1>5. \A i \in M : bucket[i] \in Ids /\ bucket[i] \in ToSet(bucket) /\ Matches(f, left, right, bucket[i])
    BY <1>2 DEF ToSet
  <1> HIDE DEF M, first
  <1>6. CASE M = {}
    <2>1. FirstMatch(bucket, f, left, right) = <<>>
      BY <1>1, <1>6
    <2>2. <<>> \in Seq(Ids) /\ ToSet(<<>>) = {}
      BY DEF ToSet
    <2> QED BY <1>4, <1>6, <2>1, <2>2
  <1>7. CASE M # {}
    <2> DEFINE x == bucket[first]
    <2>1. x \in Ids /\ x \in ToSet(bucket) /\ Matches(f, left, right, x)
      BY <1>3, <1>5, <1>7
    <2>2. FirstMatch(bucket, f, left, right) = <<x>>
      BY <1>1, <1>7
    <2> HIDE DEF x
    <2>3. <<x>> \in Seq(Ids) /\ ToSet(<<x>>) = {x}
      BY <2>1 DEF ToSet
    <2> QED BY <2>1, <2>2, <2>3
  <1> QED BY <1>6, <1>7

\* What the search for each number of missing digits gives.
FoundFor(b, f, w) == FirstMatch(FuzzyBucket(b, f, w[1], w[2]), f, w[1], w[2])

\* What a search gives: the number itself, or what the searches for each number of
\* missing digits do.
LEMMA FuzzyMatchesAre ==
    ASSUME NEW b, Table(b), b # <<>>, NEW text \in Fragments, Len(text) <= MaxDigits
    PROVE  LET f == FuzzyMatchedId(text)
               found == FuzzyMatches(b, text)
           IN  \/ found = <<f.number>> /\ f.number \in Elements(b)
               \/ ToSet(found) = UNION {ToSet(FoundFor(b, f, w)) : w \in ToSet(Wildcards)}
  <1> DEFINE f == FuzzyMatchedId(text)
             N == f.number
             rows == [k \in DOMAIN Wildcards |-> FoundFor(b, f, Wildcards[k])]
  <1>1. FuzzyMatches(b, text) = IF Holds(b, N) THEN <<N>> ELSE FlattenSeq(rows)
    <2>1. ~ (Len(text) > MaxDigits)
      <3>1. Len(text) \in Nat /\ MaxDigits \in Nat
        BY FragmentIs, IdAssumption
      <3> QED BY <3>1
    <2> QED BY <2>1 DEF FuzzyMatches, FoundFor
  <1>2. CASE Holds(b, N)
    <2> DEFINE i == IdIndex(Len(b), N)
               p == Position(b[i], N)
    <2>1. i \in DOMAIN b
      <3>1. /\ N \in Nat /\ base10_len(N) >= 2 * T /\ base10_len(N) >= 1 /\ N < Power[base10_len(N)]
            /\ base10_len(N) \in 0..MaxDigits /\ MaxDigits \in Nat /\ T \in Nat
        BY FragmentIs, DigitsOf, IdAssumption
      <3> HIDE DEF N
      <3>2. N < Power[MaxDigits]
        <4> DEFINE d == base10_len(N)
        <4>1. d \in Nat /\ MaxDigits - d \in Nat /\ d + (MaxDigits - d) = MaxDigits
              /\ d + (MaxDigits - d) <= MaxDigits + T
          BY <3>1
        <4> HIDE DEF d
        <4>2. Cuts(N, d, MaxDigits - d)
          BY <3>1, <4>1, CutIs
        <4>3. Power[MaxDigits] = Power[d] * Power[MaxDigits - d]
          BY <4>1, PowerSum
        <4>4. Power[d] \in Nat \ {0} /\ Power[MaxDigits - d] \in Nat \ {0} /\ N < Power[d]
          BY <3>1, <4>2 DEF Cuts, d
        <4> DEFINE x == Power[d]
                   y == Power[MaxDigits - d]
        <4> HIDE DEF x, y
        <4>5. x \in Nat \ {0} /\ y \in Nat \ {0} /\ N < x
          BY <4>4 DEF x, y
        <4>6. N < x * y
          BY <3>1, <4>5, SmallerTimes
        <4> QED BY <4>3, <4>6 DEF x, y
      <3>3. Len(b) \in Nat \ {0} /\ DOMAIN b = 1..Len(b)
        BY TableIs
      <3> QED BY <3>1, <3>2, <3>3, MiddleIs
    <2>2. p <= Len(b[i]) /\ b[i][p] = N
      BY <1>2 DEF Holds, Found
    <2> HIDE DEF i
    <2>3. b[i] \in Seq(Ids)
      BY <2>1, TableIs
    <2>4. p \in DOMAIN b[i]
      <3>1. DOMAIN b[i] = 1..Len(b[i]) /\ Len(b[i]) \in Nat
        BY <2>3, LenProperties
      <3> DEFINE D == {k \in DOMAIN b[i] : b[i][k] < N}
      <3>2. IsFiniteSet(D)
        <4>1. 1 \in Int /\ Len(b[i]) \in Int
          BY <3>1
        <4>2. IsFiniteSet(1..Len(b[i]))
          BY <4>1, FS_Interval
        <4> QED BY <3>1, <4>2, FS_Subset
      <3>3. Cardinality(D) \in Nat
        BY <3>2, FS_CardinalityType
      <3>4. p = Cardinality(D) + 1
        BY DEF Position
      <3> HIDE DEF D, p
      <3> QED BY <2>2, <3>1, <3>3, <3>4
    <2>5. N \in ToSet(b[i])
      BY <2>2, <2>4 DEF ToSet
    <2>6. N \in Elements(b)
      BY <2>1, <2>5 DEF Elements
    <2> QED BY <1>1, <1>2, <2>6
  <1>3. CASE ~ Holds(b, N)
    <2>1. \A k \in DOMAIN Wildcards : FoundFor(b, f, Wildcards[k]) \in Seq(Ids)
      <3> TAKE k \in DOMAIN Wildcards
      <3> DEFINE w == Wildcards[k]
                 bucket == FuzzyBucket(b, f, w[1], w[2])
      <3>1. w[1] \in 0..T /\ w[2] \in 0..T
        <4>1. w \in ToSet(Wildcards)
          BY DEF ToSet
        <4> QED BY <4>1, WildcardsAre DEF Missing
      <3> HIDE DEF w
      <3>2. bucket \in {<<>>} \cup {b[i] : i \in DOMAIN b}
        BY <3>1, FuzzyBucketIs
      <3> HIDE DEF bucket, f
      <3>3. bucket \in Seq(Ids)
        <4>1. \A i \in DOMAIN b : b[i] \in Seq(Ids)
          BY TableIs
        <4>2. <<>> \in Seq(Ids)
          BY EmptySeq
        <4> QED BY <3>2, <4>1, <4>2
      <3>4. FirstMatch(bucket, f, w[1], w[2]) \in Seq(Ids)
        BY <3>3, FirstMatchIs
      <3> QED BY <3>4 DEF bucket, w, FoundFor
    <2>2. DOMAIN Wildcards = 1..Len(Wildcards) /\ Len(Wildcards) \in Nat
      BY WildcardsAre, LenProperties
    <2>3. rows \in [1..Len(Wildcards) -> Seq(Ids)]
      BY <2>1, <2>2
    <2>4. rows \in Seq(Seq(Ids)) /\ DOMAIN rows = DOMAIN Wildcards
      BY <2>2, <2>3, SeqDef
    <2>5. \A k \in DOMAIN Wildcards : rows[k] = FoundFor(b, f, Wildcards[k])
      OBVIOUS
    <2> HIDE DEF rows
    <2>6. ToSet(FlattenSeq(rows)) = Elements(rows)
      BY <2>4, FlattenHolds
    <2>7. Elements(rows) = UNION {ToSet(FoundFor(b, f, w)) : w \in ToSet(Wildcards)}
      <3> DEFINE G(w) == ToSet(FoundFor(b, f, w))
      <3>1. \A k \in DOMAIN Wildcards : ToSet(rows[k]) = G(Wildcards[k])
        BY <2>5
      <3>2. ToSet(Wildcards) = {Wildcards[k] : k \in DOMAIN Wildcards}
        BY DEF ToSet
      <3> HIDE DEF G
      <3>3. {ToSet(rows[k]) : k \in DOMAIN rows} = {G(w) : w \in ToSet(Wildcards)}
        BY <2>4, <3>1, <3>2
      <3> QED BY <3>3 DEF Elements, G
    <2> QED BY <1>1, <1>3, <2>6, <2>7
  <1> QED BY <1>2, <1>3

\* What a search of a sound table gives is in the table, and is the number or reads
\* like the text.
LEMMA FuzzyIsSound == Sound(engine) => FuzzySound
  <1> SUFFICES ASSUME Sound(engine), NEW text \in Fragments, engine.buckets # <<>>,
                      NEW id \in ToSet(FuzzyMatches(engine.buckets, text))
               PROVE  /\ id \in Stored
                      /\ \/ id = FuzzyMatchedId(text).number
                         \/ \E w \in ToSet(Wildcards) : Reads(id, w[1], w[2], text)
    BY DEF FuzzySound
  <1> DEFINE b == engine.buckets
             f == FuzzyMatchedId(text)
  <1>1. Table(b) /\ Stored = Elements(b)
    BY StoredIs DEF Sound
  <1>2. CASE Len(text) > MaxDigits
    <2>1. FuzzyMatches(b, text) = <<>>
      BY <1>2 DEF FuzzyMatches
    <2>2. ToSet(<<>>) = {}
      BY DEF ToSet
    <2> QED BY <2>1, <2>2
  <1>3. CASE ~ (Len(text) > MaxDigits)
    <2>0. Len(text) <= MaxDigits
      <3>1. Len(text) \in Nat /\ MaxDigits \in Nat
        BY IdAssumption, LenProperties
      <3> QED BY <1>3, <3>1
    <2>1. CASE FuzzyMatches(b, text) = <<f.number>> /\ f.number \in Elements(b)
      <3>1. ToSet(<<f.number>>) = {f.number}
        BY DEF ToSet
      <3> QED BY <1>1, <2>1, <3>1
    <2>2. CASE ToSet(FuzzyMatches(b, text)) = UNION {ToSet(FoundFor(b, f, w)) : w \in ToSet(Wildcards)}
      <3>1. PICK w \in ToSet(Wildcards) : id \in ToSet(FoundFor(b, f, w))
        BY <2>2
      <3>2. w[1] \in 0..T /\ w[2] \in 0..T
        BY WildcardsAre DEF Missing
      <3> DEFINE bucket == FuzzyBucket(b, f, w[1], w[2])
      <3>3. bucket \in {<<>>} \cup {b[i] : i \in DOMAIN b}
        BY <1>1, <2>0, <3>2, FuzzyBucketIs
      <3>4. id \in ToSet(FirstMatch(bucket, f, w[1], w[2]))
        BY <3>1 DEF FoundFor
      <3> HIDE DEF bucket, f, b
      <3>5. bucket \in Seq(Ids)
        <4>1. \A i \in DOMAIN b : b[i] \in Seq(Ids)
          BY <1>1, TableIs
        <4>2. <<>> \in Seq(Ids)
          BY EmptySeq
        <4> QED BY <3>3, <4>1, <4>2
      <3>6. id \in ToSet(bucket) /\ Matches(f, w[1], w[2], id)
        BY <3>4, <3>5, FirstMatchIs
      <3>7. id \in Elements(b)
        <4>1. ToSet(<<>>) = {}
          BY DEF ToSet
        <4>2. \E i \in DOMAIN b : id \in ToSet(b[i])
          BY <3>3, <3>6, <4>1
        <4> QED BY <4>2 DEF Elements
      <3>8. id \in Ids
        BY <1>1, <3>7, TableIs
      <3>9. Reads(id, w[1], w[2], text)
        BY <2>0, <3>2, <3>6, <3>8, ReadsIs DEF f
      <3> QED BY <1>1, <3>7, <3>9
    <2> QED BY <1>1, <2>0, <2>1, <2>2, FuzzyMatchesAre
  <1> QED BY <1>2, <1>3

\* What lost all of the digits at one end is found in a sound table.
LEMMA FuzzyFinds == Sound(engine) => FuzzyFindsWhatLostAnEnd
  <1> SUFFICES ASSUME Sound(engine), NEW text \in Fragments, NEW id \in Stored, NEW w \in ToSet(Wildcards),
                      Reads(id, w[1], w[2], text), w[1] = T \/ (w[2] = T /\ text[1] # 0)
               PROVE  LET found == FuzzyMatches(engine.buckets, text)
                      IN  \/ found = <<FuzzyMatchedId(text).number>>
                          \/ \E other \in ToSet(found) : Reads(other, w[1], w[2], text)
    BY DEF FuzzyFindsWhatLostAnEnd
  <1> DEFINE b == engine.buckets
             f == FuzzyMatchedId(text)
             bucket == FuzzyBucket(b, f, w[1], w[2])
  <1>1. Table(b) /\ id \in Elements(b)
    BY StoredIs DEF Sound
  <1>2. /\ b # <<>> /\ id \in Ids
        /\ IdIndex(Len(b), id) \in DOMAIN b /\ id \in ToSet(b[IdIndex(Len(b), id)])
    <2>1. b # <<>>
      BY <1>1 DEF Elements
    <2>2. id \in Ids
      BY <1>1, TableIs
    <2> QED BY <1>1, <2>1, <2>2, TableIs
  <1>3. w[1] \in 0..T /\ w[2] \in 0..T /\ w[1] + w[2] >= 1
    BY WildcardsAre DEF Missing
  <1>4. Len(text) <= MaxDigits
    <2>1. base10_len(id) = w[1] + Len(text) + w[2]
      BY DEF Reads
    <2>2. Len(text) \in Nat /\ MaxDigits \in Nat /\ T \in Nat
      BY IdAssumption, LenProperties
    <2>3. base10_len(id) \in 1..MaxDigits
      BY <1>2, IdLength
    <2> QED BY <1>3, <2>1, <2>2, <2>3
  <1>5. bucket = b[IdIndex(Len(b), id)]
    BY <1>1, <1>2, <1>3, <1>4, SameBucket
  <1>6. Matches(f, w[1], w[2], id)
    BY <1>2, <1>3, <1>4, ReadsIs
  <1>7. bucket \in Seq(Ids)
    BY <1>1, <1>2, <1>5, TableIs
  <1>8. CASE ToSet(FuzzyMatches(b, text)) = UNION {ToSet(FoundFor(b, f, v)) : v \in ToSet(Wildcards)}
    <2> HIDE DEF b, f, bucket
    <2>1. /\ ToSet(FirstMatch(bucket, f, w[1], w[2])) # {}
          /\ \A x \in ToSet(FirstMatch(bucket, f, w[1], w[2])) :
                x \in ToSet(bucket) /\ Matches(f, w[1], w[2], x)
      BY <1>2, <1>5, <1>6, <1>7, FirstMatchIs
    <2>2. PICK other \in ToSet(FirstMatch(bucket, f, w[1], w[2])) :
               other \in ToSet(bucket) /\ Matches(f, w[1], w[2], other)
      BY <2>1
    <2>3. other \in ToSet(FoundFor(b, f, w))
      BY <2>2 DEF FoundFor, bucket
    <2>4. other \in ToSet(FuzzyMatches(b, text))
      BY <1>8, <2>3
    <2>5. other \in Ids
      <3>1. ToSet(bucket) \subseteq Ids
        BY <1>1, <1>2, <1>5, TableIs
      <3> QED BY <2>2, <3>1
    <2>6. Reads(other, w[1], w[2], text)
      BY <1>3, <1>4, <2>2, <2>5, ReadsIs DEF f
    <2> QED BY <2>4, <2>6 DEF b
  <1> QED BY <1>1, <1>2, <1>4, <1>8, FuzzyMatchesAre

-----------------------------------------------------------------------------
(***************************************************************************)
(* The results.                                                            *)
(***************************************************************************)

\* Whatever calls are made, in whatever order, with whatever batches and any bounds
\* that are not too small: every bucket is strictly ascending and holds what hashes
\* to it, len counts the ids and the load factor is kept.
THEOREM BucketsStaySound ==
    ASSUME Slacks \subseteq Nat
    PROVE  Spec => []BucketsAreSound
  <1> DEFINE Inv == Sound(engine) /\ Light(engine)
  <1>1. Init => Inv
    BY InitIs
  <1>2. Inv /\ [Next]_vars => Inv'
    <2> SUFFICES ASSUME Inv, [Next]_vars PROVE Inv'
      OBVIOUS
    <2> QED BY StepIs DEF Sound, Light
  <1>3. Inv => BucketsAreSound
    BY SoundImplies
  <1> QED BY <1>1, <1>2, <1>3, PTL DEF Spec

\* The calls answer what those of a set of ids would, as long as every iterator
\* has an upper bound, a wrong one perhaps: extend drops the others.
THEOREM EngineIsASet ==
    ASSUME NoBound \notin Slacks
    PROVE  Spec => ImplementsIdSet
  <1>1. Init => Sound(engine)
    BY InitIs
  <1>2. Sound(engine) /\ [Next]_vars => Sound(engine)'
    <2> SUFFICES ASSUME Sound(engine), [Next]_vars PROVE Sound(engine)'
      OBVIOUS
    <2> QED BY StepIs DEF Sound
  <1>3. Init => Abstract!Init
    <2> SUFFICES ASSUME Init PROVE Abstract!Init
      OBVIOUS
    <2>1. Stored = {}
      BY InitIs, StoredIs
    <2> QED BY <2>1 DEF Init, Abstract!Init
  <1>4. Sound(engine) /\ [Next]_vars => [Abstract!Next]_(Abstract!vars)
    <2> SUFFICES ASSUME Sound(engine), [Next]_vars PROVE [Abstract!Next]_(Abstract!vars)
      OBVIOUS
    <2> DEFINE old == Elements(engine.buckets)
               new == Elements(engine'.buckets)
    <2>0. Sound(engine')
      BY StepIs
    <2>1. Stored = old
      BY StoredIs
    <2>2. Stored' = new
      <3>1. Stored' = ToSet(FlattenSeq(engine'.buckets))
        BY DEF Stored
      <3> QED BY <2>0, <3>1, TableIs DEF Sound
    <2> HIDE DEF old, new
    <2>3. ASSUME NEW id \in Ids, AddId(id) PROVE Abstract!AddId(id)
      <3>1. new = old \cup {id} /\ (engine'.len > engine.len <=> id \notin old)
        BY <2>3, AddedIs DEF AddId, old, new
      <3>2. last' = <<"add", id, engine'.len > engine.len>>
        BY <2>3 DEF AddId
      <3>3. (engine'.len > engine.len) = (id \notin old)
        BY <3>1
      <3> QED BY <2>1, <2>2, <3>1, <3>2, <3>3, Zenon DEF Abstract!AddId
    <2>4. ASSUME NEW id \in Ids, RemoveId(id) PROVE Abstract!RemoveId(id)
      <3>1. CASE engine.len = 0
        <4>1. old = {}
          <5>1. IsFiniteSet(old) /\ Cardinality(old) = 0
            BY <3>1, SoundIs DEF Sound, old
          <5> QED BY <5>1, FS_EmptySet
        <4>2. last' = <<"remove", id, FALSE>> /\ engine' = engine
          BY <2>4, <3>1 DEF RemoveId
        <4>3. new = old
          BY <4>2 DEF new, old
        <4>4. (id \in old) = FALSE /\ new = old \ {id}
          BY <4>1, <4>3
        <4> QED BY <2>1, <2>2, <4>2, <4>4, Zenon DEF Abstract!RemoveId
      <3>2. CASE engine.len # 0
        <4> DEFINE b == ReallocateOnRemove(engine)
                   i == IdIndex(Len(b), id)
                   found == Found(b[i], id)
                   f == IF found
                        THEN [buckets |-> [b EXCEPT ![i] = RemoveAt(@, Position(@, id))],
                              len |-> engine.len - 1]
                        ELSE [engine EXCEPT !.buckets = b]
        <4>1. engine' = f /\ last' = <<"remove", id, found>>
          BY <2>4, <3>2, Zenon DEF RemoveId
        <4>2. Elements(f.buckets) = Elements(engine.buckets) \ {id} /\ (found <=> id \in Elements(engine.buckets))
          BY <3>2, RemovedFromIs
        <4>3. found \in BOOLEAN
          BY DEF Found
        <4> HIDE DEF f, found
        <4>4. new = old \ {id} /\ found = (id \in old)
          BY <4>1, <4>2, <4>3 DEF new, old
        <4> QED BY <2>1, <2>2, <4>1, <4>4, Zenon DEF Abstract!RemoveId
      <3> QED BY <3>1, <3>2
    <2>5. ASSUME NEW id \in Ids, ContainsId(id) PROVE Abstract!ContainsId(id)
      <3>1. /\ engine.buckets # <<>> /\ engine' = engine
            /\ last' = <<"contains", id, Holds(engine.buckets, id)>>
        BY <2>5 DEF ContainsId
      <3>2. Holds(engine.buckets, id) <=> id \in old
        BY <3>1, SoundIs DEF old
      <3>3. Holds(engine.buckets, id) = (id \in old)
        BY <3>2 DEF Holds, Found
      <3>4. Stored' = Stored
        BY <3>1 DEF Stored
      <3> QED BY <2>1, <3>1, <3>3, <3>4, Zenon DEF Abstract!ContainsId
    <2>6. ASSUME NEW batch \in Batches, NEW slack \in Slacks, Extend(batch, slack)
          PROVE  Abstract!Extend(batch)
      <3> DEFINE bound == Bound(batch, slack)
      <3>1. engine' = Extended(engine, batch, bound) /\ last' = <<"extend", batch, engine'.len>>
        BY <2>6 DEF Extend, Bound
      <3>2. batch \in Seq(Ids) /\ bound \in Nat
        BY BoundIs
      <3> HIDE DEF bound
      <3>3. new = old \cup ToSet(batch)
        BY <3>1, <3>2, ExtendedIs DEF new, old
      <3>4. ToSet(batch) = {batch[i] : i \in DOMAIN batch}
        BY DEF ToSet
      <3>5. engine'.len = Cardinality(new)
        BY <2>0 DEF Sound, new
      <3>6. Abstract!Cardinality(new) = Cardinality(new)
        BY DEF Abstract!Cardinality, Cardinality
      <3> QED BY <2>1, <2>2, <3>1, <3>3, <3>4, <3>5, <3>6, Zenon DEF Abstract!Extend
    <2>7. ASSUME NEW batch \in Batches, Compare(batch) PROVE Abstract!Compare(batch)
      <3>1. engine' = engine /\ last' = <<"equal", batch, Equal(engine, FromIter(batch))>>
        BY <2>7 DEF Compare
      <3>2. batch \in Seq(Ids)
        BY IdAssumption
      <3>3. Sound(FromIter(batch)) /\ Elements(FromIter(batch).buckets) = {batch[i] : i \in DOMAIN batch}
        BY <3>2, FromIterIs DEF ToSet
      <3>4. Equal(engine, FromIter(batch)) <=> old = {batch[i] : i \in DOMAIN batch}
        BY <3>3, EqualIs DEF old
      <3>5. Equal(engine, FromIter(batch)) = (old = {batch[i] : i \in DOMAIN batch})
        BY <3>4 DEF Equal
      <3>6. Stored' = Stored
        BY <3>1 DEF Stored
      <3> QED BY <2>1, <3>1, <3>5, <3>6, Zenon DEF Abstract!Compare
    <2>8. CASE UNCHANGED vars
      <3>1. Stored' = Stored /\ last' = last
        BY <2>8 DEF vars, Stored
      <3> QED BY <3>1 DEF Abstract!vars
    <2>9. CASE Next
      <3>1. CASE \E id \in Ids : AddId(id) \/ RemoveId(id) \/ ContainsId(id)
        <4>1. PICK id \in Ids : AddId(id) \/ RemoveId(id) \/ ContainsId(id)
          BY <3>1
        <4>2. Abstract!AddId(id) \/ Abstract!RemoveId(id) \/ Abstract!ContainsId(id)
          BY <2>3, <2>4, <2>5, <4>1
        <4> QED BY <4>2, Zenon DEF Abstract!Next
      <3>2. CASE \E batch \in Batches, slack \in Slacks : Extend(batch, slack)
        <4>1. PICK batch \in Batches, slack \in Slacks : Extend(batch, slack)
          BY <3>2
        <4>2. Abstract!Extend(batch)
          BY <2>6, <4>1
        <4> QED BY <4>2, Zenon DEF Abstract!Next
      <3>3. CASE \E batch \in Batches : Compare(batch)
        <4>1. PICK batch \in Batches : Compare(batch)
          BY <3>3
        <4>2. Abstract!Compare(batch)
          BY <2>7, <4>1
        <4> QED BY <4>2, Zenon DEF Abstract!Next
      <3> QED BY <2>9, <3>1, <3>2, <3>3 DEF Next
    <2> QED BY <2>8, <2>9
  <1> QED BY <1>1, <1>2, <1>3, <1>4, PTL DEF Spec, ImplementsIdSet, Abstract!Spec

\* However the ids came in, a search gives only ids that are in the table, and each
\* is the number asked for or has the text in it with at most T digits missing at
\* either end: a number of a bucket, the zeros in front and the lengths never make
\* another id match.
THEOREM SearchesAreSound == Spec => []FuzzySound
  <1>1. Init => Sound(engine)
    BY InitIs
  <1>2. Sound(engine) /\ [Next]_vars => Sound(engine)'
    BY StepIs DEF Sound
  <1>3. Sound(engine) => FuzzySound
    BY FuzzyIsSound
  <1> QED BY <1>1, <1>2, <1>3, PTL DEF Spec

\* A text that lost T digits on the left, or T on the right and has no zero in
\* front, is looked for in the bucket its id is in, whatever the number of buckets.
THEOREM SearchesFindWhatLostAnEnd == Spec => []FuzzyFindsWhatLostAnEnd
  <1>1. Init => Sound(engine)
    BY InitIs
  <1>2. Sound(engine) /\ [Next]_vars => Sound(engine)'
    BY StepIs DEF Sound
  <1>3. Sound(engine) => FuzzyFindsWhatLostAnEnd
    BY FuzzyFinds
  <1> QED BY <1>1, <1>2, <1>3, PTL DEF Spec
=============================================================================
