------------------------------- MODULE ForvoProofs -------------------------------
(***************************************************************************)
(* Proofs about Forvo: dijkstra gives the lengths of the shortest ways     *)
(* between the countries, the cache keeps them whatever the commands do,   *)
(* and what is sent is the first of the closest recordings.                *)
(***************************************************************************)
EXTENDS Forvo, FoldLemmas, TLAPS

-----------------------------------------------------------------------------
(***************************************************************************)
(* The graph of the countries.                                             *)
(***************************************************************************)

\* The two languages and the errors have nothing in common.
LEMMA LanguagesDiffer == English \cap Spanish = {} /\ Countries \cap Errors = {}
  BY DEF English, Spanish, Countries, Errors

\* The ends of an edge, and its weight.
LEMMA EdgeTypes ==
    ASSUME NEW e \in CountryGraph
    PROVE  /\ e = <<e[1], e[2], e[3]>>
           /\ e[1] \in Countries /\ e[2] \in Countries
           /\ e[3] \in Nat /\ e[3] > 0
  BY ForvoAssumption DEF CountryGraph, Weighted, Countries, English, Spanish

\* An edge that leads from one language to the other is as long as can be.
LEMMA BridgeIsFar ==
    ASSUME NEW e \in CountryGraph, ~ (e[1] \in English <=> e[2] \in English)
    PROVE  e[3] = Far
  BY ForvoAssumption DEF CountryGraph, Weighted, English

\* Two countries have one edge at most.
LEMMA EdgesAreUnique ==
    ASSUME NEW e \in CountryGraph, NEW f \in CountryGraph
    PROVE  /\ ~ (e[1] = f[2] /\ e[2] = f[1])
           /\ e[1] = f[1] => (e[2] = f[2] => e[3] = f[3])
  <1>1. ~ (e[1] = f[2] /\ e[2] = f[1])
    BY SMTT(60), ForvoAssumption DEF CountryGraph, Weighted
  <1>2. e[1] = f[1] => (e[2] = f[2] => e[3] = f[3])
    BY SMTT(60), ForvoAssumption DEF CountryGraph, Weighted
  <1> QED BY <1>1, <1>2

\* An edge leads both ways, with one weight.
LEMMA WaysAre ==
    ASSUME NEW c
    PROVE  \A way \in From(c) :
              /\ way = <<way[1], way[2]>> /\ way[1] \in Countries /\ way[2] \in Nat /\ way[2] > 0
              /\ <<c, way[2]>> \in From(way[1])
              /\ ~ (c \in English <=> way[1] \in English) => way[2] = Far
  <1> TAKE way \in From(c)
  <1>1. CASE way \in {<<e[2], e[3]>> : e \in {e \in CountryGraph : e[1] = c}}
    <2>1. PICK e \in CountryGraph : e[1] = c /\ way = <<e[2], e[3]>>
      BY <1>1
    <2>2. <<c, way[2]>> \in From(way[1])
      BY <2>1 DEF From
    <2> QED BY <2>1, <2>2, EdgeTypes, BridgeIsFar
  <1>2. CASE way \in {<<e[1], e[3]>> : e \in {e \in CountryGraph : e[2] = c}}
    <2>1. PICK e \in CountryGraph : e[2] = c /\ way = <<e[1], e[3]>>
      BY <1>2
    <2>2. <<c, way[2]>> \in From(way[1])
      BY <2>1 DEF From
    <2> QED BY <2>1, <2>2, EdgeTypes, BridgeIsFar
  <1> QED BY <1>1, <1>2 DEF From

LEMMA WaysAreUnique ==
    ASSUME NEW c, NEW v \in From(c), NEW w \in From(c), v[1] = w[1]
    PROVE  v[2] = w[2]
  <1>1. PICK e \in CountryGraph : (e[1] = c /\ v = <<e[2], e[3]>>) \/ (e[2] = c /\ v = <<e[1], e[3]>>)
    BY DEF From
  <1>2. PICK f \in CountryGraph : (f[1] = c /\ w = <<f[2], f[3]>>) \/ (f[2] = c /\ w = <<f[1], f[3]>>)
    BY DEF From
  <1>3. (e[1] = f[1] /\ e[2] = f[2]) \/ (e[1] = f[2] /\ e[2] = f[1])
    BY <1>1, <1>2
  <1>4. e[3] = f[3]
    BY <1>3, EdgesAreUnique
  <1> QED BY <1>1, <1>2, <1>4

\* There is an end to the countries.
LEMMA CountriesAreFinite == IsFiniteSet(Countries) /\ Cardinality(Countries) \in Nat
  <1> DEFINE english == <<"UnitedStates", "Canada", "UnitedKingdom", "Ireland", "Australia", "NewZealand">>
             spanish == <<"Argentina", "Uruguay", "Chile", "Peru", "Bolivia", "Paraguay", "Ecuador",
                          "Colombia", "Venezuela", "Panama", "CostaRica", "ElSalvador", "Nicaragua",
                          "Guatemala", "Honduras", "Mexico", "Cuba", "DominicanRepublic", "Spain">>
             name == [n \in 1..25 |-> IF n <= 6 THEN english[n] ELSE spanish[n - 6]]
  <1>1. \A n \in 1..25 : name[n] \in Countries
    BY DEF Countries, English, Spanish
  <1>2. \A c \in English : \E n \in 1..25 : name[n] = c
    BY DEF English
  <1>3. \A c \in Spanish : \E n \in 1..25 : name[n] = c
    BY DEF Spanish
  <1>4. \A c \in Countries : \E n \in 1..25 : name[n] = c
    BY <1>2, <1>3, Zenon DEF Countries
  <1>5. name = [n \in 1..25 |-> name[n]]
    OBVIOUS
  <1> HIDE DEF name
  <1>6. name \in Surjection(1..25, Countries)
    BY <1>1, <1>4, <1>5 DEF Surjection
  <1>7. IsFiniteSet(1..25)
    <2>1. 1 \in Int /\ 25 \in Int
      OBVIOUS
    <2> QED BY <2>1, FS_Interval, Zenon
  <1> QED BY <1>6, <1>7, FS_Surjection, FS_CardinalityType
-----------------------------------------------------------------------------
(***************************************************************************)
(* Dijkstra.                                                               *)
(***************************************************************************)

\* One side of the bridge between the languages.
SameLanguage(c, d) == c \in English <=> d \in English

\* The settled countries are no farther than the others, and no way from one of
\* them shortens a distance; every distance that is known comes from a settled
\* country; what is on the other side of the bridge is far.
Settling(state, start) ==
    /\ state \in [settled : SUBSET Countries, dist : [Countries -> 0..U32Max]]
    /\ state.dist[start] = 0
    /\ \A c \in state.settled, d \in Countries \ state.settled : state.dist[c] <= state.dist[d]
    /\ \A c \in state.settled : \A way \in From(c) : state.dist[way[1]] <= state.dist[c] + way[2]
    /\ \A c \in Countries \ {start} : state.dist[c] < U32Max =>
           \E way \in From(c) : way[1] \in state.settled /\ state.dist[c] = state.dist[way[1]] + way[2]
    /\ \A c \in Countries : ~ SameLanguage(c, start) => state.dist[c] >= Far

\* Of some countries one is the nearest.
LEMMA NearestExists ==
    ASSUME NEW dist \in [Countries -> Nat], NEW S \in SUBSET Countries, S # {}
    PROVE  \E c \in S : \A d \in S : dist[c] <= dist[d]
  <1> DEFINE T == {dist[c] : c \in S}
  <1>1. T \in SUBSET Nat /\ T # {}
    OBVIOUS
  <1>2. PICK m \in T : \A k \in T : m <= k
    <2> HIDE DEF T
    <2> QED BY <1>1, LeastNatural
  <1> QED BY <1>2

\* What a round does: the nearest country that is not settled is, and its ways
\* shorten the distances of the others, where they can.
LEMMA SettleIs ==
    ASSUME NEW start, NEW state, Settling(state, start), state.settled # Countries
    PROVE  \E c \in Countries \ state.settled :
              /\ \A d \in Countries \ state.settled : state.dist[c] <= state.dist[d]
              /\ Settle(state).settled = state.settled \cup {c}
              /\ Settle(state) \in [settled : SUBSET Countries, dist : [Countries -> 0..U32Max]]
              /\ \A d \in state.settled \cup {c} : Settle(state).dist[d] = state.dist[d]
              /\ \A d \in Countries \ (state.settled \cup {c}) :
                    \/ /\ Settle(state).dist[d] = state.dist[d]
                       /\ \A way \in From(c) : way[1] = d => state.dist[d] <= state.dist[c] + way[2]
                    \/ \E way \in From(c) : /\ way[1] = d /\ state.dist[c] + way[2] <= state.dist[d]
                                            /\ Settle(state).dist[d] = state.dist[c] + way[2]
  <1> DEFINE c == CHOOSE c \in Countries \ state.settled :
                      \A d \in Countries \ state.settled : state.dist[c] <= state.dist[d]
             shortens(d) == \E way \in From(c) : /\ way[1] = d /\ d \notin state.settled
                                                 /\ state.dist[c] + way[2] < state.dist[d]
             new(d) == IF shortens(d) THEN state.dist[c] + (CHOOSE way \in From(c) : way[1] = d)[2]
                       ELSE state.dist[d]
  <1>0. U32Max \in Nat
    BY ForvoAssumption DEF U32Max
  <1>1. state.settled \in SUBSET Countries /\ state.dist \in [Countries -> 0..U32Max]
    BY DEF Settling
  <1>2. state.dist \in [Countries -> Nat]
    BY <1>0, <1>1
  <1>3. \E x \in Countries \ state.settled : \A d \in Countries \ state.settled : state.dist[x] <= state.dist[d]
    BY <1>1, <1>2, NearestExists
  <1>4. c \in Countries \ state.settled /\ \A d \in Countries \ state.settled : state.dist[c] <= state.dist[d]
    BY <1>3, Zenon
  <1>5. Settle(state) = [settled |-> state.settled \cup {c}, dist |-> [d \in Countries |-> new(d)]]
    BY Zenon DEF Settle
  <1> HIDE DEF c
  <1>6. ASSUME NEW d \in Countries
        PROVE  /\ shortens(d) => \E way \in From(c) : /\ way[1] = d /\ state.dist[c] + way[2] < state.dist[d]
                                                      /\ new(d) = state.dist[c] + way[2]
               /\ ~ shortens(d) => new(d) = state.dist[d]
               /\ new(d) \in 0..U32Max
    <2>1. CASE shortens(d)
      <3>1. PICK way \in From(c) : way[1] = d /\ state.dist[c] + way[2] < state.dist[d]
        BY <2>1
      <3> DEFINE chosen == CHOOSE w \in From(c) : w[1] = d
      <3>2. chosen \in From(c) /\ chosen[1] = d
        BY <3>1, Zenon
      <3>3. new(d) = state.dist[c] + chosen[2]
        BY <2>1
      <3> HIDE DEF chosen, new
      <3>4. chosen[2] = way[2] /\ way[2] \in Nat
        <4>1. chosen[1] = way[1]
          BY <3>1, <3>2
        <4>2. chosen[2] = way[2]
          BY <3>2, <4>1, WaysAreUnique, Zenon
        <4>3. way[2] \in Nat
          BY WaysAre
        <4> QED BY <4>2, <4>3
      <3>5. state.dist[c] \in Nat /\ state.dist[d] \in 0..U32Max
        BY <1>1, <1>2, <1>4
      <3> QED BY <1>0, <2>1, <3>1, <3>3, <3>4, <3>5
    <2>2. CASE ~ shortens(d)
      BY <1>1, <2>2
    <2> QED BY <2>1, <2>2
  <1>7. \A d \in Countries : Settle(state).dist[d] = new(d)
    BY <1>5
  <1>8. /\ Settle(state).settled = state.settled \cup {c}
        /\ Settle(state) \in [settled : SUBSET Countries, dist : [Countries -> 0..U32Max]]
    BY <1>1, <1>4, <1>5, <1>6
  <1>9. \A d \in state.settled \cup {c} : ~ shortens(d)
    <2>1. \A way \in From(c) : state.dist[c] \in Nat /\ way[2] \in Nat
      BY <1>2, <1>4, WaysAre
    <2> QED BY <2>1
  <1>10. \A d \in state.settled \cup {c} : Settle(state).dist[d] = state.dist[d]
    <2> HIDE DEF new, shortens
    <2> QED BY <1>1, <1>4, <1>6, <1>7, <1>9
  <1>11. ASSUME NEW d \in Countries \ (state.settled \cup {c})
         PROVE  \/ /\ Settle(state).dist[d] = state.dist[d]
                   /\ \A way \in From(c) : way[1] = d => state.dist[d] <= state.dist[c] + way[2]
                \/ \E way \in From(c) : /\ way[1] = d /\ state.dist[c] + way[2] <= state.dist[d]
                                        /\ Settle(state).dist[d] = state.dist[c] + way[2]
    <2>1. \A way \in From(c) : state.dist[c] \in Nat /\ way[2] \in Nat /\ state.dist[d] \in Nat
      BY <1>2, <1>4, WaysAre
    <2>2. CASE shortens(d)
      <3> HIDE DEF new
      <3> QED BY <1>6, <1>7, <2>1, <2>2
    <2>3. CASE ~ shortens(d)
      <3>1. Settle(state).dist[d] = state.dist[d]
        <4> HIDE DEF new, shortens
        <4> QED BY <1>6, <1>7, <2>3
      <3> QED BY <2>1, <2>3, <3>1
    <2> QED BY <2>2, <2>3
  <1> QED BY <1>4, <1>8, <1>10, <1>11

\* A round keeps all that, and settles one country more.
LEMMA SettleKeeps ==
    ASSUME NEW start \in Countries, NEW state, Settling(state, start), state.settled # Countries
    PROVE  /\ Settling(Settle(state), start)
           /\ Cardinality(Settle(state).settled) = Cardinality(state.settled) + 1
  <1> DEFINE next == Settle(state)
             settled == state.settled
             dist == state.dist
  <1>1. PICK c \in Countries \ settled :
              /\ \A d \in Countries \ settled : dist[c] <= dist[d]
              /\ next.settled = settled \cup {c}
              /\ next \in [settled : SUBSET Countries, dist : [Countries -> 0..U32Max]]
              /\ \A d \in settled \cup {c} : next.dist[d] = dist[d]
              /\ \A d \in Countries \ (settled \cup {c}) :
                    \/ /\ next.dist[d] = dist[d]
                       /\ \A way \in From(c) : way[1] = d => dist[d] <= dist[c] + way[2]
                    \/ \E way \in From(c) : /\ way[1] = d /\ dist[c] + way[2] <= dist[d]
                                            /\ next.dist[d] = dist[c] + way[2]
    BY SettleIs
  <1>2. /\ settled \subseteq Countries /\ dist \in [Countries -> Nat] /\ next.dist \in [Countries -> Nat]
        /\ U32Max \in Nat /\ Far \in Nat /\ Far <= U32Max
        /\ \A d \in Countries : dist[d] <= U32Max
    <2>1. U32Max \in Nat /\ Far \in Nat /\ Far <= U32Max
      BY ForvoAssumption DEF U32Max
    <2> QED BY <1>1, <2>1 DEF Settling
  <1>3. /\ \A x \in settled, d \in Countries \ settled : dist[x] <= dist[d]
        /\ \A x \in settled : \A way \in From(x) : dist[way[1]] <= dist[x] + way[2]
        /\ \A x \in Countries \ {start} : dist[x] < U32Max =>
               \E way \in From(x) : way[1] \in settled /\ dist[x] = dist[way[1]] + way[2]
        /\ \A x \in Countries : ~ SameLanguage(x, start) => dist[x] >= Far
        /\ dist[start] = 0
    BY DEF Settling
  <1> HIDE DEF next, settled, dist
  <1>4. \A d \in Countries : dist[c] <= next.dist[d] \/ d \in settled
    <2> TAKE d \in Countries
    <2>1. CASE d \in settled \cup {c} \/ next.dist[d] = dist[d]
      BY <1>1, <1>2, <2>1
    <2>2. CASE d \notin settled \cup {c} /\ next.dist[d] # dist[d]
      <3>1. PICK way \in From(c) : way[1] = d /\ next.dist[d] = dist[c] + way[2]
        BY <1>1, <2>2
      <3>2. way[2] \in Nat /\ dist[c] \in Nat
        BY <1>2, WaysAre
      <3> QED BY <3>1, <3>2
    <2> QED BY <2>1, <2>2
  <1>5. \A d \in Countries : next.dist[d] <= dist[d]
    BY <1>1, <1>2
  <1>6. \A x \in next.settled, d \in Countries \ next.settled : next.dist[x] <= next.dist[d]
    <2> TAKE x \in next.settled, d \in Countries \ next.settled
    <2>1. d \notin settled /\ x \in Countries /\ next.dist[x] = dist[x] /\ dist[c] <= next.dist[d]
      BY <1>1, <1>2, <1>4
    <2>2. dist[x] <= dist[c]
      BY <1>1, <1>2, <1>3
    <2> QED BY <1>1, <1>2, <2>1, <2>2
  <1>7. \A x \in next.settled : \A way \in From(x) : next.dist[way[1]] <= next.dist[x] + way[2]
    <2> TAKE x \in next.settled
    <2> TAKE way \in From(x)
    <2>1. way[1] \in Countries /\ way[2] \in Nat /\ x \in Countries /\ next.dist[x] = dist[x]
      BY <1>1, <1>2, WaysAre
    <2>2. CASE x \in settled
      BY <1>2, <1>3, <1>5, <2>1, <2>2
    <2>3. CASE x = c /\ way[1] \in settled \cup {c}
      <3>1. next.dist[way[1]] = dist[way[1]] /\ dist[way[1]] <= dist[c]
        BY <1>1, <1>2, <1>3, <2>3
      <3> QED BY <1>2, <2>1, <2>3, <3>1
    <2>4. CASE x = c /\ way[1] \notin settled \cup {c}
      <3>1. CASE next.dist[way[1]] = dist[way[1]] /\ dist[way[1]] <= dist[c] + way[2]
        BY <2>1, <2>4, <3>1
      <3>2. CASE \E w \in From(c) : w[1] = way[1] /\ next.dist[way[1]] = dist[c] + w[2]
        <4>1. PICK w \in From(c) : w[1] = way[1] /\ next.dist[way[1]] = dist[c] + w[2]
          BY <3>2
        <4>2. w[2] = way[2]
          BY <2>4, <4>1, WaysAreUnique
        <4> QED BY <1>2, <2>1, <2>4, <4>1, <4>2
      <3> QED BY <1>1, <2>1, <2>4, <3>1, <3>2
    <2> QED BY <1>1, <2>2, <2>3, <2>4
  <1>8. \A x \in Countries \ {start} : next.dist[x] < U32Max =>
            \E way \in From(x) : way[1] \in next.settled /\ next.dist[x] = next.dist[way[1]] + way[2]
    <2> TAKE x \in Countries \ {start}
    <2> HAVE next.dist[x] < U32Max
    <2>1. CASE next.dist[x] = dist[x]
      <3>1. PICK way \in From(x) : way[1] \in settled /\ dist[x] = dist[way[1]] + way[2]
        BY <1>3, <2>1
      <3> QED BY <1>1, <2>1, <3>1
    <2>2. CASE next.dist[x] # dist[x]
      <3>1. PICK way \in From(c) : way[1] = x /\ next.dist[x] = dist[c] + way[2]
        BY <1>1, <1>2, <2>2
      <3>2. <<c, way[2]>> \in From(x)
        BY <3>1, WaysAre
      <3>3. c \in next.settled /\ next.dist[c] = dist[c]
        BY <1>1
      <3> QED BY <3>1, <3>2, <3>3
    <2> QED BY <2>1, <2>2
  <1>9. \A x \in Countries : ~ SameLanguage(x, start) => next.dist[x] >= Far
    <2> TAKE x \in Countries
    <2> HAVE ~ SameLanguage(x, start)
    <2>1. CASE next.dist[x] = dist[x]
      BY <1>3, <2>1
    <2>2. CASE next.dist[x] # dist[x]
      <3>1. PICK way \in From(c) : way[1] = x /\ next.dist[x] = dist[c] + way[2]
        BY <1>1, <1>2, <2>2
      <3>2. way[2] \in Nat /\ dist[c] \in Nat /\ (~ SameLanguage(c, x) => way[2] = Far)
        BY <1>1, <1>2, <3>1, WaysAre DEF SameLanguage
      <3>3. CASE SameLanguage(c, x)
        <4>1. dist[c] >= Far
          BY <1>1, <1>3, <3>3 DEF SameLanguage
        <4> QED BY <1>2, <3>1, <3>2, <4>1
      <3>4. CASE ~ SameLanguage(c, x)
        BY <1>2, <3>1, <3>2, <3>4
      <3> QED BY <3>3, <3>4
    <2> QED BY <2>1, <2>2
  <1>10. next.dist[start] = 0
    BY <1>2, <1>3, <1>5
  <1>11. Settling(next, start)
    BY <1>1, <1>6, <1>7, <1>8, <1>9, <1>10 DEF Settling
  <1>12. Cardinality(next.settled) = Cardinality(settled) + 1
    <2>1. IsFiniteSet(settled)
      BY <1>2, CountriesAreFinite, FS_Subset
    <2>2. next.settled = settled \cup {c} /\ c \notin settled
      BY <1>1
    <2> QED BY <2>1, <2>2, FS_AddElement
  <1> QED BY <1>11, <1>12 DEF next, settled

\* F goes through the rounds of dijkstra, from nothing settled to all.
Rounds(F, start) ==
    LET n == Cardinality(Countries)
    IN  /\ F[1..0] = [settled |-> {}, dist |-> [c \in Countries |-> IF c = start THEN 0 ELSE U32Max]]
        /\ \A i \in 1..n : F[1..i] = Settle(F[1..(i - 1)])
        /\ Dijkstra(start) = F[1..n].dist

\* At first only the start is at a distance that is known.
LEMMA FirstRound ==
    ASSUME NEW start \in Countries
    PROVE  LET first == [settled |-> {}, dist |-> [c \in Countries |-> IF c = start THEN 0 ELSE U32Max]]
           IN  Settling(first, start) /\ Cardinality(first.settled) = 0
  <1>1. U32Max \in Nat /\ Far \in Nat /\ Far <= U32Max
    BY ForvoAssumption DEF U32Max
  <1> QED BY <1>1, FS_EmptySet DEF Settling, SameLanguage

LEMMA RoundsExist ==
    ASSUME NEW start \in Countries
    PROVE  \E F : Rounds(F, start)
  <1> DEFINE n == Cardinality(Countries)
             rounds == [round \in 1..n |-> round]
             first == [settled |-> {}, dist |-> [c \in Countries |-> IF c = start THEN 0 ELSE U32Max]]
             V == {state \in [settled : SUBSET Countries, dist : [Countries -> 0..U32Max]] : Settling(state, start)}
             step == [p \in (1..n) \X V |-> IF p[2].settled = Countries THEN p[2] ELSE Settle(p[2])]
             F == CHOOSE f : f = [t \in SUBSET DOMAIN rounds |->
                                     IF t = {} THEN first ELSE Settle(f[t \ {Max(t)}])]
  <1>1. n \in Nat /\ DOMAIN rounds = 1..n
    BY CountriesAreFinite
  <1>2. Dijkstra(start) = F[DOMAIN rounds].dist
    BY DEF Dijkstra, FoldLeft, MapThenFoldSet
  <1>3. first \in V /\ Cardinality(first.settled) = 0
    <2>1. Settling(first, start) /\ Cardinality(first.settled) = 0
      BY FirstRound
    <2> HIDE DEF first
    <2> QED BY <2>1 DEF Settling
  <1>4. ASSUME NEW state \in V, state.settled # Countries
        PROVE  Settle(state) \in V /\ Cardinality(Settle(state).settled) = Cardinality(state.settled) + 1
    <2>1. Settling(Settle(state), start) /\ Cardinality(Settle(state).settled) = Cardinality(state.settled) + 1
      BY <1>4, SettleKeeps
    <2> QED BY <2>1 DEF Settling
  <1>5. \A state \in V : state.settled \in SUBSET Countries
    BY DEF Settling
  <1> HIDE DEF n, first, V, rounds
  <1>6. step \in [(1..n) \X V -> V]
    BY <1>4
  <1>7. PICK G \in [SUBSET (1..n) -> V] : RecursiveOnPrefixes(G, n, first, step)
    <2> HIDE DEF step
    <2> QED BY <1>1, <1>3, <1>6, FoldExists
  <1>8. \A t \in SUBSET (1..n) : t # {} =>
            /\ Max(t) \in 1..n /\ t \ {Max(t)} \in SUBSET (1..n)
            /\ IsFiniteSet(t) /\ Cardinality(t) \in 1..n
            /\ Cardinality(t \ {Max(t)}) = Cardinality(t) - 1
    <2> TAKE t \in SUBSET (1..n)
    <2> HAVE t # {}
    <2>1. Max(t) \in t
      BY <1>1, MaxIsIn
    <2>2. IsFiniteSet(1..n) /\ Cardinality(1..n) = n
      <3>1. 1 \in Int /\ n \in Int
        BY <1>1
      <3>2. IsFiniteSet(1..n) /\ Cardinality(1..n) = IF 1 > n THEN 0 ELSE n - 1 + 1
        BY <3>1, FS_Interval, Zenon
      <3> QED BY <1>1, <3>2
    <2>3. IsFiniteSet(t) /\ Cardinality(t) <= n
      <3>1. IsFiniteSet(t) /\ Cardinality(t) <= Cardinality(1..n)
        BY <2>2, FS_Subset, Zenon
      <3> QED BY <2>2, <3>1
    <2>4. Cardinality(t) \in Nat /\ Cardinality(t) # 0
      BY <2>3, FS_CardinalityType, FS_EmptySet
    <2>5. Cardinality(t \ {Max(t)}) = Cardinality(t) - 1
      BY <2>1, <2>3, FS_RemoveElement
    <2>6. Max(t) \in 1..n /\ t \ {Max(t)} \in SUBSET (1..n)
      BY <2>1
    <2>7. Cardinality(t) \in 1..n
      BY <1>1, <2>3, <2>4
    <2> QED BY <2>3, <2>5, <2>6, <2>7
  <1>9. ASSUME NEW t \in SUBSET (1..n), t # {},
               Cardinality(G[t \ {Max(t)}].settled) = Cardinality(t \ {Max(t)})
        PROVE  /\ G[t] = Settle(G[t \ {Max(t)}])
               /\ Cardinality(G[t].settled) = Cardinality(t)
    <2> DEFINE before == G[t \ {Max(t)}]
    <2>1. G[t] = step[<<Max(t), before>>]
      BY <1>7, <1>9 DEF RecursiveOnPrefixes
    <2>2. <<Max(t), before>> \in (1..n) \X V /\ before \in V
      BY <1>7, <1>8, <1>9
    <2>3. Cardinality(before.settled) < n
      BY <1>1, <1>8, <1>9
    <2> HIDE DEF before
    <2>4. before.settled # Countries
      BY <1>1, <2>3 DEF n
    <2>5. G[t] = Settle(before)
      BY <2>1, <2>2, <2>4
    <2>6. Cardinality(G[t].settled) = Cardinality(before.settled) + 1
      BY <1>4, <2>2, <2>4, <2>5
    <2>7. Cardinality(t) \in Nat
      BY <1>8, <1>9
    <2> QED BY <1>8, <1>9, <2>5, <2>6, <2>7 DEF before
  <1>10. \A t \in SUBSET (1..n) : Cardinality(G[t].settled) = Cardinality(t)
    <2> DEFINE D == SUBSET (1..n)
               size == [t \in D |-> Cardinality(t)]
               S == {t \in D : Cardinality(G[t].settled) = Cardinality(t)}
    <2>0. \A t \in D : Cardinality(t) \in Nat
      <3> TAKE t \in D
      <3>1. CASE t = {}
        <4>1. Cardinality(t) = 0
          BY <3>1, FS_EmptySet
        <4> QED BY <4>1
      <3>2. CASE t # {}
        <4>1. Cardinality(t) \in 1..n
          BY <1>8, <3>2
        <4> QED BY <1>1, <4>1
      <3> QED BY <3>1, <3>2
    <2>1. size \in [D -> Nat]
      BY <2>0
    <2>2. ASSUME NEW t \in D, \A r \in D : size[r] < size[t] => r \in S
          PROVE  t \in S
      <3>1. CASE t = {}
        <4>1. G[t] = first
          BY <1>7, <3>1 DEF RecursiveOnPrefixes
        <4> QED BY <1>3, <3>1, <4>1, FS_EmptySet
      <3>2. CASE t # {}
        <4>1. size[t \ {Max(t)}] < size[t]
          <5>1. t \ {Max(t)} \in D /\ Cardinality(t \ {Max(t)}) = Cardinality(t) - 1 /\ Cardinality(t) \in Nat
            BY <1>8, <2>0, <3>2
          <5> QED BY <5>1
        <4>2. t \ {Max(t)} \in S
          BY <1>8, <2>2, <3>2, <4>1
        <4> QED BY <1>9, <3>2, <4>2
      <3> QED BY <3>1, <3>2
    <2>3. D \subseteq S
      <3> HIDE DEF D, size, S
      <3> QED BY <2>1, <2>2, InductionBySize
    <2> QED BY <2>3
  <1>11. G = [t \in SUBSET DOMAIN rounds |-> IF t = {} THEN first ELSE Settle(G[t \ {Max(t)}])]
    <2> SUFFICES ASSUME NEW t \in SUBSET (1..n)
                 PROVE  G[t] = IF t = {} THEN first ELSE Settle(G[t \ {Max(t)}])
      BY <1>1, <1>7
    <2>1. CASE t = {}
      BY <1>7, <2>1 DEF RecursiveOnPrefixes
    <2>2. CASE t # {}
      BY <1>8, <1>9, <1>10, <2>2
    <2> QED BY <2>1, <2>2
  <1>12. F = [t \in SUBSET DOMAIN rounds |-> IF t = {} THEN first ELSE Settle(F[t \ {Max(t)}])]
    BY <1>11, Zenon
  <1> HIDE DEF F
  <1>13. F[1..0] = first
    <2>1. 1..0 = {}
      OBVIOUS
    <2> QED BY <1>12, <2>1
  <1>14. \A i \in 1..n : F[1..i] = Settle(F[1..(i - 1)])
    <2> TAKE i \in 1..n
    <2>1. 1..i \in SUBSET (1..n) /\ 1..i # {}
      BY <1>1
    <2>2. Max(1..i) = i /\ (1..i) \ {i} = 1..(i - 1)
      BY <1>1, MaxOfPrefix
    <2> QED BY <1>1, <1>12, <2>1, <2>2
  <1> QED BY <1>1, <1>2, <1>13, <1>14 DEF Rounds, n, first

\* The distances from start: no edge shortens one, one leads to every country, and
\* the other language is farther than all of one's own.
RowIs(dist, start) ==
    /\ dist \in [Countries -> Nat]
    /\ dist[start] = 0
    /\ \A c \in Countries : \A way \in From(c) : dist[c] <= dist[way[1]] + way[2]
    /\ \A c \in Countries \ {start} : \E way \in From(c) : dist[c] = dist[way[1]] + way[2]
    /\ \A c \in Countries : dist[c] < U32Max
    /\ \A c \in Countries : dist[c] < Far <=> SameLanguage(c, start)

\* All countries are settled at the end.
LEMMA AllSettled ==
    ASSUME NEW start \in Countries
    PROVE  \E state : Settling(state, start) /\ state.settled = Countries /\ Dijkstra(start) = state.dist
  <1> DEFINE n == Cardinality(Countries)
  <1>1. n \in Nat
    BY CountriesAreFinite
  <1>2. PICK F : Rounds(F, start)
    BY RoundsExist
  <1> DEFINE S == {i \in 0..n : Settling(F[1..i], start) /\ Cardinality(F[1..i].settled) = i}
  <1>3. 0 \in S
    <2> DEFINE first == [settled |-> {}, dist |-> [c \in Countries |-> IF c = start THEN 0 ELSE U32Max]]
    <2>1. F[1..0] = first
      BY <1>2 DEF Rounds
    <2>2. Settling(first, start) /\ Cardinality(first.settled) = 0
      BY FirstRound
    <2> HIDE DEF first
    <2> QED BY <1>1, <2>1, <2>2
  <1>4. ASSUME NEW i \in 0..(n - 1), i \in S PROVE i + 1 \in S
    <2>1. i + 1 \in 1..n /\ (i + 1) - 1 = i /\ i + 1 \in 0..n /\ i # n
      BY <1>1
    <2>2. F[1..(i + 1)] = Settle(F[1..i])
      BY <1>2, <2>1 DEF Rounds
    <2>3. F[1..i].settled # Countries
      BY <1>4, <2>1
    <2>4. Settling(F[1..(i + 1)], start) /\ Cardinality(F[1..(i + 1)].settled) = i + 1
      BY <1>4, <2>2, <2>3, SettleKeeps
    <2> QED BY <2>1, <2>4
  <1>5. 0..n \subseteq S
    <2> HIDE DEF S, n
    <2> QED BY <1>1, <1>3, <1>4, InductionUpTo
  <1>6. Settling(F[1..n], start) /\ Cardinality(F[1..n].settled) = n
    BY <1>1, <1>5
  <1>7. F[1..n].settled \in SUBSET Countries
    BY <1>6 DEF Settling
  <1>8. F[1..n].settled = Countries
    BY <1>6, <1>7, CountriesAreFinite, FS_Subset
  <1>9. Dijkstra(start) = F[1..n].dist
    BY <1>2 DEF Rounds
  <1> QED BY <1>6, <1>8, <1>9

Near(dist, c, d, weight) == dist[c] <= dist[d] + weight /\ dist[d] <= dist[c] + weight

\* No edge shortens a distance.
Short(dist) == \A c \in Countries : \A way \in From(c) : dist[way[1]] <= dist[c] + way[2]

LEMMA EdgeIsNear ==
    ASSUME NEW dist, Short(dist), NEW c \in Countries, NEW d \in Countries, NEW weight,
           <<c, d, weight>> \in CountryGraph
    PROVE  Near(dist, c, d, weight)
  <1> DEFINE e == <<c, d, weight>>
  <1>1. e[1] = c /\ e[2] = d /\ e[3] = weight /\ e \in CountryGraph
    OBVIOUS
  <1> HIDE DEF e
  <1>2. <<d, weight>> \in From(c) /\ <<c, weight>> \in From(d)
    BY <1>1 DEF From
  <1>3. /\ dist[<<d, weight>>[1]] <= dist[c] + <<d, weight>>[2]
        /\ dist[<<c, weight>>[1]] <= dist[d] + <<c, weight>>[2]
    BY <1>2 DEF Short
  <1> QED BY <1>3 DEF Near

\* A way from every country to the capital of its accents.
LEMMA SpanishIsNear ==
    ASSUME NEW dist \in [Countries -> Nat], Short(dist)
    PROVE  \A c \in Spanish : Near(dist, c, "Argentina", 30)
  <1>1. \A c \in Spanish : c \in Countries /\ dist[c] \in Nat
    BY DEF Countries
  <1>2.
        /\ Near(dist, "Argentina", "Uruguay", 1)
        /\ Near(dist, "Argentina", "Paraguay", 2)
        /\ Near(dist, "Argentina", "Chile", 3)
        /\ Near(dist, "Argentina", "Peru", 3)
        /\ Near(dist, "Bolivia", "Peru", 1)
        /\ Near(dist, "Bolivia", "Ecuador", 2)
        /\ Near(dist, "Ecuador", "Colombia", 4)
        /\ Near(dist, "Colombia", "Venezuela", 1)
        /\ Near(dist, "Colombia", "Panama", 4)
        /\ Near(dist, "Venezuela", "DominicanRepublic", 2)
        /\ Near(dist, "Venezuela", "Cuba", 2)
        /\ Near(dist, "Panama", "CostaRica", 1)
        /\ Near(dist, "CostaRica", "ElSalvador", 1)
        /\ Near(dist, "ElSalvador", "Nicaragua", 1)
        /\ Near(dist, "Nicaragua", "Guatemala", 1)
        /\ Near(dist, "Guatemala", "Honduras", 1)
        /\ Near(dist, "Panama", "Mexico", 2)
        /\ Near(dist, "Spain", "Argentina", 30)
    <2>1. <<"Argentina", "Uruguay", 1>> \in CountryGraph
      BY DEF CountryGraph, Weighted
    <2>2. <<"Argentina", "Paraguay", 2>> \in CountryGraph
      BY DEF CountryGraph, Weighted
    <2>3. <<"Argentina", "Chile", 3>> \in CountryGraph
      BY DEF CountryGraph, Weighted
    <2>4. <<"Argentina", "Peru", 3>> \in CountryGraph
      BY DEF CountryGraph, Weighted
    <2>5. <<"Bolivia", "Peru", 1>> \in CountryGraph
      BY DEF CountryGraph, Weighted
    <2>6. <<"Bolivia", "Ecuador", 2>> \in CountryGraph
      BY DEF CountryGraph, Weighted
    <2>7. <<"Ecuador", "Colombia", 4>> \in CountryGraph
      BY DEF CountryGraph, Weighted
    <2>8. <<"Colombia", "Venezuela", 1>> \in CountryGraph
      BY DEF CountryGraph, Weighted
    <2>9. <<"Colombia", "Panama", 4>> \in CountryGraph
      BY DEF CountryGraph, Weighted
    <2>10. <<"Venezuela", "DominicanRepublic", 2>> \in CountryGraph
      BY DEF CountryGraph, Weighted
    <2>11. <<"Venezuela", "Cuba", 2>> \in CountryGraph
      BY DEF CountryGraph, Weighted
    <2>12. <<"Panama", "CostaRica", 1>> \in CountryGraph
      BY DEF CountryGraph, Weighted
    <2>13. <<"CostaRica", "ElSalvador", 1>> \in CountryGraph
      BY DEF CountryGraph, Weighted
    <2>14. <<"ElSalvador", "Nicaragua", 1>> \in CountryGraph
      BY DEF CountryGraph, Weighted
    <2>15. <<"Nicaragua", "Guatemala", 1>> \in CountryGraph
      BY DEF CountryGraph, Weighted
    <2>16. <<"Guatemala", "Honduras", 1>> \in CountryGraph
      BY DEF CountryGraph, Weighted
    <2>17. <<"Panama", "Mexico", 2>> \in CountryGraph
      BY DEF CountryGraph, Weighted
    <2>18. <<"Spain", "Argentina", 30>> \in CountryGraph
      BY DEF CountryGraph, Weighted
    <2> QED BY <2>1, <2>2, <2>3, <2>4, <2>5, <2>6, <2>7, <2>8, <2>9, <2>10, <2>11, <2>12, <2>13, <2>14, <2>15, <2>16, <2>17, <2>18, EdgeIsNear DEF Countries, English, Spanish
  <1> QED BY <1>1, <1>2 DEF Spanish, Near

LEMMA EnglishIsNear ==
    ASSUME NEW dist \in [Countries -> Nat], Short(dist)
    PROVE  \A c \in English : Near(dist, c, "UnitedStates", 15)
  <1>1. \A c \in English : c \in Countries /\ dist[c] \in Nat
    BY DEF Countries
  <1>2.
        /\ Near(dist, "UnitedStates", "Canada", 1)
        /\ Near(dist, "Canada", "UnitedKingdom", 10)
        /\ Near(dist, "UnitedKingdom", "Ireland", 4)
        /\ Near(dist, "UnitedStates", "Australia", 11)
        /\ Near(dist, "Australia", "NewZealand", 2)
    <2>1. <<"UnitedStates", "Canada", 1>> \in CountryGraph
      BY DEF CountryGraph, Weighted
    <2>2. <<"Canada", "UnitedKingdom", 10>> \in CountryGraph
      BY DEF CountryGraph, Weighted
    <2>3. <<"UnitedKingdom", "Ireland", 4>> \in CountryGraph
      BY DEF CountryGraph, Weighted
    <2>4. <<"UnitedStates", "Australia", 11>> \in CountryGraph
      BY DEF CountryGraph, Weighted
    <2>5. <<"Australia", "NewZealand", 2>> \in CountryGraph
      BY DEF CountryGraph, Weighted
    <2> QED BY <2>1, <2>2, <2>3, <2>4, <2>5, EdgeIsNear DEF Countries, English, Spanish
  <1> QED BY <1>1, <1>2 DEF English, Near

\* From any country all of its language are within 60, and the others within 60 of
\* the bridge.
LEMMA AllAreNear ==
    ASSUME NEW dist \in [Countries -> Nat], Short(dist), NEW start \in Countries, dist[start] = 0
    PROVE  \A c \in Countries : IF SameLanguage(c, start) THEN dist[c] <= 60 ELSE dist[c] <= Far + 60
  <1> DEFINE arg == dist["Argentina"]
             us == dist["UnitedStates"]
  <1>1. "Argentina" \in Countries /\ "UnitedStates" \in Countries /\ Far \in Nat
    BY ForvoAssumption DEF Countries, English, Spanish
  <1>2. arg <= us + Far /\ us <= arg + Far
    <2>1. <<"Argentina", "UnitedStates", Far>> \in CountryGraph
      BY DEF CountryGraph, Weighted
    <2> QED BY <1>1, <2>1, EdgeIsNear DEF Near
  <1>3. \A c \in Spanish : dist[c] <= arg + 30 /\ arg <= dist[c] + 30
    BY SpanishIsNear DEF Near
  <1>4. \A c \in English : dist[c] <= us + 15 /\ us <= dist[c] + 15
    BY EnglishIsNear DEF Near
  <1>5. arg \in Nat /\ us \in Nat /\ \A c \in Countries : dist[c] \in Nat
    BY <1>1
  <1> HIDE DEF arg, us
  <1>6. \A c \in Countries : c \in English <=> c \notin Spanish
    BY LanguagesDiffer DEF Countries
  <1>7. CASE start \in English
    <2>1. us <= 15 /\ arg <= Far + 15
      BY <1>1, <1>2, <1>4, <1>5, <1>7
    <2> TAKE c \in Countries
    <2>2. CASE c \in English
      BY <1>4, <1>5, <1>7, <2>1, <2>2 DEF SameLanguage
    <2>3. CASE c \in Spanish
      <3>1. ~ SameLanguage(c, start)
        BY <1>6, <1>7, <2>3 DEF SameLanguage
      <3> QED BY <1>1, <1>3, <1>5, <2>1, <2>3, <3>1
    <2> QED BY <1>6, <2>2, <2>3
  <1>8. CASE start \in Spanish
    <2>1. arg <= 30 /\ us <= Far + 30
      BY <1>1, <1>2, <1>3, <1>5, <1>8
    <2> TAKE c \in Countries
    <2>2. CASE c \in Spanish
      <3>1. SameLanguage(c, start)
        BY <1>6, <1>8, <2>2 DEF SameLanguage, Countries
      <3> QED BY <1>3, <1>5, <2>1, <2>2, <3>1
    <2>3. CASE c \in English
      <3>1. ~ SameLanguage(c, start)
        BY <1>6, <1>8, <2>3 DEF SameLanguage
      <3> QED BY <1>1, <1>4, <1>5, <2>1, <2>3, <3>1
    <2> QED BY <1>6, <2>2, <2>3
  <1> QED BY <1>6, <1>7, <1>8

\* Dijkstra gives the lengths of the shortest ways.
LEMMA DistancesAre ==
    ASSUME NEW start \in Countries
    PROVE  RowIs(Distances[start], start)
  <1>1. PICK state : Settling(state, start) /\ state.settled = Countries /\ Dijkstra(start) = state.dist
    BY AllSettled
  <1> DEFINE dist == state.dist
  <1>2. Distances[start] = dist
    BY <1>1 DEF Distances
  <1>3. /\ dist \in [Countries -> Nat] /\ dist[start] = 0
        /\ \A c \in Countries : \A way \in From(c) : dist[way[1]] <= dist[c] + way[2]
        /\ \A c \in Countries \ {start} : dist[c] < U32Max =>
               \E way \in From(c) : dist[c] = dist[way[1]] + way[2]
        /\ \A c \in Countries : ~ SameLanguage(c, start) => dist[c] >= Far
    <2>1. U32Max \in Nat
      BY ForvoAssumption DEF U32Max
    <2> QED BY <1>1, <2>1 DEF Settling
  <1> HIDE DEF dist
  <1>4. \A c \in Countries : IF SameLanguage(c, start) THEN dist[c] <= 60 ELSE dist[c] <= Far + 60
    BY <1>3, AllAreNear DEF Short
  <1>5. \A c \in Countries : dist[c] < U32Max /\ (dist[c] < Far <=> SameLanguage(c, start))
    <2> TAKE c \in Countries
    <2>1. dist[c] \in Nat /\ Far \in Nat /\ Far > 100 /\ U32Max = 2 * Far + 1
      BY <1>3, ForvoAssumption DEF U32Max
    <2>2. CASE SameLanguage(c, start)
      BY <1>4, <2>1, <2>2
    <2>3. CASE ~ SameLanguage(c, start)
      BY <1>3, <1>4, <2>1, <2>3
    <2> QED BY <2>2, <2>3
  <1>6. \A c \in Countries : \A way \in From(c) : dist[c] <= dist[way[1]] + way[2]
    <2> TAKE c \in Countries
    <2> TAKE way \in From(c)
    <2>1. way[1] \in Countries /\ <<c, way[2]>> \in From(way[1])
      BY WaysAre
    <2>2. dist[<<c, way[2]>>[1]] <= dist[way[1]] + <<c, way[2]>>[2]
      BY <1>3, <2>1
    <2> QED BY <2>2
  <1> QED BY <1>2, <1>3, <1>5, <1>6 DEF RowIs
-----------------------------------------------------------------------------
(***************************************************************************)
(* The cache, and the closest recording.                                   *)
(***************************************************************************)

\* The cache with the rows of some countries.
CacheOf(rows) == [pair \in rows \X Countries |-> Distances[pair[1]][pair[2]]]

Caches == {CacheOf(rows) : rows \in SUBSET Countries}

LEMMA DistanceType ==
    ASSUME NEW base \in Countries, NEW c \in Countries
    PROVE  Distances[base][c] \in Nat
  BY DistancesAre DEF RowIs

\* A missing row is inserted, and nothing else changes.
LEMMA KnownIs ==
    ASSUME NEW base \in Countries, NEW country \in Countries, NEW cache \in Caches
    PROVE  /\ Known(base, country, cache) \in Caches
           /\ \A c \in Countries : Known(base, country, cache)[<<base, c>>] = Distances[base][c]
  <1>1. PICK rows \in SUBSET Countries : cache = CacheOf(rows)
    BY DEF Caches
  <1>2. CASE <<base, country>> \in DOMAIN cache
    <2>1. base \in rows /\ Known(base, country, cache) = cache
      BY <1>1, <1>2 DEF Known, CacheOf
    <2>2. \A c \in Countries : cache[<<base, c>>] = Distances[base][c]
      BY <1>1, <2>1 DEF CacheOf
    <2> QED BY <2>1, <2>2
  <1>3. CASE <<base, country>> \notin DOMAIN cache
    <2> DEFINE new == rows \cup {base}
    <2>1. Known(base, country, cache) = InsertRow(base, cache)
      BY <1>3 DEF Known
    <2>2. DOMAIN cache = rows \X Countries
      BY <1>1 DEF CacheOf
    <2>3. DOMAIN cache \cup {<<base, c>> : c \in Countries} = new \X Countries
      BY <2>2
    <2>4. \A pair \in new \X Countries :
              (IF pair[1] = base THEN Distances[base][pair[2]] ELSE cache[pair]) = Distances[pair[1]][pair[2]]
      <3> TAKE pair \in new \X Countries
      <3>1. CASE pair[1] = base
        BY <3>1
      <3>2. CASE pair[1] # base
        <4>1. pair \in rows \X Countries
          BY <3>2
        <4> QED BY <1>1, <3>2, <4>1 DEF CacheOf
      <3> QED BY <3>1, <3>2
    <2>5. InsertRow(base, cache) = CacheOf(new)
      BY <2>3, <2>4 DEF InsertRow, CacheOf
    <2>6. new \in SUBSET Countries /\ base \in new
      OBVIOUS
    <2>7. CacheOf(new) \in Caches /\ \A c \in Countries : CacheOf(new)[<<base, c>>] = Distances[base][c]
      <3> HIDE DEF new
      <3> QED BY <2>6 DEF Caches, CacheOf
    <2> QED BY <2>1, <2>5, <2>7
  <1> QED BY <1>2, <1>3

LEMMA BaseIs ==
    ASSUME NEW request \in Requests \cup {None}, NEW language
    PROVE  Base(request, language) \in Countries /\ (request \in Countries => Base(request, language) = request)
  BY ForvoAssumption DEF Base, Countries, English, Spanish

\* The comparison, whatever is cached: countries that need no look at the graph
\* included.
LEMMA IsCloserIs ==
    ASSUME NEW request \in Requests \cup {None}, NEW language, NEW cache \in Caches,
           NEW new \in Countries, NEW current \in Countries
    PROVE  LET base == Base(request, language)
               result == IsCloser(new, current, request, base, cache)
           IN  /\ result.closer <=> Distances[base][new] < Distances[base][current]
               /\ result.closer \in BOOLEAN /\ result.cache \in Caches
  <1> DEFINE base == Base(request, language)
             result == IsCloser(new, current, request, base, cache)
             after == Known(base, new, cache)
  <1>1. base \in Countries /\ (current = request => base = current)
    BY BaseIs
  <1>2. Distances[base][new] \in Nat /\ Distances[base][current] \in Nat /\ Distances[base][base] = 0
    BY <1>1, DistanceType, DistancesAre DEF RowIs
  <1>3. CASE new = current \/ current = request
    <2>1. result = [closer |-> FALSE, cache |-> cache]
      BY <1>3 DEF IsCloser
    <2>2. ~ (Distances[base][new] < Distances[base][current])
      BY <1>1, <1>2, <1>3
    <2> QED BY <2>1, <2>2
  <1>4. CASE ~ (new = current \/ current = request)
    <2>1. result = [closer |-> after[<<base, new>>] < after[<<base, current>>], cache |-> after]
      BY <1>4 DEF IsCloser
    <2>2. after \in Caches /\ after[<<base, new>>] = Distances[base][new]
          /\ after[<<base, current>>] = Distances[base][current]
      BY <1>1, KnownIs
    <2> HIDE DEF result, after, base
    <2>3. result.closer = (Distances[base][new] < Distances[base][current]) /\ result.cache \in Caches
      BY <2>1, <2>2
    <2>4. result.closer \in BOOLEAN
      BY <2>3
    <2> QED BY <2>3, <2>4 DEF result, base
  <1> QED
    <2> HIDE DEF result, base
    <2> QED BY <1>3, <1>4 DEF result, base

\* What possible_recordings_to_data makes of the i-th recording.
Considered(entries, request, language, chosen, i) ==
    LET result == IsCloser(entries[i], entries[chosen.at], request, Base(request, language), chosen.cache)
    IN  CASE entries[i] \in Errors -> chosen
          [] entries[i] \notin Errors /\ chosen.at = 0 -> [chosen EXCEPT !.at = i]
          [] OTHER -> [at |-> IF result.closer THEN i ELSE chosen.at, cache |-> result.cache]

\* What may be chosen of some recordings.
MayChoose(entries) ==
    {f \in [at : 0..Len(entries), cache : Caches] : f.at # 0 => entries[f.at] \in Countries}

LEMMA ConsideredIs ==
    ASSUME NEW entries \in Seq(Countries \cup Errors), NEW request \in Requests \cup {None}, NEW language,
           NEW chosen \in MayChoose(entries), NEW i \in 1..Len(entries)
    PROVE  LET next == Considered(entries, request, language, chosen, i)
               dist == Distances[Base(request, language)]
           IN  /\ next \in MayChoose(entries)
               /\ entries[i] \in Errors => next.at = chosen.at
               /\ entries[i] \in Countries =>
                     next.at = IF chosen.at = 0 \/ dist[entries[i]] < dist[entries[chosen.at]] THEN i ELSE chosen.at
  <1> DEFINE next == Considered(entries, request, language, chosen, i)
             dist == Distances[Base(request, language)]
             result == IsCloser(entries[i], entries[chosen.at], request, Base(request, language), chosen.cache)
  <1>1. entries[i] \in Countries \cup Errors /\ i \in 0..Len(entries)
    OBVIOUS
  <1>2. chosen \in [at : 0..Len(entries), cache : Caches] /\ (chosen.at # 0 => entries[chosen.at] \in Countries)
    BY DEF MayChoose
  <1>3. CASE entries[i] \in Errors
    <2>1. next = chosen
      BY <1>3 DEF Considered
    <2> QED BY <1>3, <2>1, LanguagesDiffer
  <1>4. CASE entries[i] \notin Errors /\ chosen.at = 0
    <2>1. next = [chosen EXCEPT !.at = i]
      BY <1>4 DEF Considered
    <2>2. next \in MayChoose(entries) /\ next.at = i
      BY <1>1, <1>2, <1>4, <2>1 DEF MayChoose
    <2> QED BY <1>4, <2>2
  <1>5. CASE entries[i] \notin Errors /\ chosen.at # 0
    <2>1. next = [at |-> IF result.closer THEN i ELSE chosen.at, cache |-> result.cache]
      BY <1>5, Zenon DEF Considered
    <2>2. /\ result.closer <=> dist[entries[i]] < dist[entries[chosen.at]]
          /\ result.cache \in Caches
      BY <1>1, <1>2, <1>5, IsCloserIs
    <2> HIDE DEF result, dist
    <2>3. next \in MayChoose(entries)
      BY <1>1, <1>2, <1>5, <2>1, <2>2 DEF MayChoose
    <2> QED BY <1>5, <2>1, <2>2, <2>3 DEF dist
  <1> QED BY <1>3, <1>4, <1>5

\* F goes through the recordings of a container.
Chooses(F, entries, request, language, cache) ==
    /\ F[1..0] = [at |-> 0, cache |-> cache]
    /\ \A i \in 0..Len(entries) : F[1..i] \in MayChoose(entries)
    /\ \A i \in 1..Len(entries) : F[1..i] = Considered(entries, request, language, F[1..(i - 1)], i)
    /\ ClosestOf(entries, request, language, cache) = F[1..Len(entries)]

LEMMA ChoicesExist ==
    ASSUME NEW entries \in Seq(Countries \cup Errors), NEW request \in Requests \cup {None}, NEW language,
           NEW cache \in Caches
    PROVE  \E F : Chooses(F, entries, request, language, cache)
  <1> DEFINE n == Len(entries)
             s == [i \in DOMAIN entries |-> i]
             V == MayChoose(entries)
             first == [at |-> 0, cache |-> cache]
             step == [p \in (1..n) \X V |-> Considered(entries, request, language, p[2], p[1])]
             F == CHOOSE f : f = [t \in SUBSET DOMAIN s |->
                                     IF t = {} THEN first
                                     ELSE Considered(entries, request, language, f[t \ {Max(t)}], s[Max(t)])]
  <1>1. n \in Nat /\ DOMAIN s = 1..n /\ \A i \in 1..n : s[i] = i
    BY LenProperties
  <1>2. ClosestOf(entries, request, language, cache) = F[DOMAIN s]
    BY DEF ClosestOf, FoldLeftDomain, FoldLeft, MapThenFoldSet, Considered
  <1>3. \A f \in V, i \in 1..n : Considered(entries, request, language, f, i) \in V
    BY ConsideredIs
  <1>4. first \in V
    BY <1>1 DEF MayChoose
  <1> HIDE DEF n, V, s, first
  <1>5. step \in [(1..n) \X V -> V]
    BY <1>1, <1>3
  <1>6. PICK G \in [SUBSET (1..n) -> V] : RecursiveOnPrefixes(G, n, first, step)
    <2> HIDE DEF step
    <2> QED BY <1>1, <1>4, <1>5, FoldExists
  <1>7. \A t \in SUBSET (1..n) : t # {} => Max(t) \in 1..n /\ t \ {Max(t)} \in SUBSET (1..n)
    BY <1>1, MaxIsIn
  <1>8. G = [t \in SUBSET DOMAIN s |->
                IF t = {} THEN first
                ELSE Considered(entries, request, language, G[t \ {Max(t)}], s[Max(t)])]
    <2> SUFFICES ASSUME NEW t \in SUBSET (1..n)
                 PROVE  G[t] = IF t = {} THEN first
                               ELSE Considered(entries, request, language, G[t \ {Max(t)}], s[Max(t)])
      BY <1>1
    <2>1. CASE t = {}
      BY <1>6, <2>1 DEF RecursiveOnPrefixes
    <2>2. CASE t # {}
      <3>1. G[t] = step[<<Max(t), G[t \ {Max(t)}]>>]
        BY <1>6, <2>2 DEF RecursiveOnPrefixes
      <3>2. <<Max(t), G[t \ {Max(t)}]>> \in (1..n) \X V /\ s[Max(t)] = Max(t)
        BY <1>1, <1>6, <1>7, <2>2
      <3> QED BY <2>2, <3>1, <3>2
    <2> QED BY <2>1, <2>2
  <1>9. F = [t \in SUBSET DOMAIN s |->
                IF t = {} THEN first
                ELSE Considered(entries, request, language, F[t \ {Max(t)}], s[Max(t)])]
    BY <1>8, Zenon
  <1> HIDE DEF F
  <1>10. F[{}] = first
    BY <1>9
  <1>11. ASSUME NEW t \in SUBSET (1..n), t # {}, F[t \ {Max(t)}] \in V
         PROVE  F[t] = step[<<Max(t), F[t \ {Max(t)}]>>]
    <2>1. F[t] = Considered(entries, request, language, F[t \ {Max(t)}], s[Max(t)])
      BY <1>1, <1>9, <1>11
    <2>2. <<Max(t), F[t \ {Max(t)}]>> \in (1..n) \X V /\ s[Max(t)] = Max(t)
      BY <1>1, <1>7, <1>11
    <2> QED BY <2>1, <2>2
  <1>12. RunsThrough(F, n, V, first, step)
    <2> HIDE DEF step
    <2>1. FollowsOn(F, n, V, first, step)
      BY <1>10, <1>11 DEF FollowsOn
    <2> QED BY <1>1, <1>4, <1>5, <2>1, FoldValues
  <1>13. \A i \in 1..n : F[1..i] = Considered(entries, request, language, F[1..(i - 1)], i)
    <2> TAKE i \in 1..n
    <2>1. i - 1 \in 0..n
      BY <1>1
    <2>2. F[1..i] = step[<<i, F[1..(i - 1)]>>] /\ F[1..(i - 1)] \in V
      BY <1>12, <2>1 DEF RunsThrough
    <2> QED BY <2>2
  <1>14. F[1..0] = first /\ \A i \in 0..n : F[1..i] \in V
    BY <1>12 DEF RunsThrough
  <1>15. ClosestOf(entries, request, language, cache) = F[1..n]
    BY <1>1, <1>2
  <1> QED BY <1>13, <1>14, <1>15 DEF n, V, first, Chooses

\* The choice among the first n recordings of a container.
ChosenOf(at, container, request, n) ==
    LET dist(j) == Distances[Base(request, container.language)][container.entries[j]]
        read == {j \in Readable(container) : j <= n}
    IN  IF read = {} THEN at = 0
        ELSE at \in read /\ \A j \in read : dist(at) < dist(j) \/ (dist(at) = dist(j) /\ at <= j)

\* The recording that is kept at the end is the first of the closest, if there is one.
LEMMA ClosestIs ==
    ASSUME NEW container \in Containers, NEW request \in Requests \cup {None}, NEW cache \in Caches
    PROVE  LET chosen == ClosestOf(container.entries, request, container.language, cache)
           IN  /\ chosen.cache \in Caches
               /\ IF Readable(container) = {} THEN chosen.at = 0
                  ELSE chosen.at # 0 /\ IsNearest(chosen.at, container, request)
  <1> DEFINE entries == container.entries
             language == container.language
             n == Len(entries)
             dist(j) == Distances[Base(request, language)][entries[j]]
             read(i) == {j \in Readable(container) : j <= i}
  <1>1. entries \in Seq(Countries \cup Errors)
    BY DEF Containers
  <1>2. n \in Nat /\ DOMAIN entries = 1..n
    BY <1>1, LenProperties
  <1>3. PICK F : Chooses(F, entries, request, language, cache)
    BY <1>1, ChoicesExist
  <1>4. Readable(container) \subseteq 1..n /\ \A j \in 1..n : j \in Readable(container) <=> entries[j] \in Countries
    BY <1>2 DEF Readable
  <1>5. \A j \in Readable(container) : dist(j) \in Nat
    BY <1>4, BaseIs, DistanceType
  <1> DEFINE S == {i \in 0..n : ChosenOf(F[1..i].at, container, request, i)}
  <1> HIDE DEF n, entries, language, dist
  <1>6. 0 \in S
    <2>1. read(0) = {}
      BY <1>2, <1>4
    <2>2. F[1..0].at = 0
      BY <1>3 DEF Chooses
    <2> QED BY <1>2, <2>1, <2>2 DEF ChosenOf
  <1>7. ASSUME NEW i \in 0..(n - 1), i \in S PROVE i + 1 \in S
    <2> DEFINE at == F[1..i].at
               new == F[1..(i + 1)].at
    <2>1. i + 1 \in 1..n /\ (i + 1) - 1 = i /\ i \in 0..n
      BY <1>2
    <2>2. F[1..i] \in MayChoose(entries)
          /\ F[1..(i + 1)] = Considered(entries, request, language, F[1..i], i + 1)
      BY <1>3, <2>1 DEF Chooses, n
    <2>3. /\ entries[i + 1] \in Errors => new = at
          /\ entries[i + 1] \in Countries =>
                new = IF at = 0 \/ Distances[Base(request, language)][entries[i + 1]]
                                     < Distances[Base(request, language)][entries[at]]
                      THEN i + 1 ELSE at
      <3> DEFINE chosen == F[1..i]
                 k == i + 1
                 result == Considered(entries, request, language, chosen, k)
      <3>1. chosen \in MayChoose(entries) /\ k \in 1..Len(entries)
        BY <2>1, <2>2 DEF n
      <3> HIDE DEF chosen, k
      <3>2. /\ entries[k] \in Errors => result.at = chosen.at
            /\ entries[k] \in Countries =>
                  result.at = IF chosen.at = 0 \/ Distances[Base(request, language)][entries[k]]
                                                  < Distances[Base(request, language)][entries[chosen.at]]
                              THEN k ELSE chosen.at
        BY <1>1, <3>1, ConsideredIs
      <3>3. F[1..(i + 1)] = result
        BY <2>2 DEF chosen, k
      <3> HIDE DEF result
      <3> QED BY <3>2, <3>3 DEF chosen, k
    <2>4. entries[i + 1] \in Countries \cup Errors
      BY <1>1, <2>1 DEF n
    <2>5. IF read(i) = {} THEN at = 0
          ELSE at \in read(i) /\ \A j \in read(i) : dist(at) < dist(j) \/ (dist(at) = dist(j) /\ at <= j)
      BY <1>7 DEF ChosenOf, dist, entries, language
    <2> HIDE DEF at, new
    <2>6. IF read(i + 1) = {} THEN new = 0
          ELSE /\ new \in read(i + 1)
               /\ \A j \in read(i + 1) : dist(new) < dist(j) \/ (dist(new) = dist(j) /\ new <= j)
      <3>1. CASE entries[i + 1] \in Errors
        <4>1. read(i + 1) = read(i)
          BY <1>2, <1>4, <2>1, <3>1, LanguagesDiffer
        <4> HIDE DEF read
        <4> QED BY <2>3, <2>5, <3>1, <4>1
      <3>2. CASE entries[i + 1] \in Countries
        <4>1. read(i + 1) = read(i) \cup {i + 1} /\ \A j \in read(i) : j <= i /\ j \in Nat
          BY <1>2, <1>4, <2>1, <3>2
        <4>2. \A j \in read(i + 1) : dist(j) \in Nat
          BY <1>5
        <4>3. new = IF at = 0 \/ dist(i + 1) < dist(at) THEN i + 1 ELSE at
          BY <2>3, <3>2 DEF dist
        <4>4. at = 0 <=> read(i) = {}
          BY <1>2, <1>4, <2>5
        <4> HIDE DEF read
        <4>5. CASE read(i) = {}
          BY <2>1, <4>1, <4>2, <4>3, <4>4, <4>5
        <4>6. CASE read(i) # {} /\ dist(i + 1) < dist(at)
          <5>1. new = i + 1
            BY <4>3, <4>6
          <5> QED BY <2>1, <2>5, <4>1, <4>2, <4>6, <5>1
        <4>7. CASE read(i) # {} /\ ~ (dist(i + 1) < dist(at))
          <5>1. new = at
            BY <4>3, <4>4, <4>7
          <5> QED BY <2>1, <2>5, <4>1, <4>2, <4>7, <5>1
        <4> QED BY <4>5, <4>6, <4>7
      <3> QED BY <2>4, <3>1, <3>2
    <2> QED BY <2>1, <2>6 DEF new, ChosenOf, dist, entries, language
  <1>8. n \in S
    <2>1. 0..n \subseteq S
      <3> HIDE DEF S
      <3> QED BY <1>2, <1>6, <1>7, InductionUpTo
    <2> QED BY <1>2, <2>1
  <1>9. read(n) = Readable(container)
    BY <1>2, <1>4
  <1>10. F[1..n] \in MayChoose(entries) /\ ClosestOf(entries, request, language, cache) = F[1..n]
    BY <1>2, <1>3 DEF Chooses, n
  <1>11. IF Readable(container) = {} THEN F[1..n].at = 0
         ELSE F[1..n].at # 0 /\ IsNearest(F[1..n].at, container, request)
    BY <1>2, <1>4, <1>8, <1>9 DEF ChosenOf, IsNearest, entries, language
  <1>12. F[1..n].cache \in Caches
    BY <1>10 DEF MayChoose
  <1> QED BY <1>10, <1>11, <1>12 DEF entries, language
-----------------------------------------------------------------------------
(***************************************************************************)
(* The command.                                                            *)
(***************************************************************************)

\* What became of the recordings of some containers.
Downloading == UNION {[D -> {"asked", "loaded", "failed"}] : D \in SUBSET Nat}

ForvoTypes ==
    /\ accentDifferences \in Caches
    /\ pc \in [Slots -> {"idle", "fetch", "rank", "download"}]
    /\ requested \in [Slots -> Requests \cup {None}]
    /\ page \in [Slots -> Seq(Containers)]
    /\ closest \in [Slots -> Seq(Nat)]
    /\ downloads \in [Slots -> Downloading]
    /\ replies = [t \in Slots |-> replies[t]]

\* Each container that is ranked has the first of its closest recordings chosen.
Ranked(t) ==
    /\ Len(closest[t]) <= Len(page[t])
    /\ \A i \in DOMAIN closest[t] :
          IF Readable(page[t][i]) = {} THEN closest[t][i] = 0
          ELSE closest[t][i] # 0 /\ IsNearest(closest[t][i], page[t][i], requested[t])

\* Where a command is says what it knows.
TaskInv(t) ==
    /\ \A i \in DOMAIN page[t] : Wanted(requested[t], page[t][i].language)
    /\ Ranked(t)
    /\ pc[t] \in {"idle", "fetch"} => page[t] = <<>> /\ closest[t] = <<>>
    /\ pc[t] \in {"fetch", "rank"} => replies[t] = {}
    /\ pc[t] # "download" => DOMAIN downloads[t] = {}
    /\ pc[t] = "download" => /\ Len(closest[t]) = Len(page[t])
                             /\ DOMAIN downloads[t] = Chosen(t) /\ Chosen(t) # {}
                             /\ replies[t] = IF Broken(t) THEN {Fail} ELSE {}

ForvoInv == ForvoTypes /\ \A t \in Slots : TaskInv(t)

\* Nothing is cached and no command runs at first.
LEMMA NothingCached == <<>> \in Caches /\ <<>> \in Downloading /\ DOMAIN <<>> = {}
  <1>1. DOMAIN <<>> = {}
    OBVIOUS
  <1>2. <<>> = CacheOf({})
    BY DEF CacheOf
  <1>3. <<>> \in [{} -> {"asked", "loaded", "failed"}]
    OBVIOUS
  <1> QED BY <1>1, <1>2, <1>3 DEF Caches, Downloading

\* A command that is over, or has not begun.
LEMMA OverIs ==
    ASSUME NEW t, page[t] = <<>>, closest[t] = <<>>, downloads[t] = <<>>, pc[t] = "idle"
    PROVE  TaskInv(t)
  BY NothingCached DEF TaskInv, Ranked

LEMMA ForvoInitInv == Init => ForvoInv
  <1> SUFFICES ASSUME Init PROVE ForvoInv
    OBVIOUS
  <1>1. ForvoTypes
    BY NothingCached DEF Init, ForvoTypes
  <1>2. ASSUME NEW t \in Slots PROVE TaskInv(t)
    BY OverIs DEF Init
  <1> QED BY <1>1, <1>2 DEF ForvoInv

\* What Done leaves, for the command and for the others.
LEMMA DoneIs ==
    ASSUME ForvoTypes, NEW t \in Slots, Done(t)
    PROVE  /\ pc' \in [Slots -> {"idle", "fetch", "rank", "download"}]
           /\ requested' \in [Slots -> Requests \cup {None}]
           /\ page' \in [Slots -> Seq(Containers)]
           /\ closest' \in [Slots -> Seq(Nat)]
           /\ downloads' \in [Slots -> Downloading]
           /\ TaskInv(t)'
           /\ pc'[t] = "idle"
           /\ \A u \in Slots \ {t} : /\ pc'[u] = pc[u] /\ requested'[u] = requested[u]
                                     /\ page'[u] = page[u] /\ closest'[u] = closest[u]
                                     /\ downloads'[u] = downloads[u]
  <1>1. /\ pc'[t] = "idle" /\ page'[t] = <<>> /\ closest'[t] = <<>> /\ downloads'[t] = <<>>
    BY DEF Done, ForvoTypes
  <1>2. TaskInv(t)'
    BY <1>1, NothingCached DEF TaskInv, Ranked
  <1>3. downloads' \in [Slots -> Downloading]
    BY NothingCached DEF Done, ForvoTypes
  <1>4. /\ pc' \in [Slots -> {"idle", "fetch", "rank", "download"}]
        /\ requested' \in [Slots -> Requests \cup {None}]
        /\ page' \in [Slots -> Seq(Containers)] /\ closest' \in [Slots -> Seq(Nat)]
    BY DEF Done, ForvoTypes
  <1>5. \A u \in Slots \ {t} : /\ pc'[u] = pc[u] /\ requested'[u] = requested[u]
                               /\ page'[u] = page[u] /\ closest'[u] = closest[u]
                               /\ downloads'[u] = downloads[u]
    BY DEF Done, ForvoTypes
  <1> QED BY <1>1, <1>2, <1>3, <1>4, <1>5

\* The other commands are as they were.
Others(t) ==
    \A u \in Slots \ {t} : /\ pc'[u] = pc[u] /\ requested'[u] = requested[u]
                           /\ page'[u] = page[u] /\ closest'[u] = closest[u]
                           /\ downloads'[u] = downloads[u] /\ replies'[u] = replies[u]

LEMMA OthersKeep ==
    ASSUME NEW t \in Slots, Others(t), NEW u \in Slots \ {t}, TaskInv(u)
    PROVE  TaskInv(u)'
  <1>1. /\ pc'[u] = pc[u] /\ requested'[u] = requested[u] /\ page'[u] = page[u]
        /\ closest'[u] = closest[u] /\ downloads'[u] = downloads[u] /\ replies'[u] = replies[u]
    BY DEF Others
  <1>2. Chosen(u)' = Chosen(u) /\ (Broken(u)' <=> Broken(u))
    BY <1>1 DEF Chosen, Broken
  <1>3. Ranked(u)'
    BY <1>1 DEF TaskInv, Ranked
  <1> QED BY <1>1, <1>2, <1>3 DEF TaskInv

\* Ranking a container: whatever the cache was.
LEMMA RankKeeps ==
    ASSUME ForvoInv, NEW t \in Slots, Rank(t)
    PROVE  ForvoTypes' /\ TaskInv(t)' /\ Others(t)
  <1> DEFINE i == Len(closest[t]) + 1
             container == page[t][i]
             chosen == ClosestOf(container.entries, requested[t], container.language, accentDifferences)
             new == Append(closest[t], chosen.at)
  <1>1. /\ pc[t] = "rank" /\ i <= Len(page[t])
        /\ closest' = [closest EXCEPT ![t] = new]
        /\ accentDifferences' = chosen.cache
        /\ UNCHANGED <<pc, requested, page, downloads, replies>>
    BY DEF Rank
  <1>2. page[t] \in Seq(Containers) /\ closest[t] \in Seq(Nat) /\ requested[t] \in Requests \cup {None}
        /\ accentDifferences \in Caches
    BY DEF ForvoInv, ForvoTypes
  <1>3. container \in Containers /\ i \in Nat /\ i - 1 = Len(closest[t])
    <2>1. i \in 1..Len(page[t]) /\ i \in Nat /\ i - 1 = Len(closest[t])
      BY <1>1, <1>2
    <2> QED BY <1>2, <2>1
  <1>4. /\ chosen.cache \in Caches
        /\ IF Readable(container) = {} THEN chosen.at = 0
           ELSE chosen.at # 0 /\ IsNearest(chosen.at, container, requested[t])
    <2> HIDE DEF container
    <2> QED BY <1>2, <1>3, ClosestIs
  <1>5. chosen.at \in Nat
    <2>1. \A k \in Readable(container) : k \in Nat
      <3>1. container.entries \in Seq(Countries \cup Errors)
        BY <1>3 DEF Containers
      <3> HIDE DEF container
      <3> QED BY <3>1 DEF Readable
    <2> HIDE DEF container, chosen
    <2> QED BY <1>4, <2>1 DEF IsNearest
  <1> HIDE DEF chosen
  <1>6. new \in Seq(Nat) /\ Len(new) = i /\ new[i] = chosen.at /\ DOMAIN new = 1..i
        /\ \A j \in 1..(i - 1) : new[j] = closest[t][j]
    BY <1>2, <1>3, <1>5
  <1>7. DOMAIN closest[t] = 1..(i - 1)
    BY <1>2, <1>3
  <1> HIDE DEF new, i
  <1>8. closest'[t] = new /\ \A u \in Slots \ {t} : closest'[u] = closest[u]
    BY <1>1 DEF ForvoInv, ForvoTypes
  <1>9. ForvoTypes'
    <2>1. ForvoTypes
      BY DEF ForvoInv
    <2>2. closest' \in [Slots -> Seq(Nat)]
      BY <1>1, <1>6, <2>1 DEF ForvoTypes
    <2> QED BY <1>1, <1>4, <2>1, <2>2 DEF ForvoTypes
  <1>10. Ranked(t)'
    <2>1. \A j \in 1..i : IF Readable(page[t][j]) = {} THEN new[j] = 0
                          ELSE new[j] # 0 /\ IsNearest(new[j], page[t][j], requested[t])
      <3> TAKE j \in 1..i
      <3>1. CASE j = i
        BY <1>4, <1>6, <3>1
      <3>2. CASE j # i
        <4>1. j \in 1..(i - 1) /\ new[j] = closest[t][j] /\ j \in DOMAIN closest[t]
          BY <1>3, <1>6, <1>7, <3>2
        <4> QED BY <4>1 DEF ForvoInv, TaskInv, Ranked
      <3> QED BY <3>1, <3>2
    <2>2. Len(closest'[t]) <= Len(page'[t]) /\ DOMAIN closest'[t] = 1..i
      BY <1>1, <1>6, <1>8
    <2> QED BY <1>1, <1>8, <2>1, <2>2 DEF Ranked
  <1>11. TaskInv(t)'
    BY <1>1, <1>10 DEF ForvoInv, TaskInv, Wanted
  <1>12. Others(t)
    BY <1>1, <1>8 DEF Others
  <1> QED BY <1>9, <1>11, <1>12

\* What the page's selection does with one container more.
Kept(kept, container, request) ==
    IF Wanted(request, container.language) THEN Append(kept, container) ELSE kept

\* A selection of containers in the wanted languages.
Selections(request) ==
    {s \in Seq(Containers) : \A i \in DOMAIN s : Wanted(request, s[i].language)}

LEMMA KeptIs ==
    ASSUME NEW request, NEW kept \in Selections(request), NEW container \in Containers
    PROVE  Kept(kept, container, request) \in Selections(request)
  <1> DEFINE new == Append(kept, container)
  <1>1. kept \in Seq(Containers) /\ \A i \in DOMAIN kept : Wanted(request, kept[i].language)
    BY DEF Selections
  <1>2. CASE Wanted(request, container.language)
    <2>1. new \in Seq(Containers) /\ DOMAIN new = 1..(Len(kept) + 1) /\ DOMAIN kept = 1..Len(kept)
          /\ Len(kept) \in Nat /\ new[Len(kept) + 1] = container
          /\ \A i \in 1..Len(kept) : new[i] = kept[i]
      BY <1>1
    <2> HIDE DEF new
    <2>2. \A i \in DOMAIN new : Wanted(request, new[i].language)
      <3> TAKE i \in DOMAIN new
      <3>1. CASE i = Len(kept) + 1
        BY <1>2, <2>1, <3>1
      <3>2. CASE i # Len(kept) + 1
        <4>1. i \in DOMAIN kept /\ new[i] = kept[i]
          BY <2>1, <3>2
        <4> QED BY <1>1, <4>1
      <3> QED BY <3>1, <3>2
    <2>3. Kept(kept, container, request) = new
      BY <1>2 DEF Kept, new
    <2> QED BY <2>1, <2>2, <2>3 DEF Selections
  <1>3. CASE ~ Wanted(request, container.language)
    BY <1>3 DEF Kept
  <1> QED BY <1>2, <1>3

\* The containers that are kept are in the wanted languages.
LEMMA SelectedIs ==
    ASSUME NEW s \in Seq(Containers), NEW request
    PROVE  Selected(s, request) \in Selections(request)
  <1> DEFINE n == Len(s)
             V == Selections(request)
             step == [p \in (1..n) \X V |-> Kept(p[2], s[p[1]], request)]
             F == CHOOSE f : f = [t \in SUBSET DOMAIN s |->
                                     IF t = {} THEN <<>> ELSE Kept(f[t \ {Max(t)}], s[Max(t)], request)]
  <1>1. n \in Nat /\ DOMAIN s = 1..n /\ \A i \in 1..n : s[i] \in Containers
    BY LenProperties
  <1>2. Selected(s, request) = F[DOMAIN s]
    BY DEF Selected, FoldLeft, MapThenFoldSet, Kept
  <1>3. \A f \in V, i \in 1..n : Kept(f, s[i], request) \in V
    BY <1>1, KeptIs
  <1>4. <<>> \in V
    BY NothingCached DEF Selections
  <1> HIDE DEF n, V
  <1>5. step \in [(1..n) \X V -> V]
    BY <1>1, <1>3
  <1>6. PICK G \in [SUBSET (1..n) -> V] : RecursiveOnPrefixes(G, n, <<>>, step)
    <2> HIDE DEF step
    <2> QED BY <1>1, <1>4, <1>5, FoldExists
  <1>7. \A t \in SUBSET (1..n) : t # {} => Max(t) \in 1..n /\ t \ {Max(t)} \in SUBSET (1..n)
    BY <1>1, MaxIsIn
  <1>8. G = [t \in SUBSET DOMAIN s |->
                IF t = {} THEN <<>> ELSE Kept(G[t \ {Max(t)}], s[Max(t)], request)]
    <2> SUFFICES ASSUME NEW t \in SUBSET (1..n)
                 PROVE  G[t] = IF t = {} THEN <<>> ELSE Kept(G[t \ {Max(t)}], s[Max(t)], request)
      BY <1>1
    <2>1. CASE t = {}
      BY <1>6, <2>1 DEF RecursiveOnPrefixes
    <2>2. CASE t # {}
      <3>1. G[t] = step[<<Max(t), G[t \ {Max(t)}]>>]
        BY <1>6, <2>2 DEF RecursiveOnPrefixes
      <3>2. <<Max(t), G[t \ {Max(t)}]>> \in (1..n) \X V /\ Max(t) \in 1..n
        BY <1>6, <1>7, <2>2
      <3> QED BY <1>1, <2>2, <3>1, <3>2
    <2> QED BY <2>1, <2>2
  <1>9. F = [t \in SUBSET DOMAIN s |->
                IF t = {} THEN <<>> ELSE Kept(F[t \ {Max(t)}], s[Max(t)], request)]
    BY <1>8, Zenon
  <1> HIDE DEF F
  <1>10. F[{}] = <<>>
    BY <1>9
  <1>11. ASSUME NEW t \in SUBSET (1..n), t # {}, F[t \ {Max(t)}] \in V
         PROVE  F[t] = step[<<Max(t), F[t \ {Max(t)}]>>]
    <2>1. F[t] = Kept(F[t \ {Max(t)}], s[Max(t)], request)
      BY <1>1, <1>9, <1>11
    <2>2. <<Max(t), F[t \ {Max(t)}]>> \in (1..n) \X V /\ Max(t) \in 1..n
      BY <1>7, <1>11
    <2> QED BY <1>1, <2>1, <2>2
  <1>12. RunsThrough(F, n, V, <<>>, step)
    <2> HIDE DEF step
    <2>1. FollowsOn(F, n, V, <<>>, step)
      BY <1>10, <1>11 DEF FollowsOn
    <2> QED BY <1>1, <1>4, <1>5, <2>1, FoldValues
  <1>13. n \in 0..n
    BY <1>1
  <1>14. F[1..n] \in V
    BY <1>12, <1>13 DEF RunsThrough
  <1> QED BY <1>1, <1>2, <1>14 DEF V

\* The page comes, and its containers in the wanted languages are kept.
LEMMA FetchedKeeps ==
    ASSUME ForvoInv, NEW t \in Slots, NEW containers \in Pages, Fetched(t, containers)
    PROVE  ForvoTypes' /\ TaskInv(t)' /\ Others(t)
  <1> DEFINE kept == Selected(containers, requested[t])
  <1>1. /\ pc[t] = "fetch" /\ pc' = [pc EXCEPT ![t] = "rank"] /\ page' = [page EXCEPT ![t] = kept]
        /\ UNCHANGED <<accentDifferences, requested, closest, downloads, replies>>
    BY DEF Fetched
  <1>2. containers \in Seq(Containers)
    BY ForvoAssumption
  <1>3. kept \in Seq(Containers) /\ \A i \in DOMAIN kept : Wanted(requested[t], kept[i].language)
    BY <1>2, SelectedIs DEF Selections
  <1> HIDE DEF kept
  <1>4. page'[t] = kept /\ pc'[t] = "rank" /\ \A u \in Slots \ {t} : page'[u] = page[u] /\ pc'[u] = pc[u]
    BY <1>1 DEF ForvoInv, ForvoTypes
  <1>5. ForvoTypes'
    BY <1>1, <1>3 DEF ForvoInv, ForvoTypes
  <1>6. TaskInv(t)'
    <2>1. closest[t] = <<>> /\ replies[t] = {} /\ DOMAIN downloads[t] = {} /\ Len(kept) \in Nat
      BY <1>1, <1>3 DEF ForvoInv, TaskInv
    <2> QED BY <1>1, <1>3, <1>4, <2>1, NothingCached DEF TaskInv, Ranked
  <1> QED BY <1>1, <1>4, <1>5, <1>6 DEF Others

\* The downloads begin, or there is nothing to download.
LEMMA ReportKeeps ==
    ASSUME ForvoInv, NEW t \in Slots, Report(t)
    PROVE  ForvoTypes' /\ TaskInv(t)' /\ Others(t)
  <1> DEFINE said == (IF Broken(t) THEN {Fail} ELSE {}) \cup (IF Chosen(t) = {} THEN {NothingFound} ELSE {})
  <1>1. /\ pc[t] = "rank" /\ Len(closest[t]) = Len(page[t])
        /\ replies' = [replies EXCEPT ![t] = said] /\ accentDifferences' = accentDifferences
    BY DEF Report
  <1>2. replies'[t] = said /\ replies' = [u \in Slots |-> replies'[u]]
        /\ \A u \in Slots \ {t} : replies'[u] = replies[u]
    <2> HIDE DEF said
    <2> QED BY <1>1 DEF ForvoInv, ForvoTypes
  <1>3. CASE Chosen(t) = {} /\ Done(t)
    BY <1>1, <1>2, <1>3, DoneIs DEF ForvoInv, ForvoTypes, Others
  <1>4. CASE /\ Chosen(t) # {} /\ pc' = [pc EXCEPT ![t] = "download"]
             /\ downloads' = [downloads EXCEPT ![t] = [i \in Chosen(t) |-> "asked"]]
             /\ UNCHANGED <<requested, page, closest>>
    <2>1. Chosen(t) \subseteq Nat
      BY DEF Chosen, ForvoInv, ForvoTypes
    <2>2. [i \in Chosen(t) |-> "asked"] \in Downloading
      <3>1. [i \in Chosen(t) |-> "asked"] \in [Chosen(t) -> {"asked", "loaded", "failed"}]
        OBVIOUS
      <3> QED BY <2>1, <3>1, Zenon DEF Downloading
    <2>3. /\ pc'[t] = "download" /\ DOMAIN downloads'[t] = Chosen(t)
          /\ \A u \in Slots \ {t} : pc'[u] = pc[u] /\ downloads'[u] = downloads[u]
      BY <1>4 DEF ForvoInv, ForvoTypes
    <2>4. ForvoTypes'
      <3>1. ForvoTypes
        BY DEF ForvoInv
      <3>2. pc' \in [Slots -> {"idle", "fetch", "rank", "download"}]
        BY <1>4, <3>1 DEF ForvoTypes
      <3>3. downloads' \in [Slots -> Downloading]
        BY <1>4, <2>2, <3>1 DEF ForvoTypes
      <3> QED BY <1>1, <1>2, <1>4, <3>1, <3>2, <3>3 DEF ForvoTypes
    <2>5. Chosen(t)' = Chosen(t) /\ (Broken(t)' <=> Broken(t))
      BY <1>4 DEF Chosen, Broken
    <2>6. replies'[t] = IF Broken(t) THEN {Fail} ELSE {}
      BY <1>2, <1>4
    <2>7. Ranked(t)' /\ \A i \in DOMAIN page'[t] : Wanted(requested'[t], page'[t][i].language)
      BY <1>4 DEF ForvoInv, TaskInv, Ranked
    <2>8. TaskInv(t)'
      BY <1>1, <1>4, <2>3, <2>5, <2>6, <2>7 DEF TaskInv
    <2> QED BY <1>2, <1>4, <2>3, <2>4, <2>8 DEF Others
  <1> QED BY <1>3, <1>4 DEF Report

\* A download ends.
LEMMA DownloadedKeeps ==
    ASSUME ForvoInv, NEW t \in Slots, NEW i \in DOMAIN downloads[t], NEW outcome \in {"loaded", "failed"},
           Downloaded(t, i, outcome)
    PROVE  ForvoTypes' /\ TaskInv(t)' /\ Others(t)
  <1> DEFINE new == [downloads[t] EXCEPT ![i] = outcome]
  <1>1. /\ downloads' = [downloads EXCEPT ![t] = new]
        /\ UNCHANGED <<accentDifferences, pc, requested, page, closest, replies>>
    BY DEF Downloaded
  <1>2. PICK D \in SUBSET Nat : downloads[t] \in [D -> {"asked", "loaded", "failed"}]
    <2>1. downloads[t] \in Downloading
      BY DEF ForvoInv, ForvoTypes
    <2> QED BY <2>1, Zenon DEF Downloading
  <1>3. new \in [D -> {"asked", "loaded", "failed"}] /\ DOMAIN new = DOMAIN downloads[t]
    BY <1>2
  <1>4. new \in Downloading
    BY <1>3, Zenon DEF Downloading
  <1> HIDE DEF new
  <1>5. downloads'[t] = new /\ \A u \in Slots \ {t} : downloads'[u] = downloads[u]
    BY <1>1 DEF ForvoInv, ForvoTypes
  <1>6. ForvoTypes'
    BY <1>1, <1>4 DEF ForvoInv, ForvoTypes
  <1>7. TaskInv(t)'
    <2>1. Chosen(t)' = Chosen(t) /\ (Broken(t)' <=> Broken(t)) /\ DOMAIN downloads'[t] = DOMAIN downloads[t]
      BY <1>1, <1>3, <1>5 DEF Chosen, Broken
    <2>2. Ranked(t)' /\ \A j \in DOMAIN page'[t] : Wanted(requested'[t], page'[t][j].language)
      BY <1>1 DEF ForvoInv, TaskInv, Ranked
    <2> QED BY <1>1, <2>1, <2>2 DEF ForvoInv, TaskInv
  <1> QED BY <1>1, <1>5, <1>6, <1>7 DEF Others

\* Every step keeps the invariant.
LEMMA ForvoStep == ForvoInv /\ [Next]_vars => ForvoInv'
  <1> SUFFICES ASSUME ForvoInv, [Next]_vars PROVE ForvoInv'
    OBVIOUS
  <1>1. ASSUME NEW t \in Slots, Step(t) PROVE ForvoTypes' /\ TaskInv(t)' /\ Others(t)
    <2>1. ASSUME NEW request \in Requests, Pronounce(t, request)
          PROVE  ForvoTypes' /\ TaskInv(t)' /\ Others(t)
      <3>1. pc'[t] = "fetch" /\ replies'[t] = {} /\ page'[t] = page[t] /\ closest'[t] = closest[t]
            /\ downloads'[t] = downloads[t] /\ pc[t] = "idle" /\ requested'[t] = request
        BY <2>1 DEF Pronounce, ForvoInv, ForvoTypes
      <3>2. page[t] = <<>> /\ closest[t] = <<>> /\ DOMAIN downloads[t] = {}
        BY <3>1 DEF ForvoInv, TaskInv
      <3>3. TaskInv(t)'
        BY <3>1, <3>2, NothingCached DEF TaskInv, Ranked
      <3>4. ForvoTypes'
        BY <2>1 DEF Pronounce, ForvoInv, ForvoTypes
      <3>5. Others(t)
        BY <2>1 DEF Pronounce, ForvoInv, ForvoTypes, Others
      <3> QED BY <3>3, <3>4, <3>5
    <2>2. CASE Refuse(t)
      <3>1. pc[t] = "idle" /\ UNCHANGED <<accentDifferences, pc, requested, page, closest, downloads>>
            /\ replies' = [replies EXCEPT ![t] = {Refused}]
        BY <2>2 DEF Refuse, task
      <3>2. ForvoTypes' /\ Others(t)
        BY <3>1 DEF ForvoInv, ForvoTypes, Others
      <3>3. TaskInv(t)'
        BY <3>1 DEF ForvoInv, TaskInv, Ranked
      <3> QED BY <3>2, <3>3
    <2>3. CASE FetchFails(t)
      BY <2>3, DoneIs DEF FetchFails, ForvoInv, ForvoTypes, Others
    <2>4. ASSUME NEW containers \in Pages, Fetched(t, containers)
          PROVE  ForvoTypes' /\ TaskInv(t)' /\ Others(t)
      BY <2>4, FetchedKeeps
    <2>5. CASE Rank(t)
      BY <2>5, RankKeeps
    <2>6. CASE Report(t)
      BY <2>6, ReportKeeps
    <2>7. ASSUME NEW i \in DOMAIN downloads[t], NEW outcome \in {"loaded", "failed"}, Downloaded(t, i, outcome)
          PROVE  ForvoTypes' /\ TaskInv(t)' /\ Others(t)
      BY <2>7, DownloadedKeeps
    <2>8. CASE Answer(t)
      BY <2>8, DoneIs DEF Answer, ForvoInv, ForvoTypes, Others
    <2> QED BY <1>1, <2>1, <2>2, <2>3, <2>4, <2>5, <2>6, <2>7, <2>8 DEF Step
  <1>2. CASE Next
    <2>1. PICK t \in Slots : Step(t)
      BY <1>2 DEF Next
    <2>2. ASSUME NEW u \in Slots PROVE TaskInv(u)'
      BY <1>1, <2>1, OthersKeep DEF ForvoInv
    <2> QED BY <1>1, <2>1, <2>2 DEF ForvoInv
  <1>3. CASE UNCHANGED vars
    <2>1. UNCHANGED <<accentDifferences, pc, requested, page, closest, downloads, replies>>
      BY <1>3 DEF vars, task
    <2>2. ASSUME NEW u \in Slots PROVE TaskInv(u)'
      <3>1. Chosen(u)' = Chosen(u) /\ (Broken(u)' <=> Broken(u))
        BY <2>1 DEF Chosen, Broken
      <3>2. Ranked(u)' /\ \A j \in DOMAIN page'[u] : Wanted(requested'[u], page'[u][j].language)
        BY <2>1 DEF ForvoInv, TaskInv, Ranked
      <3> QED BY <2>1, <3>1, <3>2 DEF ForvoInv, TaskInv
    <2> QED BY <2>1, <2>2 DEF ForvoInv, ForvoTypes
  <1> QED BY <1>2, <1>3
-----------------------------------------------------------------------------
(***************************************************************************)
(* The results.                                                            *)
(***************************************************************************)

\* Whatever commands filled the cache of distances, and in whatever order: its rows
\* are whole, and have the lengths of the shortest ways between the countries.
THEOREM CacheStaysRight == Spec => []CacheIsRight
  <1>1. ForvoInv => CacheIsRight
    <2> SUFFICES ASSUME ForvoInv, NEW base \in {pair[1] : pair \in DOMAIN accentDifferences}
                 PROVE  /\ {base} \X Countries \subseteq DOMAIN accentDifferences
                        /\ LET dist(c) == accentDifferences[<<base, c>>]
                           IN  /\ dist(base) = 0
                               /\ \A c \in Countries \ {base} :
                                     /\ \A way \in From(c) : dist(c) <= dist(way[1]) + way[2]
                                     /\ \E way \in From(c) : dist(c) = dist(way[1]) + way[2]
                                     /\ dist(c) < U32Max
      BY DEF CacheIsRight
    <2>1. PICK rows \in SUBSET Countries : accentDifferences = CacheOf(rows)
      BY DEF ForvoInv, ForvoTypes, Caches
    <2>2. base \in rows
      BY <2>1 DEF CacheOf
    <2>3. \A c \in Countries : accentDifferences[<<base, c>>] = Distances[base][c]
      BY <2>1, <2>2 DEF CacheOf
    <2>4. {base} \X Countries \subseteq DOMAIN accentDifferences
      BY <2>1, <2>2 DEF CacheOf
    <2>5. RowIs(Distances[base], base)
      BY <2>2, DistancesAre
    <2> DEFINE dist(c) == accentDifferences[<<base, c>>]
               row == Distances[base]
    <2>6. base \in Countries /\ \A c \in Countries : dist(c) = row[c]
      BY <2>1, <2>2, <2>3
    <2> HIDE DEF dist, row
    <2>7. RowIs(row, base)
      BY <2>5 DEF row
    <2>8. dist(base) = 0
      BY <2>6, <2>7 DEF RowIs
    <2>9. ASSUME NEW c \in Countries \ {base}
          PROVE  /\ \A way \in From(c) : dist(c) <= dist(way[1]) + way[2]
                 /\ \E way \in From(c) : dist(c) = dist(way[1]) + way[2]
                 /\ dist(c) < U32Max
      <3>1. dist(c) = row[c] /\ \A way \in From(c) : dist(way[1]) = row[way[1]]
        BY <2>6, WaysAre
      <3>2. \A way \in From(c) : row[c] <= row[way[1]] + way[2]
        BY <2>7 DEF RowIs
      <3>3. \E way \in From(c) : row[c] = row[way[1]] + way[2]
        BY <2>7 DEF RowIs
      <3>4. row[c] < U32Max
        BY <2>7 DEF RowIs
      <3> QED BY <3>1, <3>2, <3>3, <3>4
    <2> QED BY <2>4, <2>8, <2>9 DEF dist
  <1> QED BY <1>1, ForvoInitInv, ForvoStep, PTL DEF Spec

\* A command that ends has either downloaded, or found nothing, or no page.
LEMMA EndingIs ==
    ASSUME ForvoInv, [Next]_vars, NEW t \in Slots, Ends(t)
    PROVE  \/ pc[t] = "fetch" /\ replies'[t] = {Fail}
           \/ /\ pc[t] = "rank" /\ Chosen(t) = {} /\ Len(closest[t]) = Len(page[t])
              /\ replies'[t] = (IF Broken(t) THEN {Fail} ELSE {}) \cup {NothingFound}
           \/ /\ pc[t] = "download" /\ DownloadsWith(t, "asked") = {}
              /\ replies'[t] = (IF Broken(t) THEN {Fail} ELSE {})
                               \cup (IF DownloadsWith(t, "failed") # {} THEN {Fail} ELSE {})
                               \cup {Recording(i, closest[t][i]) : i \in DownloadsWith(t, "loaded")}
  <1>1. pc[t] # "idle" /\ pc'[t] = "idle"
    BY DEF Ends
  <1>2. PICK u \in Slots : Step(u)
    BY <1>1 DEF Next, vars, task
  <1>3. u = t
    <2> SUFFICES ASSUME u # t PROVE FALSE
      OBVIOUS
    <2> QED BY <1>1, <1>2 DEF Step, Pronounce, Refuse, FetchFails, Fetched, Rank, Report, Downloaded, Answer,
               Done, task, ForvoInv, ForvoTypes
  <1>4. FetchFails(t) \/ (Chosen(t) = {} /\ Report(t)) \/ Answer(t)
    BY <1>1, <1>2, <1>3 DEF Step, Pronounce, Refuse, Fetched, Rank, Report, Downloaded, task, ForvoInv, ForvoTypes
  <1>5. CASE FetchFails(t)
    BY <1>5 DEF FetchFails, ForvoInv, ForvoTypes
  <1>6. CASE Chosen(t) = {} /\ Report(t)
    BY <1>6 DEF Report, ForvoInv, ForvoTypes
  <1>7. CASE Answer(t)
    <2>1. pc[t] = "download" /\ replies[t] = IF Broken(t) THEN {Fail} ELSE {}
      BY <1>7 DEF Answer, ForvoInv, TaskInv
    <2>2. replies'[t] = replies[t] \cup (IF DownloadsWith(t, "failed") # {} THEN {Fail} ELSE {})
                        \cup {Recording(i, closest[t][i]) : i \in DownloadsWith(t, "loaded")}
      BY <1>7 DEF Answer, ForvoInv, ForvoTypes
    <2>3. DownloadsWith(t, "asked") = {}
      BY <1>7 DEF Answer
    <2> QED BY <2>1, <2>2, <2>3, Zenon
  <1> QED BY <1>4, <1>5, <1>6, <1>7

\* The answers are told apart.
LEMMA AnswersDiffer ==
    \A i, k : Recording(i, k) # Fail /\ Recording(i, k) # NothingFound /\ Fail # NothingFound
              /\ Recording(i, k)[2] = i /\ Recording(i, k)[3] = k
  BY DEF Recording, Fail, NothingFound

\* A recording in the container's own language is closer than any other.
LEMMA NativesAreCloser ==
    ASSUME NEW container \in Containers, NEW request \in Requests \cup {None},
           Wanted(request, container.language), NEW k, IsNearest(k, container, request)
    PROVE  LET natives == IF container.language = "English" THEN English ELSE Spanish
           IN  container.entries[k] \in natives \/ ToSet(container.entries) \cap natives = {}
  <1> DEFINE natives == IF container.language = "English" THEN English ELSE Spanish
             base == Base(request, container.language)
             entries == container.entries
             dist == Distances[base]
  <1>1. base \in Countries /\ natives \subseteq Countries
    BY BaseIs DEF Countries
  <1>2. \A c \in Countries : c \in English <=> c \notin Spanish
    BY LanguagesDiffer DEF Countries
  <1>3. base \in English <=> container.language = "English"
    <2>1. CASE request = None
      <3>1. container.language # "English" => base = "Argentina" /\ base \notin English
        BY <2>1 DEF Base, English
      <3>2. container.language = "English" => base \in English
        BY <2>1 DEF Base, English
      <3> QED BY <3>1, <3>2
    <2>2. CASE request # None
      <3>1. base = request
        BY <2>2 DEF Base
      <3>2. (container.language = "English") = (request \in English)
        BY <2>2 DEF Wanted
      <3> QED BY <3>1, <3>2
    <2> QED BY <2>1, <2>2
  <1>4. \A c \in Countries : c \in natives <=> SameLanguage(c, base)
    BY <1>2, <1>3 DEF SameLanguage
  <1>5. \A c \in Countries : dist[c] \in Nat /\ (dist[c] < Far <=> c \in natives)
    BY <1>1, <1>4, DistancesAre DEF RowIs
  <1>6. k \in Readable(container) /\ \A j \in Readable(container) : dist[entries[k]] <= dist[entries[j]]
    <2>1. k \in Readable(container)
          /\ \A j \in Readable(container) : dist[entries[k]] < dist[entries[j]] \/ dist[entries[k]] = dist[entries[j]]
      BY DEF IsNearest
    <2>2. \A j \in Readable(container) : dist[entries[j]] \in Nat
      BY <1>5 DEF Readable
    <2> HIDE DEF dist, entries
    <2> QED BY <2>1, <2>2
  <1> SUFFICES ASSUME ToSet(entries) \cap natives # {} PROVE entries[k] \in natives
    OBVIOUS
  <1>7. PICK j \in DOMAIN entries : entries[j] \in natives
    BY DEF ToSet
  <1>8. j \in Readable(container) /\ entries[k] \in Countries /\ entries[j] \in Countries
    BY <1>1, <1>6, <1>7 DEF Readable
  <1>9. dist[entries[k]] <= dist[entries[j]] /\ dist[entries[j]] < Far
    BY <1>5, <1>6, <1>7, <1>8
  <1>10. dist[entries[k]] \in Nat /\ dist[entries[j]] \in Nat /\ Far \in Nat
    BY <1>5, <1>8, ForvoAssumption
  <1> HIDE DEF dist, natives
  <1> QED BY <1>5, <1>8, <1>9, <1>10

\* A recording that is chosen is the nearest of its container.
LEMMA ChosenIs ==
    ASSUME ForvoInv, NEW t \in Slots, NEW i \in Chosen(t)
    PROVE  /\ page[t][i] \in Containers /\ requested[t] \in Requests \cup {None}
           /\ Wanted(requested[t], page[t][i].language)
           /\ IsNearest(closest[t][i], page[t][i], requested[t])
  <1>1. i \in DOMAIN closest[t] /\ closest[t][i] # 0
    BY DEF Chosen
  <1>2. page[t] \in Seq(Containers) /\ closest[t] \in Seq(Nat) /\ Len(closest[t]) <= Len(page[t])
    BY DEF ForvoInv, ForvoTypes, TaskInv, Ranked
  <1>3. i \in DOMAIN page[t] /\ page[t][i] \in Containers
    BY <1>1, <1>2
  <1>4. IsNearest(closest[t][i], page[t][i], requested[t])
    BY <1>1 DEF ForvoInv, TaskInv, Ranked
  <1> QED BY <1>3, <1>4 DEF ForvoInv, ForvoTypes, TaskInv

\* What is sent is the first of the recordings closest to the request, of all that
\* its container has, and is by a native speaker if any is there.
THEOREM NearestIsAlwaysSent == Spec => NearestIsSent
  <1>1. ForvoInv /\ [Next]_vars =>
          [\A t \in Slots : Ends(t) =>
              \A reply \in replies'[t] \ {Fail, NothingFound} :
                  LET container == page[t][reply[2]]
                      natives == IF container.language = "English" THEN English ELSE Spanish
                  IN  /\ IsNearest(reply[3], container, requested[t])
                      /\ \/ container.entries[reply[3]] \in natives
                         \/ ToSet(container.entries) \cap natives = {}]_vars
    <2> SUFFICES ASSUME ForvoInv, [Next]_vars, NEW t \in Slots, Ends(t),
                        NEW reply \in replies'[t] \ {Fail, NothingFound}
                 PROVE  LET container == page[t][reply[2]]
                            natives == IF container.language = "English" THEN English ELSE Spanish
                        IN  /\ IsNearest(reply[3], container, requested[t])
                            /\ \/ container.entries[reply[3]] \in natives
                               \/ ToSet(container.entries) \cap natives = {}
      OBVIOUS
    <2>1. pc[t] = "download" /\ \E i \in DownloadsWith(t, "loaded") : reply = Recording(i, closest[t][i])
      BY EndingIs
    <2>2. PICK i \in DownloadsWith(t, "loaded") : reply = Recording(i, closest[t][i])
      BY <2>1
    <2>3. i \in Chosen(t)
      BY <2>1 DEF DownloadsWith, ForvoInv, TaskInv
    <2>4. reply[2] = i /\ reply[3] = closest[t][i]
      BY <2>2, AnswersDiffer
    <2>5. /\ page[t][i] \in Containers /\ requested[t] \in Requests \cup {None}
          /\ Wanted(requested[t], page[t][i].language)
          /\ IsNearest(closest[t][i], page[t][i], requested[t])
      BY <2>3, ChosenIs
    <2>6. LET natives == IF page[t][i].language = "English" THEN English ELSE Spanish
          IN  page[t][i].entries[closest[t][i]] \in natives \/ ToSet(page[t][i].entries) \cap natives = {}
      BY <2>5, NativesAreCloser
    <2> QED BY <2>4, <2>5, <2>6
  <1> QED BY <1>1, ForvoInitInv, ForvoStep, PTL DEF Spec, NearestIsSent

\* Every container with a readable recording is answered by one or by a report, and
\* errors are reported when there are any, and only then.
THEOREM AnswersAreRight == Spec => AnsweredRight
  <1>1. ForvoInv /\ [Next]_vars =>
          [\A t \in Slots : Ends(t) /\ pc[t] # "fetch" =>
              LET found == {i \in DOMAIN page[t] : Readable(page[t][i]) # {}}
                  failed == {i \in DOMAIN downloads[t] : downloads[t][i] = "failed"}
              IN  /\ \A i \in found \ failed : \E k \in Readable(page[t][i]) : Recording(i, k) \in replies'[t]
                  /\ (NothingFound \in replies'[t]) <=> (found = {})
                  /\ (Fail \in replies'[t]) <=> (failed # {} \/ Broken(t))]_vars
    <2> SUFFICES ASSUME ForvoInv, [Next]_vars, NEW t \in Slots, Ends(t), pc[t] # "fetch"
                 PROVE  LET found == {i \in DOMAIN page[t] : Readable(page[t][i]) # {}}
                            failed == {i \in DOMAIN downloads[t] : downloads[t][i] = "failed"}
                        IN  /\ \A i \in found \ failed : \E k \in Readable(page[t][i]) : Recording(i, k) \in replies'[t]
                            /\ (NothingFound \in replies'[t]) <=> (found = {})
                            /\ (Fail \in replies'[t]) <=> (failed # {} \/ Broken(t))
      OBVIOUS
    <2> DEFINE found == {i \in DOMAIN page[t] : Readable(page[t][i]) # {}}
               failed == DownloadsWith(t, "failed")
    <2>1. Len(closest[t]) = Len(page[t])
      BY EndingIs DEF ForvoInv, TaskInv
    <2>2. DOMAIN closest[t] = DOMAIN page[t]
      BY <2>1 DEF ForvoInv, ForvoTypes
    <2>3. found = Chosen(t)
      BY <2>2 DEF Chosen, ForvoInv, TaskInv, Ranked
    <2>4. CASE pc[t] = "rank"
      <3>1. Chosen(t) = {} /\ replies'[t] = (IF Broken(t) THEN {Fail} ELSE {}) \cup {NothingFound}
        BY <2>4, EndingIs
      <3>2. failed = {}
        BY <2>4 DEF DownloadsWith, ForvoInv, TaskInv
      <3> QED BY <2>3, <3>1, <3>2, AnswersDiffer DEF DownloadsWith
    <2>5. CASE pc[t] = "download"
      <3>1. /\ DownloadsWith(t, "asked") = {} /\ DOMAIN downloads[t] = Chosen(t) /\ Chosen(t) # {}
            /\ replies'[t] = (IF Broken(t) THEN {Fail} ELSE {})
                             \cup (IF failed # {} THEN {Fail} ELSE {})
                             \cup {Recording(i, closest[t][i]) : i \in DownloadsWith(t, "loaded")}
        BY <2>5, EndingIs DEF ForvoInv, TaskInv
      <3>2. \A i \in DOMAIN downloads[t] : downloads[t][i] \in {"asked", "loaded", "failed"}
        <4>1. PICK D \in SUBSET Nat : downloads[t] \in [D -> {"asked", "loaded", "failed"}]
          <5>1. downloads[t] \in Downloading
            BY DEF ForvoInv, ForvoTypes
          <5> QED BY <5>1, Zenon DEF Downloading
        <4> QED BY <4>1
      <3>3. ASSUME NEW i \in found \ failed
            PROVE  \E k \in Readable(page[t][i]) : Recording(i, k) \in replies'[t]
        <4>1. i \in Chosen(t) /\ i \in DownloadsWith(t, "loaded")
          BY <2>3, <3>1, <3>2 DEF DownloadsWith
        <4>2. closest[t][i] \in Readable(page[t][i])
          BY <4>1, ChosenIs DEF IsNearest
        <4>3. Recording(i, closest[t][i]) \in replies'[t]
          BY <3>1, <4>1
        <4> QED BY <4>2, <4>3
      <3>4. NothingFound \notin replies'[t] /\ found # {}
        BY <2>3, <3>1, AnswersDiffer
      <3>5. Fail \in replies'[t] <=> (failed # {} \/ Broken(t))
        BY <3>1, AnswersDiffer
      <3>6. failed = {i \in DOMAIN downloads[t] : downloads[t][i] = "failed"}
        BY DEF DownloadsWith
      <3> HIDE DEF failed
      <3> QED BY <3>3, <3>4, <3>5, <3>6
    <2> QED BY <2>4, <2>5, EndingIs
  <1> QED BY <1>1, ForvoInitInv, ForvoStep, PTL DEF Spec, AnsweredRight
=============================================================================
