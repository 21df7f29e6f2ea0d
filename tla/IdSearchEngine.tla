------------------------------ MODULE IdSearchEngine ------------------------------
(***************************************************************************)
(* SnowflakeIdSearchEngine: a hash table of Discord ids.  An id's bucket   *)
(* is given by its digits without the T first and the T last ones, so that *)
(* an id of which up to T digits were lost at either end can still be      *)
(* looked up.  A bucket is an ascending vector without duplicates.         *)
(*                                                                         *)
(* The code's numbers are parameters: decimal digits, at least 17 of them, *)
(* T = 2, 20 ids to a bucket, 8 buckets or more.  Calls that panic are not *)
(* made: an id that is too short is not added, a text has 2 * T digits     *)
(* after its zeros, and a table without buckets is not searched.           *)
(***************************************************************************)
EXTENDS Integers, FiniteSets, Sequences, SequencesExt

CONSTANTS
    Base,           \* 10
    T,              \* MAX_DIGITS_CHOPPED
    MinDigits,      \* MIN_ID_DIGITS
    MaxDigits,      \* the digits of the largest u64
    LoadFactor,     \* load_factor
    MinBuckets,     \* 8 in create_buckets
    Ids,            \* the ids that are used
    Batches,        \* the arguments of extend
    Slacks,         \* how far the upper bound of size_hint is above the length
    NoBound,        \* a size_hint without an upper bound
    Capacities,     \* the arguments of with_capacity
    Fragments       \* the texts that are searched for, as sequences of digits

\* Powers of the base, as a table.
Power ==
    LET power[k \in Nat] == IF k = 0 THEN 1 ELSE Base * power[k - 1]
    IN  [k \in 0..(MaxDigits + T) |-> power[k]]

ASSUME IdAssumption ==
    /\ T \in Nat /\ LoadFactor \in Nat \ {0} /\ MinBuckets \in Nat \ {0}
    /\ Base \in Nat \ {0, 1}
    /\ MinDigits \in Nat /\ MaxDigits \in Nat /\ 2 * T < MinDigits /\ MinDigits <= MaxDigits
    /\ \A id \in Ids : id \in Power[MinDigits - 1]..(Power[MaxDigits] - 1)
    /\ Fragments \subseteq Seq(0..(Base - 1))
    /\ \A text \in Fragments : Len(text) <= MaxDigits =>
           \E z \in 0..(Len(text) - 1) :
               /\ \A i \in 1..z : text[i] = 0
               /\ text[z + 1] # 0 /\ Len(text) - z >= 2 * T
    /\ \A batch \in Batches : batch \in Seq(Ids)
    /\ Capacities \subseteq Nat
    /\ NoBound \notin Int /\ Slacks \subseteq Int \cup {NoBound}

VARIABLES
    engine,     \* the buckets and len
    last        \* the last call, with its answer

vars == <<engine, last>>
-----------------------------------------------------------------------------
base10_len(id) == Cardinality({k \in 0..(MaxDigits - 1) : Power[k] <= id})

TwoToThe[k \in Nat] == IF k = 0 THEN 1 ELSE 2 * TwoToThe[k - 1]

NextPowerOfTwo(n) ==
    CHOOSE p \in {TwoToThe[k] : k \in 0..n} : n <= p /\ (p = 1 \/ p < 2 * n)

AtLeast(n, least) == IF n < least THEN least ELSE n

CreateBuckets(capacity) ==
    LET needed == (capacity + LoadFactor - 1) \div LoadFactor
    IN  [i \in 1..(AtLeast(NextPowerOfTwo(needed), MinBuckets) + 1) |-> <<>>]

\* The position of an id's bucket among n.
IdIndex(n, id) ==
    LET kept == id \div Power[T]
    IN  ((kept % Power[base10_len(kept) - T]) % n) + 1

\* Vec::binary_search: where the id is, or is to be inserted.
Position(bucket, id) == Cardinality({i \in DOMAIN bucket : bucket[i] < id}) + 1

Found(bucket, id) ==
    Position(bucket, id) <= Len(bucket) /\ bucket[Position(bucket, id)] = id

Holds(buckets, id) == Found(buckets[IdIndex(Len(buckets), id)], id)

Push(buckets, id) ==
    [buckets EXCEPT ![IdIndex(Len(buckets), id)] = Append(@, id)]

\* The place of the i-th element when s is sorted.
Rank(s, i) == Cardinality({j \in DOMAIN s : s[j] < s[i] \/ (s[j] = s[i] /\ j <= i)})

Sorted(s) == [r \in DOMAIN s |-> s[CHOOSE i \in DOMAIN s : Rank(s, i) = r]]

SortAllBuckets(buckets) == [i \in DOMAIN buckets |-> Sorted(buckets[i])]

\* reallocate_buckets without the sort.
ReallocateBuckets(buckets, capacity) ==
    FoldLeft(Push, CreateBuckets(capacity), FlattenSeq(buckets))

\* The test of reallocate_on_add.
Exceeds(buckets, len, added) == len + added > LoadFactor * Len(buckets)

\* reallocate_on_add without the sort.
ReallocateOnAdd(buckets, len, added) ==
    IF Exceeds(buckets, len, added) THEN ReallocateBuckets(buckets, len + added) ELSE buckets

\* Mutant: the smaller table is left unsorted.
ReallocateOnRemoveUnsorted(e) ==
    IF 8 * (e.len - 1) < 3 * LoadFactor * Len(e.buckets)
    THEN ReallocateBuckets(e.buckets, e.len - 1) ELSE e.buckets

ReallocateOnRemove(e) ==
    IF 8 * (e.len - 1) < 3 * LoadFactor * Len(e.buckets)
    THEN SortAllBuckets(ReallocateBuckets(e.buckets, e.len - 1)) ELSE e.buckets
-----------------------------------------------------------------------------
\* new and with_capacity.
Init ==
    /\ \E buckets \in {<<>>} \cup {CreateBuckets(c) : c \in Capacities} :
           engine = [buckets |-> buckets, len |-> 0]
    /\ last = <<"new">>

\* add_id: what becomes of the table.
Added(e, id) ==
    LET buckets == IF Exceeds(e.buckets, e.len, 1)
                   THEN SortAllBuckets(ReallocateBuckets(e.buckets, e.len + 1)) ELSE e.buckets
        i == IdIndex(Len(buckets), id)
    IN  IF Found(buckets[i], id)
        THEN [buckets |-> buckets, len |-> e.len]
        ELSE [buckets |-> [buckets EXCEPT ![i] = InsertAt(@, Position(@, id), id)],
              len |-> e.len + 1]

AddId(id) ==
    /\ engine' = Added(engine, id)
    /\ last' = <<"add", id, engine'.len > engine.len>>

\* The table shrinks before it is known whether the id is in it.
RemoveId(id) ==
    IF engine.len = 0
    THEN last' = <<"remove", id, FALSE>> /\ UNCHANGED engine
    ELSE LET buckets == ReallocateOnRemove(engine)
             i == IdIndex(Len(buckets), id)
             found == Found(buckets[i], id)
         IN  /\ engine' = IF found
                          THEN [buckets |-> [buckets EXCEPT ![i] = RemoveAt(@, Position(@, id))],
                                len |-> engine.len - 1]
                          ELSE [engine EXCEPT !.buckets = buckets]
             /\ last' = <<"remove", id, found>>

ContainsId(id) ==
    /\ engine.buckets # <<>>
    /\ last' = <<"contains", id, Holds(engine.buckets, id)>>
    /\ UNCHANGED engine

\* dedup drops what equals its predecessor.
Dedup(bucket) ==
    FoldLeft(LAMBDA kept, id : IF kept # <<>> /\ Last(kept) = id THEN kept ELSE Append(kept, id),
             <<>>, bucket)

\* Mutant: the ids that were there are left behind in the old table.
PushedAnew(e, batch, bound) ==
    FoldLeft(LAMBDA buckets, i : Push(buckets, batch[i]),
             IF Exceeds(e.buckets, e.len, bound) THEN CreateBuckets(e.len + bound) ELSE e.buckets,
             [i \in DOMAIN batch |-> i])

\* The ids are pushed unsorted; len, which is not kept up, is what the test for
\* an iterator that gives more ids than it said goes by.
Pushed(e, batch, bound) ==
    FoldLeft(LAMBDA buckets, i :
                 Push(IF i > bound THEN ReallocateOnAdd(buckets, e.len, 1) ELSE buckets, batch[i]),
             ReallocateOnAdd(e.buckets, e.len, bound),
             [i \in DOMAIN batch |-> i])

ExtendedAtOnce(e, batch, bound) ==
    LET sorted == SortAllBuckets(Pushed(e, batch, bound))
        buckets == [i \in DOMAIN sorted |-> Dedup(sorted[i])]
    IN  [buckets |-> buckets, len |-> Len(FlattenSeq(buckets))]

\* extend: an iterator without an upper bound is not even looked at.
Extended(e, batch, bound) ==
    IF bound = NoBound THEN e
    ELSE IF bound > (LoadFactor * Len(e.buckets)) \div 2 THEN ExtendedAtOnce(e, batch, bound)
    ELSE FoldLeft(Added, e, batch)

Extend(batch, slack) ==
    /\ engine' = Extended(engine, batch,
                          IF slack = NoBound THEN NoBound ELSE AtLeast(Len(batch) + slack, 0))
    /\ last' = <<"extend", batch, engine'.len>>

\* PartialEq of two tables.
Equal(e, other) ==
    /\ e.len = other.len
    /\ \A id \in ToSet(FlattenSeq(e.buckets)) : Holds(other.buckets, id)

\* FromIterator and From<[Id; N]>.
FromIter(batch) ==
    Extended([buckets |-> CreateBuckets(Len(batch)), len |-> 0], batch, Len(batch))

\* The table is compared with one that is made of a batch.
Compare(batch) ==
    /\ last' = <<"equal", batch, Equal(engine, FromIter(batch))>>
    /\ UNCHANGED engine

Next ==
    \/ \E id \in Ids : AddId(id) \/ RemoveId(id) \/ ContainsId(id)
    \/ \E batch \in Batches, slack \in Slacks : Extend(batch, slack)
    \/ \E batch \in Batches : Compare(batch)

Spec == Init /\ [][Next]_vars
-----------------------------------------------------------------------------
(***************************************************************************)
(* The searches for a fragment of an id.                                   *)
(***************************************************************************)
\* How many digits are missing on the left and on the right, in the order in
\* which the code tries them: fewest in all first, fewest on the left first.
Wildcards ==
    FlattenSeq([added \in 1..(2 * T) |->
        LET least == AtLeast(added - T, 0)
        IN  [k \in 1..(added - 2 * least + 1) |-> <<least + k - 1, added - least - k + 1>>]])

\* TryFrom<&str>: the leading zeros are counted, as they do not show in the
\* number; of zeros alone the last one is the number.
FuzzyMatchedId(text) ==
    [zeros |-> CHOOSE z \in 0..(Len(text) - 1) :
                   /\ \A i \in 1..z : text[i] = 0
                   /\ z = Len(text) - 1 \/ text[z + 1] # 0,
     number |-> FoldLeft(LAMBDA n, digit : Base * n + digit, 0, text)]

FragmentLen(f) == AtLeast(base10_len(f.number), 1) + f.zeros

\* Mutant: any longer id will do.
MatchesLonger(f, left, right, id) ==
    ((id % Power[FragmentLen(f) + right]) \div Power[right]) = f.number

\* SnowflakeFuzzyMatch == id.
Matches(f, left, right, id) ==
    /\ FragmentLen(f) + left + right = base10_len(id)
    /\ ((id % Power[FragmentLen(f) + right]) \div Power[right]) = f.number

\* Mutant: the missing digits are looked for at the wrong ends.
FuzzyBucketSwapped(buckets, f, left, right) ==
    IF f.zeros # 0 /\ right = 0 THEN <<>>
    ELSE LET kept == (f.number \div Power[T - left]) % Power[base10_len(f.number) - (T - right)]
         IN  buckets[(kept % Len(buckets)) + 1]

\* get_bucket_with_fuzzy_match.  The length is that of the number before its
\* right end is cut off, and leaves the zeros out.  Numbers have no limit here; in
\* the code a power of ten overflows for a text of 20 digits (and saturates in the
\* comparison), and ids have 17 to 19.
FuzzyBucket(buckets, f, left, right) ==
    IF f.zeros # 0 /\ left = 0 THEN <<>>
    ELSE LET kept == (f.number \div Power[T - right]) % Power[base10_len(f.number) - (T - left)]
         IN  buckets[(kept % Len(buckets)) + 1]

\* `find' on a bucket.
FirstMatch(bucket, f, left, right) ==
    LET matching == {i \in DOMAIN bucket : Matches(f, left, right, bucket[i])}
    IN  IF matching = {} THEN <<>>
        ELSE <<bucket[CHOOSE i \in matching : \A j \in matching : i <= j]>>

\* find_fuzzy_matches: the id itself, or the first match for each number of
\* missing digits; nothing for a text longer than any id.
FuzzyMatches(buckets, text) ==
    LET f == FuzzyMatchedId(text)
    IN  IF Len(text) > MaxDigits THEN <<>>
        ELSE IF Holds(buckets, f.number) THEN <<f.number>>
        ELSE FlattenSeq([w \in DOMAIN Wildcards |->
                 LET left == Wildcards[w][1]
                     right == Wildcards[w][2]
                 IN  FirstMatch(FuzzyBucket(buckets, f, left, right), f, left, right)])

\* find_fuzzy_match stops at the first.
FuzzyMatch(buckets, text) ==
    LET matches == FuzzyMatches(buckets, text)
    IN  IF matches = <<>> THEN <<>> ELSE <<Head(matches)>>

-----------------------------------------------------------------------------
(***************************************************************************)
(* Properties.                                                             *)
(***************************************************************************)
Stored == ToSet(FlattenSeq(engine.buckets))

Digits(n) == [i \in 1..base10_len(n) |-> (n \div Power[base10_len(n) - i]) % Base]

\* The id reads like the text when `left' digits are cut off on the left and
\* `right' on the right.
Reads(id, left, right, text) ==
    /\ base10_len(id) = left + Len(text) + right
    /\ SubSeq(Digits(id), left + 1, left + Len(text)) = text

\* However ids came in, one by one, many at once, with duplicates or through a
\* rebuilt table, every bucket is strictly ascending, holds the ids that hash
\* to it, and len is their number: what every binary search relies on.  When
\* iterators tell no less than the truth, the load factor is kept as well.
BucketsAreSound ==
    /\ \A i \in DOMAIN engine.buckets :
           LET bucket == engine.buckets[i]
           IN  /\ \A j \in 1..(Len(bucket) - 1) : bucket[j] < bucket[j + 1]
               /\ \A j \in DOMAIN bucket : IdIndex(Len(engine.buckets), bucket[j]) = i
    /\ engine.len = Cardinality(Stored)
    /\ engine.len <= LoadFactor * Len(engine.buckets)

Abstract == INSTANCE IdSet WITH ids <- Stored

\* Doubling, shrinking, sorting and the two ways to extend do not show: the
\* answers of add_id, remove_id, contains, extend and len are those of a set, and
\* two tables are equal exactly when they hold the same ids, whatever their
\* histories left of their sizes.
ImplementsIdSet == Abstract!Spec

\* A search gives only ids in the table, and each is the number asked for or
\* has the text, with its zeros, in it with at most T digits missing at either end.
FuzzySound ==
    \A text \in Fragments : engine.buckets # <<>> =>
        \A id \in ToSet(FuzzyMatches(engine.buckets, text)) :
            /\ id \in Stored
            /\ \/ id = FuzzyMatchedId(text).number
               \/ \E w \in ToSet(Wildcards) : Reads(id, w[1], w[2], text)

\* A search does find what lost all of the T digits on its left, and what lost
\* all of those on its right and has no zero in front: FuzzyBucket is right for
\* those, although not for every text.
FuzzyFindsWhatLostAnEnd ==
    \A text \in Fragments, id \in Stored, w \in ToSet(Wildcards) :
        Reads(id, w[1], w[2], text) /\ (w[1] = T \/ (w[2] = T /\ text[1] # 0))
            => LET found == FuzzyMatches(engine.buckets, text)
               IN  \/ found = <<FuzzyMatchedId(text).number>>
                   \/ \E other \in ToSet(found) : Reads(other, w[1], w[2], text)
=============================================================================
