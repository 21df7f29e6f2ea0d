---------------------------- MODULE DiscordLoggerProofs ----------------------------
(***************************************************************************)
(* Proofs about DiscordLogger: its types, that the owner gets every byte   *)
(* at most once and in order, that only the fallback file loses text, and  *)
(* that the first logger is flushed when the bot ends.                     *)
(***************************************************************************)
EXTENDS DiscordLogger, SequenceTheorems, TLAPS

(***************************************************************************)
(* Sequences of bytes in the order in which they were logged.              *)
(***************************************************************************)
Ordered(s) == \A i, j \in DOMAIN s : i < j => Before(s[i], s[j])

AllBefore(s, t) == \A i \in DOMAIN s, j \in DOMAIN t : Before(s[i], t[j])

\* No byte is of a later record than the n-th.
Until(s, n) == \A i \in DOMAIN s : s[i].record <= n

LEMMA EmptyBytes ==
    /\ <<>> \in Seq(Bytes) /\ Len(<<>>) = 0 /\ Ordered(<<>>)
    /\ \A s : AllBefore(<<>>, s) /\ AllBefore(s, <<>>)
    /\ \A n : Until(<<>>, n)
  BY EmptySeq DEF Ordered, AllBefore, Until

\* What a concatenation consists of.
LEMMA ConcatBytes ==
    ASSUME NEW s \in Seq(Bytes), NEW t \in Seq(Bytes)
    PROVE  /\ s \o t \in Seq(Bytes) /\ Len(s \o t) = Len(s) + Len(t)
           /\ \A i \in DOMAIN s : i \in DOMAIN (s \o t) /\ (s \o t)[i] = s[i]
           /\ \A i \in DOMAIN t : Len(s) + i \in DOMAIN (s \o t) /\ (s \o t)[Len(s) + i] = t[i]
           /\ \A i \in DOMAIN (s \o t) :
                 \/ i \in DOMAIN s
                 \/ i - Len(s) \in DOMAIN t /\ i > Len(s) /\ (s \o t)[i] = t[i - Len(s)]
  <1>1. /\ s \o t \in Seq(Bytes) /\ Len(s \o t) = Len(s) + Len(t)
        /\ \A i \in 1..(Len(s) + Len(t)) :
               (s \o t)[i] = IF i <= Len(s) THEN s[i] ELSE t[i - Len(s)]
    BY ConcatProperties
  <1>2. /\ DOMAIN s = 1..Len(s) /\ DOMAIN t = 1..Len(t)
        /\ DOMAIN (s \o t) = 1..(Len(s) + Len(t)) /\ Len(s) \in Nat /\ Len(t) \in Nat
    BY <1>1, LenProperties
  <1> QED BY <1>1, <1>2

\* Ordered sequences one after the other.
LEMMA OrderedConcat ==
    ASSUME NEW s \in Seq(Bytes), NEW t \in Seq(Bytes), Ordered(s), Ordered(t), AllBefore(s, t)
    PROVE  Ordered(s \o t)
  <1> SUFFICES ASSUME NEW i \in DOMAIN (s \o t), NEW j \in DOMAIN (s \o t), i < j
               PROVE  Before((s \o t)[i], (s \o t)[j])
    BY DEF Ordered
  <1>1. /\ DOMAIN s = 1..Len(s) /\ DOMAIN t = 1..Len(t) /\ Len(s) \in Nat /\ Len(t) \in Nat
        /\ DOMAIN (s \o t) = 1..(Len(s) + Len(t))
    BY ConcatBytes, LenProperties
  <1>2. CASE j \in DOMAIN s
    BY <1>1, <1>2, ConcatBytes DEF Ordered
  <1>3. CASE i \in DOMAIN s /\ j \notin DOMAIN s
    BY <1>3, ConcatBytes DEF AllBefore
  <1>4. CASE i \notin DOMAIN s
    <2>1. j \notin DOMAIN s
      BY <1>1, <1>4
    <2>2. /\ i - Len(s) \in DOMAIN t /\ (s \o t)[i] = t[i - Len(s)]
          /\ j - Len(s) \in DOMAIN t /\ (s \o t)[j] = t[j - Len(s)]
      BY <1>4, <2>1, ConcatBytes
    <2>3. i - Len(s) < j - Len(s)
      BY <1>1
    <2> QED BY <2>2, <2>3 DEF Ordered
  <1> QED BY <1>2, <1>3, <1>4

LEMMA BeforeConcat ==
    ASSUME NEW s \in Seq(Bytes), NEW t \in Seq(Bytes), NEW u
    PROVE  /\ AllBefore(s, u) /\ AllBefore(t, u) => AllBefore(s \o t, u)
           /\ AllBefore(u, s) /\ AllBefore(u, t) => AllBefore(u, s \o t)
  BY ConcatBytes DEF AllBefore

LEMMA ConcatElements ==
    ASSUME NEW s \in Seq(Bytes), NEW t \in Seq(Bytes)
    PROVE  Elements(s \o t) = Elements(s) \cup Elements(t)
  <1>1. Elements(s \o t) \subseteq Elements(s) \cup Elements(t)
    BY ConcatBytes DEF Elements
  <1>2. Elements(s) \subseteq Elements(s \o t) /\ Elements(t) \subseteq Elements(s \o t)
    <2>1. ASSUME NEW i \in DOMAIN s PROVE s[i] \in Elements(s \o t)
      <3>1. i \in DOMAIN (s \o t) /\ (s \o t)[i] = s[i]
        BY ConcatBytes
      <3> QED BY <3>1 DEF Elements
    <2>2. ASSUME NEW i \in DOMAIN t PROVE t[i] \in Elements(s \o t)
      <3>1. Len(s) + i \in DOMAIN (s \o t) /\ (s \o t)[Len(s) + i] = t[i]
        BY ConcatBytes
      <3> QED BY <3>1 DEF Elements
    <2> QED BY <2>1, <2>2 DEF Elements
  <1> QED BY <1>1, <1>2

LEMMA UntilConcat ==
    ASSUME NEW s \in Seq(Bytes), NEW t \in Seq(Bytes), NEW n, Until(s, n), Until(t, n)
    PROVE  Until(s \o t, n)
  BY ConcatBytes DEF Until

\* A sequence that is cut in two.
LEMMA Cut ==
    ASSUME NEW S, NEW r \in Seq(S), NEW k \in 0..Len(r)
    PROVE  LET front == SubSeq(r, 1, k)
               rest == SubSeq(r, k + 1, Len(r))
           IN  /\ front \in Seq(S) /\ rest \in Seq(S)
               /\ DOMAIN front = 1..k /\ DOMAIN rest = 1..(Len(r) - k)
               /\ Len(front) = k /\ Len(rest) = Len(r) - k
               /\ \A i \in 1..k : front[i] = r[i] /\ i \in DOMAIN r
               /\ \A i \in 1..(Len(r) - k) : rest[i] = r[k + i] /\ k + i \in DOMAIN r
  <1>1. Len(r) \in Nat /\ DOMAIN r = 1..Len(r) /\ k \in Nat /\ k <= Len(r)
    BY LenProperties
  <1>2. \A i \in 1..Len(r) : r[i] \in S
    BY ElementOfSeq
  <1>3. /\ SubSeq(r, 1, k) \in Seq(S)
        /\ Len(SubSeq(r, 1, k)) = (IF 1 <= k THEN k - 1 + 1 ELSE 0)
        /\ \A i \in 1..(k - 1 + 1) : SubSeq(r, 1, k)[i] = r[1 + i - 1]
    <2>1. \A i \in 1..k : r[i] \in S
      BY <1>1, <1>2
    <2>2. 1 \in Int /\ k \in Int
      BY <1>1
    <2> QED BY <2>1, <2>2, SubSeqProperties
  <1>4. /\ SubSeq(r, k + 1, Len(r)) \in Seq(S)
        /\ Len(SubSeq(r, k + 1, Len(r))) = (IF k + 1 <= Len(r) THEN Len(r) - (k + 1) + 1 ELSE 0)
        /\ \A i \in 1..(Len(r) - (k + 1) + 1) : SubSeq(r, k + 1, Len(r))[i] = r[(k + 1) + i - 1]
    <2>1. \A i \in (k + 1)..Len(r) : r[i] \in S
      BY <1>1, <1>2
    <2>2. k + 1 \in Int /\ Len(r) \in Int
      BY <1>1
    <2> QED BY <2>1, <2>2, SubSeqProperties
  <1> DEFINE front == SubSeq(r, 1, k)
             rest == SubSeq(r, k + 1, Len(r))
  <1>5. front \in Seq(S) /\ Len(front) = k /\ \A i \in 1..k : front[i] = r[i] /\ i \in DOMAIN r
    BY <1>1, <1>3
  <1>6. /\ rest \in Seq(S) /\ Len(rest) = Len(r) - k
        /\ \A i \in 1..(Len(r) - k) : rest[i] = r[k + i] /\ k + i \in DOMAIN r
    <2>1. rest \in Seq(S)
      BY <1>4
    <2>2. Len(rest) = Len(r) - k
      <3> DEFINE n == Len(r)
      <3>1. Len(rest) = IF k + 1 <= n THEN n - (k + 1) + 1 ELSE 0
        BY <1>4
      <3>2. n \in Nat /\ k \in Nat /\ k <= n
        BY <1>1
      <3> HIDE DEF n, rest
      <3>3. (IF k + 1 <= n THEN n - (k + 1) + 1 ELSE 0) = n - k
        BY <3>2
      <3> QED BY <3>1, <3>3 DEF n
    <2> HIDE DEF rest
    <2>3. ASSUME NEW i \in 1..(Len(r) - k) PROVE rest[i] = r[k + i] /\ k + i \in DOMAIN r
      <3>1. i \in 1..(Len(r) - (k + 1) + 1) /\ (k + 1) + i - 1 = k + i /\ k + i \in 1..Len(r)
        BY <1>1
      <3>2. rest[i] = r[(k + 1) + i - 1]
        BY <1>4, <3>1 DEF rest
      <3> QED BY <1>1, <3>1, <3>2
    <2> QED BY <2>1, <2>2, <2>3
  <1>7. DOMAIN front = 1..k /\ DOMAIN rest = 1..(Len(r) - k)
    BY <1>5, <1>6, LenProperties
  <1> QED BY <1>5, <1>6, <1>7

LEMMA CutBytes ==
    ASSUME NEW r \in Seq(Bytes), NEW k \in 0..Len(r)
    PROVE  LET front == SubSeq(r, 1, k)
               rest == SubSeq(r, k + 1, Len(r))
           IN  /\ front \in Seq(Bytes) /\ rest \in Seq(Bytes)
               /\ DOMAIN front = 1..k /\ DOMAIN rest = 1..(Len(r) - k)
               /\ Len(front) = k /\ Len(rest) = Len(r) - k
               /\ \A i \in 1..k : front[i] = r[i] /\ i \in DOMAIN r
               /\ \A i \in 1..(Len(r) - k) : rest[i] = r[k + i] /\ k + i \in DOMAIN r
  BY Cut

\* The parts of an ordered sequence, and where they lie.
LEMMA CutOrdered ==
    ASSUME NEW r \in Seq(Bytes), NEW k \in 0..Len(r)
    PROVE  LET front == SubSeq(r, 1, k)
               rest == SubSeq(r, k + 1, Len(r))
           IN  /\ Ordered(r) => Ordered(front) /\ Ordered(rest) /\ AllBefore(front, rest)
               /\ \A s : AllBefore(s, r) => AllBefore(s, front) /\ AllBefore(s, rest)
               /\ \A n : Until(r, n) => Until(front, n) /\ Until(rest, n)
  <1> DEFINE front == SubSeq(r, 1, k)
             rest == SubSeq(r, k + 1, Len(r))
  <1>1. /\ DOMAIN front = 1..k /\ DOMAIN rest = 1..(Len(r) - k)
        /\ \A i \in 1..k : front[i] = r[i] /\ i \in DOMAIN r
        /\ \A i \in 1..(Len(r) - k) : rest[i] = r[k + i] /\ k + i \in DOMAIN r
    BY CutBytes
  <1> HIDE DEF front, rest
  <1>2. Len(r) \in Nat /\ k \in Nat
    BY LenProperties
  <1>3. Ordered(r) => Ordered(front) /\ Ordered(rest) /\ AllBefore(front, rest)
    <2> SUFFICES ASSUME Ordered(r) PROVE Ordered(front) /\ Ordered(rest) /\ AllBefore(front, rest)
      OBVIOUS
    <2>1. \A i, j \in DOMAIN r : i < j => Before(r[i], r[j])
      BY DEF Ordered
    <2>2. \A i, j \in 1..k : i < j => Before(front[i], front[j])
      BY <1>1, <2>1
    <2>3. \A i, j \in 1..(Len(r) - k) : i < j => k + i < k + j
      BY <1>2
    <2>4. \A i, j \in 1..(Len(r) - k) : i < j => Before(rest[i], rest[j])
      BY <1>1, <2>1, <2>3
    <2>5. \A i \in 1..k, j \in 1..(Len(r) - k) : i < k + j
      BY <1>2
    <2>6. \A i \in 1..k, j \in 1..(Len(r) - k) : Before(front[i], rest[j])
      BY <1>1, <2>1, <2>5
    <2> QED BY <1>1, <2>2, <2>4, <2>6 DEF Ordered, AllBefore
  <1>4. \A s : AllBefore(s, r) => AllBefore(s, front) /\ AllBefore(s, rest)
    BY <1>1 DEF AllBefore
  <1>5. \A n : Until(r, n) => Until(front, n) /\ Until(rest, n)
    BY <1>1 DEF Until
  <1> QED BY <1>3, <1>4, <1>5 DEF front, rest
-----------------------------------------------------------------------------
(***************************************************************************)
(* The invariant.                                                          *)
(***************************************************************************)

\* What was delivered, what is being sent, what waits and what is still to be
\* written of a logger is in order, one after the other.
Chain(l) ==
    /\ Ordered(delivered[l]) /\ Ordered(writeBuffer[l]) /\ Ordered(record[l])
    /\ AllBefore(delivered[l], writeBuffer[l]) /\ AllBefore(delivered[l], record[l])
    /\ AllBefore(writeBuffer[l], record[l])
    /\ holder[l] # None =>
           /\ Ordered(messageBuffer[l]) /\ AllBefore(delivered[l], messageBuffer[l])
           /\ AllBefore(messageBuffer[l], writeBuffer[l]) /\ AllBefore(messageBuffer[l], record[l])
    /\ AllBefore(accepted[l], record[l])
    /\ Until(delivered[l], logged[l]) /\ Until(messageBuffer[l], logged[l])
    /\ Until(writeBuffer[l], logged[l]) /\ Until(accepted[l], logged[l])
    /\ Until(record[l], logged[l])

\* Who sends a logger's buffers has their lock; on_terminate sends those of the
\* first logger, which is the first that it flushes.
ControlInv ==
    /\ \A l \in Names : /\ pc[l] \in {"asleep", "lock", "sending", "create", "write"}
                        /\ pc[l] = "sending" => holder[l] = l
    /\ pc[Final] = "sending" => holder[First] = Final
    /\ pc[Final] \in {"running", "flush", "receive", "channel", "lock", "sending",
                      "create", "write", "shutdown", "over"}
    /\ pc[Final] = "running" => queue = <<>>
    /\ pc[Final] = "flush" => Len(queue) < Len(Loggers)
    /\ queue # <<>> => Head(queue) = First
    /\ pc[Final] \notin {"running", "flush"} => queue # <<>>
    /\ channel = "unset" => pc[Final] \in {"running", "flush", "receive", "channel"}

\* When on_terminate has drained the first logger, what waits is later than what
\* had been taken when it began.
FlushedInv ==
    /\ marked[First] <= Len(accepted[First])
    /\ channel = "dm" /\ pc[Final] \in {"sending", "create", "write", "shutdown", "over"} =>
           \A i \in 1..marked[First], j \in DOMAIN writeBuffer[First] :
               Before(accepted[First][i], writeBuffer[First][j])

\* What a logger's own sender has still to post or to save.
Own(l) == IF pc[l] \in {"sending", "create", "write"} THEN Elements(messageBuffer[l]) ELSE {}

\* OnlyTheFileLoses, in terms of the logger's own sender.
KeptInv ==
    \A l \in Names :
        pc[Final] = "running" \/ l # First =>
            \A b \in Elements(accepted[l]) :
                \/ b \in Elements(writeBuffer[l]) \cup Own(l) \cup Elements(delivered[l])
                \/ <<l, b>> \in saved \cup unsaved

LoggerInv ==
    /\ TypeOK /\ ControlInv /\ FlushedInv /\ KeptInv
    /\ \A l \in Names : Chain(l)

\* The loggers do not change, and the first is one of them.
LEMMA LoggersAreFixed ==
    /\ Names' = Names /\ Senders' = Senders /\ First' = First /\ Final' = Final
    /\ Len(Loggers) \in Nat /\ Len(Loggers) >= 1
    /\ First \in Names /\ First = Loggers[1]
    /\ Final \notin Names /\ None \notin Senders /\ Names \subseteq Senders
    /\ \A i \in 1..Len(Loggers) : Loggers[i] \in Names
  <1>1. Len(Loggers) \in Nat /\ Len(Loggers) >= 1 /\ DOMAIN Loggers = 1..Len(Loggers)
    BY LoggerAssumption, EmptySeq, LenProperties
  <1> QED BY <1>1, LoggerAssumption DEF Names, Senders, First, Final

LEMMA LoggerInit == Init => LoggerInv
  <1> SUFFICES ASSUME Init PROVE LoggerInv
    OBVIOUS
  <1>1. TypeOK
    BY EmptySeq, LoggerAssumption, LoggersAreFixed DEF Init, TypeOK, Senders
  <1>2. ControlInv
    BY LoggersAreFixed, EmptySeq DEF Init, ControlInv, Senders, Final
  <1>3. FlushedInv /\ KeptInv
    BY LoggersAreFixed, EmptySeq DEF Init, FlushedInv, KeptInv, Elements, Senders
  <1>4. \A l \in Names : Chain(l)
    BY EmptyBytes DEF Init, Chain
  <1> QED BY <1>1, <1>2, <1>3, <1>4 DEF LoggerInv

\* The logger a sender sends.
LEMMA SenderOf ==
    ASSUME LoggerInv, NEW s \in Senders, pc[s] \in {"lock", "sending", "create", "write"}
    PROVE  /\ LoggerOf(s) \in Names
           /\ s # Final => s \in Names /\ LoggerOf(s) = s /\ Rest(s) = "asleep"
           /\ s = Final => LoggerOf(s) = First /\ Rest(s) = "shutdown" /\ queue # <<>>
           /\ pc[s] = "sending" => holder[LoggerOf(s)] = s
  BY LoggersAreFixed DEF LoggerInv, ControlInv, LoggerOf, Rest, Senders

\* A logger of which nothing changes stays in order.
LEMMA SameChain ==
    ASSUME NEW l, Chain(l),
           delivered'[l] = delivered[l], writeBuffer'[l] = writeBuffer[l], record'[l] = record[l],
           messageBuffer'[l] = messageBuffer[l], holder'[l] = holder[l],
           accepted'[l] = accepted[l], logged'[l] = logged[l]
    PROVE  Chain(l)'
  BY DEF Chain

-----------------------------------------------------------------------------
(***************************************************************************)
(* A thread writes a record.                                               *)
(***************************************************************************)

\* The bytes of a new record.
NewRecord(n, r) == [i \in DOMAIN r |-> [record |-> n, at |-> i, begins |-> r[i]]]

LEMMA NewBytes ==
    ASSUME NEW n \in Nat, NEW r \in Seq(BOOLEAN)
    PROVE  /\ NewRecord(n, r) \in Seq(Bytes) /\ Ordered(NewRecord(n, r))
           /\ \A i \in DOMAIN NewRecord(n, r) : NewRecord(n, r)[i].record = n
  <1>2. Len(r) \in Nat /\ DOMAIN r = 1..Len(r) /\ \A i \in 1..Len(r) : r[i] \in BOOLEAN
    BY LenProperties, ElementOfSeq
  <1>3. \A i \in 1..Len(r) : [record |-> n, at |-> i, begins |-> r[i]] \in Bytes
    BY <1>2 DEF Bytes
  <1>4. NewRecord(n, r) \in Seq(Bytes)
    BY <1>2, <1>3, IsASeq DEF NewRecord
  <1> QED BY <1>2, <1>4 DEF NewRecord, Ordered, Before

LEMMA LogKeeps ==
    ASSUME LoggerInv, NEW l \in Names, NEW r \in Records[l], Log(l, r)
    PROVE  LoggerInv'
  <1> DEFINE n == logged[l] + 1
             new == NewRecord(n, r)
  <1>1. /\ logged' = [logged EXCEPT ![l] = n] /\ record' = [record EXCEPT ![l] = new]
        /\ UNCHANGED <<buffers, stuck, waiting, accepted, channel, sent, pc, queue, marked>>
    BY DEF Log, NewRecord, LoggerInv, TypeOK
  <1>2. n \in Nat /\ logged[l] \in Nat
    BY DEF LoggerInv, TypeOK
  <1>3. new \in Seq(Bytes) /\ Ordered(new) /\ \A i \in DOMAIN new : new[i].record = n
    <2>1. r \in Seq(BOOLEAN)
      BY LoggerAssumption
    <2> QED BY <1>2, <2>1, NewBytes
  <1> HIDE DEF new
  <1>4. TypeOK'
    BY <1>1, <1>2, <1>3, LoggersAreFixed DEF LoggerInv, TypeOK, buffers, sent
  <1>5. ControlInv' /\ FlushedInv'
    BY <1>1, LoggersAreFixed DEF LoggerInv, ControlInv, FlushedInv, buffers, sent
  <1>6. KeptInv'
    BY <1>1, LoggersAreFixed DEF LoggerInv, KeptInv, Own, buffers, sent
  <1>7. ASSUME NEW m \in Names PROVE Chain(m)'
    <2>1. CASE m # l
      BY <1>1, <2>1, SameChain DEF LoggerInv, TypeOK, buffers, sent
    <2>2. CASE m = l
      <3>1. \A s \in Seq(Bytes) : Until(s, logged[l]) => Until(s, n)
        <4> SUFFICES ASSUME NEW s \in Seq(Bytes), Until(s, logged[l]), NEW i \in DOMAIN s
                     PROVE  s[i].record <= n
          BY DEF Until
        <4>1. s[i] \in Bytes
          BY LenProperties, ElementOfSeq
        <4>2. s[i].record \in Nat /\ s[i].record <= logged[l]
          BY <4>1 DEF Until, Bytes
        <4> QED BY <1>2, <4>2
      <3>2. \A s \in Seq(Bytes) : Until(s, logged[l]) => AllBefore(s, new)
        <4> SUFFICES ASSUME NEW s \in Seq(Bytes), Until(s, logged[l]),
                            NEW i \in DOMAIN s, NEW j \in DOMAIN new
                     PROVE  Before(s[i], new[j])
          BY DEF AllBefore
        <4>1. s[i] \in Bytes
          BY LenProperties, ElementOfSeq
        <4>2. s[i].record \in Nat /\ s[i].record <= logged[l]
          BY <4>1 DEF Until, Bytes
        <4>3. s[i].record < new[j].record
          BY <1>2, <1>3, <4>2
        <4> QED BY <4>3 DEF Before
      <3>3. /\ delivered[l] \in Seq(Bytes) /\ writeBuffer[l] \in Seq(Bytes)
            /\ messageBuffer[l] \in Seq(Bytes) /\ accepted[l] \in Seq(Bytes)
        BY DEF LoggerInv, TypeOK
      <3>4. record'[l] = new /\ logged'[l] = n
        BY <1>1 DEF LoggerInv, TypeOK
      <3>5. Until(new, n)
        BY <1>2, <1>3 DEF Until
      <3> QED BY <1>1, <1>3, <2>2, <3>1, <3>2, <3>3, <3>4, <3>5 DEF LoggerInv, Chain, buffers, sent
    <2> QED BY <2>1, <2>2
  <1> QED BY <1>4, <1>5, <1>6, <1>7, LoggersAreFixed DEF LoggerInv

\* write takes no more than there is, and no more than there is room for.
LEMMA TakenBytes ==
    ASSUME TypeOK, NEW l \in Names
    PROVE  /\ Taken(l) \in 0..Len(record[l])
           /\ Len(writeBuffer[l]) + Taken(l) <= BufferSize
  <1>1. /\ Len(writeBuffer[l]) \in Nat /\ Len(record[l]) \in Nat /\ BufferSize \in Nat
        /\ Len(writeBuffer[l]) <= BufferSize
    BY LoggerAssumption, LenProperties DEF TypeOK
  <1> DEFINE w == Len(writeBuffer[l])
             n == Len(record[l])
  <1>2. Taken(l) = IF BufferSize - w < n THEN BufferSize - w ELSE n
    BY DEF Taken
  <1> HIDE DEF w, n
  <1>3. w \in Nat /\ n \in Nat /\ w <= BufferSize /\ BufferSize \in Nat
    BY <1>1 DEF w, n
  <1>4. Taken(l) \in 0..n /\ w + Taken(l) <= BufferSize
    BY <1>2, <1>3
  <1> QED BY <1>4 DEF w, n

\* What write takes goes to the end of the write buffer; the rest of the record
\* is left, or dropped when the buffer was full.
LEMMA WriteKeeps ==
    ASSUME LoggerInv, NEW l \in Names, Write(l), l \notin stuck'
    PROVE  LoggerInv'
  <1> DEFINE k == Taken(l)
             front == SubSeq(record[l], 1, k)
             rest == SubSeq(record[l], k + 1, Len(record[l]))
             left == IF k = 0 THEN <<>> ELSE rest
  <1>1. /\ writeBuffer' = [writeBuffer EXCEPT ![l] = writeBuffer[l] \o front]
        /\ accepted' = [accepted EXCEPT ![l] = accepted[l] \o front]
        /\ record' = [record EXCEPT ![l] = left]
        /\ UNCHANGED <<stuck, waiting, messageBuffer, holder, logged, channel, sent, pc, queue, marked>>
    BY DEF Write, LoggerInv, TypeOK
  <1>2. /\ record[l] \in Seq(Bytes) /\ writeBuffer[l] \in Seq(Bytes) /\ accepted[l] \in Seq(Bytes)
        /\ delivered[l] \in Seq(Bytes) /\ messageBuffer[l] \in Seq(Bytes)
    BY DEF LoggerInv, TypeOK
  <1>3. k \in 0..Len(record[l]) /\ Len(writeBuffer[l]) + k <= BufferSize
    BY TakenBytes DEF LoggerInv
  <1> HIDE DEF k
  <1>4. front \in Seq(Bytes) /\ rest \in Seq(Bytes) /\ Len(front) = k
    BY <1>2, <1>3, CutBytes
  <1>5. /\ Ordered(front) /\ Ordered(rest) /\ AllBefore(front, rest)
        /\ \A s : AllBefore(s, record[l]) => AllBefore(s, front) /\ AllBefore(s, rest)
        /\ Until(front, logged[l]) /\ Until(rest, logged[l])
    <2>1. Ordered(record[l]) /\ Until(record[l], logged[l])
      BY DEF LoggerInv, Chain
    <2>2. /\ Ordered(record[l]) => Ordered(front) /\ Ordered(rest) /\ AllBefore(front, rest)
          /\ \A s : AllBefore(s, record[l]) => AllBefore(s, front) /\ AllBefore(s, rest)
          /\ \A n : Until(record[l], n) => Until(front, n) /\ Until(rest, n)
      BY <1>2, <1>3, CutOrdered
    <2> HIDE DEF front, rest
    <2> QED BY <2>1, <2>2
  <1> HIDE DEF front, rest
  <1>6. /\ left \in Seq(Bytes) /\ Ordered(left) /\ AllBefore(front, left) /\ Until(left, logged[l])
        /\ \A s : AllBefore(s, record[l]) => AllBefore(s, left)
    BY <1>4, <1>5, EmptyBytes
  <1> HIDE DEF left
  <1> DEFINE buffer == writeBuffer[l] \o front
             taken == accepted[l] \o front
  <1>7. /\ buffer \in Seq(Bytes) /\ taken \in Seq(Bytes)
        /\ Len(buffer) = Len(writeBuffer[l]) + k /\ Len(taken) = Len(accepted[l]) + k
    BY <1>2, <1>4, ConcatBytes
  <1>8. TypeOK'
    <2> HIDE DEF buffer, taken
    <2>1. Len(buffer) <= BufferSize
      BY <1>3, <1>7
    <2>2. writeBuffer' = [writeBuffer EXCEPT ![l] = buffer] /\ accepted' = [accepted EXCEPT ![l] = taken]
      BY <1>1 DEF buffer, taken
    <2>3. writeBuffer' \in [Names -> Seq(Bytes)] /\ accepted' \in [Names -> Seq(Bytes)]
      BY <1>7, <2>2 DEF LoggerInv, TypeOK
    <2>4. record' \in [Names -> Seq(Bytes)]
      BY <1>1, <1>6 DEF LoggerInv, TypeOK
    <2>5. \A m \in Names : Len(writeBuffer'[m]) <= BufferSize
      BY <2>1, <2>2 DEF LoggerInv, TypeOK
    <2>6. UNCHANGED <<stuck, waiting, messageBuffer, holder, logged, channel, delivered, file, saved, unsaved, pc, queue, marked>>
      BY <1>1 DEF sent
    <2> QED BY <2>3, <2>4, <2>5, <2>6, LoggersAreFixed DEF LoggerInv, TypeOK
  <1>9. ControlInv'
    BY <1>1, LoggersAreFixed DEF LoggerInv, ControlInv, sent
  <1>10. ASSUME NEW m \in Names PROVE Chain(m)'
    <2>1. CASE m # l
      BY <1>1, <2>1, SameChain DEF LoggerInv, TypeOK, sent
    <2>2. CASE m = l
      <3>1. /\ writeBuffer'[l] = buffer /\ accepted'[l] = taken /\ record'[l] = left
            /\ delivered'[l] = delivered[l] /\ messageBuffer'[l] = messageBuffer[l]
            /\ holder'[l] = holder[l] /\ logged'[l] = logged[l]
        BY <1>1 DEF LoggerInv, TypeOK, sent
      <3>2. Chain(l)
        BY DEF LoggerInv
      <3>3. Ordered(buffer)
        BY <1>2, <1>4, <1>5, <3>2, OrderedConcat DEF Chain
      <3>4. AllBefore(delivered[l], buffer) /\ AllBefore(buffer, left)
        BY <1>2, <1>4, <1>5, <1>6, <3>2, BeforeConcat DEF Chain
      <3>5. holder[l] # None => AllBefore(messageBuffer[l], buffer) /\ AllBefore(messageBuffer[l], left)
        BY <1>2, <1>4, <1>5, <1>6, <3>2, BeforeConcat DEF Chain
      <3>6. AllBefore(taken, left) /\ AllBefore(delivered[l], left)
        BY <1>2, <1>4, <1>5, <1>6, <3>2, BeforeConcat DEF Chain
      <3>7. Until(buffer, logged[l]) /\ Until(taken, logged[l])
        BY <1>2, <1>4, <1>5, <3>2, UntilConcat DEF Chain
      <3> HIDE DEF buffer, taken
      <3> QED BY <1>6, <2>2, <3>1, <3>2, <3>3, <3>4, <3>5, <3>6, <3>7 DEF Chain
    <2> QED BY <2>1, <2>2
  <1>11. FlushedInv'
    <2>1. CASE First # l
      BY <1>1, <2>1, LoggersAreFixed DEF LoggerInv, TypeOK, FlushedInv, sent
    <2>2. CASE First = l
      <3>1. AllBefore(accepted[l], front)
        BY <1>5 DEF LoggerInv, Chain
      <3>2. marked[l] <= Len(accepted[l]) /\ marked[l] \in Nat
        BY <2>2, LoggersAreFixed DEF LoggerInv, FlushedInv, TypeOK
      <3>3. Len(accepted[l]) \in Nat /\ k \in Nat /\ DOMAIN accepted[l] = 1..Len(accepted[l])
        BY <1>2, <1>3, LenProperties
      <3>4. \A i \in 1..marked[l] : i \in DOMAIN accepted[l] /\ taken[i] = accepted[l][i]
        BY <1>2, <1>4, <3>2, <3>3, ConcatBytes
      <3>5. \A j \in DOMAIN buffer :
                \/ j \in DOMAIN writeBuffer[l] /\ buffer[j] = writeBuffer[l][j]
                \/ \E i \in DOMAIN front : buffer[j] = front[i]
        BY <1>2, <1>4, ConcatBytes
      <3>6. marked[l] <= Len(taken)
        BY <1>7, <3>2, <3>3
      <3>7. writeBuffer'[l] = buffer /\ accepted'[l] = taken
        BY <1>1 DEF LoggerInv, TypeOK
      <3> HIDE DEF buffer, taken
      <3>8. marked'[First] = marked[l] /\ channel' = channel /\ pc' = pc /\ First' = l /\ First = l
        BY <1>1, <2>2, LoggersAreFixed
      <3>9. ASSUME channel = "dm", pc[Final] \in {"sending", "create", "write", "shutdown", "over"},
                   NEW i \in 1..marked[l], NEW j \in DOMAIN buffer
            PROVE  Before(taken[i], buffer[j])
        <4>1. \A h \in DOMAIN writeBuffer[l] : Before(accepted[l][i], writeBuffer[l][h])
          BY <2>2, <3>9 DEF LoggerInv, FlushedInv
        <4> QED BY <3>1, <3>4, <3>5, <4>1 DEF AllBefore
      <3> QED BY <3>6, <3>7, <3>8, <3>9, LoggersAreFixed DEF FlushedInv
    <2> QED BY <2>1, <2>2
  <1>12. KeptInv'
    <2>1. /\ Elements(buffer) = Elements(writeBuffer[l]) \cup Elements(front)
          /\ Elements(taken) = Elements(accepted[l]) \cup Elements(front)
      BY <1>2, <1>4, ConcatElements
    <2>2. \A m \in Names : /\ Own(m)' = Own(m)
                           /\ delivered'[m] = delivered[m]
                           /\ m # l => writeBuffer'[m] = writeBuffer[m] /\ accepted'[m] = accepted[m]
      BY <1>1, LoggersAreFixed DEF LoggerInv, TypeOK, Own, sent
    <2>3. writeBuffer'[l] = buffer /\ accepted'[l] = taken
      BY <1>1 DEF LoggerInv, TypeOK
    <2>4. saved' = saved /\ unsaved' = unsaved /\ pc' = pc /\ First' = First /\ Names' = Names
      BY <1>1, LoggersAreFixed DEF sent
    <2> HIDE DEF buffer, taken
    <2>5. ASSUME NEW m \in Names, pc[Final] = "running" \/ m # First, NEW b \in Elements(accepted'[m])
          PROVE  b \in Elements(writeBuffer'[m]) \cup Own(m)' \cup Elements(delivered'[m])
                 \/ <<m, b>> \in saved' \cup unsaved'
      <3>1. CASE b \in Elements(accepted[m])
        BY <2>1, <2>2, <2>3, <2>4, <2>5, <3>1 DEF LoggerInv, KeptInv
      <3>2. CASE b \notin Elements(accepted[m])
        BY <2>1, <2>2, <2>3, <2>5, <3>2
      <3> QED BY <3>1, <3>2
    <2> QED BY <2>4, <2>5, LoggersAreFixed DEF KeptInv, Elements
  <1> QED BY <1>8, <1>9, <1>10, <1>11, <1>12, LoggersAreFixed DEF LoggerInv

\* A thread that is lost changes nothing but how many are.
LEMMA ThreadLost ==
    ASSUME LoggerInv, Running, stuck' \subseteq Names, waiting' = waiting + 1,
           UNCHANGED <<writeBuffer, accepted, record, messageBuffer, holder, logged,
                       channel, sent, pc, queue, marked>>
    PROVE  LoggerInv'
  <1>1. waiting' \in 0..Workers
    <2>1. waiting \in 0..Workers /\ waiting < Workers /\ Workers \in Nat
      BY LoggerAssumption DEF LoggerInv, TypeOK, Running
    <2> QED BY <2>1
  <1>2. TypeOK' /\ ControlInv' /\ FlushedInv' /\ KeptInv'
    BY <1>1, LoggersAreFixed DEF LoggerInv, TypeOK, ControlInv, FlushedInv, KeptInv, Own, sent
  <1>3. \A m \in Names : Chain(m)'
    BY SameChain DEF LoggerInv, sent
  <1> QED BY <1>2, <1>3, LoggersAreFixed DEF LoggerInv

\* A record that goes on inside a character stops its logger,
LEMMA StuckKeeps ==
    ASSUME LoggerInv, NEW l \in Names, Running, Write(l), l \in stuck'
    PROVE  LoggerInv'
  <1>1. l \notin stuck /\ stuck \subseteq Names
    BY DEF Write, LoggerInv, TypeOK
  <1>2. stuck' \subseteq Names
    BY <1>1 DEF Write
  <1> QED BY <1>1, <1>2, ThreadLost DEF Write

\* and every thread that logs to it.
LEMMA WaitKeeps ==
    ASSUME LoggerInv, NEW l \in Names, Running, Wait(l)
    PROVE  LoggerInv'
  BY ThreadLost DEF Wait, buffers, LoggerInv, TypeOK
-----------------------------------------------------------------------------
(***************************************************************************)
(* The senders.                                                            *)
(***************************************************************************)

\* A step that changes no buffer keeps the order.
LEMMA QuietChains ==
    ASSUME LoggerInv, UNCHANGED <<buffers, writing, delivered>>
    PROVE  \A l \in Names : Chain(l)'
  BY SameChain DEF LoggerInv, buffers, writing

\* A sender goes on; who sends has the lock of the message buffer.
LEMMA SenderControl ==
    ASSUME LoggerInv, NEW s \in Senders, NEW next, pc' = [pc EXCEPT ![s] = next],
           UNCHANGED <<channel, queue>>,
           s # Final => next \in {"asleep", "lock", "sending", "create", "write"},
           s = Final => /\ next \in {"lock", "sending", "create", "write", "shutdown", "over"}
                        /\ queue # <<>> /\ channel # "unset",
           \A l \in Names : pc'[l] = "sending" => holder'[l] = l,
           pc'[Final] = "sending" => holder'[First] = Final
    PROVE  ControlInv'
  <1>1. \A t \in Senders : pc'[t] = IF t = s THEN next ELSE pc[t]
    BY DEF LoggerInv, TypeOK
  <1>2. Final \in Senders
    BY DEF Senders
  <1>3. \A l \in Names : pc'[l] \in {"asleep", "lock", "sending", "create", "write"}
    BY <1>1, LoggersAreFixed DEF LoggerInv, ControlInv
  <1>4. CASE s = Final
    BY <1>1, <1>2, <1>3, <1>4, LoggersAreFixed DEF LoggerInv, ControlInv
  <1>5. CASE s # Final
    BY <1>1, <1>2, <1>3, <1>5, LoggersAreFixed DEF LoggerInv, ControlInv
  <1> QED BY <1>4, <1>5

\* What the first logger's write buffer must be when on_terminate has drained it.
LEMMA SenderFlushed ==
    ASSUME LoggerInv, UNCHANGED <<channel, marked, accepted>>,
           writeBuffer'[First] = writeBuffer[First],
           \/ pc'[Final] = pc[Final]
           \/ pc[Final] \in {"sending", "create", "write", "shutdown"}
    PROVE  FlushedInv'
  BY LoggersAreFixed DEF LoggerInv, FlushedInv

LEMMA DrainedFlushed ==
    ASSUME LoggerInv, UNCHANGED <<marked, accepted>>, writeBuffer'[First] = <<>>
    PROVE  FlushedInv'
  <1>1. DOMAIN writeBuffer'[First] = {}
    BY EmptySeq
  <1> QED BY <1>1, LoggersAreFixed DEF LoggerInv, FlushedInv

\* Bytes that were kept must be kept.
LEMMA KeptStep ==
    ASSUME LoggerInv, accepted' = accepted, saved \cup unsaved \subseteq saved' \cup unsaved',
           pc'[Final] = "running" => pc[Final] = "running",
           \A m \in Names : pc'[Final] = "running" \/ m # First =>
               \A b \in Elements(writeBuffer[m]) \cup Own(m) \cup Elements(delivered[m]) :
                   \/ b \in Elements(writeBuffer'[m]) \cup Own(m)' \cup Elements(delivered'[m])
                   \/ <<m, b>> \in saved' \cup unsaved'
    PROVE  KeptInv'
  <1> SUFFICES ASSUME NEW m \in Names, pc'[Final] = "running" \/ m # First,
                      NEW b \in Elements(accepted[m])
               PROVE  b \in Elements(writeBuffer'[m]) \cup Own(m)' \cup Elements(delivered'[m])
                      \/ <<m, b>> \in saved' \cup unsaved'
    BY LoggersAreFixed DEF KeptInv, Elements
  <1>1. pc[Final] = "running" \/ m # First
    OBVIOUS
  <1>2. \/ b \in Elements(writeBuffer[m]) \cup Own(m) \cup Elements(delivered[m])
        \/ <<m, b>> \in saved \cup unsaved
    BY <1>1 DEF LoggerInv, KeptInv
  <1> QED BY <1>2

\* Where only a sender goes on that keeps what it has, nothing is lost.
LEMMA KeptOwn ==
    ASSUME LoggerInv, UNCHANGED <<accepted, writeBuffer, messageBuffer, delivered>>, saved \cup unsaved \subseteq saved' \cup unsaved',
           pc'[Final] = "running" => pc[Final] = "running",
           \A m \in Names : pc[m] \in {"sending", "create", "write"} => pc'[m] \in {"sending", "create", "write"}
    PROVE  KeptInv'
  <1>1. \A m \in Names : Own(m) \subseteq Own(m)'
    BY DEF Own, Elements
  <1> QED BY <1>1, KeptStep

\* A periodic sender wakes.
LEMMA WakeKeeps ==
    ASSUME LoggerInv, NEW l \in Names, Wake(l)
    PROVE  LoggerInv'
  <1>1. PICK next \in {"lock", "create"} :
            /\ pc' = [pc EXCEPT ![l] = next] /\ pc[l] = "asleep"
            /\ UNCHANGED <<buffers, writing, channel, sent, queue, marked>>
    BY DEF Wake, Begin, Goto
  <1>2. l # Final /\ l \in Senders
    BY LoggersAreFixed
  <1>3. TypeOK'
    BY <1>1, <1>2, LoggersAreFixed DEF LoggerInv, TypeOK, buffers, writing, sent
  <1>4. \A t \in Senders : pc'[t] = IF t = l THEN next ELSE pc[t]
    BY <1>1 DEF LoggerInv, TypeOK
  <1>5. UNCHANGED <<holder, queue, channel, marked, accepted, writeBuffer, messageBuffer, delivered, saved, unsaved>>
    BY <1>1 DEF buffers, writing, sent
  <1>6. ControlInv'
    <2>1. \A m \in Names : pc'[m] = "sending" => holder'[m] = m
      BY <1>4, <1>5, LoggersAreFixed DEF LoggerInv, ControlInv
    <2>2. pc'[Final] = "sending" => holder'[First] = Final
      BY <1>2, <1>4, <1>5 DEF LoggerInv, ControlInv, Senders
    <2> QED BY <1>1, <1>2, <1>5, <2>1, <2>2, SenderControl
  <1>7. pc'[Final] = pc[Final]
    BY <1>2, <1>4 DEF Senders
  <1>8. FlushedInv'
    BY <1>5, <1>7, SenderFlushed
  <1>9. KeptInv'
    BY <1>1, <1>4, <1>5, <1>7, KeptOwn, LoggersAreFixed
  <1>10. \A m \in Names : Chain(m)'
    BY <1>1, QuietChains DEF sent
  <1> QED BY <1>3, <1>6, <1>8, <1>9, <1>10, LoggersAreFixed DEF LoggerInv

\* on_cache_ready sets the channel, before on_terminate has begun to send.
LEMMA CacheReadyKeeps ==
    ASSUME LoggerInv, CacheReady
    PROVE  LoggerInv'
  <1>1. /\ channel = "unset" /\ channel' \in {"dm", "none"}
        /\ UNCHANGED <<buffers, writing, sent, pc, queue, marked>>
    BY DEF CacheReady, SetChannel
  <1>2. TypeOK' /\ ControlInv' /\ FlushedInv' /\ KeptInv'
    BY <1>1, LoggersAreFixed
       DEF LoggerInv, TypeOK, ControlInv, FlushedInv, KeptInv, Own, buffers, writing, sent
  <1>3. \A m \in Names : Chain(m)'
    BY <1>1, QuietChains DEF sent
  <1> QED BY <1>2, <1>3, LoggersAreFixed DEF LoggerInv

\* The write buffer is empty: there is nothing to send.
LEMMA NothingToSendKeeps ==
    ASSUME LoggerInv, NEW s \in Senders, Lock(s), writeBuffer[LoggerOf(s)] = <<>>
    PROVE  LoggerInv'
  <1> DEFINE next == Rest(s)
  <1>1. /\ pc[s] = "lock" /\ pc' = [pc EXCEPT ![s] = next]
        /\ UNCHANGED <<buffers, writing, channel, sent, queue, marked>>
    BY DEF Lock, Goto
  <1>2. /\ s # Final => s \in Names /\ next = "asleep"
        /\ s = Final => next = "shutdown" /\ LoggerOf(s) = First /\ queue # <<>>
    BY <1>1, SenderOf
  <1> HIDE DEF next
  <1>3. TypeOK'
    BY <1>1, <1>2, LoggersAreFixed DEF LoggerInv, TypeOK, buffers, writing, sent
  <1>4. \A t \in Senders : pc'[t] = IF t = s THEN next ELSE pc[t]
    BY <1>1 DEF LoggerInv, TypeOK
  <1>5. UNCHANGED <<holder, queue, channel, marked, accepted, writeBuffer, messageBuffer, delivered, saved, unsaved>>
    BY <1>1 DEF buffers, writing, sent
  <1>6. Final \in Senders /\ Names \subseteq Senders
    BY DEF Senders
  <1>7. ControlInv'
    <2>1. \A m \in Names : pc'[m] = "sending" => holder'[m] = m
      BY <1>2, <1>4, <1>5, <1>6 DEF LoggerInv, ControlInv
    <2>2. pc'[Final] = "sending" => holder'[First] = Final
      BY <1>2, <1>4, <1>5, <1>6 DEF LoggerInv, ControlInv
    <2>3. s = Final => channel # "unset"
      BY <1>1 DEF LoggerInv, ControlInv
    <2> QED BY <1>1, <1>2, <1>5, <2>1, <2>2, <2>3, SenderControl
  <1>8. FlushedInv'
    <2>1. CASE s = Final
      BY <1>2, <1>5, <2>1, DrainedFlushed
    <2>2. CASE s # Final
      <3>1. pc'[Final] = pc[Final]
        BY <1>4, <1>6, <2>2
      <3> QED BY <1>5, <3>1, SenderFlushed
    <2> QED BY <2>1, <2>2
  <1>9. KeptInv'
    <2>1. pc'[Final] = "running" => pc[Final] = "running"
      BY <1>2, <1>4, <1>6
    <2>2. \A m \in Names : pc[m] \in {"sending", "create", "write"} => pc'[m] \in {"sending", "create", "write"}
      BY <1>1, <1>4, <1>6
    <2> QED BY <1>5, <2>1, <2>2, KeptOwn
  <1>10. \A m \in Names : Chain(m)'
    BY <1>1, QuietChains DEF sent
  <1> QED BY <1>3, <1>7, <1>8, <1>9, <1>10, LoggersAreFixed DEF LoggerInv

\* The write buffer becomes the message buffer, which is then locked.
LEMMA DrainKeeps ==
    ASSUME LoggerInv, NEW s \in Senders, Lock(s), writeBuffer[LoggerOf(s)] # <<>>
    PROVE  LoggerInv'
  <1> DEFINE l == LoggerOf(s)
  <1>1. /\ pc[s] = "lock" /\ pc' = [pc EXCEPT ![s] = "sending"] /\ holder[l] = None
        /\ messageBuffer' = [messageBuffer EXCEPT ![l] = writeBuffer[l]]
        /\ writeBuffer' = [writeBuffer EXCEPT ![l] = <<>>]
        /\ holder' = [holder EXCEPT ![l] = s]
        /\ UNCHANGED <<writing, channel, sent, queue, marked>>
    BY DEF Lock, Drain, Goto
  <1>2. /\ l \in Names /\ s # None
        /\ s # Final => s \in Names /\ l = s
        /\ s = Final => l = First /\ queue # <<>>
    BY <1>1, SenderOf, LoggersAreFixed
  <1> HIDE DEF l
  <1>3. TypeOK'
    <2>1. writeBuffer' \in [Names -> Seq(Bytes)] /\ messageBuffer' \in [Names -> Seq(Bytes)]
      BY <1>1, <1>2, EmptyBytes DEF LoggerInv, TypeOK
    <2>2. \A m \in Names : Len(writeBuffer'[m]) <= BufferSize
      BY <1>1, <1>2, EmptyBytes, LoggerAssumption DEF LoggerInv, TypeOK
    <2> QED BY <1>1, <1>2, <2>1, <2>2, LoggersAreFixed DEF LoggerInv, TypeOK, writing, sent
  <1>4. /\ \A t \in Senders : pc'[t] = IF t = s THEN "sending" ELSE pc[t]
        /\ \A m \in Names : holder'[m] = IF m = l THEN s ELSE holder[m]
        /\ \A m \in Names : writeBuffer'[m] = IF m = l THEN <<>> ELSE writeBuffer[m]
        /\ \A m \in Names : messageBuffer'[m] = IF m = l THEN writeBuffer[m] ELSE messageBuffer[m]
    BY <1>1, <1>2 DEF LoggerInv, TypeOK
  <1>5. UNCHANGED <<queue, channel, marked, accepted, delivered, saved, unsaved>>
    BY <1>1 DEF writing, sent
  <1>6. Final \in Senders /\ Names \subseteq Senders /\ Final \notin Names
    BY LoggersAreFixed DEF Senders
  <1>7. ControlInv'
    <2>1. \A m \in Names : pc[m] = "sending" => m # l
      BY <1>1, <1>6, LoggersAreFixed DEF LoggerInv, ControlInv
    <2>2. \A m \in Names : pc'[m] = "sending" => holder'[m] = m
      BY <1>2, <1>4, <1>6, <2>1 DEF LoggerInv, ControlInv
    <2>3. pc[Final] = "sending" => l # First
      BY <1>1, <1>6, LoggersAreFixed DEF LoggerInv, ControlInv
    <2>4. pc'[Final] = "sending" => holder'[First] = Final
      BY <1>2, <1>4, <1>6, <2>3, LoggersAreFixed DEF LoggerInv, ControlInv
    <2>5. s = Final => channel # "unset"
      BY <1>1 DEF LoggerInv, ControlInv
    <2> QED BY <1>1, <1>2, <1>5, <2>2, <2>4, <2>5, SenderControl
  <1>8. FlushedInv'
    <2>1. CASE l = First
      BY <1>2, <1>4, <1>5, <2>1, DrainedFlushed
    <2>2. CASE l # First
      <3>1. pc'[Final] = pc[Final] /\ writeBuffer'[First] = writeBuffer[First]
        BY <1>2, <1>4, <1>6, <2>2, LoggersAreFixed
      <3> QED BY <1>5, <3>1, SenderFlushed
    <2> QED BY <2>1, <2>2
  <1>9. KeptInv'
    <2>1. pc'[Final] = "running" => pc[Final] = "running"
      BY <1>4, <1>6
    <2>2. ASSUME NEW m \in Names, pc'[Final] = "running" \/ m # First,
                 NEW b \in Elements(writeBuffer[m]) \cup Own(m) \cup Elements(delivered[m])
          PROVE  b \in Elements(writeBuffer'[m]) \cup Own(m)' \cup Elements(delivered'[m])
      <3>1. CASE m # l
        <4>1. Own(m) \subseteq Own(m)'
          BY <1>4, <1>6, <3>1 DEF Own, Elements
        <4> QED BY <1>4, <1>5, <3>1, <4>1
      <3>2. CASE m = l
        <4>1. s = m
          BY <1>2, <1>4, <1>6, <2>2, <3>2
        <4>2. Own(m) = {}
          BY <1>1, <4>1 DEF Own
        <4>3. Own(m)' = Elements(writeBuffer[m])
          BY <1>4, <1>6, <3>2, <4>1 DEF Own, Elements
        <4> QED BY <1>5, <4>2, <4>3
      <3> QED BY <3>1, <3>2
    <2> QED BY <1>5, <2>1, <2>2, KeptStep
  <1>10. ASSUME NEW m \in Names PROVE Chain(m)'
    <2>1. CASE m # l
      BY <1>1, <2>1, SameChain DEF LoggerInv, TypeOK, writing, sent
    <2>2. CASE m = l
      <3>1. /\ messageBuffer'[m] = writeBuffer[m] /\ writeBuffer'[m] = <<>>
            /\ UNCHANGED <<delivered, record, accepted, logged>>
        BY <1>1, <1>2, <2>2 DEF LoggerInv, TypeOK, writing, sent
      <3> QED BY <3>1, EmptyBytes DEF LoggerInv, Chain
    <2> QED BY <2>1, <2>2
  <1> QED BY <1>3, <1>7, <1>8, <1>9, <1>10, LoggersAreFixed DEF LoggerInv

\* A post ends: the lock is given back, and the message, if it arrived, was the
\* next part of what the owner gets.
LEMMA PostKeeps ==
    ASSUME LoggerInv, NEW s \in Senders, NEW arrived \in BOOLEAN, NEW next,
           pc[s] = "sending", pc' = [pc EXCEPT ![s] = next],
           next = "create" \/ (arrived /\ next = Rest(s)),
           delivered' = [delivered EXCEPT ![LoggerOf(s)] =
                            IF arrived THEN @ \o messageBuffer[LoggerOf(s)] ELSE @],
           holder' = [holder EXCEPT ![LoggerOf(s)] = None],
           UNCHANGED <<writeBuffer, messageBuffer, writing, channel, file, saved, unsaved, queue, marked>>
    PROVE  LoggerInv'
  <1> DEFINE l == LoggerOf(s)
             sum == delivered[l] \o messageBuffer[l]
             new == IF arrived THEN sum ELSE delivered[l]
  <1>1. /\ l \in Names
        /\ s # Final => s \in Names /\ l = s /\ Rest(s) = "asleep"
        /\ s = Final => l = First /\ Rest(s) = "shutdown" /\ queue # <<>>
        /\ holder[l] = s
    BY SenderOf
  <1>2. /\ delivered[l] \in Seq(Bytes) /\ messageBuffer[l] \in Seq(Bytes)
        /\ delivered' = [delivered EXCEPT ![l] = new]
        /\ holder' = [holder EXCEPT ![l] = None]
    BY <1>1 DEF LoggerInv, TypeOK
  <1> HIDE DEF l
  <1>3. s # None /\ Final \in Senders /\ Names \subseteq Senders /\ Final \notin Names
    BY LoggersAreFixed DEF Senders
  <1>4. Chain(l) /\ holder[l] # None
    BY <1>1, <1>3 DEF LoggerInv
  <1>5. sum \in Seq(Bytes) /\ Elements(sum) = Elements(delivered[l]) \cup Elements(messageBuffer[l])
    BY <1>2, ConcatBytes, ConcatElements
  <1>6. /\ Ordered(sum) /\ AllBefore(sum, writeBuffer[l]) /\ AllBefore(sum, record[l])
        /\ Until(sum, logged[l])
    BY <1>2, <1>4, OrderedConcat, BeforeConcat, UntilConcat DEF Chain
  <1> HIDE DEF sum
  <1>7. new \in Seq(Bytes) /\ Elements(delivered[l]) \subseteq Elements(new)
    BY <1>2, <1>5
  <1>8. /\ Ordered(new) /\ AllBefore(new, writeBuffer[l]) /\ AllBefore(new, record[l])
        /\ Until(new, logged[l])
    BY <1>4, <1>6 DEF Chain
  <1>9. arrived => Elements(messageBuffer[l]) \subseteq Elements(new)
    BY <1>5
  <1> HIDE DEF new
  <1>10. next \in {"create", "asleep", "shutdown"} /\ (s # Final => next # "shutdown") /\ (s = Final => next # "asleep")
    BY <1>1
  <1>11. TypeOK'
    <2>1. delivered' \in [Names -> Seq(Bytes)]
      BY <1>2, <1>7 DEF LoggerInv, TypeOK
    <2> QED BY <1>1, <1>2, <1>10, <2>1, LoggersAreFixed DEF LoggerInv, TypeOK, writing
  <1>12. /\ \A t \in Senders : pc'[t] = IF t = s THEN next ELSE pc[t]
         /\ \A m \in Names : holder'[m] = IF m = l THEN None ELSE holder[m]
         /\ \A m \in Names : delivered'[m] = IF m = l THEN new ELSE delivered[m]
    BY <1>1, <1>2 DEF LoggerInv, TypeOK
  <1>13. ControlInv'
    <2>1. \A m \in Names : pc[m] = "sending" /\ m # s => m # l
      BY <1>1 DEF LoggerInv, ControlInv
    <2>2. \A m \in Names : pc'[m] = "sending" => holder'[m] = m
      BY <1>3, <1>10, <1>12, <2>1 DEF LoggerInv, ControlInv
    <2>3. pc[Final] = "sending" /\ s # Final => l # First
      BY <1>1, LoggersAreFixed DEF LoggerInv, ControlInv
    <2>4. pc'[Final] = "sending" => holder'[First] = Final
      BY <1>3, <1>10, <1>12, <2>3, LoggersAreFixed DEF LoggerInv, ControlInv
    <2>5. s = Final => channel # "unset"
      BY DEF LoggerInv, ControlInv
    <2> QED BY <1>1, <1>10, <2>2, <2>4, <2>5, SenderControl
  <1>14. FlushedInv'
    <2>1. pc'[Final] = pc[Final] \/ pc[Final] = "sending"
      BY <1>3, <1>12
    <2> QED BY <2>1, SenderFlushed DEF writing
  <1>15. KeptInv'
    <2>1. pc'[Final] = "running" => pc[Final] = "running"
      BY <1>3, <1>10, <1>12
    <2>2. ASSUME NEW m \in Names, pc'[Final] = "running" \/ m # First,
                 NEW b \in Elements(writeBuffer[m]) \cup Own(m) \cup Elements(delivered[m])
          PROVE  b \in Elements(writeBuffer'[m]) \cup Own(m)' \cup Elements(delivered'[m])
      <3>1. CASE m # s
        <4>1. Own(m) \subseteq Own(m)'
          BY <1>3, <1>12, <3>1 DEF Own, Elements
        <4>2. Elements(delivered[m]) \subseteq Elements(delivered'[m])
          BY <1>7, <1>12
        <4> QED BY <4>1, <4>2
      <3>2. CASE m = s
        <4>1. m = l /\ delivered'[m] = new
          BY <1>1, <1>3, <1>12, <3>2
        <4>2. CASE next = "create"
          <5>1. Own(m) \subseteq Own(m)'
            BY <1>12, <3>2, <4>2 DEF Own, Elements
          <5> QED BY <1>7, <4>1, <5>1
        <4>3. CASE next # "create"
          <5>1. Own(m) \subseteq Elements(new)
            BY <1>9, <4>1, <4>3 DEF Own
          <5> QED BY <1>7, <4>1, <5>1
        <4> QED BY <4>2, <4>3
      <3> QED BY <3>1, <3>2
    <2> QED BY <2>1, <2>2, KeptStep DEF writing
  <1>16. ASSUME NEW m \in Names PROVE Chain(m)'
    <2>1. CASE m # l
      BY <1>12, <2>1, SameChain DEF LoggerInv, writing
    <2>2. CASE m = l
      <3>1. holder'[m] = None /\ delivered'[m] = new
        BY <1>12, <2>2
      <3> QED BY <1>4, <1>8, <2>2, <3>1 DEF Chain, writing
    <2> QED BY <2>1, <2>2
  <1> QED BY <1>11, <1>13, <1>14, <1>15, <1>16, LoggersAreFixed DEF LoggerInv

LEMMA PostedKeeps ==
    ASSUME LoggerInv, NEW s \in Senders, Posted(s)
    PROVE  LoggerInv'
  BY PostKeeps DEF Posted, Goto

LEMMA PostFailsKeeps ==
    ASSUME LoggerInv, NEW s \in Senders, NEW arrived \in BOOLEAN, PostFails(s, arrived)
    PROVE  LoggerInv'
  BY PostKeeps DEF PostFails, Goto

\* The fallback file is emptied.
LEMMA FileCreatedKeeps ==
    ASSUME LoggerInv, NEW s \in Senders, CreateFile(s), pc'[s] = "write"
    PROVE  LoggerInv'
  <1>1. /\ pc[s] = "create" /\ file' = <<>> /\ pc' = [pc EXCEPT ![s] = "write"]
        /\ UNCHANGED <<buffers, writing, channel, delivered, saved, unsaved, queue, marked>>
    BY DEF CreateFile, Goto, Rest, LoggerInv, TypeOK
  <1>2. Final \in Senders /\ Names \subseteq Senders /\ Final \notin Names
    BY LoggersAreFixed DEF Senders
  <1>3. \A t \in Senders : pc'[t] = IF t = s THEN "write" ELSE pc[t]
    BY <1>1 DEF LoggerInv, TypeOK
  <1>4. UNCHANGED <<holder, marked, accepted, writeBuffer, messageBuffer>>
    BY <1>1 DEF buffers, writing
  <1>5. TypeOK'
    BY <1>1, EmptySeq, LoggersAreFixed DEF LoggerInv, TypeOK, buffers, writing
  <1>6. ControlInv'
    <2>1. s = Final => queue # <<>> /\ channel # "unset"
      BY <1>1 DEF LoggerInv, ControlInv
    <2>2. \A m \in Names : pc'[m] = "sending" => holder'[m] = m
      BY <1>2, <1>3, <1>4 DEF LoggerInv, ControlInv
    <2>3. pc'[Final] = "sending" => holder'[First] = Final
      BY <1>2, <1>3, <1>4 DEF LoggerInv, ControlInv
    <2> QED BY <1>1, <2>1, <2>2, <2>3, SenderControl
  <1>7. FlushedInv'
    <2>1. pc'[Final] = pc[Final] \/ pc[Final] = "create"
      BY <1>1, <1>2, <1>3
    <2> QED BY <1>1, <1>4, <2>1, SenderFlushed
  <1>8. KeptInv'
    BY <1>1, <1>2, <1>3, <1>4, KeptOwn
  <1>9. \A m \in Names : Chain(m)'
    BY <1>1, QuietChains
  <1> QED BY <1>5, <1>6, <1>7, <1>8, <1>9, LoggersAreFixed DEF LoggerInv

\* A function on an initial interval, and what is left of a sequence.
LEMMA SequenceOver ==
    ASSUME NEW S, NEW n \in Nat, NEW t, t = [i \in 1..n |-> t[i]], \A i \in 1..n : t[i] \in S
    PROVE  t \in Seq(S)
  <1>1. [i \in 1..n |-> t[i]] \in Seq(S)
    BY IsASeq
  <1> QED BY <1>1

LEMMA SequenceEnd ==
    ASSUME NEW S, NEW s \in Seq(S), NEW t \in Seq(S)
    PROVE  SubSeq(s, Len(t) + 1, Len(s)) \in Seq(S)
  <1>1. Len(t) + 1 \in Int /\ Len(s) \in Int /\ Len(t) \in Nat /\ Len(s) \in Nat
    BY LenProperties
  <1>2. \A i \in (Len(t) + 1)..Len(s) : s[i] \in S
    BY <1>1, ElementOfSeq
  <1> QED BY <1>1, <1>2, SubSeqProperties

\* A sender has dealt with the file: what it had is accounted for.
LEMMA FiledKeeps ==
    ASSUME LoggerInv, NEW s \in Senders, pc[s] \in {"create", "write"},
           pc' = [pc EXCEPT ![s] = Rest(s)],
           file' \in Seq(Names \X Bytes),
           saved' \subseteq Names \X Bytes, unsaved' \subseteq Names \X Bytes,
           saved \cup unsaved \subseteq saved' \cup unsaved',
           \A b \in Elements(messageBuffer[LoggerOf(s)]) :
               <<LoggerOf(s), b>> \in saved' \cup unsaved',
           UNCHANGED <<buffers, writing, channel, delivered, queue, marked>>
    PROVE  LoggerInv'
  <1> DEFINE l == LoggerOf(s)
             next == Rest(s)
  <1>1. pc[s] \in {"create", "write"} /\ pc' = [pc EXCEPT ![s] = next]
    OBVIOUS
  <1>2. /\ l \in Names
        /\ s # Final => s \in Names /\ l = s /\ next = "asleep"
        /\ s = Final => l = First /\ next = "shutdown" /\ queue # <<>>
    BY <1>1, SenderOf
  <1>3. \A b \in Elements(messageBuffer[l]) : <<l, b>> \in saved' \cup unsaved'
    OBVIOUS
  <1> HIDE DEF l, next
  <1>4. Final \in Senders /\ Names \subseteq Senders /\ Final \notin Names
    BY LoggersAreFixed DEF Senders
  <1>5. \A t \in Senders : pc'[t] = IF t = s THEN next ELSE pc[t]
    BY <1>1 DEF LoggerInv, TypeOK
  <1>6. UNCHANGED <<holder, marked, accepted, writeBuffer, messageBuffer, delivered>>
    BY DEF buffers, writing
  <1>7. TypeOK'
    <2>1. pc' \in [Senders -> {"asleep", "lock", "sending", "create", "write",
                               "running", "flush", "receive", "channel", "shutdown", "over"}]
      BY <1>1, <1>2, <1>4 DEF LoggerInv, TypeOK
    <2>2. UNCHANGED <<writeBuffer, messageBuffer, holder, record, stuck, waiting, logged,
                      accepted, channel, delivered, queue, marked>>
      BY DEF buffers, writing
    <2>3. TypeOK
      BY DEF LoggerInv
    <2>4. /\ file' \in Seq(Names \X Bytes)
          /\ saved' \subseteq Names \X Bytes /\ unsaved' \subseteq Names \X Bytes
      OBVIOUS
    <2> QED BY ONLY <2>1, <2>2, <2>3, <2>4, LoggersAreFixed DEF TypeOK
  <1>8. ControlInv'
    <2>1. s = Final => channel # "unset"
      BY <1>1 DEF LoggerInv, ControlInv
    <2>2. \A m \in Names : pc'[m] = "sending" => holder'[m] = m
      BY <1>2, <1>4, <1>5, <1>6 DEF LoggerInv, ControlInv
    <2>3. pc'[Final] = "sending" => holder'[First] = Final
      BY <1>2, <1>4, <1>5, <1>6 DEF LoggerInv, ControlInv
    <2> QED BY <1>1, <1>2, <2>1, <2>2, <2>3, SenderControl
  <1>9. FlushedInv'
    <2>1. pc'[Final] = pc[Final] \/ pc[Final] \in {"create", "write"}
      BY <1>1, <1>4, <1>5
    <2> QED BY <1>1, <1>6, <2>1, SenderFlushed
  <1>10. KeptInv'
    <2>1. pc'[Final] = "running" => pc[Final] = "running"
      BY <1>2, <1>4, <1>5
    <2>2. ASSUME NEW m \in Names, NEW b \in Elements(writeBuffer[m]) \cup Own(m) \cup Elements(delivered[m])
          PROVE  \/ b \in Elements(writeBuffer'[m]) \cup Own(m)' \cup Elements(delivered'[m])
                 \/ <<m, b>> \in saved' \cup unsaved'
      <3>1. CASE m # s
        <4>1. Own(m) \subseteq Own(m)'
          BY <1>4, <1>5, <1>6, <3>1 DEF Own, Elements
        <4> QED BY <1>6, <4>1
      <3>2. CASE m = s
        <4>1. m = l
          BY <1>2, <1>4, <3>2
        <4>2. \A c \in Own(m) : <<m, c>> \in saved' \cup unsaved'
          BY <1>3, <4>1 DEF Own
        <4> QED BY <1>6, <4>2
      <3> QED BY <3>1, <3>2
    <2> QED BY <1>3, <1>6, <2>1, <2>2, KeptStep
  <1>11. \A m \in Names : Chain(m)'
    BY QuietChains
  <1> QED BY <1>7, <1>8, <1>9, <1>10, <1>11, LoggersAreFixed DEF LoggerInv

\* The text of a message buffer.
LEMMA TextIs ==
    ASSUME TypeOK, NEW l \in Names
    PROVE  /\ TextOf(l) \in Seq(Names \X Bytes)
           /\ Elements(TextOf(l)) = {<<l, b>> : b \in Elements(messageBuffer[l])}
  <1> DEFINE m == messageBuffer[l]
             text == TextOf(l)
  <1>1. m \in Seq(Bytes)
    BY DEF TypeOK
  <1>2. text = [i \in DOMAIN m |-> <<l, m[i]>>]
    BY DEF TextOf
  <1> HIDE DEF m, text
  <1>3. DOMAIN m = 1..Len(m) /\ Len(m) \in Nat /\ \A i \in 1..Len(m) : m[i] \in Bytes
    BY <1>1, LenProperties, ElementOfSeq
  <1>4. \A i \in 1..Len(m) : text[i] = <<l, m[i]>> /\ text[i] \in Names \X Bytes
    BY <1>2, <1>3
  <1>5. text \in Seq(Names \X Bytes)
    BY <1>2, <1>3, <1>4, SequenceOver
  <1>6. Elements(text) = {<<l, b>> : b \in Elements(m)}
    BY <1>2 DEF Elements
  <1> QED BY <1>5, <1>6 DEF m, text

LEMMA ElementsOf ==
    ASSUME NEW S, NEW t \in Seq(S)
    PROVE  Elements(t) \subseteq S
  <1>1. \A i \in DOMAIN t : t[i] \in S
    BY LenProperties, ElementOfSeq
  <1> QED BY <1>1 DEF Elements

\* What is written over the beginning of the file, and what is not.
LEMMA Overwritten ==
    ASSUME NEW S, NEW t \in Seq(S), NEW f \in Seq(S), NEW n \in 0..Len(t)
    PROVE  /\ SubSeq(t, 1, n) \o SubSeq(f, n + 1, Len(f)) \in Seq(S)
           /\ Elements(SubSeq(t, 1, n)) \subseteq S /\ Elements(SubSeq(t, n + 1, Len(t))) \subseteq S
           /\ Elements(t) \subseteq Elements(SubSeq(t, 1, n)) \cup Elements(SubSeq(t, n + 1, Len(t)))
  <1> DEFINE front == SubSeq(t, 1, n)
             rest == SubSeq(t, n + 1, Len(t))
  <1>1. /\ front \in Seq(S) /\ rest \in Seq(S) /\ Len(front) = n
        /\ DOMAIN front = 1..n /\ DOMAIN rest = 1..(Len(t) - n)
        /\ \A i \in 1..n : front[i] = t[i]
        /\ \A i \in 1..(Len(t) - n) : rest[i] = t[n + i]
    BY Cut
  <1> HIDE DEF front, rest
  <1>2. SubSeq(f, n + 1, Len(f)) \in Seq(S)
    BY <1>1, SequenceEnd
  <1>3. front \o SubSeq(f, n + 1, Len(f)) \in Seq(S)
    BY <1>1, <1>2, ConcatProperties
  <1>4. ASSUME NEW i \in DOMAIN t PROVE t[i] \in Elements(front) \cup Elements(rest)
    <2>1. DOMAIN t = 1..Len(t) /\ Len(t) \in Nat /\ n \in Nat
      BY LenProperties
    <2>2. CASE i <= n
      <3>1. i \in 1..n
        BY <2>1, <2>2
      <3> QED BY <1>1, <3>1 DEF Elements
    <2>3. CASE ~(i <= n)
      <3>1. i - n \in 1..(Len(t) - n) /\ n + (i - n) = i
        BY <2>1, <2>3
      <3>2. i - n \in DOMAIN rest /\ rest[i - n] = t[i]
        BY <1>1, <3>1
      <3> QED BY <3>2 DEF Elements
    <2> QED BY <2>2, <2>3
  <1>5. Elements(t) \subseteq Elements(front) \cup Elements(rest)
    BY <1>4 DEF Elements
  <1> QED BY <1>1, <1>3, <1>5, ElementsOf DEF front, rest

\* The file is emptied, or that fails.
LEMMA CreateFileKeeps ==
    ASSUME LoggerInv, NEW s \in Senders, CreateFile(s)
    PROVE  LoggerInv'
  <1> DEFINE l == LoggerOf(s)
  <1>1. CASE pc'[s] = "write"
    BY <1>1, FileCreatedKeeps
  <1>2. CASE pc'[s] # "write"
    <2>1. /\ pc[s] = "create" /\ pc' = [pc EXCEPT ![s] = Rest(s)]
          /\ unsaved' = unsaved \cup Elements(TextOf(l))
          /\ UNCHANGED <<buffers, writing, channel, delivered, file, saved, queue, marked>>
      BY <1>2 DEF CreateFile, Goto, LoggerInv, TypeOK
    <2>2. l \in Names
      BY <2>1, SenderOf
    <2>3. /\ TextOf(l) \in Seq(Names \X Bytes)
          /\ Elements(TextOf(l)) = {<<l, b>> : b \in Elements(messageBuffer[l])}
      BY <2>2, TextIs DEF LoggerInv
    <2>4. Elements(TextOf(l)) \subseteq Names \X Bytes
      BY <2>3, ElementsOf
    <2>5. /\ file' \in Seq(Names \X Bytes)
          /\ saved' \subseteq Names \X Bytes /\ unsaved' \subseteq Names \X Bytes
      BY <2>1, <2>4 DEF LoggerInv, TypeOK
    <2> QED BY <2>1, <2>3, <2>5, FiledKeeps
  <1> QED BY <1>1, <1>2

\* The message buffer is written to it, as far as that goes.
LEMMA WriteFileKeeps ==
    ASSUME LoggerInv, NEW s \in Senders, WriteFile(s)
    PROVE  LoggerInv'
  <1> DEFINE l == LoggerOf(s)
             text == TextOf(l)
  <1>1. PICK n \in 0..Len(text) :
            /\ pc[s] = "write" /\ pc' = [pc EXCEPT ![s] = Rest(s)]
            /\ file' = SubSeq(text, 1, n) \o SubSeq(file, n + 1, Len(file))
            /\ saved' = saved \cup Elements(SubSeq(text, 1, n))
            /\ unsaved' = unsaved \cup Elements(SubSeq(text, n + 1, Len(text)))
            /\ UNCHANGED <<buffers, writing, channel, delivered, queue, marked>>
    BY DEF WriteFile, Written, Goto
  <1>2. l \in Names
    BY <1>1, SenderOf
  <1>3. /\ text \in Seq(Names \X Bytes)
        /\ Elements(text) = {<<l, b>> : b \in Elements(messageBuffer[l])}
    BY <1>2, TextIs DEF LoggerInv
  <1>4. file \in Seq(Names \X Bytes) /\ saved \subseteq Names \X Bytes /\ unsaved \subseteq Names \X Bytes
    BY DEF LoggerInv, TypeOK
  <1> HIDE DEF text
  <1>5. /\ SubSeq(text, 1, n) \o SubSeq(file, n + 1, Len(file)) \in Seq(Names \X Bytes)
        /\ Elements(SubSeq(text, 1, n)) \subseteq Names \X Bytes
        /\ Elements(SubSeq(text, n + 1, Len(text))) \subseteq Names \X Bytes
        /\ Elements(text) \subseteq Elements(SubSeq(text, 1, n)) \cup Elements(SubSeq(text, n + 1, Len(text)))
    BY <1>3, <1>4, Overwritten
  <1>6. /\ file' \in Seq(Names \X Bytes)
        /\ saved' \subseteq Names \X Bytes /\ unsaved' \subseteq Names \X Bytes
        /\ saved \cup unsaved \subseteq saved' \cup unsaved'
        /\ Elements(text) \subseteq saved' \cup unsaved'
    BY <1>1, <1>4, <1>5
  <1> QED BY <1>1, <1>3, <1>6, FiledKeeps
-----------------------------------------------------------------------------
(***************************************************************************)
(* The termination.                                                        *)
(***************************************************************************)

\* on_terminate begins; what was taken by then is to be sent.
LEMMA TerminateKeeps ==
    ASSUME LoggerInv, Terminate
    PROVE  LoggerInv'
  <1>1. /\ pc[Final] = "running" /\ pc' = [pc EXCEPT ![Final] = "flush"]
        /\ marked' = [l \in Names |-> Len(accepted[l])]
        /\ UNCHANGED <<buffers, writing, channel, sent, queue>>
    BY DEF Terminate, Goto
  <1>2. Final \in Senders /\ Names \subseteq Senders /\ Final \notin Names
    BY LoggersAreFixed DEF Senders
  <1>3. \A t \in Senders : pc'[t] = IF t = Final THEN "flush" ELSE pc[t]
    BY <1>1, <1>2 DEF LoggerInv, TypeOK
  <1>4. UNCHANGED <<holder, queue, channel, accepted, writeBuffer, messageBuffer, delivered, saved, unsaved>>
    BY <1>1 DEF buffers, writing, sent
  <1>5. \A l \in Names : Len(accepted[l]) \in Nat
    BY LenProperties DEF LoggerInv, TypeOK
  <1>6. TypeOK'
    BY <1>1, <1>2, <1>5, LoggersAreFixed DEF LoggerInv, TypeOK, buffers, writing, sent
  <1>7. ControlInv'
    <2>1. queue = <<>> /\ Len(queue) = 0
      BY <1>1, EmptySeq DEF LoggerInv, ControlInv
    <2> QED BY <1>2, <1>3, <1>4, <2>1, LoggersAreFixed DEF LoggerInv, ControlInv
  <1>8. FlushedInv'
    BY <1>1, <1>2, <1>3, <1>4, <1>5, LoggersAreFixed DEF FlushedInv
  <1>9. KeptInv'
    BY <1>2, <1>3, <1>4, KeptOwn
  <1>10. \A m \in Names : Chain(m)'
    BY <1>1, QuietChains DEF sent
  <1> QED BY <1>6, <1>7, <1>8, <1>9, <1>10, LoggersAreFixed DEF LoggerInv

\* Each logger in turn is flushed, beginning with the first.
LEMMA FlushKeeps ==
    ASSUME LoggerInv, Flush
    PROVE  LoggerInv'
  <1> DEFINE l == Loggers[Len(queue) + 1]
  <1>1. PICK next \in {"flush", "receive"} :
            /\ pc[Final] = "flush" /\ pc' = [pc EXCEPT ![Final] = next]
            /\ queue' = Append(queue, l)
            /\ next = "flush" => Len(queue) + 1 # Len(Loggers)
            /\ UNCHANGED <<buffers, writing, channel, sent, marked>>
    BY DEF Flush, Goto
  <1>2. Final \in Senders /\ Names \subseteq Senders /\ Final \notin Names
    BY LoggersAreFixed DEF Senders
  <1>3. \A t \in Senders : pc'[t] = IF t = Final THEN next ELSE pc[t]
    BY <1>1, <1>2 DEF LoggerInv, TypeOK
  <1>4. UNCHANGED <<holder, channel, marked, accepted, writeBuffer, messageBuffer, delivered, saved, unsaved>>
    BY <1>1 DEF buffers, writing, sent
  <1>5. /\ queue \in Seq(Names) /\ Len(queue) \in Nat /\ Len(queue) < Len(Loggers)
        /\ l \in Names
    <2>1. queue \in Seq(Names) /\ Len(queue) \in Nat /\ Len(queue) < Len(Loggers)
      BY <1>1, LenProperties DEF LoggerInv, TypeOK, ControlInv
    <2>2. Len(queue) + 1 \in 1..Len(Loggers)
      BY <2>1, LoggersAreFixed
    <2> QED BY <2>1, <2>2, LoggersAreFixed
  <1>6. queue = <<>> => l = First
    BY EmptySeq DEF First
  <1> HIDE DEF l
  <1>7. /\ queue' \in Seq(Names) /\ queue' # <<>> /\ Len(queue') = Len(queue) + 1
        /\ Head(queue') = IF queue = <<>> THEN l ELSE Head(queue)
    BY <1>1, <1>5, AppendProperties, HeadTailAppend
  <1>8. TypeOK'
    BY <1>1, <1>2, <1>7, LoggersAreFixed DEF LoggerInv, TypeOK, buffers, writing, sent
  <1>9. ControlInv'
    <2>1. Head(queue') = First
      BY <1>6, <1>7 DEF LoggerInv, ControlInv
    <2>2. next = "flush" => Len(queue') < Len(Loggers)
      BY <1>1, <1>5, <1>7, LoggersAreFixed
    <2> QED BY <1>1, <1>2, <1>3, <1>4, <1>7, <2>1, <2>2, LoggersAreFixed DEF LoggerInv, ControlInv
  <1>10. FlushedInv'
    BY <1>1, <1>2, <1>3, <1>4, LoggersAreFixed DEF LoggerInv, FlushedInv
  <1>11. KeptInv'
    BY <1>1, <1>2, <1>3, <1>4, KeptOwn
  <1>12. \A m \in Names : Chain(m)'
    BY <1>1, QuietChains DEF sent
  <1> QED BY <1>8, <1>9, <1>10, <1>11, <1>12, LoggersAreFixed DEF LoggerInv

\* on_terminate goes on without a buffer in its hands; it has drained the first
\* logger once it is past that, if there is a channel.
LEMMA FinalKeeps ==
    ASSUME LoggerInv, NEW next, pc' = [pc EXCEPT ![Final] = next],
           UNCHANGED <<buffers, writing, sent, queue, marked>>,
           pc[Final] \in {"receive", "channel", "shutdown"},
           next \in {"channel", "lock", "create", "over"},
           channel' \in {"unset", "dm", "none"},
           channel' = "unset" => channel = "unset" /\ next = "channel",
           next = "over" => pc[Final] = "shutdown" /\ channel' = channel,
           next = "create" => channel' # "dm"
    PROVE  LoggerInv'
  <1>1. Final \in Senders /\ Names \subseteq Senders /\ Final \notin Names
    BY LoggersAreFixed DEF Senders
  <1>2. \A t \in Senders : pc'[t] = IF t = Final THEN next ELSE pc[t]
    BY <1>1 DEF LoggerInv, TypeOK
  <1>3. UNCHANGED <<holder, accepted, writeBuffer, messageBuffer, delivered, saved, unsaved>>
    BY DEF buffers, writing, sent
  <1>4. TypeOK'
    BY <1>1, LoggersAreFixed DEF LoggerInv, TypeOK, buffers, writing, sent
  <1>5. ControlInv'
    BY <1>1, <1>2, <1>3, LoggersAreFixed DEF LoggerInv, ControlInv
  <1>6. FlushedInv'
    BY <1>1, <1>2, <1>3, LoggersAreFixed DEF LoggerInv, FlushedInv
  <1>7. KeptInv'
    BY <1>1, <1>2, <1>3, KeptOwn
  <1>8. \A m \in Names : Chain(m)'
    BY QuietChains DEF sent
  <1> QED BY <1>4, <1>5, <1>6, <1>7, <1>8, LoggersAreFixed DEF LoggerInv

LEMMA EndKeeps ==
    ASSUME LoggerInv, End
    PROVE  LoggerInv'
  <1>1. channel \in {"unset", "dm", "none"}
    BY DEF LoggerInv, TypeOK
  <1>2. CASE Receive
    BY <1>1, <1>2, FinalKeeps DEF Receive, Begin, Goto
  <1>3. CASE LookForChannel
    BY <1>1, <1>3, FinalKeeps DEF LookForChannel, SetChannel, Goto
  <1>4. CASE Shutdown
    <2>1. channel # "unset"
      BY <1>4 DEF Shutdown, LoggerInv, ControlInv
    <2> QED BY <1>1, <1>4, <2>1, FinalKeeps DEF Shutdown, Goto
  <1> QED BY <1>2, <1>3, <1>4, FlushKeeps DEF End
-----------------------------------------------------------------------------
(***************************************************************************)
(* The theorems.                                                           *)
(***************************************************************************)
LEMMA LoggerStep == LoggerInv /\ [Next]_vars => LoggerInv'
  <1> SUFFICES ASSUME LoggerInv, [Next]_vars PROVE LoggerInv'
    OBVIOUS
  <1>1. CASE UNCHANGED vars
    <2>1. UNCHANGED <<writeBuffer, messageBuffer, holder, record, stuck, waiting, logged, accepted,
                      channel, delivered, file, saved, unsaved, pc, queue, marked>>
      BY <1>1 DEF vars, buffers, writing, sent
    <2>2. TypeOK' /\ ControlInv' /\ FlushedInv' /\ KeptInv'
      BY <2>1, LoggersAreFixed DEF LoggerInv, TypeOK, ControlInv, FlushedInv, KeptInv, Own
    <2>3. \A m \in Names : Chain(m)'
      BY <2>1, SameChain DEF LoggerInv
    <2> QED BY <2>2, <2>3, LoggersAreFixed DEF LoggerInv
  <1>2. ASSUME NEW l \in Names, NEW r \in Records[l], Log(l, r) PROVE LoggerInv'
    BY <1>2, LogKeeps
  <1>3. ASSUME NEW l \in Names, Running, Write(l) \/ Wait(l) PROVE LoggerInv'
    BY <1>3, WriteKeeps, StuckKeeps, WaitKeeps
  <1>4. ASSUME NEW l \in Names, Wake(l) PROVE LoggerInv'
    BY <1>4, WakeKeeps
  <1>5. ASSUME NEW s \in Senders, Send(s) PROVE LoggerInv'
    BY <1>5, NothingToSendKeeps, DrainKeeps, PostedKeeps, PostFailsKeeps, CreateFileKeeps,
       WriteFileKeeps DEF Send
  <1> QED BY <1>1, <1>2, <1>3, <1>4, <1>5, CacheReadyKeeps, TerminateKeeps, EndKeeps DEF Next

LEMMA LoggerAlways == Spec => []LoggerInv
  BY LoggerInit, LoggerStep, PTL DEF Spec

\* The types of buffers, senders and files; a write buffer never exceeds its size.
THEOREM LoggerTypeCorrect == Spec => []TypeOK
  <1>1. LoggerInv => TypeOK
    BY DEF LoggerInv
  <1> QED BY <1>1, LoggerAlways, PTL

\* The owner gets every byte at most once and in the order in which it was
\* logged, with two senders of the same buffers and with messages that arrive
\* although their call failed.
THEOREM AlwaysDeliveredInOrder == Spec => []DeliveredInOrder
  <1>1. LoggerInv => DeliveredInOrder
    BY DEF LoggerInv, Chain, Ordered, DeliveredInOrder
  <1> QED BY <1>1, LoggerAlways, PTL

\* Whatever else fails, a byte that write took is in a buffer, on Discord, or was
\* in the file, or the file failed when it was to go there, unless on_terminate
\* sends the same logger's buffers.
THEOREM OnlyTheFileEverLoses == Spec => []OnlyTheFileLoses
  <1>1. ASSUME LoggerInv, NEW l \in Names PROVE Own(l) \subseteq Pending(l)
    BY <1>1, LoggersAreFixed DEF Own, Pending, LoggerOf
  <1>2. LoggerInv => OnlyTheFileLoses
    BY <1>1 DEF LoggerInv, KeptInv, OnlyTheFileLoses
  <1> QED BY <1>2, LoggerAlways, PTL

\* When the bot has ended, nothing that the first logger had taken by the
\* beginning of the termination is left in its write buffer.
THEOREM FirstIsAlwaysFlushed == Spec => []FirstIsFlushed
  <1>1. ASSUME LoggerInv, pc[Final] = "over", channel = "dm"
        PROVE  Elements(SubSeq(accepted[First], 1, marked[First])) \cap Elements(writeBuffer[First]) = {}
    <2> DEFINE n == marked[First]
               taken == SubSeq(accepted[First], 1, n)
    <2>1. /\ accepted[First] \in Seq(Bytes) /\ writeBuffer[First] \in Seq(Bytes)
          /\ n \in Nat /\ n <= Len(accepted[First])
      BY <1>1, LoggersAreFixed DEF LoggerInv, TypeOK, FlushedInv
    <2>2. n \in 0..Len(accepted[First])
      BY <2>1, LenProperties
    <2>3. DOMAIN taken = 1..n /\ \A i \in 1..n : taken[i] = accepted[First][i]
      BY <2>1, <2>2, CutBytes
    <2>4. \A i \in 1..n, j \in DOMAIN writeBuffer[First] : Before(accepted[First][i], writeBuffer[First][j])
      BY <1>1 DEF LoggerInv, FlushedInv
    <2>5. \A j \in DOMAIN writeBuffer[First] : writeBuffer[First][j] \in Bytes
      BY <2>1, LenProperties, ElementOfSeq
    <2>6. \A b \in Bytes : ~Before(b, b)
      BY DEF Before, Bytes
    <2> HIDE DEF n, taken
    <2>7. Elements(taken) \cap Elements(writeBuffer[First]) = {}
      BY <2>3, <2>4, <2>5, <2>6 DEF Elements
    <2> QED BY <2>7 DEF n, taken
  <1>2. LoggerInv => FirstIsFlushed
    BY <1>1 DEF FirstIsFlushed
  <1> QED BY <1>2, LoggerAlways, PTL
=============================================================================
