--------------------------- MODULE MessageHandlersProofs ---------------------------
(***************************************************************************)
(* Proofs about MessageHandlers: its types, that the cache of enabled      *)
(* guilds follows its table, that conversions are only made where they are *)
(* enabled, and that banned images, and only those, are punished.          *)
(***************************************************************************)
EXTENDS MessageHandlers, SequenceTheorems, FoldLemmas, TLAPS

\* The steps of a message's handlers, the last ones before an answer that never
\* comes among them.
FilterOf(m) == Filter(m) \/ (NoAnswer(m) /\ UNCHANGED vocarooVars)
ConversionOf(m) == Conversion(m) \/ (Silence(m) /\ UNCHANGED filterVars)

\* Where all steps come from.
LEMMA NextSteps ==
    ASSUME [Next]_vars
    PROVE  \/ \E m \in Messages : Message(m) \/ FilterOf(m) \/ ConversionOf(m)
           \/ Command
           \/ (\E m \in Messages : Withdraw(m)) /\ UNCHANGED <<filterVars, vocarooVars>>
           \/ UNCHANGED vars
  BY DEF Next, FilterOf, ConversionOf, Lost

\* Where the steps of the conversion come from.
LEMMA ConvertSteps ==
    ASSUME NEW m \in Messages, ConversionOf(m)
    PROVE  /\ \/ LookUp(m) \/ Answer(m) \/ Silence(m)
              \/ \E i \in DOMAIN conv[m].recordings : HeadAnswer(m, i) \/ GetAnswer(m, i)
           /\ UNCHANGED filterVars
  BY DEF ConversionOf, Conversion, Convert
-----------------------------------------------------------------------------
(***************************************************************************)
(* The conversion of Vocaroo links.                                        *)
(***************************************************************************)

\* What a message's conversion may become.
ConvStates ==
    [pc : {"unsent", "lock", "download", "stuck", "done"}, recordings : Seq(Stages), total : Nat]

\* The initial state of the conversion is well-typed.
LEMMA VocarooInitType == Init => VocarooTypeOK
  <1> SUFFICES ASSUME Init PROVE VocarooTypeOK
    OBVIOUS
  <1>1. NoConv \in ConvStates /\ [NoConv EXCEPT !.pc = "done"] \in ConvStates
    BY EmptySeq DEF NoConv, ConvStates
  <1>2. conv \in [Messages -> ConvStates]
    BY <1>1 DEF Init, VocarooInit
  <1>3. \A m \in Messages : conv[m].recordings = <<>>
    BY DEF Init, VocarooInit, NoConv
  <1> QED BY <1>2, <1>3 DEF Init, VocarooInit, VocarooTypeOK, ConvStates, NoReady

\* The conversion does not go on: nothing of it is kept.
LEMMA ConvEnds ==
    ASSUME VocarooTypeOK, NEW m \in Messages, NEW pc \in {"stuck", "done"},
           conv' = [conv EXCEPT ![m] = [NoConv EXCEPT !.pc = pc]],
           UNCHANGED <<cache, table, ready, doubtful, locked>>, converted' \subseteq Messages
    PROVE  VocarooTypeOK'
  <1>1. [NoConv EXCEPT !.pc = pc] \in ConvStates /\ NoConv.recordings = <<>>
    BY EmptySeq DEF NoConv, ConvStates
  <1>2. conv' \in [Messages -> ConvStates]
    BY <1>1 DEF VocarooTypeOK, ConvStates
  <1>3. \A n \in Messages : Len(conv'[n].recordings) \in {0, Len(RecordingsOf[n])}
    BY <1>1 DEF VocarooTypeOK, NoConv
  <1> QED BY <1>2, <1>3 DEF VocarooTypeOK, ConvStates

\* A recording's stage changes, and perhaps the sum.
LEMMA StageType ==
    ASSUME VocarooTypeOK, NEW m \in Messages, NEW i \in DOMAIN conv[m].recordings,
           NEW stage \in Stages, NEW total \in Nat,
           conv' = [conv EXCEPT ![m].total = total, ![m].recordings[i] = stage],
           UNCHANGED <<cache, table, ready, doubtful, locked, converted>>
    PROVE  VocarooTypeOK'
  <1> DEFINE new == [conv[m].recordings EXCEPT ![i] = stage]
  <1>1. new \in Seq(Stages) /\ Len(new) = Len(conv[m].recordings)
    BY ExceptSeq DEF VocarooTypeOK
  <1>2. conv' = [conv EXCEPT ![m] = [conv[m] EXCEPT !.total = total, !.recordings = new]]
    BY DEF VocarooTypeOK
  <1>3. [conv[m] EXCEPT !.total = total, !.recordings = new] \in ConvStates
    <2>1. conv[m] \in ConvStates
      BY DEF VocarooTypeOK, ConvStates
    <2> HIDE DEF new
    <2> QED BY <1>1, <2>1 DEF ConvStates
  <1>4. conv' \in [Messages -> ConvStates]
    BY <1>2, <1>3 DEF VocarooTypeOK, ConvStates
  <1>5. \A n \in Messages : Len(conv'[n].recordings) \in {0, Len(RecordingsOf[n])}
    BY <1>1, <1>2 DEF VocarooTypeOK
  <1> QED BY <1>4, <1>5 DEF VocarooTypeOK, ConvStates

\* A message's handlers change the conversion of that message only.
LEMMA OtherConversions ==
    ASSUME VocarooTypeOK, NEW m \in Messages, ConversionOf(m)
    PROVE  \A n \in Messages \ {m} : conv'[n] = conv[n]
  BY ConvertSteps DEF LookUp, Answer, Silence, HeadAnswer, GetAnswer, VocarooTypeOK

\* A conversion's step keeps the types.
LEMMA ConversionType ==
    ASSUME VocarooTypeOK, NEW m \in Messages, ConversionOf(m)
    PROVE  VocarooTypeOK'
  <1>1. CASE LookUp(m)
    <2>1. CASE cache # NoCache /\ GuildOf[m] \in cache
      <3> DEFINE heads == [i \in DOMAIN RecordingsOf[m] |-> "head"]
      <3>1. RecordingsOf[m] \in Seq(Nat)
        BY VocarooAssumption
      <3>2. heads \in Seq(Stages) /\ Len(heads) = Len(RecordingsOf[m])
        BY <3>1 DEF Stages
      <3>3. conv' = [conv EXCEPT ![m] = [pc |-> "download", recordings |-> heads, total |-> 0]]
        BY <1>1, <2>1 DEF LookUp
      <3>4. conv' \in [Messages -> ConvStates]
        BY <3>2, <3>3 DEF VocarooTypeOK, ConvStates
      <3>5. \A n \in Messages : Len(conv'[n].recordings) \in {0, Len(RecordingsOf[n])}
        BY <3>2, <3>3 DEF VocarooTypeOK
      <3> QED BY <1>1, <3>4, <3>5 DEF LookUp, VocarooTypeOK, ConvStates
    <2>2. CASE ~(cache # NoCache /\ GuildOf[m] \in cache)
      BY <1>1, <2>2, ConvEnds DEF LookUp, VocarooTypeOK
    <2> QED BY <2>1, <2>2
  <1>2. CASE Answer(m)
    <2>1. converted' \subseteq Messages
      BY <1>2 DEF Answer, VocarooTypeOK
    <2> QED BY <1>2, <2>1, ConvEnds DEF Answer
  <1>3. ASSUME NEW i \in DOMAIN conv[m].recordings, HeadAnswer(m, i) PROVE VocarooTypeOK'
    <2>1. i \in DOMAIN RecordingsOf[m] /\ RecordingsOf[m] \in Seq(Nat)
      BY VocarooAssumption DEF VocarooTypeOK
    <2>2. conv[m].total \in Nat /\ conv[m].total + RecordingsOf[m][i] \in Nat
      BY <2>1 DEF VocarooTypeOK
    <2>3. CASE conv' = [conv EXCEPT ![m].recordings[i] = "error"]
      <3>1. conv' = [conv EXCEPT ![m].total = conv[m].total, ![m].recordings[i] = "error"]
        BY <2>3 DEF VocarooTypeOK
      <3> QED BY <1>3, <2>2, <3>1, StageType DEF HeadAnswer, Stages
    <2>4. CASE conv' # [conv EXCEPT ![m].recordings[i] = "error"]
      BY <1>3, <2>2, <2>4, StageType DEF HeadAnswer, Stages
    <2> QED BY <2>3, <2>4
  <1>4. ASSUME NEW i \in DOMAIN conv[m].recordings, GetAnswer(m, i) PROVE VocarooTypeOK'
    <2>1. PICK stage \in {"ok", "error"} : conv' = [conv EXCEPT ![m].recordings[i] = stage]
      BY <1>4 DEF GetAnswer
    <2>2. conv' = [conv EXCEPT ![m].total = conv[m].total, ![m].recordings[i] = stage]
      BY <2>1 DEF VocarooTypeOK
    <2>3. conv[m].total \in Nat /\ stage \in Stages
      BY DEF VocarooTypeOK, Stages
    <2> QED BY <1>4, <2>2, <2>3, StageType DEF GetAnswer
  <1>5. CASE Silence(m)
    BY <1>5, ConvEnds DEF Silence, VocarooTypeOK
  <1> QED BY <1>1, <1>2, <1>3, <1>4, <1>5, ConvertSteps

\* A statement adds its guild to what has changed since a copy was made.
LEMMA StoreType ==
    ASSUME VocarooTypeOK, NEW g \in Servers, NEW new, Store(g, new)
    PROVE  /\ ready' \in [Readies -> [copy : {NoCache} \cup SUBSET Servers, changed : SUBSET Servers]]
           /\ \A r \in Readies :
                 /\ ready'[r].copy = ready[r].copy
                 /\ ready[r].changed \subseteq ready'[r].changed
                 /\ ready[r] = NoReady => ready'[r] = NoReady
                 /\ table' # table /\ ready[r] # NoReady => g \in ready'[r].changed
  <1>1. CASE UNCHANGED <<table, ready>>
    BY <1>1 DEF VocarooTypeOK
  <1>2. CASE ready' = [r \in Readies |-> IF ready[r] = NoReady THEN NoReady
                                         ELSE [ready[r] EXCEPT !.changed = @ \cup {g}]]
    <2>1. ASSUME NEW r \in Readies
          PROVE  /\ ready'[r] \in [copy : {NoCache} \cup SUBSET Servers, changed : SUBSET Servers]
                 /\ ready'[r].copy = ready[r].copy
                 /\ ready[r].changed \subseteq ready'[r].changed
                 /\ ready[r] = NoReady => ready'[r] = NoReady
                 /\ ready[r] # NoReady => g \in ready'[r].changed
      <3>1. ready[r] \in [copy : {NoCache} \cup SUBSET Servers, changed : SUBSET Servers]
        BY DEF VocarooTypeOK
      <3>2. CASE ready[r] = NoReady
        BY <1>2, <3>1, <3>2
      <3>3. CASE ready[r] # NoReady
        <4>1. ready'[r] = [ready[r] EXCEPT !.changed = @ \cup {g}]
          BY <1>2, <3>3
        <4> QED BY <3>1, <3>3, <4>1
      <3> QED BY <3>2, <3>3
    <2> QED BY <1>2, <2>1
  <1> QED BY <1>1, <1>2 DEF Store

\* Every step of the system keeps them.
LEMMA VocarooStepType == VocarooTypeOK /\ [Next]_vars => VocarooTypeOK'
  <1> SUFFICES ASSUME VocarooTypeOK, [Next]_vars PROVE VocarooTypeOK'
    OBVIOUS
  <1>1. ASSUME NEW m \in Messages, Message(m) PROVE VocarooTypeOK'
    <2> DEFINE next == IF m \in Links THEN "lock" ELSE "done"
    <2>1. conv' = [conv EXCEPT ![m].pc = next]
      BY <1>1 DEF Message, ReceiveLinks
    <2>2. conv' \in [Messages -> ConvStates]
      BY <2>1 DEF VocarooTypeOK, ConvStates
    <2>3. \A n \in Messages : Len(conv'[n].recordings) \in {0, Len(RecordingsOf[n])}
      BY <2>1 DEF VocarooTypeOK
    <2> QED BY <1>1, <2>2, <2>3 DEF Message, ReceiveLinks, VocarooTypeOK, ConvStates
  <1>2. ASSUME NEW m \in Messages, FilterOf(m) PROVE VocarooTypeOK'
    BY <1>2 DEF FilterOf, Filter, vocarooVars, VocarooTypeOK
  <1>3. ASSUME NEW m \in Messages, ConversionOf(m) PROVE VocarooTypeOK'
    BY <1>3, ConversionType
  <1>4. CASE Command
    <2>1. ASSUME NEW r \in Readies, ReadTable(r) PROVE VocarooTypeOK'
      BY <2>1 DEF ReadTable, VocarooTypeOK
    <2>2. ASSUME NEW r \in Readies, StoreCache(r) PROVE VocarooTypeOK'
      BY <2>2 DEF StoreCache, VocarooTypeOK, NoReady
    <2>3. ASSUME NEW g \in Servers, Enable(g) \/ Disable(g) PROVE VocarooTypeOK'
      <3>1. ready' \in [Readies -> [copy : {NoCache} \cup SUBSET Servers, changed : SUBSET Servers]]
        BY <2>3, StoreType DEF Enable, Disable
      <3> QED BY <2>3, <3>1 DEF Enable, Disable, Store, VocarooTypeOK
    <2>4. CASE Hang
      BY <2>4 DEF Hang, VocarooTypeOK
    <2>5. CASE UNCHANGED vocarooVars
      BY <2>5 DEF vocarooVars, VocarooTypeOK
    <2> QED BY <1>4, <2>1, <2>2, <2>3, <2>4, <2>5 DEF Command, VocarooCommand
  <1>5. CASE UNCHANGED vocarooVars
    BY <1>5 DEF vocarooVars, VocarooTypeOK
  <1> QED BY <1>1, <1>2, <1>3, <1>4, <1>5, NextSteps DEF vars
-----------------------------------------------------------------------------
\* A copy that ready has made differs from the table only in what has changed.
CopyFollowsTable ==
    \A r \in Readies : ready[r] # NoReady =>
        (ready[r].copy \ table) \cup (table \ ready[r].copy) \subseteq ready[r].changed

\* The guild of a message keeps its setting for as long as the message is converted.
Downloads ==
    \A m \in Messages : conv[m].pc = "download" => cache # NoCache /\ GuildOf[m] \in cache

VocarooInv == VocarooTypeOK /\ CacheFollowsTable /\ CopyFollowsTable /\ Downloads

\* The cache starts without an answer, and nothing is converted.
LEMMA VocarooInitInv == Init => VocarooInv
  BY VocarooInitType DEF Init, VocarooInit, VocarooInv, CacheFollowsTable, CopyFollowsTable,
                         Downloads, NoConv

\* A command changes cache and table alike or marks the guild as doubtful, and
\* waits until nobody reads.
LEMMA StoreKeeps ==
    ASSUME VocarooInv, NEW g \in Servers, Enable(g) \/ Disable(g)
    PROVE  CacheFollowsTable' /\ CopyFollowsTable' /\ Downloads'
  <1>1. cache # NoCache /\ cache' = (IF Enable(g) THEN cache \cup {g} ELSE cache \ {g})
    BY DEF Enable, Disable
  <1>2. \/ /\ table' = (IF Enable(g) THEN table \cup {g} ELSE table \ {g})
           /\ doubtful' = doubtful \ {g}
        \/ doubtful' = doubtful \cup {g} /\ UNCHANGED <<table, ready>>
    BY DEF Enable, Disable, Store
  <1>3. CacheFollowsTable'
    BY <1>1, <1>2 DEF VocarooInv, CacheFollowsTable
  <1>4. CopyFollowsTable'
    <2>1. PICK new : Store(g, new)
      BY DEF Enable, Disable
    <2>2. \A r \in Readies :
              /\ ready'[r].copy = ready[r].copy
              /\ ready[r].changed \subseteq ready'[r].changed
              /\ ready[r] = NoReady => ready'[r] = NoReady
              /\ table' # table /\ ready[r] # NoReady => g \in ready'[r].changed
      BY <2>1, StoreType DEF VocarooInv
    <2>3. table' = table \/ table' = table \cup {g} \/ table' = table \ {g}
      BY <1>2
    <2> QED BY <2>2, <2>3 DEF VocarooInv, CopyFollowsTable
  <1>5. Downloads'
    BY DEF Enable, Disable, Free, Readers, Downloads
  <1> QED BY <1>3, <1>4, <1>5

\* Every step keeps the invariant.
LEMMA VocarooStep == VocarooInv /\ [Next]_vars => VocarooInv'
  <1> SUFFICES ASSUME VocarooInv, [Next]_vars
               PROVE  CacheFollowsTable' /\ CopyFollowsTable' /\ Downloads'
    BY VocarooStepType DEF VocarooInv
  <1>1. ASSUME NEW m \in Messages, Message(m)
        PROVE  CacheFollowsTable' /\ CopyFollowsTable' /\ Downloads'
    <2>1. UNCHANGED <<cache, table, ready, doubtful>>
      BY <1>1 DEF Message, ReceiveLinks
    <2>2. \A n \in Messages : conv'[n].pc = "download" => conv[n].pc = "download"
      BY <1>1 DEF Message, ReceiveLinks, VocarooInv, VocarooTypeOK
    <2> QED BY <2>1, <2>2 DEF VocarooInv, CacheFollowsTable, CopyFollowsTable, Downloads
  <1>2. ASSUME NEW m \in Messages, ConversionOf(m)
        PROVE  CacheFollowsTable' /\ CopyFollowsTable' /\ Downloads'
    <2>1. UNCHANGED <<cache, table, ready, doubtful>>
      BY <1>2, ConvertSteps DEF LookUp, Answer, Silence, HeadAnswer, GetAnswer
    <2>2. \A n \in Messages : conv'[n].pc = "download" =>
                conv[n].pc = "download" \/ (n = m /\ cache # NoCache /\ GuildOf[m] \in cache)
      <3>1. \A n \in Messages \ {m} : conv'[n] = conv[n]
        BY <1>2, OtherConversions DEF VocarooInv
      <3>2. conv'[m].pc = "download" =>
                conv[m].pc = "download" \/ (cache # NoCache /\ GuildOf[m] \in cache)
        <4>1. CASE LookUp(m)
          BY <4>1 DEF LookUp, NoConv, VocarooInv, VocarooTypeOK
        <4>2. CASE ~LookUp(m)
          BY <1>2, <4>2, ConvertSteps DEF Answer, Silence, NoConv, HeadAnswer, GetAnswer, VocarooInv, VocarooTypeOK
        <4> QED BY <4>1, <4>2
      <3> QED BY <3>1, <3>2
    <2> QED BY <2>1, <2>2 DEF VocarooInv, CacheFollowsTable, CopyFollowsTable, Downloads
  <1>3. ASSUME NEW r \in Readies, ReadTable(r)
        PROVE  CacheFollowsTable' /\ CopyFollowsTable' /\ Downloads'
    BY <1>3 DEF ReadTable, VocarooInv, VocarooTypeOK, CacheFollowsTable, CopyFollowsTable, Downloads
  <1>4. ASSUME NEW r \in Readies, StoreCache(r)
        PROVE  CacheFollowsTable' /\ CopyFollowsTable' /\ Downloads'
    BY <1>4 DEF StoreCache, Free, Readers, VocarooInv, VocarooTypeOK, CacheFollowsTable, CopyFollowsTable,
                Downloads
  <1>5. ASSUME NEW g \in Servers, Enable(g) \/ Disable(g)
        PROVE  CacheFollowsTable' /\ CopyFollowsTable' /\ Downloads'
    BY <1>5, StoreKeeps
  <1>6. CASE UNCHANGED vocarooVars \/ Hang
    BY <1>6 DEF vocarooVars, Hang, VocarooInv, CacheFollowsTable, CopyFollowsTable, Downloads
  <1> QED
    BY <1>1, <1>2, <1>3, <1>4, <1>5, <1>6, NextSteps DEF vars, FilterOf, Filter, Command, VocarooCommand

\* The cache in Context::data says what vocaroo_enabled says, for every guild but
\* those whose last statement failed or came between the two halves of ready.
THEOREM CacheAlwaysFollows == Spec => []CacheFollowsTable
  BY VocarooInitInv, VocarooStep, PTL DEF Spec, VocarooInv

\* No message is answered with recordings in a guild that has turned this off,
\* however long its downloads took: the lock is held all the while.
THEOREM ConversionsWhereEnabled == Spec => ConvertedWhereEnabled
  <1>1. VocarooInv /\ [Next]_vars =>
          [\A m \in converted' \ converted : cache # NoCache /\ GuildOf[m] \in cache]_<<vocarooVars, present>>
    <2> SUFFICES ASSUME VocarooInv, [Next]_vars, NEW n \in converted' \ converted
                 PROVE  cache # NoCache /\ GuildOf[n] \in cache
      OBVIOUS
    <2>1. \E m \in Messages : Answer(m) /\ n = m
      BY ConvertSteps, NextSteps
         DEF vars, vocarooVars, Message, ReceiveLinks, FilterOf, Filter, Command, VocarooCommand,
             ReadTable, StoreCache, Enable, Disable, Hang, LookUp, Answer, Silence, HeadAnswer, GetAnswer
    <2> QED BY <2>1 DEF Answer, VocarooInv, Downloads
  <1> QED BY <1>1, VocarooInitInv, VocarooStep, PTL DEF Spec, ConvertedWhereEnabled
-----------------------------------------------------------------------------
\* The recordings of m that are or will be downloaded.
Taken(m) == {i \in DOMAIN conv[m].recordings : conv[m].recordings[i] \in {"get", "ok"}}

SizeOf(m) == SumFunctionOnSet(RecordingsOf[m], Taken(m))

\* What is taken was counted: a size is added to the total before it is compared.
Counted == \A m \in Messages : SizeOf(m) <= conv[m].total /\ SizeOf(m) <= TotalMaxSize

SizeInv == VocarooTypeOK /\ Counted

\* The sizes of parts of a message's recordings.
LEMMA SizesAdd ==
    ASSUME NEW m \in Messages, NEW S \in SUBSET (DOMAIN RecordingsOf[m])
    PROVE  /\ SumFunctionOnSet(RecordingsOf[m], {}) = 0
           /\ SumFunctionOnSet(RecordingsOf[m], S) \in Nat
           /\ \A i \in S : /\ RecordingsOf[m][i] \in Nat
                           /\ SumFunctionOnSet(RecordingsOf[m], S \ {i}) \in Nat
                           /\ SumFunctionOnSet(RecordingsOf[m], S)
                                = RecordingsOf[m][i] + SumFunctionOnSet(RecordingsOf[m], S \ {i})
  <1> DEFINE fun == RecordingsOf[m]
  <1>1. fun \in Seq(Nat)
    BY VocarooAssumption
  <1>2. \A i \in DOMAIN fun : fun[i] \in Nat
    BY <1>1
  <1>3. IsFiniteSet(DOMAIN fun)
    <2>1. Len(fun) \in Nat /\ DOMAIN fun = 1..Len(fun)
      BY <1>1, LenProperties
    <2> QED BY <2>1, FS_Interval
  <1> HIDE DEF fun
  <1>4. ASSUME NEW T \in SUBSET (DOMAIN fun)
        PROVE  /\ SumFunctionOnSet(fun, {}) = 0 /\ SumFunctionOnSet(fun, T) \in Nat
               /\ \A i \in T : SumFunctionOnSet(fun, T) = fun[i] + SumFunctionOnSet(fun, T \ {i})
    <2>1. IsFiniteSet(T)
      BY <1>3, FS_Subset
    <2> QED BY <1>2, <2>1, SumIs
  <1>5. S \in SUBSET (DOMAIN fun) /\ \A i \in S : S \ {i} \in SUBSET (DOMAIN fun)
    BY DEF fun
  <1>6. /\ SumFunctionOnSet(fun, {}) = 0 /\ SumFunctionOnSet(fun, S) \in Nat
        /\ \A i \in S : /\ fun[i] \in Nat /\ SumFunctionOnSet(fun, S \ {i}) \in Nat
                        /\ SumFunctionOnSet(fun, S) = fun[i] + SumFunctionOnSet(fun, S \ {i})
    BY <1>2, <1>4, <1>5
  <1> QED BY <1>6 DEF fun

\* Only recordings of the message are taken.
LEMMA TakenOf ==
    ASSUME VocarooTypeOK, NEW m \in Messages
    PROVE  DOMAIN conv[m].recordings \subseteq DOMAIN RecordingsOf[m] /\ Taken(m) \subseteq DOMAIN RecordingsOf[m]
  <1>1. RecordingsOf[m] \in Seq(Nat) /\ conv[m].recordings \in Seq(Stages)
    BY VocarooAssumption DEF VocarooTypeOK
  <1>2. Len(conv[m].recordings) = 0 \/ Len(conv[m].recordings) = Len(RecordingsOf[m])
    BY DEF VocarooTypeOK
  <1>3. DOMAIN conv[m].recordings \subseteq DOMAIN RecordingsOf[m]
    BY <1>1, <1>2
  <1> QED BY <1>3 DEF Taken

\* A recording's stage changes: others are not concerned.
LEMMA StageTaken ==
    ASSUME VocarooTypeOK, NEW m \in Messages, NEW i \in DOMAIN conv[m].recordings, NEW stage, NEW total,
           conv' = [conv EXCEPT ![m].total = total, ![m].recordings[i] = stage]
    PROVE  /\ Taken(m)' = IF stage \in {"get", "ok"} THEN Taken(m) \cup {i} ELSE Taken(m) \ {i}
           /\ conv'[m].total = total
           /\ \A n \in Messages \ {m} : conv'[n] = conv[n]
  <1>1. /\ conv'[m].recordings = [conv[m].recordings EXCEPT ![i] = stage] /\ conv'[m].total = total
        /\ \A n \in Messages \ {m} : conv'[n] = conv[n]
    BY DEF VocarooTypeOK
  <1>2. \A j \in DOMAIN conv[m].recordings :
            conv'[m].recordings[j] = IF j = i THEN stage ELSE conv[m].recordings[j]
    BY <1>1
  <1>3. DOMAIN conv'[m].recordings = DOMAIN conv[m].recordings
    BY <1>1
  <1>4. \A j : j \in Taken(m)' <=> /\ j \in DOMAIN conv[m].recordings
                                   /\ (IF j = i THEN stage ELSE conv[m].recordings[j]) \in {"get", "ok"}
    BY <1>2, <1>3 DEF Taken
  <1>5. \A j : j \in Taken(m) <=> j \in DOMAIN conv[m].recordings /\ conv[m].recordings[j] \in {"get", "ok"}
    BY DEF Taken
  <1>6. Taken(m)' = IF stage \in {"get", "ok"} THEN Taken(m) \cup {i} ELSE Taken(m) \ {i}
    BY <1>4, <1>5
  <1> QED BY <1>1, <1>6

\* Nothing is taken and nothing is counted at first.
LEMMA SizeInitInv == Init => SizeInv
  <1> SUFFICES ASSUME Init PROVE SizeInv
    OBVIOUS
  <1>1. VocarooTypeOK
    BY VocarooInitType
  <1>2. ASSUME NEW m \in Messages PROVE SizeOf(m) <= conv[m].total /\ SizeOf(m) <= TotalMaxSize
    <2>1. conv[m].recordings = <<>> /\ conv[m].total = 0
      BY DEF Init, VocarooInit, NoConv
    <2>2. Taken(m) = {}
      BY <2>1 DEF Taken
    <2>3. SizeOf(m) = 0
      BY <2>2, SizesAdd DEF SizeOf
    <2> QED BY <2>1, <2>3, VocarooAssumption
  <1> QED BY <1>1, <1>2 DEF SizeInv, Counted

\* The answers keep the count: whatever is taken fits, and was added before.
LEMMA StageCounted ==
    ASSUME SizeInv, NEW m \in Messages, NEW i \in DOMAIN conv[m].recordings,
           HeadAnswer(m, i) \/ GetAnswer(m, i)
    PROVE  SizeOf(m)' <= conv'[m].total /\ SizeOf(m)' <= TotalMaxSize
  <1> DEFINE size == RecordingsOf[m][i]
             fun == RecordingsOf[m]
             total == conv[m].total + size
             Changed(stage, sum) ==
                /\ Taken(m)' = IF stage \in {"get", "ok"} THEN Taken(m) \cup {i} ELSE Taken(m) \ {i}
                /\ conv'[m].total = sum
                /\ \A n \in Messages \ {m} : conv'[n] = conv[n]
  <1>0. VocarooTypeOK
    BY DEF SizeInv
  <1>1. Taken(m) \subseteq DOMAIN fun /\ i \in DOMAIN fun
    BY TakenOf DEF SizeInv
  <1>2. /\ size \in Nat /\ conv[m].total \in Nat /\ total \in Nat /\ TotalMaxSize \in Nat
    <2>1. fun \in Seq(Nat)
      BY VocarooAssumption
    <2>2. size \in Nat
      BY <1>1, <2>1
    <2> QED BY <2>2, VocarooAssumption DEF SizeInv, VocarooTypeOK
  <1>3. SizeOf(m) \in Nat /\ SizeOf(m) <= conv[m].total /\ SizeOf(m) <= TotalMaxSize
    BY <1>1, SizesAdd DEF SizeInv, Counted, SizeOf
  <1>4. SizeOf(m)' = SumFunctionOnSet(fun, Taken(m)')
    BY DEF SizeOf
  <1>5. SumFunctionOnSet(fun, Taken(m) \ {i}) \in Nat /\ SumFunctionOnSet(fun, Taken(m) \ {i}) <= SizeOf(m)
    <2>1. CASE i \in Taken(m)
      <3>1. /\ SumFunctionOnSet(fun, Taken(m) \ {i}) \in Nat
            /\ SizeOf(m) = size + SumFunctionOnSet(fun, Taken(m) \ {i})
        BY <1>1, <2>1, SizesAdd DEF SizeOf
      <3> HIDE DEF size, fun
      <3> QED BY <1>2, <3>1
    <2>2. CASE i \notin Taken(m)
      <3>1. Taken(m) \ {i} = Taken(m)
        BY <2>2
      <3> QED BY <1>3, <3>1 DEF SizeOf
    <2> QED BY <2>1, <2>2
  <1>6. CASE HeadAnswer(m, i)
    <2>1. i \notin Taken(m)
      BY <1>6 DEF HeadAnswer, Taken
    <2>2. CASE conv' = [conv EXCEPT ![m].recordings[i] = "error"]
      <3>1. conv' = [conv EXCEPT ![m].total = conv[m].total, ![m].recordings[i] = "error"]
        BY <2>2 DEF SizeInv, VocarooTypeOK
      <3>2. Changed("error", conv[m].total)
        BY <1>0, <3>1, StageTaken, Zenon
      <3>3. Taken(m)' = Taken(m) \ {i} /\ conv'[m].total = conv[m].total
        BY <3>2 DEF Changed
      <3> QED BY <1>3, <1>4, <2>1, <3>3 DEF SizeOf
    <2>3. CASE /\ total > TotalMaxSize
               /\ conv' = [conv EXCEPT ![m].total = total, ![m].recordings[i] = "error"]
      <3> HIDE DEF total
      <3>0. Changed("error", total)
        BY <1>0, <2>3, StageTaken, Zenon
      <3>1. Taken(m)' = Taken(m) \ {i} /\ conv'[m].total = total
        BY <3>0 DEF Changed
      <3>2. Taken(m)' = Taken(m)
        BY <2>1, <3>1
      <3>3. SizeOf(m) <= total
        <4> HIDE DEF size
        <4> QED BY <1>2, <1>3 DEF total
      <3> QED BY <1>3, <1>4, <3>1, <3>2, <3>3 DEF SizeOf
    <2>4. CASE /\ ~ (total > TotalMaxSize)
               /\ conv' = [conv EXCEPT ![m].total = total, ![m].recordings[i] = "get"]
      <3> HIDE DEF total
      <3>1. Taken(m)' = Taken(m) \cup {i} /\ conv'[m].total = total
        BY <2>4, StageTaken DEF SizeInv
      <3> DEFINE all == Taken(m) \cup {i}
      <3>2. all \in SUBSET (DOMAIN fun) /\ i \in all /\ all \ {i} = Taken(m)
        BY <1>1, <2>1
      <3>3. SumFunctionOnSet(fun, all) = size + SumFunctionOnSet(fun, all \ {i})
        <4> HIDE DEF all
        <4> QED BY <3>2, SizesAdd
      <3>4. SizeOf(m)' = size + SizeOf(m)
        BY <1>4, <3>1, <3>2, <3>3 DEF SizeOf
      <3> HIDE DEF size
      <3>5. size + SizeOf(m) <= total /\ total <= TotalMaxSize /\ size + SizeOf(m) \in Nat
        BY <1>2, <1>3, <2>4 DEF total
      <3> QED BY <1>2, <3>1, <3>4, <3>5
    <2> QED BY <1>6, <2>2, <2>3, <2>4 DEF HeadAnswer
  <1>7. CASE GetAnswer(m, i)
    <2>1. i \in Taken(m)
      BY <1>7 DEF GetAnswer, Taken
    <2>2. PICK stage \in {"ok", "error"} : conv' = [conv EXCEPT ![m].recordings[i] = stage]
      BY <1>7 DEF GetAnswer
    <2>3. conv' = [conv EXCEPT ![m].total = conv[m].total, ![m].recordings[i] = stage]
      BY <2>2 DEF SizeInv, VocarooTypeOK
    <2> HIDE DEF Changed
    <2>4. Changed(stage, conv[m].total)
      BY <1>0, <2>3, StageTaken, Zenon DEF Changed
    <2>5. Taken(m)' = Taken(m) \/ Taken(m)' = Taken(m) \ {i}
      BY <2>1, <2>4 DEF Changed
    <2>6. SizeOf(m)' \in Nat /\ SizeOf(m)' <= SizeOf(m)
      BY <1>3, <1>4, <1>5, <2>5 DEF SizeOf
    <2> QED BY <1>2, <1>3, <2>4, <2>6 DEF Changed
  <1> QED BY <1>6, <1>7

\* Every step keeps the count.
LEMMA SizeStep == SizeInv /\ [Next]_vars => SizeInv'
  <1> SUFFICES ASSUME SizeInv, [Next]_vars PROVE Counted'
    BY VocarooStepType DEF SizeInv
  <1>1. ASSUME NEW n \in Messages, conv'[n].recordings = conv[n].recordings, conv'[n].total = conv[n].total
        PROVE  SizeOf(n)' <= conv'[n].total /\ SizeOf(n)' <= TotalMaxSize
    <2>1. SizeOf(n)' = SizeOf(n)
      BY <1>1 DEF SizeOf, Taken
    <2> QED BY <1>1, <2>1 DEF SizeInv, Counted
  <1>2. ASSUME NEW n \in Messages, conv'[n].total \in Nat, \A i \in DOMAIN conv'[n].recordings : conv'[n].recordings[i] \notin {"get", "ok"}
        PROVE  SizeOf(n)' <= conv'[n].total /\ SizeOf(n)' <= TotalMaxSize
    <2>1. Taken(n)' = {}
      BY <1>2 DEF Taken
    <2>2. SizeOf(n)' = 0
      BY <2>1, SizesAdd DEF SizeOf
    <2> QED BY <1>2, <2>2, VocarooAssumption
  <1>3. ASSUME NEW m \in Messages, Message(m) PROVE Counted'
    <2>1. \A n \in Messages : conv'[n].recordings = conv[n].recordings /\ conv'[n].total = conv[n].total
      BY <1>3 DEF Message, ReceiveLinks, SizeInv, VocarooTypeOK
    <2> QED BY <1>1, <2>1 DEF Counted
  <1>4. ASSUME NEW m \in Messages, ConversionOf(m) PROVE Counted'
    <2>1. \A n \in Messages \ {m} : conv'[n] = conv[n]
      BY <1>4, OtherConversions DEF SizeInv
    <2>2. SizeOf(m)' <= conv'[m].total /\ SizeOf(m)' <= TotalMaxSize
      <3>1. CASE LookUp(m) \/ Answer(m) \/ Silence(m)
        <4>1. \/ conv'[m].recordings = <<>> /\ conv'[m].total = 0
              \/ conv'[m].recordings = [i \in DOMAIN RecordingsOf[m] |-> "head"] /\ conv'[m].total = 0
          BY <3>1 DEF LookUp, Answer, Silence, NoConv, SizeInv, VocarooTypeOK
        <4>2. conv'[m].total = 0 /\ \A i \in DOMAIN conv'[m].recordings : conv'[m].recordings[i] \notin {"get", "ok"}
          BY <4>1
        <4> QED BY <1>2, <4>2
      <3>2. CASE \E i \in DOMAIN conv[m].recordings : HeadAnswer(m, i) \/ GetAnswer(m, i)
        BY <3>2, StageCounted
      <3> QED BY <1>4, <3>1, <3>2, ConvertSteps
    <2> QED BY <1>1, <2>1, <2>2 DEF Counted
  <1>5. CASE UNCHANGED conv
    BY <1>1, <1>5 DEF Counted
  <1> QED
    BY <1>3, <1>4, <1>5, NextSteps
       DEF vars, vocarooVars, FilterOf, Filter, Command, VocarooCommand, ReadTable, StoreCache, Enable,
           Disable, Hang

\* The sizes that the server announces for what is downloaded of one message never
\* exceed the limit together, however many recordings there are and in whatever
\* order their sizes come: a size is added to the shared total before that is
\* compared with the limit.
THEOREM AnnouncedSizesStayBounded == Spec => []AnnouncedSizesAreBounded
  <1>1. SizeInv => AnnouncedSizesAreBounded
    BY DEF SizeInv, Counted, SizeOf, Taken, AnnouncedSizesAreBounded
  <1> QED BY <1>1, SizeInitInv, SizeStep, PTL DEF Spec
-----------------------------------------------------------------------------
(***************************************************************************)
(* The filter of banned images.                                            *)
(***************************************************************************)

\* What a message's scan may become.
ScanStates ==
    [pc : {"unsent", "query", "hash", "member", "stuck", "done"} \cup Punishment, at : Nat,
     rows : SUBSET Messages, did : SUBSET Punishment, failed : BOOLEAN]

\* What the steps of m's scan have in common.
LEMMA ScanSteps ==
    ASSUME NEW m \in Messages, FilterOf(m)
    PROVE  (Scan(m) \/ NoAnswer(m)) /\ UNCHANGED vocarooVars
  BY DEF FilterOf, Filter

\* Going on with s changes the scan of m, and its window when it ends.
LEMMA ContinueScan ==
    ASSUME FilterTypeOK, NEW m \in Messages, NEW s \in ScanStates, Continue(m, s)
    PROVE  /\ banned' = banned /\ ban' = ban
           /\ \A n \in Messages \ {m} : scan'[n] = scan[n] /\ window'[n] = window[n]
           /\ s.pc \notin {"stuck", "done"} => scan'[m] = s /\ window'[m] = window[m]
           /\ s.pc \in {"stuck", "done"} => /\ scan'[m].pc = s.pc /\ scan'[m].did = s.did
                                           /\ scan'[m].failed = s.failed
           /\ FilterTypeOK'
  <1> DEFINE end == [s EXCEPT !.rows = {}, !.at = 1]
             next == IF s.pc \in {"stuck", "done"} THEN end ELSE s
  <1>1. end \in ScanStates /\ end.pc = s.pc /\ end.did = s.did /\ end.failed = s.failed
    BY DEF ScanStates
  <1>2. next \in ScanStates /\ scan' = [scan EXCEPT ![m] = next]
    BY <1>1 DEF Continue
  <1>3. scan' \in [Messages -> ScanStates]
    BY <1>2 DEF FilterTypeOK, ScanStates
  <1>4. scan'[m] = next /\ \A n \in Messages \ {m} : scan'[n] = scan[n]
    BY <1>2 DEF FilterTypeOK
  <1>5. \A n \in Messages : window'[n] = IF n = m /\ s.pc \in {"stuck", "done"} THEN NoWindow ELSE window[n]
    BY DEF Continue, FilterTypeOK
  <1>6. window' \in [Messages -> [ever : SUBSET Messages, always : SUBSET Messages]]
    BY DEF Continue, FilterTypeOK, NoWindow
  <1>7. \A n \in Messages : window'[n].always \subseteq window'[n].ever /\ window'[n].ever \subseteq Matching(n)
    BY <1>5 DEF FilterTypeOK, NoWindow
  <1>8. FilterTypeOK'
    BY <1>3, <1>6, <1>7 DEF Continue, FilterTypeOK, ScanStates, Matching, OneImage, Row
  <1> QED BY <1>1, <1>4, <1>5, <1>8 DEF Continue

\* What the steps of a scan may make of it.
LEMMA NextScans ==
    ASSUME FilterTypeOK, NEW m \in Messages
    PROVE  /\ scan[m] \in ScanStates /\ Failed(scan[m]) \in ScanStates
           /\ Candidates(m) \subseteq Messages
           /\ \A s \in ScanStates :
                  /\ NextImage(s, m) \in ScanStates
                  /\ \A rows \in SUBSET Messages : [s EXCEPT !.pc = "hash", !.rows = rows] \in ScanStates
                  /\ \A pc \in {"member", "stuck", "done"} \cup Punishment :
                        /\ [s EXCEPT !.pc = pc] \in ScanStates /\ DidNot(s, pc) \in ScanStates
                        /\ \A call \in Punishment : Did(s, call, pc) \in ScanStates
  <1>1. scan[m] \in ScanStates
    BY DEF FilterTypeOK, ScanStates
  <1>2. Failed(scan[m]) \in ScanStates /\ Candidates(m) \subseteq Messages
    BY <1>1 DEF ScanStates, Failed, Candidates, FilterTypeOK
  <1>3. ASSUME NEW s \in ScanStates
        PROVE  NextImage(s, m) \in ScanStates
    <2>1. s.at + 1 \in Nat
      BY DEF ScanStates
    <2> QED BY <2>1 DEF NextImage, ScanStates
  <1>4. ASSUME NEW s \in ScanStates, NEW rows \in SUBSET Messages
        PROVE  [s EXCEPT !.pc = "hash", !.rows = rows] \in ScanStates
    BY DEF ScanStates
  <1>5. ASSUME NEW s \in ScanStates, NEW pc \in {"member", "stuck", "done"} \cup Punishment
        PROVE  [s EXCEPT !.pc = pc] \in ScanStates /\ DidNot(s, pc) \in ScanStates
    BY DEF ScanStates, DidNot, Failed
  <1>6. ASSUME NEW s \in ScanStates, NEW pc \in {"member", "stuck", "done"} \cup Punishment,
               NEW call \in Punishment
        PROVE  Did(s, call, pc) \in ScanStates
    <2>1. s.did \cup {call} \in SUBSET Punishment
      BY DEF ScanStates
    <2> QED BY <2>1 DEF ScanStates, Did
  <1> QED BY <1>1, <1>2, <1>3, <1>4, <1>5, <1>6

\* banimage inserts only what it has counted one image of.
BansOneImage == \A c \in Slots : ban[c].pc = "insert" => OneImage(ban[c].link)

\* A change of the table shows in the windows of those who scan.
LEMMA SetBannedType ==
    ASSUME FilterTypeOK, NEW new \in SUBSET {m \in Messages : OneImage(m)}, SetBanned(new)
    PROVE  /\ banned' = new /\ new \subseteq {m \in Messages : OneImage(m)}
           /\ window' \in [Messages -> [ever : SUBSET Messages, always : SUBSET Messages]]
           /\ \A m \in Messages :
                  /\ window'[m].always \subseteq window'[m].ever /\ window'[m].ever \subseteq Matching(m)
                  /\ ~Scanning(m) => window'[m] = window[m]
                  /\ Scanning(m) => /\ window'[m].ever = window[m].ever \cup (new \cap Matching(m))
                                    /\ window'[m].always = window[m].always \cap new
  <1>1. \A m \in Messages : Matching(m) \subseteq Messages
    BY DEF Matching
  <1>2. \A m \in Messages : window[m] \in [ever : SUBSET Messages, always : SUBSET Messages]
    BY DEF FilterTypeOK
  <1>3. \A m \in Messages :
            /\ ~Scanning(m) => window'[m] = window[m]
            /\ Scanning(m) => window'[m] = [ever |-> window[m].ever \cup (new \cap Matching(m)),
                                           always |-> window[m].always \cap new]
    BY DEF SetBanned
  <1>4. window' \in [Messages -> [ever : SUBSET Messages, always : SUBSET Messages]]
    <2>1. ASSUME NEW m \in Messages
          PROVE  window'[m] \in [ever : SUBSET Messages, always : SUBSET Messages]
      <3>1. window[m].ever \cup (new \cap Matching(m)) \in SUBSET Messages
        BY <1>1, <1>2
      <3>2. window[m].always \cap new \in SUBSET Messages
        BY <1>2
      <3>3. CASE Scanning(m)
        <4> DEFINE ever == window[m].ever \cup (new \cap Matching(m))
                   always == window[m].always \cap new
        <4>1. window'[m] = [ever |-> ever, always |-> always]
          BY <1>3, <3>3
        <4>2. ever \in SUBSET Messages /\ always \in SUBSET Messages
          BY <3>1, <3>2
        <4> HIDE DEF ever, always
        <4> QED BY <4>1, <4>2
      <3>4. CASE ~Scanning(m)
        BY <1>2, <1>3, <3>4
      <3> QED BY <3>3, <3>4
    <2> QED BY <2>1 DEF SetBanned
  <1>5. \A m \in Messages : window[m].always \subseteq window[m].ever /\ window[m].ever \subseteq Matching(m)
    BY DEF FilterTypeOK
  <1> QED BY <1>3, <1>4, <1>5 DEF SetBanned

FilterTypes == FilterTypeOK /\ BansOneImage

\* The commands keep the types.
LEMMA CommandType ==
    ASSUME FilterTypes, FilterCommand
    PROVE  FilterTypes'
  <1> USE DEF FilterTypes
  <1>0. \A m \in Messages : Matching(m)' = Matching(m) /\ OneImage(m)' = OneImage(m)
    BY DEF Matching, OneImage, Row
  <1>1. ASSUME NEW c \in Slots, NEW m \in Messages, Ban(c, m) PROVE FilterTypes'
    <2>1. ban' \in [Slots -> [pc : {"idle", "fetch", "insert"}, link : Messages]]
      BY <1>1 DEF Ban, FilterTypeOK
    <2> QED BY <1>0, <1>1, <2>1 DEF Ban, FilterTypeOK, BansOneImage, OneImage, Matching, Row
  <1>2. NoBan \in [pc : {"idle", "fetch", "insert"}, link : Messages] /\ NoBan.pc = "idle"
    BY ChannelAssumption DEF NoBan
  <1>3. ASSUME NEW c \in Slots, Fetch(c) PROVE FilterTypes'
    <2>1. ban' \in [Slots -> [pc : {"idle", "fetch", "insert"}, link : Messages]]
      <3> DEFINE fetched == [ban[c] EXCEPT !.pc = "insert"]
      <3>1. fetched \in [pc : {"idle", "fetch", "insert"}, link : Messages]
        BY DEF FilterTypeOK
      <3>2. ban' = [ban EXCEPT ![c] = fetched] \/ ban' = [ban EXCEPT ![c] = NoBan]
        BY <1>3 DEF Fetch
      <3> QED BY <1>2, <3>1, <3>2 DEF FilterTypeOK
    <2>2. BansOneImage'
      <3>1. \A d \in Slots \ {c} : ban'[d] = ban[d]
        BY <1>3 DEF Fetch, FilterTypeOK
      <3>2. ban'[c].pc = "insert" => ban'[c].link = ban[c].link /\ OneImage(ban[c].link)
        BY <1>2, <1>3 DEF Fetch, FilterTypeOK
      <3> QED BY <3>1, <3>2 DEF BansOneImage, OneImage
    <2> QED BY <1>3, <2>1, <2>2 DEF Fetch, FilterTypeOK, OneImage, Matching, Row
  <1>4. ASSUME NEW c \in Slots, Insert(c) PROVE FilterTypes'
    <2>1. ban' \in [Slots -> [pc : {"idle", "fetch", "insert"}, link : Messages]]
      BY <1>2, <1>4 DEF Insert, FilterTypeOK
    <2>2. BansOneImage'
      BY <1>2, <1>4 DEF Insert, FilterTypeOK, BansOneImage, OneImage
    <2>3. CASE SetBanned(banned \cup {ban[c].link})
      <3>1. banned \cup {ban[c].link} \in SUBSET {m \in Messages : OneImage(m)}
        BY <1>4 DEF Insert, FilterTypeOK, BansOneImage
      <3> QED BY <1>0, <1>4, <2>1, <2>2, <2>3, <3>1, SetBannedType DEF Insert, FilterTypeOK
    <2>4. CASE UNCHANGED <<banned, window>>
      BY <1>4, <2>1, <2>2, <2>4 DEF Insert, FilterTypeOK, OneImage, Matching, Row
    <2> QED BY <1>4, <2>3, <2>4 DEF Insert
  <1>5. ASSUME NEW m \in Messages, Unban(m) PROVE FilterTypes'
    <2>1. banned \ {m} \in SUBSET {n \in Messages : OneImage(n)}
      BY DEF FilterTypeOK
    <2>2. SetBanned(banned \ {m}) /\ UNCHANGED <<scan, ban>>
      BY <1>5 DEF Unban
    <2>3. BansOneImage'
      BY <1>0, <2>2 DEF BansOneImage, FilterTypeOK
    <2> QED BY <1>0, <2>1, <2>2, <2>3, SetBannedType DEF FilterTypeOK
  <1> QED BY <1>1, <1>3, <1>4, <1>5 DEF FilterCommand
-----------------------------------------------------------------------------
\* Every row that was there from the start of m's scan is that of an image which
\* is still to be looked at.
Left(m) ==
    \A r \in window[m].always : \E i \in scan[m].at..Len(ImagesOf[m]) : ImagesOf[m][i] = Row(r)

\* The rows that were read are the right ones, though they may be old.
RowsRead(m) ==
    /\ \A r \in scan[m].rows : GuildOf[r] = GuildOf[m] /\ OneImage(r) /\ Row(r).size = Image(m).size
    /\ scan[m].rows \cap Matching(m) \subseteq window[m].ever
    /\ \A r \in window[m].always : Row(r).size = Image(m).size => r \in scan[m].rows

\* Without a failure, each call of the punishment follows those before it.
InOrder(m) ==
    /\ scan[m].pc = "timeout" => scan[m].did = {}
    /\ scan[m].pc = "notify" => scan[m].did = {"timeout"}
    /\ scan[m].pc = "delete" => scan[m].did = {"timeout", "notify"}

ScanInv(m) ==
    /\ scan[m].pc = "unsent" => scan[m] = NoScan
    /\ Scanning(m) =>
        /\ scan[m].at \in 1..Len(ImagesOf[m])
        /\ window[m].always \subseteq banned /\ banned \cap Matching(m) \subseteq window[m].ever
        /\ scan[m].pc \in {"query", "hash"} /\ ~scan[m].failed => Left(m)
        /\ scan[m].pc = "hash" => RowsRead(m)
        /\ scan[m].pc \in {"query", "hash", "member"} => scan[m].did = {}
        /\ scan[m].pc \notin {"query", "hash"} => window[m].ever # {}
        /\ ~scan[m].failed => InOrder(m)

\* What a step may do to m's author: both properties, for m.
PunishedRightly(m) ==
    /\ scan'[m].did # scan[m].did => window[m].ever # {}
    /\ Scanning(m) /\ scan'[m].pc = "done" /\ ~scan'[m].failed =>
          (window[m].always # {} => scan'[m].did = Punishment)

\* A message whose scan and window stay is not disturbed.
LEMMA SameScan ==
    ASSUME NEW m \in Messages, ScanInv(m), scan'[m] = scan[m], window'[m] = window[m], banned' = banned
    PROVE  ScanInv(m)' /\ PunishedRightly(m)
  BY DEF ScanInv, Scanning, Left, RowsRead, InOrder, Image, Matching, OneImage, Row, PunishedRightly

\* The images have a size and a hash.
LEMMA ImageTypes ==
    ASSUME FilterTypeOK, NEW m \in Messages
    PROVE  /\ ImagesOf[m] \in Seq([size : Nat, hash : Nat]) /\ Len(ImagesOf[m]) \in Nat
           /\ OneImage(m) => Row(m) \in [size : Nat, hash : Nat]
           /\ scan[m].at \in 1..Len(ImagesOf[m]) => Image(m) \in [size : Nat, hash : Nat]
  <1>1. ImagesOf[m] \in Seq([size : Nat, hash : Nat]) /\ Len(ImagesOf[m]) \in Nat
    BY FilterAssumption
  <1>2. \A i \in 1..Len(ImagesOf[m]) : ImagesOf[m][i] \in [size : Nat, hash : Nat]
    BY <1>1, ElementOfSeq
  <1>3. OneImage(m) => 1 \in 1..Len(ImagesOf[m])
    BY <1>1 DEF OneImage
  <1> QED BY <1>1, <1>2, <1>3 DEF Row, Image

\* The scan goes on after an image that is not banned, or for which a call failed.
LEMMA NextImageKeeps ==
    ASSUME FilterTypeOK, NEW m \in Messages, ScanInv(m), scan[m].pc \in {"query", "hash"},
           NEW s \in {scan[m], Failed(scan[m])}, Continue(m, NextImage(s, m)),
           s.failed \/ \A r \in window[m].always : Row(r) # Image(m)
    PROVE  ScanInv(m)' /\ PunishedRightly(m)
  <1>1. s \in ScanStates /\ NextImage(s, m) \in ScanStates
    BY NextScans
  <1>2. s.at = scan[m].at /\ s.did = {} /\ s.pc = scan[m].pc /\ (s.failed \/ s = scan[m])
    BY NextScans, ZenonT(40) DEF ScanInv, Scanning, Failed, ScanStates
  <1>3. scan[m].at \in 1..Len(ImagesOf[m]) /\ Len(ImagesOf[m]) \in Nat /\ Scanning(m)
    BY ImageTypes DEF ScanInv, Scanning
  <1>4. s.failed \/ (~scan[m].failed /\ Left(m)) \/ scan[m].failed
    BY DEF ScanInv, Scanning
  <1>5. CASE s.at < Len(ImagesOf[m])
    <2>1. NextImage(s, m) = [s EXCEPT !.pc = "query", !.at = s.at + 1, !.rows = {}]
      BY <1>5 DEF NextImage
    <2>2. /\ NextImage(s, m).pc = "query" /\ NextImage(s, m).at = scan[m].at + 1
          /\ NextImage(s, m).did = {} /\ NextImage(s, m).failed = s.failed
      BY <1>1, <1>2, <2>1 DEF ScanStates
    <2>3. /\ scan'[m].pc = "query" /\ scan'[m].at = scan[m].at + 1
          /\ scan'[m].did = {} /\ scan'[m].failed = s.failed
          /\ window'[m] = window[m] /\ banned' = banned
      BY <1>1, <2>2, ContinueScan
    <2>4. ~s.failed => Left(m)'
      <3> SUFFICES ASSUME ~s.failed, NEW r \in window[m].always
                   PROVE  \E i \in (scan[m].at + 1)..Len(ImagesOf[m]) : ImagesOf[m][i] = Row(r)
        BY <2>3 DEF Left, Row
      <3>1. PICK i \in scan[m].at..Len(ImagesOf[m]) : ImagesOf[m][i] = Row(r)
        BY <1>2, <1>4 DEF Left
      <3>2. i # scan[m].at
        BY <3>1 DEF Image
      <3>3. i \in (scan[m].at + 1)..Len(ImagesOf[m])
        BY <1>3, <3>2
      <3> QED BY <3>1, <3>3
    <2>5. ScanInv(m)'
      <3>1. scan'[m].at \in 1..Len(ImagesOf[m])
        BY <1>2, <1>3, <1>5, <2>3
      <3> QED BY <1>3, <2>3, <2>4, <3>1 DEF ScanInv, Scanning, InOrder, Matching, OneImage, Row
    <2> QED BY <1>2, <2>3, <2>5 DEF PunishedRightly, ScanInv, Scanning
  <1>6. CASE ~(s.at < Len(ImagesOf[m]))
    <2>1. NextImage(s, m) = [s EXCEPT !.pc = "done"]
      BY <1>6 DEF NextImage
    <2>2. NextImage(s, m).pc = "done" /\ NextImage(s, m).did = {} /\ NextImage(s, m).failed = s.failed
      BY <1>1, <1>2, <2>1 DEF ScanStates
    <2>3. scan'[m].pc = "done" /\ scan'[m].did = {} /\ scan'[m].failed = s.failed
      BY <1>1, <2>2, ContinueScan
    <2>4. ~s.failed => window[m].always = {}
      <3> SUFFICES ASSUME ~s.failed, NEW r \in window[m].always
                   PROVE  FALSE
        OBVIOUS
      <3>1. PICK i \in scan[m].at..Len(ImagesOf[m]) : ImagesOf[m][i] = Row(r)
        BY <1>2, <1>4 DEF Left
      <3>2. i = scan[m].at
        BY <1>2, <1>3, <1>6
      <3> QED BY <3>1, <3>2 DEF Image
    <2>5. scan[m].did = {}
      BY DEF ScanInv, Scanning
    <2> QED BY <2>3, <2>4, <2>5 DEF ScanInv, Scanning, PunishedRightly
  <1> QED BY <1>5, <1>6

\* What a call that succeeds and one that fails change.
LEMMA CallFields ==
    ASSUME NEW s \in ScanStates, NEW call, NEW next
    PROVE  /\ Did(s, call, next).pc = next /\ Did(s, call, next).at = s.at
           /\ Did(s, call, next).failed = s.failed /\ Did(s, call, next).did = s.did \cup {call}
           /\ DidNot(s, next).pc = next /\ DidNot(s, next).at = s.at /\ DidNot(s, next).failed
  BY DEF ScanStates, Did, DidNot, Failed

\* A step of m's scan keeps what is known of it and does what is right.
LEMMA ScanKeeps ==
    ASSUME FilterTypeOK, NEW m \in Messages, ScanInv(m), Scan(m) \/ NoAnswer(m)
    PROVE  ScanInv(m)' /\ PunishedRightly(m)
  <1> USE DEF Scanning
  <1>0. scan[m] \in ScanStates /\ Failed(scan[m]) \in ScanStates /\ Failed(scan[m]).failed
    BY NextScans DEF Failed, ScanStates
  <1>1. CASE Query(m)
    <2>1. CASE Continue(m, NextImage(Failed(scan[m]), m))
      BY <1>0, <1>1, <2>1, NextImageKeeps DEF Query
    <2>2. CASE Candidates(m) = {} /\ Continue(m, NextImage(scan[m], m))
      <3>1. \A r \in window[m].always : Row(r) # Image(m)
        BY <1>1, <2>2 DEF Query, ScanInv, Candidates, FilterTypeOK, Matching
      <3> QED BY <1>1, <2>2, <3>1, NextImageKeeps DEF Query
    <2>3. CASE Candidates(m) # {} /\ Continue(m, [scan[m] EXCEPT !.pc = "hash", !.rows = Candidates(m)])
      <3> DEFINE s == [scan[m] EXCEPT !.pc = "hash", !.rows = Candidates(m)]
      <3>1. s \in ScanStates
        BY NextScans
      <3>2. /\ s.pc = "hash" /\ s.rows = Candidates(m) /\ s.at = scan[m].at
            /\ s.did = scan[m].did /\ s.failed = scan[m].failed
        BY <1>0 DEF ScanStates
      <3>3. scan'[m] = s /\ window'[m] = window[m] /\ banned' = banned
        BY <2>3, <3>1, <3>2, ContinueScan
      <3> HIDE DEF s
      <3>4. RowsRead(m)'
        <4>1. \A r \in Candidates(m) :
                  r \in banned /\ GuildOf[r] = GuildOf[m] /\ OneImage(r) /\ Row(r).size = Image(m).size
          BY DEF Candidates, FilterTypeOK
        <4>2. \A r \in window[m].always : Row(r).size = Image(m).size => r \in Candidates(m)
          BY <1>1 DEF Candidates, Query, ScanInv, FilterTypeOK, Matching
        <4>3. banned \cap Matching(m) \subseteq window[m].ever
          BY <1>1 DEF Query, ScanInv
        <4>4. Image(m)' = Image(m) /\ Matching(m)' = Matching(m) /\ \A r : Row(r)' = Row(r) /\ OneImage(r)' = OneImage(r)
          BY <3>2, <3>3 DEF Image, Matching, Row, OneImage
        <4> QED BY <3>2, <3>3, <4>1, <4>2, <4>3, <4>4 DEF RowsRead
      <3>5. ~scan[m].failed => Left(m)'
        BY <1>1, <3>2, <3>3 DEF Left, Query, ScanInv, Row
      <3> QED BY <1>1, <3>2, <3>3, <3>4, <3>5
              DEF Query, ScanInv, InOrder, PunishedRightly, Matching, OneImage, Row
    <2> QED BY <1>1, <2>1, <2>2, <2>3 DEF Query
  <1>2. CASE Compare(m)
    <2>1. CASE Continue(m, NextImage(Failed(scan[m]), m))
      BY <1>0, <1>2, <2>1, NextImageKeeps DEF Compare
    <2>2. CASE (\A r \in scan[m].rows : ~SameImage(r, m)) /\ Continue(m, NextImage(scan[m], m))
      <3>1. \A r \in window[m].always : Row(r) # Image(m)
        BY <1>2, <2>2 DEF Compare, ScanInv, RowsRead, SameImage
      <3> QED BY <1>2, <2>2, <3>1, NextImageKeeps DEF Compare
    <2>3. CASE (\E r \in scan[m].rows : SameImage(r, m)) /\ Continue(m, [scan[m] EXCEPT !.pc = "member"])
      <3> DEFINE s == [scan[m] EXCEPT !.pc = "member"]
      <3>1. s \in ScanStates
        BY NextScans
      <3>2. s.pc = "member" /\ s.at = scan[m].at /\ s.did = scan[m].did /\ s.failed = scan[m].failed
        BY <1>0 DEF ScanStates
      <3>3. scan'[m] = s /\ window'[m] = window[m] /\ banned' = banned
        BY <2>3, <3>1, <3>2, ContinueScan
      <3> HIDE DEF s
      <3>4. window[m].ever # {}
        <4>1. PICK r \in scan[m].rows : SameImage(r, m)
          BY <2>3
        <4>2. r \in Messages /\ GuildOf[r] = GuildOf[m] /\ OneImage(r) /\ Row(r).size = Image(m).size
          BY <1>0, <1>2, <4>1 DEF Compare, ScanInv, RowsRead, ScanStates
        <4>3. Row(r) \in [size : Nat, hash : Nat] /\ Image(m) \in [size : Nat, hash : Nat]
          BY <1>2, <4>2, ImageTypes DEF Compare, ScanInv
        <4>4. Row(r) = Image(m)
          BY <4>1, <4>2, <4>3 DEF SameImage
        <4>5. r \in Matching(m)
          <5>1. scan[m].at \in DOMAIN ImagesOf[m]
            BY <1>2, ImageTypes DEF Compare, ScanInv
          <5> QED BY <4>2, <4>4, <5>1 DEF Matching, Image
        <4> QED BY <1>2, <4>1, <4>5 DEF Compare, ScanInv, RowsRead
      <3> QED BY <1>2, <3>2, <3>3, <3>4
              DEF Compare, ScanInv, InOrder, PunishedRightly, Matching, OneImage, Row
    <2> QED BY <1>2, <2>1, <2>2, <2>3 DEF Compare
  <1>3. CASE FetchMember(m)
    <2>1. CASE Continue(m, [scan[m] EXCEPT !.pc = "timeout"])
      <3> DEFINE s == [scan[m] EXCEPT !.pc = "timeout"]
      <3>1. s \in ScanStates
        BY NextScans DEF Punishment
      <3>2. s.pc = "timeout" /\ s.at = scan[m].at /\ s.did = scan[m].did /\ s.failed = scan[m].failed
        BY <1>0 DEF ScanStates
      <3>3. scan'[m] = s /\ window'[m] = window[m] /\ banned' = banned
        BY <2>1, <3>1, <3>2, ContinueScan
      <3> HIDE DEF s
      <3> QED BY <1>3, <3>2, <3>3
              DEF FetchMember, ScanInv, InOrder, PunishedRightly, Matching, OneImage, Row
    <2>2. CASE Continue(m, [Failed(scan[m]) EXCEPT !.pc = "done"])
      <3> DEFINE s == [Failed(scan[m]) EXCEPT !.pc = "done"]
      <3>1. s \in ScanStates
        BY <1>0, NextScans
      <3>2. s.pc = "done" /\ s.did = scan[m].did /\ s.failed
        BY <1>0 DEF ScanStates, Failed
      <3> HIDE DEF s
      <3>3. scan'[m].pc = "done" /\ scan'[m].did = scan[m].did /\ scan'[m].failed
        <4>1. Continue(m, s)
          BY <2>2 DEF s
        <4> QED BY <3>1, <3>2, <4>1, ContinueScan
      <3>4. ~Scanning(m)' /\ scan'[m].pc # "unsent"
        BY <3>3 DEF Scanning
      <3> QED BY <3>3, <3>4, ZenonT(40) DEF ScanInv, PunishedRightly
    <2> QED BY <1>3, <2>1, <2>2 DEF FetchMember
  <1>4. ASSUME NEW call \in Punishment, NEW next \in {"notify", "delete"}, scan[m].pc = call,
               call = "timeout" => next = "notify", call = "notify" => next = "delete", call # "delete",
               Continue(m, Did(scan[m], call, next)) \/ Continue(m, DidNot(scan[m], next))
        PROVE  ScanInv(m)' /\ PunishedRightly(m)
    <2>1. PICK s \in {Did(scan[m], call, next), DidNot(scan[m], next)} : Continue(m, s)
      BY <1>4
    <2>2. s \in ScanStates
      BY <1>0, NextScans DEF Punishment
    <2>3. /\ s.pc = next /\ s.at = scan[m].at
          /\ s.failed \/ (s.failed = scan[m].failed /\ s.did = scan[m].did \cup {call})
      BY <1>0, CallFields
    <2>4. scan'[m] = s /\ window'[m] = window[m] /\ banned' = banned
      BY <2>1, <2>2, <2>3, ContinueScan
    <2>5. window[m].ever # {} /\ (~s.failed => InOrder(m)')
      BY <1>4, <2>3, <2>4 DEF ScanInv, InOrder, Punishment
    <2> QED BY <1>4, <2>3, <2>4, <2>5 DEF ScanInv, PunishedRightly, Matching, OneImage, Row, Punishment
  <1>5. CASE TimeOut(m)
    BY <1>4, <1>5 DEF TimeOut, Punishment
  <1>6. CASE Notify(m)
    BY <1>4, <1>6 DEF Notify, Punishment
  <1>7. CASE Delete(m)
    <2>1. PICK s \in {Did(scan[m], "delete", "done"), DidNot(scan[m], "done")} : Continue(m, s)
      BY <1>7 DEF Delete
    <2>2. s \in ScanStates
      BY <1>0, NextScans DEF Punishment
    <2>3. /\ s.pc = "done"
          /\ s.failed \/ (s.failed = scan[m].failed /\ s.did = scan[m].did \cup {"delete"})
      BY <1>0, CallFields
    <2>4. scan'[m].pc = "done" /\ scan'[m].did = s.did /\ scan'[m].failed = s.failed
      BY <2>1, <2>2, <2>3, ContinueScan
    <2>5. window[m].ever # {} /\ (~s.failed => s.did = Punishment)
      BY <1>7, <2>3 DEF Delete, ScanInv, InOrder, Punishment
    <2> QED BY <2>4, <2>5 DEF ScanInv, PunishedRightly
  <1>8. CASE NoAnswer(m)
    <2> DEFINE s == [scan[m] EXCEPT !.pc = "stuck"]
    <2>1. s \in ScanStates /\ s.pc = "stuck" /\ s.did = scan[m].did
      BY <1>0, NextScans DEF ScanStates
    <2>2. Continue(m, s)
      BY <1>8 DEF NoAnswer
    <2> HIDE DEF s
    <2>3. scan'[m].pc = "stuck" /\ scan'[m].did = scan[m].did
      BY <2>1, <2>2, ContinueScan
    <2> QED BY <2>3 DEF ScanInv, PunishedRightly
  <1> QED BY <1>1, <1>2, <1>3, <1>5, <1>6, <1>7, <1>8 DEF Scan
-----------------------------------------------------------------------------
FilterInv == FilterTypes /\ \A m \in Messages : ScanInv(m)

\* At first nothing is banned or scanned.
LEMMA FilterInitInv == Init => FilterInv
  <1> SUFFICES ASSUME Init PROVE FilterInv
    OBVIOUS
  <1>1. NoScan \in ScanStates /\ [NoScan EXCEPT !.pc = "done"] \in ScanStates
    BY DEF NoScan, ScanStates
  <1>2. scan \in [Messages -> ScanStates]
    BY <1>1 DEF Init, FilterInit
  <1>3. NoBan \in [pc : {"idle", "fetch", "insert"}, link : Messages] /\ NoBan.pc = "idle"
    BY ChannelAssumption DEF NoBan
  <1>4. \A m \in Messages : window[m] = NoWindow
    BY DEF Init, FilterInit
  <1>5. FilterTypes
    BY <1>2, <1>3, <1>4 DEF Init, FilterInit, FilterTypes, FilterTypeOK, BansOneImage, ScanStates, NoWindow
  <1>6. ASSUME NEW m \in Messages PROVE ScanInv(m)
    <2>1. scan[m] = NoScan \/ scan[m] = [NoScan EXCEPT !.pc = "done"]
      BY DEF Init, FilterInit
    <2> QED BY <2>1 DEF NoScan, ScanInv, Scanning
  <1> QED BY <1>5, <1>6 DEF FilterInv

\* A scan's step disturbs nobody else and keeps the types.
LEMMA FilterOthers ==
    ASSUME FilterTypes, NEW m \in Messages, Scan(m) \/ NoAnswer(m)
    PROVE  /\ FilterTypes' /\ banned' = banned
           /\ \A n \in Messages \ {m} : scan'[n] = scan[n] /\ window'[n] = window[n]
  <1>1. scan[m] \in ScanStates /\ Failed(scan[m]) \in ScanStates
    BY NextScans DEF FilterTypes
  <1>2. \E s \in ScanStates : Continue(m, s)
    <2>1. CASE Query(m) \/ Compare(m)
      BY <1>1, <2>1, NextScans DEF Query, Compare, FilterTypes
    <2>2. CASE FetchMember(m) \/ TimeOut(m) \/ Notify(m) \/ Delete(m) \/ NoAnswer(m)
      BY <1>1, <2>2, NextScans DEF FetchMember, TimeOut, Notify, Delete, NoAnswer, FilterTypes, Punishment
    <2> QED BY <2>1, <2>2 DEF Scan
  <1>3. PICK s \in ScanStates : Continue(m, s)
    BY <1>2
  <1>4. /\ FilterTypeOK' /\ banned' = banned /\ ban' = ban
        /\ \A n \in Messages \ {m} : scan'[n] = scan[n] /\ window'[n] = window[n]
    BY <1>3, ContinueScan DEF FilterTypes
  <1>5. BansOneImage'
    BY <1>4 DEF FilterTypes, BansOneImage, OneImage
  <1> QED BY <1>4, <1>5 DEF FilterTypes

\* A command that changes the table disturbs no scan: the window follows.
LEMMA CommandKeeps ==
    ASSUME FilterInv, FilterCommand
    PROVE  FilterInv' /\ \A m \in Messages : PunishedRightly(m)
  <1>1. scan' = scan
    BY DEF FilterCommand, Ban, Fetch, Insert, Unban
  <1>2. \A m \in Messages : PunishedRightly(m)
    BY <1>1 DEF PunishedRightly, Scanning
  <1>3. FilterTypes'
    BY CommandType DEF FilterInv
  <1>4. CASE UNCHANGED <<banned, window>>
    <2>1. \A m \in Messages : ScanInv(m)'
      BY <1>1, <1>4, SameScan DEF FilterInv
    <2> QED BY <1>2, <1>3, <2>1 DEF FilterInv
  <1>5. ASSUME NEW new \in SUBSET {m \in Messages : OneImage(m)}, SetBanned(new)
        PROVE  \A m \in Messages : ScanInv(m)'
    <2> SUFFICES ASSUME NEW m \in Messages PROVE ScanInv(m)'
      OBVIOUS
    <2>1. /\ banned' = new
          /\ ~Scanning(m) => window'[m] = window[m]
          /\ Scanning(m) => /\ window'[m].ever = window[m].ever \cup (new \cap Matching(m))
                            /\ window'[m].always = window[m].always \cap new
      BY <1>5, SetBannedType DEF FilterInv, FilterTypes
    <2>2. ScanInv(m) /\ Scanning(m)' = Scanning(m)
      BY <1>1 DEF FilterInv, Scanning
    <2>3. /\ Matching(m)' = Matching(m) /\ Image(m)' = Image(m)
          /\ \A r : Row(r)' = Row(r) /\ OneImage(r)' = OneImage(r)
      BY <1>1 DEF Matching, Image, Row, OneImage
    <2>4. CASE ~Scanning(m)
      BY <1>1, <2>2, <2>4 DEF ScanInv
    <2>5. CASE Scanning(m)
      <3>1. Left(m) => Left(m)'
        BY <1>1, <2>1, <2>3, <2>5 DEF Left
      <3>2. RowsRead(m) => RowsRead(m)'
        BY <1>1, <2>1, <2>3, <2>5 DEF RowsRead
      <3>3. InOrder(m)' = InOrder(m)
        BY <1>1 DEF InOrder
      <3> QED BY <1>1, <2>1, <2>2, <2>3, <2>5, <3>1, <3>2, <3>3 DEF ScanInv
    <2> QED BY <2>4, <2>5
  <1>6. CASE \E new \in SUBSET {m \in Messages : OneImage(m)} : SetBanned(new)
    BY <1>2, <1>3, <1>5, <1>6 DEF FilterInv
  <1>7. (\E new \in SUBSET {m \in Messages : OneImage(m)} : SetBanned(new)) \/ UNCHANGED <<banned, window>>
    <2>1. ASSUME NEW c \in Slots, Insert(c), SetBanned(banned \cup {ban[c].link})
          PROVE  \E new \in SUBSET {m \in Messages : OneImage(m)} : SetBanned(new)
      BY <2>1 DEF Insert, FilterInv, FilterTypes, FilterTypeOK, BansOneImage
    <2>2. ASSUME NEW m \in Messages, Unban(m)
          PROVE  \E new \in SUBSET {n \in Messages : OneImage(n)} : SetBanned(new)
      BY <2>2 DEF Unban, FilterInv, FilterTypes, FilterTypeOK
    <2> QED BY <2>1, <2>2 DEF FilterCommand, Ban, Fetch, Insert
  <1> QED BY <1>4, <1>6, <1>7

\* Every step keeps the invariant and punishes rightly.
LEMMA FilterStep ==
    ASSUME FilterInv, [Next]_vars
    PROVE  FilterInv' /\ \A m \in Messages : PunishedRightly(m)
  <1>1. CASE UNCHANGED filterVars
    <2>1. UNCHANGED <<banned, scan, window, ban>>
      BY <1>1 DEF filterVars
    <2>2. FilterTypes'
      BY <2>1 DEF FilterInv, FilterTypes, FilterTypeOK, BansOneImage, OneImage, Matching, Row
    <2> QED BY <2>1, <2>2, SameScan DEF FilterInv
  <1>2. ASSUME NEW m \in Messages, Message(m)
        PROVE  FilterInv' /\ \A n \in Messages : PunishedRightly(n)
    <2> DEFINE fresh == [ever |-> banned \cap Matching(m), always |-> banned \cap Matching(m)]
    <2>1. PICK pc \in Entries(m) :
              /\ scan' = [scan EXCEPT ![m].pc = pc]
              /\ window' = [window EXCEPT ![m] = IF pc = "done" THEN NoWindow ELSE fresh]
      BY <1>2 DEF Message, Receive
    <2>2. UNCHANGED <<banned, ban>> /\ scan[m] = NoScan
      BY <1>2 DEF Message, Receive, FilterInv, ScanInv
    <2>3. pc \in {"done", "query"} /\ (pc = "query" => 1 \in 1..Len(ImagesOf[m]))
      BY ImageTypes DEF Entries, FilterInv, FilterTypes
    <2>4. /\ scan'[m] = [NoScan EXCEPT !.pc = pc] /\ scan' \in [Messages -> ScanStates]
          /\ \A n \in Messages \ {m} : scan'[n] = scan[n] /\ window'[n] = window[n]
      BY <2>1, <2>2, <2>3 DEF FilterInv, FilterTypes, FilterTypeOK, ScanStates, NoScan
    <2>5. /\ window' \in [Messages -> [ever : SUBSET Messages, always : SUBSET Messages]]
          /\ window'[m] = IF pc = "done" THEN NoWindow ELSE fresh
      <3>1. banned \cap Matching(m) \in SUBSET Messages
        BY DEF Matching
      <3>2. NoWindow \in [ever : SUBSET Messages, always : SUBSET Messages]
        BY DEF NoWindow
      <3> QED BY <2>1, <3>1, <3>2 DEF FilterInv, FilterTypes, FilterTypeOK
    <2>6. window'[m].always \subseteq window'[m].ever /\ window'[m].ever \subseteq Matching(m)
      BY <2>5 DEF NoWindow
    <2>7. FilterTypes'
      <3>1. \A n \in Messages : Matching(n)' = Matching(n) /\ OneImage(n)' = OneImage(n)
        BY DEF Matching, OneImage, Row
      <3> QED BY <2>2, <2>4, <2>5, <2>6, <3>1
              DEF FilterInv, FilterTypes, FilterTypeOK, BansOneImage, ScanStates
    <2>8. ScanInv(m)' /\ PunishedRightly(m)
      <3>1. scan'[m].pc = pc /\ scan'[m].at = 1 /\ scan'[m].did = {} /\ scan[m].did = {}
            /\ scan[m].pc = "unsent"
        BY <2>2, <2>4 DEF NoScan
      <3>2. pc = "query" => window'[m].ever = banned \cap Matching(m) /\ window'[m].always = banned \cap Matching(m)
        BY <2>5
      <3>3. pc = "query" => Left(m)'
        BY <3>1, <3>2 DEF Left, Matching, Row
      <3> QED BY <2>2, <2>3, <3>1, <3>2, <3>3 DEF ScanInv, Scanning, InOrder, PunishedRightly, Matching, OneImage, Row
    <2>9. \A n \in Messages \ {m} : ScanInv(n)' /\ PunishedRightly(n)
      BY <2>2, <2>4, SameScan DEF FilterInv
    <2> QED BY <2>7, <2>8, <2>9 DEF FilterInv
  <1>3. ASSUME NEW m \in Messages, FilterOf(m)
        PROVE  FilterInv' /\ \A n \in Messages : PunishedRightly(n)
    BY <1>3, ScanSteps, ScanKeeps, FilterOthers, SameScan DEF FilterInv, FilterTypes
  <1>4. CASE FilterCommand
    BY <1>4, CommandKeeps
  <1> QED BY <1>1, <1>2, <1>3, <1>4, ConvertSteps, NextSteps DEF vars, Command

\* Nobody is timed out, and no message deleted, but for an image that was banned in
\* that guild at some time since the message came.
THEOREM OnlyBannedArePunished == Spec => OnlyBannedImagesArePunished
  <1>1. FilterInv /\ [Next]_vars =>
          [\A m \in Messages : scan'[m].did # scan[m].did => window[m].ever # {}]_<<filterVars, present>>
    BY FilterStep DEF PunishedRightly
  <1>2. FilterInv /\ [Next]_vars => FilterInv'
    BY FilterStep
  <1> QED BY <1>1, <1>2, FilterInitInv, PTL DEF Spec, OnlyBannedImagesArePunished

\* A message with an image that is banned throughout its scan gets the whole
\* punishment, unless a call fails.
THEOREM BannedArePunished == Spec => BannedImagesArePunished
  <1>1. FilterInv /\ [Next]_vars =>
          [\A m \in Messages :
              Scanning(m) /\ scan'[m].pc = "done" /\ ~scan'[m].failed =>
                  (window[m].always # {} => scan'[m].did = Punishment)]_<<filterVars, present>>
    BY FilterStep DEF PunishedRightly
  <1>2. FilterInv /\ [Next]_vars => FilterInv'
    BY FilterStep
  <1> QED BY <1>1, <1>2, FilterInitInv, PTL DEF Spec, BannedImagesArePunished

\* The types of the whole system.
THEOREM HandlersTypeCorrect == Spec => []TypeOK
  <1>1. Init => FilterInv /\ VocarooTypeOK /\ ChannelTypeOK
    BY FilterInitInv, VocarooInitType, ChannelAssumption DEF Init, ChannelInit, ChannelTypeOK
  <1>2. FilterInv /\ VocarooTypeOK /\ ChannelTypeOK /\ [Next]_vars => ChannelTypeOK'
    BY ConvertSteps, NextSteps
       DEF ChannelTypeOK, vars, Message, FilterOf, Filter, Scan, Query, Compare, FetchMember, TimeOut,
           Notify, Delete, NoAnswer, LookUp, Answer, Silence, HeadAnswer, GetAnswer, Command, FilterCommand,
           Ban, Fetch, Insert, Unban, VocarooCommand, ReadTable, StoreCache, Enable, Disable, Hang, Withdraw
  <1>3. FilterInv /\ VocarooTypeOK /\ ChannelTypeOK /\ [Next]_vars
          => (FilterInv /\ VocarooTypeOK /\ ChannelTypeOK)'
    BY <1>2, FilterStep, VocarooStepType
  <1>4. FilterInv /\ VocarooTypeOK /\ ChannelTypeOK => TypeOK
    BY DEF FilterInv, FilterTypes, TypeOK
  <1> QED BY <1>1, <1>3, <1>4, PTL DEF Spec
=============================================================================
