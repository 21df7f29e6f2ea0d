------------------------- MODULE BirthdayConfirmProofs -------------------------
(***************************************************************************)
(* Proofs about BirthdayConfirm: its types, and that it implements         *)
(* BirthdayRequests when requests are stored before their timers fire.     *)
(***************************************************************************)
EXTENDS BirthdayConfirm, SequenceTheorems, TLAPS

\* Tasks are told apart by their kind and by what they run for.
LEMMA Names ==
    /\ \A k \in Requests : Setter(k) \in Setters /\ Timer(k) \in Timers
    /\ \A j, k \in Requests : /\ Setter(j) = Setter(k) => j = k
                              /\ Timer(j) = Timer(k) => j = k
                              /\ Setter(j) # Timer(k)
    /\ \A c \in Confirmers : Confirmer(c) \in Tasks \ (Setters \cup Timers)
    /\ \A o \in Others : Other(o) \in Tasks \ (Setters \cup Timers)
    /\ \A c \in Confirmers, o \in Others : Confirmer(c) # Other(o)
    /\ \A c, d \in Confirmers : Confirmer(c) = Confirmer(d) => c = d
    /\ Setters \subseteq Tasks /\ Timers \subseteq Tasks
    /\ \A t \in Setters : \E k \in Requests : t = Setter(k)
    /\ \A t \in Timers : \E k \in Requests : t = Timer(k)
  BY DEF Setter, Timer, Confirmer, Other, Setters, Timers, Tasks

\* A timer's name, or nothing.
LEMMA TimerOfEntry ==
    ASSUME NEW entry \in Requests \cup {None}
    PROVE  /\ TimerOf(entry) \subseteq Timers
           /\ \A k \in Requests : Timer(k) \in TimerOf(entry) <=> k = entry
  BY Names, ConfirmAssumption DEF TimerOf

\* Asking for a lock keeps the types of the queue and of the places.
LEMMA AskType ==
    ASSUME TypeOK, NEW t \in Tasks, NEW l \in Locks, NEW next \in States, Ask(t, l, next)
    PROVE  queue' \in [Locks -> Seq(Tasks)] /\ pc' \in [Tasks -> States]
  <1>1. Append(queue[l], t) \in Seq(Tasks)
    BY AppendProperties DEF TypeOK
  <1> QED BY <1>1 DEF Ask, TypeOK

\* So do going on and releasing.
LEMMA GotoType ==
    ASSUME TypeOK, NEW t, NEW next \in States, NEW aborted, Goto(t, next, aborted)
    PROVE  pc' \in [Tasks -> States]
  BY DEF Goto, TypeOK, States

LEMMA ReleaseType ==
    ASSUME TypeOK, NEW tasks, Release(tasks)
    PROVE  holders' \in [Locks -> SUBSET Tasks]
  BY DEF Release, TypeOK

\* The initial state is well-typed.
LEMMA InitType == Init => TypeOK
  <1> SUFFICES ASSUME Init PROVE TypeOK
    OBVIOUS
  <1>1. queue \in [Locks -> Seq(Tasks)] /\ holders \in [Locks -> SUBSET Tasks]
    BY DEF Init
  <1>2. pc \in [Tasks -> States]
    BY DEF Init, States
  <1>3. map \in [Authors -> Requests \cup {None}]
    BY DEF Init
  <1> QED BY <1>1, <1>2, <1>3 DEF Init, TypeOK

\* Every step keeps the types.
LEMMA StepType == TypeOK /\ [Next]_vars => TypeOK'
  <1> SUFFICES ASSUME TypeOK, [Next]_vars PROVE TypeOK'
    OBVIOUS
  <1>0. "data" \in Locks /\ "map" \in Locks
    BY DEF Locks
  <1>1. ASSUME NEW k \in Requests, SetBirthday(k) PROVE TypeOK'
    BY <1>0, <1>1, AskType, Names DEF SetBirthday, TypeOK, States
  <1>2. ASSUME NEW k \in Requests, CreateMap(k) PROVE TypeOK'
    BY <1>2, GotoType, ReleaseType DEF CreateMap, TypeOK, States
  <1>3. ASSUME NEW k \in Requests, Announce(k) PROVE TypeOK'
    <2>1. Append(queue["data"], Setter(k)) \in Seq(Tasks)
      BY <1>0, Names, AppendProperties DEF TypeOK
    <2> QED BY <1>0, <1>3, <2>1, Names DEF Announce, TypeOK, States
  <1>4. ASSUME NEW k \in Requests, AskForMap(k) PROVE TypeOK'
    BY <1>0, <1>4, AskType, Names DEF AskForMap, TypeOK, States
  <1>5. ASSUME NEW k \in Requests, Insert(k) PROVE TypeOK'
    BY <1>5, GotoType, ReleaseType DEF Insert, TypeOK, States
  <1>6. ASSUME NEW k \in Requests, Elapse(k) PROVE TypeOK'
    <2>1. queue' \in [Locks -> Seq(Tasks)] /\ pc' \in [Tasks -> States]
      BY <1>0, <1>6, AskType, Names DEF Elapse, TypeOK, States
    <2> QED BY <1>6, <2>1 DEF Elapse, TypeOK
  <1>7. ASSUME NEW k \in Requests, TimerAsksForMap(k) PROVE TypeOK'
    BY <1>0, <1>7, AskType, Names DEF TimerAsksForMap, TypeOK, States
  <1>8. ASSUME NEW k \in Requests, Notify(k) PROVE TypeOK'
    BY <1>8, GotoType DEF Notify, TypeOK, States
  <1>9. ASSUME NEW k \in Requests, Expire(k) PROVE TypeOK'
    BY <1>9, GotoType, ReleaseType DEF Expire, TypeOK, States
  <1>10. ASSUME NEW c \in Confirmers, Confirm(c) PROVE TypeOK'
    BY <1>0, <1>10, AskType, Names DEF Confirm, TypeOK, States
  <1>11. ASSUME NEW c \in Confirmers, LookForMap(c) PROVE TypeOK'
    <2>1. queue' \in [Locks -> Seq(Tasks)] /\ pc' \in [Tasks -> States]
      BY <1>0, <1>11, AskType, GotoType, Names DEF LookForMap, TypeOK, States
    <2> QED BY <1>11, <2>1 DEF LookForMap, TypeOK
  <1>12. ASSUME NEW c \in Confirmers, LookUp(c) PROVE TypeOK'
    <2>1. pc' \in [Tasks -> States]
      BY <1>12, GotoType DEF LookUp, States
    <2>2. holders' \in [Locks -> SUBSET Tasks]
      BY <1>12, ReleaseType DEF LookUp
    <2>3. confirmed' \subseteq Requests
      BY <1>12 DEF LookUp, TypeOK
    <2> QED BY <1>12, <2>1, <2>2, <2>3 DEF LookUp, TypeOK
  <1>13. ASSUME NEW c \in Confirmers, ConfirmEnds(c) PROVE TypeOK'
    BY <1>13, GotoType, ReleaseType DEF ConfirmEnds, TypeOK, States
  <1>14. ASSUME NEW o \in Others, NEW mode \in {"reading", "writing"}, UseData(o, mode) PROVE TypeOK'
    BY <1>0, <1>14, AskType, Names DEF UseData, TypeOK, States
  <1>15. ASSUME NEW o \in Others, DataUsed(o) PROVE TypeOK'
    BY <1>15, GotoType, ReleaseType DEF DataUsed, TypeOK, States
  <1>16. ASSUME NEW l \in Locks, Acquire(l) PROVE TypeOK'
    <2>1. Head(queue[l]) \in Tasks /\ Tail(queue[l]) \in Seq(Tasks)
      BY <1>16, HeadTailProperties DEF Acquire, TypeOK
    <2> QED BY <1>16, <2>1 DEF Acquire, TypeOK
  <1>17. CASE UNCHANGED vars
    BY <1>17 DEF vars, TypeOK
  <1> QED
    BY <1>1, <1>2, <1>3, <1>4, <1>5, <1>6, <1>7, <1>8, <1>9, <1>10, <1>11, <1>12, <1>13, <1>14,
       <1>15, <1>16, <1>17 DEF Next, SetterStep, TimerStep, ConfirmerStep

\* Every reachable state of the confirmation is well-typed: the map holds
\* requests and the locks and their queues hold tasks.
THEOREM ConfirmTypeCorrect == Spec => []TypeOK
  BY InitType, StepType, PTL DEF Spec
-----------------------------------------------------------------------------
\* A writer of the map is alone.
MapLock == \A t \in holders["map"] : t \in Setters \cup Timers => holders["map"] = {t}

\* A notice is sent with the map locked.
NoticeHolds == \A k \in Requests : pc[Timer(k)] = "notice" => Timer(k) \in holders["map"]

\* Before a request is stored its timer at most sleeps, and nobody can have met it.
Unstored(k) ==
    /\ pc[Setter(k)] \in {"new", "create", "announce"} => pc[Timer(k)] = "unborn"
    /\ pc[Setter(k)] \in {"read", "insert"} => pc[Timer(k)] = "sleeping"
    /\ pc[Setter(k)] \notin {"new", "create", "announce", "read", "insert"} => pc[Setter(k)] = "done"
    /\ pc[Setter(k)] # "done" => k \notin notified \cup confirmed /\ \A a \in Authors : map[a] # k

BeforeInsert == \A k \in Requests : Unstored(k)

\* A notice is out when it is being sent, and only for requests that nobody saved.
Outcome ==
    \A k \in Requests :
        /\ k \in notified => pc[Timer(k)] \in {"notice", "ended"} /\ k \notin confirmed
        /\ pc[Timer(k)] = "notice" => k \in notified

\* A request is stored under the author who made it.
Owner == \A a \in Authors : map[a] # None => author[map[a]] = a

SettleInv == MapLock /\ NoticeHolds /\ BeforeInsert /\ Outcome /\ Owner /\ TimersMatchEntries

\* At the start there are no entries, no timers and no holders.
LEMMA InitSettle == Init => SettleInv
  <1> SUFFICES ASSUME Init PROVE SettleInv
    OBVIOUS
  <1>1. /\ \A k \in Requests : pc[Setter(k)] = "new" /\ pc[Timer(k)] = "unborn"
        /\ holders["map"] = {} /\ notified = {} /\ confirmed = {}
        /\ \A a \in Authors : map[a] = None
    <2>1. \A k \in Requests : Setter(k) \in Tasks /\ Timer(k) \in Tasks /\ Timer(k) \notin Setters
      BY Names
    <2> QED BY <2>1, Names DEF Init, Locks
  <1>2. MapLock /\ NoticeHolds /\ BeforeInsert /\ Outcome /\ Owner
    BY <1>1, ConfirmAssumption DEF MapLock, NoticeHolds, BeforeInsert, Unstored, Outcome, Owner
  <1>3. TimersMatchEntries
    BY <1>1 DEF TimersMatchEntries
  <1> QED BY <1>2, <1>3 DEF SettleInv

\* Where a task and the timers it aborts are afterwards.
LEMMA GotoPlaces ==
    ASSUME TypeOK, NEW t \in Tasks, NEW next, NEW aborted \in SUBSET Timers, Goto(t, next, aborted)
    PROVE  /\ pc'[t] = next
           /\ \A o \in Tasks \ {t} : o \in aborted => pc'[o] = "ended"
           /\ \A o \in Tasks \ {t} : o \notin aborted => pc'[o] = pc[o]
  BY DEF Goto

\* Where a task that asks for a lock is afterwards.
LEMMA AskPlaces ==
    ASSUME TypeOK, NEW t \in Tasks, NEW l, NEW next, Ask(t, l, next)
    PROVE  pc'[t] = next /\ \A o \in Tasks \ {t} : pc'[o] = pc[o]
  BY DEF Ask, TypeOK

\* Letting go of a lock leaves a writer alone, and the timers that go on sending
\* their notices keep it.
LEMMA ReleaseLocks ==
    ASSUME MapLock, NoticeHolds, NEW tasks, Release(tasks),
           \A k \in Requests : pc'[Timer(k)] = "notice" =>
                                   pc[Timer(k)] = "notice" /\ Timer(k) \notin tasks
    PROVE  MapLock' /\ NoticeHolds'
  <1>1. holders'["map"] = holders["map"] \ tasks
    BY DEF Release, Locks
  <1> QED BY <1>1 DEF MapLock, NoticeHolds

\* Without a change of the locks it is enough that no timer begins its notice.
LEMMA SameLocks ==
    ASSUME MapLock, NoticeHolds, UNCHANGED holders,
           \A k \in Requests : pc'[Timer(k)] = "notice" => pc[Timer(k)] = "notice"
    PROVE  MapLock' /\ NoticeHolds'
  BY DEF MapLock, NoticeHolds

\* A step that moves neither commands that set, nor timers, nor requests, keeps
\* what is said of them.
LEMMA Unrelated ==
    ASSUME SettleInv, MapLock', NoticeHolds', UNCHANGED <<author, map, notified, confirmed>>,
           \A k \in Requests : pc'[Setter(k)] = pc[Setter(k)] /\ pc'[Timer(k)] = pc[Timer(k)]
    PROVE  SettleInv'
  <1>1. BeforeInsert' /\ Outcome' /\ Owner'
    BY DEF SettleInv, BeforeInsert, Unstored, Outcome, Owner
  <1>2. TimersMatchEntries'
    BY DEF SettleInv, TimersMatchEntries
  <1> QED BY <1>1, <1>2 DEF SettleInv

\* The steps of a set command before it stores its request.
LEMMA SetterSettle ==
    ASSUME TypeOK, SettleInv, NEW k \in Requests,
           SetBirthday(k) \/ CreateMap(k) \/ Announce(k) \/ AskForMap(k)
    PROVE  SettleInv'
  <1> USE DEF Locks
  <1>n. Setter(k) \in Tasks /\ Timer(k) \in Tasks /\ Setter(k) \in Setters /\ Timer(k) # Setter(k)
    BY Names
  <1>1. /\ \A j \in Requests \ {k} : pc'[Setter(j)] = pc[Setter(j)] /\ pc'[Timer(j)] = pc[Timer(j)]
        /\ \/ pc[Setter(k)] = "new" /\ pc'[Setter(k)] = "create" /\ pc'[Timer(k)] = pc[Timer(k)]
           \/ pc[Setter(k)] = "create" /\ pc'[Setter(k)] = "announce" /\ pc'[Timer(k)] = pc[Timer(k)]
           \/ pc[Setter(k)] = "announce" /\ pc'[Setter(k)] = "read" /\ pc'[Timer(k)] = "sleeping"
           \/ pc[Setter(k)] = "read" /\ pc'[Setter(k)] = "insert" /\ pc'[Timer(k)] = pc[Timer(k)]
    <2>1. CASE SetBirthday(k)
      BY <1>n, <2>1, AskPlaces, Names DEF SetBirthday
    <2>2. CASE CreateMap(k)
      BY <1>n, <2>2, GotoPlaces, Names DEF CreateMap
    <2>3. CASE Announce(k)
      <3>1. pc' = [pc EXCEPT ![Timer(k)] = "sleeping", ![Setter(k)] = "read"]
        BY <2>3 DEF Announce
      <3>2. pc'[Setter(k)] = "read" /\ pc'[Timer(k)] = "sleeping" /\ pc[Setter(k)] = "announce"
        BY <1>n, <2>3, <3>1 DEF Announce, TypeOK
      <3>3. \A t \in Tasks \ {Setter(k), Timer(k)} : pc'[t] = pc[t]
        BY <3>1 DEF TypeOK
      <3> QED BY <3>2, <3>3, Names
    <2>4. CASE AskForMap(k)
      BY <1>n, <2>4, AskPlaces, Names DEF AskForMap
    <2> QED BY <2>1, <2>2, <2>3, <2>4
  <1>2. UNCHANGED <<author, map, notified, confirmed>>
    BY DEF SetBirthday, CreateMap, Announce, AskForMap
  <1>3. \A j \in Requests : pc'[Timer(j)] = "notice" => pc[Timer(j)] = "notice"
    BY <1>1
  <1>4. MapLock' /\ NoticeHolds'
    <2>1. CASE CreateMap(k)
      <3>1. Release({Setter(k)})
        BY <2>1 DEF CreateMap
      <3>2. \A j \in Requests : Timer(j) \notin {Setter(k)}
        BY Names
      <3> QED BY <1>3, <3>1, <3>2, ReleaseLocks DEF SettleInv
    <2>2. CASE SetBirthday(k) \/ Announce(k) \/ AskForMap(k)
      BY <1>3, <2>2, SameLocks DEF SettleInv, SetBirthday, Announce, AskForMap
    <2> QED BY <2>1, <2>2
  <1>5. BeforeInsert' /\ Outcome' /\ Owner'
    <2>1. Unstored(k)'
      BY <1>1, <1>2 DEF SettleInv, BeforeInsert, Unstored
    <2>2. \A j \in Requests \ {k} : Unstored(j)'
      BY <1>1, <1>2 DEF SettleInv, BeforeInsert, Unstored
    <2>3. Outcome'
      BY <1>1, <1>2 DEF SettleInv, BeforeInsert, Unstored, Outcome
    <2>4. Owner'
      BY <1>2 DEF SettleInv, Owner
    <2> QED BY <2>1, <2>2, <2>3, <2>4 DEF BeforeInsert
  <1>6. TimersMatchEntries'
    BY <1>1, <1>2 DEF SettleInv, TimersMatchEntries
  <1> QED BY <1>4, <1>5, <1>6 DEF SettleInv

\* Storing a request: the command is alone with the map, so that no notice is
\* being sent, and the only timer that loses its entry is aborted.
LEMMA InsertSettle ==
    ASSUME TypeOK, SettleInv, NEW k \in Requests, Insert(k)
    PROVE  SettleInv'
  <1> DEFINE old == map[author[k]]
  <1> USE DEF Locks
  <1>n. Setter(k) \in Tasks /\ Timer(k) \in Tasks /\ Setter(k) \in Setters /\ Timer(k) # Setter(k)
    BY Names
  <1>t. author[k] \in Authors /\ old \in Requests \cup {None}
    BY DEF TypeOK
  <1>1. holders["map"] = {Setter(k)} /\ \A j \in Requests : pc[Timer(j)] # "notice"
    BY <1>n, Names DEF Insert, SettleInv, MapLock, NoticeHolds
  <1>2. /\ pc[Timer(k)] = "sleeping" /\ k \notin notified \cup confirmed
        /\ \A a \in Authors : map[a] # k
    BY DEF Insert, SettleInv, BeforeInsert, Unstored
  <1>3. old \in Requests => pc[Setter(old)] = "done" /\ author[old] = author[k]
    BY <1>t, ConfirmAssumption DEF SettleInv, BeforeInsert, Unstored, Owner
  <1>4. Goto(Setter(k), "done", TimerOf(old)) /\ Release({Setter(k)} \cup TimerOf(old))
    BY DEF Insert
  <1>5. /\ pc'[Setter(k)] = "done" /\ pc'[Timer(k)] = "sleeping"
        /\ \A j \in Requests \ {k} : pc'[Setter(j)] = pc[Setter(j)]
        /\ \A j \in Requests \ {k} : pc'[Timer(j)] = IF j = old THEN "ended" ELSE pc[Timer(j)]
    <2>1. TimerOf(old) \in SUBSET Timers
      BY <1>t, TimerOfEntry
    <2>2. \A j \in Requests : Timer(j) \in TimerOf(old) <=> j = old
      BY <1>t, TimerOfEntry
    <2>3. /\ pc'[Setter(k)] = "done"
          /\ \A o \in Tasks \ {Setter(k)} : o \in TimerOf(old) => pc'[o] = "ended"
          /\ \A o \in Tasks \ {Setter(k)} : o \notin TimerOf(old) => pc'[o] = pc[o]
      BY <1>n, <1>4, <2>1, GotoPlaces
    <2>4. \A j \in Requests : Setter(j) \notin TimerOf(old)
      BY <2>1, Names
    <2> QED BY <1>n, <1>t, <1>2, <2>2, <2>3, <2>4, Names
  <1>6. map' = [map EXCEPT ![author[k]] = k] /\ UNCHANGED <<author, notified, confirmed>>
    BY DEF Insert
  <1>7. \A a \in Authors : map'[a] = IF a = author[k] THEN k ELSE map[a]
    BY <1>6 DEF TypeOK
  <1>8. MapLock' /\ NoticeHolds'
    <2>1. \A j \in Requests : pc'[Timer(j)] # "notice"
      BY <1>1, <1>5
    <2> QED BY <1>4, <2>1, ReleaseLocks DEF SettleInv
  <1>9. BeforeInsert'
    <2>1. Unstored(k)'
      BY <1>5 DEF Unstored
    <2>2. ASSUME NEW j \in Requests \ {k} PROVE Unstored(j)'
      BY <1>3, <1>5, <1>6, <1>7 DEF SettleInv, BeforeInsert, Unstored
    <2> QED BY <2>1, <2>2 DEF BeforeInsert
  <1>10. Outcome'
    BY <1>1, <1>2, <1>5, <1>6 DEF SettleInv, Outcome
  <1>11. Owner'
    BY <1>6, <1>7 DEF SettleInv, Owner
  <1>12. TimersMatchEntries'
    <2>1. map'[author'[k]] = k /\ k \notin confirmed' /\ pc'[Timer(k)] = "sleeping"
      BY <1>t, <1>2, <1>5, <1>6, <1>7
    <2>2. ASSUME NEW j \in Requests \ {k}, pc'[Setter(j)] = "done"
          PROVE  map'[author'[j]] = j /\ j \notin confirmed'
                 <=> pc'[Timer(j)] \in {"sleeping", "wake", "expire", "notice"}
      <3>1. author[j] \in Authors /\ pc[Setter(j)] = "done"
        BY <1>5, <2>2 DEF TypeOK
      <3>2. CASE author[j] = author[k]
        <4>1. map'[author'[j]] # j
          BY <1>6, <1>7, <3>1, <3>2
        <4> QED BY <1>5, <3>1, <3>2, <4>1 DEF SettleInv, TimersMatchEntries
      <3>3. CASE author[j] # author[k]
        <4>1. j # old
          BY <1>3, <3>3
        <4> QED BY <1>5, <1>6, <1>7, <3>1, <3>3, <4>1 DEF SettleInv, TimersMatchEntries
      <3> QED BY <3>2, <3>3
    <2> QED BY <2>1, <2>2 DEF TimersMatchEntries
  <1> QED BY <1>8, <1>9, <1>10, <1>11, <1>12 DEF SettleInv

\* The steps of a timer.  Past its sleep its request is stored, by the
\* assumption that storing takes less than 30 seconds.
LEMMA TimerSettle ==
    ASSUME ~SlowInsert, TypeOK, SettleInv, NEW k \in Requests, TimerStep(k)
    PROVE  SettleInv'
  <1> USE DEF Locks
  <1>n. Setter(k) \in Tasks /\ Timer(k) \in Tasks /\ Timer(k) \in Timers
    BY Names
  <1>a. author[k] \in Authors
    BY DEF TypeOK
  <1>e. CASE Elapse(k) /\ pc[Timer(k)] # "sleeping"
    <2>1. MapLock' /\ NoticeHolds'
      BY <1>e, SameLocks DEF Elapse, SettleInv
    <2> QED BY <1>e, <2>1, Unrelated DEF Elapse
  <1>m. CASE \/ Elapse(k) /\ pc[Timer(k)] = "sleeping"
             \/ TimerAsksForMap(k) \/ Notify(k)
    <2>1. /\ \A j \in Requests : pc'[Setter(j)] = pc[Setter(j)]
          /\ \A j \in Requests \ {k} : pc'[Timer(j)] = pc[Timer(j)]
          /\ \/ pc[Timer(k)] = "sleeping" /\ pc'[Timer(k)] = "wake" /\ UNCHANGED notified
             \/ pc[Timer(k)] = "wake" /\ pc'[Timer(k)] = "expire" /\ UNCHANGED notified
             \/ /\ pc[Timer(k)] = "expire" /\ pc'[Timer(k)] = "notice"
                /\ notified' = notified \cup {k} /\ Timer(k) \in holders["map"]
      <3>1. CASE Elapse(k) /\ pc[Timer(k)] = "sleeping"
        BY <1>n, <3>1, AskPlaces, Names DEF Elapse
      <3>2. CASE TimerAsksForMap(k)
        BY <1>n, <3>2, AskPlaces, Names DEF TimerAsksForMap
      <3>3. CASE Notify(k)
        BY <1>n, <3>3, GotoPlaces, Names DEF Notify
      <3> QED BY <1>m, <3>1, <3>2, <3>3
    <2>2. UNCHANGED <<author, map, confirmed, holders>>
      BY <1>m DEF Elapse, TimerAsksForMap, Notify
    <2>3. pc[Setter(k)] = "done"
      <3>1. CASE Elapse(k)
        BY <3>1 DEF Elapse
      <3>2. CASE pc[Timer(k)] \in {"wake", "expire"}
        BY <3>2 DEF SettleInv, BeforeInsert, Unstored
      <3> QED BY <1>m, <2>1, <3>1, <3>2 DEF TimerAsksForMap, Notify
    <2>4. MapLock' /\ NoticeHolds'
      BY <2>1, <2>2 DEF SettleInv, MapLock, NoticeHolds
    <2>5. BeforeInsert'
      <3>1. Unstored(k)'
        BY <2>1, <2>3 DEF Unstored
      <3>2. ASSUME NEW j \in Requests \ {k} PROVE Unstored(j)'
        BY <2>1, <2>2 DEF SettleInv, BeforeInsert, Unstored
      <3> QED BY <3>1, <3>2 DEF BeforeInsert
    <2>6. TimersMatchEntries'
      BY <2>1, <2>2 DEF SettleInv, TimersMatchEntries
    <2>7. Outcome'
      <3>1. k \notin confirmed
        BY <2>1, <2>3 DEF SettleInv, TimersMatchEntries
      <3>2. k \notin notified
        BY <2>1 DEF SettleInv, Outcome
      <3> QED BY <2>1, <2>2, <3>1, <3>2 DEF SettleInv, Outcome
    <2>8. Owner'
      BY <2>2 DEF SettleInv, Owner
    <2> QED BY <2>4, <2>5, <2>6, <2>7, <2>8 DEF SettleInv
  <1>x. CASE Expire(k)
    <2>1. pc[Timer(k)] = "notice" /\ pc[Setter(k)] = "done"
      BY <1>x DEF Expire, SettleInv, BeforeInsert, Unstored
    <2>2. map[author[k]] = k /\ k \in notified /\ k \notin confirmed
      BY <2>1 DEF SettleInv, TimersMatchEntries, Outcome
    <2>3. /\ \A j \in Requests : pc'[Setter(j)] = pc[Setter(j)]
          /\ \A j \in Requests \ {k} : pc'[Timer(j)] = pc[Timer(j)]
          /\ pc'[Timer(k)] = "ended"
      BY <1>n, <1>x, GotoPlaces, Names DEF Expire
    <2>4. UNCHANGED <<author, notified, confirmed>> /\ map' = [map EXCEPT ![author[k]] = None]
      BY <1>x DEF Expire
    <2>5. \A a \in Authors : map'[a] = IF a = author[k] THEN None ELSE map[a]
      BY <2>4 DEF TypeOK
    <2>6. MapLock' /\ NoticeHolds'
      <3>1. Release({Timer(k)})
        BY <1>x DEF Expire
      <3>2. \A j \in Requests : pc'[Timer(j)] = "notice" =>
                pc[Timer(j)] = "notice" /\ Timer(j) \notin {Timer(k)}
        BY <2>3, Names
      <3> QED BY <3>1, <3>2, ReleaseLocks DEF SettleInv
    <2>7. BeforeInsert'
      BY <2>1, <2>3, <2>4, <2>5, ConfirmAssumption DEF SettleInv, BeforeInsert, Unstored
    <2>8. Outcome'
      BY <2>3, <2>4 DEF SettleInv, Outcome
    <2>9. Owner'
      BY <2>4, <2>5 DEF SettleInv, Owner
    <2>10. TimersMatchEntries'
      <3> SUFFICES ASSUME NEW j \in Requests, pc'[Setter(j)] = "done"
                   PROVE  map'[author'[j]] = j /\ j \notin confirmed'
                          <=> pc'[Timer(j)] \in {"sleeping", "wake", "expire", "notice"}
        BY DEF TimersMatchEntries
      <3>1. author[j] \in Authors /\ pc[Setter(j)] = "done" /\ None \notin Requests
        BY <2>3, ConfirmAssumption DEF TypeOK
      <3>2. CASE j = k
        BY <2>3, <2>4, <2>5, <3>1, <3>2
      <3>3. CASE j # k
        BY <2>2, <2>3, <2>4, <2>5, <3>1, <3>3 DEF SettleInv, TimersMatchEntries
      <3> QED BY <3>2, <3>3
    <2> QED BY <2>6, <2>7, <2>8, <2>9, <2>10 DEF SettleInv
  <1> QED BY <1>e, <1>m, <1>x DEF TimerStep

\* A request that is found in the map has no notice out: its lookup holds the
\* map, so that no timer is sending one.
LEMMA FoundEntry ==
    ASSUME TypeOK, SettleInv, NEW c \in Confirmers, LookUp(c), map[caller[c]] # None
    PROVE  LET entry == map[caller[c]]
           IN  /\ entry \in Requests \ notified /\ author[entry] = caller[c]
               /\ pc[Setter(entry)] = "done"
  <1> DEFINE entry == map[caller[c]]
  <1>1. caller[c] \in Authors /\ entry \in Requests
    BY DEF TypeOK
  <1>2. author[entry] = caller[c] /\ pc[Setter(entry)] = "done"
    BY <1>1 DEF SettleInv, Owner, BeforeInsert, Unstored
  <1>3. Confirmer(c) \in holders["map"] /\ Confirmer(c) # Timer(entry) /\ Timer(entry) \in Timers
    BY <1>1, Names DEF LookUp
  <1>4. pc[Timer(entry)] # "notice"
    BY <1>1, <1>3 DEF SettleInv, MapLock, NoticeHolds
  <1>5. entry \notin notified
    <2> SUFFICES ASSUME entry \in notified PROVE FALSE
      OBVIOUS
    <2>1. pc[Timer(entry)] = "ended" /\ entry \notin confirmed
      BY <1>1, <1>4 DEF SettleInv, Outcome
    <2> QED BY <1>1, <1>2, <2>1 DEF SettleInv, TimersMatchEntries
  <1> QED BY <1>1, <1>2, <1>5

\* Looking a request up: it is saved and its timer aborted in one step.
LEMMA LookUpSettle ==
    ASSUME TypeOK, SettleInv, NEW c \in Confirmers, LookUp(c)
    PROVE  SettleInv'
  <1> DEFINE entry == map[caller[c]]
  <1> USE DEF Locks
  <1>t. entry \in Requests \cup {None} /\ None \notin Requests /\ Confirmer(c) \in Tasks
    BY Names, ConfirmAssumption DEF TypeOK
  <1>1. /\ \A j \in Requests : pc'[Setter(j)] = pc[Setter(j)]
        /\ \A j \in Requests : pc'[Timer(j)] = IF j = entry THEN "ended" ELSE pc[Timer(j)]
    <2>1. TimerOf(entry) \in SUBSET Timers
      BY <1>t, TimerOfEntry
    <2>2. \A j \in Requests : Timer(j) \in TimerOf(entry) <=> j = entry
      BY <1>t, TimerOfEntry
    <2>3. /\ \A o \in Tasks \ {Confirmer(c)} : o \in TimerOf(entry) => pc'[o] = "ended"
          /\ \A o \in Tasks \ {Confirmer(c)} : o \notin TimerOf(entry) => pc'[o] = pc[o]
      BY <1>t, <2>1, GotoPlaces DEF LookUp
    <2>4. \A j \in Requests : Setter(j) \notin TimerOf(entry)
      BY <2>1, Names
    <2> QED BY <2>2, <2>3, <2>4, Names
  <1>2. UNCHANGED <<author, map, notified>> /\ confirmed' = confirmed \cup ({entry} \ {None})
    BY DEF LookUp
  <1>3. MapLock' /\ NoticeHolds'
    <2>1. Release(TimerOf(entry))
      BY DEF LookUp
    <2>2. \A j \in Requests : pc'[Timer(j)] = "notice" =>
              pc[Timer(j)] = "notice" /\ Timer(j) \notin TimerOf(entry)
      BY <1>1, <1>t, TimerOfEntry
    <2> QED BY <2>1, <2>2, ReleaseLocks DEF SettleInv
  <1>4. entry # None => /\ entry \in Requests \ notified /\ pc[Setter(entry)] = "done"
    BY FoundEntry
  <1>5. BeforeInsert'
    <2> SUFFICES ASSUME NEW j \in Requests PROVE Unstored(j)'
      BY DEF BeforeInsert
    <2>1. Unstored(j)
      BY DEF SettleInv, BeforeInsert
    <2>2. CASE j = entry
      BY <1>t, <1>1, <1>4, <2>2 DEF Unstored
    <2>3. CASE j # entry
      BY <1>t, <1>1, <1>2, <2>1, <2>3 DEF Unstored
    <2> QED BY <2>2, <2>3
  <1>6. Outcome'
    BY <1>1, <1>2, <1>4 DEF SettleInv, Outcome
  <1>7. Owner'
    BY <1>2 DEF SettleInv, Owner
  <1>8. TimersMatchEntries'
    BY <1>t, <1>1, <1>2 DEF SettleInv, TimersMatchEntries
  <1> QED BY <1>3, <1>5, <1>6, <1>7, <1>8 DEF SettleInv

\* Getting a lock, which a writer does only when nobody has it.
LEMMA AcquireSettle ==
    ASSUME TypeOK, SettleInv, NEW l \in Locks, Acquire(l)
    PROVE  SettleInv'
  <1> USE DEF Locks
  <1>1. UNCHANGED <<pc, author, map, notified, confirmed>>
    BY DEF Acquire
  <1>2. CASE UNCHANGED holders
    BY <1>1, <1>2, SameLocks, Unrelated DEF SettleInv
  <1>3. CASE /\ CanShare(Head(queue[l]), l)
             /\ holders' = [holders EXCEPT ![l] = @ \cup {Head(queue[l])}]
    <2>1. NoticeHolds'
      BY <1>1, <1>3 DEF SettleInv, NoticeHolds, TypeOK
    <2>2. MapLock'
      <3>1. CASE l = "data"
        BY <1>3, <3>1 DEF SettleInv, MapLock, TypeOK
      <3>2. CASE l = "map"
        BY <1>3, <3>2 DEF SettleInv, MapLock, TypeOK, CanShare, Writes
      <3> QED BY <3>1, <3>2
    <2> QED BY <1>1, <2>1, <2>2, Unrelated
  <1> QED BY <1>2, <1>3 DEF Acquire

\* The other steps of the confirmers and those of the other tasks.
LEMMA OtherSettle ==
    ASSUME TypeOK, SettleInv,
           \/ \E c \in Confirmers : Confirm(c) \/ LookForMap(c) \/ ConfirmEnds(c)
           \/ \E o \in Others : (\E mode \in {"reading", "writing"} : UseData(o, mode)) \/ DataUsed(o)
    PROVE  SettleInv'
  <1> USE DEF Locks
  <1>1. PICK t \in Tasks \ (Setters \cup Timers), next \in States :
            \/ \E l \in Locks : Ask(t, l, next) /\ UNCHANGED holders
            \/ Goto(t, next, {}) /\ UNCHANGED holders
            \/ Goto(t, next, {}) /\ Release({t})
    <2>1. CASE \E c \in Confirmers : Confirm(c) \/ LookForMap(c) \/ ConfirmEnds(c)
      <3>1. PICK c \in Confirmers : Confirm(c) \/ LookForMap(c) \/ ConfirmEnds(c)
        BY <2>1
      <3> QED BY <3>1, Names DEF Confirm, LookForMap, ConfirmEnds, States
    <2>2. CASE \E o \in Others : (\E mode \in {"reading", "writing"} : UseData(o, mode)) \/ DataUsed(o)
      <3>1. PICK o \in Others : (\E mode \in {"reading", "writing"} : UseData(o, mode)) \/ DataUsed(o)
        BY <2>2
      <3>2. CASE DataUsed(o)
        <4>1. Goto(Other(o), "idle", {}) /\ Release({Other(o)})
          BY <3>2 DEF DataUsed
        <4> QED BY <4>1, Names DEF States
      <3>3. CASE \E mode \in {"reading", "writing"} : UseData(o, mode)
        <4>1. PICK mode \in {"reading", "writing"} : UseData(o, mode)
          BY <3>3
        <4>2. Ask(Other(o), "data", mode) /\ UNCHANGED holders
          BY <4>1 DEF UseData
        <4> QED BY <4>2, Names DEF States
      <3> QED BY <3>1, <3>2, <3>3
    <2> QED BY <2>1, <2>2
  <1>2. \A k \in Requests : pc'[Setter(k)] = pc[Setter(k)] /\ pc'[Timer(k)] = pc[Timer(k)]
    <2>1. \A u \in Tasks \ {t} : pc'[u] = pc[u]
      BY <1>1, AskPlaces, GotoPlaces
    <2> QED BY <2>1, Names
  <1>3. UNCHANGED <<author, map, notified, confirmed>>
    BY DEF Confirm, LookForMap, ConfirmEnds, UseData, DataUsed
  <1>4. MapLock' /\ NoticeHolds'
    <2>1. CASE UNCHANGED holders
      BY <1>2, <2>1, SameLocks DEF SettleInv
    <2>2. CASE Release({t})
      <3>1. \A k \in Requests : Timer(k) \notin {t}
        BY Names
      <3> QED BY <1>2, <2>2, <3>1, ReleaseLocks DEF SettleInv
    <2> QED BY <1>1, <2>1, <2>2
  <1> QED BY <1>2, <1>3, <1>4, Unrelated

\* The invariant is inductive.
LEMMA StepSettle ==
    ASSUME ~SlowInsert, TypeOK, SettleInv, [Next]_vars
    PROVE  SettleInv'
  <1>1. CASE UNCHANGED vars
    BY <1>1, SameLocks, Unrelated DEF vars, SettleInv
  <1> QED
    BY <1>1, SetterSettle, InsertSettle, TimerSettle, LookUpSettle, AcquireSettle, OtherSettle
    DEF Next, SetterStep, ConfirmerStep

\* When storing a request takes less than 30 seconds, a timer that will still
\* fire has the request it will remove and the other way round, however commands
\* and timers interleave.
THEOREM TimersAlwaysMatch ==
    ASSUME ~SlowInsert
    PROVE  Spec => []TimersMatchEntries
  <1>1. TypeOK /\ SettleInv /\ [Next]_vars => SettleInv'
    BY StepSettle
  <1>2. SettleInv => TimersMatchEntries
    BY DEF SettleInv
  <1> QED BY <1>1, <1>2, InitSettle, ConfirmTypeCorrect, PTL DEF Spec
-----------------------------------------------------------------------------
\* What is left alone by a step keeps what has become of every request.
LEMMA SameStatus ==
    ASSUME UNCHANGED <<author, map, notified, confirmed>>,
           \A k \in Requests : (pc'[Setter(k)] = "done") <=> (pc[Setter(k)] = "done")
    PROVE  UNCHANGED Promise!vars
  <1>1. status' = status
    BY DEF status
  <1> QED BY <1>1 DEF Promise!vars

\* Storing a request is submitting it: it had no status, and of the author's
\* other requests only the one in the map was pending.
LEMMA InsertSubmits ==
    ASSUME TypeOK, SettleInv, NEW k \in Requests, Insert(k)
    PROVE  Promise!Next
  <1> DEFINE old == map[author[k]]
  <1>n. None \notin Requests /\ author \in [Requests -> Authors]
    BY ConfirmAssumption DEF TypeOK
  <1>t. Setter(k) \in Tasks /\ \A j \in Requests : Timer(j) \in Timers /\ Setter(j) \in Tasks
    BY Names
  <1>1. pc[Setter(k)] = "insert" /\ k \notin notified \cup confirmed /\ \A a \in Authors : map[a] # k
    BY DEF Insert, SettleInv, BeforeInsert, Unstored
  <1>2. /\ \A a \in Authors : map'[a] = IF a = author[k] THEN k ELSE map[a]
        /\ UNCHANGED <<author, notified, confirmed>>
    BY DEF Insert, TypeOK
  <1>3. /\ pc'[Setter(k)] = "done"
        /\ \A j \in Requests \ {k} : pc'[Setter(j)] = pc[Setter(j)]
    <2>1. old \in Requests \cup {None}
      BY <1>n DEF TypeOK
    <2>2. TimerOf(old) \in SUBSET Timers /\ Goto(Setter(k), "done", TimerOf(old))
      BY <2>1, TimerOfEntry DEF Insert
    <2> QED BY <1>t, <2>2, GotoPlaces, Names
  <1>4. status[k] = "none"
    BY <1>n, <1>1 DEF status
  <1>5. ASSUME NEW j \in Requests
        PROVE  status'[j] = IF j = k THEN "pending"
                            ELSE IF author[j] = author[k] /\ status[j] = "pending" THEN "replaced"
                            ELSE status[j]
    <2>1. CASE j = k
      BY <1>n, <1>1, <1>2, <2>1 DEF status
    <2>2. CASE j # k /\ author[j] # author[k]
      BY <1>n, <1>2, <1>3, <2>2 DEF status
    <2>3. CASE j # k /\ author[j] = author[k] /\ map[author[j]] = j
      <3>1. pc[Setter(j)] = "done"
        BY <1>n, <2>3 DEF SettleInv, BeforeInsert, Unstored
      <3> QED BY <1>n, <1>2, <1>3, <2>3, <3>1 DEF status
    <2>4. CASE j # k /\ author[j] = author[k] /\ map[author[j]] # j
      BY <1>n, <1>2, <1>3, <2>4 DEF status
    <2> QED BY <2>1, <2>2, <2>3, <2>4
  <1>6. Promise!Submit(k)
    <2>1. DOMAIN status' = Requests /\ status' = [j \in Requests |-> status'[j]]
      BY DEF status
    <2> QED BY <1>4, <1>5, <2>1 DEF Promise!Submit
  <1> QED BY <1>2, <1>6 DEF Promise!Next

\* A notice expires a pending request.
LEMMA NotifySettles ==
    ASSUME TypeOK, SettleInv, NEW k \in Requests, Notify(k)
    PROVE  Promise!Next
  <1>1. pc[Timer(k)] = "expire"
    BY DEF Notify
  <1>2. pc[Setter(k)] = "done" /\ map[author[k]] = k /\ k \notin confirmed /\ k \notin notified
    BY <1>1 DEF SettleInv, BeforeInsert, Unstored, TimersMatchEntries, Outcome
  <1>3. /\ UNCHANGED <<author, map, confirmed>> /\ notified' = notified \cup {k}
        /\ \A j \in Requests : pc'[Setter(j)] = pc[Setter(j)]
    BY Names, GotoPlaces DEF Notify
  <1>4. status[k] = "pending"
    BY <1>2 DEF status
  <1>5. \A j \in Requests : status'[j] = IF j = k THEN "expired" ELSE status[j]
    BY <1>2, <1>3 DEF status
  <1>6. Promise!Settle(k, "expired")
    <2>1. /\ status' = [j \in Requests |-> status'[j]]
          /\ DOMAIN status = Requests
      BY DEF status
    <2> QED BY <1>4, <1>5, <2>1 DEF Promise!Settle
  <1> QED BY <1>3, <1>6 DEF Promise!Next

\* Looking a pending request up confirms it; one that is confirmed stays so.
LEMMA LookUpSettles ==
    ASSUME TypeOK, SettleInv, NEW c \in Confirmers, LookUp(c)
    PROVE  Promise!Next \/ UNCHANGED Promise!vars
  <1> DEFINE entry == map[caller[c]]
  <1>n. None \notin Requests /\ entry \in Requests \cup {None} /\ Confirmer(c) \in Tasks
    BY Names, ConfirmAssumption DEF TypeOK
  <1>1. /\ UNCHANGED <<author, map, notified>> /\ confirmed' = confirmed \cup ({entry} \ {None})
    BY DEF LookUp
  <1>2. \A j \in Requests : pc'[Setter(j)] = pc[Setter(j)]
    <2>1. TimerOf(entry) \in SUBSET Timers
      BY <1>n, TimerOfEntry
    <2> QED BY <1>n, <2>1, GotoPlaces, Names DEF LookUp
  <1>3. CASE entry = None \/ entry \in confirmed
    <2>1. UNCHANGED confirmed
      BY <1>1, <1>3
    <2> QED BY <1>1, <1>2, <2>1, SameStatus
  <1>4. CASE entry # None /\ entry \notin confirmed
    <2>1. /\ entry \in Requests \ notified /\ map[author[entry]] = entry
      BY <1>4, FoundEntry
    <2>2. status[entry] = "pending"
      BY <1>4, <2>1 DEF status
    <2>3. \A j \in Requests : status'[j] = IF j = entry THEN "confirmed" ELSE status[j]
      BY <1>1, <1>2, <1>4, <2>1 DEF status
    <2>4. Promise!Settle(entry, "confirmed")
      <3>1. status' = [j \in Requests |-> status'[j]] /\ DOMAIN status = Requests
        BY DEF status
      <3> QED BY <2>2, <2>3, <3>1 DEF Promise!Settle
    <2> QED BY <1>1, <2>1, <2>4 DEF Promise!Next
  <1> QED BY <1>3, <1>4

\* Removing the request whose notice is out leaves it expired.
LEMMA ExpireStutters ==
    ASSUME TypeOK, SettleInv, NEW k \in Requests, Expire(k)
    PROVE  UNCHANGED Promise!vars
  <1>n. None \notin Requests /\ \A j \in Requests : author[j] \in Authors
    BY ConfirmAssumption DEF TypeOK
  <1>1. pc[Timer(k)] = "notice" /\ pc[Setter(k)] = "done"
    BY DEF Expire, SettleInv, BeforeInsert, Unstored
  <1>2. map[author[k]] = k /\ k \in notified
    BY <1>1 DEF SettleInv, TimersMatchEntries, Outcome
  <1>3. /\ \A a \in Authors : map'[a] = IF a = author[k] THEN None ELSE map[a]
        /\ UNCHANGED <<author, notified, confirmed>>
    BY DEF Expire, TypeOK
  <1>4. \A j \in Requests : pc'[Setter(j)] = pc[Setter(j)]
    BY Names, GotoPlaces DEF Expire
  <1>5. ASSUME NEW j \in Requests PROVE status'[j] = status[j]
    <2>1. CASE j = k
      BY <1>2, <1>3, <2>1 DEF status
    <2>2. CASE j # k /\ author[j] = author[k]
      BY <1>n, <1>2, <1>3, <1>4, <2>2 DEF status
    <2>3. CASE author[j] # author[k]
      BY <1>n, <1>3, <1>4, <2>3 DEF status
    <2> QED BY <2>1, <2>2, <2>3
  <1>6. status' = status
    <2>1. status' = [j \in Requests |-> status'[j]] /\ status = [j \in Requests |-> status[j]]
      BY DEF status
    <2> QED BY <1>5, <2>1
  <1> QED BY <1>3, <1>6 DEF Promise!vars

\* No other step of a task, and no lock, changes what became of a request.
LEMMA OtherStutters ==
    ASSUME TypeOK, SettleInv,
           \/ \E k \in Requests : \/ SetBirthday(k) \/ CreateMap(k) \/ Announce(k) \/ AskForMap(k)
                                  \/ Elapse(k) \/ TimerAsksForMap(k)
           \/ \E c \in Confirmers : Confirm(c) \/ LookForMap(c) \/ ConfirmEnds(c)
           \/ \E o \in Others : (\E mode \in {"reading", "writing"} : UseData(o, mode)) \/ DataUsed(o)
           \/ \E l \in Locks : Acquire(l)
    PROVE  UNCHANGED Promise!vars
  <1>1. UNCHANGED <<author, map, notified, confirmed>>
    BY DEF SetBirthday, CreateMap, Announce, AskForMap, Elapse, TimerAsksForMap, Confirm,
           LookForMap, ConfirmEnds, UseData, DataUsed, Acquire
  <1>2. \A k \in Requests : (pc'[Setter(k)] = "done") <=> (pc[Setter(k)] = "done")
    <2>1. ASSUME NEW k \in Requests, SetBirthday(k) \/ AskForMap(k)
          PROVE  \A j \in Requests : (pc'[Setter(j)] = "done") <=> (pc[Setter(j)] = "done")
      BY <2>1, Names, AskPlaces DEF SetBirthday, AskForMap
    <2>2. ASSUME NEW k \in Requests, CreateMap(k)
          PROVE  \A j \in Requests : (pc'[Setter(j)] = "done") <=> (pc[Setter(j)] = "done")
      BY <2>2, Names, GotoPlaces DEF CreateMap
    <2>3. ASSUME NEW k \in Requests, Announce(k)
          PROVE  \A j \in Requests : (pc'[Setter(j)] = "done") <=> (pc[Setter(j)] = "done")
      <3>1. Setter(k) \in Tasks /\ pc[Setter(k)] = "announce"
            /\ pc' = [pc EXCEPT ![Timer(k)] = "sleeping", ![Setter(k)] = "read"]
        BY <2>3, Names DEF Announce
      <3> QED BY <3>1, Names DEF TypeOK
    <2>4. ASSUME NEW k \in Requests, Elapse(k) \/ TimerAsksForMap(k)
          PROVE  \A j \in Requests : (pc'[Setter(j)] = "done") <=> (pc[Setter(j)] = "done")
      <3>1. UNCHANGED pc \/ \E l \in Locks, next \in States : Ask(Timer(k), l, next)
        BY <2>4 DEF Elapse, TimerAsksForMap, States, Locks
      <3> QED BY <3>1, Names, AskPlaces
    <2>5. ASSUME NEW c \in Confirmers, Confirm(c) \/ LookForMap(c) \/ ConfirmEnds(c)
          PROVE  \A j \in Requests : (pc'[Setter(j)] = "done") <=> (pc[Setter(j)] = "done")
      BY <2>5, Names, AskPlaces, GotoPlaces DEF Confirm, LookForMap, ConfirmEnds
    <2>6. ASSUME NEW o \in Others, (\E mode \in {"reading", "writing"} : UseData(o, mode)) \/ DataUsed(o)
          PROVE  \A j \in Requests : (pc'[Setter(j)] = "done") <=> (pc[Setter(j)] = "done")
      BY <2>6, Names, AskPlaces, GotoPlaces DEF UseData, DataUsed
    <2>7. ASSUME NEW l \in Locks, Acquire(l) PROVE UNCHANGED pc
      BY <2>7 DEF Acquire
    <2> QED BY <2>1, <2>2, <2>3, <2>4, <2>5, <2>6, <2>7
  <1> QED BY <1>1, <1>2, SameStatus

\* The confirmation of birthdays implements BirthdayRequests when storing takes
\* less than 30 seconds: every request is confirmed, replaced or expired once,
\* for any number of users, commands and tasks.
THEOREM RequestsSettle ==
    ASSUME ~SlowInsert
    PROVE  Spec => RequestsSettleOnce
  <1>1. Init => Promise!Init
    <2> SUFFICES ASSUME Init PROVE Promise!Init
      OBVIOUS
    <2>1. \A k \in Requests : pc[Setter(k)] = "new" /\ map[author[k]] = None /\ k # None
      BY Names, ConfirmAssumption DEF Init
    <2>2. notified = {} /\ confirmed = {} /\ author \in [Requests -> Authors]
      BY DEF Init
    <2> QED BY <2>1, <2>2 DEF status, Promise!Init
  <1>2. TypeOK /\ SettleInv /\ [Next]_vars => [Promise!Next]_Promise!vars
    <2> SUFFICES ASSUME TypeOK, SettleInv, [Next]_vars
                 PROVE  Promise!Next \/ UNCHANGED Promise!vars
      OBVIOUS
    <2>1. CASE UNCHANGED vars
      BY <2>1, SameStatus DEF vars
    <2> QED
      BY <2>1, InsertSubmits, NotifySettles, LookUpSettles, ExpireStutters, OtherStutters
      DEF Next, SetterStep, TimerStep, ConfirmerStep
  <1>3. TypeOK /\ SettleInv /\ [Next]_vars => SettleInv'
    BY StepSettle
  <1> QED
    BY <1>1, <1>2, <1>3, InitSettle, ConfirmTypeCorrect, PTL
    DEF Spec, RequestsSettleOnce, Promise!Spec
=============================================================================
