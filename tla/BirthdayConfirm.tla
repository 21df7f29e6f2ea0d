----------------------------- MODULE BirthdayConfirm -----------------------------
(***************************************************************************)
(* The birthday commands before the database: a set command announces a    *)
(* request, stores it in a map under its author and starts a 30 second     *)
(* timer that removes it; birthdayconfirm looks the request of its author  *)
(* up and saves it.  The map is behind an RwLock of its own, inside        *)
(* Context::data, which is behind another one that all commands share.     *)
(* Every command and every timer is a task.                                *)
(***************************************************************************)
EXTENDS Naturals, Sequences

CONSTANTS
    Authors,        \* who uses the commands
    Requests,       \* the uses of setmybirthday and setuserbirthday
    Confirmers,     \* tasks that run birthdayconfirm, for one author each, one at a time
    Others,         \* tasks that run the other users of Context::data, likewise
    None,
    SlowInsert      \* whether storing a request may take longer than 30 seconds

ASSUME ConfirmAssumption ==
    /\ None \notin Authors \cup Requests
    /\ SlowInsert \in BOOLEAN

Setter(k) == <<"set", k>>
Timer(k) == <<"timer", k>>
Confirmer(c) == <<"confirm", c>>
Other(o) == <<"other", o>>

Setters == {Setter(k) : k \in Requests}
Timers == {Timer(k) : k \in Requests}
Tasks == Setters \cup Timers \cup {Confirmer(c) : c \in Confirmers} \cup {Other(o) : o \in Others}

Locks == {"data", "map"}

VARIABLES
    pc,         \* where each task is
    author,     \* the author of each request
    caller,     \* the author of the commands each confirmer runs
    mapExists,  \* whether Context::data has the map
    map,        \* the map: the request of each author
    late,       \* the requests announced more than 30 seconds ago
    notified,   \* the requests whose author was told that they expired
    confirmed,  \* the requests given to add_birthday_to_db
    holders,    \* the tasks that hold each lock
    queue       \* those that wait for it, in the order they asked

vars == <<pc, author, caller, mapExists, map, late, notified, confirmed, holders, queue>>

States == {"new", "create", "announce", "read", "insert", "done",
           "unborn", "sleeping", "wake", "expire", "notice", "ended",
           "idle", "look", "lookup", "saving", "refuse", "reading", "writing"}

TypeOK ==
    /\ pc \in [Tasks -> States]
    /\ author \in [Requests -> Authors]
    /\ caller \in [Confirmers -> Authors]
    /\ mapExists \in BOOLEAN
    /\ map \in [Authors -> Requests \cup {None}]
    /\ late \subseteq Requests /\ notified \subseteq Requests /\ confirmed \subseteq Requests
    /\ holders \in [Locks -> SUBSET Tasks]
    /\ queue \in [Locks -> Seq(Tasks)]

Init ==
    /\ pc = [t \in Tasks |-> IF t \in Setters THEN "new"
                             ELSE IF t \in Timers THEN "unborn" ELSE "idle"]
    /\ author \in [Requests -> Authors]
    /\ caller \in [Confirmers -> Authors]
    /\ mapExists = FALSE /\ map = [a \in Authors |-> None]
    /\ late = {} /\ notified = {} /\ confirmed = {}
    /\ holders = [l \in Locks |-> {}] /\ queue = [l \in Locks |-> <<>>]

-----------------------------------------------------------------------------
(***************************************************************************)
(* tokio::sync::RwLock serves the tasks in the order they asked, a waiting *)
(* writer before the readers that came after it.                           *)
(***************************************************************************)
\* Whether a task that waits for a lock, or holds it, is a writer.
Writes(t, l) == IF l = "map" THEN t \in Setters \cup Timers ELSE pc[t] \in {"create", "writing"}

CanShare(t, l) == IF Writes(t, l) THEN holders[l] = {}
                  ELSE \A o \in holders[l] : ~Writes(o, l)

\* Mutant: a lock that lets readers overtake a waiting writer.
AcquireReadersFirst(l) ==
    \E i \in 1..Len(queue[l]) :
        LET t == queue[l][i]
        IN  /\ CanShare(t, l) /\ pc[t] # "ended"
            /\ Writes(t, l) => \A j \in 1..Len(queue[l]) : Writes(queue[l][j], l)
            /\ holders' = [holders EXCEPT ![l] = @ \cup {t}]
            /\ queue' = [queue EXCEPT ![l] = SelectSeq(@, LAMBDA o : o # t)]
            /\ UNCHANGED <<pc, author, caller, mapExists, map, late, notified, confirmed>>

\* The first in the queue gets the lock; a timer that was aborted while it waited
\* is dropped, whoever holds the lock.
Acquire(l) ==
    /\ queue[l] # <<>>
    /\ \/ /\ pc[Head(queue[l])] = "ended"
          /\ UNCHANGED holders
       \/ /\ pc[Head(queue[l])] # "ended"
          /\ CanShare(Head(queue[l]), l)
          /\ holders' = [holders EXCEPT ![l] = @ \cup {Head(queue[l])}]
    /\ queue' = [queue EXCEPT ![l] = Tail(@)]
    /\ UNCHANGED <<pc, author, caller, mapExists, map, late, notified, confirmed>>

\* A task asks for a lock and goes on at `next' when it has it.
Ask(t, l, next) ==
    /\ queue' = [queue EXCEPT ![l] = Append(@, t)]
    /\ pc' = [pc EXCEPT ![t] = next]

\* A task, and the timers it aborts, let go of their locks.
Release(tasks) == holders' = [l \in Locks |-> holders[l] \ tasks]

\* A task goes on, and the timers it aborts run no more, from now on: the model
\* has no timer that is in the middle of a poll and gets one await further.
Goto(t, next, aborted) ==
    pc' = [o \in Tasks |-> IF o = t THEN next ELSE IF o \in aborted THEN "ended" ELSE pc[o]]

TimerOf(entry) == IF entry = None THEN {} ELSE {Timer(entry)}
-----------------------------------------------------------------------------
\* set_birthday: the command takes Context::data to create the map if need be.
SetBirthday(k) ==
    /\ pc[Setter(k)] = "new"
    /\ Ask(Setter(k), "data", "create")
    /\ UNCHANGED <<author, caller, mapExists, map, late, notified, confirmed, holders>>

CreateMap(k) ==
    /\ pc[Setter(k)] = "create" /\ Setter(k) \in holders["data"]
    /\ mapExists' = TRUE
    /\ Release({Setter(k)})
    /\ Goto(Setter(k), "announce", {})
    /\ UNCHANGED <<author, caller, map, late, notified, confirmed, queue>>

\* The announcement is out; the timer starts and only then is the map locked.
Announce(k) ==
    /\ pc[Setter(k)] = "announce"
    /\ pc' = [pc EXCEPT ![Timer(k)] = "sleeping", ![Setter(k)] = "read"]
    /\ queue' = [queue EXCEPT !["data"] = Append(@, Setter(k))]
    /\ UNCHANGED <<author, caller, mapExists, map, late, notified, confirmed, holders>>

AskForMap(k) ==
    /\ pc[Setter(k)] = "read" /\ Setter(k) \in holders["data"]
    /\ Ask(Setter(k), "map", "insert")
    /\ UNCHANGED <<author, caller, mapExists, map, late, notified, confirmed, holders>>

\* Mutant: the old timer goes on.
InsertWithoutAbort(k) ==
    /\ pc[Setter(k)] = "insert" /\ Setter(k) \in holders["map"]
    /\ Release({Setter(k)})
    /\ Goto(Setter(k), "done", {})
    /\ map' = [map EXCEPT ![author[k]] = k]
    /\ UNCHANGED <<author, caller, mapExists, late, notified, confirmed, queue>>

\* Mutant: the timer that is aborted is the new one.
InsertAbortsNew(k) ==
    /\ pc[Setter(k)] = "insert" /\ Setter(k) \in holders["map"]
    /\ Release({Setter(k), Timer(k)})
    /\ Goto(Setter(k), "done", {Timer(k)})
    /\ map' = [map EXCEPT ![author[k]] = k]
    /\ UNCHANGED <<author, caller, mapExists, late, notified, confirmed, queue>>

\* The request replaces the author's last one, whose timer is aborted.
Insert(k) ==
    /\ pc[Setter(k)] = "insert" /\ Setter(k) \in holders["map"]
    /\ LET old == TimerOf(map[author[k]])
       IN  /\ Release({Setter(k)} \cup old)
           /\ Goto(Setter(k), "done", old)
    /\ map' = [map EXCEPT ![author[k]] = k]
    /\ UNCHANGED <<author, caller, mapExists, late, notified, confirmed, queue>>

-----------------------------------------------------------------------------
\* 30 seconds after the announcement a timer that was not aborted wakes up.
Elapse(k) ==
    /\ pc[Timer(k)] # "unborn" /\ k \notin late
    /\ SlowInsert \/ pc[Setter(k)] = "done"
    /\ late' = late \cup {k}
    /\ IF pc[Timer(k)] = "sleeping" THEN Ask(Timer(k), "data", "wake") ELSE UNCHANGED <<pc, queue>>
    /\ UNCHANGED <<author, caller, mapExists, map, notified, confirmed, holders>>

TimerAsksForMap(k) ==
    /\ pc[Timer(k)] = "wake" /\ Timer(k) \in holders["data"]
    /\ Ask(Timer(k), "map", "expire")
    /\ UNCHANGED <<author, caller, mapExists, map, late, notified, confirmed, holders>>

\* "Add birthday request expired." is sent with both locks held.
Notify(k) ==
    /\ pc[Timer(k)] = "expire" /\ Timer(k) \in holders["map"]
    /\ notified' = notified \cup {k}
    /\ Goto(Timer(k), "notice", {})
    /\ UNCHANGED <<author, caller, mapExists, map, late, confirmed, holders, queue>>

\* Whatever request the author has by now is removed.
Expire(k) ==
    /\ pc[Timer(k)] = "notice"
    /\ map' = [map EXCEPT ![author[k]] = None]
    /\ Release({Timer(k)})
    /\ Goto(Timer(k), "ended", {})
    /\ UNCHANGED <<author, caller, mapExists, late, notified, confirmed, queue>>

-----------------------------------------------------------------------------
\* birthdayconfirm.
Confirm(c) ==
    /\ pc[Confirmer(c)] = "idle"
    /\ Ask(Confirmer(c), "data", "look")
    /\ UNCHANGED <<author, caller, mapExists, map, late, notified, confirmed, holders>>

LookForMap(c) ==
    /\ pc[Confirmer(c)] = "look" /\ Confirmer(c) \in holders["data"]
    /\ \/ mapExists /\ Ask(Confirmer(c), "map", "lookup")
       \/ ~mapExists /\ Goto(Confirmer(c), "refuse", {}) /\ UNCHANGED queue
    /\ UNCHANGED <<author, caller, mapExists, map, late, notified, confirmed, holders>>

\* Mutant: the timer of the entry goes on.
LookUpWithoutAbort(c) ==
    /\ pc[Confirmer(c)] = "lookup" /\ Confirmer(c) \in holders["map"]
    /\ LET entry == map[caller[c]]
       IN  /\ confirmed' = confirmed \cup ({entry} \ {None})
           /\ Goto(Confirmer(c), IF entry = None THEN "refuse" ELSE "saving", {})
    /\ UNCHANGED <<author, caller, mapExists, map, late, notified, holders, queue>>

\* Mutant: an author without an entry is not refused.
LookUpUnchecked(c) ==
    /\ pc[Confirmer(c)] = "lookup" /\ Confirmer(c) \in holders["map"]
    /\ confirmed' = confirmed \cup {map[caller[c]]}
    /\ Release(TimerOf(map[caller[c]]))
    /\ Goto(Confirmer(c), "saving", TimerOf(map[caller[c]]))
    /\ UNCHANGED <<author, caller, mapExists, map, late, notified, queue>>

\* The entry's timer is aborted and the entry saved; it stays in the map.
LookUp(c) ==
    /\ pc[Confirmer(c)] = "lookup" /\ Confirmer(c) \in holders["map"]
    /\ LET entry == map[caller[c]]
       IN  /\ confirmed' = confirmed \cup ({entry} \ {None})
           /\ Release(TimerOf(entry))
           /\ Goto(Confirmer(c), IF entry = None THEN "refuse" ELSE "saving", TimerOf(entry))
    /\ UNCHANGED <<author, caller, mapExists, map, late, notified, queue>>

\* The database and the replies: the locks are held until they are done.
ConfirmEnds(c) ==
    /\ pc[Confirmer(c)] \in {"saving", "refuse"}
    /\ Release({Confirmer(c)})
    /\ Goto(Confirmer(c), "idle", {})
    /\ UNCHANGED <<author, caller, mapExists, map, late, notified, confirmed, queue>>

-----------------------------------------------------------------------------
\* The Vocaroo listener and commands, which hold Context::data, to read and to
\* write, while they download and reply.
UseData(o, mode) ==
    /\ pc[Other(o)] = "idle"
    /\ Ask(Other(o), "data", mode)
    /\ UNCHANGED <<author, caller, mapExists, map, late, notified, confirmed, holders>>

DataUsed(o) ==
    /\ Other(o) \in holders["data"]
    /\ Release({Other(o)})
    /\ Goto(Other(o), "idle", {})
    /\ UNCHANGED <<author, caller, mapExists, map, late, notified, confirmed, queue>>

-----------------------------------------------------------------------------
\* What a task does by itself once it has begun.
SetterStep(k) == CreateMap(k) \/ Announce(k) \/ AskForMap(k) \/ Insert(k)
TimerStep(k) == Elapse(k) \/ TimerAsksForMap(k) \/ Notify(k) \/ Expire(k)
ConfirmerStep(c) == LookForMap(c) \/ LookUp(c) \/ ConfirmEnds(c)

Next ==
    \/ \E k \in Requests : SetBirthday(k) \/ SetterStep(k) \/ TimerStep(k)
    \/ \E c \in Confirmers : Confirm(c) \/ ConfirmerStep(c)
    \/ \E o \in Others : (\E mode \in {"reading", "writing"} : UseData(o, mode)) \/ DataUsed(o)
    \/ \E l \in Locks : Acquire(l)

Spec == Init /\ [][Next]_vars

\* Tokio runs every task that can run, time passes, and a reply, a download or
\* a statement comes to an end; nobody has to use a command.  That everybody
\* who uses Context::data gives it back (DataUsed) is an assumption about Discord and
\* Vocaroo: no request has a time-out, and one without an answer would keep it.
Fairness ==
    /\ \A k \in Requests : WF_vars(SetterStep(k)) /\ WF_vars(TimerStep(k))
    /\ \A c \in Confirmers : WF_vars(ConfirmerStep(c))
    /\ \A o \in Others : WF_vars(DataUsed(o))
    /\ \A l \in Locks : WF_vars(Acquire(l))

FairSpec == Spec /\ Fairness
-----------------------------------------------------------------------------
(***************************************************************************)
(* Properties.                                                             *)
(***************************************************************************)

\* A stored request that nobody confirmed has a timer that will still remove it,
\* and a timer whose request was stored has that request to remove, so that the
\* author is never told that a request expired which was replaced or confirmed.
\* Two commands abort timers and one timer is started before its entry exists.
TimersMatchEntries ==
    \A k \in Requests :
        pc[Setter(k)] = "done" =>
            (map[author[k]] = k /\ k \notin confirmed
                <=> pc[Timer(k)] \in {"sleeping", "wake", "expire", "notice"})

\* What has become of a request, for BirthdayRequests: a request is expired from
\* its notice on, although it stays in the map while the notice is being sent.
\* BirthdayRequests has no step to "both".
status ==
    [k \in Requests |->
        IF k \in confirmed THEN (IF k \in notified THEN "both" ELSE "confirmed")
        ELSE IF k \in notified THEN "expired"
        ELSE IF map[author[k]] = k THEN "pending"
        ELSE IF pc[Setter(k)] = "done" THEN "replaced" ELSE "none"]

Promise == INSTANCE BirthdayRequests

\* The locks and the abortion of timers make every request settle once: the
\* code behaves like BirthdayRequests.  A confirmed request never gets a notice,
\* one that expired or was replaced is never saved.
RequestsSettleOnce == Promise!Spec

\* The locks are never waited for in a circle, and the map's guard is never
\* asked for without what it is in: every command and every timer that has
\* begun ends, even when the others keep Context::data busy.
CommandsFinish ==
    /\ \A k \in Requests : (pc[Setter(k)] = "create") ~> (pc[Setter(k)] = "done")
    /\ \A k \in Requests : (pc[Timer(k)] = "wake") ~> (pc[Timer(k)] = "ended")
    /\ \A c \in Confirmers : (pc[Confirmer(c)] = "look") ~> (pc[Confirmer(c)] = "idle")

\* A request that nobody confirms leaves the map after its 30 seconds, by its
\* timer or by the next request.
UnconfirmedExpire ==
    \A k \in Requests : (k \in late) ~> (k \in confirmed \/ map[author[k]] # k)
=============================================================================
