------------------------------- MODULE DiscordLogger -------------------------------
(***************************************************************************)
(* The two loggers of the bot.  A record is written into the logger's      *)
(* write buffer, of limited size; every 15 seconds a sender moves it into  *)
(* the message buffer and posts that to the owner's DM channel, or, if it  *)
(* cannot, writes it to a fallback file, which may fail, too.  Both        *)
(* loggers have the same file, and share the id of the channel.  When the  *)
(* bot is told to terminate it flushes the loggers and sends once more.    *)
(***************************************************************************)
EXTENDS Naturals, Sequences

CONSTANTS
    Loggers,        \* the loggers, in the order CombinedLogger flushes them
    Records,        \* what each is given: for each byte, whether a character begins with it
    BufferSize,     \* the size of a write buffer
    MaxRecords,     \* how many records each logger gets at most
    Workers,        \* how many threads the runtime has
    None,
    Lapses          \* what may go wrong: "http", "channel", "file"

Names == {Loggers[i] : i \in DOMAIN Loggers}

First == Loggers[1]

\* The tasks that send: the periodic one of each logger and on_terminate.
Final == "on_terminate"
Senders == Names \cup {Final}

ASSUME LoggerAssumption ==
    /\ Loggers \in Seq(STRING) /\ Loggers # <<>>
    /\ Records \in [Names -> SUBSET Seq(BOOLEAN)]
    /\ BufferSize \in Nat
    /\ MaxRecords \in [Names -> Nat]
    /\ Workers \in Nat \ {0}
    /\ Final \notin Names /\ None \notin Senders

Elements(seq) == {seq[i] : i \in DOMAIN seq}

\* A byte of the n-th record.
Bytes == [record : Nat, at : Nat, begins : BOOLEAN]

VARIABLES
    writeBuffer,    \* the write buffer of each logger
    messageBuffer,  \* its message buffer
    holder,         \* who has the lock of the message buffer
    record,         \* what is still to be written of a record, under WriteLogger's lock
    stuck,          \* the loggers whose lock is held by a thread that waits for itself
    waiting,        \* how many threads wait for the lock of a stuck logger
    logged,         \* how many records each logger was given
    accepted,       \* the bytes that write took
    channel,        \* the OnceCell DELIBURD_CHANNEL_ID
    delivered,      \* the bytes that arrived in the DM channel
    file,           \* the fallback file
    saved,          \* the bytes that were in it at some time
    unsaved,        \* the bytes that were to be written to it when it failed
    pc,             \* where each sender is
    queue,          \* the LogSenders that flush sent
    marked          \* how many bytes had been taken when on_terminate began

buffers == <<writeBuffer, messageBuffer, holder>>
writing == <<record, stuck, waiting, logged, accepted>>
sent == <<delivered, file, saved, unsaved>>
vars == <<buffers, writing, channel, sent, pc, queue, marked>>

TypeOK ==
    /\ writeBuffer \in [Names -> Seq(Bytes)] /\ messageBuffer \in [Names -> Seq(Bytes)]
    /\ \A l \in Names : Len(writeBuffer[l]) <= BufferSize
    /\ holder \in [Names -> Senders \cup {None}]
    /\ record \in [Names -> Seq(Bytes)] /\ stuck \subseteq Names /\ waiting \in 0..Workers
    /\ logged \in [Names -> Nat] /\ accepted \in [Names -> Seq(Bytes)]
    /\ channel \in {"unset", "dm", "none"}
    /\ delivered \in [Names -> Seq(Bytes)] /\ file \in Seq(Names \X Bytes)
    /\ saved \subseteq Names \X Bytes /\ unsaved \subseteq Names \X Bytes
    /\ pc \in [Senders -> {"asleep", "lock", "sending", "create", "write",
                           "running", "flush", "receive", "channel", "shutdown", "over"}]
    /\ queue \in Seq(Names)
    /\ marked \in [Names -> Nat]

Init ==
    /\ writeBuffer = [l \in Names |-> <<>>] /\ messageBuffer = [l \in Names |-> <<>>]
    /\ holder = [l \in Names |-> None]
    /\ record = [l \in Names |-> <<>>] /\ stuck = {} /\ waiting = 0
    /\ logged = [l \in Names |-> 0] /\ accepted = [l \in Names |-> <<>>]
    /\ channel = "unset"
    /\ delivered = [l \in Names |-> <<>>] /\ file = <<>> /\ saved = {} /\ unsaved = {}
    /\ pc = [s \in Senders |-> IF s = Final THEN "running" ELSE "asleep"]
    /\ queue = <<>> /\ marked = [l \in Names |-> 0]

\* The bot has not ended, and some thread can still run a task.
Running == pc[Final] # "over" /\ waiting < Workers
-----------------------------------------------------------------------------
\* A thread logs: it has WriteLogger's lock until write_all is through.
Log(l, r) ==
    /\ record[l] = <<>> /\ l \notin stuck /\ logged[l] < MaxRecords[l] /\ r # <<>>
    /\ logged' = [logged EXCEPT ![l] = @ + 1]
    /\ record' = [record EXCEPT ![l] = [i \in DOMAIN r |-> [record |-> logged[l] + 1, at |-> i, begins |-> r[i]]]]
    /\ UNCHANGED <<buffers, stuck, waiting, accepted, channel, sent, pc, queue, marked>>

\* A thread logs to a logger that is stuck: it waits for ever, whatever task it
\* was running, and the runtime has one thread less.
Wait(l) ==
    /\ l \in stuck
    /\ waiting' = waiting + 1
    /\ UNCHANGED <<buffers, record, stuck, logged, accepted, channel, sent, pc, queue, marked>>

\* Mutant: the room that is left is not looked at.
TakenWhole(l) == Len(record[l])

Taken(l) ==
    LET space == BufferSize - Len(writeBuffer[l])
    IN  IF space < Len(record[l]) THEN space ELSE Len(record[l])

\* One call of write by write_all.  A full buffer takes nothing, and the rest of
\* the record is dropped.  What is left after a partial write may begin in the
\* middle of a character: it is refused with a warning, and to log that the
\* thread waits for the lock it has.
Write(l) ==
    /\ record[l] # <<>> /\ l \notin stuck
    /\ \/ /\ Head(record[l]).begins
          /\ writeBuffer' = [writeBuffer EXCEPT ![l] = @ \o SubSeq(record[l], 1, Taken(l))]
          /\ accepted' = [accepted EXCEPT ![l] = @ \o SubSeq(record[l], 1, Taken(l))]
          /\ record' = [record EXCEPT ![l] = IF Taken(l) = 0 THEN <<>>
                                             ELSE SubSeq(@, Taken(l) + 1, Len(@))]
          /\ UNCHANGED <<stuck, waiting>>
       \/ /\ ~Head(record[l]).begins
          /\ stuck' = stuck \cup {l} /\ waiting' = waiting + 1
          /\ UNCHANGED <<writeBuffer, accepted, record>>
    /\ UNCHANGED <<messageBuffer, holder, logged, channel, sent, pc, queue, marked>>

-----------------------------------------------------------------------------
\* The OnceCell is set once, to None when the DM channel could not be created.
SetChannel ==
    IF channel # "unset" THEN UNCHANGED channel
    ELSE channel' \in {"dm"} \cup (IF "channel" \in Lapses THEN {"none"} ELSE {})

\* on_cache_ready.
CacheReady ==
    /\ channel = "unset" /\ SetChannel
    /\ UNCHANGED <<buffers, writing, sent, pc, queue, marked>>

\* The logger whose buffers a sender sends.
LoggerOf(s) == IF s = Final THEN Head(queue) ELSE s

Rest(s) == IF s = Final THEN "shutdown" ELSE "asleep"

Goto(s, next) == pc' = [pc EXCEPT ![s] = next]

\* send, with the channel known: without one nothing is drained.
Begin(s) == Goto(s, IF channel = "dm" THEN "lock" ELSE "create")

\* 15 seconds have passed.  Nothing is sent before the channel was looked for.
Wake(l) ==
    /\ pc[l] = "asleep" /\ channel # "unset"
    /\ Begin(l)
    /\ UNCHANGED <<buffers, writing, channel, sent, queue, marked>>

\* Mutant: the message buffer is not cleared.
DrainUncleared(s, l) ==
    /\ messageBuffer' = [messageBuffer EXCEPT ![l] = @ \o writeBuffer[l]]
    /\ writeBuffer' = [writeBuffer EXCEPT ![l] = <<>>]

Drain(s, l) ==
    /\ messageBuffer' = [messageBuffer EXCEPT ![l] = writeBuffer[l]]
    /\ writeBuffer' = [writeBuffer EXCEPT ![l] = <<>>]

\* The message buffer is locked, and stays so unless there is nothing to send.
Lock(s) ==
    LET l == LoggerOf(s)
    IN  /\ pc[s] = "lock" /\ holder[l] = None
        /\ \/ /\ writeBuffer[l] = <<>>
              /\ Goto(s, Rest(s))
              /\ UNCHANGED buffers
           \/ /\ writeBuffer[l] # <<>>
              /\ Drain(s, l)
              /\ holder' = [holder EXCEPT ![l] = s]
              /\ Goto(s, "sending")
        /\ UNCHANGED <<writing, channel, sent, queue, marked>>

Posted(s) ==
    LET l == LoggerOf(s)
    IN  /\ pc[s] = "sending"
        /\ delivered' = [delivered EXCEPT ![l] = @ \o messageBuffer[l]]
        /\ holder' = [holder EXCEPT ![l] = None]
        /\ Goto(s, Rest(s))
        /\ UNCHANGED <<writeBuffer, messageBuffer, writing, channel, file, saved, unsaved, queue, marked>>

\* Mutant: the guard lives until send returns.
PostFailsLocked(s, arrived) ==
    /\ pc[s] = "sending" /\ "http" \in Lapses
    /\ delivered' = [delivered EXCEPT ![LoggerOf(s)] =
                        IF arrived THEN @ \o messageBuffer[LoggerOf(s)] ELSE @]
    /\ Goto(s, "create")
    /\ UNCHANGED <<buffers, writing, channel, file, saved, unsaved, queue, marked>>

\* Mutant: a failure is reported, and that is all.
PostFailsSilently(s, arrived) ==
    /\ pc[s] = "sending" /\ "http" \in Lapses
    /\ delivered' = [delivered EXCEPT ![LoggerOf(s)] =
                        IF arrived THEN @ \o messageBuffer[LoggerOf(s)] ELSE @]
    /\ holder' = [holder EXCEPT ![LoggerOf(s)] = None]
    /\ Goto(s, Rest(s))
    /\ UNCHANGED <<writeBuffer, messageBuffer, writing, channel, file, saved, unsaved, queue, marked>>

\* The call fails, whether or not the message arrived; the guard is dropped and
\* the message buffer is free until send_to_file has locked it again.
PostFails(s, arrived) ==
    /\ pc[s] = "sending" /\ "http" \in Lapses
    /\ delivered' = [delivered EXCEPT ![LoggerOf(s)] =
                        IF arrived THEN @ \o messageBuffer[LoggerOf(s)] ELSE @]
    /\ holder' = [holder EXCEPT ![LoggerOf(s)] = None]
    /\ Goto(s, "create")
    /\ UNCHANGED <<writeBuffer, messageBuffer, writing, channel, file, saved, unsaved, queue, marked>>

\* What a logger's message buffer is in the file.
TextOf(l) == [i \in DOMAIN messageBuffer[l] |-> <<l, messageBuffer[l][i]>>]

\* send_to_file empties the file, which the two loggers share, or cannot: the
\* error is printed, and the text stays in the message buffer for the next send
\* to clear.
CreateFile(s) ==
    /\ pc[s] = "create"
    /\ \/ /\ file' = <<>>
          /\ Goto(s, "write")
          /\ UNCHANGED unsaved
       \/ /\ "file" \in Lapses
          /\ unsaved' = unsaved \cup Elements(TextOf(LoggerOf(s)))
          /\ Goto(s, Rest(s))
          /\ UNCHANGED file
    /\ UNCHANGED <<buffers, writing, channel, delivered, saved, queue, marked>>

\* How many bytes of a text reach the file: all, or some until an error.
Written(text) == {n \in 0..Len(text) : n = Len(text) \/ "file" \in Lapses}

\* Mutant: the sender ends after a failure.
WriteFileAndEnd(s) ==
    /\ pc[s] = "write" /\ holder[LoggerOf(s)] = None
    /\ saved' = saved \cup Elements(TextOf(LoggerOf(s)))
    /\ Goto(s, IF s = Final THEN "shutdown" ELSE "over")
    /\ UNCHANGED <<buffers, writing, channel, delivered, file, unsaved, queue, marked>>

\* and writes whatever is in the message buffer by then from the file's start
\* on; an error is printed like the other.
WriteFile(s) ==
    LET text == TextOf(LoggerOf(s))
    IN  /\ pc[s] = "write" /\ holder[LoggerOf(s)] = None
        /\ \E n \in Written(text) :
               /\ file' = SubSeq(text, 1, n) \o SubSeq(file, n + 1, Len(file))
               /\ saved' = saved \cup Elements(SubSeq(text, 1, n))
               /\ unsaved' = unsaved \cup Elements(SubSeq(text, n + 1, Len(text)))
        /\ Goto(s, Rest(s))
        /\ UNCHANGED <<buffers, writing, channel, delivered, queue, marked>>

-----------------------------------------------------------------------------
\* on_terminate, after Ctrl+C.
Terminate ==
    /\ pc[Final] = "running"
    /\ Goto(Final, "flush")
    /\ marked' = [l \in Names |-> Len(accepted[l])]
    /\ UNCHANGED <<buffers, writing, channel, sent, queue>>

\* Each logger in turn queues a LogSender; WriteLogger's lock is needed for it,
\* so that on_terminate, too, waits for ever for a stuck logger.
Flush ==
    LET l == Loggers[Len(queue) + 1]
    IN  /\ pc[Final] = "flush"
        /\ record[l] = <<>> /\ l \notin stuck
        /\ queue' = Append(queue, l)
        /\ Goto(Final, IF Len(queue) + 1 = Len(Loggers) THEN "receive" ELSE "flush")
        /\ UNCHANGED <<buffers, writing, channel, sent, marked>>

\* Mutant: the LogSender of the last logger is taken.
ReceiveLast ==
    /\ pc[Final] = "receive"
    /\ queue' = <<queue[Len(queue)]>>
    /\ IF channel = "unset" THEN Goto(Final, "channel") ELSE Begin(Final)
    /\ UNCHANGED <<buffers, writing, channel, sent, marked>>

\* The queue is closed and one LogSender is received, the first.
Receive ==
    /\ pc[Final] = "receive"
    /\ IF channel = "unset" THEN Goto(Final, "channel") ELSE Begin(Final)
    /\ UNCHANGED <<buffers, writing, channel, sent, queue, marked>>

\* The bot ends before its cache was ready.
LookForChannel ==
    /\ pc[Final] = "channel"
    /\ SetChannel
    /\ Goto(Final, IF channel' = "dm" THEN "lock" ELSE "create")
    /\ UNCHANGED <<buffers, writing, sent, queue, marked>>

\* shutdown_all: main returns and no task goes on.
Shutdown ==
    /\ pc[Final] = "shutdown"
    /\ Goto(Final, "over")
    /\ UNCHANGED <<buffers, writing, channel, sent, queue, marked>>

-----------------------------------------------------------------------------
Send(s) ==
    /\ Running
    /\ \/ Lock(s) \/ Posted(s) \/ CreateFile(s) \/ WriteFile(s)
       \/ \E arrived \in BOOLEAN : PostFails(s, arrived)

End == Running /\ (Flush \/ Receive \/ LookForChannel \/ Shutdown)

Next ==
    \/ /\ Running
       /\ \/ \E l \in Names : (\E r \in Records[l] : Log(l, r)) \/ Wait(l) \/ Write(l) \/ Wake(l)
          \/ CacheReady \/ Terminate
    \/ \E s \in Senders : Send(s)
    \/ End

Spec == Init /\ [][Next]_vars

\* A thread that logs goes on, time passes, a call to Discord or the file ends,
\* well or badly, and so does the termination once it has begun.  None of this is
\* promised when a logger is stuck: whoever logs to it is lost, the senders and
\* the runtime's last thread included.
Fairness ==
    /\ \A l \in Names : /\ WF_vars(stuck = {} /\ Running /\ Write(l))
                        /\ WF_vars(stuck = {} /\ Running /\ Wake(l))
    /\ \A s \in Senders : WF_vars(stuck = {} /\ Send(s))
    /\ WF_vars(stuck = {} /\ End)

FairSpec == Spec /\ Fairness
-----------------------------------------------------------------------------
(***************************************************************************)
(* Properties.                                                             *)
(***************************************************************************)
Before(b, c) == b.record < c.record \/ (b.record = c.record /\ b.at < c.at)

\* Although two tasks may send the same buffers when the bot ends, and a message
\* may have arrived of which the call failed, the owner gets every byte at most
\* once and in the order in which it was logged.
DeliveredInOrder ==
    \A l \in Names : \A i, j \in DOMAIN delivered[l] :
        i < j => Before(delivered[l][i], delivered[l][j])

\* What a sender of the logger has still to post or to save.
Pending(l) ==
    IF \E s \in Senders : /\ pc[s] \in {"sending", "create", "write"}
                          /\ s = Final => queue # <<>>
                          /\ LoggerOf(s) = l
    THEN Elements(messageBuffer[l]) ELSE {}

\* A byte that write took is in a buffer of its logger, on Discord, or was in
\* the fallback file, unless the file itself failed when the byte was to go
\* there: no other failure loses it.  The exception is on_terminate, which may
\* clear the message buffer of a send that has just failed.
OnlyTheFileLoses ==
    \A l \in Names :
        pc[Final] = "running" \/ l # First =>
            \A b \in Elements(accepted[l]) :
                \/ b \in Elements(writeBuffer[l]) \cup Pending(l) \cup Elements(delivered[l])
                \/ <<l, b>> \in saved \cup unsaved

\* At the end nothing that the first logger had taken by then is left in its
\* write buffer, if there is a channel.
FirstIsFlushed ==
    pc[Final] = "over" /\ channel = "dm" =>
        Elements(SubSeq(accepted[First], 1, marked[First])) \cap Elements(writeBuffer[First]) = {}

\* Once there is a channel, a write buffer is emptied again and again: it does
\* not stay full, and a failure does not end the sending, unless a logger is
\* stuck.
BuffersAreDrained ==
    \A l \in Names :
        (channel = "dm" /\ Len(writeBuffer[l]) = BufferSize)
            ~> (Len(writeBuffer[l]) < BufferSize \/ pc[Final] = "over" \/ stuck # {})

\* on_terminate ends, whoever holds the message buffer, unless a thread waits
\* for WriteLogger's lock which it has itself.
TerminationEnds == (pc[Final] = "flush") ~> (pc[Final] = "over" \/ stuck # {})

\* main.rs:163, of the flush: "so that all logs are sent".
AllLogsAreSent ==
    pc[Final] = "over" =>
        \A l \in Names :
            Elements(SubSeq(accepted[l], 1, marked[l])) \cap Elements(writeBuffer[l]) = {}
=============================================================================
