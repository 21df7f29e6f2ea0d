---------------------------------- MODULE Vocaroo ----------------------------------
(***************************************************************************)
(* The conversion of Vocaroo links.  The guilds that want it are in a      *)
(* table and in a cache in Context::data.  A message's handler holds the   *)
(* lock of Context::data for reading from its look at the cache until its  *)
(* reply, while it downloads all recordings at once; commands and ready    *)
(* take it for writing.  A command changes cache and table in one go, and  *)
(* keeps the lock for its reply.  No request has a time-out: one that is   *)
(* never answered keeps its task, and the lock, for ever.                  *)
(***************************************************************************)
EXTENDS Channel, Sequences, Functions, Naturals

CONSTANTS
    Servers,            \* the guilds whose managers use the commands
    RecordingsOf,       \* the Content-Length that HEAD announces for each recording of a message
    Links,              \* the messages with an http link of any kind
    TotalMaxSize,       \* TOTAL_MAX_VOCAROO_SIZE
    AttachmentLimit,    \* VOCAROO_ATTACHMENT_LIMIT
    Readies,            \* the ready events that may be handled at the same time
    NoCache             \* VocarooEnabled before the first ready

ASSUME VocarooAssumption ==
    /\ RecordingsOf \in [Messages -> Seq(Nat)]
    /\ Links \subseteq Messages /\ Servers \subseteq Guilds
    /\ TotalMaxSize \in Nat /\ AttachmentLimit \in Nat

VARIABLES
    cache,      \* VocarooEnabled in Context::data
    table,      \* vocaroo_enabled
    ready,      \* each ready's copy of the table, before it has the lock
    doubtful,   \* guilds with a statement that failed, or one after ready's copy
    locked,     \* a command waits for the answer to its reply, and there is none
    conv,       \* each message's on_message_received
    converted   \* the messages answered with files

vocarooVars == <<cache, table, ready, doubtful, locked, conv, converted>>

\* Errors are shown by a reaction or only logged, log_and_check_is_severe says which.
Stages == {"head", "get", "ok", "error"}

NoReady == [copy |-> NoCache, changed |-> {}]
NoConv == [pc |-> "unsent", recordings |-> <<>>, total |-> 0]

VocarooTypeOK ==
    /\ cache = NoCache \/ cache \subseteq Servers
    /\ table \subseteq Servers /\ doubtful \subseteq Servers
    /\ ready \in [Readies -> [copy : {NoCache} \cup SUBSET Servers, changed : SUBSET Servers]]
    /\ locked \in BOOLEAN /\ converted \subseteq Messages
    /\ conv \in [Messages ->
           [pc : {"unsent", "lock", "download", "stuck", "done"}, recordings : Seq(Stages), total : Nat]]
    /\ \A m \in Messages : Len(conv[m].recordings) \in {0, Len(RecordingsOf[m])}

\* The table is what the last process left.
VocarooInit ==
    /\ cache = NoCache /\ table \in SUBSET Servers
    /\ ready = [r \in Readies |-> NoReady] /\ doubtful = {} /\ locked = FALSE /\ converted = {}
    /\ conv = [m \in Messages |-> IF m \in Posted THEN [NoConv EXCEPT !.pc = "done"] ELSE NoConv]
-----------------------------------------------------------------------------
(***************************************************************************)
(* The commands and ready.                                                 *)
(***************************************************************************)

\* Mutant: the lock is given back before the download.
Nobody == {}

\* Who has the lock for reading.
Readers == {m \in Messages : conv[m].pc \in {"download", "stuck"}}

\* It can be taken for writing.
Free == Readers = {} /\ ~locked

\* The table gets the cache's new answer for g, or the statement fails.
Store(g, new) ==
    \/ /\ table' = new
       /\ ready' = [r \in Readies |-> IF ready[r] = NoReady THEN NoReady
                                      ELSE [ready[r] EXCEPT !.changed = @ \cup {g}]]
       /\ doubtful' = doubtful \ {g}
    \/ /\ doubtful' = doubtful \cup {g}
       /\ UNCHANGED <<table, ready>>

\* enablevocarootomp3; without a cache, or when it has the guild, nothing happens.
Enable(g) ==
    /\ Free /\ cache # NoCache /\ g \notin cache
    /\ cache' = cache \cup {g}
    /\ Store(g, table \cup {g})
    /\ UNCHANGED <<locked, conv, converted, present>>

\* disablevocarootomp3.
Disable(g) ==
    /\ Free /\ cache # NoCache /\ g \in cache
    /\ cache' = cache \ {g}
    /\ Store(g, table \ {g})
    /\ UNCHANGED <<locked, conv, converted, present>>

\* A command, perhaps isvocarootomp3enabled, changes nothing more, and there is no
\* answer to its reply.
Hang ==
    /\ Free /\ cache # NoCache
    /\ locked' = TRUE
    /\ UNCHANGED <<cache, table, ready, doubtful, conv, converted, present>>

\* ready reads the table, at the start and after a lost session,
ReadTable(r) ==
    /\ ready[r] = NoReady
    /\ ready' = [ready EXCEPT ![r] = [copy |-> table, changed |-> {}]]
    /\ UNCHANGED <<cache, table, doubtful, locked, conv, converted, present>>

\* Mutant: the copy is added to what the cache has.
StoreCacheAdded(r) ==
    /\ ready[r] # NoReady /\ Free
    /\ cache' = IF cache = NoCache THEN ready[r].copy ELSE cache \cup ready[r].copy
    /\ doubtful' = ready[r].changed
    /\ ready' = [ready EXCEPT ![r] = NoReady]
    /\ UNCHANGED <<table, locked, conv, converted, present>>

\* and waits for the lock before it replaces the cache by its copy.
StoreCache(r) ==
    /\ ready[r] # NoReady /\ Free
    /\ cache' = ready[r].copy
    /\ doubtful' = ready[r].changed
    /\ ready' = [ready EXCEPT ![r] = NoReady]
    /\ UNCHANGED <<table, locked, conv, converted, present>>
-----------------------------------------------------------------------------
(***************************************************************************)
(* The conversion of a message.                                            *)
(***************************************************************************)

ReceiveLinks(m) ==
    /\ conv[m].pc = "unsent"
    /\ conv' = [conv EXCEPT ![m].pc = IF m \in Links THEN "lock" ELSE "done"]
    /\ UNCHANGED <<cache, table, ready, doubtful, locked, converted>>

\* The lock is there; the conversion is wanted, or the lock is given back.
LookUp(m) ==
    /\ conv[m].pc = "lock" /\ ~locked
    /\ conv' = [conv EXCEPT ![m] =
           IF cache # NoCache /\ GuildOf[m] \in cache
           THEN [pc |-> "download", recordings |-> [i \in DOMAIN RecordingsOf[m] |-> "head"], total |-> 0]
           ELSE [NoConv EXCEPT !.pc = "done"]]
    /\ UNCHANGED <<cache, table, ready, doubtful, locked, converted, present>>

\* Mutant: the size is compared before it is added.
HeadAnswerWithoutOwn(m, i) ==
    /\ conv[m].pc = "download" /\ conv[m].recordings[i] = "head"
    /\ LET total == conv[m].total + RecordingsOf[m][i]
       IN  \/ conv' = [conv EXCEPT ![m].recordings[i] = "error"]
           \/ conv' = [conv EXCEPT ![m].total = total,
                                   ![m].recordings[i] = IF conv[m].total > TotalMaxSize THEN "error" ELSE "get"]
    /\ UNCHANGED <<cache, table, ready, doubtful, locked, converted, present>>

\* The answer to a HEAD request: an error, or the size of what GET would give as the
\* server announces it, which counts at once and whether or not the total is then
\* too large.
HeadAnswer(m, i) ==
    /\ conv[m].pc = "download" /\ conv[m].recordings[i] = "head"
    /\ LET total == conv[m].total + RecordingsOf[m][i]
       IN  \/ conv' = [conv EXCEPT ![m].recordings[i] = "error"]
           \/ conv' = [conv EXCEPT ![m].total = total,
                                   ![m].recordings[i] = IF total > TotalMaxSize THEN "error" ELSE "get"]
    /\ UNCHANGED <<cache, table, ready, doubtful, locked, converted, present>>

\* The answer to a GET request.  Its body is taken at whatever length it has: nobody
\* compares that with the size that was announced and counted.
GetAnswer(m, i) ==
    /\ conv[m].pc = "download" /\ conv[m].recordings[i] = "get"
    /\ \E stage \in {"ok", "error"} : conv' = [conv EXCEPT ![m].recordings[i] = stage]
    /\ UNCHANGED <<cache, table, ready, doubtful, locked, converted, present>>

\* When all requests are answered, the recordings that were downloaded of the first
\* AttachmentLimit are sent in a reply, if there are any; the lock is given back.
Answer(m) ==
    /\ conv[m].pc = "download"
    /\ \A i \in DOMAIN conv[m].recordings : conv[m].recordings[i] \notin {"head", "get"}
    /\ \/ /\ m \in present
          /\ \E i \in DOMAIN conv[m].recordings :
                 i <= AttachmentLimit /\ conv[m].recordings[i] = "ok"
          /\ converted' = converted \cup {m}
       \/ UNCHANGED converted
    /\ conv' = [conv EXCEPT ![m] = [NoConv EXCEPT !.pc = "done"]]
    /\ UNCHANGED <<cache, table, ready, doubtful, locked, present>>

\* There is never an answer to one of m's requests, or to its reply, and what became
\* of the others is of no consequence.
Silence(m) ==
    /\ conv[m].pc = "download" /\ conv[m].recordings # <<>>
    /\ conv' = [conv EXCEPT ![m] = [NoConv EXCEPT !.pc = "stuck"]]
    /\ UNCHANGED <<cache, table, ready, doubtful, locked, converted, present>>

Convert(m) ==
    \/ LookUp(m) \/ Answer(m)
    \/ \E i \in DOMAIN conv[m].recordings : HeadAnswer(m, i) \/ GetAnswer(m, i)

VocarooCommand ==
    \/ \E r \in Readies : ReadTable(r) \/ StoreCache(r)
    \/ \E g \in Servers : Enable(g) \/ Disable(g)
    \/ Hang
-----------------------------------------------------------------------------
(***************************************************************************)
(* Properties.                                                             *)
(***************************************************************************)

\* The cache says what the table says, for every guild but those whose last
\* statement failed or came between ready's copy of the table and its lock.
CacheFollowsTable ==
    cache # NoCache => (cache \ table) \cup (table \ cache) \subseteq doubtful

\* A message is answered only while its guild has conversions enabled, although
\* downloads lie between the look at the cache and the reply.
ConvertedWhereEnabled ==
    [][\A m \in converted' \ converted : cache # NoCache /\ GuildOf[m] \in cache]_<<vocarooVars, present>>

\* The sizes that were announced for the recordings of a message that are or will
\* be downloaded never exceed the limit together, in whatever order they come.
AnnouncedSizesAreBounded ==
    \A m \in Messages :
        SumFunctionOnSet(RecordingsOf[m],
            {i \in DOMAIN conv[m].recordings : conv[m].recordings[i] \in {"get", "ok"}}) <= TotalMaxSize
=============================================================================
