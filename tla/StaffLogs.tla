--------------------------------- MODULE StaffLogs ---------------------------------
(***************************************************************************)
(* The staff logs: a table with the numbered logs of every member, which   *)
(* administrators show, add to, edit and remove from.  No key protects the *)
(* numbers.  The commands are tasks on several threads, and every          *)
(* statement opens a connection of its own; a statement may fail, when the *)
(* file is locked for too long.                                            *)
(***************************************************************************)
EXTENDS ArgumentParser, FiniteSets

CONSTANTS
    Members,        \* the ids of the guild's members
    Administrators, \* those who may use the commands
    ArgumentLists,  \* the arguments they give
    Slots,          \* tasks that run the commands, one at a time
    MaxMessages,    \* how many commands are sent at most
    MaxEntry        \* i64::MAX

ASSUME StaffAssumption ==
    /\ Members \subseteq Nat /\ Administrators \subseteq Members
    /\ ArgumentLists \subseteq Seq([kind : {"number", "mention", "word"}, value : Int])
    /\ MaxMessages \in Nat /\ MaxEntry \in Nat

Operations == {"stafflog", "addstafflog", "editstafflog", "removestafflog"}

VARIABLES
    rows,       \* staff_logs; a reason is named by the message that gave it
    pc,         \* where each task is
    ctx,        \* its author, the member and the entry its command is about, its message
    messages,   \* how many commands were sent; each has a link
    complaint,  \* the last command, if its arguments were refused, and why
    stale       \* the members of whom an entry was added with a count that was old

vars == <<rows, pc, ctx, messages, complaint, stale>>

Rows == [user : Members, entry : Nat \ {0}, link : Nat, edited : Nat]

Contexts == [author : Members \cup {0}, user : Members \cup {0}, entry : Nat, link : Nat]

NoContext == [author |-> 0, user |-> 0, entry |-> 0, link |-> 0]

NoComplaint == [operation |-> "none", author |-> 0, args |-> <<>>, error |-> "none", at |-> 0]

TypeOK ==
    /\ rows \subseteq Rows
    /\ pc \in [Slots -> {"idle", "show", "count", "insert", "update", "delete"}]
    /\ ctx \in [Slots -> Contexts]
    /\ messages \in 0..MaxMessages
    /\ stale \subseteq Members

Init ==
    /\ rows = {}
    /\ pc = [t \in Slots |-> "idle"] /\ ctx = [t \in Slots |-> NoContext]
    /\ messages = 0 /\ complaint = NoComplaint /\ stale = {}

RowsOf(u) == {row \in rows : row.user = u}
-----------------------------------------------------------------------------
\* Mutant: the author is not looked at.
ParseAnyMember(args, argPos, author) == ParseMember(args, argPos, Members)

\* parse_staff_log_member: nobody's own log.
ParseStaffLogMember(args, argPos, author) ==
    LET member == ParseMember(args, argPos, Members)
    IN  IF IsParsed(member) /\ member.value = author
        THEN Failed("ownLog", argPos, args) ELSE member

\* The entry, where one is asked for.  editstafflog calls it its first argument.
ParseEntry(operation, args) ==
    IF operation = "editstafflog" THEN ParseBoundedArg(args, 1, 1, MaxEntry)
    ELSE IF operation = "removestafflog" THEN ParseBoundedArg(args, 2, 1, MaxEntry)
    ELSE Parsed(0, args)

NeedsReason(operation) == operation \in {"addstafflog", "editstafflog"}

\* All the arguments of a command, up to the first that is wrong.
Parse(operation, author, args) ==
    LET member == ParseStaffLogMember(args, 1, author)
        entry == ParseEntry(operation, member.rest)
    IN  IF ~IsParsed(member) THEN member
        ELSE IF ~IsParsed(entry) THEN entry
        ELSE IF NeedsReason(operation) /\ entry.rest = <<>> THEN Failed("noReason", 0, <<>>)
        ELSE Parsed(<<member.value, entry.value>>, entry.rest)

FirstStep(operation) ==
    CASE operation = "stafflog" -> "show"
      [] operation = "addstafflog" -> "count"
      [] operation = "editstafflog" -> "update"
      [] operation = "removestafflog" -> "delete"

\* A command is sent and its arguments are parsed; a reply says what is wrong.
Command(t, operation, author, args) ==
    LET result == Parse(operation, author, args)
    IN  /\ pc[t] = "idle" /\ messages < MaxMessages
        /\ messages' = messages + 1
        /\ IF IsParsed(result)
           THEN /\ pc' = [pc EXCEPT ![t] = FirstStep(operation)]
                /\ ctx' = [ctx EXCEPT ![t] = [author |-> author, user |-> result.value[1],
                                              entry |-> result.value[2], link |-> messages + 1]]
                /\ complaint' = NoComplaint
           ELSE /\ complaint' = [operation |-> operation, author |-> author, args |-> args,
                                 error |-> result.error, at |-> result.at]
                /\ UNCHANGED <<pc, ctx>>
        /\ UNCHANGED <<rows, stale>>

\* The last reply is sent.
Done(t) == pc' = [pc EXCEPT ![t] = "idle"] /\ ctx' = [ctx EXCEPT ![t] = NoContext]

\* A statement that fails, or a restart, changes nothing and ends the command.
Fails(t) ==
    /\ pc[t] # "idle"
    /\ Done(t)
    /\ UNCHANGED <<rows, messages, complaint, stale>>

\* stafflog only reads; the numbers it shows are counted, not read.
Show(t) ==
    /\ pc[t] = "show"
    /\ Done(t)
    /\ UNCHANGED <<rows, messages, complaint, stale>>

\* addstafflog counts the logs it shows,
Count(t) ==
    /\ pc[t] = "count"
    /\ ctx' = [ctx EXCEPT ![t].entry = Cardinality(RowsOf(ctx[t].user)) + 1]
    /\ pc' = [pc EXCEPT ![t] = "insert"]
    /\ UNCHANGED <<rows, messages, complaint, stale>>

\* and inserts the next one through another connection.
Insert(t) ==
    LET u == ctx[t].user
    IN  /\ pc[t] = "insert"
        /\ rows' = rows \cup {[user |-> u, entry |-> ctx[t].entry, link |-> ctx[t].link, edited |-> 0]}
        /\ stale' = IF ctx[t].entry = Cardinality(RowsOf(u)) + 1 THEN stale ELSE stale \cup {u}
        /\ Done(t)
        /\ UNCHANGED <<messages, complaint>>

\* Mutant: the entry of every member is edited.
IsEntryOfAny(row, c) == row.entry = c.entry

\* WHERE user_id = ? AND entry_id = ?
IsEntry(row, c) == row.user = c.user /\ row.entry = c.entry

\* editstafflog.
Update(t) ==
    /\ pc[t] = "update"
    /\ rows' = {IF IsEntry(row, ctx[t]) THEN [row EXCEPT !.edited = ctx[t].link] ELSE row : row \in rows}
    /\ Done(t)
    /\ UNCHANGED <<messages, complaint, stale>>

\* Mutant: the later entries keep their numbers.
DeleteOnly(t) ==
    /\ pc[t] = "delete"
    /\ rows' = {row \in rows : ~IsEntry(row, ctx[t])}
    /\ Done(t)
    /\ UNCHANGED <<messages, complaint, stale>>

\* Mutant: the later entries are deleted with it.
DeleteFrom(t) ==
    /\ pc[t] = "delete"
    /\ rows' = {row \in rows : row.user # ctx[t].user \/ row.entry < ctx[t].entry}
    /\ Done(t)
    /\ UNCHANGED <<messages, complaint, stale>>

\* Mutant: the earlier entries move as well.
DeleteAndMoveAll(t) ==
    LET kept == {row \in rows : ~IsEntry(row, ctx[t])}
    IN  /\ pc[t] = "delete"
        /\ rows' = IF kept = rows THEN rows
                   ELSE {IF row.user = ctx[t].user THEN [row EXCEPT !.entry = @ - 1] ELSE row : row \in kept}
        /\ Done(t)
        /\ UNCHANGED <<messages, complaint, stale>>

\* removestafflog: in one transaction the entry is deleted and, if there was
\* one, the later entries move up.
Delete(t) ==
    LET kept == {row \in rows : ~IsEntry(row, ctx[t])}
    IN  /\ pc[t] = "delete"
        /\ rows' = IF kept = rows THEN rows
                   ELSE {IF row.user = ctx[t].user /\ row.entry > ctx[t].entry
                         THEN [row EXCEPT !.entry = @ - 1] ELSE row : row \in kept}
        /\ Done(t)
        /\ UNCHANGED <<messages, complaint, stale>>

Next ==
    \E t \in Slots :
        \/ \E operation \in Operations, author \in Administrators, args \in ArgumentLists :
               Command(t, operation, author, args)
        \/ Show(t) \/ Count(t) \/ Insert(t) \/ Update(t) \/ Delete(t) \/ Fails(t)

Spec == Init /\ [][Next]_vars
-----------------------------------------------------------------------------
(***************************************************************************)
(* Properties.                                                             *)
(***************************************************************************)

\* The logs of a member are numbered from 1 without gaps, so that the number
\* stafflog shows is the one that edits and removes that log: whatever fails and
\* however commands overlap, unless one was added with a count that another addition
\* or a removal had made old.
NumbersAreShown ==
    \A u \in Members \ stale :
        {row.entry : row \in RowsOf(u)} = 1..Cardinality(RowsOf(u))

Links(u) == {row.link : row \in RowsOf(u)}

\* Logs disappear only when an administrator removes the number they have: one log
\* at a time where the numbers are right, and all of that number where a count was
\* old.  A log appears only by the command that adds it, once, so that none that was
\* removed is brought back by an edit or a removal that overlaps.
OnlyRemovalsLose ==
    [][\A u \in Members :
          LET lost == Links(u) \ Links(u)'
              new == Links(u)' \ Links(u)
          IN  /\ lost # {} =>
                 /\ u \notin stale => Cardinality(lost) = 1
                 /\ \E t \in Slots : /\ pc[t] = "delete" /\ ctx[t].user = u
                                     /\ lost = {row.link : row \in {r \in RowsOf(u) : r.entry = ctx[t].entry}}
              /\ new # {} =>
                 \E t \in Slots : /\ pc[t] = "insert" /\ pc'[t] = "idle"
                                  /\ ctx[t].user = u /\ new = {ctx[t].link}]_vars

\* A member's logs change only through a command of somebody else that names
\* this member.
NobodyChangesTheirOwnLog ==
    [][\A u \in Members :
          RowsOf(u)' # RowsOf(u) =>
              \E t \in Slots : pc[t] # "idle" /\ pc'[t] = "idle" /\ ctx[t].user = u /\ ctx[t].author # u]_vars

\* What the argument at a place must be.
IsRight(operation, author, args, place) ==
    IF place = 1 THEN /\ args[1].kind # "word"
                      /\ args[1].value \in Members \ {author}
    ELSE place = 2 /\ operation \in {"editstafflog", "removestafflog"}
             => args[2].kind = "number" /\ args[2].value >= 1 /\ args[2].value <= MaxEntry

\* A reply about a wrong argument names the first that is wrong, and one about
\* too few says how many there were, although each call of a parser is told by
\* hand what its argument is.  editstafflog is wrong about its second.
ComplaintsAreRight ==
    LET c == complaint
    IN  c.error \notin {"none", "noReason"} =>
        \E place \in 1..(Len(c.args) + 1) :
            /\ \A before \in 1..(place - 1) : IsRight(c.operation, c.author, c.args, before)
            /\ c.error = "notEnough" <=> place = Len(c.args) + 1
            /\ place <= Len(c.args) => ~IsRight(c.operation, c.author, c.args, place)
            /\ \/ c.at = (IF c.error = "notEnough" THEN place - 1 ELSE place)
               \/ c.operation = "editstafflog" /\ place = 2
=============================================================================
