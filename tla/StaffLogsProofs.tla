------------------------------ MODULE StaffLogsProofs ------------------------------
(***************************************************************************)
(* Proofs about StaffLogs: its types, that the numbers shown are those in  *)
(* the table, that nothing is lost but by a removal, that nobody changes   *)
(* their own log, and that complaints name the argument that is wrong.     *)
(***************************************************************************)
EXTENDS StaffLogs, SequenceTheorems, FiniteSetTheorems, TLAPS

(***************************************************************************)
(* What the arguments of a command parse to.                               *)
(***************************************************************************)

\* A member that parses is a member other than the author.
LEMMA ParsedMember ==
    ASSUME NEW args, NEW author, NEW argPos, IsParsed(ParseStaffLogMember(args, argPos, author))
    PROVE  /\ ParseStaffLogMember(args, argPos, author).value \in Members
           /\ ParseStaffLogMember(args, argPos, author).value # author
  BY DEF ParseStaffLogMember, ParseMember, IsParsed, Parsed, Failed, NotEnough

\* A number that parses is within its bounds.
LEMMA ParsedBound ==
    ASSUME NEW args, NEW argPos, IsParsed(ParseBoundedArg(args, argPos, 1, MaxEntry))
    PROVE  ParseBoundedArg(args, argPos, 1, MaxEntry).value \in 1..MaxEntry
  BY DEF ParseBoundedArg, IsParsed, Parsed, Failed, NotEnough

\* An entry that parses is a number, and one that is to be removed is positive.
LEMMA ParsedEntry ==
    ASSUME NEW operation, NEW args, IsParsed(ParseEntry(operation, args))
    PROVE  /\ ParseEntry(operation, args).value \in Nat
           /\ operation = "removestafflog" => ParseEntry(operation, args).value >= 1
  <1>1. CASE operation = "editstafflog"
    BY <1>1, ParsedBound, StaffAssumption DEF ParseEntry
  <1>2. CASE operation = "removestafflog"
    BY <1>2, ParsedBound, StaffAssumption DEF ParseEntry
  <1>3. CASE operation \notin {"editstafflog", "removestafflog"}
    BY <1>3 DEF ParseEntry, Parsed
  <1> QED BY <1>1, <1>2, <1>3

\* A command that is accepted is about a member other than its author.
LEMMA ParsedCommand ==
    ASSUME NEW operation, NEW author, NEW args, IsParsed(Parse(operation, author, args))
    PROVE  /\ Parse(operation, author, args).value[1] \in Members
           /\ Parse(operation, author, args).value[1] # author
           /\ Parse(operation, author, args).value[2] \in Nat
           /\ operation = "removestafflog" => Parse(operation, author, args).value[2] >= 1
  <1> DEFINE member == ParseStaffLogMember(args, 1, author)
             entry == ParseEntry(operation, member.rest)
  <1>1. /\ IsParsed(member) /\ IsParsed(entry)
        /\ Parse(operation, author, args) = Parsed(<<member.value, entry.value>>, entry.rest)
    <2> HIDE DEF member, entry
    <2>1. Parse(operation, author, args) =
            IF ~IsParsed(member) THEN member
            ELSE IF ~IsParsed(entry) THEN entry
            ELSE IF NeedsReason(operation) /\ entry.rest = <<>> THEN Failed("noReason", 0, <<>>)
            ELSE Parsed(<<member.value, entry.value>>, entry.rest)
      BY DEF Parse, member, entry
    <2>2. ~IsParsed(Failed("noReason", 0, <<>>))
      BY DEF IsParsed, Failed
    <2> QED BY <2>1, <2>2
  <1>2. member.value \in Members /\ member.value # author
    BY <1>1, ParsedMember
  <1>3. entry.value \in Nat /\ (operation = "removestafflog" => entry.value >= 1)
    BY <1>1, ParsedEntry
  <1>4. Parse(operation, author, args).value = <<member.value, entry.value>>
    BY <1>1 DEF Parsed
  <1> HIDE DEF member, entry
  <1> QED BY <1>2, <1>3, <1>4
-----------------------------------------------------------------------------
(***************************************************************************)
(* Types, and what the contexts of the commands and the links of the rows  *)
(* always are.                                                             *)
(***************************************************************************)

\* A busy task is about a member other than its author, has a link of its own
\* and, where it inserts or deletes, a positive number.
ContextsInv ==
    \A t \in Slots : pc[t] # "idle" =>
        /\ ctx[t].user \in Members /\ ctx[t].user # ctx[t].author
        /\ ctx[t].link <= messages
        /\ pc[t] \in {"insert", "delete"} => ctx[t].entry >= 1
        /\ \A s \in Slots \ {t} : pc[s] # "idle" => ctx[s].link # ctx[t].link

\* A row is the only one with its link, and a task that adds one has a new link.
LinksInv ==
    /\ \A row \in rows : row.link <= messages
    /\ \A r, s \in rows : r.link = s.link => r = s
    /\ \A t \in Slots : pc[t] \in {"count", "insert"} =>
           \A row \in rows : row.link # ctx[t].link

StaffInv == TypeOK /\ ContextsInv /\ LinksInv

LEMMA StaffInit == Init => StaffInv
  BY StaffAssumption
     DEF Init, StaffInv, TypeOK, ContextsInv, LinksInv, Contexts, NoContext, Rows

\* A task that ends frees its context.
LEMMA DoneKeeps ==
    ASSUME StaffInv, NEW t \in Slots, Done(t), UNCHANGED <<rows, messages, stale>>
    PROVE  StaffInv'
  BY DEF Done, StaffInv, TypeOK, ContextsInv, LinksInv, Contexts, NoContext

\* Every command keeps the invariant when it is sent.
LEMMA CommandKeeps ==
    ASSUME StaffInv, NEW t \in Slots, NEW operation \in Operations, NEW author \in Administrators,
           NEW args \in ArgumentLists, Command(t, operation, author, args)
    PROVE  StaffInv'
  <1> DEFINE result == Parse(operation, author, args)
             new == [author |-> author, user |-> result.value[1],
                     entry |-> result.value[2], link |-> messages + 1]
  <1>1. CASE ~IsParsed(result)
    <2>1. /\ UNCHANGED <<pc, ctx, rows, stale>>
          /\ messages' = messages + 1 /\ messages < MaxMessages
      BY <1>1 DEF Command
    <2>2. messages \in Nat /\ MaxMessages \in Nat
      BY StaffAssumption DEF StaffInv, TypeOK
    <2>3. TypeOK'
      BY <2>1, <2>2 DEF StaffInv, TypeOK
    <2>4. ContextsInv' /\ LinksInv'
      BY <2>1, <2>2 DEF StaffInv, TypeOK, ContextsInv, LinksInv, Contexts, Rows
    <2> QED BY <2>3, <2>4 DEF StaffInv
  <1>2. CASE IsParsed(result)
    <2>1. /\ result.value[1] \in Members /\ result.value[1] # author /\ result.value[2] \in Nat
          /\ operation = "removestafflog" => result.value[2] >= 1
      BY <1>2, ParsedCommand
    <2>2. /\ pc' = [pc EXCEPT ![t] = FirstStep(operation)] /\ ctx' = [ctx EXCEPT ![t] = new]
          /\ pc[t] = "idle" /\ messages' = messages + 1 /\ messages < MaxMessages
          /\ rows' = rows /\ stale' = stale
      BY <1>2 DEF Command
    <2>3. messages \in Nat /\ MaxMessages \in Nat
      BY StaffAssumption DEF StaffInv, TypeOK
    <2>4. /\ new \in Contexts /\ new.user \in Members /\ new.user # new.author
          /\ new.link = messages + 1 /\ new.entry = result.value[2]
      BY <2>1, <2>3, StaffAssumption DEF Contexts
    <2> HIDE DEF new, result
    <2>5. /\ FirstStep(operation) \in {"show", "count", "update", "delete"}
          /\ FirstStep(operation) = "delete" => new.entry >= 1
      BY <2>1, <2>4 DEF FirstStep, Operations
    <2>6. TypeOK'
      BY <2>2, <2>3, <2>4, <2>5 DEF StaffInv, TypeOK
    <2>7. ContextsInv'
      BY <2>2, <2>3, <2>4, <2>5 DEF StaffInv, TypeOK, ContextsInv, Contexts
    <2>8. LinksInv'
      BY <2>2, <2>3, <2>4, <2>5 DEF StaffInv, TypeOK, LinksInv, Contexts, Rows
    <2> QED BY <2>6, <2>7, <2>8 DEF StaffInv
  <1> QED BY <1>1, <1>2

\* There are no more rows than messages, since every row has its own link.
LEMMA RowsAreFinite ==
    ASSUME StaffInv, NEW u
    PROVE  IsFiniteSet(RowsOf(u)) /\ Cardinality(RowsOf(u)) \in Nat
  <1> DEFINE link == [row \in RowsOf(u) |-> row.link]
  <1>1. messages \in Nat
    BY StaffAssumption DEF StaffInv, TypeOK
  <1>2. link \in [RowsOf(u) -> 0..messages]
    BY <1>1 DEF StaffInv, TypeOK, LinksInv, Rows, RowsOf
  <1>3. \A r, s \in RowsOf(u) : link[r] = link[s] => r = s
    BY DEF StaffInv, LinksInv, RowsOf
  <1>4. link \in Injection(RowsOf(u), 0..messages)
    BY <1>2, <1>3 DEF Injection, IsInjective
  <1>5. IsFiniteSet(0..messages)
    BY <1>1, FS_Interval
  <1> HIDE DEF link
  <1>6. IsFiniteSet(RowsOf(u))
    BY <1>4, <1>5, FS_Injection
  <1> QED BY <1>6, FS_CardinalityType

\* addstafflog counts the logs of its member.
LEMMA CountKeeps ==
    ASSUME StaffInv, NEW t \in Slots, Count(t)
    PROVE  StaffInv'
  <1> DEFINE n == Cardinality(RowsOf(ctx[t].user)) + 1
  <1>1. n \in Nat /\ n >= 1
    BY RowsAreFinite
  <1>2. /\ ctx' = [ctx EXCEPT ![t].entry = n] /\ pc' = [pc EXCEPT ![t] = "insert"] /\ pc[t] = "count"
        /\ UNCHANGED <<rows, messages, complaint, stale>>
    BY DEF Count
  <1> HIDE DEF n
  <1> QED BY <1>1, <1>2 DEF StaffInv, TypeOK, ContextsInv, LinksInv, Contexts

\* The row that addstafflog inserts.
Inserted(t) == [user |-> ctx[t].user, entry |-> ctx[t].entry, link |-> ctx[t].link, edited |-> 0]

LEMMA InsertKeeps ==
    ASSUME StaffInv, NEW t \in Slots, Insert(t)
    PROVE  StaffInv'
  <1> DEFINE new == Inserted(t)
  <1>1. /\ rows' = rows \cup {new} /\ pc[t] = "insert" /\ Done(t)
        /\ messages' = messages /\ stale' \subseteq stale \cup {ctx[t].user}
    BY DEF Insert, Inserted
  <1>2. /\ new \in Rows /\ new.link = ctx[t].link /\ new.link <= messages
        /\ ctx[t].user \in Members
    BY <1>1 DEF StaffInv, TypeOK, ContextsInv, Inserted, Contexts, Rows
  <1> HIDE DEF new
  <1>3. TypeOK'
    BY <1>1, <1>2 DEF StaffInv, TypeOK, Done, Contexts, NoContext
  <1>4. ContextsInv'
    BY <1>1 DEF StaffInv, TypeOK, Done, ContextsInv
  <1>5. LinksInv'
    BY <1>1, <1>2 DEF StaffInv, TypeOK, Done, ContextsInv, LinksInv
  <1> QED BY <1>3, <1>4, <1>5 DEF StaffInv

\* Rows that stand for rows of before with the same links keep the invariant.
LEMMA ImageKeeps ==
    ASSUME StaffInv, NEW t \in Slots, Done(t), UNCHANGED <<messages, stale>>,
           rows' \subseteq Rows,
           \A row \in rows' : \E old \in rows : row.link = old.link,
           \A r, s \in rows' : r.link = s.link => r = s
    PROVE  StaffInv'
  <1>1. TypeOK'
    BY DEF StaffInv, TypeOK, Done, Contexts, NoContext
  <1>2. ContextsInv'
    BY DEF StaffInv, TypeOK, Done, ContextsInv
  <1>3. LinksInv'
    BY DEF StaffInv, TypeOK, Done, LinksInv
  <1> QED BY <1>1, <1>2, <1>3 DEF StaffInv

\* What editstafflog makes of a row.
Edited(row, t) == IF IsEntry(row, ctx[t]) THEN [row EXCEPT !.edited = ctx[t].link] ELSE row

LEMMA EditedRow ==
    ASSUME StaffInv, NEW t \in Slots, NEW row \in rows
    PROVE  /\ Edited(row, t) \in Rows
           /\ Edited(row, t).link = row.link /\ Edited(row, t).user = row.user
           /\ Edited(row, t).entry = row.entry
  BY DEF Edited, StaffInv, TypeOK, Rows, Contexts

LEMMA UpdateKeeps ==
    ASSUME StaffInv, NEW t \in Slots, Update(t)
    PROVE  StaffInv'
  <1>1. rows' = {Edited(row, t) : row \in rows}
    BY DEF Update, Edited
  <1>2. rows' \subseteq Rows /\ \A row \in rows' : \E old \in rows : row.link = old.link
    BY <1>1, EditedRow
  <1>3. \A r, s \in rows' : r.link = s.link => r = s
    BY <1>1, EditedRow DEF StaffInv, LinksInv
  <1> QED BY <1>2, <1>3, ImageKeeps DEF Update

\* What removestafflog makes of a row that it keeps.
Moved(row, t) ==
    IF row.user = ctx[t].user /\ row.entry > ctx[t].entry THEN [row EXCEPT !.entry = @ - 1] ELSE row

Kept(t) == {row \in rows : ~IsEntry(row, ctx[t])}

LEMMA MovedRow ==
    ASSUME StaffInv, NEW t \in Slots, pc[t] = "delete", NEW row \in rows
    PROVE  /\ Moved(row, t) \in Rows
           /\ Moved(row, t).link = row.link /\ Moved(row, t).user = row.user
           /\ Moved(row, t).entry = IF row.user = ctx[t].user /\ row.entry > ctx[t].entry
                                    THEN row.entry - 1 ELSE row.entry
  <1>1. row \in Rows /\ ctx[t].entry \in Nat /\ ctx[t].entry >= 1
    BY DEF StaffInv, TypeOK, ContextsInv, Contexts
  <1> QED BY <1>1 DEF Moved, Rows

LEMMA DeleteKeeps ==
    ASSUME StaffInv, NEW t \in Slots, Delete(t)
    PROVE  StaffInv'
  <1>1. /\ pc[t] = "delete" /\ Done(t) /\ UNCHANGED <<messages, stale>>
        /\ rows' = IF Kept(t) = rows THEN rows ELSE {Moved(row, t) : row \in Kept(t)}
    BY DEF Delete, Kept, Moved
  <1>2. CASE Kept(t) = rows
    BY <1>1, <1>2, DoneKeeps
  <1>3. CASE Kept(t) # rows
    <2>1. rows' = {Moved(row, t) : row \in Kept(t)} /\ Kept(t) \subseteq rows
      BY <1>1, <1>3 DEF Kept
    <2>2. rows' \subseteq Rows /\ \A row \in rows' : \E old \in rows : row.link = old.link
      BY <1>1, <2>1, MovedRow
    <2>3. \A r, s \in rows' : r.link = s.link => r = s
      BY <1>1, <2>1, MovedRow DEF StaffInv, LinksInv
    <2> QED BY <1>1, <2>2, <2>3, ImageKeeps
  <1> QED BY <1>2, <1>3

LEMMA StaffStep == StaffInv /\ [Next]_vars => StaffInv'
  <1> SUFFICES ASSUME StaffInv, [Next]_vars PROVE StaffInv'
    OBVIOUS
  <1>1. CASE UNCHANGED vars
    BY <1>1 DEF vars, StaffInv, TypeOK, ContextsInv, LinksInv
  <1>2. ASSUME NEW t \in Slots, NEW operation \in Operations, NEW author \in Administrators,
               NEW args \in ArgumentLists, Command(t, operation, author, args)
        PROVE  StaffInv'
    BY <1>2, CommandKeeps
  <1>3. ASSUME NEW t \in Slots, Show(t) \/ Fails(t) PROVE StaffInv'
    BY <1>3, DoneKeeps DEF Show, Fails
  <1>4. ASSUME NEW t \in Slots, Count(t) \/ Insert(t) \/ Update(t) \/ Delete(t) PROVE StaffInv'
    BY <1>4, CountKeeps, InsertKeeps, UpdateKeeps, DeleteKeeps
  <1> QED BY <1>1, <1>2, <1>3, <1>4 DEF Next

\* Every task is about somebody else's log and every row has its own link.
LEMMA StaffAlways == Spec => []StaffInv
  BY StaffInit, StaffStep, PTL DEF Spec

\* The types of the table and of the commands at work.
THEOREM StaffTypeCorrect == Spec => []TypeOK
  <1>1. StaffInv => TypeOK
    BY DEF StaffInv
  <1> QED BY <1>1, StaffAlways, PTL
-----------------------------------------------------------------------------
(***************************************************************************)
(* The numbers of a member's logs.                                         *)
(***************************************************************************)

\* A set of rows is numbered from 1 to n, each number once.
NumberedTo(S, n) ==
    /\ {row.entry : row \in S} = 1..n
    /\ \A r, s \in S : r.entry = s.entry => r = s

\* A set that is numbered to n has n rows.
LEMMA NumberedCount ==
    ASSUME NEW S, NEW n \in Nat, NumberedTo(S, n)
    PROVE  Cardinality(S) = n
  <1> DEFINE rowOf == [k \in 1..n |-> CHOOSE row \in S : row.entry = k]
  <1>1. \A k \in 1..n : rowOf[k] \in S /\ rowOf[k].entry = k
    BY DEF NumberedTo
  <1>2. \A row \in S : row.entry \in 1..n
    BY DEF NumberedTo
  <1>3. rowOf \in [1..n -> S]
    BY <1>1
  <1> HIDE DEF rowOf
  <1>4. \A j, k \in 1..n : rowOf[j] = rowOf[k] => j = k
    BY <1>1
  <1>5. \A row \in S : rowOf[row.entry] = row
    BY <1>1, <1>2 DEF NumberedTo
  <1>6. rowOf \in Bijection(1..n, S)
    BY <1>2, <1>3, <1>4, <1>5 DEF Bijection, Injection, Surjection, IsInjective
  <1>7. IsFiniteSet(1..n) /\ Cardinality(1..n) = n
    BY FS_Interval
  <1> QED BY <1>6, <1>7, FS_Bijection DEF ExistsBijection

\* The logs of everybody whose counts were never old are numbered.
NumbersInv == \A u \in Members \ stale : \E n \in Nat : NumberedTo(RowsOf(u), n)

LEMMA NumbersInit == Init => NumbersInv
  <1>1. NumberedTo({}, 0)
    BY DEF NumberedTo
  <1> QED BY <1>1 DEF Init, NumbersInv, RowsOf

\* A row with the next number may be added.
LEMMA NumberedInsert ==
    ASSUME NEW S, NEW n \in Nat, NumberedTo(S, n), NEW new, new.entry = n + 1
    PROVE  NumberedTo(S \cup {new}, n + 1)
  <1>1. \A row \in S : row.entry \in 1..n
    BY DEF NumberedTo
  <1>2. \A k \in 1..n : \E row \in S : row.entry = k
    BY DEF NumberedTo
  <1>3. \A r, s \in S \cup {new} : r.entry = s.entry => r = s
    BY <1>1 DEF NumberedTo
  <1>4. \A row \in S \cup {new} : row.entry \in 1..(n + 1)
    BY <1>1
  <1>5. \A k \in 1..(n + 1) : \E row \in S \cup {new} : row.entry = k
    BY <1>2
  <1> QED BY <1>3, <1>4, <1>5 DEF NumberedTo

LEMMA InsertNumbers ==
    ASSUME StaffInv, NumbersInv, NEW t \in Slots, Insert(t)
    PROVE  NumbersInv'
  <1> SUFFICES ASSUME NEW u \in Members, u \notin stale' PROVE \E n \in Nat : NumberedTo(RowsOf(u)', n)
    BY DEF NumbersInv, NumberedTo
  <1>1. /\ rows' = rows \cup {Inserted(t)} /\ Inserted(t).user = ctx[t].user
        /\ Inserted(t).entry = ctx[t].entry /\ stale \subseteq stale'
    BY DEF Insert, Inserted
  <1>2. PICK n \in Nat : NumberedTo(RowsOf(u), n)
    BY <1>1 DEF NumbersInv
  <1>3. CASE u # ctx[t].user
    <2>1. RowsOf(u)' = RowsOf(u)
      BY <1>1, <1>3 DEF RowsOf
    <2> QED BY <1>2, <2>1
  <1>4. CASE u = ctx[t].user
    <2>1. RowsOf(u)' = RowsOf(u) \cup {Inserted(t)}
      BY <1>1, <1>4 DEF RowsOf
    <2>2. ctx[t].entry = Cardinality(RowsOf(u)) + 1
      BY <1>4 DEF Insert
    <2>3. Inserted(t).entry = n + 1
      BY <1>1, <1>2, <2>2, NumberedCount
    <2> QED BY <1>2, <2>1, <2>3, NumberedInsert
  <1> QED BY <1>3, <1>4

LEMMA UpdateNumbers ==
    ASSUME StaffInv, NumbersInv, NEW t \in Slots, Update(t)
    PROVE  NumbersInv'
  <1> SUFFICES ASSUME NEW u \in Members, u \notin stale' PROVE \E n \in Nat : NumberedTo(RowsOf(u)', n)
    BY DEF NumbersInv, NumberedTo
  <1>1. rows' = {Edited(row, t) : row \in rows} /\ stale' = stale
    BY DEF Update, Edited
  <1>2. PICK n \in Nat : NumberedTo(RowsOf(u), n)
    BY <1>1 DEF NumbersInv
  <1>3. RowsOf(u)' = {Edited(row, t) : row \in RowsOf(u)}
    BY <1>1, EditedRow DEF RowsOf
  <1>4. \A row \in RowsOf(u) : Edited(row, t).entry = row.entry
    BY EditedRow DEF RowsOf
  <1>5. {row.entry : row \in RowsOf(u)'} = {row.entry : row \in RowsOf(u)}
    BY <1>3, <1>4
  <1>6. NumberedTo(RowsOf(u)', n)
    BY <1>2, <1>3, <1>4, <1>5 DEF NumberedTo
  <1> QED BY <1>6

\* When a row is removed and the later ones move up, n - 1 are left.
LEMMA DeleteNumbers ==
    ASSUME StaffInv, NumbersInv, NEW t \in Slots, Delete(t)
    PROVE  NumbersInv'
  <1> SUFFICES ASSUME NEW u \in Members, u \notin stale' PROVE \E n \in Nat : NumberedTo(RowsOf(u)', n)
    BY DEF NumbersInv, NumberedTo
  <1>1. /\ pc[t] = "delete" /\ stale' = stale
        /\ rows' = IF Kept(t) = rows THEN rows ELSE {Moved(row, t) : row \in Kept(t)}
    BY DEF Delete, Kept, Moved
  <1>2. PICK n \in Nat : NumberedTo(RowsOf(u), n)
    BY <1>1 DEF NumbersInv
  <1>3. CASE Kept(t) = rows
    BY <1>1, <1>2, <1>3 DEF RowsOf
  <1>4. CASE Kept(t) # rows
    <2>1. rows' = {Moved(row, t) : row \in Kept(t)} /\ Kept(t) \subseteq rows
      BY <1>1, <1>4 DEF Kept
    <2>2. RowsOf(u)' = {Moved(row, t) : row \in {r \in Kept(t) : r.user = u}}
      BY <1>1, <2>1, MovedRow DEF RowsOf
    <2>3. CASE u # ctx[t].user
      <3>1. {r \in Kept(t) : r.user = u} = RowsOf(u)
        BY <2>3 DEF Kept, IsEntry, RowsOf
      <3>2. \A row \in RowsOf(u) : Moved(row, t) = row
        BY <2>3 DEF RowsOf, Moved
      <3>3. RowsOf(u)' = RowsOf(u)
        BY <2>2, <3>1, <3>2
      <3> QED BY <1>2, <3>3
    <2>4. CASE u = ctx[t].user
      <3> DEFINE e == ctx[t].entry
                 S == RowsOf(u)
      <3>1. PICK old \in rows : IsEntry(old, ctx[t])
        BY <1>4 DEF Kept
      <3>2. \A row \in S : row.entry \in 1..n
        BY <1>2 DEF NumberedTo
      <3>3. old \in S /\ old.entry = e /\ e \in 1..n
        BY <2>4, <3>1, <3>2 DEF IsEntry, RowsOf
      <3>4. {r \in Kept(t) : r.user = u} = {r \in S : r.entry # e}
        BY <2>4 DEF Kept, IsEntry, RowsOf
      <3>5. \A row \in S : Moved(row, t).entry = IF row.entry > e THEN row.entry - 1 ELSE row.entry
        BY <1>1, <2>4, MovedRow DEF RowsOf
      <3>6. \A row \in RowsOf(u)' : row.entry \in 1..(n - 1)
        BY <2>2, <3>2, <3>3, <3>4, <3>5
      <3>7. \A k \in 1..(n - 1) : \E row \in RowsOf(u)' : row.entry = k
        <4> SUFFICES ASSUME NEW k \in 1..(n - 1) PROVE \E row \in RowsOf(u)' : row.entry = k
          OBVIOUS
        <4>1. \A j \in 1..n : \E row \in S : row.entry = j
          BY <1>2 DEF NumberedTo
        <4>2. CASE k < e
          <5>1. PICK row \in S : row.entry = k
            BY <4>1, <4>2
          <5>2. Moved(row, t).entry = k /\ row \in {r \in S : r.entry # e}
            BY <3>3, <3>5, <4>2, <5>1
          <5> QED BY <2>2, <3>4, <5>2
        <4>3. CASE k >= e
          <5>1. k + 1 \in 1..n
            OBVIOUS
          <5>2. PICK row \in S : row.entry = k + 1
            BY <4>1, <5>1
          <5>3. Moved(row, t).entry = k /\ row \in {r \in S : r.entry # e}
            BY <3>3, <3>5, <4>3, <5>2
          <5> QED BY <2>2, <3>4, <5>3
        <4> QED BY <3>3, <4>2, <4>3
      <3>8. \A r, s \in RowsOf(u)' : r.entry = s.entry => r = s
        <4>1. \A r, s \in {q \in S : q.entry # e} : Moved(r, t).entry = Moved(s, t).entry => r.entry = s.entry
          BY <3>2, <3>3, <3>5
        <4>2. \A r, s \in S : r.entry = s.entry => r = s
          BY <1>2 DEF NumberedTo
        <4> QED BY <2>2, <3>4, <4>1, <4>2
      <3>9. NumberedTo(RowsOf(u)', n - 1) /\ n - 1 \in Nat
        BY <3>3, <3>6, <3>7, <3>8 DEF NumberedTo
      <3> QED BY <3>9
    <2> QED BY <2>3, <2>4
  <1> QED BY <1>3, <1>4

LEMMA NumbersStep == StaffInv /\ NumbersInv /\ [Next]_vars => NumbersInv'
  <1> SUFFICES ASSUME StaffInv, NumbersInv, [Next]_vars PROVE NumbersInv'
    OBVIOUS
  <1>1. CASE UNCHANGED <<rows, stale>>
    BY <1>1 DEF NumbersInv, RowsOf, NumberedTo
  <1>2. ASSUME NEW t \in Slots, Insert(t) \/ Update(t) \/ Delete(t) PROVE NumbersInv'
    BY <1>2, InsertNumbers, UpdateNumbers, DeleteNumbers
  <1> QED BY <1>1, <1>2 DEF Next, vars, Command, Show, Count, Fails

\* The logs of a member are numbered from 1 without gaps, whatever fails and
\* however commands overlap, unless one was added with a count that another addition
\* or a removal had made old.
THEOREM NumbersAreAlwaysShown == Spec => []NumbersAreShown
  <1>1. NumbersInv => NumbersAreShown
    BY NumberedCount DEF NumbersInv, NumbersAreShown, NumberedTo
  <1> QED BY <1>1, NumbersInit, NumbersStep, StaffAlways, PTL DEF Spec
-----------------------------------------------------------------------------
(***************************************************************************)
(* What a step may do to the logs of a member.                             *)
(***************************************************************************)

\* Only three steps change the table, each at the end of its command.
LEMMA TableSteps ==
    ASSUME [Next]_vars
    PROVE  \/ rows' = rows
           \/ \E t \in Slots : /\ Insert(t) \/ Update(t) \/ Delete(t)
                               /\ pc[t] # "idle" /\ Done(t)
  BY DEF Next, vars, Command, Show, Count, Fails, Insert, Update, Delete

\* They change the logs of nobody but the member of the command.
LEMMA OneMember ==
    ASSUME StaffInv, NEW t \in Slots, Insert(t) \/ Update(t) \/ Delete(t), NEW u, u # ctx[t].user
    PROVE  RowsOf(u)' = RowsOf(u)
  <1>1. CASE Insert(t)
    BY <1>1 DEF Insert, RowsOf
  <1>2. CASE Update(t)
    <2>1. rows' = {Edited(row, t) : row \in rows}
      BY <1>2 DEF Update, Edited
    <2>2. RowsOf(u)' = {Edited(row, t) : row \in RowsOf(u)}
      BY <2>1, EditedRow DEF RowsOf
    <2>3. \A row \in RowsOf(u) : Edited(row, t) = row
      BY DEF Edited, IsEntry, RowsOf
    <2> QED BY <2>2, <2>3
  <1>3. CASE Delete(t)
    <2>1. /\ pc[t] = "delete"
          /\ rows' = IF Kept(t) = rows THEN rows ELSE {Moved(row, t) : row \in Kept(t)}
      BY <1>3 DEF Delete, Kept, Moved
    <2>2. CASE Kept(t) # rows
      <3>1. RowsOf(u)' = {Moved(row, t) : row \in {r \in Kept(t) : r.user = u}}
        BY <2>1, <2>2, MovedRow DEF RowsOf, Kept
      <3>2. {r \in Kept(t) : r.user = u} = RowsOf(u)
        BY DEF Kept, IsEntry, RowsOf
      <3>3. \A row \in RowsOf(u) : Moved(row, t) = row
        BY DEF RowsOf, Moved
      <3> QED BY <3>1, <3>2, <3>3
    <2> QED BY <2>1, <2>2 DEF RowsOf
  <1> QED BY <1>1, <1>2, <1>3

\* The logs of a member change only through a command of somebody else that
\* names this member: commands that are at work keep their author and their member.
THEOREM NobodyEverChangesTheirOwnLog == Spec => NobodyChangesTheirOwnLog
  <1> DEFINE Others == \A u \in Members :
          RowsOf(u)' # RowsOf(u) =>
              \E t \in Slots : pc[t] # "idle" /\ pc'[t] = "idle" /\ ctx[t].user = u /\ ctx[t].author # u
  <1>1. ASSUME StaffInv, [Next]_vars PROVE Others
    <2> SUFFICES ASSUME NEW u \in Members, RowsOf(u)' # RowsOf(u)
                 PROVE  \E t \in Slots : /\ pc[t] # "idle" /\ pc'[t] = "idle"
                                         /\ ctx[t].user = u /\ ctx[t].author # u
      OBVIOUS
    <2>1. rows' # rows
      BY DEF RowsOf
    <2>2. PICK t \in Slots : /\ Insert(t) \/ Update(t) \/ Delete(t)
                             /\ pc[t] # "idle" /\ Done(t)
      BY <1>1, <2>1, TableSteps
    <2>3. ctx[t].user = u
      BY <1>1, <2>2, OneMember
    <2>4. pc'[t] = "idle"
      BY <1>1, <2>2 DEF StaffInv, TypeOK, Done
    <2> QED BY <1>1, <2>2, <2>3, <2>4 DEF StaffInv, ContextsInv
  <1> QED BY <1>1, StaffAlways, PTL DEF Spec, NobodyChangesTheirOwnLog

\* Additions and edits lose no log.
LEMMA NothingLost ==
    ASSUME StaffInv, NEW t \in Slots, Insert(t) \/ Update(t), NEW u
    PROVE  Links(u) \subseteq Links(u)'
  <1>1. CASE Insert(t)
    BY <1>1 DEF Insert, Links, RowsOf
  <1>2. CASE Update(t)
    <2>1. rows' = {Edited(row, t) : row \in rows}
      BY <1>2 DEF Update, Edited
    <2>2. \A row \in RowsOf(u) : Edited(row, t) \in RowsOf(u)' /\ Edited(row, t).link = row.link
      BY <2>1, EditedRow DEF RowsOf
    <2> QED BY <2>2 DEF Links
  <1> QED BY <1>1, <1>2

\* A removal loses the logs with its number.
LEMMA RemovedLogs ==
    ASSUME StaffInv, NEW t \in Slots, Delete(t), NEW u, u = ctx[t].user
    PROVE  Links(u) \ Links(u)' = {row.link : row \in {r \in RowsOf(u) : r.entry = ctx[t].entry}}
  <1> DEFINE Named == {r \in RowsOf(u) : r.entry = ctx[t].entry}
  <1>1. /\ pc[t] = "delete"
        /\ rows' = IF Kept(t) = rows THEN rows ELSE {Moved(row, t) : row \in Kept(t)}
    BY DEF Delete, Kept, Moved
  <1>2. RowsOf(u) \cap Kept(t) = RowsOf(u) \ Named
    BY DEF Kept, IsEntry, RowsOf
  <1>3. Links(u)' = {row.link : row \in RowsOf(u) \cap Kept(t)}
    <2>1. CASE Kept(t) = rows
      BY <1>1, <2>1 DEF Links, RowsOf
    <2>2. CASE Kept(t) # rows
      <3>1. RowsOf(u)' = {Moved(row, t) : row \in RowsOf(u) \cap Kept(t)}
        BY <1>1, <2>2, MovedRow DEF RowsOf, Kept
      <3>2. \A row \in RowsOf(u) : Moved(row, t).link = row.link
        BY <1>1, MovedRow DEF RowsOf
      <3> QED BY <3>1, <3>2 DEF Links
    <2> QED BY <2>1, <2>2
  <1>4. \A r, s \in RowsOf(u) : r.link = s.link => r = s
    BY DEF StaffInv, LinksInv, RowsOf
  <1>5. Links(u) \ Links(u)' = {row.link : row \in Named}
    BY <1>2, <1>3, <1>4 DEF Links
  <1> QED BY <1>5

\* Edits and removals bring no log back, and an addition brings its own.
LEMMA OnlyOwnLog ==
    ASSUME StaffInv, NEW t \in Slots, Insert(t) \/ Update(t) \/ Delete(t), NEW u,
           Links(u)' \ Links(u) # {}
    PROVE  Insert(t) /\ ctx[t].user = u /\ Links(u)' \ Links(u) = {ctx[t].link}
  <1>1. CASE Insert(t)
    <2>1. rows' = rows \cup {Inserted(t)}
      BY <1>1 DEF Insert, Inserted
    <2>2. Inserted(t).user = ctx[t].user /\ Inserted(t).link = ctx[t].link
      BY DEF Inserted
    <2>3. \A row \in rows : row.link # ctx[t].link
      BY <1>1 DEF Insert, StaffInv, LinksInv
    <2> QED BY <1>1, <2>1, <2>2, <2>3 DEF Links, RowsOf
  <1>2. CASE Update(t)
    <2>1. rows' = {Edited(row, t) : row \in rows}
      BY <1>2 DEF Update, Edited
    <2>2. RowsOf(u)' = {Edited(row, t) : row \in RowsOf(u)}
      BY <2>1, EditedRow DEF RowsOf
    <2>3. \A row \in RowsOf(u) : Edited(row, t).link = row.link
      BY EditedRow DEF RowsOf
    <2>4. Links(u)' \subseteq Links(u)
      BY <2>2, <2>3 DEF Links
    <2> QED BY <2>4
  <1>3. CASE Delete(t)
    <2>1. /\ pc[t] = "delete"
          /\ rows' = IF Kept(t) = rows THEN rows ELSE {Moved(row, t) : row \in Kept(t)}
      BY <1>3 DEF Delete, Kept, Moved
    <2>2. CASE Kept(t) # rows
      <3>1. RowsOf(u)' = {Moved(row, t) : row \in RowsOf(u) \cap Kept(t)}
        BY <2>1, <2>2, MovedRow DEF RowsOf, Kept
      <3>2. \A row \in RowsOf(u) : Moved(row, t).link = row.link
        BY <2>1, MovedRow DEF RowsOf
      <3>3. Links(u)' \subseteq Links(u)
        BY <3>1, <3>2 DEF Links
      <3> QED BY <3>3
    <2> QED BY <2>1, <2>2 DEF Links, RowsOf
  <1> QED BY <1>1, <1>2, <1>3

\* Logs disappear only when an administrator removes the number they have, one at a
\* time where the numbers are right, and appear only by the command that adds them:
\* no overlap brings one back.
THEOREM OnlyRemovalsEverLose == Spec => OnlyRemovalsLose
  <1> DEFINE Lost(u) == Links(u) \ Links(u)'
             Removed == \A u \in Members :
                  LET lost == Links(u) \ Links(u)'
                      new == Links(u)' \ Links(u)
                  IN  /\ lost # {} =>
                         /\ u \notin stale => Cardinality(lost) = 1
                         /\ \E t \in Slots :
                                /\ pc[t] = "delete" /\ ctx[t].user = u
                                /\ lost = {row.link : row \in {r \in RowsOf(u) : r.entry = ctx[t].entry}}
                      /\ new # {} =>
                         \E t \in Slots : /\ pc[t] = "insert" /\ pc'[t] = "idle"
                                          /\ ctx[t].user = u /\ new = {ctx[t].link}
  <1>0. ASSUME StaffInv, [Next]_vars, NEW u \in Members, Links(u)' \ Links(u) # {}
        PROVE  \E t \in Slots : /\ pc[t] = "insert" /\ pc'[t] = "idle"
                                /\ ctx[t].user = u /\ Links(u)' \ Links(u) = {ctx[t].link}
    <2>1. rows' # rows
      BY <1>0 DEF Links, RowsOf
    <2>2. PICK t \in Slots : /\ Insert(t) \/ Update(t) \/ Delete(t)
                             /\ pc[t] # "idle" /\ Done(t)
      BY <1>0, <2>1, TableSteps
    <2>3. Insert(t) /\ ctx[t].user = u /\ Links(u)' \ Links(u) = {ctx[t].link}
      BY <1>0, <2>2, OnlyOwnLog
    <2>4. pc[t] = "insert" /\ pc'[t] = "idle"
      BY <1>0, <2>2, <2>3 DEF Insert, Done, StaffInv, TypeOK
    <2> QED BY <2>3, <2>4
  <1>1. ASSUME StaffInv, NumbersInv, [Next]_vars PROVE Removed
    <2> SUFFICES ASSUME NEW u \in Members, Lost(u) # {}
                 PROVE  /\ u \notin stale => Cardinality(Lost(u)) = 1
                        /\ \E t \in Slots :
                               /\ pc[t] = "delete" /\ ctx[t].user = u
                               /\ Lost(u) = {row.link : row \in {r \in RowsOf(u) : r.entry = ctx[t].entry}}
      BY <1>0, <1>1
    <2>1. RowsOf(u)' # RowsOf(u)
      BY DEF Links
    <2>2. PICK t \in Slots : Insert(t) \/ Update(t) \/ Delete(t)
      BY <1>1, <2>1, TableSteps DEF RowsOf
    <2>3. Delete(t) /\ ctx[t].user = u
      BY <1>1, <2>1, <2>2, NothingLost, OneMember
    <2>4. Lost(u) = {row.link : row \in {r \in RowsOf(u) : r.entry = ctx[t].entry}}
      BY <1>1, <2>3, RemovedLogs
    <2>5. ASSUME u \notin stale PROVE Cardinality(Lost(u)) = 1
      <3>1. \A r, s \in RowsOf(u) : r.entry = s.entry => r = s
        BY <1>1, <2>5 DEF NumbersInv, NumberedTo
      <3>2. PICK row \in RowsOf(u) : row.entry = ctx[t].entry
        BY <2>4
      <3>3. Lost(u) = {row.link}
        BY <2>4, <3>1, <3>2
      <3> HIDE DEF Lost
      <3> QED BY <3>3, FS_Singleton
    <2>6. pc[t] = "delete"
      BY <2>3 DEF Delete
    <2> QED BY <2>3, <2>4, <2>5, <2>6
  <1> QED BY <1>1, StaffAlways, NumbersInit, NumbersStep, PTL DEF Spec, OnlyRemovalsLose
-----------------------------------------------------------------------------
(***************************************************************************)
(* Complaints.                                                             *)
(***************************************************************************)

\* Arguments as a command may be given.
AnArgument == [kind : {"number", "mention", "word"}, value : Int]

SomeArguments == Seq(AnArgument)

\* A complaint names the first argument that is wrong, or how many there are.
Names(operation, author, args, why, given, place) ==
    /\ place \in 1..(Len(args) + 1)
    /\ \A before \in 1..(place - 1) : IsRight(operation, author, args, before)
    /\ why = "notEnough" <=> place = Len(args) + 1
    /\ place <= Len(args) => ~IsRight(operation, author, args, place)
    /\ \/ given = (IF why = "notEnough" THEN place - 1 ELSE place)
       \/ operation = "editstafflog" /\ place = 2

\* The first argument, and what is left without it.
LEMMA FirstArgument ==
    ASSUME NEW args \in SomeArguments, args # <<>>
    PROVE  /\ Len(args) \in Nat /\ Len(args) >= 1
           /\ args[1].kind \in {"number", "mention", "word"} /\ args[1].value \in Int
           /\ Tail(args) \in SomeArguments /\ Len(Tail(args)) = Len(args) - 1
           /\ Tail(args) # <<>> => Len(args) >= 2 /\ Tail(args)[1] = args[2]
  <1>1. Len(args) \in Nat /\ Len(args) >= 1
    BY EmptySeq DEF SomeArguments
  <1>2. args[1] \in AnArgument
    BY <1>1, ElementOfSeq DEF SomeArguments
  <1>3. /\ Tail(args) \in SomeArguments /\ Len(Tail(args)) = Len(args) - 1
        /\ \A i \in 1..Len(Tail(args)) : Tail(args)[i] = args[i + 1]
    BY HeadTailProperties DEF SomeArguments
  <1>4. ASSUME Tail(args) # <<>> PROVE Len(args) >= 2 /\ Tail(args)[1] = args[2]
    <2>1. Len(Tail(args)) >= 1
      BY <1>1, <1>3, <1>4, EmptySeq DEF SomeArguments
    <2> QED BY <1>1, <1>3, <2>1
  <1> QED BY <1>1, <1>2, <1>3, <1>4 DEF AnArgument

\* A complaint about the first argument, and one about the second.
LEMMA NamesFirst ==
    ASSUME NEW operation, NEW author, NEW args, Len(args) \in Nat, NEW why, NEW given,
           why = "notEnough" <=> Len(args) = 0,
           Len(args) >= 1 => ~IsRight(operation, author, args, 1),
           given = IF why = "notEnough" THEN 0 ELSE 1
    PROVE  Names(operation, author, args, why, given, 1)
  <1>1. 1 \in 1..(Len(args) + 1) /\ (1 = Len(args) + 1 <=> Len(args) = 0)
    OBVIOUS
  <1>2. \A before \in 1..(1 - 1) : IsRight(operation, author, args, before)
    <2>1. 1..(1 - 1) = {}
      OBVIOUS
    <2> QED BY <2>1
  <1>3. given = IF why = "notEnough" THEN 1 - 1 ELSE 1
    OBVIOUS
  <1> QED BY <1>1, <1>2, <1>3 DEF Names

LEMMA NamesSecond ==
    ASSUME NEW operation, NEW author, NEW args, Len(args) \in Nat, Len(args) >= 1, NEW why, NEW given,
           IsRight(operation, author, args, 1),
           why = "notEnough" <=> Len(args) = 1,
           Len(args) >= 2 => ~IsRight(operation, author, args, 2),
           operation # "editstafflog" => given = IF why = "notEnough" THEN 1 ELSE 2
    PROVE  Names(operation, author, args, why, given, 2)
  <1>1. 2 \in 1..(Len(args) + 1)
    OBVIOUS
  <1>2. \A before \in 1..(2 - 1) : IsRight(operation, author, args, before)
    <2>1. 1..(2 - 1) = {1}
      OBVIOUS
    <2> QED BY <2>1
  <1>3. operation # "editstafflog" => given = IF why = "notEnough" THEN 2 - 1 ELSE 2
    OBVIOUS
  <1>4. 2 = Len(args) + 1 <=> Len(args) = 1
    <2> DEFINE n == Len(args)
    <2>1. n \in Nat
      OBVIOUS
    <2> HIDE DEF n
    <2>2. 2 = n + 1 <=> n = 1
      BY <2>1
    <2> QED BY <2>2 DEF n
  <1> QED BY <1>1, <1>2, <1>3, <1>4 DEF Names

\* A member that does not parse is the first argument.
LEMMA MemberComplaint ==
    ASSUME NEW operation, NEW author, NEW args \in SomeArguments,
           NEW result, result = ParseStaffLogMember(args, 1, author), ~IsParsed(result)
    PROVE  Names(operation, author, args, result.error, result.at, 1)
  <1>1. CASE args = <<>>
    <2>1. ParseMember(args, 1, Members) = Failed("notEnough", 0, args)
      BY <1>1 DEF ParseMember, NotEnough
    <2>2. result = Failed("notEnough", 0, args)
      BY <2>1 DEF ParseStaffLogMember, Failed, IsParsed
    <2>3. result.error = "notEnough" /\ result.at = 0
      BY <2>2 DEF Failed
    <2>4. Len(args) = 0
      BY <1>1
    <2>5. /\ result.error = "notEnough" <=> Len(args) = 0
          /\ Len(args) >= 1 => ~IsRight(operation, author, args, 1)
          /\ result.at = IF result.error = "notEnough" THEN 0 ELSE 1
          /\ Len(args) \in Nat
      BY <2>3, <2>4
    <2> QED BY <2>5, NamesFirst
  <1>2. CASE args # <<>>
    <2>1. Len(args) \in Nat /\ Len(args) >= 1 /\ args[1].kind \in {"number", "mention", "word"}
      BY <1>2, FirstArgument
    <2>2. result.error \in {"conversion", "ownLog"} /\ result.at = 1
      BY <1>2 DEF ParseStaffLogMember, ParseMember, Parsed, Failed, IsParsed
    <2>3. ~IsRight(operation, author, args, 1)
      BY <1>2, <2>1 DEF ParseStaffLogMember, ParseMember, Parsed, Failed, IsParsed, IsRight
    <2>4. /\ result.error = "notEnough" <=> Len(args) = 0
          /\ Len(args) >= 1 => ~IsRight(operation, author, args, 1)
          /\ result.at = IF result.error = "notEnough" THEN 0 ELSE 1
      BY <2>1, <2>2, <2>3
    <2> QED BY <2>1, <2>4, NamesFirst
  <1> QED BY <1>1, <1>2

\* A member that parses is right, and the rest are the arguments after it.
LEMMA MemberIsRight ==
    ASSUME NEW operation, NEW author, NEW args \in SomeArguments,
           IsParsed(ParseStaffLogMember(args, 1, author))
    PROVE  /\ IsRight(operation, author, args, 1)
           /\ args # <<>> /\ ParseStaffLogMember(args, 1, author).rest = Tail(args)
  <1>1. args # <<>>
    BY DEF ParseStaffLogMember, ParseMember, NotEnough, Failed, IsParsed
  <1> QED BY <1>1 DEF ParseStaffLogMember, ParseMember, Parsed, Failed, IsParsed, IsRight

\* What is wrong about a number that does not parse.
LEMMA BoundComplaint ==
    ASSUME NEW args, NEW argPos, NEW result,
           result = ParseBoundedArg(args, argPos, 1, MaxEntry), ~IsParsed(result)
    PROVE  /\ args = <<>> => result.error = "notEnough" /\ result.at = argPos - 1
           /\ args # <<>> => /\ result.error \in {"conversion", "outOfBounds"}
                             /\ result.at = argPos
                             /\ args[1].kind # "number" \/ args[1].value \notin 1..MaxEntry
  BY DEF ParseBoundedArg, Parsed, NotEnough, Failed, IsParsed

\* An entry that does not parse is the second argument.
LEMMA EntryComplaint ==
    ASSUME NEW operation, NEW author, NEW args \in SomeArguments, args # <<>>,
           IsRight(operation, author, args, 1),
           NEW result, result = ParseEntry(operation, Tail(args)), ~IsParsed(result)
    PROVE  Names(operation, author, args, result.error, result.at, 2)
  <1>1. PICK argPos \in {1, 2} :
            /\ operation \in {"editstafflog", "removestafflog"}
            /\ operation = "removestafflog" => argPos = 2
            /\ result = ParseBoundedArg(Tail(args), argPos, 1, MaxEntry)
    BY DEF ParseEntry, Parsed, IsParsed
  <1>2. /\ Len(args) \in Nat /\ Len(args) >= 1
        /\ Len(Tail(args)) = Len(args) - 1 /\ Tail(args) \in SomeArguments
    BY FirstArgument
  <1>3. CASE Tail(args) = <<>>
    <2>1. result.error = "notEnough" /\ result.at = argPos - 1
      BY <1>1, <1>3, BoundComplaint
    <2>2. Len(args) = 1
      BY <1>2, <1>3
    <2>3. operation # "editstafflog" => result.at = 1
      BY <1>1, <2>1
    <2>4. /\ result.error = "notEnough" <=> Len(args) = 1
          /\ Len(args) >= 2 => ~IsRight(operation, author, args, 2)
          /\ operation # "editstafflog" => result.at = IF result.error = "notEnough" THEN 1 ELSE 2
          /\ Len(args) \in Nat /\ Len(args) >= 1
      BY <2>1, <2>2, <2>3
    <2> QED BY <2>4, NamesSecond
  <1>4. CASE Tail(args) # <<>>
    <2>1. Len(args) >= 2 /\ Tail(args)[1] = args[2]
      BY <1>4, FirstArgument
    <2>2. /\ result.error \in {"conversion", "outOfBounds"} /\ result.at = argPos
          /\ args[2].kind # "number" \/ args[2].value \notin 1..MaxEntry
      BY <1>1, <1>4, <2>1, BoundComplaint
    <2>3. args[2].value \in Int
      BY <1>2, <1>4, <2>1, FirstArgument
    <2>4. ~IsRight(operation, author, args, 2)
      <3>1. operation \in {"editstafflog", "removestafflog"}
        BY <1>1
      <3>2. MaxEntry \in Nat
        BY StaffAssumption
      <3>3. ~(args[2].kind = "number" /\ args[2].value >= 1 /\ args[2].value <= MaxEntry)
        BY <2>2, <2>3, <3>2
      <3> QED BY <3>1, <3>3 DEF IsRight
    <2>5. operation # "editstafflog" => result.at = 2
      BY <1>1, <2>2
    <2>6. /\ result.error = "notEnough" <=> Len(args) = 1
          /\ Len(args) >= 2 => ~IsRight(operation, author, args, 2)
          /\ operation # "editstafflog" => result.at = IF result.error = "notEnough" THEN 1 ELSE 2
          /\ Len(args) \in Nat /\ Len(args) >= 1
      BY <1>2, <2>1, <2>2, <2>4, <2>5
    <2> QED BY <2>6, NamesSecond
  <1> QED BY <1>3, <1>4

\* Complaints are about the argument that is wrong, however the arguments are
\* wrong, except for the second argument of editstafflog.
THEOREM ComplaintsAreAlwaysRight == Spec => []ComplaintsAreRight
  <1>1. Init => ComplaintsAreRight
    BY DEF Init, NoComplaint, ComplaintsAreRight
  <1>2. ASSUME ComplaintsAreRight, [Next]_vars PROVE ComplaintsAreRight'
    <2>1. CASE complaint' = complaint
      BY <1>2, <2>1 DEF ComplaintsAreRight
    <2>2. ASSUME NEW t \in Slots, NEW operation \in Operations, NEW author \in Administrators,
                 NEW args \in ArgumentLists, Command(t, operation, author, args)
          PROVE  ComplaintsAreRight'
      <3> DEFINE member == ParseStaffLogMember(args, 1, author)
                 entry == ParseEntry(operation, member.rest)
                 result == Parse(operation, author, args)
      <3>1. CASE IsParsed(result)
        <4>1. complaint' = NoComplaint
          BY <2>2, <3>1 DEF Command
        <4>2. complaint'.error = "none"
          BY <4>1 DEF NoComplaint
        <4> QED BY <4>2 DEF ComplaintsAreRight
      <3>2. CASE ~IsParsed(result)
        <4>1. complaint' = [operation |-> operation, author |-> author, args |-> args,
                            error |-> result.error, at |-> result.at]
          BY <2>2, <3>2 DEF Command
        <4>2. args \in SomeArguments
          BY StaffAssumption DEF SomeArguments, AnArgument
        <4>3. \/ ~IsParsed(member) /\ result = member
              \/ IsParsed(member) /\ ~IsParsed(entry) /\ result = entry
              \/ result.error = "noReason"
          <5> HIDE DEF member, entry
          <5>1. result = IF ~IsParsed(member) THEN member
                         ELSE IF ~IsParsed(entry) THEN entry
                         ELSE IF NeedsReason(operation) /\ entry.rest = <<>>
                              THEN Failed("noReason", 0, <<>>)
                              ELSE Parsed(<<member.value, entry.value>>, entry.rest)
            BY DEF Parse, member, entry
          <5> HIDE DEF result
          <5> QED BY <3>2, <5>1 DEF IsParsed, Failed, Parsed
        <4>4. \/ result.error = "noReason"
              \/ \E place \in {1, 2} : Names(operation, author, args, result.error, result.at, place)
          BY <4>2, <4>3, MemberComplaint, MemberIsRight, EntryComplaint
        <4> HIDE DEF result
        <4> QED BY <4>1, <4>4 DEF ComplaintsAreRight, Names
      <3> QED BY <3>1, <3>2
    <2>3. ASSUME NEW t \in Slots, Show(t) \/ Count(t) \/ Insert(t) \/ Update(t) \/ Delete(t) \/ Fails(t)
          PROVE  complaint' = complaint
      BY <2>3 DEF Show, Count, Insert, Update, Delete, Fails
    <2> QED BY <1>2, <2>1, <2>2, <2>3 DEF Next, vars
  <1> QED BY <1>1, <1>2, PTL DEF Spec
=============================================================================
