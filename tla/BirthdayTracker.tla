---------------------------- MODULE BirthdayTracker ----------------------------
(***************************************************************************)
(* The birthday tracker: three SQLite tables (bday, bday_user_list,        *)
(* bday_role_list), the birthday roles members hold on Discord, the hourly *)
(* updater and the commands, each of them a task of its own.  A task       *)
(* commits to the database first and then makes its Discord calls one by   *)
(* one, so tasks interleave between the statements and between the calls.  *)
(***************************************************************************)
EXTENDS BirthdayCalendar, FiniteSets

CONSTANTS
    Users, Guilds, Roles,
    RoleGuild,      \* the guild each role belongs to
    None,           \* the absence of a row, of a role, of a user
    Loops,          \* tasks running setup_birthday_tracker's loop, one per cache_ready
    Slots,          \* tasks that run commands, one command at a time each
    Starts,         \* when the birthdays given to the bot start, in hours of 2021 (UTC)
    Ops,            \* the commands that are used
    Lapses,         \* what is not excluded: see below
    In2021          \* whether the bot is started in 2021, or not before 2023

Commands == {"set", "override", "remove", "setRole", "removeRole", "getRole", "deleteRole"}

(***************************************************************************)
(* What the environment is allowed to do that the code has no answer to:   *)
(*   override    a moderator overrides a birthday while it is celebrated   *)
(*   otherGuild  a birthday is removed from another guild than its own     *)
(*   replaceRole a guild is given another role than the configured one     *)
(*   http        a Discord call fails                                      *)
(*   busy        SQLite refuses a statement, the database being locked     *)
(*   overlap     a task starts while another one is in the middle          *)
(*   slow        an hour begins while a task is in the middle              *)
(*   restart     the bot stops, in any state, and starts again             *)
(***************************************************************************)
LapseKinds == {"override", "otherGuild", "replaceRole", "http", "busy", "overlap",
               "slow", "restart"}

Tasks == Loops \cup Slots

\* The dates the tables can hold: of the birthdays that are set, and of their
\* ends as the updater and, in 2021, add_birthday_to_db compute them.
StartDates == {DateOf(start) : start \in Starts}

EndDates == {OneDayAhead(date) : date \in {d \in StartDates : ~OneDayAheadPanics(d)}}
            \cup {DateOf(start + HoursPerDay) : start \in Starts}

Birthdays == [guild : Guilds, date : StartDates]

ASSUME TrackerAssumption ==
    /\ RoleGuild \in [Roles -> Guilds]
    /\ None \notin Roles \cup Birthdays
    /\ Loops \cap Slots = {}
    /\ Starts \subseteq Int
    /\ Ops \subseteq Commands
    /\ Lapses \subseteq LapseKinds
    /\ In2021 \in BOOLEAN

VARIABLES
    year,       \* the year of the clock, 2023 being any later one
    bday,       \* table bday, keyed by user_id
    userList,   \* table bday_user_list; equal rows, which every statement treats alike, are one
    roleOf,     \* table bday_role_list, keyed by guild_id
    held,       \* Discord: the grants <<user, role>> in force
    gone,       \* Discord: the roles that were deleted
    pc,         \* where each task is
    ctx,        \* what a command in the middle remembers
    rem, add    \* the role removals and additions a task still has to request

vars == <<now, year, bday, userList, roleOf, held, gone, pc, ctx, rem, add>>
db == <<bday, userList, roleOf>>
clock == <<now, year>>

Years == 2021..2023

ListRows == [user : Users, over : EndDates]
Grants == Users \X Roles
NoContext == [user |-> None, guild |-> None, start |-> 0, role |-> None]
Contexts == [user : Users \cup {None}, guild : Guilds \cup {None},
             start : Starts \cup {0}, role : Roles \cup {None}]

TypeOK ==
    /\ now \in Hours /\ year \in Years
    /\ bday \in [Users -> Birthdays \cup {None}]
    /\ userList \subseteq ListRows
    /\ roleOf \in [Guilds -> Roles \cup {None}]
    /\ held \subseteq Grants /\ gone \subseteq Roles
    /\ pc \in [Tasks -> {"unborn", "asleep", "dead", "idle", "addRole", "addList",
                         "update", "calls", "revoke", "clean"}]
    /\ ctx \in [Tasks -> Contexts]
    /\ rem \in [Tasks -> SUBSET Grants] /\ add \in [Tasks -> SUBSET Grants]

Init ==
    /\ now \in Hours /\ year = IF In2021 THEN 2021 ELSE 2023
    /\ bday = [u \in Users |-> None] /\ userList = {}
    /\ roleOf = [g \in Guilds |-> None]
    /\ held = {} /\ gone = {}
    /\ \E l \in Loops : pc = [t \in Tasks |-> IF t = l THEN "asleep"
                                              ELSE IF t \in Loops THEN "unborn" ELSE "idle"]
    /\ ctx = [t \in Tasks |-> NoContext]
    /\ rem = [t \in Tasks |-> {}] /\ add = [t \in Tasks |-> {}]

-----------------------------------------------------------------------------
\* A task that has begun and not finished.  A loop woken by the hour has not
\* begun before its transaction.
Busy(t) == \/ pc[t] \in {"addRole", "addList", "calls", "revoke", "clean"}
           \/ t \in Slots /\ pc[t] = "update"

MayBegin(t) == "overlap" \in Lapses \/ \A o \in Tasks \ {t} : ~Busy(o)

Command(t, op) == t \in Slots /\ pc[t] = "idle" /\ op \in Ops /\ MayBegin(t)

Rest(t) == IF t \in Loops THEN "asleep" ELSE "idle"

RowsOf(u) == {row \in userList : row.user = u}

\* The users the join of bday_user_list with bday finds for a guild.
ListedIn(g) == {u \in Users : /\ RowsOf(u) # {}
                              /\ bday[u] # None
                              /\ bday[u].guild = g}

\* The task goes on to its Discord calls, if it has any.
Request(t, removals, additions, mode) ==
    /\ rem' = [rem EXCEPT ![t] = removals]
    /\ add' = [add EXCEPT ![t] = additions]
    /\ pc' = [pc EXCEPT ![t] = IF removals \cup additions = {} THEN Rest(t) ELSE mode]

NoCalls == UNCHANGED <<rem, add>>

-----------------------------------------------------------------------------
\* Mutant: foreign keys are off, REPLACE leaves the rows of bday_user_list.
AddBirthdayWithoutCascade(t, u, g, start, privileged) ==
    /\ Command(t, IF privileged THEN "override" ELSE "set")
    /\ privileged \/ bday[u] = None
    /\ RowsOf(u) = {} \/ "override" \in Lapses
    /\ bday' = [bday EXCEPT ![u] = [guild |-> g, date |-> DateOf(start)]]
    /\ ctx' = [ctx EXCEPT ![t] = [user |-> u, guild |-> g, start |-> start, role |-> None]]
    /\ pc' = [pc EXCEPT ![t] = "addRole"]
    /\ UNCHANGED <<clock, userList, roleOf, held, gone>> /\ NoCalls

\* add_birthday_to_db, first statement.  REPLACE deletes the user's row before
\* it inserts the new one, and the deletion cascades to bday_user_list.  IGNORE
\* on a user who has a row changes nothing and the command ends there.
AddBirthday(t, u, g, start, privileged) ==
    /\ Command(t, IF privileged THEN "override" ELSE "set")
    /\ privileged \/ bday[u] = None
    /\ RowsOf(u) = {} \/ "override" \in Lapses
    /\ bday' = [bday EXCEPT ![u] = [guild |-> g, date |-> DateOf(start)]]
    /\ userList' = userList \ RowsOf(u)
    /\ ctx' = [ctx EXCEPT ![t] = [user |-> u, guild |-> g, start |-> start, role |-> None]]
    /\ pc' = [pc EXCEPT ![t] = "addRole"]
    /\ UNCHANGED <<clock, roleOf, held, gone>> /\ NoCalls

\* `now < bday_over && now > bday_date', whose year is always 2021: a birthday of
\* December 31st is still going on in the first hours of 2022.
IsOngoingIn2021(start) ==
    LET hour == now + (year - 2021) * YearHours
    IN  year < 2023 /\ start <= hour /\ hour < start + HoursPerDay

\* Its second statement, the guild's role, and the test on the date.
AddQueryRole(t) ==
    /\ pc[t] = "addRole"
    /\ LET role    == roleOf[ctx[t].guild]
           ongoing == role # None /\ IsOngoingIn2021(ctx[t].start)
       IN  \/ /\ ongoing
              /\ ctx' = [ctx EXCEPT ![t].role = role]
              /\ pc' = [pc EXCEPT ![t] = "addList"]
           \/ /\ ~ongoing \/ "busy" \in Lapses
              /\ ctx' = [ctx EXCEPT ![t] = NoContext]
              /\ pc' = [pc EXCEPT ![t] = "idle"]
    /\ UNCHANGED <<clock, db, held, gone>> /\ NoCalls

\* Mutant: the role is given without the row.
AddToListNothing(t) ==
    /\ pc[t] = "addList"
    /\ Request(t, {}, {<<ctx[t].user, ctx[t].role>>}, "calls")
    /\ ctx' = [ctx EXCEPT ![t] = NoContext]
    /\ UNCHANGED <<clock, db, held, gone>>

\* Its third statement, which the foreign key refuses when the birthday was
\* removed in between: the command then fails.
AddToList(t) ==
    /\ pc[t] = "addList"
    /\ LET c == ctx[t] IN
       \/ /\ bday[c.user] = None \/ "busy" \in Lapses
          /\ UNCHANGED userList /\ Request(t, {}, {}, "calls")
       \/ /\ bday[c.user] # None
          /\ userList' = userList \cup
                           {[user |-> c.user, over |-> DateOf(c.start + HoursPerDay)]}
          /\ Request(t, {}, {<<c.user, c.role>>}, "calls")
    /\ ctx' = [ctx EXCEPT ![t] = NoContext]
    /\ UNCHANGED <<clock, bday, roleOf, held, gone>>

\* remove_birthday: the role is that of the guild the command is used in, and it
\* is taken away when more than the birthday's own row was deleted.
RemoveBirthday(t, u, g) ==
    /\ Command(t, "remove")
    /\ bday[u] # None
    /\ g = bday[u].guild \/ "otherGuild" \in Lapses
    /\ bday' = [bday EXCEPT ![u] = None]
    /\ userList' = userList \ RowsOf(u)
    /\ Request(t, IF RowsOf(u) # {} /\ roleOf[g] # None THEN {<<u, roleOf[g]>>} ELSE {},
               {}, "calls")
    /\ UNCHANGED <<clock, roleOf, held, gone, ctx>>

\* set_birthday_role, up to its call of update_birthday_roles.
SetRole(t, r) ==
    /\ Command(t, "setRole")
    /\ r \notin gone
    /\ roleOf[RoleGuild[r]] \in {None, r} \/ "replaceRole" \in Lapses
    /\ roleOf' = [roleOf EXCEPT ![RoleGuild[r]] = r]
    /\ pc' = [pc EXCEPT ![t] = "update"]
    /\ UNCHANGED <<clock, bday, userList, held, gone, ctx>> /\ NoCalls

\* The transaction of remove_birthday_role and of get_birthday_role's clean-up.
DeleteRoleRows(g) ==
    /\ userList' = {row \in userList : row.user \notin ListedIn(g)}
    /\ roleOf' = [roleOf EXCEPT ![g] = None]

RemoveRole(t, g) ==
    /\ Command(t, "removeRole")
    /\ roleOf[g] # None
    /\ DeleteRoleRows(g)
    /\ Request(t, ListedIn(g) \X {roleOf[g]}, {}, "revoke")
    /\ UNCHANGED <<clock, bday, held, gone, ctx>>

\* get_birthday_role, when the configured role is not a role of the guild.
GetRole(t, g) ==
    /\ Command(t, "getRole")
    /\ roleOf[g] \in gone
    /\ ctx' = [ctx EXCEPT ![t] = [NoContext EXCEPT !.guild = g]]
    /\ pc' = [pc EXCEPT ![t] = "clean"]
    /\ UNCHANGED <<clock, db, held, gone>> /\ NoCalls

\* The clean-up, which reads the table again and deletes what is there by then.
CleanUp(t) ==
    /\ pc[t] = "clean"
    /\ \/ /\ roleOf[ctx[t].guild] = None \/ "busy" \in Lapses
          /\ UNCHANGED <<userList, roleOf>>
       \/ /\ roleOf[ctx[t].guild] # None
          /\ DeleteRoleRows(ctx[t].guild)
    /\ ctx' = [ctx EXCEPT ![t] = NoContext]
    /\ pc' = [pc EXCEPT ![t] = "idle"]
    /\ UNCHANGED <<clock, bday, held, gone>> /\ NoCalls

-----------------------------------------------------------------------------
\* The rows get_and_delete_old_bdays deletes, and the grants it returns.
OldRows == {row \in userList : IsOver(row.over, now)}

OldGrants ==
    {<<row.user, roleOf[bday[row.user].guild]>> :
        row \in {o \in OldRows : /\ bday[o.user] # None
                                 /\ roleOf[bday[o.user].guild] # None}}

\* Mutant: LEFT JOIN for INNER JOIN.
NewUsersOfAllGuilds == {u \in Users : bday[u] # None /\ IsNew(bday[u].date, now)}

\* The users whose birthdays add_new_bdays selects, the rows it inserts (none is
\* ever ignored, bday_user_list has no unique key) and the grants it returns.
NewUsers == {u \in Users : /\ bday[u] # None
                           /\ roleOf[bday[u].guild] # None
                           /\ IsNew(bday[u].date, now)}

NewRows == {[user |-> u, over |-> OneDayAhead(bday[u].date)] : u \in NewUsers}

NewGrants == {<<u, roleOf[bday[u].guild]>> : u \in NewUsers}

UpdatePanics == \E u \in NewUsers : OneDayAheadPanics(bday[u].date)

\* update_birthday_roles, up to the commit.  A panic undoes the transaction and
\* ends the task: a command's slot is free again, a loop never runs again.
Update(t) ==
    /\ pc[t] = "update"
    /\ t \in Slots \/ MayBegin(t)
    /\ \/ /\ UpdatePanics
          /\ pc' = [pc EXCEPT ![t] = IF t \in Loops THEN "dead" ELSE "idle"]
          /\ UNCHANGED userList /\ NoCalls
       \/ /\ "busy" \in Lapses
          /\ UNCHANGED userList /\ Request(t, {}, {}, "calls")
       \/ /\ ~UpdatePanics
          /\ userList' = (userList \ OldRows) \cup NewRows
          /\ Request(t, OldGrants, NewGrants, "calls")
    /\ UNCHANGED <<clock, bday, roleOf, held, gone, ctx>>

\* What becomes of a call: Discord refuses a role that does not exist.
CallOutcomes(grant) == (IF grant[2] \in gone THEN {} ELSE {TRUE}) \cup
                       (IF grant[2] \in gone \/ "http" \in Lapses THEN {FALSE} ELSE {})

\* Mutant: the updater, too, gives up at the first error.
RevokeOrGiveUp(t) ==
    /\ pc[t] \in {"calls", "revoke"}
    /\ \E grant \in rem[t] : \E ok \in CallOutcomes(grant) :
        /\ held' = IF ok THEN held \ {grant} ELSE held
        /\ Request(t, IF ok THEN rem[t] \ {grant} ELSE {}, IF ok THEN add[t] ELSE {}, pc[t])
    /\ UNCHANGED <<clock, db, gone, ctx>>

\* remove_member_role.  remove_birthday_role gives up at the first error, the
\* others log it and go on.
Revoke(t) ==
    /\ pc[t] \in {"calls", "revoke"}
    /\ \E grant \in rem[t] : \E ok \in CallOutcomes(grant) :
        /\ held' = IF ok THEN held \ {grant} ELSE held
        /\ Request(t, IF pc[t] = "revoke" /\ ~ok THEN {} ELSE rem[t] \ {grant}, add[t], pc[t])
    /\ UNCHANGED <<clock, db, gone, ctx>>

\* add_member_role, after the last removal.
Grant(t) ==
    /\ pc[t] = "calls"
    /\ rem[t] = {}
    /\ \E grant \in add[t] : \E ok \in CallOutcomes(grant) :
        /\ held' = IF ok THEN held \cup {grant} ELSE held
        /\ Request(t, {}, add[t] \ {grant}, "calls")
    /\ UNCHANGED <<clock, db, gone, ctx>>

-----------------------------------------------------------------------------
\* A new hour begins: it wakes the loops that sleep; one that is not done misses it.
Tick ==
    /\ "slow" \in Lapses \/ \A t \in Tasks : pc[t] # "update" /\ ~Busy(t)
    /\ now' = (now + 1) % YearHours
    /\ year' = IF now' = 0 /\ year < 2023 THEN year + 1 ELSE year
    /\ pc' = [t \in Tasks |-> IF pc[t] = "asleep" THEN "update" ELSE pc[t]]
    /\ UNCHANGED <<db, held, gone, ctx>> /\ NoCalls

\* cache_ready fires again, after a reconnection: one more loop.
CacheReady(t) ==
    /\ pc[t] = "unborn"
    /\ pc' = [pc EXCEPT ![t] = "asleep"]
    /\ UNCHANGED <<clock, db, held, gone, ctx>> /\ NoCalls

\* The members of a guild's staff delete the role on Discord.
DeleteRole(r) ==
    /\ "deleteRole" \in Ops
    /\ r \notin gone
    /\ gone' = gone \cup {r}
    /\ held' = {grant \in held : grant[2] # r}
    /\ UNCHANGED <<clock, db, pc, ctx>> /\ NoCalls

\* The process ends: the database and Discord keep what they have, the tasks are
\* lost, and the new process has one loop.
Restart ==
    /\ "restart" \in Lapses
    /\ \E l \in Loops : pc' = [t \in Tasks |-> IF t = l THEN "asleep"
                                               ELSE IF t \in Loops THEN "unborn" ELSE "idle"]
    /\ ctx' = [t \in Tasks |-> NoContext]
    /\ rem' = [t \in Tasks |-> {}] /\ add' = [t \in Tasks |-> {}]
    /\ UNCHANGED <<clock, db, held, gone>>

-----------------------------------------------------------------------------
BeginCommand(t) ==
    \/ \E u \in Users, g \in Guilds :
        \/ \E start \in Starts, privileged \in BOOLEAN : AddBirthday(t, u, g, start, privileged)
        \/ RemoveBirthday(t, u, g)
    \/ \E r \in Roles : SetRole(t, r)
    \/ \E g \in Guilds : RemoveRole(t, g) \/ GetRole(t, g)

\* The steps a task takes by itself once it has begun.
Step(t) == AddQueryRole(t) \/ AddToList(t) \/ CleanUp(t) \/ Update(t) \/ Revoke(t) \/ Grant(t)

Next ==
    \/ \E t \in Tasks : BeginCommand(t) \/ Step(t) \/ CacheReady(t)
    \/ \E r \in Roles : DeleteRole(r)
    \/ Tick
    \/ Restart

Spec == Init /\ [][Next]_vars

\* Tokio runs every task that can run, a Discord call returns, and hours pass.
\* Hours and updates are strongly fair, since without "slow" and "overlap" they
\* wait for the tasks to be done, again and again.
Fairness ==
    /\ SF_vars(Tick) /\ \A l \in Loops : SF_vars(Update(l))
    /\ \A t \in Tasks : WF_vars(Step(t))

FairSpec == Spec /\ Fairness
-----------------------------------------------------------------------------
(***************************************************************************)
(* Properties.                                                             *)
(***************************************************************************)

\* The three tables agree, though no statement of the code checks it: whoever is
\* in bday_user_list has a birthday, in a guild with a birthday role, and the
\* end date of every row is the one of the birthday the user has now, not of one
\* that was overridden.  In 2021 add_birthday_to_db also fills the table, by
\* another rule and outside a transaction, so the claim is for later years.
TablesAgree ==
    ~In2021 =>
        \A row \in userList :
            /\ bday[row.user] # None
            /\ roleOf[bday[row.user].guild] # None
            /\ ~OneDayAheadPanics(bday[row.user].date)
            /\ row.over = OneDayAhead(bday[row.user].date)

Quiescent == \A t \in Tasks : ~Busy(t)

\* The grants that bday_user_list stands for.
Entitled ==
    {grant \in Grants : /\ RowsOf(grant[1]) # {}
                        /\ bday[grant[1]] # None
                        /\ roleOf[bday[grant[1]].guild] = grant[2]
                        /\ grant[2] \notin gone}

\* When no task is in the middle of anything, Discord shows exactly what the
\* tables say: nobody keeps a birthday role without a row, nobody with a row
\* lacks it.  Every command and the updater change the tables first and Discord
\* later, from lists they made in between.  Failing calls and the lapses
\* OnlyLapsesPart names refute it; it is for runs without them.
RolesFollowList == Quiescent => held = Entitled

Taken(grant) == \E t \in Tasks : grant \in rem[t]
Given(grant) == \E t \in Tasks : grant \in add[t]

\* Once the calls that are still due have been made, Discord and the tables agree
\* about the grant.
Settled(grant) ==
    grant \in Entitled <=> \/ grant \in held /\ ~Taken(grant)
                           \/ Given(grant) /\ grant[2] \notin gone

\* The steps after which they may disagree.  A birthday is overridden while the
\* list has it, or removed from another guild, whose role is the one taken away;
\* a guild's role is replaced; the clean-up deletes a role that exists.
Overridden(user) ==
    /\ RowsOf(user) # {}
    /\ \E t \in Slots, g \in Guilds, start \in Starts : AddBirthday(t, user, g, start, TRUE)

RemovedElsewhere(user) ==
    \E t \in Slots, g \in Guilds : RemoveBirthday(t, user, g) /\ g # bday[user].guild

Replaced(guild) ==
    \E t \in Slots, r \in Roles :
        RoleGuild[r] = guild /\ roleOf[guild] \notin {None, r} /\ SetRole(t, r)

WronglyCleaned(role) ==
    \E t \in Tasks : CleanUp(t) /\ roleOf[ctx[t].guild] = role /\ role \notin gone

Due(t) == rem[t] \cup add[t]

\* The call for the grant fails, or is not reached: since remove_birthday_role
\* gave up at a failure, or the process ended.
CallLost(grant) ==
    \E t \in Tasks :
        /\ grant \in Due(t) \ Due(t)'
        /\ grant \in rem[t] \cap held' \/ grant \in add[t] \ held'
        /\ pc[t] = "revoke" \/ Due(t) \ Due(t)' = {grant} \/ Restart

\* Two tasks are at work.
Overlapping == \E s, t \in Tasks : s # t /\ Busy(s) /\ (Busy(t) \/ Busy(t)')

\* Whatever fails and whatever is used, Discord comes to disagree with the tables
\* about a user's role in these ways only, and but for overlaps only about the roles
\* concerned: one call that fails leaves the others right, and what a lapse has left
\* is not spread by the steps that follow.
OnlyLapsesPart ==
    [][\A grant \in Grants :
         Settled(grant) /\ ~Settled(grant)' =>
            \/ Overridden(grant[1])
            \/ RemovedElsewhere(grant[1])
            \/ Replaced(RoleGuild[grant[2]])
            \/ WronglyCleaned(grant[2])
            \/ CallLost(grant)
            \/ Overlapping
      ]_vars

\* Once the hour's update is over, whoever is listed has a birthday going on, in a
\* guild with a birthday role, also after birthdays were overridden or removed and
\* roles replaced: no update finds a user in the list whom the one that was to
\* take the role away has missed.
RowsOnlyOnBirthday ==
    (\A t \in Tasks : ~Busy(t) /\ pc[t] # "update") =>
        \A row \in userList :
            /\ bday[row.user] # None
            /\ roleOf[bday[row.user].guild] # None
            /\ IsOngoing(bday[row.user].date, now)

\* An hourly update leaves everybody whose birthday is going on, in a guild that
\* has a birthday role, with the role, when its calls are done; only the hour of
\* the empty window is excluded.
UpdateGivesRoles ==
    [][\A l \in Loops :
         pc[l] \in {"update", "calls"} /\ pc'[l] = "asleep" =>
            \A u \in Users :
                /\ bday[u] # None
                /\ roleOf[bday[u].guild] \in Roles \ gone
                /\ IsOngoing(bday[u].date, now)
                /\ now # EmptyWindowHour
                => <<u, roleOf[bday[u].guild]>> \in held'
      ]_vars

\* A birthday that stays in the tables and is not set again, in a guild that keeps
\* its role, is celebrated with this role year after year, and the celebration ends
\* every time, whatever commands came before and whichever others are used.
BirthdayIsCelebrated ==
    \A u \in Users, b \in Birthdays, r \in Roles :
        <>[](/\ bday[u] = b /\ \A t \in Slots : ctx[t].user # u
             /\ roleOf[b.guild] = r /\ r \notin gone)
            => /\ []<>(<<u, r>> \in held)
               /\ []<>(<<u, r>> \notin held)
=============================================================================
