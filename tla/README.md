# Verification of burdbot-rust

BurdBot is a Discord bot. Its core is the birthday service: members register
birthdays, and an hourly task gives each of them a role for 24 hours. Around
it there are smaller features that share the process, one SQLite file and one
lock: staff logs, a filter of banned images, the conversion of Vocaroo links,
pronunciations from forvo.com, a logger that writes to Discord, and a table of ids
that can be searched for by fragments. This directory holds TLA+ models of them, the TLC runs that check
them and TLAPS proofs about all but the argument parser's numbers. Paths below are relative to the repository's `burdbot/src/`.

## The system

| part | state | operations | what makes it correct |
|---|---|---|---|
| birthday confirmation (`commands/birthday.rs`) | a map author -> request behind an `RwLock`, inside `Context::data`, which is behind another one; a 30 s timer task per request | set commands, `birthdayconfirm`, the timer | each request is confirmed, replaced or expires, once; timers match entries; nobody waits for ever |
| birthday tracker (`birthday_tracker/`) | tables `bday`, `bday_user_list`, `bday_role_list`; the members' roles on Discord | `add_birthday_to_db`, `remove_birthday`, `set_birthday_role`, `get_birthday_role`, `remove_birthday_role`, `update_birthday_roles` | the tables agree; Discord parts from them in known ways only; the list has only birthdays that are going on; every birthday is celebrated |
| birthday calendar (`birthday_tracker/mod.rs`, `role_updater.rs`) | none: dates without a year, compared as text | `one_day_ahead`, the two hourly queries | a birthday is selected in its 24 hours and ended after them |
| process (`main.rs`, `event_handler.rs`) | the hourly loop, one per `cache_ready`; the message event; the termination task | `setup_birthday_tracker`, `on_cache_ready`, `message`, `chunk_guilds`, `on_terminate` | one update per hour, no matter how many loops; every handler ends; the last log is sent |
| Discord logger (`logger.rs`) | two loggers with a write buffer and a message buffer each, the cached DM channel, a fallback file | `write`, `flush`, `LogSender::send` every 15 s | a line is sent once, in order, or written to the file; only the file's failure loses it |
| staff logs (`commands/administrative.rs`) | table `staff_logs` | add, edit, remove, show | the entries of a member are numbered 1..n; none is lost and none comes back |
| argument parser (`argument_parser.rs`) | none | one parser per kind of argument | a complaint names the argument that is wrong |
| image filter (`image_checker.rs`, `commands/custom.rs`) | table `fxhash_image_checksums` | ban, unban, check each message, punish | what is banned is found; the steps of a punishment |
| Vocaroo (`vocaroo.rs`, `commands/vocaroo.rs`) | table `vocaroo_enabled` and its cache in `Context::data` | enable, disable, `ready`, convert on each message | cache and table agree; the limit on announced sizes |
| id search engine (`id_search_engine.rs`) | buckets of sorted ids by their middle digits | add, remove, contains, fuzzy search, extend | behaves like a set of ids; fuzzy matches are right |
| session tracker (`session_tracker.rs`) | two maps behind two locks, table `times` | three voice events | dead code |
| pronunciations (`forvo.rs`, `commands/language.rs`) | cached distances of accents, behind a mutex | `pronounce`: fetch, choose in each language, download, answer | the cache is right; the closest recording is sent; an answer is the right one |
| easter egg, channel bans | none | one role call, replies | - |
| errors, utilities, macros | none | conversions | - |

The parts meet in five places: commands and event handlers are concurrent
tasks of a multi-threaded tokio runtime; all of them share `Context::data`;
`birthdayconfirm` calls `add_birthday_to_db` with both locks held; commands and
the hourly loops work on the same tables, each with a connection of its own,
and then on the same Discord roles; and one task per message runs the image
filter and the Vocaroo conversion side by side, on the same message.

What is hard: a task commits to the tables first and calls Discord later, call
by call, from lists it made before, so two tasks interleave between commit and
calls and between the calls; calls fail and are not tried again; a restart
forgets pending calls; the timer of a request races its confirmation, its
replacement and even its own insertion; dates have no year and wrap around;
rows, counts and settings are read before a download or another statement and
used after it; buffers are cleared before what was in them has arrived; a table
is rebuilt in the middle of an insertion. `PROJECT.json` lists the hazards one
by one with their lines.

## Modules

| module | models | extends |
|---|---|---|
| `BirthdayCalendar` | dates, `one_day_ahead`, the row filters of the two queries, and their properties at the hour of the clock | |
| `BirthdayTracker` | tables, roles, hourly loops, commands | `BirthdayCalendar` |
| `BirthdayConfirm` | requests, timers, confirmations, the two locks | |
| `BirthdayRequests` | what the confirmation promises, abstractly | |
| `ArgumentParser` | the parsers of members and of bounded numbers, with their errors | |
| `StaffLogs` | the table and the four commands | `ArgumentParser` |
| `IdSet` | what the id search engine promises, abstractly | |
| `IdSearchEngine` | the buckets, every operation, the searches | |
| `DiscordLogger` | buffers, senders, fallback file, termination | |
| `Channel` | which messages there are on Discord | |
| `ImageFilter` | the table of banned images, its commands, the scan of a message | `Channel` |
| `Vocaroo` | table and cache, commands, `ready`, the conversion of a message | `Channel` |
| `MessageHandlers` | the message event: both handlers of every message, all at once | `ImageFilter`, `Vocaroo` |
| `Forvo` | the graph of accents, the cache of distances, the command | |
| `MC...` | the small instance of the module of that name | that module |
| `BirthdayTrackerProofs`, `BirthdayConfirmProofs`, `StaffLogsProofs`, `DiscordLoggerProofs`, `MessageHandlersProofs`, `IdSearchEngineProofs`, `ForvoProofs` | proofs; the first has the calendar's, too | the module of that name |
| `FoldLemmas` | proofs about induction, recursive functions, folds and sequences, which the others use | |

Definitions that a comment introduces as *Mutant* are not part of the models:
each is a definition of the code with a plausible mistake in it, and exchanging
it for the original makes TLC refute one property. They show that the
properties can fail.

### Calendar

The clock counts hours in a year without a 29th of February. A date is month,
day and hour; the code stores it padded to two digits, so SQLite's text
comparison is `Before`. Instants lie strictly inside an hour: `date < now` and
`date > now` with minutes cut off become comparisons of hours, and the code's
25 hours are `HoursPerDay + 1`. `OneDayAhead` keeps the code's index, which is
off by one, and `OneDayAheadPanics` says when it reads past the array.

### Tracker

`bday`, `userList` and `roleOf` are the tables; `held` and `gone` are Discord's:
grants of roles in force and roles that were deleted. `userList` is a set
although `bday_user_list` has no unique key: equal rows are treated alike by
every statement. Each task (a loop or a command) has a `pc`, the context a
command remembers, and the removals and additions it has still to request.

A command is the steps that other tasks can come between: each statement or
transaction is one step, each Discord call another. `AddBirthday`,
`AddQueryRole` and `AddToList` are `add_birthday_to_db`; `Update` is the
transaction of `update_birthday_roles`, `Revoke` and `Grant` its calls, in its
order: all removals first. `SetRole` goes on to `Update`. `GetRole` and `CleanUp`
are separate because the clean-up reads the role again. Foreign keys are on
(rusqlite's bundled SQLite), so deleting from `bday` deletes the user's rows, and
so does `INSERT OR REPLACE`, which deletes first. A panic in `Update` rolls back
and ends the task: for a loop, for good.

`year` tells 2021 from 2022 and from later years, because `add_birthday_to_db`
compares the clock with dates of 2021: it lists a birthday that is going on in 2021, or
one of December 31st in the first hours of 2022, and never later (`IsOngoingIn2021`).

What the environment may do is `Ops`, the commands in use, and `Lapses`, what
the code has no answer to: failing calls (`http`) and statements (`busy`), overlapping
tasks, an override during a celebration, a removal from another guild, a replaced role,
an hour that begins while a task works (`slow`), a restart. A run names those it
allows; `tracker_any` allows all of them.

Discord and the tables do part, and for good, in the cases that `OnlyLapsesPart` names:
a call that is lost, a birthday that is overridden while it is listed, one that is removed from
another guild, a replaced role, a clean-up that deletes a role which exists, two tasks
at work at once. The property says that these are all, under every lapse, and that each, but for
overlaps, touches only the user or the guild's role it is about: `Settled` is the agreement on one
grant, with the calls that are still due counted as made. `RowsOnlyOnBirthday` says of the tables what the
code does keep right through most of them: no row outlives its birthday.
`BirthdayIsCelebrated` is about a birthday that is not set again, since a yearly override
during the celebration would let its owner keep the role.

### Confirmation

A set command takes `Context::data` to create the map (`CreateMap`), announces
the request, starts the timer and only then asks for the locks to store it
(`Announce`, `AskForMap`, `Insert`). The timer sleeps (`Elapse`), takes both
locks, sends its notice while it holds them (`Notify`) and removes whatever its
author has in the map (`Expire`). `birthdayconfirm` takes both locks to read
(`LookForMap`, `LookUp`), aborts the timer of the entry, saves it and keeps the
locks to the end of its database work and replies (`ConfirmEnds`); the entry
stays. `tokio::sync::RwLock` serves tasks in order of arrival; `queue` is that order,
`Acquire` hands the lock to the first, and the task runs later. The Vocaroo
listener and commands, which hold `Context::data` across downloads and replies,
are `UseData` and `DataUsed`. Abortion takes effect at once.
`SlowInsert` says whether storing a request may take longer than its timer.

That every user of `Context::data` gives it back is an assumption here: no request of the
Vocaroo listener has a time-out. `MessageHandlers` has the requests that are never answered.

The map is only in memory: a restart brings the model back to `Init`, with the
requests forgotten. What happens to a saved request is the tracker's
`AddBirthday`, with any user, guild and date: the two modules share no other
state.

`BirthdayRequests` is the promise: pending requests settle once. The mapping
(`status` in `BirthdayConfirm`) calls a request expired from its notice on, while
it is still in the map, which is right only because of the locks. A request
that was both confirmed and notified would be "both", which `BirthdayRequests` never
reaches.

### Staff logs

`rows` is the table. A command (`Command`) parses its arguments in the order of
the code; `Parse` keeps which argument each call is told it parses, and
`complaint` the last refusal, so that `ComplaintsAreRight` can compare the two.
It excepts the second argument of `editstafflog`, which the code calls the first.
`Count` and `Insert` are separate, because `addstafflog` counts what it shows
with one connection and inserts with another; `removestafflog` is one step, a
transaction. `Fails` is a statement that gives up on a locked file, or a
restart. `stale` is not in the code: it remembers for which members an addition used
a count that another addition, or a removal, had made old, the only case in which the
numbers go wrong. There is no
unique key, and the model does not invent one: rows are told apart by the
message that added them.

### Id search engine

A state is the vector of buckets and `len`; `last` is the call with its answer.
`Added`, `RemoveId` and `Extended` follow the code through its reallocations: when
the table is rebuilt, when it is sorted, that `remove_id` shrinks before it
knows whether the id is there, that `extend` chooses by the `size_hint` between
one id at a time and all at once with a sort and a `dedup` at the end. `Slacks`
is how far the hint lies above the truth; a hint without an upper bound
(`NoBound`) is in the model, where it adds nothing, as in the code, but
excluded from the run, which would refute `ImplementsIdSet`. `PartialEq` and
`FromIterator` are `Equal` and `FromIter`, used by `Compare`; the iterators over the buckets and the
`Extend<&Id>` wrappers add nothing to these. `IdSet` is the promise:
a set of ids, with the answers of a set.

`sort_unstable` is `Sorted`, a sequence by the places (`Rank`) of its elements; `Power` and
`TwoToThe` are the powers that the code multiplies or shifts for.

The searches are operators. `FuzzyMatchedId` keeps the zeros in front of a text,
`Wildcards` the order in which the code tries how much is missing, `FuzzyBucket`
its arithmetic for the bucket. What is found is always right (`FuzzySound`), and what lost all
of the `T` digits at one end is found (`FuzzyFindsWhatLostAnEnd`); what lost fewer, or some at both
ends, may be looked for in the wrong bucket, which is what an ignored test of the
repository says of the latter. The code's decimal digits and sizes
are parameters; that a power of ten overflows for a text of 20 digits is left out. A text that could be an id by its length has at least `2 * T` digits after the
zeros in front of it: the code subtracts `T` from the number of digits twice, and with
fewer that underflows.

### Discord logger

`writeBuffer`, `messageBuffer` (with `holder`, its lock), `channel` (the
`OnceCell`) and `file` are the code's. A record is a sequence of bytes, each of
which begins a character or does not; `Write` is one call of `write` by
`write_all`, which may take a part. If the next call begins inside a character,
the code logs a warning while its thread has the lock that logging needs: the
logger is then `stuck`, for ever. From then on every thread that logs to it waits for ever, too
(`Wait`): the runtime has one thread less each time (`waiting`, of `Workers`), and nothing
runs when none is left. A sender (`pc`) is one of the two periodic
tasks or `on_terminate`. It wakes, locks and drains (`Lock`), posts (`Posted`,
`PostFails`, where the message may have arrived or not), and in the other case
creates and writes the file (`CreateFile`, `WriteFile`), which both loggers share
and whose steps interleave. Either may fail, the writing after a part of the text: the code prints
the error, and the next drain clears the text. `Terminate`, `Flush`, `Receive`, `LookForChannel`,
`Shutdown` are `on_terminate`. `accepted`, `delivered`, `saved`, `unsaved` and `marked` remember
what was taken, what arrived, what was ever in the file, what was to go there when it
failed, and what had been taken when the termination began.

Whether a record goes to the first or to the second logger, the level filter and
the format are left out, as is the simple logger on the terminal.

### Message handlers

`Message` is the event: `join!` starts the filter and the conversion of the same
message, and they interleave with each other, with those of other messages and
with every command. `present` (`Channel`) is what both see of Discord: a message
that was deleted, by its author or by the filter, can neither be answered nor
deleted.

`ImageFilter`: a row is named by the link of its message, which is its key in
`image_checker.rs`, and its size and hash are those of this message's only image. The
scan goes image by image: `Query` reads the rows of a size, `Compare` downloads the
image and compares its hash with these rows, which may be old by then;
`FetchMember`, `TimeOut`, `Notify` and `Delete` are the calls of
`time_out_delete_and_notify`, of which each may fail. The download has no time-out: `NoAnswer`
leaves the scan `stuck` in it. The model assumes that equal hashes
are equal images. `window` is not in the code: which matching rows there were at
some time, and which at all times, of a scan. A message whose author is exempt may be
scanned all the same, since the permissions are read from a cache that need not
know the author.

`Vocaroo`: the handler of a message holds `Context::data` for reading from its
look at the cache to its reply (`LookUp` to `Answer`). A command needs it for
writing and changes cache and table without giving way in between, so it is
one step, possible when nobody reads (`Free`). `ready` copies the table first (`ReadTable`) and
waits for the lock after that (`StoreCache`); `Readies` are those that may be at work at once. The
recordings of a message are sized and downloaded together, in any order, against one sum
(`HeadAnswer`, `GetAnswer`). A recording of the model is the size that HEAD announces for it. What
GET then gives may be longer or shorter: the code does not compare it, so the models bound
the announced sizes only (`AnnouncedSizesAreBounded`). No request has a time-out:
`Silence` leaves a conversion `stuck` with the lock for reading, `Hang` a command with the lock
for writing (`locked`), and then nobody else can have it. `doubtful` is not in the code: the guilds
whose last statement
failed or came between the two steps of `ready`. The sum is an integer without
limit; the code's `AtomicUsize` wraps around, but only for lengths that no
recording has. Which errors are shown to the author is left out. The order of
waiting for the lock is `BirthdayConfirm`'s subject.

### Forvo

`CountryGraph` is the code's graph, edge by edge; only the weight of the edge between the
languages, `u32::MAX / 2`, is a parameter (`Far`), as is `u32::MAX` with it (`U32Max`).
`Settle` is one round of the library's Dijkstra; `accentDifferences` is the cache, which
gets all distances from a country at once (`InsertRow`), and from which distances are
read. A page is the sequence of its containers, each with a language and its recordings,
which are a country or the error that reading them gave. `Rank` is one
container, during which the mutex is locked; another command may come between the
containers of one. `Downloaded` is one download, `Answer` all that follows when the
last has ended. The code does not look at how `lynx` and `wget` ended: a page that could
not be had is one without containers (`<<>>`), a file that could not is loaded and empty; the
failures of the model are programs that do not start, or a page that is not
UTF-8. What a reply says, and whether Discord takes it, are left out.

## Runs

| run | result | shows | bounds |
|---|---|---|---|
| `calendar_year` | pass | the query selects a birthday exactly in its hours, except one hour of the year; a right end date ends it on the hour | the real year, every hour, birthdays within two days |
| `tracker_serial` | pass | the list has only birthdays that are going on, the updater gives every role due, birthdays that stay in the tables are celebrated and the celebrations end, year after year; with overrides, removals from another guild and replaced roles, without failures, overlaps, missed hours and restarts | 1 user, 2 guilds, 3 roles, all commands, 6 days of 2 hours |
| `tracker_overlap` | pass | Discord shows what the tables say, with tasks interleaved everywhere and busy statements, through 2021 and after, as long as Discord refuses no call | 2 users, 2 loops, 2 commands at a time, set and set role |
| `tracker_any` | pass | types, agreement of the tables, and that Discord parts from them in the named ways only, under every lapse | 2 users that can be exchanged, 2 guilds, 2 roles, all commands, 5 days of 2 hours in months of different lengths |
| `tracker_last_month` | violation | a December birthday ends the updater | |
| `confirm` | pass | types, timers match entries, the refinement of `BirthdayRequests`, every task gets its locks, unconfirmed requests leave the map | 2 requests, 1 author or 2, 1 confirmation at a time, 1 other user of the lock |
| `staff_logs` | pass | the numbers shown are those in the table; nothing is lost but by a removal, or changed but by a command about it; complaints name the right argument | 2 members, 2 commands at a time, 4 commands, right and wrong arguments of every kind |
| `id_engine` | pass | the buckets are sound, with the load factor kept, a set is implemented, searches give only what reads like the text and find what lost one end | 8 ids of 6 to 8 digits in base 2, of which up to 2 may be lost at either end; tables of 3 to 9 buckets, 3 batches with and without duplicates |
| `logger` | pass | order, no duplicates, nothing is lost unless the file fails, the first logger is flushed; buffers are drained and the termination ends unless a logger is stuck | 2 loggers, 3 records of 1 or 3 bytes, buffers of 2 bytes, 2 threads, any call and the file fail, termination at any time |
| `logger_flush` | violation | the second logger's records are not sent at the end | without failures |
| `messages` | pass | only banned images are punished, banned ones are, cache follows table, conversions only where enabled, the limit on announced sizes, every handler ends unless a request is never answered | 3 messages in 2 guilds, two images and two recordings, every call fails, any request is never answered, all commands any number of times, one `ready` at a time (`CacheAlwaysFollows` is proved for any number) |
| `forvo` | pass | the cache holds shortest distances, the first of the closest recordings is sent and natives come first, a command that answers gives the right answer | 2 commands at a time, 4 requests, 7 pages with ties, errors, natives and others, the real graph |

Tracker: days have two hours and years three months, the smallest
in which an hour of a day, the end of a month and New Year differ; `calendar_year`
covers the real figures. Two users and two loops are the fewest that can disagree
about one table; a third task adds no statement that two cannot interleave. In
`tracker_serial` tasks do not overlap, and no statement of one user's command touches
another's rows: one user is enough.
`EvenYear` makes every month as long as the next and the runs with it put no
birthday in the last month: there `one_day_ahead` is right. `ShortestYear`, in
`tracker_any`, has it go wrong for a birthday on the last day but one of the first month. In the real
calendar, `OneDayAhead` of January 28 is February 1, because the length of the next
month is looked up.

What `tracker_serial` does not allow refutes its properties when it is given one lapse
at a time: `http` refutes `UpdateGivesRoles` and `BirthdayIsCelebrated` (a call that failed is never
tried again), `busy`, `slow` and `restart` all three (an update is lost), `overlap`
`UpdateGivesRoles` (a command comes between the updater's commit and its calls). `http` and
`overlap` leave `RowsOnlyOnBirthday` true, `overlap` also `BirthdayIsCelebrated`.

Confirmation: requests are used once each, which bounds the model; two let one
author replace a request, and two authors have one each. A confirmed request stays
in the map, and its author can confirm it for ever: `RequestsSettleOnce` calls that
a stutter. With `SlowInsert = TRUE` the run refutes `UnconfirmedExpire`:
the timer fires before its entry exists.

Staff logs: two commands at a time suffice for every overlap of two statements of
one command with one of another; four commands add two logs, overlap a third
and remove one. A number that was given twice stays so, and the property exempts the
member from then on. Ids: two digits at either end and six at least leave a middle
of two digits, so buckets collide, tables grow at the fourth id and shrink again,
and the batches are shorter and longer than half of a table. Logger: a record that is
longer than the buffer is cut before or inside a character; two records of the
first logger give its buffers an old and a new content while a third passes through the
other logger's. Two threads are the fewest of which a stuck logger takes the first and leaves
one. Messages: the second image of a message is the banned one and the
first has the size of none; the same image is banned in another guild too; either
recording fits and both do not.

## Fairness

Tracker: each task's own steps are weakly fair (tokio runs every task that can
run, and a Discord call returns, well or badly), and `Tick` and the loops' `Update`
strongly (hours pass and updates run; without the lapses `slow` and `overlap` they wait
until the tasks are done, so they are enabled again and again rather than for ever).
Nobody has to use a command.
Confirmation: each task's own steps and each lock's queue are weakly fair. That includes
`DataUsed`, the end of whoever else uses `Context::data`: it is assumed, since no request of
the Vocaroo listener has a time-out.
Logger: a thread in `write_all` goes on, each periodic task wakes, a sender's call
ends, and `on_terminate` goes on once it has begun, all weakly and as long as no logger is
stuck; nobody has to log, to
terminate the bot, or to get its cache ready. A sender waits for the lock of a message buffer
only while another's call is in progress. Once a logger is stuck nothing is assumed: each
log call may take a thread of the runtime, and the two properties say so. Messages: the filter and the
conversion of each message are weakly fair, but a request may never be answered (`Lost`, `Hang`):
its handler is then out of the game, with what it has locked, and `HandlersEnd` excepts the
handlers that wait for that. Commands are not fair.

## Proofs

All are for every value of the constants that the assumptions allow.

- `TypeCorrect`: `TypeOK` of the tracker. Inductive with `AddContexts` (a command
  between the statements of `add_birthday_to_db` remembers a user, a guild and a
  date).
- `WindowIsAlwaysTheBirthday`, `EndDateAlwaysEndsIt`: the two properties of
  `calendar_year`, for years of any months and days, at every hour of the tracker's clock.
  The argument is one
  lemma (`OrderIs`): the text order of two dates is the order of their instants, since
  no month begins before the one in front of it has ended (`DaysGrow`) and every instant of the
  year is in exactly one month (`MonthOf`, `DateIs`). The rest is arithmetic modulo the
  year.
- `TablesAlwaysAgree`: `TablesAgree`, under every lapse. Inductive with `After2021`:
  the path that lists a user outside the updater's transaction is dead.
- `DiscordPartsOnlyByLapses`: after 2021 `OnlyLapsesPart`, under every lapse and for any number of
  loops and commands. Step by step from `TrackerInv`: the tables agree, only tasks that make calls have
  some to make, a guild's role is one of its own, and nobody holds a deleted one (`CallsInv`). Every action is followed
  by what it does to one grant: a transaction that changes what the tables stand for puts exactly
  this change among its calls, unless it is one of the named lapses; a call that is
  made brings Discord closer, and one that is not is the exception.
- `UpdatesGiveRoles`: `UpdateGivesRoles`, after 2021, when no call and no statement fails, tasks do not
  overlap, no hour is missed and nothing restarts (`Serial`, and no `http`). Overrides, removals from another guild
  and replaced roles are allowed. `OneAtATime` and `Places` say that one task works at a time and where
  loops and commands can be; `GivingInv`, that while a loop makes its calls, everybody whom the query selects has
  the role or is among them. The query selects the birthdays that are going on (`WindowIs`).
- `RowsEndWithBirthdays`: `RowsOnlyOnBirthday`, under `Serial` alone (calls may fail), if all
  birthdays are ones that `one_day_ahead` treats well (`EndDatesAreRight`: no panic, the day
  after, and a last month of more than a day). Others refute it.
  `OnTimeInv`: every row in the list is of a birthday that is going on or, while some loop has still to
  begin this hour's update, was an hour before; some loop is alive.
- `ConfirmTypeCorrect`: `TypeOK` of the confirmation.
- `TimersAlwaysMatch` and `RequestsSettle`: when a request is stored before its
  timer fires, `TimersMatchEntries` is invariant and `BirthdayConfirm` implements
  `BirthdayRequests`. The invariant adds the exclusion of the map's lock, that a
  notice is being sent only with that lock held, and that an entry belongs to the author it is
  stored under: a confirmation that finds an entry then knows that no timer is in
  the middle of expiring it.

- `StaffTypeCorrect`, `NobodyEverChangesTheirOwnLog`, `OnlyRemovalsEverLose`: the
  invariant adds that a busy task is about somebody other than its author and has
  a link of its own (`ContextsInv`), and that no two rows have the same link and none the link
  of a command that is going to add one
  (`LinksInv`): a row is then lost only by the statement that removes it, and
  appears only by the one that adds it.
- `NumbersAreAlwaysShown`: the rows of a member who is not `stale` (no addition overlapped
  another addition or a removal) carry each of 1..n once (`NumbersInv`), so their count is n. Inserting n + 1
  keeps that, and so does the removal with its decrement of the greater numbers.
- `ComplaintsAreAlwaysRight`: whatever the arguments of a call are; argued parser by
  parser, with no invariant but the two values that are compared.
- `LoggerTypeCorrect`, `AlwaysDeliveredInOrder`, `OnlyTheFileEverLoses`,
  `FirstIsAlwaysFlushed`. The order is that of four sequences, one after the
  other (`Chain`): what was delivered, what is being sent, what waits in the write
  buffer, what is still to be written. It needs that a sender in the middle of a
  post has the lock of the message buffer and that the queue begins with the
  first logger (`ControlInv`). `KeptInv` says of a logger's own sender what
  `OnlyTheFileLoses` says of all; `FlushedInv`, that after `on_terminate` has drained
  the buffer all that is in it is younger than the mark.
- `HandlersTypeCorrect`, `CacheAlwaysFollows`, `ConversionsWhereEnabled`: the copy that
  `ready` carries to the lock differs from the table only for guilds that were
  changed in between (`CopyFollowsTable`), and while a message is converted the
  cache stays as it was read, because nobody writes (`Downloads`).
- `AnnouncedSizesStayBounded`: the sum of the sizes announced for what a message has or will have downloaded is
  within what its counter says and within the limit (`Counted`), since a size is added to the counter before
  the two are compared; for any number of recordings, whose sum is a fold over a set. It says nothing about the
  bodies, which the code does not compare with these sizes.
- `OnlyBannedArePunished`, `BannedArePunished`: per message, `ScanInv` bounds the rows
  that a scan holds, and so what it takes for banned, between those that matched all
  the while and those that matched at some time, and keeps how far the
  scan and the punishment have come.

- `BucketsStaySound`, `EngineIsASet`: for any base, digits, load factor and batches, however long the
  history. Both from one invariant, `Sound`: every bucket is strictly ascending and has only ids
  that hash to it, `len` is their number. Each operation is followed through its folds:
  what a rebuilt table holds, that ranks sort, that `dedup` after a sort leaves no duplicate,
  that a binary search of an ascending bucket finds what is in it. The load factor
  is kept (`Light`) only if an iterator gives no more than it said, so
  `BucketsStaySound` supposes `Slacks \subseteq Nat`: `size_hint` must be an upper bound, as
  Rust's documentation demands. `EngineIsASet`, the refinement of `IdSet` with all answers, does without, but
  supposes that there is a bound at all (`NoBound \notin Slacks`), since `extend` drops the
  ids of an iterator without one.
- `SearchesAreSound`, `SearchesFindWhatLostAnEnd`: `FuzzySound` and `FuzzyFindsWhatLostAnEnd`,
  from `Sound` again. What the code does by remainders and quotients of
  powers is what cutting digits does (`CutIs`, `DigitsDecide`): a text's number has the text's digits
  (`NumberIs`), so `Matches` holds exactly of the ids that read like the text (`ReadsIs`).
  With all digits lost on one side, the digits that the text's bucket is computed from
  are the id's middle ones (`SameBucket`).
- `CacheStaysRight`: the rows in the cache are whole and hold shortest distances, whichever commands
  filled them. Dijkstra's rounds keep that settled countries have their distances and
  others an upper bound by way of the settled ones.
- `NearestIsAlwaysSent`, `AnswersAreRight`: `ClosestOf` is a fold over the recordings of
  a container, during which the cache may grow; what it has chosen is nearest among those
  looked at so far. `ForvoInv` follows a command from there to the downloads and the answers.

Induction over data, which the prover's library offers only with an operator as parameter, is done
in `FoldLemmas` with sets: the numbers for which a claim holds are a set that has 0 and every
successor, and a set of numbers that is not empty has a least element because
they are well-founded. From it follow that recursive functions and folds are what
their equations say (`NatRecursion`, `FoldValues`, `SumFollows`).

Assumptions: `CalendarAssumption`, `TrackerAssumption`,
`ConfirmAssumption`, `StaffAssumption`, `LoggerAssumption`, `ChannelAssumption`,
`FilterAssumption`, `VocarooAssumption`, `IdAssumption` and `ForvoAssumption`. They say what kind of value each
constant is, and that reserved names differ from others: in particular, the proofs hold for any number of loggers, members,
messages and images and for buffers of any size.

## Only model-checked

Liveness, which needs fairness and ENABLED: `BirthdayIsCelebrated`,
`CommandsFinish`, `UnconfirmedExpire`, `BuffersAreDrained`,
`TerminationEnds`, `HandlersEnd`. `RolesFollowList`, with tasks that overlap:
`DiscordPartsOnlyByLapses` exempts these, and what makes the overlaps of set and set role harmless
is not proved. `AllLogsAreSent` is false of the code (`logger_flush`).

## Not modelled

- The session tracker: nothing compiles it, since the dependency of its `songbird` feature
  is commented out and `IS_SESSION_TRACKER_ENABLED` is false.
- `spanish_english.rs`: its handler returns at once, the rest is commented out.
- The easter egg: a fixed reply. Of Forvo, how pages are scraped: pages are inputs.
- Channel bans: each command is one call that gives or takes a role; nothing is kept.
- `chunk_guilds`: when it ends depends on Discord's events alone; `on_cache_ready`
  follows it, and the models begin after it or allow it never to come (`CacheReady`).
- `parse_role`, and `parse_choices` but for the refusal of `pronounce` (`Refuse`): what
  they return are inputs of the commands.
- `bannedimages` and `get_birthday`, which only read; errors, utilities, the command framework and
  the macros. Of `isvocarootomp3enabled` there is only that it locks (`Hang`).
- The bodies of recordings, and a sum of announced sizes that overflows.

Seen while modelling and too small for a property: `custom.rs:245` says that a message is
deleted only with permission to time its author out, and it is deleted in any
case (the model's `Delete`); `banimage` takes a text that contains a link and stores the link,
`unbanimage` compares the whole text (links are identities in the model); a mention
with more digits than a `u64` holds ends the task of its command; `chunk_guilds`
subtracts unsigned counters that events change; `remove_birthday_role` gives up at the first
call that fails although all rows are gone (`CallLost` has it among the exceptions); `language.rs:125` has a wrong country reported as argument 1, although it is
the second; `forvo.rs:479` downloads before it looks whether it has the recording.

## What is left

1. Proofs: `RolesFollowList` with overlapping tasks, for the commands for
   which it holds.
2. The order of waiting for `Context::data` in `MessageHandlers`, in place of a lock that
   whoever is ready may take.
