-------------------------------- MODULE ImageFilter --------------------------------
(***************************************************************************)
(* The filter of banned images.  Staff ban the only image of a message, by *)
(* the link of the message, and unban it by that link; the table keeps its *)
(* size and its hash.  Every new message is scanned image by image, and    *)
(* the first banned image has the author timed out, the staff notified and *)
(* the message deleted.  Between the query, the download and each call     *)
(* other tasks run.                                                        *)
(***************************************************************************)
EXTENDS Channel, Sequences, Naturals

CONSTANTS
    ImagesOf,   \* the images of a message that have a size: attachments, embeds, thumbnails
    Exempt,     \* the messages of members with a permission of PERM_EXEMPTION
    Bots,       \* the messages of bots
    StaffGuild, \* the guild whose staff has a channel; others are answered in place
    Slots       \* tasks that run banimage, one command at a time

ASSUME FilterAssumption ==
    /\ ImagesOf \in [Messages -> Seq([size : Nat, hash : Nat])]
    /\ Exempt \subseteq Messages /\ Bots \subseteq Messages

VARIABLES
    banned,     \* fxhash_image_checksums: the links of the rows
    scan,       \* each message's on_message_receive
    window,     \* the matching rows there were at some time, and at all times, of a scan
    ban         \* each slot's banimage

filterVars == <<banned, scan, window, ban>>

\* The row of a link: its message had one image.
Row(link) == ImagesOf[link][1]

OneImage(m) == Len(ImagesOf[m]) = 1

\* The rows that stand for an image of the message, whatever query finds them.
Matching(m) ==
    {r \in Messages : /\ GuildOf[r] = GuildOf[m] /\ OneImage(r)
                      /\ \E i \in DOMAIN ImagesOf[m] : ImagesOf[m][i] = Row(r)}

Punishment == {"timeout", "notify", "delete"}

NoScan == [pc |-> "unsent", at |-> 1, rows |-> {}, did |-> {}, failed |-> FALSE]
NoWindow == [ever |-> {}, always |-> {}]
NoBan == [pc |-> "idle", link |-> CHOOSE m \in Messages : TRUE]

FilterTypeOK ==
    /\ banned \subseteq {m \in Messages : OneImage(m)}
    /\ scan \in [Messages ->
           [pc : {"unsent", "query", "hash", "member", "stuck", "done"} \cup Punishment, at : Nat,
            rows : SUBSET Messages, did : SUBSET Punishment, failed : BOOLEAN]]
    /\ window \in [Messages -> [ever : SUBSET Messages, always : SUBSET Messages]]
    /\ \A m \in Messages :
           window[m].always \subseteq window[m].ever /\ window[m].ever \subseteq Matching(m)
    /\ ban \in [Slots -> [pc : {"idle", "fetch", "insert"}, link : Messages]]

FilterInit ==
    /\ banned = {}
    /\ scan = [m \in Messages |-> IF m \in Posted THEN [NoScan EXCEPT !.pc = "done"] ELSE NoScan]
    /\ window = [m \in Messages |-> NoWindow]
    /\ ban = [c \in Slots |-> NoBan]
-----------------------------------------------------------------------------
(***************************************************************************)
(* The commands.                                                           *)
(***************************************************************************)

Scanning(m) == scan[m].pc \notin {"unsent", "stuck", "done"}

\* The table becomes new, as every scan that goes on may or may not see.
SetBanned(new) ==
    /\ banned' = new
    /\ window' = [m \in Messages |->
           IF Scanning(m) THEN [ever |-> window[m].ever \cup (new \cap Matching(m)),
                                always |-> window[m].always \cap new]
           ELSE window[m]]

\* banimage with the link of a message of its guild.
Ban(c, m) ==
    /\ ban[c].pc = "idle"
    /\ ban' = [ban EXCEPT ![c] = [pc |-> "fetch", link |-> m]]
    /\ UNCHANGED <<banned, scan, window, present>>

\* Mutant: the images are not counted.
FetchUnchecked(c) ==
    /\ ban[c].pc = "fetch"
    /\ \E fetched \in IF ban[c].link \in present THEN BOOLEAN ELSE {FALSE} :
           ban' = [ban EXCEPT ![c] = IF fetched THEN [@ EXCEPT !.pc = "insert"] ELSE NoBan]
    /\ UNCHANGED <<banned, scan, window, present>>

\* validate_image_link fetches the message and add_image counts its images.
Fetch(c) ==
    /\ ban[c].pc = "fetch"
    /\ \E fetched \in IF ban[c].link \in present THEN BOOLEAN ELSE {FALSE} :
           ban' = [ban EXCEPT ![c] = IF fetched /\ OneImage(@.link) THEN [@ EXCEPT !.pc = "insert"]
                                     ELSE NoBan]
    /\ UNCHANGED <<banned, scan, window, present>>

\* The image is downloaded, hashed and inserted, or one of these fails.
Insert(c) ==
    /\ ban[c].pc = "insert"
    /\ SetBanned(banned \cup {ban[c].link}) \/ UNCHANGED <<banned, window>>
    /\ ban' = [ban EXCEPT ![c] = NoBan]
    /\ UNCHANGED <<scan, present>>

\* unbanimage.
Unban(m) ==
    /\ m \in banned
    /\ SetBanned(banned \ {m})
    /\ UNCHANGED <<scan, ban, present>>
-----------------------------------------------------------------------------
(***************************************************************************)
(* The scan of a message.                                                  *)
(***************************************************************************)

\* Where on_message_receive goes for a new message; the permissions of an author
\* who is not in the cache are not known, and nobody is exempted by them.
Entries(m) ==
    IF m \in Bots \/ ImagesOf[m] = <<>> THEN {"done"}
    ELSE IF m \in Exempt THEN {"done", "query"} ELSE {"query"}

Receive(m) ==
    /\ scan[m].pc = "unsent"
    /\ \E pc \in Entries(m) :
        /\ scan' = [scan EXCEPT ![m].pc = pc]
        /\ window' = [window EXCEPT ![m] = IF pc = "done" THEN NoWindow
                                           ELSE [ever |-> banned \cap Matching(m),
                                                 always |-> banned \cap Matching(m)]]
    /\ UNCHANGED <<banned, ban>>

Image(m) == ImagesOf[m][scan[m].at]

\* The scan of m goes on as s, and one that does not go on forgets its rows.
Continue(m, s) ==
    /\ scan' = [scan EXCEPT ![m] = IF s.pc \in {"stuck", "done"} THEN [s EXCEPT !.rows = {}, !.at = 1] ELSE s]
    /\ window' = IF s.pc \in {"stuck", "done"} THEN [window EXCEPT ![m] = NoWindow] ELSE window
    /\ UNCHANGED <<banned, ban>>

\* The next image, unless this is the last.
NextImage(s, m) ==
    IF s.at < Len(ImagesOf[m]) THEN [s EXCEPT !.pc = "query", !.at = @ + 1, !.rows = {}]
    ELSE [s EXCEPT !.pc = "done"]

Failed(s) == [s EXCEPT !.failed = TRUE]

\* Mutant: the guild is left out of the query.
CandidatesOfAllGuilds(m) == {r \in banned : Row(r).size = Image(m).size}

\* WHERE guild_id = ? AND width = ? AND height = ?
Candidates(m) == {r \in banned : GuildOf[r] = GuildOf[m] /\ Row(r).size = Image(m).size}

\* Mutant: an image that no row has the size of ends the scan.
QueryUntilNone(m) ==
    /\ scan[m].pc = "query"
    /\ \/ Continue(m, NextImage(Failed(scan[m]), m))
       \/ Continue(m, IF Candidates(m) = {} THEN [scan[m] EXCEPT !.pc = "done"]
                      ELSE [scan[m] EXCEPT !.pc = "hash", !.rows = Candidates(m)])
    /\ UNCHANGED present

\* check_image asks for the rows of this size; an error is logged.
Query(m) ==
    /\ scan[m].pc = "query"
    /\ \/ Continue(m, NextImage(Failed(scan[m]), m))
       \/ Continue(m, IF Candidates(m) = {} THEN NextImage(scan[m], m)
                      ELSE [scan[m] EXCEPT !.pc = "hash", !.rows = Candidates(m)])
    /\ UNCHANGED present

\* calc_image_hash: equal hashes are equal images.
SameImage(r, m) == Row(r).hash = Image(m).hash

\* It downloads the image and compares its hash with those rows, now old.
Compare(m) ==
    /\ scan[m].pc = "hash"
    /\ \/ Continue(m, NextImage(Failed(scan[m]), m))
       \/ Continue(m, IF \E r \in scan[m].rows : SameImage(r, m)
                      THEN [scan[m] EXCEPT !.pc = "member"] ELSE NextImage(scan[m], m))
    /\ UNCHANGED present

\* time_out_delete_and_notify: without the member nothing is done,
FetchMember(m) ==
    /\ scan[m].pc = "member"
    /\ \/ Continue(m, [scan[m] EXCEPT !.pc = "timeout"])
       \/ Continue(m, [Failed(scan[m]) EXCEPT !.pc = "done"])
    /\ UNCHANGED present

Did(s, call, next) == [s EXCEPT !.pc = next, !.did = @ \cup {call}]
DidNot(s, next) == [Failed(s) EXCEPT !.pc = next]

\* but each of the next calls is made whatever became of those before.
TimeOut(m) ==
    /\ scan[m].pc = "timeout"
    /\ Continue(m, Did(scan[m], "timeout", "notify")) \/ Continue(m, DidNot(scan[m], "notify"))
    /\ UNCHANGED present

\* Outside of StaffGuild the notice is a reply to the message.
Notify(m) ==
    /\ scan[m].pc = "notify"
    /\ \/ /\ GuildOf[m] = StaffGuild \/ m \in present
          /\ Continue(m, Did(scan[m], "notify", "delete"))
       \/ Continue(m, DidNot(scan[m], "delete"))
    /\ UNCHANGED present

\* Mutant: a deletion that fails is tried again.
DeleteUntilDone(m) ==
    /\ scan[m].pc = "delete"
    /\ \/ m \in present /\ present' = present \ {m} /\ Continue(m, Did(scan[m], "delete", "done"))
       \/ UNCHANGED present /\ Continue(m, DidNot(scan[m], "delete"))

Delete(m) ==
    /\ scan[m].pc = "delete"
    /\ \/ m \in present /\ present' = present \ {m} /\ Continue(m, Did(scan[m], "delete", "done"))
       \/ UNCHANGED present /\ Continue(m, DidNot(scan[m], "done"))

\* There is never an answer to the request that m's scan has made, to Discord or for
\* the image; the code sets no time-out.
NoAnswer(m) ==
    /\ scan[m].pc \in {"hash", "member"} \cup Punishment
    /\ Continue(m, [scan[m] EXCEPT !.pc = "stuck"])
    /\ UNCHANGED present

Scan(m) ==
    Query(m) \/ Compare(m) \/ FetchMember(m) \/ TimeOut(m) \/ Notify(m) \/ Delete(m)

FilterCommand ==
    \/ \E c \in Slots : Fetch(c) \/ Insert(c) \/ (\E m \in Messages : Ban(c, m))
    \/ \E m \in Messages : Unban(m)
-----------------------------------------------------------------------------
(***************************************************************************)
(* Properties.                                                             *)
(***************************************************************************)

\* Although the rows are old when they are compared, a member is timed out, and a
\* message deleted, only for an image that was banned in that guild at some time
\* since the message came.
OnlyBannedImagesArePunished ==
    [][\A m \in Messages :
          scan'[m].did # scan[m].did => window[m].ever # {}]_<<filterVars, present>>

\* A message with an image that is banned from before it came until its scan ends
\* has its author timed out, the staff notified and is deleted, at whichever place
\* the image is and whatever else is banned or unbanned meanwhile, unless one of
\* the calls fails or is never answered.
BannedImagesArePunished ==
    [][\A m \in Messages :
          Scanning(m) /\ scan'[m].pc = "done" /\ ~scan'[m].failed =>
              (window[m].always # {} => scan'[m].did = Punishment)]_<<filterVars, present>>
=============================================================================
