---------------------------------- MODULE Channel ----------------------------------
(***************************************************************************)
(* What Discord keeps of the messages that the handlers of an event share: *)
(* whether they can still be fetched, answered and deleted.                *)
(***************************************************************************)
CONSTANTS
    Messages,   \* the messages there will be; the link of one identifies it
    Guilds,
    GuildOf,    \* the guild each message is written in
    Posted      \* those that are there before the bot is, and stay

ASSUME ChannelAssumption ==
    /\ Messages # {} /\ Posted \subseteq Messages
    /\ GuildOf \in [Messages -> Guilds]

VARIABLE present    \* the messages that are there

ChannelTypeOK == present \subseteq Messages

ChannelInit == present = Posted

\* Their author or the staff delete one.
Withdraw(m) == m \in present /\ present' = present \ {m}
=============================================================================
