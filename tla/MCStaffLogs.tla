-------------------------------- MODULE MCStaffLogs --------------------------------
(***************************************************************************)
(* Two members, both administrators, who name each other, themselves, or   *)
(* nobody.                                                                 *)
(***************************************************************************)
EXTENDS StaffLogs

N(value) == Argument("number", value)
Word == Argument("word", 0)

SomeArguments ==
    {<<>>, <<Word>>, <<Argument("mention", 5)>>}
    \cup {<<N(u)>> : u \in Members}
    \cup {<<Argument("mention", u), Word>> : u \in Members}
    \cup {<<N(u), N(entry), Word>> : u \in Members, entry \in {0, 1, 2}}
=============================================================================
