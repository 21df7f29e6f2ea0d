------------------------------ MODULE ArgumentParser ------------------------------
(***************************************************************************)
(* The parsers of a command's arguments.  The arguments are a sequence of  *)
(* which a parser that succeeds takes the first and one that fails takes   *)
(* none; its caller tells it which argument it expects that to be.         *)
(***************************************************************************)
EXTENDS Integers, Sequences

\* An argument is a number, a mention of the user with a number, or a word.
Argument(kind, value) == [kind |-> kind, value |-> value]

Parsed(value, rest) == [error |-> "none", at |-> 0, value |-> value, rest |-> rest]

\* An ArgumentParseError that names an argument, or how many were given.
Failed(error, at, args) == [error |-> error, at |-> at, value |-> 0, rest |-> args]

IsParsed(result) == result.error = "none"

NotEnough(argPos, args) == Failed("notEnough", argPos - 1, args)

\* parse_member: an id or a mention of one of the guild's members.
ParseMember(args, argPos, members) ==
    IF args = <<>> THEN NotEnough(argPos, args)
    ELSE IF args[1].kind \in {"number", "mention"} /\ args[1].value \in members
    THEN Parsed(args[1].value, Tail(args))
    ELSE Failed("conversion", argPos, args)

\* parse_bounded_arg.
ParseBoundedArg(args, argPos, start, end) ==
    IF args = <<>> THEN NotEnough(argPos, args)
    ELSE IF args[1].kind # "number" THEN Failed("conversion", argPos, args)
    ELSE IF args[1].value \notin start..end THEN Failed("outOfBounds", argPos, args)
    ELSE Parsed(args[1].value, Tail(args))
=============================================================================
