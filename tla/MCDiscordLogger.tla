----------------------------- MODULE MCDiscordLogger -----------------------------
(***************************************************************************)
(* The two loggers of main.  The records of the first are of one character *)
(* of one byte, or of two characters of which the second has two bytes.    *)
(***************************************************************************)
EXTENDS DiscordLogger

TwoLoggers == <<"burdbot", "default">>

RecordsOfEach == [burdbot |-> 2, default |-> 1]

SomeRecords == [burdbot |-> {<<TRUE>>, <<TRUE, TRUE, FALSE>>}, default |-> {<<TRUE>>}]
=============================================================================
