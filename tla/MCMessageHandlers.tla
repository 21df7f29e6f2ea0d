----------------------------- MODULE MCMessageHandlers -----------------------------
(***************************************************************************)
(* Staff of two guilds posted the same image, earlier, in m1 and in m3; m2 *)
(* has an image of the same size and then that image, and two recordings,  *)
(* either of which can be converted but not both.                          *)
(***************************************************************************)
EXTENDS MessageHandlers, TLC

CONSTANTS m1, m2, m3, g1, g2

Meme == [size |-> 1, hash |-> 1]
Icon == [size |-> 2, hash |-> 3]

MCGuildOf == m1 :> g1 @@ m2 :> g1 @@ m3 :> g2

MCImagesOf == m1 :> <<Meme>> @@ m2 :> <<Icon, Meme>> @@ m3 :> <<Meme>>

MCRecordingsOf == m1 :> <<>> @@ m2 :> <<2, 2>> @@ m3 :> <<>>
=============================================================================
