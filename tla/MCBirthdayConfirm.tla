--------------------------- MODULE MCBirthdayConfirm ---------------------------
(***************************************************************************)
(* Small instances of BirthdayConfirm.  Requests are used once each, which *)
(* bounds the model; the other commands are used any number of times.      *)
(***************************************************************************)
EXTENDS BirthdayConfirm

CONSTANTS a1, a2, k1, k2, c1, o1
=============================================================================
