--------------------------- MODULE MCBirthdayTracker ---------------------------
(***************************************************************************)
(* Small instances of BirthdayTracker: a year of a few short months, days  *)
(* of two hours, and birthdays chosen for where they fall in the calendar. *)
(***************************************************************************)
EXTENDS BirthdayTracker, TLC

CONSTANTS u1, u2, g1, g2, r1, r2, r3

\* r1 and r2 are roles of the same guild.
MCRoleGuild == r1 :> g1 @@ r2 :> g1 @@ r3 :> g2

OneRole == r1 :> g1

TwoRoles == r1 :> g1 @@ r3 :> g2

\* Days 1 to 3 and 1 to 2: a year of 10 hours, for the run in which everything happens.
ShortestYear == <<3, 2>>

\* Each month as long as the next, so that the wrong month of one_day_ahead
\* has the right length; the last month has no birthdays in these runs.
EvenYear == <<2, 2, 2>>

\* Nothing distinguishes the users.
UserSymmetry == Permutations(Users)
===============================================================================
