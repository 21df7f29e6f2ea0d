-------------------------- MODULE MCBirthdayCalendar --------------------------
(***************************************************************************)
(* The calendar of the code, with 24 hours and twelve months, walked hour  *)
(* by hour through a whole year.                                           *)
(***************************************************************************)
EXTENDS BirthdayCalendar

RealMonthToDays == <<31, 28, 31, 30, 31, 30, 31, 31, 30, 31, 30, 31>>

Init == now \in Hours

Next == now' = (now + 1) % YearHours

Spec == Init /\ [][Next]_now
=============================================================================
