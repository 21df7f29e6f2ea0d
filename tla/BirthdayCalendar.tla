--------------------------- MODULE BirthdayCalendar ---------------------------
(***************************************************************************)
(* The dates of the birthday tracker.  An instant is an hour of a year     *)
(* without a 29th of February, 0 being January 1st at 0h; the clock of the *)
(* modules that use this one is cyclic.  A date is what BirthdayDateTime   *)
(* stores: month and day counted from 1, and the hour.  Its string form    *)
(* pads every field to two digits, so that SQLite's text comparison is the *)
(* lexicographic order of the three fields.                                *)
(***************************************************************************)
EXTENDS Integers, Sequences

CONSTANTS
    MonthToDays,    \* MONTH_TO_DAYS, one length per month
    HoursPerDay     \* 24; smaller in the runs that need few hours

Months == 1..Len(MonthToDays)

DaysBefore[m \in 1..(Len(MonthToDays) + 1)] ==
    IF m = 1 THEN 0 ELSE DaysBefore[m - 1] + MonthToDays[m - 1]

YearHours == DaysBefore[Len(MonthToDays) + 1] * HoursPerDay

ASSUME CalendarAssumption ==
    /\ MonthToDays \in Seq(Nat \ {0})
    /\ Len(MonthToDays) > 1
    /\ HoursPerDay \in Nat \ {0}

Hours == 0..(YearHours - 1)

\* The conversion of a UTC instant; `instant' is any integer number of hours.
DateOf(instant) ==
    LET h == instant % YearHours
        d == h \div HoursPerDay
        m == CHOOSE k \in Months : DaysBefore[k] <= d /\ d < DaysBefore[k + 1]
    IN  [month |-> m, day |-> d - DaysBefore[m] + 1, hour |-> h % HoursPerDay]

\* The instant of a date of the calendar: the left inverse of DateOf.
InstantOf(date) ==
    (DaysBefore[date.month] + date.day - 1) * HoursPerDay + date.hour

\* The text order of the stored dates.
Before(d, e) ==
    \/ d.month < e.month
    \/ d.month = e.month /\ d.day < e.day
    \/ d.month = e.month /\ d.day = e.day /\ d.hour < e.hour

-----------------------------------------------------------------------------
\* one_day_ahead looks MONTH_TO_DAYS, an array counted from 0, up with a month
\* counted from 1: it reads the next month's length, and in the last month it
\* reads past the end, which panics.
OneDayAheadPanics(date) == date.month + 1 \notin Months

OneDayAhead(date) ==
    LET day   == (date.day + 1) % (MonthToDays[date.month + 1] + 1)
        month == (date.month + 1) % (Len(MonthToDays) + 1)
    IN  IF day # 0
        THEN [date EXCEPT !.day = day]
        ELSE [month |-> IF month = 0 THEN 1 ELSE month, day |-> 1, hour |-> date.hour]

\* Mutant: the update reasons about the hour that begins.
UtcNow(hour) == hour

\* get_date_time_to_use: every update reasons about the coming hour.
DateTimeToUse(hour) == hour + 1

\* Mutant: <= for < in the deletion.
IsOverOrEqual(over, hour) == ~Before(DateOf(DateTimeToUse(hour)), over)

\* The row filter of get_and_delete_old_bdays.
IsOver(over, hour) == Before(over, DateOf(DateTimeToUse(hour)))

\* Mutant: the window begins 24 hours before the coming hour.
IsNewWithin24Hours(date, hour) ==
    LET curr     == DateOf(DateTimeToUse(hour))
        earliest == DateOf(DateTimeToUse(hour) - HoursPerDay)
    IN  IF curr.month = 1 /\ curr.day = 1
        THEN Before(date, curr) \/ Before(earliest, date)
        ELSE Before(date, curr) /\ Before(earliest, date)

\* Mutant: the statement of January 1st is missing.
IsNewWithoutWrap(date, hour) ==
    /\ Before(date, DateOf(DateTimeToUse(hour)))
    /\ Before(DateOf(DateTimeToUse(hour) - (HoursPerDay + 1)), date)

\* The row filter of add_new_bdays: the two statements, chosen by the day.
IsNew(date, hour) ==
    LET curr     == DateOf(DateTimeToUse(hour))
        earliest == DateOf(DateTimeToUse(hour) - (HoursPerDay + 1))
    IN  IF curr.month = 1 /\ curr.day = 1
        THEN Before(date, curr) \/ Before(earliest, date)
        ELSE Before(date, curr) /\ Before(earliest, date)

-----------------------------------------------------------------------------
\* The reference the properties use: the birthday that starts at `date' is
\* going on during hour `hour'.
IsOngoing(date, hour) == (hour - InstantOf(date)) % YearHours < HoursPerDay

\* The hour in which add_new_bdays asks for `date < 01-02-00 AND date >
\* 12-31-23', which no date satisfies.
EmptyWindowHour == HoursPerDay - 1
-----------------------------------------------------------------------------
\* The current hour; the instant is strictly inside it.
VARIABLE now

\* Birthdays that start at most Near hours from the current one, before or after.
Near == 2 * HoursPerDay

StartsNearby == {DateOf(now + k) : k \in -Near..Near}

\* Whether add_new_bdays selects a birthday in an hour is exactly whether the
\* birthday is going on in that hour: the padding of an hour before and of 25
\* hours after, both strict, and the switch between AND and OR on January 1st
\* add up to the 24 hours the bot announces.  The one hour in which the query
\* is empty is excluded.
WindowIsTheBirthday ==
    now # EmptyWindowHour =>
        \A date \in StartsNearby : IsNew(date, now) <=> IsOngoing(date, now)

\* Where one_day_ahead is right (it does not panic, and it gives the date 24
\* hours on), the end date it gives makes the row old exactly in the hours after
\* the birthday; the days around New Year are excluded, since text order does
\* not wrap around.
EndDateEndsTheBirthday ==
    \A date \in StartsNearby :
        /\ ~OneDayAheadPanics(date)
        /\ OneDayAhead(date) = DateOf(InstantOf(date) + HoursPerDay)
        /\ InstantOf(date) \in Near..(YearHours - Near)
        /\ now \in Near..(YearHours - Near)
        => (IsOver(OneDayAhead(date), now) <=> now >= InstantOf(date) + HoursPerDay)
=============================================================================
