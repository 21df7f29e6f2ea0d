------------------------- MODULE BirthdayTrackerProofs -------------------------
(***************************************************************************)
(* Theorems of BirthdayTracker, for any users, guilds, roles, tasks and    *)
(* calendar.                                                               *)
(***************************************************************************)
EXTENDS BirthdayTracker, FoldLemmas, TLAPS

-----------------------------------------------------------------------------
(***************************************************************************)
(* The calendar: the text order of the dates is that of the instants, and  *)
(* the two queries find what they should.                                  *)
(***************************************************************************)

LEMMA DaysBeforeIs ==
    LET n == Len(MonthToDays)
    IN  /\ n \in Nat /\ n > 1 /\ Months = 1..n
        /\ \A m \in 1..(n + 1) : DaysBefore[m] \in Nat
        /\ DaysBefore[1] = 0
        /\ \A m \in 1..n : /\ MonthToDays[m] \in Nat \ {0}
                           /\ DaysBefore[m + 1] = DaysBefore[m] + MonthToDays[m]
  <1> DEFINE n == Len(MonthToDays)
             step == [p \in (1..(n + 1)) \X Nat |-> IF p[1] = 1 THEN 0 ELSE p[2] + MonthToDays[p[1] - 1]]
  <1>1. n \in Nat /\ n > 1 /\ Months = 1..n /\ \A m \in 1..n : MonthToDays[m] \in Nat \ {0}
    BY CalendarAssumption, LenProperties DEF Months
  <1>2. step \in [(1..(n + 1)) \X Nat -> Nat] /\ 0 \in Nat /\ 1 \in Int /\ n + 1 \in Int
    <2> SUFFICES ASSUME NEW i \in 1..(n + 1), NEW d \in Nat
                 PROVE  (IF i = 1 THEN 0 ELSE d + MonthToDays[i - 1]) \in Nat
      BY <1>1
    <2>1. CASE i # 1
      <3>1. i - 1 \in 1..n
        BY <1>1, <2>1
      <3>2. MonthToDays[i - 1] \in Nat
        BY <1>1, <3>1
      <3> QED BY <2>1, <3>2
    <2> QED BY <2>1
  <1>3. PICK F \in [1..(n + 1) -> Nat] : RecursiveOnInterval(F, 1, n + 1, 0, step)
    <2> HIDE DEF step, n
    <2> QED BY <1>2, IntervalRecursion
  <1>4. \A i \in 1..(n + 1) : i # 1 => /\ i - 1 \in 1..(n + 1) /\ <<i, F[i - 1]>> \in (1..(n + 1)) \X Nat
                                       /\ step[<<i, F[i - 1]>>] = F[i - 1] + MonthToDays[i - 1]
    <2> SUFFICES ASSUME NEW i \in 1..(n + 1), i # 1
                 PROVE  /\ i - 1 \in 1..(n + 1) /\ <<i, F[i - 1]>> \in (1..(n + 1)) \X Nat
                        /\ step[<<i, F[i - 1]>>] = F[i - 1] + MonthToDays[i - 1]
      OBVIOUS
    <2>1. i - 1 \in 1..(n + 1)
      BY <1>1
    <2> QED BY <1>3, <2>1
  <1>5. F = [m \in 1..(n + 1) |-> IF m = 1 THEN 0 ELSE F[m - 1] + MonthToDays[m - 1]]
    <2> HIDE DEF step, n
    <2>1. \A m \in 1..(n + 1) : F[m] = IF m = 1 THEN 0 ELSE F[m - 1] + MonthToDays[m - 1]
      <3> TAKE m \in 1..(n + 1)
      <3>1. F[m] = IF m = 1 THEN 0 ELSE step[<<m, F[m - 1]>>]
        BY <1>3 DEF RecursiveOnInterval
      <3> QED BY <1>4, <3>1
    <2> QED BY <1>3, <2>1
  <1>6. DaysBefore = [m \in 1..(n + 1) |-> IF m = 1 THEN 0 ELSE DaysBefore[m - 1] + MonthToDays[m - 1]]
    BY <1>5, Zenon DEF DaysBefore
  <1>7. DaysBefore[1] = 0
    BY <1>1, <1>6
  <1>8. \A m \in 1..n : DaysBefore[m + 1] = DaysBefore[m] + MonthToDays[m]
    <2> TAKE m \in 1..n
    <2>1. m + 1 \in 1..(n + 1) /\ m + 1 # 1 /\ (m + 1) - 1 = m
      BY <1>1
    <2> HIDE DEF n
    <2> QED BY <1>6, <2>1
  <1>9. \A m \in 1..(n + 1) : DaysBefore[m] \in Nat
    <2> DEFINE S == {i \in Nat : i <= n => DaysBefore[i + 1] \in Nat}
    <2> HIDE DEF n
    <2>1. 0 \in S
      BY <1>7
    <2>2. ASSUME NEW i \in Nat, i \in S PROVE i + 1 \in S
      <3> SUFFICES ASSUME i + 1 <= n PROVE DaysBefore[(i + 1) + 1] \in Nat
        OBVIOUS
      <3>1. i + 1 \in 1..n
        BY <1>1
      <3>2. DaysBefore[i + 1] \in Nat /\ MonthToDays[i + 1] \in Nat
        BY <1>1, <2>2, <3>1
      <3>3. DaysBefore[(i + 1) + 1] = DaysBefore[i + 1] + MonthToDays[i + 1]
        BY <1>8, <3>1
      <3> QED BY <3>2, <3>3
    <2>3. Nat \subseteq S
      <3> HIDE DEF S
      <3> QED BY <2>1, <2>2, Induction
    <2>4. \A m \in 1..(n + 1) : m - 1 \in S /\ (m - 1) + 1 = m
      <3> HIDE DEF S
      <3> QED BY <1>1, <2>3
    <2> QED BY <1>1, <2>4
  <1> HIDE DEF n
  <1>10. n \in Nat /\ n > 1 /\ Months = 1..n
        /\ (\A m \in 1..(n + 1) : DaysBefore[m] \in Nat)
        /\ DaysBefore[1] = 0
        /\ \A m \in 1..n : /\ MonthToDays[m] \in Nat \ {0}
                           /\ DaysBefore[m + 1] = DaysBefore[m] + MonthToDays[m]
    BY <1>1, <1>7, <1>8, <1>9
  <1> QED BY <1>10 DEF n

\* A month ends no later than a later one begins.
LEMMA DaysGrow ==
    ASSUME NEW i \in Months, NEW j \in 1..(Len(MonthToDays) + 1), i < j
    PROVE  DaysBefore[i + 1] <= DaysBefore[j]
  <1> DEFINE n == Len(MonthToDays)
             S == {k \in Nat : i + 1 + k <= n + 1 => DaysBefore[i + 1] <= DaysBefore[i + 1 + k]}
  <1>1. /\ n \in Nat /\ i \in 1..n
        /\ \A m \in 1..(n + 1) : DaysBefore[m] \in Nat
        /\ \A m \in 1..n : MonthToDays[m] \in Nat /\ DaysBefore[m + 1] = DaysBefore[m] + MonthToDays[m]
    BY DaysBeforeIs
  <1> HIDE DEF n
  <1>2. i + 1 \in 1..(n + 1) /\ DaysBefore[i + 1] \in Nat
    BY <1>1
  <1>3. 0 \in S
    BY <1>2
  <1>4. ASSUME NEW k \in Nat, k \in S PROVE k + 1 \in S
    <2> SUFFICES ASSUME i + 1 + (k + 1) <= n + 1
                 PROVE  DaysBefore[i + 1] <= DaysBefore[i + 1 + (k + 1)]
      OBVIOUS
    <2>1. i + 1 + k \in 1..n /\ i + 1 + k \in 1..(n + 1) /\ (i + 1 + k) + 1 = i + 1 + (k + 1)
      BY <1>1
    <2>2. DaysBefore[i + 1 + (k + 1)] = DaysBefore[i + 1 + k] + MonthToDays[i + 1 + k]
      BY <1>1, <2>1
    <2>3. MonthToDays[i + 1 + k] \in Nat /\ DaysBefore[i + 1 + k] \in Nat
      BY <1>1, <2>1
    <2>4. DaysBefore[i + 1] <= DaysBefore[i + 1 + k]
      BY <1>4, <2>1
    <2> QED BY <1>2, <2>2, <2>3, <2>4
  <1>5. Nat \subseteq S
    <2> HIDE DEF S
    <2> QED BY <1>3, <1>4, Induction
  <1>6. j - i - 1 \in S /\ i + 1 + (j - i - 1) = j /\ j <= n + 1
    <2>1. j - i - 1 \in Nat /\ i + 1 + (j - i - 1) = j /\ j <= n + 1
      BY <1>1 DEF n
    <2> HIDE DEF S
    <2> QED BY <1>5, <2>1
  <1> QED BY <1>6

\* A year has two days at least.
LEMMA YearIs ==
    /\ HoursPerDay \in Nat \ {0} /\ YearHours \in Nat \ {0} /\ 2 * HoursPerDay <= YearHours
    /\ \A x \in Hours : x \in Nat /\ x < YearHours
  <1> DEFINE n == Len(MonthToDays)
             last == DaysBefore[n + 1]
  <1>1. HoursPerDay \in Nat \ {0}
    BY CalendarAssumption
  <1>2. last \in Nat /\ last >= 2
    <2>1. /\ n \in Nat /\ n > 1 /\ 1 \in Months /\ 1 \in 1..n /\ n \in 1..n
          /\ n \in 1..(n + 1) /\ 1 + 1 = 2
      BY DaysBeforeIs
    <2>2. DaysBefore[2] = 0 + MonthToDays[1] /\ last = DaysBefore[n] + MonthToDays[n]
      BY <2>1, DaysBeforeIs
    <2>3. DaysBefore[2] <= DaysBefore[n]
      BY <2>1, DaysGrow
    <2>4. MonthToDays[1] \in Nat \ {0} /\ MonthToDays[n] \in Nat \ {0} /\ DaysBefore[n] \in Nat
      BY <2>1, DaysBeforeIs
    <2> QED BY <2>2, <2>3, <2>4
  <1>3. YearHours = HoursPerDay * last
    BY <1>1, <1>2 DEF YearHours
  <1> HIDE DEF last
  <1>4. HoursPerDay * 1 + HoursPerDay <= HoursPerDay * last
    BY <1>1, <1>2, ProductGrows
  <1>5. YearHours \in Nat \ {0} /\ 2 * HoursPerDay <= YearHours
    BY <1>1, <1>2, <1>3, <1>4
  <1>6. \A x \in Hours : x \in Nat /\ x < YearHours
    BY <1>5 DEF Hours
  <1> QED BY <1>1, <1>5, <1>6

\* Every day of the year is in one of the months.
LEMMA MonthOf ==
    ASSUME NEW d \in Nat, d < DaysBefore[Len(MonthToDays) + 1]
    PROVE  \E k \in Months : DaysBefore[k] <= d /\ d < DaysBefore[k + 1]
  <1> DEFINE n == Len(MonthToDays)
             Later == {k \in Nat : k \in 1..(n + 1) /\ d < DaysBefore[k]}
  <1>1. n \in Nat /\ Months = 1..n /\ DaysBefore[1] = 0 /\ \A m \in 1..(n + 1) : DaysBefore[m] \in Nat
    BY DaysBeforeIs
  <1> HIDE DEF n
  <1>2. n + 1 \in Later
    BY <1>1 DEF n
  <1>3. PICK k \in Later : \A m \in Later : k <= m
    <2>1. Later \in SUBSET Nat /\ Later # {}
      BY <1>2
    <2> HIDE DEF Later
    <2> QED BY <2>1, LeastNatural
  <1>4. k # 1 /\ k - 1 \in 1..n /\ (k - 1) + 1 = k
    BY <1>1
  <1>5. k - 1 \notin Later
    BY <1>3, <1>4
  <1>6. DaysBefore[k - 1] <= d
    BY <1>1, <1>4, <1>5
  <1> QED BY <1>1, <1>4, <1>6

\* The parts of a date are in their ranges, and it gives its instant back.
LEMMA DateIs ==
    ASSUME NEW x \in Hours
    PROVE  LET date == DateOf(x)
               d == x \div HoursPerDay
           IN  /\ date.month \in Months /\ d \in Nat
               /\ DaysBefore[date.month] <= d /\ d < DaysBefore[date.month + 1]
               /\ date.day = d - DaysBefore[date.month] + 1
               /\ date.hour = x % HoursPerDay
               /\ x = HoursPerDay * d + date.hour
               /\ date.hour \in 0..(HoursPerDay - 1)
               /\ InstantOf(date) = x
  <1> DEFINE H == HoursPerDay
             d == x \div H
             InMonth(k) == DaysBefore[k] <= d /\ d < DaysBefore[k + 1]
             m == CHOOSE k \in Months : InMonth(k)
             last == DaysBefore[Len(MonthToDays) + 1]
  <1>1. /\ H \in Nat \ {0} /\ YearHours \in Nat \ {0} /\ last \in Nat /\ YearHours = last * H
        /\ x \in Nat /\ x < YearHours
    BY YearIs, DaysBeforeIs DEF YearHours
  <1>2. x % YearHours = x
    <2>1. YearHours \in Nat \ {0} /\ x \in Int /\ 0 <= x /\ x < YearHours
      BY <1>1
    <2> QED BY <2>1, RemainderIs, Zenon
  <1>3. x % H \in 0..(H - 1) /\ d \in Int /\ x = H * d + (x % H)
    BY <1>1
  <1> HIDE DEF d, last, H
  <1>4. d \in Nat
    <2> SUFFICES ASSUME d < 0 PROVE FALSE
      BY <1>3
    <2>1. H * d + H <= H * 0 /\ H * d \in Int
      BY <1>1, <1>3, ProductGrows
    <2> QED BY <1>1, <1>3, <2>1
  <1>5. d < last
    <2> SUFFICES ASSUME last <= d PROVE FALSE
      BY <1>1, <1>4
    <2>1. H * last <= H * d /\ H * last \in Int /\ H * d \in Int /\ H * last = last * H
      <3>1. last < d => H * last + H <= H * d
        BY <1>1, <1>4, ProductGrows
      <3> QED BY <1>1, <1>4, <3>1
    <2> QED BY <1>1, <1>3, <2>1
  <1>6. \E k \in Months : InMonth(k)
    BY <1>4, <1>5, MonthOf DEF last
  <1>7. m \in Months /\ InMonth(m)
    <2> HIDE DEF InMonth
    <2> QED BY <1>6
  <1>8. DateOf(x) = [month |-> m, day |-> d - DaysBefore[m] + 1, hour |-> x % H]
    BY <1>2 DEF DateOf, d, H
  <1>9. DaysBefore[m] \in Nat
    BY <1>7, DaysBeforeIs
  <1> HIDE DEF m
  <1>10. InstantOf(DateOf(x)) = d * H + (x % H)
    <2>1. DaysBefore[m] + (d - DaysBefore[m] + 1) - 1 = d
      BY <1>4, <1>9
    <2> QED BY <1>8, <2>1 DEF InstantOf, H
  <1>11. d * H = H * d
    BY <1>1, <1>4
  <1> QED BY <1>3, <1>4, <1>7, <1>8, <1>10, <1>11 DEF d, H

\* The order of the stored texts is that of the instants within the year.
DateParts(d, e) ==
    /\ d.month \in Int /\ d.day \in Int /\ d.hour \in Int
    /\ e.month \in Int /\ e.day \in Int /\ e.hour \in Int

LEMMA OrderIs ==
    ASSUME NEW x \in Hours, NEW y \in Hours
    PROVE  Before(DateOf(x), DateOf(y)) <=> x < y
  <1>1. ASSUME NEW a \in Hours, NEW b \in Hours, a < b PROVE Before(DateOf(a), DateOf(b))
    <2> DEFINE H == HoursPerDay
               dx == a \div H
               dy == b \div H
               A == DateOf(a)
               B == DateOf(b)
    <2>0. H \in Nat \ {0} /\ a \in Nat /\ b \in Nat
      BY YearIs
    <2>1. /\ A.month \in Months /\ dx \in Nat
          /\ DaysBefore[A.month] <= dx
          /\ A.day = dx - DaysBefore[A.month] + 1
          /\ a = H * dx + A.hour /\ A.hour \in 0..(H - 1)
      BY DateIs
    <2>2. /\ B.month \in Months /\ dy \in Nat
          /\ dy < DaysBefore[B.month + 1]
          /\ B.day = dy - DaysBefore[B.month] + 1
          /\ b = H * dy + B.hour /\ B.hour \in 0..(H - 1)
      BY DateIs
    <2> HIDE DEF A, B, dx, dy, H
    <2>3. dx <= dy
      <3> SUFFICES ASSUME dy < dx PROVE FALSE
        BY <2>1, <2>2
      <3>1. H * dy + H <= H * dx /\ H * dy \in Int /\ H * dx \in Int
        BY <2>0, <2>1, <2>2, ProductGrows
      <3> QED BY <2>0, <2>1, <2>2, <3>1, <1>1, SMTT(30)
    <2>4. A.month <= B.month
      <3> SUFFICES ASSUME B.month < A.month PROVE FALSE
        BY <2>1, <2>2 DEF Months
      <3> DEFINE n == Len(MonthToDays)
      <3>0. n \in Nat /\ Months = 1..n /\ \A m \in 1..(n + 1) : DaysBefore[m] \in Nat
        BY DaysBeforeIs
      <3> HIDE DEF n
      <3>a. A.month \in Months /\ B.month \in Months
        BY <2>1, <2>2
      <3>1. B.month + 1 \in 1..(n + 1) /\ A.month \in 1..(n + 1)
        BY <3>0, <3>a
      <3>2. DaysBefore[B.month + 1] <= DaysBefore[A.month]
        BY <3>1, <3>a, DaysGrow DEF n
      <3>3. DaysBefore[B.month + 1] \in Nat /\ DaysBefore[A.month] \in Nat
        BY <3>0, <3>1
      <3> QED BY <2>1, <2>2, <2>3, <3>2, <3>3
    <2>5. CASE A.month < B.month
      BY <2>5 DEF Before, A, B
    <2>6. CASE A.month = B.month
      <3>1. DaysBefore[A.month] \in Nat
        BY <2>1, DaysBeforeIs
      <3>2. A.day <= B.day /\ (A.day = B.day => dx = dy)
        BY <2>1, <2>2, <2>3, <2>6, <3>1
      <3>3. dx = dy => A.hour < B.hour
        <4>1. H * dx \in Int
          BY <2>0, <2>1
        <4> QED BY <1>1, <2>0, <2>1, <2>2, <4>1
      <3>4. A.day \in Int /\ B.day \in Int
        BY <2>1, <2>2, <2>6, <3>1
      <3> QED BY <2>6, <3>2, <3>3, <3>4 DEF Before, A, B
    <2>7. A.month \in Int /\ B.month \in Int
      BY <2>1, <2>2, DaysBeforeIs
    <2> QED BY <2>4, <2>5, <2>6, <2>7
  <1>2. \A a, b \in Hours : DateParts(DateOf(a), DateOf(b))
    <2>1. ASSUME NEW a \in Hours
          PROVE  DateOf(a).month \in Int /\ DateOf(a).day \in Int /\ DateOf(a).hour \in Int
      <3>1. /\ DateOf(a).month \in Months /\ a \div HoursPerDay \in Nat
            /\ DateOf(a).day = a \div HoursPerDay - DaysBefore[DateOf(a).month] + 1
            /\ DateOf(a).hour \in 0..(HoursPerDay - 1)
        BY DateIs
      <3>2. DaysBefore[DateOf(a).month] \in Int /\ DateOf(a).month \in Int
        BY <3>1, DaysBeforeIs
      <3>3. HoursPerDay \in Nat
        BY CalendarAssumption
      <3> QED BY <3>1, <3>2, <3>3
    <2> QED BY <2>1 DEF DateParts
  <1>3. x \in Int /\ y \in Int
    BY DEF Hours
  <1>4. CASE x < y
    BY <1>1, <1>4
  <1>5. CASE x = y
    BY <1>2, <1>3, <1>5 DEF Before, DateParts
  <1>6. CASE y < x
    BY <1>1, <1>2, <1>6 DEF Before, DateParts
  <1> QED BY <1>3, <1>4, <1>5, <1>6

\* The date of any instant is that of one of the year.
LEMMA DateInYear ==
    ASSUME NEW a \in Int
    PROVE  a % YearHours \in Hours /\ DateOf(a) = DateOf(a % YearHours)
  <1>1. YearHours \in Nat \ {0}
    BY YearIs
  <1>2. a % YearHours \in 0..(YearHours - 1)
    BY <1>1, RemainderIs, Zenon
  <1>3. (a % YearHours) % YearHours = a % YearHours
    <2> DEFINE r == a % YearHours
    <2>1. r \in Int /\ 0 <= r /\ r < YearHours
      BY <1>1, <1>2
    <2> HIDE DEF r
    <2>2. r % YearHours = r
      BY <1>1, <2>1, RemainderIs, Zenon
    <2> QED BY <2>2 DEF r
  <1> QED BY <1>2, <1>3 DEF DateOf, Hours

\* Whole years do not count.
LEMMA WholeYears ==
    ASSUME NEW b \in Nat \ {0}, NEW q \in Int, NEW a \in Int
    PROVE  (b * q + a) % b = a % b
  <1> DEFINE c == b * q + a
             k == q + (a \div b)
             l == c \div b
  <1>1. a % b \in 0..(b - 1) /\ a \div b \in Int /\ a = b * (a \div b) + (a % b)
    BY RemainderIs, Zenon
  <1>2. c \in Int
    OBVIOUS
  <1>3. c % b \in 0..(b - 1) /\ l \in Int /\ c = b * l + (c % b)
    BY <1>2, RemainderIs, Zenon
  <1>4. k \in Int /\ c = b * k + (a % b)
    BY <1>1
  <1> HIDE DEF c, k, l
  <1>5. b * k \in Int /\ b * l \in Int
    BY <1>3, <1>4
  <1>6. CASE k < l
    <2>1. b * k + b <= b * l
      BY <1>3, <1>4, <1>6, ProductGrows
    <2> QED BY <1>1, <1>3, <1>4, <1>5, <2>1
  <1>7. CASE l < k
    <2>1. b * l + b <= b * k
      BY <1>3, <1>4, <1>7, ProductGrows
    <2> QED BY <1>1, <1>3, <1>4, <1>5, <2>1
  <1>8. CASE k = l
    BY <1>1, <1>3, <1>4, <1>5, <1>8 DEF c
  <1> QED BY <1>3, <1>4, <1>6, <1>7, <1>8

\* The hours of January 1st are the first of the year.
LEMMA FirstDayIs ==
    ASSUME NEW x \in Hours
    PROVE  DateOf(x).month = 1 /\ DateOf(x).day = 1 <=> x < HoursPerDay
  <1> DEFINE H == HoursPerDay
             d == x \div H
             D == DateOf(x)
  <1>1. H \in Nat \ {0} /\ x \in Nat
    BY YearIs
  <1>2. /\ D.month \in Months /\ d \in Nat
        /\ DaysBefore[D.month] <= d /\ D.day = d - DaysBefore[D.month] + 1
        /\ x = H * d + D.hour /\ D.hour \in 0..(H - 1)
    BY DateIs
  <1> HIDE DEF d, D, H
  <1>3. DaysBefore[1] = 0 /\ DaysBefore[D.month] \in Nat /\ D.month \in Nat /\ D.month >= 1
    BY <1>2, DaysBeforeIs
  <1>4. ASSUME D.month = 1, D.day = 1 PROVE x < H
    <2>1. d = 0
      BY <1>2, <1>3, <1>4
    <2> QED BY <1>1, <1>2, <2>1
  <1>5. ASSUME x < H PROVE D.month = 1 /\ D.day = 1
    <2>1. d = 0
      <3> SUFFICES ASSUME 0 < d PROVE FALSE
        BY <1>2
      <3>1. H * 0 + H <= H * d /\ H * d \in Int
        BY <1>1, <1>2, ProductGrows
      <3> QED BY <1>1, <1>2, <1>5, <3>1
    <2>2. D.month = 1
      <3> SUFFICES ASSUME 1 < D.month PROVE FALSE
        BY <1>3
      <3>1. 1 \in Months /\ D.month \in 1..(Len(MonthToDays) + 1) /\ 1 + 1 = 2
        BY <1>2, DaysBeforeIs
      <3>2. DaysBefore[2] <= DaysBefore[D.month]
        BY <3>1, DaysGrow
      <3>3. DaysBefore[2] = 0 + MonthToDays[1] /\ MonthToDays[1] \in Nat \ {0}
        BY <3>1, DaysBeforeIs
      <3> QED BY <1>2, <1>3, <2>1, <3>2, <3>3
    <2> QED BY <1>2, <1>3, <2>1, <2>2
  <1> QED BY <1>4, <1>5 DEF D, H

\* The hours of the clock, as far as a day around the year.
LEMMA AroundTheYear ==
    ASSUME NEW a \in Int
    PROVE  /\ 0 <= a /\ a < YearHours => a % YearHours = a
           /\ -YearHours <= a /\ a < 0 => a % YearHours = a + YearHours
           /\ YearHours <= a /\ a < 2 * YearHours => a % YearHours = a - YearHours
  BY YearIs, RemainderIs, Zenon

\* The instants an update compares with.
LEMMA UpdateInstants ==
    ASSUME NEW current \in Hours
    PROVE  LET c == DateTimeToUse(current) % YearHours
               e == (DateTimeToUse(current) - (HoursPerDay + 1)) % YearHours
           IN  /\ c = (IF current = YearHours - 1 THEN 0 ELSE current + 1) /\ c \in Hours
               /\ DateOf(DateTimeToUse(current)) = DateOf(c)
               /\ e = (IF current < HoursPerDay THEN current - HoursPerDay + YearHours ELSE current - HoursPerDay)
               /\ e \in Hours
               /\ DateOf(DateTimeToUse(current) - (HoursPerDay + 1)) = DateOf(e)
  <1>1. /\ HoursPerDay \in Nat \ {0} /\ YearHours \in Nat \ {0} /\ 2 * HoursPerDay <= YearHours
        /\ current \in Nat /\ current < YearHours
    BY YearIs
  <1>2. DateTimeToUse(current) = current + 1 /\ DateTimeToUse(current) - (HoursPerDay + 1) = current - HoursPerDay
    BY <1>1 DEF DateTimeToUse
  <1>3. current + 1 \in Int /\ current - HoursPerDay \in Int
    BY <1>1
  <1>4. (current + 1) % YearHours = IF current = YearHours - 1 THEN 0 ELSE current + 1
    <2>1. CASE current = YearHours - 1
      <3>1. YearHours <= current + 1 /\ current + 1 < 2 * YearHours /\ (current + 1) - YearHours = 0
        BY <1>1, <2>1
      <3> QED BY <1>3, <2>1, <3>1, AroundTheYear, Zenon
    <2>2. CASE current # YearHours - 1
      <3>1. 0 <= current + 1 /\ current + 1 < YearHours
        BY <1>1, <2>2
      <3> QED BY <1>3, <2>2, <3>1, AroundTheYear, Zenon
    <2> QED BY <2>1, <2>2
  <1>5. (current - HoursPerDay) % YearHours =
           IF current < HoursPerDay THEN current - HoursPerDay + YearHours ELSE current - HoursPerDay
    <2>1. CASE current < HoursPerDay
      <3>1. -YearHours <= current - HoursPerDay /\ current - HoursPerDay < 0
        BY <1>1, <2>1
      <3> QED BY <1>3, <2>1, <3>1, AroundTheYear, Zenon
    <2>2. CASE ~ (current < HoursPerDay)
      <3>1. 0 <= current - HoursPerDay /\ current - HoursPerDay < YearHours
        BY <1>1, <2>2
      <3> QED BY <1>3, <2>2, <3>1, AroundTheYear, Zenon
    <2> QED BY <2>1, <2>2
  <1> QED BY <1>2, <1>3, <1>4, <1>5, DateInYear

\* How long a birthday has been going on.
LEMMA OngoingIs ==
    ASSUME NEW current \in Hours, NEW x \in Hours
    PROVE  IsOngoing(DateOf(x), current) <=>
               (IF x <= current THEN current - x ELSE current - x + YearHours) < HoursPerDay
  <1>1. /\ YearHours \in Nat \ {0} /\ current \in Nat /\ current < YearHours /\ x \in Nat /\ x < YearHours
        /\ InstantOf(DateOf(x)) = x
    BY YearIs, DateIs
  <1>2. current - x \in Int
    BY <1>1
  <1>3. (current - x) % YearHours = IF x <= current THEN current - x ELSE current - x + YearHours
    <2>1. CASE x <= current
      <3>1. 0 <= current - x /\ current - x < YearHours
        BY <1>1, <2>1
      <3> QED BY <1>2, <2>1, <3>1, AroundTheYear, Zenon
    <2>2. CASE ~ (x <= current)
      <3>1. -YearHours <= current - x /\ current - x < 0
        BY <1>1, <2>2
      <3> QED BY <1>2, <2>2, <3>1, AroundTheYear, Zenon
    <2> QED BY <2>1, <2>2
  <1> QED BY <1>1, <1>3 DEF IsOngoing

\* add_new_bdays selects the birthdays that are going on, but in the hour in which
\* it selects none.
LEMMA WindowIs ==
    ASSUME NEW current \in Hours, NEW x \in Hours
    PROVE  /\ IsNew(DateOf(x), current) => IsOngoing(DateOf(x), current)
           /\ current # EmptyWindowHour => (IsOngoing(DateOf(x), current) => IsNew(DateOf(x), current))
  <1> DEFINE Y == YearHours
             H == HoursPerDay
             c == DateTimeToUse(current) % YearHours
             e == (DateTimeToUse(current) - (HoursPerDay + 1)) % YearHours
  <1>1. /\ H \in Nat \ {0} /\ Y \in Nat \ {0} /\ 2 * H <= Y
        /\ current \in Nat /\ current < Y /\ x \in Nat /\ x < Y
    BY YearIs
  <1>2. /\ c = (IF current = Y - 1 THEN 0 ELSE current + 1) /\ c \in Hours
        /\ DateOf(DateTimeToUse(current)) = DateOf(c)
        /\ e = (IF current < H THEN current - H + Y ELSE current - H) /\ e \in Hours
        /\ DateOf(DateTimeToUse(current) - (HoursPerDay + 1)) = DateOf(e)
    BY UpdateInstants
  <1> HIDE DEF c, e
  <1>3. /\ Before(DateOf(x), DateOf(c)) <=> x < c
        /\ Before(DateOf(e), DateOf(x)) <=> e < x
        /\ DateOf(c).month = 1 /\ DateOf(c).day = 1 <=> c < H
    BY <1>2, OrderIs, FirstDayIs
  <1>4. IsNew(DateOf(x), current) <=> IF c < H THEN x < c \/ e < x ELSE x < c /\ e < x
    BY <1>2, <1>3 DEF IsNew
  <1>5. IsOngoing(DateOf(x), current) <=> (IF x <= current THEN current - x ELSE current - x + Y) < H
    BY OngoingIs
  <1>6. current # EmptyWindowHour <=> current # H - 1
    BY DEF EmptyWindowHour
  <1> HIDE DEF Y, H
  <1> QED BY <1>1, <1>2, <1>4, <1>5, <1>6

\* A row of bday_user_list that ends a day after x is old in the hours from its end
\* on, but at the end of the year.
LEMMA OverIs ==
    ASSUME NEW current \in Hours, NEW y \in Hours
    PROVE  IsOver(DateOf(y), current) <=> current # YearHours - 1 /\ y <= current
  <1> DEFINE c == DateTimeToUse(current) % YearHours
  <1>1. /\ YearHours \in Nat \ {0} /\ current \in Nat /\ current < YearHours /\ y \in Nat /\ y < YearHours
    BY YearIs
  <1>2. /\ c = (IF current = YearHours - 1 THEN 0 ELSE current + 1) /\ c \in Hours
        /\ DateOf(DateTimeToUse(current)) = DateOf(c)
    BY UpdateInstants
  <1> HIDE DEF c
  <1>3. Before(DateOf(y), DateOf(c)) <=> y < c
    BY <1>2, OrderIs
  <1> QED BY <1>1, <1>2, <1>3 DEF IsOver

-----------------------------------------------------------------------------
(***************************************************************************)
(* The types.                                                              *)
(***************************************************************************)

\* The clock stays in the year.
LEMMA NextHour == ASSUME NEW h \in Hours PROVE (h + 1) % YearHours \in Hours
  BY YearIs, SMT DEF Hours

\* What a request of calls leaves behind, whatever it is a request of.
LEMMA RequestType ==
    ASSUME TypeOK, NEW t \in Tasks, NEW removals \in SUBSET Grants,
           NEW additions \in SUBSET Grants, NEW mode \in {"calls", "revoke"},
           Request(t, removals, additions, mode)
    PROVE  /\ pc' \in [Tasks -> {"unborn", "asleep", "dead", "idle", "addRole", "addList",
                                 "update", "calls", "revoke", "clean"}]
           /\ rem' \in [Tasks -> SUBSET Grants] /\ add' \in [Tasks -> SUBSET Grants]
  BY DEF TypeOK, Request, Rest

\* The contexts a command can be given.
LEMMA ContextType ==
    /\ NoContext \in Contexts
    /\ \A u \in Users, g \in Guilds, start \in Starts :
          [user |-> u, guild |-> g, start |-> start, role |-> None] \in Contexts
    /\ \A g \in Guilds : [NoContext EXCEPT !.guild = g] \in Contexts
    /\ \A c \in Contexts, r \in Roles \cup {None} : [c EXCEPT !.role = r] \in Contexts
  BY DEF NoContext, Contexts

\* A command in the middle of adding a birthday has one.
AddContexts ==
    \A t \in Tasks :
        /\ pc[t] \in {"addRole", "addList"} =>
              ctx[t].user \in Users /\ ctx[t].guild \in Guilds /\ ctx[t].start \in Starts
        /\ pc[t] = "addList" => ctx[t].role \in Roles
        /\ pc[t] = "clean" => ctx[t].guild \in Guilds

TypeInv == TypeOK /\ AddContexts

\* A task's grants are grants.
LEMMA UpdateGrantTypes ==
    ASSUME TypeOK
    PROVE  /\ OldGrants \in SUBSET Grants /\ NewGrants \in SUBSET Grants
           /\ ~UpdatePanics => NewRows \subseteq ListRows
  <1>1. OldGrants \in SUBSET Grants
    BY DEF TypeOK, OldGrants, OldRows, Grants, ListRows, Birthdays
  <1>2. NewGrants \in SUBSET Grants
    BY DEF TypeOK, NewGrants, NewUsers, Grants, Birthdays
  <1>3. ASSUME ~UpdatePanics, NEW u \in NewUsers
        PROVE  [user |-> u, over |-> OneDayAhead(bday[u].date)] \in ListRows
    BY <1>3 DEF TypeOK, UpdatePanics, NewUsers, Birthdays, ListRows, EndDates
  <1> QED BY <1>1, <1>2, <1>3 DEF NewRows

\* The grants a command asks Discord to take back are grants.
LEMMA CommandGrantTypes ==
    ASSUME TypeOK
    PROVE  /\ \A u \in Users, g \in Guilds :
                 roleOf[g] # None => {<<u, roleOf[g]>>} \in SUBSET Grants
           /\ \A g \in Guilds : roleOf[g] # None => ListedIn(g) \X {roleOf[g]} \in SUBSET Grants
  BY DEF TypeOK, Grants, ListedIn

\* The tables are empty and no task calls when the bot is first started.
LEMMA InitType == Init => TypeInv
  BY TrackerAssumption, ContextType DEF Init, TypeInv, TypeOK, AddContexts, Years

\* Every step keeps the types, one action at a time.
LEMMA StepType == TypeInv /\ [Next]_vars => TypeInv'
  <1> SUFFICES ASSUME TypeInv, [Next]_vars PROVE TypeInv'
    OBVIOUS
  <1> USE DEF TypeInv
  <1>1. ASSUME NEW t \in Tasks, NEW u \in Users, NEW g \in Guilds, NEW start \in Starts,
               NEW privileged \in BOOLEAN, AddBirthday(t, u, g, start, privileged)
        PROVE  TypeInv'
    <2>1. [guild |-> g, date |-> DateOf(start)] \in Birthdays
      BY DEF Birthdays, StartDates
    <2>2. TypeOK'
      BY <1>1, <2>1, ContextType DEF TypeOK, AddBirthday, NoCalls, clock, RowsOf
    <2>3. AddContexts'
      BY <1>1 DEF TypeOK, AddContexts, AddBirthday
    <2> QED BY <2>2, <2>3
  <1>2. ASSUME NEW t \in Tasks, AddQueryRole(t) PROVE TypeInv'
    <2>1. TypeOK'
      BY <1>2, ContextType DEF TypeOK, AddContexts, AddQueryRole, NoCalls, clock, db
    <2>2. AddContexts'
      BY <1>2 DEF TypeOK, AddContexts, AddQueryRole, Contexts
    <2> QED BY <2>1, <2>2
  <1>3. ASSUME NEW t \in Tasks, AddToList(t) PROVE TypeInv'
    <2>1. [user |-> ctx[t].user, over |-> DateOf(ctx[t].start + HoursPerDay)] \in ListRows
      BY <1>3 DEF AddToList, AddContexts, ListRows, EndDates
    <2>2. {<<ctx[t].user, ctx[t].role>>} \in SUBSET Grants
      BY <1>3 DEF AddToList, AddContexts, Grants
    <2>3. PICK additions \in SUBSET Grants : Request(t, {}, additions, "calls")
      BY <1>3, <2>2 DEF AddToList
    <2>4. TypeOK'
      BY <1>3, <2>1, <2>3, RequestType, ContextType DEF TypeOK, AddToList, clock
    <2>5. AddContexts'
      BY <1>3, <2>3 DEF TypeOK, AddContexts, AddToList, Request, Rest
    <2> QED BY <2>4, <2>5
  <1>4. ASSUME NEW t \in Tasks, NEW u \in Users, NEW g \in Guilds, RemoveBirthday(t, u, g)
        PROVE  TypeInv'
    <2>1. PICK removals \in SUBSET Grants : Request(t, removals, {}, "calls")
      BY <1>4, CommandGrantTypes DEF RemoveBirthday
    <2>2. TypeOK'
      BY <1>4, <2>1, RequestType DEF TypeOK, RemoveBirthday, clock
    <2>3. AddContexts'
      BY <1>4, <2>1 DEF TypeOK, AddContexts, RemoveBirthday, Request, Rest
    <2> QED BY <2>2, <2>3
  <1>5. ASSUME NEW t \in Tasks, NEW r \in Roles, SetRole(t, r) PROVE TypeInv'
    <2>1. TypeOK'
      BY <1>5 DEF TypeOK, SetRole, NoCalls, clock
    <2>2. AddContexts'
      BY <1>5 DEF TypeOK, AddContexts, SetRole
    <2> QED BY <2>1, <2>2
  <1>6. ASSUME NEW t \in Tasks, NEW g \in Guilds, RemoveRole(t, g) PROVE TypeInv'
    <2>1. ListedIn(g) \X {roleOf[g]} \in SUBSET Grants
      BY <1>6, CommandGrantTypes DEF RemoveRole
    <2>2. TypeOK'
      BY <1>6, <2>1, RequestType DEF TypeOK, RemoveRole, DeleteRoleRows, clock
    <2>3. AddContexts'
      BY <1>6 DEF TypeOK, AddContexts, RemoveRole, Request, Rest
    <2> QED BY <2>2, <2>3
  <1>7. ASSUME NEW t \in Tasks, NEW g \in Guilds, GetRole(t, g) PROVE TypeInv'
    <2>1. TypeOK'
      BY <1>7, ContextType DEF TypeOK, GetRole, NoCalls, clock, db
    <2>2. AddContexts'
      BY <1>7 DEF TypeOK, AddContexts, GetRole, NoContext
    <2> QED BY <2>1, <2>2
  <1>8. ASSUME NEW t \in Tasks, CleanUp(t) PROVE TypeInv'
    <2>1. TypeOK'
      BY <1>8, ContextType DEF TypeOK, CleanUp, DeleteRoleRows, NoCalls, clock
    <2>2. AddContexts'
      BY <1>8 DEF TypeOK, AddContexts, CleanUp
    <2> QED BY <2>1, <2>2
  <1>9. ASSUME NEW t \in Tasks, Update(t) PROVE TypeInv'
    <2>1. CASE UpdatePanics /\ pc' = [pc EXCEPT ![t] = IF t \in Loops THEN "dead" ELSE "idle"]
                            /\ UNCHANGED userList /\ NoCalls
      BY <1>9, <2>1 DEF TypeOK, AddContexts, Update, NoCalls, clock
    <2>2. ASSUME NEW removals \in SUBSET Grants, NEW additions \in SUBSET Grants,
                 Request(t, removals, additions, "calls"), userList' \subseteq ListRows
          PROVE  TypeInv'
      <3>1. TypeOK'
        BY <1>9, <2>2, RequestType DEF TypeOK, Update, clock
      <3>2. AddContexts'
        BY <1>9, <2>2 DEF TypeOK, AddContexts, Update, Request, Rest
      <3> QED BY <3>1, <3>2
    <2>3. CASE UNCHANGED userList /\ Request(t, {}, {}, "calls")
      <3>1. {} \in SUBSET Grants /\ userList' \subseteq ListRows
        BY <2>3 DEF TypeOK
      <3> QED BY <2>2, <2>3, <3>1
    <2>4. CASE ~UpdatePanics /\ userList' = (userList \ OldRows) \cup NewRows
                             /\ Request(t, OldGrants, NewGrants, "calls")
      BY <2>2, <2>4, UpdateGrantTypes DEF TypeOK
    <2> QED BY <1>9, <2>1, <2>3, <2>4 DEF Update
  <1>10. ASSUME NEW t \in Tasks, Revoke(t) PROVE TypeInv'
    <2>1. PICK removals \in SUBSET Grants, mode \in {"calls", "revoke"} :
             Request(t, removals, add[t], mode) /\ held' \subseteq Grants
      BY <1>10 DEF Revoke, TypeOK
    <2>2. add[t] \in SUBSET Grants
      BY DEF TypeOK
    <2>3. TypeOK'
      <3>1. UNCHANGED <<clock, db, gone, ctx>>
        BY <1>10 DEF Revoke
      <3>2. /\ pc' \in [Tasks -> {"unborn", "asleep", "dead", "idle", "addRole", "addList",
                                 "update", "calls", "revoke", "clean"}]
            /\ rem' \in [Tasks -> SUBSET Grants] /\ add' \in [Tasks -> SUBSET Grants]
        BY <2>1, <2>2, RequestType
      <3> QED BY <2>1, <3>1, <3>2 DEF TypeOK, clock, db
    <2>4. AddContexts'
      BY <1>10, <2>1 DEF TypeOK, AddContexts, Revoke, Request, Rest
    <2> QED BY <2>3, <2>4
  <1>11. ASSUME NEW t \in Tasks, Grant(t) PROVE TypeInv'
    <2>1. PICK additions \in SUBSET Grants :
             Request(t, {}, additions, "calls") /\ held' \subseteq Grants
      BY <1>11 DEF Grant, TypeOK
    <2>2. TypeOK'
      BY <1>11, <2>1, RequestType DEF TypeOK, Grant, clock, db
    <2>3. AddContexts'
      BY <1>11, <2>1 DEF TypeOK, AddContexts, Grant, Request, Rest
    <2> QED BY <2>2, <2>3
  <1>12. CASE Tick
    <2>1. now' \in Hours /\ year' \in Years
      BY <1>12, NextHour DEF Tick, TypeOK, Years
    <2>2. TypeOK'
      BY <1>12, <2>1 DEF TypeOK, Tick, NoCalls, db
    <2>3. AddContexts'
      BY <1>12 DEF TypeOK, AddContexts, Tick
    <2> QED BY <2>2, <2>3
  <1>13. ASSUME NEW t \in Tasks, CacheReady(t) PROVE TypeInv'
    BY <1>13 DEF TypeOK, AddContexts, CacheReady, NoCalls, clock, db
  <1>14. ASSUME NEW r \in Roles, DeleteRole(r) PROVE TypeInv'
    BY <1>14 DEF TypeOK, AddContexts, DeleteRole, NoCalls, clock, db
  <1>15. CASE Restart
    BY <1>15, ContextType DEF TypeOK, AddContexts, Restart, clock, db
  <1>16. CASE UNCHANGED vars
    BY <1>16 DEF TypeOK, AddContexts, vars
  <1> QED
    BY <1>1, <1>2, <1>3, <1>4, <1>5, <1>6, <1>7, <1>8, <1>9, <1>10, <1>11, <1>12, <1>13,
       <1>14, <1>15, <1>16 DEF Next, BeginCommand, Step

\* The two facts make the types an invariant.
LEMMA TypeInvariant == Spec => []TypeInv
  BY InitType, StepType, PTL DEF Spec

\* Every reachable state is well-typed: the tables hold only the dates that
\* birthdays and the updater can put there, calls are about roles of members.
THEOREM TypeCorrect == Spec => []TypeOK
  <1>1. TypeInv => TypeOK
    BY DEF TypeInv
  <1> QED BY <1>1, TypeInvariant, PTL
-----------------------------------------------------------------------------
\* After 2021 no command ever reaches the statement that lists the user.
After2021 == ~In2021 => year = 2023 /\ \A t \in Tasks : pc[t] # "addList"

\* A task that starts is not in the middle of a command.
LEMMA InitAfter2021 == Init => After2021
  BY DEF Init, After2021

\* The test on the date fails once 2021 is over, and 2021 does not come back.
LEMMA StepAfter2021 == TypeInv /\ After2021 /\ [Next]_vars => After2021'
  <1> SUFFICES ASSUME TypeInv, After2021, [Next]_vars, ~In2021
               PROVE  year' = 2023 /\ \A t \in Tasks : pc'[t] # "addList"
    BY DEF After2021
  <1> USE DEF TypeInv, TypeOK, After2021, clock, Request, Rest
  <1>1. ASSUME NEW t \in Tasks, BeginCommand(t)
        PROVE  year' = 2023 /\ \A o \in Tasks : pc'[o] # "addList"
    BY <1>1 DEF BeginCommand, AddBirthday, RemoveBirthday, SetRole, RemoveRole, GetRole
  <1>2. ASSUME NEW t \in Tasks, Step(t)
        PROVE  year' = 2023 /\ \A o \in Tasks : pc'[o] # "addList"
    BY <1>2 DEF Step, AddQueryRole, IsOngoingIn2021, AddToList, CleanUp, Update, Revoke, Grant
  <1>3. CASE Tick
    BY <1>3 DEF Tick
  <1>4. CASE \E t \in Tasks : CacheReady(t)
    BY <1>4 DEF CacheReady
  <1>5. CASE \E r \in Roles : DeleteRole(r)
    BY <1>5 DEF DeleteRole
  <1>6. CASE Restart
    BY <1>6 DEF Restart
  <1>7. CASE UNCHANGED vars
    BY <1>7 DEF vars
  <1> QED
    BY <1>1, <1>2, <1>3, <1>4, <1>5, <1>6, <1>7 DEF Next

\* What TablesAgree says of one row.
RowAgrees(row) ==
    /\ bday[row.user] # None
    /\ roleOf[bday[row.user].guild] # None
    /\ ~OneDayAheadPanics(bday[row.user].date)
    /\ row.over = OneDayAhead(bday[row.user].date)

\* The rows of the users who are not listed in a guild do not depend on its role.
LEMMA DeleteRoleRowsAgree ==
    ASSUME TypeOK, \A row \in userList : RowAgrees(row), NEW g \in Guilds,
           DeleteRoleRows(g), bday' = bday
    PROVE  \A row \in userList' : RowAgrees(row)'
  <1> SUFFICES ASSUME NEW row \in userList' PROVE RowAgrees(row)'
    OBVIOUS
  <1>1. row \in userList /\ row.user \in Users /\ row.user \notin ListedIn(g) /\ RowAgrees(row)
    BY DEF DeleteRoleRows, TypeOK, ListRows
  <1>2. bday[row.user].guild # g /\ bday[row.user] \in Birthdays
    BY <1>1 DEF ListedIn, RowsOf, RowAgrees, TypeOK
  <1>3. roleOf'[bday[row.user].guild] = roleOf[bday[row.user].guild]
    BY <1>2 DEF DeleteRoleRows, TypeOK, Birthdays
  <1> QED BY <1>1, <1>3 DEF RowAgrees

\* Every step keeps the three tables in agreement.
LEMMA StepTablesAgree ==
    TypeInv /\ After2021 /\ TablesAgree /\ [Next]_vars => TablesAgree'
  <1> SUFFICES ASSUME TypeInv, After2021, \A row \in userList : RowAgrees(row),
                      [Next]_vars, ~In2021
               PROVE  \A row \in userList' : RowAgrees(row)'
    BY DEF TablesAgree, RowAgrees
  <1> USE DEF TypeInv
  <1>1. ASSUME NEW t \in Tasks, NEW u \in Users, NEW g \in Guilds, NEW start \in Starts,
               NEW privileged \in BOOLEAN, AddBirthday(t, u, g, start, privileged)
        PROVE  \A row \in userList' : RowAgrees(row)'
    <2> SUFFICES ASSUME NEW row \in userList' PROVE RowAgrees(row)'
      OBVIOUS
    <2>1. row \in userList /\ row.user \in Users /\ row.user # u
      BY <1>1 DEF AddBirthday, RowsOf, TypeOK, ListRows
    <2>2. bday'[row.user] = bday[row.user] /\ roleOf' = roleOf
      BY <1>1, <2>1 DEF AddBirthday, TypeOK
    <2> QED BY <2>1, <2>2 DEF RowAgrees
  <1>2. ASSUME NEW t \in Tasks, NEW u \in Users, NEW g \in Guilds, RemoveBirthday(t, u, g)
        PROVE  \A row \in userList' : RowAgrees(row)'
    <2> SUFFICES ASSUME NEW row \in userList' PROVE RowAgrees(row)'
      OBVIOUS
    <2>1. row \in userList /\ row.user \in Users /\ row.user # u
      BY <1>2 DEF RemoveBirthday, RowsOf, TypeOK, ListRows
    <2>2. bday'[row.user] = bday[row.user] /\ roleOf' = roleOf
      BY <1>2, <2>1 DEF RemoveBirthday, TypeOK
    <2> QED BY <2>1, <2>2 DEF RowAgrees
  <1>3. ASSUME NEW t \in Tasks, NEW r \in Roles, SetRole(t, r)
        PROVE  \A row \in userList' : RowAgrees(row)'
    <2>1. \A g \in Guilds : roleOf[g] # None => roleOf'[g] # None
      BY <1>3, TrackerAssumption DEF SetRole, TypeOK
    <2>2. \A row \in userList : bday[row.user] # None => bday[row.user].guild \in Guilds
      BY DEF TypeOK, ListRows, Birthdays
    <2>3. userList' = userList /\ bday' = bday
      BY <1>3 DEF SetRole
    <2> QED BY <2>1, <2>2, <2>3 DEF RowAgrees
  <1>4. ASSUME NEW t \in Tasks, NEW g \in Guilds, RemoveRole(t, g)
        PROVE  \A row \in userList' : RowAgrees(row)'
    BY <1>4, DeleteRoleRowsAgree DEF RemoveRole
  <1>5. ASSUME NEW t \in Tasks, CleanUp(t)
        PROVE  \A row \in userList' : RowAgrees(row)'
    <2>1. CASE UNCHANGED <<userList, roleOf>>
      BY <1>5, <2>1 DEF CleanUp, RowAgrees
    <2>2. CASE DeleteRoleRows(ctx[t].guild)
      BY <1>5, <2>2, DeleteRoleRowsAgree DEF CleanUp, AddContexts
    <2> QED BY <1>5, <2>1, <2>2 DEF CleanUp
  <1>6. ASSUME NEW t \in Tasks, Update(t)
        PROVE  \A row \in userList' : RowAgrees(row)'
    <2> SUFFICES ASSUME NEW row \in userList' PROVE RowAgrees(row)'
      OBVIOUS
    <2>1. bday' = bday /\ roleOf' = roleOf
      BY <1>6 DEF Update
    <2>2. CASE row \in userList
      BY <2>1, <2>2 DEF RowAgrees
    <2>3. CASE row \in NewRows /\ ~UpdatePanics
      BY <2>1, <2>3 DEF RowAgrees, NewRows, NewUsers, UpdatePanics
    <2> QED BY <1>6, <2>2, <2>3 DEF Update
  <1>7. ASSUME NEW t \in Tasks, AddToList(t)
        PROVE  \A row \in userList' : RowAgrees(row)'
    BY <1>7 DEF AddToList, After2021
  <1>8. CASE UNCHANGED db
    BY <1>8 DEF db, RowAgrees
  <1>9. ASSUME NEW t \in Tasks,
               \/ AddQueryRole(t) \/ Revoke(t) \/ Grant(t) \/ CacheReady(t)
               \/ \E g \in Guilds : GetRole(t, g)
        PROVE  UNCHANGED db
    BY <1>9 DEF AddQueryRole, Revoke, Grant, CacheReady, GetRole
  <1>10. (\E r \in Roles : DeleteRole(r)) \/ Tick \/ Restart \/ UNCHANGED vars => UNCHANGED db
    BY DEF DeleteRole, Tick, Restart, vars, db
  <1> QED
    BY <1>1, <1>2, <1>3, <1>4, <1>5, <1>6, <1>7, <1>8, <1>9, <1>10
       DEF Next, BeginCommand, Step

\* In any year after 2021, whatever the tasks' interleaving, the failures and
\* the restarts: whoever is in bday_user_list has a birthday in a guild with a
\* role, and the row ends the birthday the user has now.
THEOREM TablesAlwaysAgree == Spec => []TablesAgree
  <1>1. Init => After2021 /\ TablesAgree
    BY InitAfter2021 DEF Init, TablesAgree
  <1>2. TypeInv /\ After2021 /\ TablesAgree /\ [Next]_vars => After2021' /\ TablesAgree'
    BY StepAfter2021, StepTablesAgree
  <1> QED BY <1>1, <1>2, TypeInvariant, PTL DEF Spec

-----------------------------------------------------------------------------
(***************************************************************************)
(* The calls that are due, which Discord and the tables agree up to.       *)
(***************************************************************************)
CallsOfCallers ==
    \A t \in Tasks : /\ pc[t] \notin {"calls", "revoke"} => rem[t] = {} /\ add[t] = {}
                     /\ pc[t] = "revoke" => add[t] = {}

NoDeadGrant == \A grant \in held : grant[2] \notin gone

\* A guild's role is one of its roles.
OwnRoles == \A g \in Guilds : roleOf[g] # None => roleOf[g] \in Roles /\ RoleGuild[roleOf[g]] = g

CallsInv == CallsOfCallers /\ NoDeadGrant /\ OwnRoles

\* What is left of a request once it is made.
LEMMA RequestLeaves ==
    ASSUME TypeOK, CallsOfCallers, NEW t \in Tasks, NEW removals \in SUBSET Grants,
           NEW additions \in SUBSET Grants, NEW mode \in {"calls", "revoke"},
           Request(t, removals, additions, mode),
           mode = "revoke" => additions = {}
    PROVE  /\ CallsOfCallers'
           /\ \A o \in Tasks \ {t} : pc'[o] = pc[o] /\ rem'[o] = rem[o] /\ add'[o] = add[o]
           /\ rem'[t] = removals /\ add'[t] = additions
           /\ pc'[t] = IF removals \cup additions = {} THEN Rest(t) ELSE mode
  <1>1. /\ \A o \in Tasks \ {t} : pc'[o] = pc[o] /\ rem'[o] = rem[o] /\ add'[o] = add[o]
        /\ rem'[t] = removals /\ add'[t] = additions
        /\ pc'[t] = IF removals \cup additions = {} THEN Rest(t) ELSE mode
    BY DEF Request, TypeOK
  <1>2. removals \cup additions = {} => removals = {} /\ additions = {}
    OBVIOUS
  <1>3. CallsOfCallers'
    BY <1>1, <1>2 DEF CallsOfCallers, Rest
  <1> QED BY <1>1, <1>3

\* A task that moves between places without calls leaves the calls where they were.
LEMMA MoveLeaves ==
    ASSUME TypeOK, CallsOfCallers, NoCalls, NEW t \in Tasks, NEW place,
           pc' = [pc EXCEPT ![t] = place],
           pc[t] \notin {"calls", "revoke"}, place \notin {"calls", "revoke"}
    PROVE  CallsOfCallers'
  BY DEF TypeOK, CallsOfCallers, NoCalls

\* At the start nobody calls and nobody has a role.
LEMMA InitCalls == Init => CallsInv
  BY DEF Init, CallsInv, CallsOfCallers, NoDeadGrant, OwnRoles

\* The roles of the guilds change only where a role is set or deleted.
LEMMA StepOwnRoles ==
    ASSUME TypeInv, OwnRoles, [Next]_vars
    PROVE  OwnRoles'
  <1>0. TypeOK
    BY DEF TypeInv
  <1>1. CASE roleOf' = roleOf
    BY <1>1 DEF OwnRoles
  <1>2. ASSUME NEW t \in Tasks, NEW r \in Roles, SetRole(t, r) PROVE OwnRoles'
    BY <1>0, <1>2, TrackerAssumption DEF SetRole, TypeOK, OwnRoles
  <1>3. ASSUME NEW g \in Guilds, DeleteRoleRows(g) PROVE OwnRoles'
    BY <1>0, <1>3 DEF DeleteRoleRows, TypeOK, OwnRoles
  <1>4. ASSUME NEW t \in Tasks, NEW g \in Guilds, RemoveRole(t, g) PROVE OwnRoles'
    BY <1>3, <1>4 DEF RemoveRole
  <1>5. ASSUME NEW t \in Tasks, CleanUp(t) PROVE OwnRoles'
    BY <1>1, <1>3, <1>5 DEF CleanUp, TypeInv, AddContexts
  <1>6. ASSUME NEW t \in Tasks, NEW u \in Users, NEW g \in Guilds,
               \/ RemoveBirthday(t, u, g)
               \/ \E start \in Starts, privileged \in BOOLEAN : AddBirthday(t, u, g, start, privileged)
        PROVE  roleOf' = roleOf
    BY <1>6 DEF RemoveBirthday, AddBirthday
  <1>7. ASSUME NEW t \in Tasks,
               \/ \E g \in Guilds : GetRole(t, g)
               \/ AddQueryRole(t) \/ AddToList(t) \/ Update(t) \/ Revoke(t) \/ Grant(t) \/ CacheReady(t)
        PROVE  roleOf' = roleOf
    BY <1>7 DEF GetRole, AddQueryRole, AddToList, Update, Revoke, Grant, CacheReady, db
  <1>8. ASSUME Tick \/ Restart \/ UNCHANGED vars \/ \E r \in Roles : DeleteRole(r) PROVE roleOf' = roleOf
    BY <1>8 DEF Tick, Restart, vars, DeleteRole, db
  <1> QED BY <1>1, <1>2, <1>4, <1>5, <1>6, <1>7, <1>8 DEF Next, BeginCommand, Step

\* What a step of a task does to its calls and to Discord: it moves without any, or
\* requests some, or makes one of them.
Moves(t) ==
    /\ NoCalls /\ held' = held /\ gone' = gone
    /\ pc[t] \notin {"calls", "revoke"}
    /\ \E place \in {"idle", "asleep", "dead", "addRole", "addList", "update", "clean"} :
          pc' = [pc EXCEPT ![t] = place]

Requests(t) ==
    /\ held' = held /\ gone' = gone
    /\ pc[t] \notin {"calls", "revoke"}
    /\ \E removals, additions \in SUBSET Grants, mode \in {"calls", "revoke"} :
          Request(t, removals, additions, mode) /\ (mode = "revoke" => additions = {})

LEMMA StepKinds ==
    ASSUME TypeInv, NEW t \in Tasks, BeginCommand(t) \/ Step(t) \/ CacheReady(t)
    PROVE  Moves(t) \/ Requests(t) \/ Revoke(t) \/ Grant(t)
  <1> USE DEF TypeInv
  <1>1. ASSUME \/ \E u \in Users, g \in Guilds, start \in Starts, privileged \in BOOLEAN :
                     AddBirthday(t, u, g, start, privileged)
               \/ AddQueryRole(t)
               \/ \E r \in Roles : SetRole(t, r)
               \/ \E g \in Guilds : GetRole(t, g)
               \/ CleanUp(t) \/ CacheReady(t)
        PROVE  Moves(t)
    BY <1>1 DEF AddBirthday, AddQueryRole, SetRole, GetRole, CleanUp, CacheReady, Command, Moves
  <1>2. ASSUME AddToList(t) PROVE Requests(t)
    <2>1. {<<ctx[t].user, ctx[t].role>>} \in SUBSET Grants
      BY <1>2 DEF AddToList, AddContexts, Grants
    <2>2. PICK additions \in SUBSET Grants : Request(t, {}, additions, "calls")
      BY <1>2, <2>1 DEF AddToList
    <2> QED BY <1>2, <2>2 DEF AddToList, Requests
  <1>3. ASSUME NEW u \in Users, NEW g \in Guilds, RemoveBirthday(t, u, g) PROVE Requests(t)
    <2>1. PICK removals \in SUBSET Grants : Request(t, removals, {}, "calls")
      BY <1>3, CommandGrantTypes DEF RemoveBirthday
    <2> QED BY <1>3, <2>1 DEF RemoveBirthday, Command, Requests
  <1>4. ASSUME NEW g \in Guilds, RemoveRole(t, g) PROVE Requests(t)
    <2>1. ListedIn(g) \X {roleOf[g]} \in SUBSET Grants
      BY <1>4, CommandGrantTypes DEF RemoveRole
    <2>2. PICK removals \in SUBSET Grants : Request(t, removals, {}, "revoke")
      BY <1>4, <2>1 DEF RemoveRole
    <2> QED BY <1>4, <2>2 DEF RemoveRole, Command, Requests
  <1>5. ASSUME Update(t) PROVE Moves(t) \/ Requests(t)
    <2>0. held' = held /\ gone' = gone /\ pc[t] = "update"
      BY <1>5 DEF Update
    <2>1. CASE NoCalls /\ pc' = [pc EXCEPT ![t] = IF t \in Loops THEN "dead" ELSE "idle"]
      BY <2>0, <2>1 DEF Moves
    <2>2. ASSUME NEW removals \in SUBSET Grants, NEW additions \in SUBSET Grants,
                 Request(t, removals, additions, "calls")
          PROVE  Requests(t)
      BY <2>0, <2>2 DEF Requests
    <2>3. {} \in SUBSET Grants /\ OldGrants \in SUBSET Grants /\ NewGrants \in SUBSET Grants
      BY UpdateGrantTypes
    <2>4. \/ NoCalls /\ pc' = [pc EXCEPT ![t] = IF t \in Loops THEN "dead" ELSE "idle"]
          \/ Request(t, {}, {}, "calls")
          \/ Request(t, OldGrants, NewGrants, "calls")
      BY <1>5 DEF Update
    <2> QED BY <2>1, <2>2, <2>3, <2>4
  <1> QED BY <1>1, <1>2, <1>3, <1>4, <1>5 DEF BeginCommand, Step

\* What is left when a call has been made.
LEMMA RevokeLeaves ==
    ASSUME TypeInv, CallsOfCallers, NEW t \in Tasks, Revoke(t)
    PROVE  \E grant \in rem[t] : \E ok \in CallOutcomes(grant) :
              LET left == IF pc[t] = "revoke" /\ ~ok THEN {} ELSE rem[t] \ {grant} IN
              /\ ok \in BOOLEAN
              /\ held' = IF ok THEN held \ {grant} ELSE held
              /\ CallsOfCallers' /\ gone' = gone
              /\ \A o \in Tasks \ {t} : pc'[o] = pc[o] /\ rem'[o] = rem[o] /\ add'[o] = add[o]
              /\ rem'[t] = left /\ add'[t] = add[t]
              /\ pc'[t] = IF left \cup add[t] = {} THEN Rest(t) ELSE pc[t]
  <1>a. PICK grant \in rem[t] : \E ok \in CallOutcomes(grant) :
           /\ held' = IF ok THEN held \ {grant} ELSE held
           /\ Request(t, IF pc[t] = "revoke" /\ ~ok THEN {} ELSE rem[t] \ {grant}, add[t], pc[t])
    BY DEF Revoke
  <1>1. PICK ok \in CallOutcomes(grant) :
           /\ held' = IF ok THEN held \ {grant} ELSE held
           /\ Request(t, IF pc[t] = "revoke" /\ ~ok THEN {} ELSE rem[t] \ {grant}, add[t], pc[t])
    BY <1>a
  <1> DEFINE left == IF pc[t] = "revoke" /\ ~ok THEN {} ELSE rem[t] \ {grant}
  <1>2. left \in SUBSET Grants /\ add[t] \in SUBSET Grants /\ TypeOK
    BY DEF TypeInv, TypeOK
  <1>3. /\ ok \in BOOLEAN /\ pc[t] \in {"calls", "revoke"} /\ gone' = gone
        /\ pc[t] = "revoke" => add[t] = {}
    BY DEF CallOutcomes, Revoke, CallsOfCallers
  <1>4. Request(t, left, add[t], pc[t])
    BY <1>1
  <1> DEFINE mode == pc[t]
             additions == add[t]
  <1>b. /\ TypeOK /\ left \in SUBSET Grants /\ additions \in SUBSET Grants
        /\ mode \in {"calls", "revoke"} /\ (mode = "revoke" => additions = {})
        /\ Request(t, left, additions, mode)
    BY <1>2, <1>3, <1>4
  <1> HIDE DEF left, mode, additions
  <1>5. /\ CallsOfCallers'
        /\ \A o \in Tasks \ {t} : pc'[o] = pc[o] /\ rem'[o] = rem[o] /\ add'[o] = add[o]
        /\ rem'[t] = left /\ add'[t] = additions
        /\ pc'[t] = IF left \cup additions = {} THEN Rest(t) ELSE mode
    BY <1>b, RequestLeaves
  <1> QED BY <1>1, <1>3, <1>5 DEF left, mode, additions

LEMMA GrantLeaves ==
    ASSUME TypeInv, CallsOfCallers, NEW t \in Tasks, Grant(t)
    PROVE  \E grant \in add[t] : \E ok \in CallOutcomes(grant) :
              /\ ok \in BOOLEAN
              /\ held' = IF ok THEN held \cup {grant} ELSE held
              /\ CallsOfCallers' /\ gone' = gone /\ rem[t] = {}
              /\ \A o \in Tasks \ {t} : pc'[o] = pc[o] /\ rem'[o] = rem[o] /\ add'[o] = add[o]
              /\ rem'[t] = {} /\ add'[t] = add[t] \ {grant}
              /\ pc'[t] = IF add[t] \ {grant} = {} THEN Rest(t) ELSE "calls"
  <1>a. PICK grant \in add[t] : \E ok \in CallOutcomes(grant) :
           /\ held' = IF ok THEN held \cup {grant} ELSE held
           /\ Request(t, {}, add[t] \ {grant}, "calls")
    BY DEF Grant
  <1>1. PICK ok \in CallOutcomes(grant) :
           /\ held' = IF ok THEN held \cup {grant} ELSE held
           /\ Request(t, {}, add[t] \ {grant}, "calls")
    BY <1>a
  <1> DEFINE left == add[t] \ {grant}
  <1>2. left \in SUBSET Grants /\ {} \in SUBSET Grants /\ TypeOK
    BY DEF TypeInv, TypeOK
  <1>3. ok \in BOOLEAN /\ gone' = gone /\ rem[t] = {}
    BY DEF CallOutcomes, Grant
  <1>4. Request(t, {}, left, "calls")
    BY <1>1
  <1> HIDE DEF left
  <1>5. /\ CallsOfCallers'
        /\ \A o \in Tasks \ {t} : pc'[o] = pc[o] /\ rem'[o] = rem[o] /\ add'[o] = add[o]
        /\ rem'[t] = {} /\ add'[t] = left
        /\ pc'[t] = IF {} \cup left = {} THEN Rest(t) ELSE "calls"
    BY <1>2, <1>4, RequestLeaves
  <1> QED BY <1>1, <1>3, <1>5 DEF left

\* Every step leaves calls only with those that make them, and no deleted role in
\* force.
LEMMA StepCalls ==
    ASSUME TypeInv, CallsInv, [Next]_vars
    PROVE  CallsInv'
  <1> USE DEF CallsInv
  <1>0. TypeOK /\ OwnRoles'
    BY StepOwnRoles DEF TypeInv
  <1>1. ASSUME NEW t \in Tasks, BeginCommand(t) \/ Step(t) \/ CacheReady(t)
        PROVE  CallsOfCallers' /\ NoDeadGrant'
    <2>1. CASE Moves(t)
      <3>1. CallsOfCallers'
        BY <1>0, <2>1, MoveLeaves DEF Moves
      <3> QED BY <2>1, <3>1 DEF Moves, NoDeadGrant
    <2>2. CASE Requests(t)
      <3>1. CallsOfCallers'
        BY <1>0, <2>2, RequestLeaves DEF Requests
      <3> QED BY <2>2, <3>1 DEF Requests, NoDeadGrant
    <2>3. CASE Revoke(t)
      <3>1. CallsOfCallers' /\ gone' = gone /\ held' \subseteq held
        BY <2>3, RevokeLeaves
      <3> QED BY <3>1 DEF NoDeadGrant
    <2>4. CASE Grant(t)
      <3>a. PICK grant \in add[t] : \E ok \in CallOutcomes(grant) :
               held' = (IF ok THEN held \cup {grant} ELSE held) /\ CallsOfCallers' /\ gone' = gone
        BY <2>4, GrantLeaves
      <3>1. PICK ok \in CallOutcomes(grant) :
               held' = (IF ok THEN held \cup {grant} ELSE held) /\ CallsOfCallers' /\ gone' = gone
        BY <3>a
      <3>2. ok => grant[2] \notin gone
        BY DEF CallOutcomes
      <3> QED BY <3>1, <3>2 DEF NoDeadGrant
    <2> QED BY <1>1, <2>1, <2>2, <2>3, <2>4, StepKinds
  <1>2. CASE Tick
    <2>1. /\ NoCalls /\ held' = held /\ gone' = gone
          /\ \A t \in Tasks : pc'[t] = IF pc[t] = "asleep" THEN "update" ELSE pc[t]
      BY <1>0, <1>2 DEF Tick, TypeOK
    <2> QED BY <1>0, <2>1 DEF CallsOfCallers, NoCalls, NoDeadGrant
  <1>3. ASSUME NEW r \in Roles, DeleteRole(r) PROVE CallsInv'
    BY <1>0, <1>3 DEF DeleteRole, CallsOfCallers, NoDeadGrant, NoCalls
  <1>4. CASE Restart
    BY <1>0, <1>4 DEF Restart, CallsOfCallers, NoDeadGrant
  <1>5. CASE UNCHANGED vars
    BY <1>0, <1>5 DEF vars, CallsOfCallers, NoDeadGrant
  <1> QED
    BY <1>0, <1>1, <1>2, <1>3, <1>4, <1>5 DEF Next

-----------------------------------------------------------------------------
(***************************************************************************)
(* Which steps make Discord and the tables disagree.                       *)
(***************************************************************************)
\* When a task requests calls they settle, if they are the difference between the
\* old entitlement and the new: the task is then at work, and the only one.
LEMMA RequestSettles ==
    ASSUME TypeOK, CallsOfCallers, ~Overlapping, NEW t \in Tasks,
           pc[t] \notin {"calls", "revoke"},
           NEW removals \in SUBSET Grants, NEW additions \in SUBSET Grants,
           NEW mode \in {"calls", "revoke"}, Request(t, removals, additions, mode),
           mode = "revoke" => additions = {},
           held' = held, gone' = gone, NEW grant \in Grants, Settled(grant),
           grant \in Entitled' <=> \/ grant \in Entitled /\ grant \notin removals
                                   \/ grant \in additions /\ grant[2] \notin gone
    PROVE  Settled(grant)'
  <1>1. /\ \A o \in Tasks \ {t} : pc'[o] = pc[o] /\ rem'[o] = rem[o] /\ add'[o] = add[o]
        /\ rem'[t] = removals /\ add'[t] = additions
        /\ pc'[t] = IF removals \cup additions = {} THEN Rest(t) ELSE mode
    BY RequestLeaves
  <1>2. rem[t] = {} /\ add[t] = {}
    BY DEF CallsOfCallers
  <1>3. CASE removals \cup additions = {}
    <2>1. removals = {} /\ additions = {}
      BY <1>3
    <2>2. (Taken(grant)' <=> Taken(grant)) /\ (Given(grant)' <=> Given(grant))
      BY <1>1, <1>2, <2>1 DEF Taken, Given
    <2>3. grant \in Entitled' <=> grant \in Entitled
      BY <2>1
    <2> QED BY <2>2, <2>3 DEF Settled
  <1>4. CASE removals \cup additions # {}
    <2>1. Busy(t)'
      BY <1>1, <1>4 DEF Busy
    <2>2. \A o \in Tasks \ {t} : ~Busy(o)
      BY <2>1 DEF Overlapping
    <2>3. \A o \in Tasks : rem[o] = {} /\ add[o] = {}
      BY <1>2, <2>2 DEF CallsOfCallers, Busy
    <2>4. /\ ~Taken(grant) /\ ~Given(grant)
          /\ Taken(grant)' <=> grant \in removals
          /\ Given(grant)' <=> grant \in additions
      BY <1>1, <2>3 DEF Taken, Given
    <2> QED BY <2>4 DEF Settled
  <1> QED BY <1>3, <1>4

\* When nothing but places and contexts changes for the calls, they still settle.
LEMMA SameSettles ==
    ASSUME NoCalls, held' = held, gone' = gone, NEW grant \in Grants, Settled(grant),
           grant \in Entitled' <=> grant \in Entitled
    PROVE  Settled(grant)'
  BY DEF Settled, NoCalls, Taken, Given

\* Entitlements depend on the tables and on the roles that exist.
LEMMA SameEntitled ==
    ASSUME UNCHANGED <<bday, userList, roleOf, gone>>
    PROVE  Entitled' = Entitled
  BY DEF Entitled, RowsOf

\* The grants an update asks for are what it does to the entitlements: this is
\* where the rows must agree with the birthdays, since a user with two rows that
\* end at different times would lose the role with the first.
LEMMA UpdateEntitles ==
    ASSUME TypeInv, \A row \in userList : RowAgrees(row), NEW grant \in Grants,
           userList' = (userList \ OldRows) \cup NewRows, UNCHANGED <<bday, roleOf, gone>>
    PROVE  grant \in Entitled' <=> \/ grant \in Entitled /\ grant \notin OldGrants
                                   \/ grant \in NewGrants /\ grant[2] \notin gone
  <1> DEFINE u == grant[1]
             Backed == /\ bday[u] # None
                       /\ roleOf[bday[u].guild] = grant[2]
                       /\ grant[2] \notin gone
  <1>1. /\ grant = <<grant[1], grant[2]>> /\ u \in Users
        /\ grant[2] \in Roles /\ grant[2] # None
    BY TrackerAssumption DEF Grants
  <1>2. /\ grant \in Entitled <=> Backed /\ \E row \in userList : row.user = u
        /\ grant \in Entitled' <=> Backed /\ \E row \in userList' : row.user = u
    BY DEF Entitled, RowsOf
  <1>3. grant \in OldGrants /\ Backed <=> Backed /\ \E row \in OldRows : row.user = u
    <2>1. ASSUME grant \in OldGrants PROVE \E row \in OldRows : row.user = u
      BY <2>1, <1>1 DEF OldGrants
    <2>2. ASSUME Backed, NEW row \in OldRows, row.user = u PROVE grant \in OldGrants
      BY <2>2, <1>1 DEF OldGrants
    <2> QED BY <2>1, <2>2
  <1>4. grant \in NewGrants /\ grant[2] \notin gone <=> Backed /\ u \in NewUsers
    <2>1. ASSUME grant \in NewGrants PROVE u \in NewUsers /\ roleOf[bday[u].guild] = grant[2]
      BY <2>1, <1>1 DEF NewGrants
    <2>2. ASSUME u \in NewUsers, roleOf[bday[u].guild] = grant[2] PROVE grant \in NewGrants
      BY <2>2, <1>1 DEF NewGrants
    <2>3. u \in NewUsers => bday[u] # None
      BY DEF NewUsers
    <2> QED BY <2>1, <2>2, <2>3
  <1>5. (\E row \in NewRows : row.user = u) <=> u \in NewUsers
    <2>1. ASSUME u \in NewUsers PROVE \E row \in NewRows : row.user = u
      <3>1. [user |-> u, over |-> OneDayAhead(bday[u].date)] \in NewRows
        BY <2>1 DEF NewRows
      <3> QED BY <3>1
    <2>2. ASSUME NEW row \in NewRows, row.user = u PROVE u \in NewUsers
      BY <2>2 DEF NewRows
    <2> QED BY <2>1, <2>2
  <1>6. \A x, y \in userList : x.user = u /\ y.user = u => (x \in OldRows <=> y \in OldRows)
    BY DEF RowAgrees, OldRows
  <1>7. OldRows \subseteq userList
    BY DEF OldRows
  <1> HIDE DEF Backed, u
  <1> QED BY <1>2, <1>3, <1>4, <1>5, <1>6, <1>7

\* What the deletion of a guild's role does to the entitlements.
LEMMA DeleteRoleRowsEntitles ==
    ASSUME TypeOK, NEW g \in Guilds, DeleteRoleRows(g), UNCHANGED <<bday, gone>>,
           NEW grant \in Grants
    PROVE  grant \in Entitled' <=> grant \in Entitled /\ grant \notin ListedIn(g) \X {roleOf[g]}
  <1> DEFINE u == grant[1]
  <1>1. u \in Users /\ grant[2] \in Roles /\ grant[2] # None /\ grant = <<grant[1], grant[2]>>
    BY TrackerAssumption DEF Grants
  <1>2. roleOf'[g] = None /\ \A h \in Guilds \ {g} : roleOf'[h] = roleOf[h]
    BY DEF DeleteRoleRows, TypeOK
  <1>3. bday[u] # None => bday[u].guild \in Guilds
    BY <1>1 DEF TypeOK, Birthdays
  <1>4. CASE u \in ListedIn(g)
    <2>1. bday[u] # None /\ bday[u].guild = g
      BY <1>4 DEF ListedIn
    <2>2. grant \notin Entitled'
      BY <1>1, <1>2, <2>1 DEF Entitled
    <2>3. grant \in Entitled => grant \in ListedIn(g) \X {roleOf[g]}
      BY <1>1, <1>4, <2>1 DEF Entitled
    <2> QED BY <2>2, <2>3
  <1>5. CASE u \notin ListedIn(g)
    <2>1. grant \notin ListedIn(g) \X {roleOf[g]}
      BY <1>1, <1>5
    <2>2. RowsOf(u)' = RowsOf(u)
      BY <1>5 DEF RowsOf, DeleteRoleRows
    <2>3. RowsOf(u) # {} /\ bday[u] # None => bday[u].guild \in Guilds \ {g}
      BY <1>1, <1>3, <1>5 DEF ListedIn
    <2> QED BY <1>2, <2>1, <2>2, <2>3 DEF Entitled
  <1> QED BY <1>4, <1>5

\* Why a grant may part: the lapses OnlyLapsesPart names.
Excused(grant) ==
    \/ Overridden(grant[1])
    \/ RemovedElsewhere(grant[1])
    \/ Replaced(RoleGuild[grant[2]])
    \/ WronglyCleaned(grant[2])
    \/ CallLost(grant)
    \/ Overlapping

\* A removal that was called for, or not reached, leaves the grant as settled as it
\* was, unless it is lost.
LEMMA RevokeSettles ==
    ASSUME TypeInv, CallsInv, NEW t \in Tasks, Revoke(t), NEW grant \in Grants,
           Settled(grant), ~Overlapping, ~CallLost(grant)
    PROVE  Settled(grant)'
  <1> USE DEF CallsInv
  <1>0. UNCHANGED <<bday, userList, roleOf, gone>> /\ pc[t] \in {"calls", "revoke"} /\ Busy(t)
    BY DEF Revoke, db, Busy
  <1>1. Entitled' = Entitled
    BY <1>0, SameEntitled
  <1>a. PICK x \in rem[t] : \E ok \in CallOutcomes(x) :
           /\ ok \in BOOLEAN
           /\ held' = IF ok THEN held \ {x} ELSE held
           /\ \A o \in Tasks \ {t} : rem'[o] = rem[o] /\ add'[o] = add[o]
           /\ rem'[t] = IF pc[t] = "revoke" /\ ~ok THEN {} ELSE rem[t] \ {x}
           /\ add'[t] = add[t]
    BY RevokeLeaves
  <1>2. PICK ok \in CallOutcomes(x) :
           /\ ok \in BOOLEAN
           /\ held' = IF ok THEN held \ {x} ELSE held
           /\ \A o \in Tasks \ {t} : rem'[o] = rem[o] /\ add'[o] = add[o]
           /\ rem'[t] = IF pc[t] = "revoke" /\ ~ok THEN {} ELSE rem[t] \ {x}
           /\ add'[t] = add[t]
    BY <1>a
  <1>3. \A o \in Tasks \ {t} : rem[o] = {} /\ add[o] = {}
    BY <1>0 DEF Overlapping, CallsOfCallers, Busy
  <1>4. /\ Taken(grant) <=> grant \in rem[t]
        /\ Taken(grant)' <=> grant \in rem'[t]
        /\ Given(grant) <=> grant \in add[t]
        /\ Given(grant)' <=> grant \in add[t]
    BY <1>2, <1>3 DEF Taken, Given
  <1>5. CASE ok
    BY <1>0, <1>1, <1>2, <1>4, <1>5 DEF Settled
  <1>6. CASE ~ok /\ grant \in rem[t] \ rem'[t] /\ grant \in held
    <2>1. grant[2] \notin gone
      BY <1>6 DEF NoDeadGrant
    <2>2. CASE grant \in add[t]
      BY <1>0, <1>1, <1>2, <1>4, <1>6, <2>1, <2>2 DEF Settled
    <2>3. CASE grant \notin add[t]
      <3>1. grant \in Due(t) \ Due(t)' /\ grant \in rem[t] \cap held'
        BY <1>2, <1>6, <2>3 DEF Due
      <3>2. pc[t] = "calls" => Due(t) \ Due(t)' = {grant}
        BY <1>2, <1>6, <2>3 DEF Due
      <3>3. CallLost(grant)
        BY <1>0, <3>1, <3>2 DEF CallLost
      <3> QED BY <3>3
    <2> QED BY <2>2, <2>3
  <1>7. CASE ~ok /\ ~(grant \in rem[t] \ rem'[t] /\ grant \in held)
    BY <1>0, <1>1, <1>2, <1>4, <1>7 DEF Settled
  <1> QED BY <1>2, <1>5, <1>6, <1>7

\* So does an addition.
LEMMA GrantSettles ==
    ASSUME TypeInv, CallsInv, NEW t \in Tasks, Grant(t), NEW grant \in Grants,
           Settled(grant), ~Overlapping, ~CallLost(grant)
    PROVE  Settled(grant)'
  <1> USE DEF CallsInv
  <1>0. UNCHANGED <<bday, userList, roleOf, gone>> /\ Busy(t)
    BY DEF Grant, db, Busy
  <1>1. Entitled' = Entitled
    BY <1>0, SameEntitled
  <1>a. PICK x \in add[t] : \E ok \in CallOutcomes(x) :
           /\ ok \in BOOLEAN
           /\ held' = IF ok THEN held \cup {x} ELSE held
           /\ \A o \in Tasks \ {t} : rem'[o] = rem[o] /\ add'[o] = add[o]
           /\ rem[t] = {} /\ rem'[t] = {}
           /\ add'[t] = add[t] \ {x}
    BY GrantLeaves
  <1>2. PICK ok \in CallOutcomes(x) :
           /\ ok \in BOOLEAN
           /\ held' = IF ok THEN held \cup {x} ELSE held
           /\ \A o \in Tasks \ {t} : rem'[o] = rem[o] /\ add'[o] = add[o]
           /\ rem[t] = {} /\ rem'[t] = {}
           /\ add'[t] = add[t] \ {x}
    BY <1>a
  <1>3. \A o \in Tasks \ {t} : rem[o] = {} /\ add[o] = {}
    BY <1>0 DEF Overlapping, CallsOfCallers, Busy
  <1>4. /\ ~Taken(grant) /\ ~Taken(grant)'
        /\ Given(grant) <=> grant \in add[t]
        /\ Given(grant)' <=> grant \in add'[t]
    BY <1>2, <1>3 DEF Taken, Given
  <1>5. CASE ok
    <2>1. x[2] \notin gone
      BY <1>5 DEF CallOutcomes
    <2> QED BY <1>0, <1>1, <1>2, <1>4, <1>5, <2>1 DEF Settled
  <1>6. CASE ~ok /\ grant = x /\ grant \notin held
    <2>1. grant \in Due(t) \ Due(t)' /\ grant \in add[t] \ held' /\ Due(t) \ Due(t)' = {grant}
      BY <1>2, <1>6 DEF Due
    <2>2. CallLost(grant)
      BY <2>1 DEF CallLost
    <2> QED BY <2>2
  <1>7. CASE ~ok /\ ~(grant = x /\ grant \notin held)
    BY <1>0, <1>1, <1>2, <1>4, <1>7 DEF Settled
  <1> QED BY <1>2, <1>5, <1>6, <1>7

\* A restart loses every call that is due.
LEMMA RestartLoses ==
    ASSUME TypeInv, CallsInv, Restart, NEW grant \in Grants, Settled(grant), ~CallLost(grant)
    PROVE  Settled(grant)'
  <1>0. UNCHANGED <<bday, userList, roleOf, gone>> /\ held' = held
    BY DEF Restart, db
  <1>1. Entitled' = Entitled
    BY <1>0, SameEntitled
  <1>2. \A t \in Tasks : rem'[t] = {} /\ add'[t] = {}
    BY DEF Restart
  <1>3. ~Taken(grant)' /\ ~Given(grant)'
    BY <1>2 DEF Taken, Given
  <1>4. ASSUME NEW t \in Tasks, grant \in Due(t)
        PROVE  ~(grant \in rem[t] \cap held \/ grant \in add[t] \ held)
    <2>1. grant \in Due(t) \ Due(t)'
      BY <1>2, <1>4 DEF Due
    <2> QED BY <1>0, <2>1 DEF CallLost
  <1>5. ASSUME Taken(grant) PROVE grant \notin held
    <2>1. PICK t \in Tasks : grant \in rem[t]
      BY <1>5 DEF Taken
    <2> QED BY <1>4, <2>1 DEF Due
  <1>6. ASSUME Given(grant) PROVE grant \in held
    <2>1. PICK t \in Tasks : grant \in add[t]
      BY <1>6 DEF Given
    <2> QED BY <1>4, <2>1 DEF Due
  <1>7. grant \in held => grant[2] \notin gone
    BY DEF CallsInv, NoDeadGrant
  <1>8. Settled(grant)' <=> (grant \in Entitled <=> grant \in held)
    BY <1>0, <1>1, <1>3 DEF Settled
  <1> QED BY <1>5, <1>6, <1>7, <1>8 DEF Settled

\* Every step leaves a grant settled that was, but for the lapses.
LEMMA StepParts ==
    ASSUME ~In2021, TypeInv, CallsInv, After2021, TablesAgree, [Next]_vars,
           NEW grant \in Grants, Settled(grant), ~Excused(grant)
    PROVE  Settled(grant)'
  <1> USE DEF TypeInv, CallsInv
  <1>0. /\ \A row \in userList : RowAgrees(row)
        /\ ~Overlapping /\ ~CallLost(grant)
        /\ grant[1] \in Users /\ grant[2] \in Roles /\ grant[2] # None
        /\ grant = <<grant[1], grant[2]>>
    BY TrackerAssumption DEF TablesAgree, RowAgrees, Excused, Grants
  <1>1. ASSUME NEW t \in Tasks, NEW u \in Users, NEW g \in Guilds, NEW start \in Starts,
               NEW privileged \in BOOLEAN, AddBirthday(t, u, g, start, privileged)
        PROVE  Settled(grant)'
    <2>1. /\ userList' = userList \ RowsOf(u) /\ UNCHANGED <<roleOf, held, gone>> /\ NoCalls
          /\ \A v \in Users \ {u} : bday'[v] = bday[v]
          /\ t \in Slots
      BY <1>1 DEF AddBirthday, Command, TypeOK
    <2>2. CASE RowsOf(u) = {}
      <3>1. userList' = userList
        BY <2>1, <2>2
      <3>2. grant \in Entitled' <=> grant \in Entitled
        BY <1>0, <2>1, <2>2, <3>1 DEF Entitled, RowsOf
      <3> QED BY <2>1, <3>2, SameSettles
    <2>3. CASE RowsOf(u) # {}
      <3>1. bday[u] # None
        BY <1>0, <2>3 DEF RowsOf, RowAgrees
      <3>2. privileged = TRUE
        BY <1>1, <3>1 DEF AddBirthday
      <3>3. Overridden(u)
        BY <1>1, <2>1, <2>3, <3>2 DEF Overridden
      <3>4. grant[1] # u
        BY <3>3 DEF Excused
      <3>5. RowsOf(grant[1])' = RowsOf(grant[1])
        BY <2>1, <3>4 DEF RowsOf
      <3>6. grant \in Entitled' <=> grant \in Entitled
        BY <1>0, <2>1, <3>4, <3>5 DEF Entitled
      <3> QED BY <2>1, <3>6, SameSettles
    <2> QED BY <2>2, <2>3
  <1>2. ASSUME NEW t \in Tasks, AddToList(t) PROVE Settled(grant)'
    BY <1>2 DEF AddToList, After2021
  <1>3. ASSUME NEW t \in Tasks, NEW u \in Users, NEW g \in Guilds, RemoveBirthday(t, u, g)
        PROVE  Settled(grant)'
    <2> DEFINE removals == IF RowsOf(u) # {} /\ roleOf[g] # None THEN {<<u, roleOf[g]>>} ELSE {}
    <2>1. /\ pc[t] \notin {"calls", "revoke"} /\ t \in Slots
          /\ Request(t, removals, {}, "calls")
          /\ removals \in SUBSET Grants
          /\ held' = held /\ gone' = gone /\ roleOf' = roleOf
          /\ bday[u] # None
          /\ userList' = userList \ RowsOf(u)
      BY <1>3, CommandGrantTypes DEF RemoveBirthday, Command
    <2>2. bday'[u] = None /\ \A v \in Users \ {u} : bday'[v] = bday[v]
      BY <1>3 DEF RemoveBirthday, TypeOK
    <2>3. grant \in Entitled' <=> grant \in Entitled /\ grant \notin removals
      <3>1. CASE grant[1] = u
        <4>1. grant \notin Entitled'
          BY <2>2, <3>1 DEF Entitled
        <4>2. g = bday[u].guild
          BY <1>3, <2>1, <3>1 DEF Excused, RemovedElsewhere
        <4>3. grant \in Entitled => grant \in removals
          BY <1>0, <3>1, <4>2 DEF Entitled
        <4> QED BY <4>1, <4>3
      <3>2. CASE grant[1] # u
        <4>1. RowsOf(grant[1])' = RowsOf(grant[1]) /\ grant \notin removals
          BY <1>0, <2>1, <3>2 DEF RowsOf
        <4> QED BY <1>0, <2>1, <2>2, <3>2, <4>1 DEF Entitled
      <3> QED BY <3>1, <3>2
    <2> HIDE DEF removals
    <2>4. {} \in SUBSET Grants
      OBVIOUS
    <2>5. grant \in Entitled' <=> \/ grant \in Entitled /\ grant \notin removals
                                  \/ grant \in {} /\ grant[2] \notin gone
      BY <2>3
    <2> QED BY <1>0, <2>1, <2>4, <2>5, RequestSettles
  <1>4. ASSUME NEW t \in Tasks, NEW r \in Roles, SetRole(t, r) PROVE Settled(grant)'
    <2> DEFINE G == RoleGuild[r]
    <2>1. /\ UNCHANGED <<bday, userList, held, gone>> /\ NoCalls /\ t \in Slots
          /\ G \in Guilds /\ roleOf'[G] = r
          /\ \A g \in Guilds \ {G} : roleOf'[g] = roleOf[g]
      BY <1>4, TrackerAssumption DEF SetRole, Command, TypeOK
    <2>2. roleOf[G] \in {None, r} \/ RoleGuild[grant[2]] # G
      BY <1>4, <2>1 DEF Excused, Replaced
    <2>3. RoleGuild[grant[2]] # G => roleOf[G] # grant[2] /\ r # grant[2]
      BY <1>0, <2>1 DEF OwnRoles
    <2>4. RowsOf(grant[1]) # {} => roleOf[bday[grant[1]].guild] # None
      BY <1>0 DEF RowAgrees, RowsOf
    <2>5. bday[grant[1]] # None => bday[grant[1]].guild \in Guilds
      BY <1>0 DEF TypeOK, Birthdays
    <2> HIDE DEF G
    <2>6. grant \in Entitled' <=> grant \in Entitled
      BY <1>0, <2>1, <2>2, <2>3, <2>4, <2>5 DEF Entitled, RowsOf
    <2> QED BY <2>1, <2>6, SameSettles
  <1>5. ASSUME NEW t \in Tasks, NEW g \in Guilds, RemoveRole(t, g) PROVE Settled(grant)'
    <2> DEFINE removals == ListedIn(g) \X {roleOf[g]}
    <2>1. /\ pc[t] \notin {"calls", "revoke"}
          /\ Request(t, removals, {}, "revoke")
          /\ removals \in SUBSET Grants
          /\ DeleteRoleRows(g) /\ UNCHANGED <<bday, held, gone>>
      BY <1>5, CommandGrantTypes DEF RemoveRole, Command
    <2>2. grant \in Entitled' <=> grant \in Entitled /\ grant \notin removals
      BY <2>1, DeleteRoleRowsEntitles
    <2> HIDE DEF removals
    <2>4. {} \in SUBSET Grants
      OBVIOUS
    <2>5. grant \in Entitled' <=> \/ grant \in Entitled /\ grant \notin removals
                                  \/ grant \in {} /\ grant[2] \notin gone
      BY <2>2
    <2> QED BY <1>0, <2>1, <2>4, <2>5, RequestSettles
  <1>6. ASSUME NEW t \in Tasks, CleanUp(t) PROVE Settled(grant)'
    <2> DEFINE g == ctx[t].guild
    <2>1. UNCHANGED <<bday, held, gone>> /\ NoCalls /\ g \in Guilds
      BY <1>6 DEF CleanUp, AddContexts
    <2>2. CASE UNCHANGED <<userList, roleOf>>
      BY <2>1, <2>2, SameEntitled, SameSettles
    <2>3. CASE DeleteRoleRows(g)
      <3>1. grant \in Entitled' <=> grant \in Entitled /\ grant \notin ListedIn(g) \X {roleOf[g]}
        BY <2>1, <2>3, DeleteRoleRowsEntitles
      <3>2. grant[2] = roleOf[g] => grant[2] \in gone
        BY <1>6 DEF Excused, WronglyCleaned
      <3>3. grant \in ListedIn(g) \X {roleOf[g]} => grant \notin Entitled
        BY <3>2 DEF Entitled
      <3> QED BY <2>1, <3>1, <3>3, SameSettles
    <2> QED BY <1>6, <2>2, <2>3 DEF CleanUp
  <1>7. ASSUME NEW t \in Tasks, Update(t) PROVE Settled(grant)'
    <2>1. /\ pc[t] \notin {"calls", "revoke"}
          /\ UNCHANGED <<bday, roleOf, held, gone>>
      BY <1>7 DEF Update
    <2>2. CASE UNCHANGED userList /\ NoCalls
      BY <2>1, <2>2, SameEntitled, SameSettles
    <2>3. CASE UNCHANGED userList /\ Request(t, {}, {}, "calls")
      <3>1. Entitled' = Entitled
        BY <2>1, <2>3, SameEntitled
      <3>2. grant \in Entitled' <=> \/ grant \in Entitled /\ grant \notin {}
                                    \/ grant \in {} /\ grant[2] \notin gone
        BY <3>1
      <3> QED BY <1>0, <2>1, <2>3, <3>2, RequestSettles
    <2>4. CASE /\ userList' = (userList \ OldRows) \cup NewRows
               /\ Request(t, OldGrants, NewGrants, "calls")
      <3>1. grant \in Entitled' <=> \/ grant \in Entitled /\ grant \notin OldGrants
                                    \/ grant \in NewGrants /\ grant[2] \notin gone
        BY <1>0, <2>1, <2>4, UpdateEntitles
      <3> QED BY <1>0, <2>1, <2>4, <3>1, RequestSettles, UpdateGrantTypes
    <2> QED BY <1>7, <2>2, <2>3, <2>4 DEF Update
  <1>8. ASSUME NEW t \in Tasks, Revoke(t) PROVE Settled(grant)'
    BY <1>0, <1>8, RevokeSettles
  <1>9. ASSUME NEW t \in Tasks, Grant(t) PROVE Settled(grant)'
    BY <1>0, <1>9, GrantSettles
  <1>10. ASSUME NEW r \in Roles, DeleteRole(r) PROVE Settled(grant)'
    <2>1. /\ UNCHANGED <<bday, userList, roleOf>> /\ NoCalls
          /\ gone' = gone \cup {r}
          /\ held' = {x \in held : x[2] # r}
      BY <1>10 DEF DeleteRole, db
    <2>2. grant \in Entitled' <=> grant \in Entitled /\ grant[2] # r
      BY <2>1 DEF Entitled, RowsOf
    <2>3. (Taken(grant)' <=> Taken(grant)) /\ (Given(grant)' <=> Given(grant))
      BY <2>1 DEF Taken, Given, NoCalls
    <2> QED BY <2>1, <2>2, <2>3 DEF Settled
  <1>11. ASSUME UNCHANGED <<bday, userList, roleOf, held, gone>>, NoCalls PROVE Settled(grant)'
    BY <1>11, SameEntitled, SameSettles
  <1>12. ASSUME NEW t \in Tasks,
                AddQueryRole(t) \/ CacheReady(t) \/ \E g \in Guilds : GetRole(t, g)
         PROVE  Settled(grant)'
    BY <1>12, <1>11 DEF AddQueryRole, CacheReady, GetRole, db
  <1>13. CASE Tick
    BY <1>13, <1>11 DEF Tick, db
  <1>14. CASE UNCHANGED vars
    BY <1>14, <1>11 DEF vars, NoCalls
  <1>15. CASE Restart
    BY <1>0, <1>15, RestartLoses
  <1> QED
    BY <1>1, <1>2, <1>3, <1>4, <1>5, <1>6, <1>7, <1>8, <1>9, <1>10, <1>12, <1>13, <1>14, <1>15
       DEF Next, BeginCommand, Step

\* What is an invariant under all lapses.
TrackerInv == TypeInv /\ After2021 /\ TablesAgree /\ CallsInv

LEMMA TrackerInvariant == Spec => []TrackerInv
  <1>1. Init => TrackerInv
    BY InitType, InitAfter2021, InitCalls DEF Init, TablesAgree, TrackerInv
  <1>2. TrackerInv /\ [Next]_vars => TrackerInv'
    BY StepType, StepAfter2021, StepTablesAgree, StepCalls DEF TrackerInv
  <1> QED BY <1>1, <1>2, PTL DEF Spec

\* After 2021, under every lapse and for any number of users, guilds, roles, loops
\* and commands and any calendar: Discord comes to disagree with the tables about a
\* role of a user only by a lapse that concerns this role, where two tasks are not
\* at work at once.
THEOREM DiscordPartsOnlyByLapses ==
    ASSUME ~In2021
    PROVE  Spec => OnlyLapsesPart
  <1>1. TrackerInv /\ [Next]_vars =>
           [\A grant \in Grants :
              Settled(grant) /\ ~Settled(grant)' =>
                 \/ Overridden(grant[1])
                 \/ RemovedElsewhere(grant[1])
                 \/ Replaced(RoleGuild[grant[2]])
                 \/ WronglyCleaned(grant[2])
                 \/ CallLost(grant)
                 \/ Overlapping]_vars
    BY StepParts DEF TrackerInv, Excused
  <1> QED BY <1>1, TrackerInvariant, PTL DEF Spec, OnlyLapsesPart


-----------------------------------------------------------------------------
(***************************************************************************)
(* One task at a time.                                                     *)
(***************************************************************************)
\* After 2021 no statement is refused, no task starts while another is at work, none
\* outlasts its hour, and the process goes on.  Calls may fail, and birthdays be
\* overridden or removed elsewhere and roles replaced.
Serial == Lapses \cap {"busy", "overlap", "slow", "restart"} = {} /\ ~In2021

Places ==
    /\ \A l \in Loops : pc[l] \in {"unborn", "asleep", "dead", "update", "calls"}
    /\ \A s \in Slots : pc[s] \notin {"unborn", "asleep"}

OneAtATime == \A s, t \in Tasks : Busy(s) /\ Busy(t) => s = t

SerialInv == Places /\ OneAtATime

\* Nobody else is at work when a task is, or may begin.
LEMMA Alone ==
    ASSUME Serial, OneAtATime, NEW t \in Tasks, Busy(t) \/ MayBegin(t)
    PROVE  \A o \in Tasks \ {t} : ~Busy(o)
  BY DEF Serial, OneAtATime, MayBegin

\* Where a step takes its task.
TaskGoes(t) ==
    /\ \A o \in Tasks \ {t} : pc'[o] = pc[o]
    /\ t \in Loops => /\ Update(t) \/ Revoke(t) \/ Grant(t) \/ CacheReady(t)
                      /\ pc'[t] \in {"asleep", "dead", "calls"}
    /\ t \in Slots => pc'[t] \notin {"unborn", "asleep"}
    /\ Busy(t) \/ MayBegin(t) \/ pc'[t] = "asleep"

LEMMA TaskPlaces ==
    ASSUME TypeOK, Places, NEW t \in Tasks, BeginCommand(t) \/ Step(t) \/ CacheReady(t)
    PROVE  TaskGoes(t)
  <1>0. /\ t \in Loops => t \notin Slots /\ pc[t] \in {"unborn", "asleep", "dead", "update", "calls"}
        /\ t \in Slots => t \notin Loops /\ pc[t] \notin {"unborn", "asleep"}
        /\ t \in Loops \/ t \in Slots
    BY TrackerAssumption DEF Places, Tasks
  <1>1. ASSUME NEW removals, NEW additions, NEW mode \in {"calls", "revoke"},
               Request(t, removals, additions, mode)
        PROVE  /\ \A o \in Tasks \ {t} : pc'[o] = pc[o]
               /\ pc'[t] \in {Rest(t), mode}
    BY <1>1 DEF Request, TypeOK
  <1>2. t \in Loops => Rest(t) = "asleep"
    BY DEF Rest
  <1>3. t \in Slots => Rest(t) = "idle"
    BY <1>0 DEF Rest
  <1>4. ASSUME BeginCommand(t) PROVE TaskGoes(t)
    <2>1. t \in Slots /\ MayBegin(t)
      BY <1>4 DEF BeginCommand, Command, AddBirthday, RemoveBirthday, SetRole, RemoveRole, GetRole
    <2>2. \/ \E place \in {"addRole", "update", "clean"} : pc' = [pc EXCEPT ![t] = place]
          \/ \E removals, additions : \E mode \in {"calls", "revoke"} :
                Request(t, removals, additions, mode)
      BY <1>4 DEF BeginCommand, AddBirthday, RemoveBirthday, SetRole, RemoveRole, GetRole
    <2>3. (\A o \in Tasks \ {t} : pc'[o] = pc[o]) /\ pc'[t] \notin {"unborn", "asleep"}
      <3>1. CASE \E place \in {"addRole", "update", "clean"} : pc' = [pc EXCEPT ![t] = place]
        BY <3>1 DEF TypeOK
      <3>2. CASE \E removals, additions : \E mode \in {"calls", "revoke"} :
                    Request(t, removals, additions, mode)
        BY <1>1, <1>3, <2>1, <3>2
      <3> QED BY <2>2, <3>1, <3>2
    <2> QED BY <1>0, <2>1, <2>3 DEF TaskGoes
  <1>5. ASSUME AddQueryRole(t) \/ CleanUp(t) PROVE TaskGoes(t)
    <2>1. Busy(t) /\ t \in Slots
      BY <1>0, <1>5 DEF AddQueryRole, CleanUp, Busy
    <2>2. (\A o \in Tasks \ {t} : pc'[o] = pc[o]) /\ pc'[t] \in {"addList", "idle"}
      BY <1>5 DEF AddQueryRole, CleanUp, TypeOK
    <2> QED BY <1>0, <2>1, <2>2 DEF TaskGoes
  <1>6. ASSUME AddToList(t) PROVE TaskGoes(t)
    <2>1. Busy(t) /\ t \in Slots
      BY <1>0, <1>6 DEF AddToList, Busy
    <2>2. \E removals, additions : Request(t, removals, additions, "calls")
      BY <1>6 DEF AddToList
    <2> QED BY <1>0, <1>1, <1>3, <2>1, <2>2 DEF TaskGoes
  <1>7. ASSUME Update(t) PROVE TaskGoes(t)
    <2>1. (t \in Slots => Busy(t)) /\ (t \in Loops => MayBegin(t))
      BY <1>0, <1>7 DEF Update, Busy
    <2>2. \/ pc' = [pc EXCEPT ![t] = IF t \in Loops THEN "dead" ELSE "idle"]
          \/ \E removals, additions : Request(t, removals, additions, "calls")
      BY <1>7 DEF Update
    <2>3. /\ \A o \in Tasks \ {t} : pc'[o] = pc[o]
          /\ t \in Loops => pc'[t] \in {"asleep", "dead", "calls"}
          /\ t \in Slots => pc'[t] \notin {"unborn", "asleep"}
      <3>1. CASE pc' = [pc EXCEPT ![t] = IF t \in Loops THEN "dead" ELSE "idle"]
        BY <1>0, <3>1 DEF TypeOK
      <3>2. CASE \E removals, additions : Request(t, removals, additions, "calls")
        BY <1>0, <1>1, <1>2, <1>3, <3>2
      <3> QED BY <2>2, <3>1, <3>2
    <2> QED BY <1>0, <1>7, <2>1, <2>3 DEF TaskGoes
  <1>8. ASSUME Revoke(t) \/ Grant(t) PROVE TaskGoes(t)
    <2>1. Busy(t) /\ (t \in Loops => pc[t] = "calls") /\ pc[t] \in {"calls", "revoke"}
      BY <1>0, <1>8 DEF Revoke, Grant, Busy
    <2>2. \E removals, additions : \E mode \in {"calls", "revoke"} :
             Request(t, removals, additions, mode) /\ mode = pc[t]
      BY <1>8, <2>1 DEF Revoke, Grant
    <2>3. (\A o \in Tasks \ {t} : pc'[o] = pc[o]) /\ pc'[t] \in {Rest(t), pc[t]}
      BY <1>1, <2>2
    <2> QED BY <1>0, <1>2, <1>3, <1>8, <2>1, <2>3 DEF TaskGoes
  <1>9. ASSUME CacheReady(t) PROVE TaskGoes(t)
    <2>1. (\A o \in Tasks \ {t} : pc'[o] = pc[o]) /\ pc'[t] = "asleep" /\ pc[t] = "unborn"
      BY <1>9 DEF CacheReady, TypeOK
    <2> QED BY <1>0, <1>9, <2>1 DEF TaskGoes
  <1> QED BY <1>4, <1>5, <1>6, <1>7, <1>8, <1>9 DEF Step

LEMMA InitSerial == Init => SerialInv
  BY TrackerAssumption DEF Init, SerialInv, Places, OneAtATime, Busy, Tasks

\* A task starts only when no other is at work, and stays alone.
LEMMA StepSerial ==
    ASSUME Serial, TypeOK, SerialInv, [Next]_vars
    PROVE  SerialInv'
  <1> USE DEF SerialInv
  <1>0. /\ \A l \in Loops : l \in Tasks /\ l \notin Slots
        /\ \A s \in Slots : s \in Tasks /\ s \notin Loops
    BY TrackerAssumption DEF Tasks
  <1>1. ASSUME NEW t \in Tasks, BeginCommand(t) \/ Step(t) \/ CacheReady(t) PROVE SerialInv'
    <2>1. TaskGoes(t)
      BY <1>1, TaskPlaces
    <2>2. Places'
      BY <1>0, <2>1 DEF TaskGoes, Places
    <2>3. \A o \in Tasks \ {t} : Busy(o)' <=> Busy(o)
      BY <2>1 DEF TaskGoes, Busy
    <2>4. Busy(t)' => \A o \in Tasks \ {t} : ~Busy(o)
      <3>1. pc'[t] = "asleep" => ~Busy(t)'
        BY DEF Busy
      <3> QED BY <2>1, <3>1, Alone DEF TaskGoes
    <2>5. OneAtATime'
      BY <2>3, <2>4 DEF OneAtATime
    <2> QED BY <2>2, <2>5
  <1>2. CASE Tick
    <2>1. \A t \in Tasks : /\ pc[t] # "update" /\ ~Busy(t)
                           /\ pc'[t] = IF pc[t] = "asleep" THEN "update" ELSE pc[t]
      BY <1>2 DEF Tick, Serial, TypeOK
    <2>2. \A t \in Tasks : ~Busy(t)'
      BY <1>0, <2>1 DEF Busy, Places
    <2>3. Places'
      BY <1>0, <2>1 DEF Places
    <2> QED BY <2>2, <2>3 DEF OneAtATime
  <1>3. CASE (\E r \in Roles : DeleteRole(r)) \/ UNCHANGED vars
    <2>1. pc' = pc
      BY <1>3 DEF DeleteRole, vars
    <2> QED BY <2>1 DEF Places, OneAtATime, Busy
  <1>4. ~Restart
    BY DEF Restart, Serial
  <1> QED BY <1>1, <1>2, <1>3, <1>4 DEF Next

LEMMA SerialInvariant == Serial => (Spec => []SerialInv)
  <1> SUFFICES ASSUME Serial PROVE Spec => []SerialInv
    OBVIOUS
  <1>1. TrackerInv /\ SerialInv /\ [Next]_vars => SerialInv'
    BY StepSerial DEF TrackerInv, TypeInv
  <1> QED BY <1>1, InitSerial, TrackerInvariant, PTL DEF Spec

\* The places a loop goes to.
LoopGoes(l) ==
    /\ pc[l] \in {"update", "calls"} => \/ Update(l) \/ Revoke(l) \/ Grant(l)
                                        \/ pc'[l] = pc[l]
    /\ pc[l] = "asleep" => pc'[l] \in {"asleep", "update"}
    /\ pc'[l] = "calls" => pc[l] \in {"update", "calls"}

LEMMA LoopPlaces ==
    ASSUME Serial, TypeOK, SerialInv, NEW l \in Loops, [Next]_vars
    PROVE  LoopGoes(l)
  <1> USE DEF LoopGoes, SerialInv
  <1>0. l \in Tasks /\ l \notin Slots
    BY TrackerAssumption DEF Tasks
  <1>1. ASSUME NEW t \in Tasks, BeginCommand(t) \/ Step(t) \/ CacheReady(t) PROVE LoopGoes(l)
    <2>1. TaskGoes(t)
      BY <1>1, TaskPlaces
    <2>2. CASE t # l
      BY <1>0, <2>1, <2>2 DEF TaskGoes
    <2>3. CASE t = l
      <3>1. /\ Update(l) => pc[l] = "update"
            /\ Revoke(l) \/ Grant(l) => pc[l] \in {"calls", "revoke"}
            /\ CacheReady(l) => pc[l] = "unborn" /\ pc'[l] = "asleep"
        BY <1>0 DEF Update, Revoke, Grant, CacheReady, TypeOK
      <3>2. pc[l] # "revoke"
        BY DEF Places
      <3> QED BY <2>1, <2>3, <3>1, <3>2 DEF TaskGoes
    <2> QED BY <2>2, <2>3
  <1>2. CASE Tick
    BY <1>0, <1>2 DEF Tick, Serial, Busy
  <1>3. CASE (\E r \in Roles : DeleteRole(r)) \/ UNCHANGED vars
    BY <1>3 DEF DeleteRole, vars
  <1>4. ~Restart
    BY DEF Restart, Serial
  <1> QED BY <1>1, <1>2, <1>3, <1>4 DEF Next

\* While a loop makes its calls, the tables stay as they are, and so does the hour.
LEMMA WhileCalling ==
    ASSUME Serial, SerialInv, NEW l \in Loops, pc[l] = "calls", [Next]_vars
    PROVE  /\ UNCHANGED <<bday, userList, roleOf, now>>
           /\ \/ Revoke(l) \/ Grant(l)
              \/ UNCHANGED <<held, gone, rem, add>>
              \/ \E r \in Roles : DeleteRole(r)
  <1> USE DEF SerialInv
  <1>0. l \in Tasks /\ l \notin Slots /\ Busy(l)
    BY TrackerAssumption DEF Tasks, Busy
  <1>1. \A t \in Tasks \ {l} : ~Busy(t) /\ ~MayBegin(t)
    BY <1>0, Alone DEF Serial, MayBegin
  <1>2. ASSUME NEW t \in Tasks, BeginCommand(t) PROVE FALSE
    <2>1. t \in Slots /\ MayBegin(t)
      BY <1>2 DEF BeginCommand, Command, AddBirthday, RemoveBirthday, SetRole, RemoveRole, GetRole
    <2> QED BY <1>0, <1>1, <2>1
  <1>3. ASSUME NEW t \in Tasks, Step(t)
        PROVE  UNCHANGED <<bday, userList, roleOf, now>> /\ (Revoke(l) \/ Grant(l))
    <2>1. CASE t = l
      BY <2>1, <1>3 DEF Step, AddQueryRole, AddToList, CleanUp, Update, Revoke, Grant, db, clock
    <2>2. CASE t # l
      BY <2>2, <1>1, <1>3 DEF Step, AddQueryRole, AddToList, CleanUp, Update, Revoke, Grant, Busy
    <2> QED BY <2>1, <2>2
  <1>4. ~Tick
    BY <1>0 DEF Tick, Serial
  <1>5. ASSUME (\E t \in Tasks : CacheReady(t)) \/ UNCHANGED vars
        PROVE  UNCHANGED <<bday, userList, roleOf, now, held, gone, rem, add>>
    BY <1>5 DEF CacheReady, vars, db, clock, NoCalls
  <1>6. ASSUME NEW r \in Roles, DeleteRole(r) PROVE UNCHANGED <<bday, userList, roleOf, now>>
    BY <1>6 DEF DeleteRole, db, clock
  <1>7. ~Restart
    BY DEF Restart, Serial
  <1> QED BY <1>2, <1>3, <1>4, <1>5, <1>6, <1>7 DEF Next

-----------------------------------------------------------------------------
(***************************************************************************)
(* Everybody gets the role.                                                *)
(***************************************************************************)
GrantFor(u) == <<u, roleOf[bday[u].guild]>>

\* A loop that makes its calls gives everybody the hour is to list the role, or has
\* given it, and takes no more away.
WillGive(l, u) ==
    GrantFor(u)[2] \notin gone =>
        \/ GrantFor(u) \in add[l]
        \/ GrantFor(u) \in held /\ rem[l] = {}

GivingInv == \A l \in Loops : pc[l] = "calls" => \A u \in NewUsers : WillGive(l, u)

\* An update that has calls to make is going to give all of them, and one that has
\* none has nobody to give the role to.
LEMMA UpdateGives ==
    ASSUME Serial, TypeOK, NEW l \in Loops, Update(l), pc'[l] # "dead"
    PROVE  /\ UNCHANGED <<bday, roleOf, gone, now>>
           /\ pc'[l] = "calls" => \A u \in NewUsers : GrantFor(u) \in add'[l]
           /\ pc'[l] = "asleep" => NewUsers = {}
  <1>0. l \in Tasks
    BY DEF Tasks
  <1>1. UNCHANGED <<bday, roleOf, gone, now>> /\ Request(l, OldGrants, NewGrants, "calls")
    BY <1>0 DEF Update, clock, Serial, TypeOK
  <1>2. \A u \in NewUsers : GrantFor(u) \in NewGrants
    BY DEF NewGrants, GrantFor
  <1>3. add'[l] = NewGrants /\ (pc'[l] = "asleep" => NewGrants = {})
    BY <1>0, <1>1 DEF Request, TypeOK
  <1> QED BY <1>1, <1>2, <1>3

\* Calls for roles that exist succeed, so that the last one leaves everybody with the
\* role, and none takes a role away once the first is given.
LEMMA CallGives ==
    ASSUME "http" \notin Lapses, TypeInv, CallsOfCallers, NEW l \in Loops, pc[l] = "calls",
           Revoke(l) \/ Grant(l), NEW u, WillGive(l, u)
    PROVE  /\ WillGive(l, u)'
           /\ pc'[l] = "asleep" /\ GrantFor(u)[2] \notin gone => GrantFor(u) \in held'
  <1> DEFINE grant == GrantFor(u)
  <1>0. l \in Tasks /\ Rest(l) = "asleep"
    BY DEF Tasks, Rest
  <1>1. grant' = grant /\ gone' = gone
    BY DEF Revoke, Grant, db, GrantFor
  <1>2. \A x : x[2] \notin gone => CallOutcomes(x) = {TRUE}
    BY DEF CallOutcomes
  <1> HIDE DEF grant
  <1>3. CASE Revoke(l)
    <2>1. PICK x \in rem[l] : \E ok \in CallOutcomes(x) :
             /\ held' = IF ok THEN held \ {x} ELSE held
             /\ rem'[l] = rem[l] \ {x} /\ add'[l] = add[l]
             /\ pc'[l] = IF (rem[l] \ {x}) \cup add[l] = {} THEN "asleep" ELSE "calls"
      BY <1>0, <1>3, RevokeLeaves
    <2>2. grant[2] \notin gone => grant \in add[l]
      BY <2>1 DEF WillGive, grant
    <2>3. add'[l] = add[l] /\ (pc'[l] = "asleep" => add[l] = {})
      BY <2>1
    <2> QED BY <1>1, <2>2, <2>3 DEF WillGive, grant
  <1>4. CASE Grant(l)
    <2>1. PICK x \in add[l] : \E ok \in CallOutcomes(x) :
             /\ held' = IF ok THEN held \cup {x} ELSE held
             /\ rem'[l] = {} /\ add'[l] = add[l] \ {x}
             /\ pc'[l] = IF add[l] \ {x} = {} THEN "asleep" ELSE "calls"
      BY <1>0, <1>4, GrantLeaves
    <2>2. rem'[l] = {} /\ held \subseteq held' /\ add'[l] = add[l] \ {x}
          /\ (pc'[l] = "asleep" => add[l] \ {x} = {})
      BY <2>1
    <2>3. x[2] \notin gone => x \in held'
      <3>1. ASSUME x[2] \notin gone PROVE x \in held'
        <4>1. CallOutcomes(x) = {TRUE}
          BY <1>2, <3>1
        <4>2. held' = IF TRUE THEN held \cup {x} ELSE held
          BY <2>1, <4>1, Zenon
        <4> QED BY <4>2
      <3> QED BY <3>1
    <2>4. grant[2] \notin gone => grant \in add[l] \/ grant \in held
      BY DEF WillGive, grant
    <2>5. grant[2] \notin gone => grant \in add'[l] \/ grant \in held'
      BY <2>2, <2>3, <2>4
    <2> QED BY <1>1, <2>2, <2>3, <2>4, <2>5 DEF WillGive, grant
  <1> QED BY <1>3, <1>4

LEMMA StepGiving ==
    ASSUME Serial, "http" \notin Lapses, TrackerInv, SerialInv, GivingInv, [Next]_vars
    PROVE  GivingInv'
  <1> SUFFICES ASSUME NEW l \in Loops, pc'[l] = "calls", NEW u \in NewUsers' PROVE WillGive(l, u)'
    BY DEF GivingInv
  <1>0. l \in Tasks /\ TypeInv /\ TypeOK /\ CallsOfCallers
    BY DEF Tasks, TrackerInv, TypeInv, CallsInv
  <1>1. LoopGoes(l)
    BY <1>0, LoopPlaces
  <1>2. CASE pc[l] = "calls"
    <2>1. UNCHANGED <<bday, roleOf, now>>
      BY <1>2, WhileCalling
    <2>2. u \in NewUsers /\ WillGive(l, u)
      BY <1>2, <2>1 DEF GivingInv, NewUsers
    <2>3. CASE Revoke(l) \/ Grant(l)
      BY <1>0, <1>2, <2>2, <2>3, CallGives
    <2>4. CASE UNCHANGED <<held, gone, rem, add>>
      BY <2>1, <2>2, <2>4 DEF WillGive, GrantFor
    <2>5. ASSUME NEW r \in Roles, DeleteRole(r) PROVE WillGive(l, u)'
      <3>1. /\ gone' = gone \cup {r} /\ held' = {x \in held : x[2] # r}
            /\ rem' = rem /\ add' = add
        BY <2>5 DEF DeleteRole, NoCalls
      <3>2. GrantFor(u)' = GrantFor(u)
        BY <2>1 DEF GrantFor
      <3> QED BY <2>2, <3>1, <3>2 DEF WillGive
    <2> QED BY <1>2, <2>3, <2>4, <2>5, WhileCalling
  <1>3. CASE pc[l] = "update"
    <2>1. Update(l)
      BY <1>1, <1>3 DEF LoopGoes, Revoke, Grant
    <2>2. UNCHANGED <<bday, roleOf, gone, now>> /\ \A v \in NewUsers : GrantFor(v) \in add'[l]
      BY <1>0, <2>1, UpdateGives
    <2> QED BY <2>2 DEF NewUsers, WillGive, GrantFor
  <1> QED BY <1>1, <1>2, <1>3 DEF LoopGoes

\* Birthdays are of dates of the calendar.
LEMMA BirthdayDates ==
    ASSUME TypeOK, NEW u \in Users, bday[u] # None
    PROVE  \E start \in Starts : \E x \in Hours :
              bday[u].date = DateOf(start) /\ x = start % YearHours /\ DateOf(start) = DateOf(x)
  <1>1. PICK start \in Starts : bday[u].date = DateOf(start)
    BY DEF TypeOK, Birthdays, StartDates
  <1>2. start \in Int
    BY TrackerAssumption
  <1>3. start % YearHours \in Hours /\ DateOf(start) = DateOf(start % YearHours)
    BY <1>2, DateInYear
  <1> QED BY <1>1, <1>3

\* After 2021, when no call fails and no task runs into another, an hour that has begun
\* an update ends it with the role given to everybody whose birthday is going on in a
\* guild with a role, whichever birthdays were overridden or removed and roles replaced.
THEOREM UpdatesGiveRoles ==
    ASSUME Serial, "http" \notin Lapses
    PROVE  Spec => UpdateGivesRoles
  <1>1. Init => GivingInv
    BY TrackerAssumption DEF Init, GivingInv, Tasks
  <1>2. TrackerInv /\ SerialInv /\ GivingInv /\ [Next]_vars => GivingInv'
    BY StepGiving
  <1>3. ASSUME TrackerInv, SerialInv, GivingInv, [Next]_vars, NEW l \in Loops,
               pc[l] \in {"update", "calls"}, pc'[l] = "asleep",
               NEW u \in Users, bday[u] # None, roleOf[bday[u].guild] \in Roles \ gone,
               IsOngoing(bday[u].date, now), now # EmptyWindowHour
        PROVE  <<u, roleOf[bday[u].guild]>> \in held'
    <2>0. TypeInv /\ TypeOK /\ CallsOfCallers /\ l \in Tasks
      BY <1>3 DEF TrackerInv, TypeInv, CallsInv, Tasks
    <2>1. Update(l) \/ Revoke(l) \/ Grant(l)
      BY <1>3, <2>0, LoopPlaces DEF LoopGoes
    <2>2. u \in NewUsers
      <3>1. PICK x \in Hours : bday[u].date = DateOf(x)
        BY <1>3, <2>0, BirthdayDates
      <3>2. IsNew(bday[u].date, now)
        BY <1>3, <2>0, <3>1, WindowIs DEF TypeOK
      <3> QED BY <1>3, <3>2, TrackerAssumption DEF NewUsers
    <2>3. ~Update(l)
      BY <1>3, <2>0, <2>2, UpdateGives
    <2>4. pc[l] = "calls"
      BY <1>3, <2>1, <2>3 DEF Revoke, Grant
    <2>5. WillGive(l, u)
      BY <1>3, <2>2, <2>4 DEF GivingInv
    <2>6. GrantFor(u)[2] \notin gone => GrantFor(u) \in held'
      BY <1>3, <2>0, <2>1, <2>3, <2>4, <2>5, CallGives
    <2> QED BY <1>3, <2>6 DEF GrantFor
  <1>4. TrackerInv /\ SerialInv /\ GivingInv /\ [Next]_vars =>
           [\A l \in Loops :
              pc[l] \in {"update", "calls"} /\ pc'[l] = "asleep" =>
                \A u \in Users :
                    /\ bday[u] # None
                    /\ roleOf[bday[u].guild] \in Roles \ gone
                    /\ IsOngoing(bday[u].date, now)
                    /\ now # EmptyWindowHour
                    => <<u, roleOf[bday[u].guild]>> \in held']_vars
    BY <1>3
  <1>5. Spec => []SerialInv
    BY SerialInvariant
  <1> QED BY <1>1, <1>2, <1>4, <1>5, TrackerInvariant, PTL DEF Spec, UpdateGivesRoles

\* Which birthdays the updater treats well: one_day_ahead gives the day after and
\* does not panic, and the year ends more than a day later.
EndDatesAreRight ==
    /\ MonthToDays[Len(MonthToDays)] > 1
    /\ \A start \in Starts :
          /\ ~OneDayAheadPanics(DateOf(start))
          /\ OneDayAhead(DateOf(start)) = DateOf(start + HoursPerDay)

\* Their ends come before the last hour of the year.
LEMMA EndsAre ==
    ASSUME EndDatesAreRight, TypeOK, NEW u \in Users, bday[u] # None
    PROVE  \E x \in Hours :
              /\ bday[u].date = DateOf(x) /\ x + HoursPerDay < YearHours - 1
              /\ ~OneDayAheadPanics(bday[u].date)
              /\ OneDayAhead(bday[u].date) = DateOf(x + HoursPerDay)
  <1> DEFINE n == Len(MonthToDays)
             H == HoursPerDay
             Y == YearHours
  <1>1. PICK start \in Starts, x \in Hours :
           bday[u].date = DateOf(start) /\ x = start % Y /\ DateOf(start) = DateOf(x)
    BY BirthdayDates
  <1>2. H \in Nat \ {0} /\ Y \in Nat \ {0} /\ x \in Nat /\ x < Y /\ start \in Int
    BY YearIs, TrackerAssumption
  <1> DEFINE d == x \div H
             m == DateOf(x).month
  <1>3. /\ m \in Months /\ d \in Nat /\ d < DaysBefore[m + 1]
        /\ x = H * d + DateOf(x).hour /\ DateOf(x).hour \in 0..(H - 1)
    BY DateIs
  <1>4. n \in Nat /\ Months = 1..n /\ n \in 1..n /\ n \in 1..(n + 1)
    BY DaysBeforeIs
  <1> HIDE DEF d, m
  <1>5. m < n
    <2>1. m + 1 \in Months
      BY <1>1 DEF EndDatesAreRight, OneDayAheadPanics, m
    <2> QED BY <1>3, <1>4, <2>1
  <1>6. /\ DaysBefore[m + 1] <= DaysBefore[n]
        /\ DaysBefore[n + 1] = DaysBefore[n] + MonthToDays[n]
        /\ DaysBefore[n] \in Nat /\ DaysBefore[m + 1] \in Nat /\ MonthToDays[n] \in Nat
    <2>1. m + 1 \in 1..(n + 1)
      BY <1>3, <1>4
    <2> QED BY <1>3, <1>4, <1>5, <2>1, DaysGrow, DaysBeforeIs
  <1>7. MonthToDays[n] > 1
    BY DEF EndDatesAreRight
  <1>8. d + 2 < DaysBefore[n + 1]
    BY <1>3, <1>6, <1>7
  <1>9. x + H < Y - 1
    <2> DEFINE last == DaysBefore[n + 1]
    <2>1. Y = H * last /\ last \in Nat
      BY <1>2, <1>6 DEF YearHours
    <2> HIDE DEF last, Y, H, n
    <2>2. H * (d + 2) + H <= H * last /\ H * (d + 2) \in Int
      BY <1>2, <1>3, <1>8, <2>1, ProductGrows DEF last
    <2>3. H * (d + 2) = H * d + 2 * H /\ H * d \in Int
      BY <1>2, <1>3
    <2> QED BY <1>2, <1>3, <2>1, <2>2, <2>3
  <1>10. DateOf(start + H) = DateOf(x + H)
    <2>1. start \div Y \in Int /\ start = Y * (start \div Y) + (start % Y)
      BY <1>2, RemainderIs, Zenon
    <2> DEFINE q == start \div Y
    <2>2. start + H = Y * q + (x + H) /\ q \in Int
      BY <1>1, <1>2, <2>1
    <2> HIDE DEF q, Y, H
    <2>3. (Y * q + (x + H)) % Y = (x + H) % Y
      <3>1. x + H \in Int
        BY <1>2
      <3> QED BY <1>2, <2>2, <3>1, WholeYears, Zenon
    <2>4. start + H \in Int /\ x + H \in Int
      BY <1>2
    <2> QED BY <2>2, <2>3, <2>4, DateInYear DEF Y
  <1> QED BY <1>1, <1>9, <1>10 DEF EndDatesAreRight

\* Whether a birthday was going on in the hour before.
WasOngoing(date) == IsOngoing(date, (now - 1) % YearHours)

Waiting == \E l \in Loops : pc[l] = "update"

\* Every row is of a birthday that is going on or, until an update has begun, was;
\* and some loop lives to begin it.
RowIsCurrent(row) ==
    \/ IsOngoing(bday[row.user].date, now)
    \/ Waiting /\ WasOngoing(bday[row.user].date)

OnTimeInv ==
    /\ \A row \in userList : RowIsCurrent(row)
    /\ \E l \in Loops : pc[l] \in {"asleep", "update", "calls"}

\* An hour is the one before the next.
LEMMA HourBefore ==
    ASSUME NEW h \in Hours
    PROVE  (((h + 1) % YearHours) - 1) % YearHours = h
  <1>1. YearHours \in Nat \ {0} /\ h \in Nat /\ h < YearHours
    BY YearIs
  <1>2. CASE h = YearHours - 1
    <2>1. h + 1 \in Int /\ YearHours <= h + 1 /\ h + 1 < 2 * YearHours /\ (h + 1) - YearHours = 0
      BY <1>1, <1>2
    <2>2. (h + 1) % YearHours = 0
      BY <2>1, AroundTheYear, Zenon
    <2>3. 0 - 1 \in Int /\ -YearHours <= 0 - 1 /\ 0 - 1 < 0 /\ (0 - 1) + YearHours = h
      BY <1>1, <1>2
    <2>4. (0 - 1) % YearHours = h
      BY <2>3, AroundTheYear, Zenon
    <2> QED BY <2>2, <2>4
  <1>3. CASE h # YearHours - 1
    <2>1. h + 1 \in Int /\ 0 <= h + 1 /\ h + 1 < YearHours
      BY <1>1, <1>3
    <2>2. (h + 1) % YearHours = h + 1
      BY <2>1, AroundTheYear, Zenon
    <2>3. (h + 1) - 1 = h /\ h \in Int /\ 0 <= h
      BY <1>1
    <2>4. h % YearHours = h
      BY <1>1, <2>3, AroundTheYear, Zenon
    <2> QED BY <2>2, <2>3, <2>4
  <1> QED BY <1>2, <1>3

\* A row that an update leaves is of a birthday that is going on.
LEMMA RowsLeft ==
    ASSUME NEW hour \in Hours, NEW x \in Hours, x + HoursPerDay < YearHours - 1,
           ~IsOver(DateOf(x + HoursPerDay), hour),
           IsOngoing(DateOf(x), hour) \/ IsOngoing(DateOf(x), (hour - 1) % YearHours)
    PROVE  IsOngoing(DateOf(x), hour)
  <1> DEFINE Y == YearHours
             H == HoursPerDay
             before == (hour - 1) % Y
  <1>1. /\ H \in Nat \ {0} /\ Y \in Nat \ {0} /\ 2 * H <= Y
        /\ hour \in Nat /\ hour < Y /\ x \in Nat /\ x < Y
    BY YearIs
  <1>2. x + H \in Hours
    BY <1>1 DEF Hours
  <1>3. hour = Y - 1 \/ hour < x + H
    BY <1>1, <1>2, OverIs
  <1>4. before = (IF hour = 0 THEN Y - 1 ELSE hour - 1) /\ before \in Hours
    <2>1. hour - 1 \in Int
      BY <1>1
    <2>2. CASE hour = 0
      <3>1. -Y <= hour - 1 /\ hour - 1 < 0 /\ (hour - 1) + Y = Y - 1
        BY <1>1, <2>2
      <3>2. before = Y - 1
        BY <2>1, <3>1, AroundTheYear, Zenon
      <3> QED BY <2>1, <2>2, <3>2, DateInYear
    <2>3. CASE hour # 0
      <3>1. 0 <= hour - 1 /\ hour - 1 < Y
        BY <1>1, <2>3
      <3>2. before = hour - 1
        BY <2>1, <3>1, AroundTheYear, Zenon
      <3> QED BY <2>1, <2>3, <3>2, DateInYear
    <2> QED BY <2>2, <2>3
  <1>5. IsOngoing(DateOf(x), hour) <=> (IF x <= hour THEN hour - x ELSE hour - x + Y) < H
    BY OngoingIs
  <1> HIDE DEF before
  <1>6. IsOngoing(DateOf(x), before) <=> (IF x <= before THEN before - x ELSE before - x + Y) < H
    BY <1>4, OngoingIs
  <1>7. IsOngoing(DateOf(x), hour) \/ IsOngoing(DateOf(x), before)
    BY DEF before
  <1> HIDE DEF Y, H
  <1>8. before \in Int /\ x + H < Y - 1
    BY <1>1, <1>4 DEF Y, H
  <1>9. CASE IsOngoing(DateOf(x), before)
    <2>1. (IF x <= before THEN before - x ELSE before - x + Y) < H
      BY <1>6, <1>9
    <2>2. (IF x <= hour THEN hour - x ELSE hour - x + Y) < H
      BY <1>1, <1>3, <1>4, <1>8, <2>1
    <2> QED BY <1>5, <2>2
  <1> QED BY <1>7, <1>9

\* After an update, all rows are of birthdays that are going on.
LEMMA UpdateIsOnTime ==
    ASSUME Serial, EndDatesAreRight, TrackerInv, OnTimeInv, NEW t \in Tasks, Update(t)
    PROVE  /\ \A row \in userList' : IsOngoing(bday'[row.user].date, now')
           /\ t \in Loops => pc'[t] \in {"asleep", "calls"}
  <1>0. TypeOK /\ now \in Hours /\ \A row \in userList : RowAgrees(row) /\ row.user \in Users
    BY DEF TrackerInv, TypeInv, TypeOK, TablesAgree, RowAgrees, ListRows, Serial
  <1>1. ~UpdatePanics
    <2> SUFFICES ASSUME NEW u \in NewUsers PROVE ~OneDayAheadPanics(bday[u].date)
      BY DEF UpdatePanics
    <2>1. u \in Users /\ bday[u] # None
      BY DEF NewUsers
    <2> QED BY <1>0, <2>1, EndsAre
  <1>2. /\ userList' = (userList \ OldRows) \cup NewRows
        /\ Request(t, OldGrants, NewGrants, "calls")
        /\ bday' = bday /\ now' = now
    BY <1>1 DEF Update, Serial, clock
  <1>3. ASSUME NEW row \in userList, row \notin OldRows
        PROVE  IsOngoing(bday[row.user].date, now)
    <2>1. bday[row.user] # None /\ row.over = OneDayAhead(bday[row.user].date) /\ row.user \in Users
      BY <1>0 DEF RowAgrees
    <2>2. PICK x \in Hours : /\ bday[row.user].date = DateOf(x) /\ x + HoursPerDay < YearHours - 1
                             /\ OneDayAhead(bday[row.user].date) = DateOf(x + HoursPerDay)
      BY <1>0, <2>1, EndsAre
    <2>3. ~IsOver(DateOf(x + HoursPerDay), now)
      BY <1>3, <2>1, <2>2 DEF OldRows
    <2>4. \/ IsOngoing(DateOf(x), now) \/ IsOngoing(DateOf(x), (now - 1) % YearHours)
      BY <2>2 DEF OnTimeInv, RowIsCurrent, WasOngoing
    <2>5. IsOngoing(DateOf(x), now)
      BY <1>0, <2>2, <2>3, <2>4, RowsLeft, Zenon
    <2> QED BY <2>2, <2>5
  <1>4. ASSUME NEW row \in NewRows PROVE IsOngoing(bday[row.user].date, now)
    <2>1. PICK u \in NewUsers : row = [user |-> u, over |-> OneDayAhead(bday[u].date)]
      BY DEF NewRows
    <2>2. u \in Users /\ bday[u] # None /\ IsNew(bday[u].date, now)
      BY DEF NewUsers
    <2>3. PICK x \in Hours : bday[u].date = DateOf(x)
      BY <1>0, <2>2, EndsAre
    <2> QED BY <1>0, <2>1, <2>2, <2>3, WindowIs
  <1>5. t \in Loops => pc'[t] \in {"asleep", "calls"}
    BY <1>0, <1>2 DEF Request, Rest, TypeOK
  <1> QED BY <1>2, <1>3, <1>4, <1>5

\* Rows that stay as they are, in the same hour, stay current if nobody begins an
\* update.
LEMMA RowsStay ==
    ASSUME \A row \in userList : RowIsCurrent(row), now' = now,
           \A row \in userList' : row \in userList /\ bday'[row.user] = bday[row.user],
           \A l \in Loops : pc[l] = "update" => pc'[l] = "update"
    PROVE  \A row \in userList' : RowIsCurrent(row)'
  BY DEF RowIsCurrent, WasOngoing, Waiting

LEMMA StepOnTime ==
    ASSUME Serial, EndDatesAreRight, TrackerInv, SerialInv, OnTimeInv, [Next]_vars
    PROVE  OnTimeInv'
  <1> DEFINE Living == \E l \in Loops : pc[l] \in {"asleep", "update", "calls"}
             Current == \A row \in userList : RowIsCurrent(row)
  <1>0. /\ TypeOK /\ After2021 /\ Living /\ Current
        /\ \A l \in Loops : l \in Tasks /\ l \notin Slots
        /\ \A row \in userList : row.user \in Users
    BY TrackerAssumption DEF TrackerInv, TypeInv, TypeOK, ListRows, OnTimeInv, Tasks
  <1> SUFFICES Living' /\ Current'
    BY DEF OnTimeInv
  <1>1. Living'
    <2>1. PICK l \in Loops : pc[l] \in {"asleep", "update", "calls"}
      BY <1>0
    <2>2. LoopGoes(l) /\ TypeOK /\ l \in Tasks
      BY <1>0, LoopPlaces
    <2>3. CASE Update(l)
      BY <2>2, <2>3, UpdateIsOnTime
    <2>4. CASE pc[l] = "calls" /\ (Revoke(l) \/ Grant(l))
      <3>1. pc'[l] \in {"calls", "asleep"}
        BY <2>2, <2>4 DEF Revoke, Grant, Request, Rest, TypeOK
      <3> QED BY <3>1
    <2> QED BY <2>1, <2>2, <2>3, <2>4 DEF LoopGoes, Revoke, Grant
  <1>3. Current'
    <2>1. ASSUME now' = now, \A row \in userList' : row \in userList /\ bday'[row.user] = bday[row.user],
                 \A l \in Loops : pc[l] = "update" => pc'[l] = "update"
          PROVE  Current'
      BY <1>0, <2>1, RowsStay
    <2>2. ASSUME NEW t \in Tasks, NEW u \in Users, NEW g \in Guilds,
                 \/ RemoveBirthday(t, u, g)
                 \/ \E start \in Starts, privileged \in BOOLEAN : AddBirthday(t, u, g, start, privileged)
          PROVE  Current'
      <3>1. /\ now' = now /\ userList' = userList \ RowsOf(u) /\ t \in Slots
            /\ \A v \in Users \ {u} : bday'[v] = bday[v]
        BY <1>0, <2>2 DEF RemoveBirthday, AddBirthday, Command, clock, TypeOK
      <3>2. \A l \in Loops : pc'[l] = pc[l]
        BY <1>0, <2>2, <3>1 DEF RemoveBirthday, AddBirthday, Request, TypeOK
      <3>3. \A row \in userList' : row \in userList /\ row.user \in Users \ {u}
        BY <1>0, <3>1 DEF RowsOf
      <3> HIDE DEF Current
      <3> QED BY <2>1, <3>1, <3>2, <3>3
    <2>3. ASSUME NEW t \in Tasks,
                 \/ \E r \in Roles : SetRole(t, r)
                 \/ \E g \in Guilds : RemoveRole(t, g) \/ GetRole(t, g)
          PROVE  Current'
      <3>1. now' = now /\ userList' \subseteq userList /\ bday' = bday /\ t \in Slots
        BY <2>3 DEF SetRole, RemoveRole, DeleteRoleRows, GetRole, Command, db, clock
      <3>2. \A l \in Loops : pc'[l] = pc[l]
        BY <1>0, <2>3, <3>1 DEF SetRole, RemoveRole, GetRole, Request, TypeOK
      <3> HIDE DEF Current
      <3> QED BY <2>1, <3>1, <3>2
    <2>4. ASSUME NEW t \in Tasks, AddQueryRole(t) \/ CleanUp(t) \/ Revoke(t) \/ Grant(t) \/ CacheReady(t)
          PROVE  Current'
      <3>1. now' = now /\ userList' \subseteq userList /\ bday' = bday /\ pc[t] # "update"
        BY <2>4 DEF AddQueryRole, CleanUp, DeleteRoleRows, Revoke, Grant, CacheReady, db, clock
      <3>2. \A o \in Tasks \ {t} : pc'[o] = pc[o]
        BY <1>0, <2>4 DEF AddQueryRole, CleanUp, Revoke, Grant, CacheReady, Request, TypeOK
      <3> HIDE DEF Current
      <3> QED BY <1>0, <2>1, <3>1, <3>2
    <2>5. ASSUME NEW t \in Tasks, AddToList(t) PROVE Current'
      BY <1>0, <2>5 DEF AddToList, After2021, Serial
    <2>6. ASSUME NEW t \in Tasks, Update(t) PROVE Current'
      BY <2>6, UpdateIsOnTime DEF RowIsCurrent
    <2>7. CASE Tick
      <3>1. /\ now' = (now + 1) % YearHours /\ userList' = userList /\ bday' = bday
            /\ \A t \in Tasks : /\ pc[t] # "update" /\ ~Busy(t)
                                /\ pc[t] = "asleep" => pc'[t] = "update"
        BY <1>0, <2>7 DEF Tick, Serial, db, TypeOK
      <3>2. (now' - 1) % YearHours = now
        BY <1>0, <3>1, HourBefore DEF TypeOK
      <3>3. Waiting' /\ ~Waiting
        BY <1>0, <3>1 DEF Waiting, Busy
      <3>4. \A row \in userList : IsOngoing(bday[row.user].date, now)
        BY <1>0, <3>3 DEF RowIsCurrent
      <3> QED BY <3>1, <3>2, <3>3, <3>4 DEF RowIsCurrent, WasOngoing
    <2>8. CASE (\E r \in Roles : DeleteRole(r)) \/ UNCHANGED vars
      BY <2>1, <2>8 DEF DeleteRole, vars, db, clock
    <2>9. ~Restart
      BY DEF Restart, Serial
    <2> HIDE DEF Current
    <2> QED BY <2>2, <2>3, <2>4, <2>5, <2>6, <2>7, <2>8, <2>9 DEF Next, BeginCommand, Step
  <1> QED BY <1>1, <1>3

\* After 2021, when no task runs into another, and with birthdays whose end dates are
\* right, the list is kept to the birthdays that are going on, whatever calls fail and
\* whichever birthdays are overridden or removed and roles replaced.
THEOREM RowsEndWithBirthdays ==
    ASSUME Serial, EndDatesAreRight
    PROVE  Spec => []RowsOnlyOnBirthday
  <1>1. Init => OnTimeInv
    <2> SUFFICES ASSUME Init PROVE OnTimeInv
      OBVIOUS
    <2>1. \E l \in Loops : pc[l] = "asleep"
      BY DEF Init, Tasks
    <2> QED BY <2>1 DEF Init, OnTimeInv
  <1>2. TrackerInv /\ SerialInv /\ OnTimeInv /\ [Next]_vars => OnTimeInv'
    BY StepOnTime
  <1>3. TrackerInv /\ OnTimeInv => RowsOnlyOnBirthday
    <2> SUFFICES ASSUME TrackerInv, OnTimeInv, \A t \in Tasks : ~Busy(t) /\ pc[t] # "update",
                        NEW row \in userList
                 PROVE  /\ bday[row.user] # None
                        /\ roleOf[bday[row.user].guild] # None
                        /\ IsOngoing(bday[row.user].date, now)
      BY DEF RowsOnlyOnBirthday
    <2>1. bday[row.user] # None /\ roleOf[bday[row.user].guild] # None
      BY DEF TrackerInv, TablesAgree, Serial
    <2>2. ~Waiting
      BY DEF Waiting, Tasks
    <2>3. IsOngoing(bday[row.user].date, now)
      BY <2>2 DEF OnTimeInv, RowIsCurrent
    <2> QED BY <2>1, <2>3
  <1>4. Spec => []SerialInv
    BY SerialInvariant
  <1> QED BY <1>1, <1>2, <1>3, <1>4, TrackerInvariant, PTL DEF Spec

-----------------------------------------------------------------------------
(***************************************************************************)
(* The queries of every hour.                                              *)
(***************************************************************************)
LEMMA NearbyDates ==
    ASSUME now \in Hours, NEW date \in StartsNearby
    PROVE  \E x \in Hours : date = DateOf(x) /\ InstantOf(date) = x
  <1>1. PICK k \in (-Near)..Near : date = DateOf(now + k)
    BY DEF StartsNearby
  <1>2. Near \in Int /\ now \in Int
    BY YearIs DEF Near
  <1>3. now + k \in Int
    BY <1>1, <1>2
  <1> QED BY <1>1, <1>3, DateInYear, DateIs

\* The clock stays in the year.
InYear == now \in Hours

LEMMA YearInvariant == Spec => []InYear
  <1>1. TypeOK => InYear
    BY DEF TypeOK, InYear
  <1> QED BY <1>1, TypeCorrect, PTL

\* For months and days of any length: add_new_bdays selects a birthday exactly in
\* the hours in which it is going on, but for the one hour of the empty window.
THEOREM WindowIsAlwaysTheBirthday == Spec => []WindowIsTheBirthday
  <1>1. InYear => WindowIsTheBirthday
    <2> SUFFICES ASSUME now \in Hours, now # EmptyWindowHour, NEW date \in StartsNearby
                 PROVE  IsNew(date, now) <=> IsOngoing(date, now)
      BY DEF WindowIsTheBirthday, InYear
    <2>1. PICK x \in Hours : date = DateOf(x)
      BY NearbyDates
    <2> QED BY <2>1, WindowIs
  <1> QED BY <1>1, YearInvariant, PTL

\* For months and days of any length: an end date that is a day after its birthday
\* makes the row old exactly from the end on, away from the ends of the year.
THEOREM EndDateAlwaysEndsIt == Spec => []EndDateEndsTheBirthday
  <1>1. InYear => EndDateEndsTheBirthday
    <2> DEFINE Away == (2 * HoursPerDay)..(YearHours - 2 * HoursPerDay)
    <2> SUFFICES ASSUME now \in Hours, NEW date \in StartsNearby,
                        OneDayAhead(date) = DateOf(InstantOf(date) + HoursPerDay),
                        InstantOf(date) \in Away, now \in Away
                 PROVE  IsOver(OneDayAhead(date), now) <=> now >= InstantOf(date) + HoursPerDay
      BY DEF EndDateEndsTheBirthday, Near, InYear
    <2>1. PICK x \in Hours : date = DateOf(x) /\ InstantOf(date) = x
      BY NearbyDates
    <2>2. /\ HoursPerDay \in Nat \ {0} /\ YearHours \in Nat \ {0} /\ x \in Nat /\ now \in Nat
          /\ now # YearHours - 1
      BY <2>1, YearIs
    <2>3. x + HoursPerDay \in Hours
      BY <2>1, <2>2 DEF Hours
    <2>4. IsOver(DateOf(x + HoursPerDay), now) <=> now # YearHours - 1 /\ x + HoursPerDay <= now
      BY <2>3, OverIs
    <2> QED BY <2>1, <2>2, <2>4
  <1> QED BY <1>1, YearInvariant, PTL
=============================================================================
