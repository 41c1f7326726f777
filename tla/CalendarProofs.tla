--------------------------- MODULE CalendarProofs ---------------------------
(***************************************************************************)
(* Proofs about the dates of date.h and iso_week.h, for every walk and     *)
(* every day whose year a short holds: civil dates, the days of the week,  *)
(* the places of days among them, the order of dates, months added to      *)
(* them, ISO week dates.                                                   *)
(*                                                                         *)
(* DayCount is the calendar by its rule alone.  to_days is equal to it for *)
(* every date (ToDaysCounts), and from_days leads back from it, by the era *)
(* of a day, its year of the era and its month (FromDaysReturns).  Every   *)
(* day has a date (DateOn), so the two are inverse to each other, and the  *)
(* walk, which adds and takes away single days, stays on the dates that    *)
(* DayCount has for its days (WalkInv).                                    *)
(*                                                                         *)
(* Weekdays are remainders of the day's number, and a day's place among    *)
(* its month's days of that name is a quotient (NthHold).  An earlier date *)
(* has an earlier day, by years, months and days in turn (EarlierCounts),  *)
(* hence the order of dates is that of days (CivilOrder).  A month is the  *)
(* number 12 * y + m, which turns month arithmetic into adding.            *)
(* 1970-01-01 was a Thursday: the days that are Thursdays are the          *)
(* multiples of 7, and the last Thursday before a year counts its weeks.   *)
(***************************************************************************)
EXTENDS CalendarWalk, TLAPS

(* to_days, whatever the year *)

\* The quotient to_days takes rounds down, before year 0 as after it.
LEMMA Floor400 == \A n \in Int : Quot(IF n >= 0 THEN n ELSE n - 399, 400) = n \div 400
BY DEF Quot

\* The days of 400 years, and from 0000-03-01 to 1970-01-01.
EraLength   == 146097
EraStart(e) == e * EraLength
Epoch     == 719468

\* The leap years up to a year, as the calendar's rule has them.
Leaps(z) == (z \div 4) - (z \div 100) + (z \div 400)

\* Quotients by 4, 100 and 400 grow by one at the multiples.
LEMMA DivStep ==
  \A y \in Int :
    /\ y \div 4 = ((y - 1) \div 4) + (IF y % 4 = 0 THEN 1 ELSE 0)
    /\ y \div 100 = ((y - 1) \div 100) + (IF y % 100 = 0 THEN 1 ELSE 0)
    /\ y \div 400 = ((y - 1) \div 400) + (IF y % 400 = 0 THEN 1 ELSE 0)
OBVIOUS

\* Multiples of 400 are multiples of 100, and those of 4.
LEMMA Multiples ==
  \A y \in Int : (y % 400 = 0 => y % 100 = 0) /\ (y % 100 = 0 => y % 4 = 0)
OBVIOUS

\* A leap year is one more leap year.
LEMMA LeapStep ==
  \A y \in Int : Leaps(y) = Leaps(y - 1) + (IF Leap(y) THEN 1 ELSE 0)
BY DivStep, Multiples DEF Leaps, Leap

\* Years counted by eras.
DaysOfYears(yoe) == 365 * yoe + (yoe \div 4) - (yoe \div 100)

\* The days of the years before one, by its era and its year of the era.
LEMMA EraYears ==
  \A y \in Int : 365 * y + Leaps(y) = EraStart(y \div 400) + DaysOfYears(y - (y \div 400) * 400)
<1>1. \A y \in Int :
        LET e == y \div 400  q == y - e * 400
        IN  y \div 4 = 100 * e + (q \div 4) /\ y \div 100 = 4 * e + (q \div 100)
  OBVIOUS
<1> QED BY SMT, <1>1 DEF Leaps, DaysOfYears, EraStart, EraLength

\* The days from a March 1 to a day of the year that begins there.
DayOfYear(m, d) == ((153 * (IF m > 2 THEN m - 3 ELSE m + 9) + 2) \div 5) + d - 1

MarchYear(y, m) == y - (IF m <= 2 THEN 1 ELSE 0)

\* From the days counted from January to those counted from March.
FromMarch(y, m) == IF m > 2 THEN -59 - (IF Leap(y) THEN 1 ELSE 0) ELSE 306

\* The days from a March 1 to a month's first and the days before that month.
LEMMA MonthDays ==
  \A m \in 1 .. 12, d \in Int, y \in Int :
    DayOfYear(m, d) = MonthStart(y, m) + d - 1 + FromMarch(y, m)
<1> SUFFICES ASSUME NEW m \in 1 .. 12, NEW d \in Int, NEW y \in Int
             PROVE  DayOfYear(m, d) = MonthStart(y, m) + d - 1 + FromMarch(y, m)
  OBVIOUS
<1>1. m = 1 \/ m = 2 \/ m = 3 \/ m = 4 \/ m = 5 \/ m = 6 \/ m = 7 \/ m = 8 \/ m = 9
        \/ m = 10 \/ m = 11 \/ m = 12
  OBVIOUS
<1>2. CASE m <= 2
  BY <1>1, <1>2 DEF DayOfYear, MonthStart, FromMarch
<1>3. CASE m > 2 /\ Leap(y)
  BY <1>1, <1>3 DEF DayOfYear, MonthStart, FromMarch
<1>4. CASE m > 2 /\ ~Leap(y)
  BY <1>1, <1>4 DEF DayOfYear, MonthStart, FromMarch
<1> QED BY <1>2, <1>3, <1>4

\* A year's first day, from year 0 instead of 1970.
LEMMA YearStartIs ==
  \A y \in Int : YearStart(y) = 365 * y + Leaps(y - 1) - 719527
BY SMT DEF YearStart, Leaps

\* What the calendar counts, with years that begin in March.
LEMMA MarchCount ==
  ASSUME NEW x, x.y \in Int, x.m \in 1 .. 12, x.d \in Int
  PROVE  LET y == MarchYear(x.y, x.m)
         IN  DayCount(x) = 365 * y + Leaps(y) + DayOfYear(x.m, x.d) - Epoch
<1>1. Leaps(x.y) \in Int /\ Leaps(x.y - 1) \in Int
  BY SMT DEF Leaps
<1>2. DayOfYear(x.m, x.d) = MonthStart(x.y, x.m) + x.d - 1 + FromMarch(x.y, x.m)
  BY Zenon, MonthDays
<1>3. YearStart(x.y) = 365 * x.y + Leaps(x.y - 1) - 719527
  BY SMT, YearStartIs
<1>4. Leaps(x.y) = Leaps(x.y - 1) + (IF Leap(x.y) THEN 1 ELSE 0)
  BY SMT, LeapStep
<1>5. MonthStart(x.y, x.m) \in Int
  <2>1. MonthStart(x.y, x.m) \in 0 .. 335
    BY SMT DEF MonthStart
  <2> QED BY <2>1
<1>6. CASE x.m <= 2
  BY SMT, <1>1, <1>2, <1>3, <1>5, <1>6 DEF DayCount, MarchYear, FromMarch, Epoch
<1>7. CASE x.m > 2
  BY SMT, <1>1, <1>2, <1>3, <1>4, <1>5, <1>7 DEF DayCount, MarchYear, FromMarch, Epoch
<1> QED BY <1>6, <1>7

\* The eras of to_days count 365 days a year and the leap years.
LEMMA EraCount ==
  ASSUME NEW y \in Int, NEW r \in Int
  PROVE  LET era == Quot(IF y >= 0 THEN y ELSE y - 399, 400)
             yoe == y - era * 400
         IN  era * 146097 + (yoe * 365 + (yoe \div 4) - (yoe \div 100) + r) - 719468
               = 365 * y + Leaps(y) + r - 719468
<1> DEFINE e == y \div 400
           q == y - e * 400
<1>1. Quot(IF y >= 0 THEN y ELSE y - 399, 400) = e
  BY ZenonT(40), Floor400
<1>2. /\ e \in Int /\ q \in Int
      /\ 365 * y + Leaps(y) = e * 146097 + (q * 365 + (q \div 4) - (q \div 100))
  <2>1. e \in Int /\ q \in Int
    OBVIOUS
  <2>2. y \div 4 = 100 * e + (q \div 4) /\ y \div 100 = 4 * e + (q \div 100)
    OBVIOUS
  <2> QED BY SMT, <2>1, <2>2 DEF Leaps
<1>3. e * 146097 + (q * 365 + (q \div 4) - (q \div 100) + r) - 719468
        = 365 * y + Leaps(y) + r - 719468
  <2>1. Leaps(y) \in Int /\ q \div 4 \in Int /\ q \div 100 \in Int
    BY SMT, <1>2 DEF Leaps
  <2> HIDE DEF e, q
  <2> QED BY SMT, <1>2, <2>1
<1> QED BY SMT, <1>1, <1>3

\* to_days counts the days as the calendar does, whatever the year.
LEMMA ToDaysCounts ==
  ASSUME NEW x, x.y \in Int, x.m \in 1 .. 12, x.d \in Int
  PROVE  ToDays(x) = DayCount(x)
<1>1. PICK y \in Int : y = MarchYear(x.y, x.m)
  BY SMT DEF MarchYear
<1>2. PICK r \in Int : r = DayOfYear(x.m, x.d)
  BY SMT DEF DayOfYear
<1>3. DayCount(x) = 365 * y + Leaps(y) + r - 719468
  BY SMT, <1>1, <1>2, MarchCount DEF Epoch
<1>4. ToDays(x) =
        LET era == Quot(IF y >= 0 THEN y ELSE y - 399, 400)
            yoe == y - era * 400
        IN  era * 146097 + (yoe * 365 + (yoe \div 4) - (yoe \div 100) + r) - 719468
  <2>1. ToDays(x) =
          LET yy  == MarchYear(x.y, x.m)
              era == Quot(IF yy >= 0 THEN yy ELSE yy - 399, 400)
              yoe == yy - era * 400
          IN  era * 146097 + (yoe * 365 + (yoe \div 4) - (yoe \div 100) + DayOfYear(x.m, x.d)) - 719468
    BY SMT DEF ToDays, MarchYear, DayOfYear
  <2> QED BY SMT, <1>1, <1>2, <2>1
<1>5. LET era == Quot(IF y >= 0 THEN y ELSE y - 399, 400)
          yoe == y - era * 400
      IN  era * 146097 + (yoe * 365 + (yoe \div 4) - (yoe \div 100) + r) - 719468
            = 365 * y + Leaps(y) + r - 719468
  BY SMT, EraCount
<1> QED BY SMT, <1>3, <1>4, <1>5

-----------------------------------------------------------------------------
(* from_days, step by step: the era of a day, the year of a day of an era  *)
(* and the month of a day of a year.                                       *)

DateOf(era, yoe, doy) ==
  LET mp == (5 * doy + 2) \div 153
      d  == doy - ((153 * mp + 2) \div 5) + 1
      m  == IF mp < 10 THEN mp + 3 ELSE mp - 9
  IN  YearMonthDay(yoe + era * 400 + (IF m <= 2 THEN 1 ELSE 0), m, d)

YearOfEra(doe) ==
  (doe - (doe \div 1460) + (doe \div 36524) - (doe \div 146096)) \div 365

EraOf(z) == Quot(IF z >= 0 THEN z ELSE z - 146096, 146097)

\* from_days, in those terms.
LEMMA FromDaysParts ==
  ASSUME NEW n
  PROVE  LET z   == n + Epoch
             doe == z - EraStart(EraOf(z))
         IN  FromDays(n) = DateOf(EraOf(z), YearOfEra(doe), doe - DaysOfYears(YearOfEra(doe)))
BY SMTT(200) DEF FromDays, EraOf, YearOfEra, DaysOfYears, DateOf, EraStart, EraLength, Epoch

\* A day of the days counted from an era's first lies in that era.
LEMMA EraFound ==
  \A z, e, doe \in Int : z = EraStart(e) + doe /\ 0 <= doe /\ doe < EraLength =>
    EraOf(z) = e /\ z - EraStart(e) = doe
<1>1. \A z \in Int : EraOf(z) = z \div EraLength
  BY SMT DEF EraOf, Quot, EraLength
<1>2. \A z, e, doe \in Int : z = EraStart(e) + doe /\ 0 <= doe /\ doe < EraLength =>
        z \div EraLength = e /\ z - EraStart(e) = doe
  BY SMT DEF EraStart, EraLength
<1> QED BY <1>1, <1>2

\* The years of an era that begin in March and end with a February 29.
LeapEnd(q) == q % 4 = 3 /\ (q % 100 # 99 \/ q = 399)

\* The year of a day of an era, whose quotients skip the leap days.
LEMMA YearFound ==
  \A q, r \in Int :
    0 <= q /\ q <= 399 /\ 0 <= r /\ (r <= 364 \/ (r = 365 /\ LeapEnd(q))) =>
      YearOfEra(DaysOfYears(q) + r) = q
<1>1. \A q, r \in Int :
        0 <= q /\ q <= 399 /\ 0 <= r /\ r <= 364 => YearOfEra(DaysOfYears(q) + r) = q
  BY SMTT(60) DEF YearOfEra, DaysOfYears
<1>2. \A q \in Int :
        0 <= q /\ q <= 399 /\ LeapEnd(q) => YearOfEra(DaysOfYears(q) + 365) = q
  BY SMTT(60) DEF YearOfEra, DaysOfYears, LeapEnd
<1> QED BY SMT, <1>1, <1>2

\* No day of an era is beyond its last.
LEMMA EraHolds ==
  \A q, r, doe \in Int :
    doe = DaysOfYears(q) + r /\ 0 <= q /\ q <= 399 /\ 0 <= r /\ r <= 365 =>
      0 <= doe /\ doe < EraLength /\ doe - DaysOfYears(q) = r
BY SMT DEF DaysOfYears, EraLength

\* The length of a month in a leap year.
Longest(m) == IF m = 2 THEN 29 ELSE IF m \in {4, 6, 9, 11} THEN 30 ELSE 31

\* The month and the day of a day of the year.
LEMMA MonthFound ==
  \A m, d \in Int :
    1 <= m /\ m <= 12 /\ 1 <= d /\ d <= Longest(m) =>
      LET r  == DayOfYear(m, d)
          mp == (5 * r + 2) \div 153
      IN  /\ mp = IF m > 2 THEN m - 3 ELSE m + 9
          /\ r - ((153 * mp + 2) \div 5) + 1 = d
          /\ r \in Int /\ 0 <= r /\ r <= 365
          /\ r = 365 => m = 2 /\ d = 29
BY SMTT(30) DEF DayOfYear, Longest

\* A date that ends in a February 29 ends a long year.
LEMMA LeapDay ==
  \A y \in Int : Leap(y) => LeapEnd((y - 1) - ((y - 1) \div 400) * 400)
BY SMT DEF Leap, LeapEnd

\* The length of a month, case by case.
LEMMA LengthIs ==
  ASSUME NEW y, NEW m
  PROVE  /\ m = 2 => LengthOf(y, m) = IF Leap(y) THEN 29 ELSE 28
         /\ m \in {4, 6, 9, 11} => LengthOf(y, m) = 30
         /\ m \notin {2, 4, 6, 9, 11} => LengthOf(y, m) = 31
BY DEF LengthOf

\* Only a February is shorter than in a leap year.
LEMMA LongestMonth ==
  \A y, m \in Int : 1 <= m /\ m <= 12 =>
    /\ LengthOf(y, m) \in Int /\ LengthOf(y, m) <= Longest(m)
    /\ LengthOf(y, m) = Longest(m) \/ (m = 2 /\ ~Leap(y) /\ LengthOf(y, m) = 28)
<1> SUFFICES ASSUME NEW y \in Int, NEW m \in Int
             PROVE  /\ LengthOf(y, m) \in Int /\ LengthOf(y, m) <= Longest(m)
                    /\ LengthOf(y, m) = Longest(m) \/ (m = 2 /\ ~Leap(y) /\ LengthOf(y, m) = 28)
  OBVIOUS
<1>1. CASE m = 2
  <2>1. LengthOf(y, m) = IF Leap(y) THEN 29 ELSE 28
    BY <1>1, LengthIs
  <2> QED BY <1>1, <2>1 DEF Longest
<1>2. CASE m \in {4, 6, 9, 11}
  BY <1>2, LengthIs DEF Longest
<1>3. CASE m \notin {2, 4, 6, 9, 11}
  BY <1>3, LengthIs DEF Longest
<1> QED BY <1>1, <1>2, <1>3

\* A date of the calendar.
RealDate(x) ==
  /\ x = [y |-> x.y, m |-> x.m, d |-> x.d]
  /\ x.y \in Int
  /\ x.m \in Int /\ 1 <= x.m /\ x.m <= 12
  /\ x.d \in Int /\ 1 <= x.d /\ x.d <= LengthOf(x.y, x.m)

\* A year a short can hold.
Short(y) == -32768 <= y /\ y <= 32767

\* Such a year is not narrowed.
LEMMA YearKept == \A y \in Int : Short(y) => Year(y) = y
BY SMT DEF Year, Short

\* from_days leads from the count of a day's date back to the date, for every
\* date whose year a short can hold.
LEMMA FromDaysReturns ==
  ASSUME NEW x, RealDate(x), Short(x.y)
  PROVE  FromDays(DayCount(x)) = x
<1> DEFINE y == MarchYear(x.y, x.m)
           e == y \div 400
           q == y - e * 400
           r == DayOfYear(x.m, x.d)
<1>1. /\ x.y \in Int /\ x.m \in Int /\ 1 <= x.m /\ x.m <= 12
      /\ x.d \in Int /\ 1 <= x.d /\ x.d <= Longest(x.m)
      /\ y \in Int
  <2>1. x.y \in Int /\ x.m \in Int /\ 1 <= x.m /\ x.m <= 12 /\ x.d \in Int /\ 1 <= x.d
    BY DEF RealDate
  <2>2. LengthOf(x.y, x.m) \in Int /\ LengthOf(x.y, x.m) <= Longest(x.m)
    BY <2>1, LongestMonth
  <2>3. Longest(x.m) \in Int /\ x.d <= LengthOf(x.y, x.m)
    BY DEF Longest, RealDate
  <2>4. y \in Int
    BY <2>1 DEF MarchYear
  <2> QED BY <2>1, <2>2, <2>3, <2>4
<1>2. /\ ((5 * r + 2) \div 153) = (IF x.m > 2 THEN x.m - 3 ELSE x.m + 9)
      /\ r - ((153 * ((5 * r + 2) \div 153) + 2) \div 5) + 1 = x.d
      /\ r \in Int /\ 0 <= r /\ r <= 365
      /\ r = 365 => x.m = 2 /\ x.d = 29
  BY <1>1, MonthFound
<1>3. e \in Int /\ q \in Int /\ 0 <= q /\ q <= 399
  BY <1>1
<1>4. r = 365 => LeapEnd(q)
  <2>1. SUFFICES ASSUME r = 365 PROVE LeapEnd(q)
    OBVIOUS
  <2>2. Leap(x.y) /\ y = x.y - 1
    <3>1. x.m = 2 /\ x.d = 29 /\ x.d <= LengthOf(x.y, x.m)
      BY <1>2, <2>1 DEF RealDate
    <3>2. ~Leap(x.y) => LengthOf(x.y, x.m) = 28
      BY <3>1, LengthIs
    <3> QED BY <1>1, <3>1, <3>2 DEF MarchYear
  <2> QED BY <1>1, <2>2, LeapDay
<1>5. DayCount(x) + Epoch = EraStart(e) + (DaysOfYears(q) + r)
  <2>1. DayCount(x) = 365 * y + Leaps(y) + r - Epoch
    BY <1>1, MarchCount
  <2>2. 365 * y + Leaps(y) = EraStart(e) + DaysOfYears(q)
    BY <1>1, EraYears
  <2>3. 365 * y + Leaps(y) \in Int /\ r \in Int
    BY <1>1, <1>2 DEF Leaps
  <2> HIDE DEF y, e, q, r
  <2>4. /\ EraStart(e) + (DaysOfYears(q) + r) = EraStart(e) + DaysOfYears(q) + r
        /\ Epoch \in Int
    BY SMT, <1>2, <1>3 DEF DaysOfYears, EraStart, EraLength, Epoch
  <2> QED BY <2>1, <2>2, <2>3, <2>4
<1>6. FromDays(DayCount(x)) = DateOf(e, q, r)
  <2> HIDE DEF y, e, q, r
  <2> DEFINE doe == DaysOfYears(q) + r
  <2>1. /\ doe \in Int /\ 0 <= doe /\ doe < EraLength
        /\ doe - DaysOfYears(q) = r
    <3>1. doe \in Int
      BY <1>2, <1>3 DEF DaysOfYears
    <3>2. doe = DaysOfYears(q) + r
      OBVIOUS
    <3> HIDE DEF doe
    <3> QED BY <1>2, <1>3, <3>1, <3>2, EraHolds
  <2>2. YearOfEra(doe) = q
    <3>1. r \in Int /\ 0 <= r /\ (r <= 364 \/ (r = 365 /\ LeapEnd(q)))
      BY <1>2, <1>4
    <3> QED BY <1>3, <3>1, YearFound
  <2> HIDE DEF doe
  <2>3. DayCount(x) + Epoch = EraStart(e) + doe /\ DayCount(x) + Epoch \in Int
    BY <1>3, <1>5, <2>1 DEF doe, EraStart, EraLength
  <2>4. PICK z : z = DayCount(x) + Epoch
    OBVIOUS
  <2>5. EraOf(z) = e /\ z - EraStart(e) = doe
    BY <1>3, <2>1, <2>3, <2>4, EraFound
  <2>6. FromDays(DayCount(x))
          = LET g == z - EraStart(EraOf(z))
            IN  DateOf(EraOf(z), YearOfEra(g), g - DaysOfYears(YearOfEra(g)))
    BY <2>4, FromDaysParts
  <2> QED BY <2>1, <2>2, <2>5, <2>6
<1>7. DateOf(e, q, r) = YearMonthDay(x.y, x.m, x.d)
  <2>1. DateOf(e, q, r) =
          LET m == IF (5 * r + 2) \div 153 < 10 THEN ((5 * r + 2) \div 153) + 3
                   ELSE ((5 * r + 2) \div 153) - 9
          IN  YearMonthDay(q + e * 400 + (IF m <= 2 THEN 1 ELSE 0), m, x.d)
    BY SMT, <1>2 DEF DateOf
  <2>2. (IF (5 * r + 2) \div 153 < 10 THEN ((5 * r + 2) \div 153) + 3
         ELSE ((5 * r + 2) \div 153) - 9) = x.m
    BY SMT, <1>1, <1>2
  <2>3. q + e * 400 + (IF x.m <= 2 THEN 1 ELSE 0) = x.y
    <3>1. q + e * 400 = y
      BY SMT, <1>1
    <3>2. y + (IF x.m <= 2 THEN 1 ELSE 0) = x.y
      BY SMT, <1>1 DEF MarchYear
    <3> QED BY <3>1, <3>2
  <2> QED BY <2>1, <2>2, <2>3
<1>8. YearMonthDay(x.y, x.m, x.d) = [y |-> x.y, m |-> x.m, d |-> x.d]
  <2>1. Year(x.y) = x.y
    BY <1>1, YearKept
  <2>2. Month(x.m) = x.m /\ Day(x.d) = x.d
    BY SMT, <1>1 DEF Month, Day, Longest
  <2> QED BY <2>1, <2>2 DEF YearMonthDay
<1> QED BY <1>6, <1>7, <1>8 DEF RealDate

-----------------------------------------------------------------------------
(* The walk counts as the calendar does *)

LEMMA LengthRange ==
  \A y, m \in Int : LengthOf(y, m) \in Int /\ 28 <= LengthOf(y, m) /\ LengthOf(y, m) <= 31
<1> SUFFICES ASSUME NEW y \in Int, NEW m \in Int
             PROVE  LengthOf(y, m) \in {28, 29, 30, 31}
  OBVIOUS
<1> QED BY LengthIs

\* A month is followed by the next one, a year by the next year.
LEMMA NextMonth ==
  ASSUME NEW y \in Int, NEW m \in Int, 1 <= m, m < 12
  PROVE  MonthStart(y, m + 1) = MonthStart(y, m) + LengthOf(y, m)
<1>1. m = 1 \/ m = 2 \/ m = 3 \/ m = 4 \/ m = 5 \/ m = 6 \/ m = 7 \/ m = 8 \/ m = 9
        \/ m = 10 \/ m = 11
  OBVIOUS
<1>2. CASE m = 2
  <2>1. CASE Leap(y)
    BY <1>2, <2>1, LengthIs DEF MonthStart
  <2>2. CASE ~Leap(y)
    BY <1>2, <2>2, LengthIs DEF MonthStart
  <2> QED BY <2>1, <2>2
<1>3. CASE m # 2
  <2>1. LengthOf(y, m) = IF m \in {4, 6, 9, 11} THEN 30 ELSE 31
    BY <1>3, LengthIs
  <2>2. CASE Leap(y)
    BY <1>1, <1>3, <2>1, <2>2 DEF MonthStart
  <2>3. CASE ~Leap(y)
    BY <1>1, <1>3, <2>1, <2>3 DEF MonthStart
  <2> QED BY <2>2, <2>3
<1> QED BY <1>2, <1>3

\* The days before a month are a number.
LEMMA MonthStartInt ==
  \A y, m \in Int : 1 <= m /\ m <= 12 => MonthStart(y, m) \in Int
<1> SUFFICES ASSUME NEW y \in Int, NEW m \in Int, 1 <= m, m <= 12
             PROVE  MonthStart(y, m) \in Int
  OBVIOUS
<1>1. MonthStart(y, m) \in 0 .. 335
  BY DEF MonthStart
<1> QED BY <1>1

\* A year begins 31 days after its December.
LEMMA NextYear ==
  ASSUME NEW y \in Int
  PROVE  /\ YearStart(y) \in Int /\ YearStart(y + 1) \in Int
         /\ YearStart(y + 1) = YearStart(y) + MonthStart(y, 12) + 31
         /\ MonthStart(y, 1) = 0 /\ MonthStart(y + 1, 1) = 0
<1>1. Leaps(y) = Leaps(y - 1) + (IF Leap(y) THEN 1 ELSE 0)
  BY LeapStep
<1>2. Leaps(y) \in Int /\ Leaps(y - 1) \in Int
  BY DEF Leaps
<1>3. MonthStart(y, 12) = 334 + (IF Leap(y) THEN 1 ELSE 0)
  BY DEF MonthStart
<1>4. YearStart(y) = 365 * y + Leaps(y - 1) - 719527
  BY SMT, YearStartIs
<1>5. YearStart(y + 1) = 365 * (y + 1) + Leaps(y) - 719527
  <2>1. YearStart(y + 1) = 365 * (y + 1) + Leaps((y + 1) - 1) - 719527 /\ (y + 1) - 1 = y
    BY SMT, YearStartIs
  <2> QED BY SMT, <2>1
<1>6. YearStart(y) \in Int /\ YearStart(y + 1) \in Int
  BY SMT, <1>2, <1>4, <1>5
<1>7. YearStart(y + 1) = YearStart(y) + MonthStart(y, 12) + 31
  BY SMT, <1>1, <1>2, <1>3, <1>4, <1>5
<1>8. MonthStart(y, 1) = 0 /\ MonthStart(y + 1, 1) = 0
  BY DEF MonthStart
<1> QED BY <1>6, <1>7, <1>8

\* The walk goes from one date to the date after it, one more in the count.
LEMMA AfterCounts ==
  ASSUME NEW x, RealDate(x)
  PROVE  /\ RealDate(DayAfter(x))
         /\ DayCount(DayAfter(x)) = DayCount(x) + 1
         /\ DayCount(x) \in Int
         /\ DayAfter(x).d = 1 <=> x.d = LengthOf(x.y, x.m)
<1>1. /\ x = [y |-> x.y, m |-> x.m, d |-> x.d]
      /\ x.y \in Int /\ x.m \in Int /\ 1 <= x.m /\ x.m <= 12
      /\ x.d \in Int /\ 1 <= x.d /\ x.d <= LengthOf(x.y, x.m)
  BY DEF RealDate
<1>2. LengthOf(x.y, x.m) \in Int
  BY <1>1, LengthRange
<1>3. YearStart(x.y) \in Int /\ MonthStart(x.y, x.m) \in Int
  BY <1>1, NextYear, MonthStartInt
<1>4. DayCount(x) \in Int
  BY <1>1, <1>3 DEF DayCount
<1>5. CASE x.d < LengthOf(x.y, x.m)
  <2>1. DayAfter(x) = [y |-> x.y, m |-> x.m, d |-> x.d + 1]
    BY <1>1, <1>5 DEF DayAfter
  <2>2. RealDate(DayAfter(x))
    BY <1>1, <1>2, <1>5, <2>1 DEF RealDate
  <2>3. DayCount(DayAfter(x)) = DayCount(x) + 1
    BY <1>1, <1>3, <2>1 DEF DayCount
  <2> QED BY <1>1, <1>2, <1>4, <1>5, <2>1, <2>2, <2>3
<1>6. CASE ~(x.d < LengthOf(x.y, x.m)) /\ x.m < 12
  <2>1. DayAfter(x) = [y |-> x.y, m |-> x.m + 1, d |-> 1]
    BY <1>1, <1>6 DEF DayAfter
  <2>2. RealDate(DayAfter(x))
    <3>1. LengthOf(x.y, x.m + 1) \in Int /\ 28 <= LengthOf(x.y, x.m + 1)
      BY <1>1, LengthRange
    <3> QED BY <1>1, <1>6, <2>1, <3>1 DEF RealDate
  <2>3. MonthStart(x.y, x.m + 1) = MonthStart(x.y, x.m) + LengthOf(x.y, x.m)
    BY <1>1, <1>6, NextMonth
  <2>4. x.d = LengthOf(x.y, x.m)
    BY <1>1, <1>2, <1>6
  <2>5. DayCount(DayAfter(x)) = DayCount(x) + 1
    BY <1>1, <1>2, <1>3, <2>1, <2>3, <2>4 DEF DayCount
  <2> QED BY <1>4, <2>1, <2>2, <2>4, <2>5
<1>7. CASE ~(x.d < LengthOf(x.y, x.m)) /\ ~(x.m < 12)
  <2>1. DayAfter(x) = [y |-> x.y + 1, m |-> 1, d |-> 1] /\ x.m = 12
    BY <1>1, <1>7 DEF DayAfter
  <2>2. RealDate(DayAfter(x))
    <3>1. LengthOf(x.y + 1, 1) \in Int /\ 28 <= LengthOf(x.y + 1, 1)
      BY <1>1, LengthRange
    <3> QED BY <1>1, <2>1, <3>1 DEF RealDate
  <2>3. x.d = 31 /\ LengthOf(x.y, x.m) = 31
    BY <1>1, <1>2, <1>7, <2>1, LengthIs
  <2>4. /\ YearStart(x.y + 1) \in Int /\ MonthStart(x.y + 1, 1) = 0
        /\ YearStart(x.y + 1) = YearStart(x.y) + MonthStart(x.y, 12) + 31
    BY <1>1, NextYear
  <2>5. DayCount(DayAfter(x)) = DayCount(x) + 1
    BY <1>1, <1>3, <2>1, <2>3, <2>4 DEF DayCount
  <2> QED BY <1>4, <2>1, <2>2, <2>3, <2>5
<1> QED BY <1>5, <1>6, <1>7

\* And back: the day before a date is the one it comes after.
LEMMA BeforeReturns ==
  ASSUME NEW x, RealDate(x)
  PROVE  RealDate(DayBefore(x)) /\ DayAfter(DayBefore(x)) = x
<1>1. /\ x = [y |-> x.y, m |-> x.m, d |-> x.d]
      /\ x.y \in Int /\ x.m \in Int /\ 1 <= x.m /\ x.m <= 12
      /\ x.d \in Int /\ 1 <= x.d /\ x.d <= LengthOf(x.y, x.m)
  BY DEF RealDate
<1>2. LengthOf(x.y, x.m) \in Int
  BY <1>1, LengthRange
<1>3. CASE x.d > 1
  <2>1. DayBefore(x) = [y |-> x.y, m |-> x.m, d |-> x.d - 1]
    BY <1>1, <1>3 DEF DayBefore
  <2>2. RealDate(DayBefore(x))
    BY <1>1, <1>2, <1>3, <2>1 DEF RealDate
  <2>3. DayAfter(DayBefore(x)) = [y |-> x.y, m |-> x.m, d |-> x.d]
    BY <1>1, <1>2, <1>3, <2>1 DEF DayAfter
  <2> QED BY <1>1, <2>2, <2>3
<1>4. CASE ~(x.d > 1) /\ x.m > 1
  <2>1. DayBefore(x) = [y |-> x.y, m |-> x.m - 1, d |-> LengthOf(x.y, x.m - 1)] /\ x.d = 1
    BY <1>1, <1>4 DEF DayBefore
  <2>2. LengthOf(x.y, x.m - 1) \in Int /\ 28 <= LengthOf(x.y, x.m - 1)
    BY <1>1, LengthRange
  <2>3. RealDate(DayBefore(x))
    BY <1>1, <1>4, <2>1, <2>2 DEF RealDate
  <2>4. DayAfter(DayBefore(x)) = [y |-> x.y, m |-> (x.m - 1) + 1, d |-> 1]
    BY <1>1, <1>4, <2>1, <2>2 DEF DayAfter
  <2> QED BY <1>1, <2>1, <2>3, <2>4
<1>5. CASE ~(x.d > 1) /\ ~(x.m > 1)
  <2>1. DayBefore(x) = [y |-> x.y - 1, m |-> 12, d |-> 31] /\ x.d = 1 /\ x.m = 1
    BY <1>1, <1>5 DEF DayBefore
  <2>2. LengthOf(x.y - 1, 12) = 31
    BY LengthIs
  <2>3. RealDate(DayBefore(x))
    BY <1>1, <2>1, <2>2 DEF RealDate
  <2>4. DayAfter(DayBefore(x)) = [y |-> (x.y - 1) + 1, m |-> 1, d |-> 1]
    BY <1>1, <2>1, <2>2 DEF DayAfter
  <2> QED BY <1>1, <2>1, <2>3, <2>4
<1> QED BY <1>3, <1>4, <1>5

-----------------------------------------------------------------------------
(* Months end where the calendar says *)

LEMMA LeapYears == \A y \in Int : IsLeap(y) <=> Leap(y)
BY SMT DEF IsLeap, Leap, Rem, Quot

\* A number of eight bits is not narrowed.
LEMMA Narrowed ==
  \A n \in Int : 0 <= n /\ n <= 255 => Month(n) = n /\ Day(n) = n
BY SMT DEF Month, Day

\* The last day of a month by the table of date.h is the calendar's.
LEMMA LastDayIs ==
  ASSUME NEW y \in Int, Short(y), NEW m \in Int, 1 <= m, m <= 12
  PROVE  /\ YearMonthDayLast(y, m) = [y |-> y, m |-> m]
         /\ LastDay(YearMonthDayLast(y, m)) = LengthOf(y, m)
<1>1. YearMonthDayLast(y, m) = [y |-> y, m |-> m]
  BY YearKept, Narrowed DEF YearMonthDayLast
<1>2. IsLeap(y) <=> Leap(y)
  BY LeapYears
<1>3. MonthOk(m)
  BY DEF MonthOk
<1>4. m = 1 \/ m = 2 \/ m = 3 \/ m = 4 \/ m = 5 \/ m = 6 \/ m = 7 \/ m = 8 \/ m = 9
        \/ m = 10 \/ m = 11 \/ m = 12
  OBVIOUS
<1>5. CASE m = 2 /\ Leap(y)
  <2>1. LengthOf(y, m) = 29
    BY <1>5, LengthIs
  <2> QED BY <1>1, <1>2, <1>5, <2>1 DEF LastDay
<1>6. CASE m = 2 /\ ~Leap(y)
  <2>1. LengthOf(y, m) = 28
    BY <1>6, LengthIs
  <2> QED BY <1>1, <1>2, <1>3, <1>6, <2>1 DEF LastDay, MonthLengths
<1>7. CASE m # 2
  <2>1. LengthOf(y, m) = IF m \in {4, 6, 9, 11} THEN 30 ELSE 31
    BY <1>7, LengthIs
  <2>2. LastDay([y |-> y, m |-> m]) = MonthLengths(28)[m]
    BY <1>3, <1>7 DEF LastDay
  <2>3. MonthLengths(28)[m] = IF m \in {4, 6, 9, 11} THEN 30 ELSE 31
    BY <1>4, <1>7 DEF MonthLengths
  <2> QED BY <1>1, <2>1, <2>2, <2>3
<1> QED BY <1>5, <1>6, <1>7

\* The day and month classes accept exactly the days of the calendar.
LEMMA MonthsEndRight ==
  ASSUME NEW x, RealDate(x), Short(x.y), x.y # -32768
  PROVE  LET last == LastDay(YearMonthDayLast(x.y, x.m))
         IN  /\ YearMonthDayLastOk(YearMonthDayLast(x.y, x.m))
             /\ x.d = last <=> DayAfter(x).d = 1
             /\ \A d \in 0 .. 32 :
                  /\ YearMonthDayOk(YearMonthDay(x.y, x.m, d)) <=> d \in 1 .. LengthOf(x.y, x.m)
                  /\ MonthDayOk(MonthDay(x.m, d)) <=> d \in 1 .. LengthOf(2000, x.m)
                  /\ MonthDayOk(MonthDay(x.m, d)) => DayOk(d)
<1>1. x.y \in Int /\ x.m \in Int /\ 1 <= x.m /\ x.m <= 12 /\ MonthOk(x.m) /\ YearOk(x.y)
  BY DEF RealDate, MonthOk, YearOk
<1>2. /\ YearMonthDayLast(x.y, x.m) = [y |-> x.y, m |-> x.m]
      /\ LastDay(YearMonthDayLast(x.y, x.m)) = LengthOf(x.y, x.m)
  BY <1>1, LastDayIs
<1>3. YearMonthDayLastOk(YearMonthDayLast(x.y, x.m))
  BY <1>1, <1>2 DEF YearMonthDayLastOk
<1>4. x.d = LengthOf(x.y, x.m) <=> DayAfter(x).d = 1
  BY AfterCounts
<1>5. ASSUME NEW d \in 0 .. 32
      PROVE  YearMonthDayOk(YearMonthDay(x.y, x.m, d)) <=> d \in 1 .. LengthOf(x.y, x.m)
  <2>1. YearMonthDay(x.y, x.m, d) = [y |-> x.y, m |-> x.m, d |-> d]
    BY <1>1, YearKept, Narrowed DEF YearMonthDay
  <2> QED BY <1>1, <1>2, <2>1 DEF YearMonthDayOk
<1>6. MonthLengths(29)[x.m] = LengthOf(2000, x.m) /\ LengthOf(2000, x.m) \in {29, 30, 31}
  <2>1. x.m = 1 \/ x.m = 2 \/ x.m = 3 \/ x.m = 4 \/ x.m = 5 \/ x.m = 6 \/ x.m = 7 \/ x.m = 8
          \/ x.m = 9 \/ x.m = 10 \/ x.m = 11 \/ x.m = 12
    BY <1>1
  <2>2. Leap(2000)
    BY SMT DEF Leap
  <2>3. LengthOf(2000, x.m) = IF x.m = 2 THEN 29 ELSE IF x.m \in {4, 6, 9, 11} THEN 30 ELSE 31
    BY SMT, <2>2, LengthIs
  <2> QED BY SMT, <2>1, <2>3 DEF MonthLengths
<1>7. ASSUME NEW d \in 0 .. 32
      PROVE  /\ MonthDayOk(MonthDay(x.m, d)) <=> d \in 1 .. LengthOf(2000, x.m)
             /\ MonthDayOk(MonthDay(x.m, d)) => DayOk(d)
  <2>1. MonthDay(x.m, d) = [m |-> x.m, d |-> d]
    BY <1>1, Narrowed DEF MonthDay
  <2>2. LengthOf(2000, x.m) \in Int /\ LengthOf(2000, x.m) <= 31
    BY SMT, <1>6
  <2>3. MonthDayOk(MonthDay(x.m, d)) <=> d \in 1 .. LengthOf(2000, x.m)
    BY SMT, <1>1, <1>6, <2>1 DEF MonthDayOk
  <2> QED BY SMT, <2>2, <2>3 DEF DayOk
<1> QED BY <1>2, <1>3, <1>4, <1>5, <1>7

-----------------------------------------------------------------------------
(* Every day has its date *)

LEMMA YearGrows ==
  \A y, z \in Int : y <= z => YearStart(y) + 365 * (z - y) <= YearStart(z)
BY SMT DEF YearStart

\* A year's first day is a number.
LEMMA YearInt == \A y \in Int : YearStart(y) \in Int
BY SMT DEF YearStart

\* The days before each month.
LEMMA MonthStarts ==
  ASSUME NEW y \in Int
  PROVE  LET l == IF Leap(y) THEN 1 ELSE 0
         IN  /\ MonthStart(y, 1) = 0 /\ MonthStart(y, 2) = 31 /\ MonthStart(y, 3) = 59 + l
             /\ MonthStart(y, 4) = 90 + l /\ MonthStart(y, 5) = 120 + l /\ MonthStart(y, 6) = 151 + l
             /\ MonthStart(y, 7) = 181 + l /\ MonthStart(y, 8) = 212 + l /\ MonthStart(y, 9) = 243 + l
             /\ MonthStart(y, 10) = 273 + l /\ MonthStart(y, 11) = 304 + l
             /\ MonthStart(y, 12) = 334 + l
BY SMT DEF MonthStart

\* A month ends before a later one of its year begins.
LEMMA MonthGrows ==
  \A y, m, n \in Int : 1 <= m /\ m < n /\ n <= 12 =>
    MonthStart(y, m) + LengthOf(y, m) <= MonthStart(y, n)
<1> SUFFICES ASSUME NEW y \in Int, NEW m \in Int, NEW n \in Int, 1 <= m, m < n, n <= 12
             PROVE  MonthStart(y, m) + LengthOf(y, m) <= MonthStart(y, n)
  OBVIOUS
<1>1. MonthStart(y, m + 1) = MonthStart(y, m) + LengthOf(y, m)
  BY NextMonth
<1>2. MonthStart(y, m + 1) <= MonthStart(y, n)
  <2>1. /\ m = 1 \/ m = 2 \/ m = 3 \/ m = 4 \/ m = 5 \/ m = 6 \/ m = 7 \/ m = 8 \/ m = 9
             \/ m = 10 \/ m = 11
        /\ n = 2 \/ n = 3 \/ n = 4 \/ n = 5 \/ n = 6 \/ n = 7 \/ n = 8 \/ n = 9
             \/ n = 10 \/ n = 11 \/ n = 12
    OBVIOUS
  <2>2. CASE Leap(y)
    BY SMT, <2>1, <2>2, MonthStarts
  <2>3. CASE ~Leap(y)
    BY SMT, <2>1, <2>3, MonthStarts
  <2> QED BY <2>2, <2>3
<1> QED BY <1>1, <1>2

\* A date lies in its year.
LEMMA InYear ==
  ASSUME NEW x, RealDate(x)
  PROVE  /\ x.y \in Int /\ DayCount(x) \in Int
         /\ YearStart(x.y) <= DayCount(x) /\ DayCount(x) < YearStart(x.y + 1)
<1>1. /\ x.y \in Int /\ x.m \in Int /\ 1 <= x.m /\ x.m <= 12
      /\ x.d \in Int /\ 1 <= x.d /\ x.d <= LengthOf(x.y, x.m)
  BY DEF RealDate
<1>2. /\ YearStart(x.y) \in Int /\ YearStart(x.y + 1) \in Int
      /\ YearStart(x.y + 1) = YearStart(x.y) + MonthStart(x.y, 12) + 31
      /\ MonthStart(x.y, 1) = 0
  BY <1>1, NextYear
<1>3. /\ MonthStart(x.y, x.m) \in Int /\ MonthStart(x.y, 12) \in Int
      /\ LengthOf(x.y, x.m) \in Int /\ 28 <= LengthOf(x.y, x.m) /\ LengthOf(x.y, x.m) <= 31
      /\ LengthOf(x.y, 1) \in Int /\ 28 <= LengthOf(x.y, 1)
  <2>1. MonthStart(x.y, x.m) \in Int /\ MonthStart(x.y, 12) \in Int
    <3>1. \A m \in Int : 1 <= m /\ m <= 12 => MonthStart(x.y, m) \in Int
      BY <1>1, MonthStartInt
    <3>2. 12 \in Int /\ 1 <= 12 /\ 12 <= 12
      OBVIOUS
    <3> QED BY SMT, <1>1, <3>1, <3>2
  <2>2. \A m \in Int : LengthOf(x.y, m) \in Int /\ 28 <= LengthOf(x.y, m) /\ LengthOf(x.y, m) <= 31
    BY <1>1, LengthRange
  <2>3. 1 \in Int
    OBVIOUS
  <2> QED BY <1>1, <2>1, <2>2, <2>3
<1>4. x.m = 12 \/ MonthStart(x.y, x.m) + LengthOf(x.y, x.m) <= MonthStart(x.y, 12)
  BY <1>1, MonthGrows
<1>5. x.m = 1 \/ MonthStart(x.y, 1) + LengthOf(x.y, 1) <= MonthStart(x.y, x.m)
  BY <1>1, MonthGrows
<1>6. DayCount(x) = YearStart(x.y) + MonthStart(x.y, x.m) + x.d - 1
  BY DEF DayCount
<1> QED BY <1>1, <1>2, <1>3, <1>4, <1>5, <1>6

\* The year of a day: its mean length gives it, but for a year at most.
LEMMA YearOn ==
  \A n \in Int : \E y \in Int : YearStart(y) <= n /\ n < YearStart(y + 1)
<1> SUFFICES ASSUME NEW n \in Int
             PROVE  \E y \in Int : YearStart(y) <= n /\ n < YearStart(y + 1)
  OBVIOUS
<1>1. PICK y \in Int : y = 1970 + (400 * n) \div 146097
  OBVIOUS
<1>2. YearStart(y - 1) <= n /\ n < YearStart(y + 2)
  BY SMT, <1>1 DEF YearStart
<1>3. YearStart(y) \in Int /\ YearStart(y + 1) \in Int
  BY YearInt
<1>4. CASE n < YearStart(y)
  <2>1. y - 1 + 1 = y
    OBVIOUS
  <2> QED BY <1>2, <1>4, <2>1
<1>5. CASE YearStart(y) <= n /\ n < YearStart(y + 1)
  BY <1>5
<1>6. CASE YearStart(y + 1) <= n
  <2>1. (y + 1) + 1 = y + 2
    OBVIOUS
  <2> QED BY <1>2, <1>6, <2>1
<1> QED BY <1>3, <1>4, <1>5, <1>6

\* The month of a day of a year.
LEMMA MonthOn ==
  ASSUME NEW y \in Int, NEW r \in Int, 0 <= r, r < MonthStart(y, 12) + 31
  PROVE  \E m \in 1 .. 12 : MonthStart(y, m) <= r /\ r < MonthStart(y, m) + LengthOf(y, m)
<1>1. /\ MonthStart(y, 1) = 0
      /\ \A m \in 1 .. 12 : MonthStart(y, m) \in Int
  <2>1. \A m \in 1 .. 12 : m \in Int /\ 1 <= m /\ m <= 12
    OBVIOUS
  <2>2. \A m \in 1 .. 12 : MonthStart(y, m) \in Int
    BY <2>1, MonthStartInt
  <2> QED BY <2>2, NextYear
<1>2. \A m \in 1 .. 11 : MonthStart(y, m + 1) = MonthStart(y, m) + LengthOf(y, m)
  BY NextMonth
<1>3. LengthOf(y, 12) = 31
  BY LengthIs
<1>4. \/ MonthStart(y, 1) <= r /\ r < MonthStart(y, 2)
      \/ MonthStart(y, 2) <= r /\ r < MonthStart(y, 3)
      \/ MonthStart(y, 3) <= r /\ r < MonthStart(y, 4)
      \/ MonthStart(y, 4) <= r /\ r < MonthStart(y, 5)
      \/ MonthStart(y, 5) <= r /\ r < MonthStart(y, 6)
      \/ MonthStart(y, 6) <= r /\ r < MonthStart(y, 7)
      \/ MonthStart(y, 7) <= r /\ r < MonthStart(y, 8)
      \/ MonthStart(y, 8) <= r /\ r < MonthStart(y, 9)
      \/ MonthStart(y, 9) <= r /\ r < MonthStart(y, 10)
      \/ MonthStart(y, 10) <= r /\ r < MonthStart(y, 11)
      \/ MonthStart(y, 11) <= r /\ r < MonthStart(y, 12)
      \/ MonthStart(y, 12) <= r
  BY SMT, <1>1
<1>5. ASSUME MonthStart(y, 12) <= r
      PROVE  \E m \in 1 .. 12 : MonthStart(y, m) <= r /\ r < MonthStart(y, m) + LengthOf(y, m)
  BY <1>3, <1>5
<1>6. ASSUME NEW m \in 1 .. 11, MonthStart(y, m) <= r, r < MonthStart(y, m + 1)
      PROVE  \E n \in 1 .. 12 : MonthStart(y, n) <= r /\ r < MonthStart(y, n) + LengthOf(y, n)
  BY <1>2, <1>6
<1>7. ASSUME \E m \in 1 .. 11 : MonthStart(y, m) <= r /\ r < MonthStart(y, m + 1)
      PROVE  \E n \in 1 .. 12 : MonthStart(y, n) <= r /\ r < MonthStart(y, n) + LengthOf(y, n)
  BY <1>6, <1>7
<1>8. (\E m \in 1 .. 11 : MonthStart(y, m) <= r /\ r < MonthStart(y, m + 1))
        \/ MonthStart(y, 12) <= r
  BY SMT, <1>4
<1> QED BY <1>5, <1>7, <1>8

\* Every day has a date.
LEMMA DateOn ==
  ASSUME NEW n \in Int
  PROVE  \E x : RealDate(x) /\ DayCount(x) = n
<1>1. PICK y \in Int : YearStart(y) <= n /\ n < YearStart(y + 1)
  BY YearOn
<1>2. /\ YearStart(y) \in Int /\ MonthStart(y, 12) \in Int
      /\ YearStart(y + 1) = YearStart(y) + MonthStart(y, 12) + 31
  BY NextYear, MonthStartInt
<1>3. PICK r \in Int : r = n - YearStart(y)
  BY <1>2
<1>4. 0 <= r /\ r < MonthStart(y, 12) + 31
  BY <1>1, <1>2, <1>3
<1>5. PICK m \in 1 .. 12 : MonthStart(y, m) <= r /\ r < MonthStart(y, m) + LengthOf(y, m)
  BY <1>4, MonthOn
<1>6. MonthStart(y, m) \in Int /\ LengthOf(y, m) \in Int
  <2>1. m \in Int /\ 1 <= m /\ m <= 12
    OBVIOUS
  <2>2. MonthStart(y, m) \in Int
    BY <2>1, MonthStartInt
  <2>3. LengthOf(y, m) \in Int
    BY <2>1, LengthRange
  <2> QED BY <2>2, <2>3
<1>7. PICK d \in Int : d = r - MonthStart(y, m) + 1
  BY <1>6
<1> DEFINE x == [y |-> y, m |-> m, d |-> d]
<1>8. RealDate(x)
  BY <1>5, <1>6, <1>7 DEF RealDate
<1>9. DayCount(x) = n
  <2>1. DayCount(x) = YearStart(y) + MonthStart(y, m) + d - 1
    BY DEF DayCount
  <2> QED BY <1>2, <1>3, <1>6, <1>7, <2>1
<1> QED BY <1>8, <1>9

-----------------------------------------------------------------------------
(* The days looked at *)

InReach(n) == n \in Int /\ YearStart(FirstYear) <= n /\ n < YearStart(LastYear + 1)

\* The years around them, which a short holds too.
Wide(y) == y \in Int /\ FirstYear - 9 <= y /\ y <= LastYear + 9

Covered(n) == n \in Int /\ YearStart(FirstYear - 9) <= n /\ n < YearStart(LastYear + 10)

\* A short holds a wide year, and is not at its end.
LEMMA WideShort == \A y : Wide(y) => y \in Int /\ Short(y) /\ y # -32768
BY SMT DEF Wide, Short, FirstYear, LastYear

\* The bounds of the years looked at are numbers.
LEMMA YearEnds == FirstYear \in Int /\ LastYear \in Int
BY SMT DEF FirstYear, LastYear

\* Less than eight years away.
Near(k) == k \in Int /\ -2900 <= k /\ k <= 2900

\* Days near a day within reach are covered.
LEMMA ReachCovered ==
  ASSUME NEW n, InReach(n), NEW k, Near(k)
  PROVE  n \in Int /\ Covered(n + k)
<1>1. /\ FirstYear \in Int /\ LastYear \in Int
      /\ FirstYear - 9 \in Int /\ LastYear + 1 \in Int /\ LastYear + 10 \in Int
  BY YearEnds
<1>2. YearStart(FirstYear - 9) + 365 * (FirstYear - (FirstYear - 9)) <= YearStart(FirstYear)
  BY <1>1, YearGrows
<1>3. YearStart(LastYear + 1) + 365 * ((LastYear + 10) - (LastYear + 1)) <= YearStart(LastYear + 10)
  BY <1>1, YearGrows
<1>4. /\ YearStart(FirstYear) \in Int /\ YearStart(FirstYear - 9) \in Int
      /\ YearStart(LastYear + 1) \in Int /\ YearStart(LastYear + 10) \in Int
  BY <1>1, YearInt
<1> QED BY SMT, <1>1, <1>2, <1>3, <1>4 DEF InReach, Covered, Near

\* A covered day's date is in a wide year.
LEMMA CoveredYear ==
  ASSUME NEW x, RealDate(x), Covered(DayCount(x))
  PROVE  Wide(x.y)
<1>1. /\ x.y \in Int /\ DayCount(x) \in Int
      /\ YearStart(x.y) <= DayCount(x) /\ DayCount(x) < YearStart(x.y + 1)
  BY InYear
<1>2. /\ FirstYear - 9 \in Int /\ LastYear + 10 \in Int /\ x.y + 1 \in Int
      /\ FirstYear \in Int /\ LastYear \in Int
  BY <1>1, YearEnds
<1>3. /\ YearStart(FirstYear - 9) \in Int /\ YearStart(LastYear + 10) \in Int
      /\ YearStart(x.y) \in Int /\ YearStart(x.y + 1) \in Int
  BY <1>1, <1>2, YearInt
<1>4. YearStart(FirstYear - 9) <= DayCount(x) /\ DayCount(x) < YearStart(LastYear + 10)
  BY DEF Covered
<1>5. ~(x.y + 1 <= FirstYear - 9)
  <2>1. SUFFICES ASSUME x.y + 1 <= FirstYear - 9 PROVE FALSE
    OBVIOUS
  <2>2. YearStart(x.y + 1) + 365 * ((FirstYear - 9) - (x.y + 1)) <= YearStart(FirstYear - 9)
    BY <1>2, <2>1, YearGrows
  <2> QED BY <1>1, <1>2, <1>3, <1>4, <2>1, <2>2
<1>6. ~(LastYear + 10 <= x.y)
  <2>1. SUFFICES ASSUME LastYear + 10 <= x.y PROVE FALSE
    OBVIOUS
  <2>2. YearStart(LastYear + 10) + 365 * (x.y - (LastYear + 10)) <= YearStart(x.y)
    BY <1>1, <1>2, <2>1, YearGrows
  <2> QED BY <1>1, <1>2, <1>3, <1>4, <2>1, <2>2
<1>7. FirstYear - 9 <= x.y /\ x.y <= LastYear + 9
  BY <1>1, <1>2, <1>5, <1>6
<1> QED BY <1>1, <1>7 DEF Wide

\* from_days gives every covered day its date.
LEMMA DayFound ==
  ASSUME NEW n, Covered(n)
  PROVE  RealDate(FromDays(n)) /\ DayCount(FromDays(n)) = n /\ Wide(FromDays(n).y)
<1>1. PICK x : RealDate(x) /\ DayCount(x) = n
  BY DateOn DEF Covered
<1>2. Wide(x.y)
  BY <1>1, CoveredYear
<1>3. FromDays(n) = x
  BY <1>1, <1>2, WideShort, FromDaysReturns
<1> QED BY <1>1, <1>2, <1>3

-----------------------------------------------------------------------------
(* The walk *)

\* The walks' days.
Within == /\ serial \in Int /\ start.serial \in Int /\ Span \in Int
          /\ start.serial - Span <= serial /\ serial <= start.serial + Span

DateInv == RealDate(date) /\ serial = DayCount(date)

WeekInv == wday = (serial + 4) % 7

WalkInv == start \in KnownDays /\ Within /\ DateInv /\ WeekInv

\* What is assumed of a known day.
LEMMA KnownDay ==
  ASSUME NEW k \in KnownDays
  PROVE  /\ k.serial \in Int /\ Span \in Int /\ 0 <= Span
         /\ RealDate(k.date) /\ k.serial = DayCount(k.date)
         /\ k.wday = (k.serial + 4) % 7
<1>1. k \in [serial : Int, date : [y : Int, m : 1 .. 12, d : 1 .. 31], wday : 0 .. 6]
  BY WalksAssumption
<1>2. k.serial \in Int /\ k.date \in [y : Int, m : 1 .. 12, d : 1 .. 31]
  BY <1>1
<1>3. Span \in Nat
  BY WalksAssumption
<1>4. /\ k.date.d <= LengthOf(k.date.y, k.date.m)
      /\ k.serial = DayCount(k.date)
      /\ k.wday = (k.serial + 4) % 7
  BY KnownDaysAssumption
<1>5. RealDate(k.date)
  BY <1>2, <1>4 DEF RealDate
<1> QED BY <1>2, <1>3, <1>4, <1>5

\* A walk starts at a known day.
LEMMA InitWalk == Init => WalkInv
<1> SUFFICES ASSUME Init PROVE WalkInv
  OBVIOUS
<1>1. start \in KnownDays /\ serial = start.serial /\ date = start.date /\ wday = start.wday
  BY DEF Init
<1>2. Within
  BY <1>1, KnownDay DEF Within
<1>3. DateInv
  BY <1>1, KnownDay DEF DateInv
<1>4. WeekInv
  BY <1>1, KnownDay DEF WeekInv
<1> QED BY <1>1, <1>2, <1>3, <1>4 DEF WalkInv

\* The day of the week one day on and one day back.
LEMMA WeekStep ==
  \A n \in Int : (((n + 4) % 7) + 1) % 7 = (n + 1 + 4) % 7 /\ (((n + 4) % 7) + 6) % 7 = (n - 1 + 4) % 7
OBVIOUS

\* The day after: the date after it has one more in the count.
LEMMA TomorrowWalks == WalkInv /\ Tomorrow => WalkInv'
<1> SUFFICES ASSUME WalkInv, Tomorrow PROVE WalkInv'
  OBVIOUS
<1>1. start \in KnownDays /\ Within /\ DateInv /\ WeekInv
  BY DEF WalkInv
<1>2. /\ start' = start /\ serial' = serial + 1 /\ date' = DayAfter(date)
      /\ wday' = (wday + 1) % 7
      /\ serial \in start.serial .. start.serial + Span - 1
  BY DEF Tomorrow
<1>3. Within'
  BY <1>1, <1>2 DEF Within
<1>4. RealDate(date) /\ DayCount(date) = serial /\ serial \in Int
  BY <1>1 DEF DateInv, Within
<1>5. DateInv'
  BY <1>2, <1>4, AfterCounts DEF DateInv
<1>6. WeekInv'
  BY <1>1, <1>2, <1>4, WeekStep DEF WeekInv
<1> QED BY <1>1, <1>2, <1>3, <1>5, <1>6 DEF WalkInv

\* The day before, likewise.
LEMMA YesterdayWalks == WalkInv /\ Yesterday => WalkInv'
<1> SUFFICES ASSUME WalkInv, Yesterday PROVE WalkInv'
  OBVIOUS
<1>1. start \in KnownDays /\ Within /\ DateInv /\ WeekInv
  BY DEF WalkInv
<1>2. /\ start' = start /\ serial' = serial - 1 /\ date' = DayBefore(date)
      /\ wday' = (wday + 6) % 7
      /\ serial \in start.serial - Span + 1 .. start.serial
  BY DEF Yesterday
<1>3. Within'
  BY <1>1, <1>2 DEF Within
<1>4. RealDate(date) /\ DayCount(date) = serial /\ serial \in Int
  BY <1>1 DEF DateInv, Within
<1>5. RealDate(date') /\ DayAfter(date') = date
  BY <1>2, <1>4, BeforeReturns
<1>6. DayCount(date') = serial - 1
  <2>1. DayCount(date') \in Int /\ serial = DayCount(date') + 1
    BY <1>4, <1>5, AfterCounts
  <2> QED BY <1>4, <2>1
<1>7. DateInv'
  BY <1>2, <1>5, <1>6 DEF DateInv
<1>8. WeekInv'
  BY <1>1, <1>2, <1>4, WeekStep DEF WeekInv
<1> QED BY <1>1, <1>2, <1>3, <1>7, <1>8 DEF WalkInv

\* The invariant of the walk.
LEMMA WalkHolds == Spec => []WalkInv
<1>1. WalkInv /\ [Next]_vars => WalkInv'
  <2>1. WalkInv /\ UNCHANGED vars => WalkInv'
    BY DEF WalkInv, Within, DateInv, WeekInv, vars
  <2> QED BY <2>1, TomorrowWalks, YesterdayWalks DEF Next
<1> QED BY <1>1, InitWalk, PTL DEF Spec

\* The walk and the days compared with it stay where a short holds the year.
LEMMA WalkReach ==
  ASSUME WalkInv, NEW o \in Offsets \cup {0}
  PROVE  o \in Int /\ InReach(serial + o)
<1>1. start \in KnownDays /\ Within
  BY DEF WalkInv
<1>2. /\ YearStart(FirstYear) <= start.serial - Span + o
      /\ start.serial + Span + o < YearStart(LastYear + 1)
  BY <1>1, KnownDaysAssumption
<1>3. o \in Int
  BY WalksAssumption
<1>4. YearStart(FirstYear) \in Int /\ YearStart(LastYear + 1) \in Int
  BY YearEnds, YearInt
<1>5. /\ serial \in Int /\ start.serial \in Int /\ Span \in Int
      /\ start.serial - Span <= serial /\ serial <= start.serial + Span
  BY <1>1 DEF Within
<1>6. YearStart(FirstYear) <= serial + o /\ serial + o < YearStart(LastYear + 1)
  BY <1>2, <1>3, <1>4, <1>5
<1> QED BY <1>3, <1>5, <1>6 DEF InReach

\* What the invariant says of the day walked to.
LEMMA Today ==
  ASSUME WalkInv
  PROVE  /\ RealDate(date) /\ serial = DayCount(date) /\ Wide(date.y)
         /\ InReach(serial) /\ serial \in Int /\ wday = (serial + 4) % 7
<1>1. InReach(serial + 0)
  BY WalkReach
<1>2. serial \in Int /\ DateInv /\ WeekInv
  BY DEF WalkInv, Within
<1>3. InReach(serial)
  <2>1. serial + 0 = serial
    BY <1>2
  <2> QED BY <1>1, <2>1
<1>4. Covered(serial)
  <2>1. Covered(serial + 0)
    <3>1. Near(0)
      BY SMT DEF Near
    <3> QED BY <1>3, <3>1, ReachCovered
  <2>2. serial + 0 = serial
    BY <1>2
  <2> QED BY <2>1, <2>2
<1> QED BY <1>2, <1>3, <1>4, CoveredYear DEF DateInv, WeekInv

-----------------------------------------------------------------------------
\* year_month_day's from_days and to_days, and every class's ok(), agree with
\* the calendar on every day of every walk.
THEOREM CivilDatesAgree == Spec => []CivilDates
<1>1. WalkInv => CivilDates
  <2> SUFFICES ASSUME WalkInv PROVE CivilDates
    OBVIOUS
  <2>1. RealDate(date) /\ serial = DayCount(date) /\ Wide(date.y)
    BY Today
  <2>2. Short(date.y) /\ date.y # -32768
    BY <2>1, WideShort
  <2>3. FromDays(serial) = date
    BY <2>1, <2>2, FromDaysReturns
  <2>4. ToDays(date) = serial
    <3>1. date.y \in Int /\ date.m \in 1 .. 12 /\ date.d \in Int
      BY <2>1 DEF RealDate
    <3> QED BY <2>1, <3>1, ToDaysCounts
  <2>5. MonthsEnd
    BY SMT, <2>1, <2>2, MonthsEndRight DEF MonthsEnd
  <2> QED BY <2>3, <2>4, <2>5 DEF CivilDates
<1> QED BY <1>1, WalkHolds, PTL

-----------------------------------------------------------------------------
(* The days of the week, by remainders *)

LEMMA WeekdayIs == \A z \in Int : WeekdayFromDays(z) = (z + 4) % 7
BY SMT DEF WeekdayFromDays, Unsigned7

\* The days from one weekday to another.
LEMMA WeekdayMinusIs == \A v, w \in Int : WeekdayMinus(v, w) = (v - w) % 7
BY SMT DEF WeekdayMinus, Quot

\* A weekday some days on.
LEMMA WeekdayPlusIs == \A v, k \in Int : WeekdayPlus(v, k) = (v + k) % 7
BY SMT DEF WeekdayPlus, Weekday, Quot

\* The ISO day of the week, 1 to 7.
LEMMA IsoWeekdayIs == \A z \in Int : IsoWeekdayFromDays(z) = ((z + 3) % 7) + 1
BY SMT DEF IsoWeekdayFromDays, Rem, Quot

\* An ISO weekday some days on.
LEMMA IsoWeekdayPlusIs == \A v, k \in Int : IsoWeekdayPlus(v, k) = ((v - 1 + k) % 7) + 1
BY SMT DEF IsoWeekdayPlus, Quot

\* The days from one ISO weekday to another.
LEMMA IsoWeekdayMinusIs ==
  \A v, w \in Int : 1 <= v /\ v <= 7 /\ 1 <= w /\ w <= 7 => IsoWeekdayMinus(v, w) = (v - w) % 7
BY SMT DEF IsoWeekdayMinus

\* The two encodings of a day of the week.
LEMMA Encodings ==
  \A z \in Int : /\ IsoEncoding((z + 4) % 7) = ((z + 3) % 7) + 1
                 /\ CWeekday(((z + 3) % 7) + 1) = (z + 4) % 7
BY SMT DEF IsoEncoding, CWeekday, Weekday

\* Adding before or after the remainder is the same.
LEMMA RoundTheWeek ==
  \A n, k \in Int :
    /\ (((n + 4) % 7) + k) % 7 = (n + k + 4) % 7
    /\ ((((n + 3) % 7) + 1) - 1 + k) % 7 = (n + k + 3) % 7
BY SMT

\* An ISO weekday is one of seven.
LEMMA IsoInWeek ==
  \A z \in Int : ((z + 3) % 7) + 1 \in Int /\ 1 <= ((z + 3) % 7) + 1 /\ ((z + 3) % 7) + 1 <= 7
BY SMT

-----------------------------------------------------------------------------
(* The days of a month, counted from its first *)

First(y, m) == YearStart(y) + MonthStart(y, m)

\* A month's first day is a number.
LEMMA FirstInt == \A y, m \in Int : 1 <= m /\ m <= 12 => First(y, m) \in Int
BY YearInt, MonthStartInt DEF First

\* to_days of a day of a month counts from the month's first, also beyond its end.
LEMMA FirstIs ==
  ASSUME NEW y \in Int, Short(y), NEW m \in Int, 1 <= m, m <= 12, NEW d \in Int, 0 <= d, d <= 31
  PROVE  /\ YearMonthDay(y, m, d) = [y |-> y, m |-> m, d |-> d]
         /\ ToDays(YearMonthDay(y, m, d)) = First(y, m) + d - 1
<1>1. YearMonthDay(y, m, d) = [y |-> y, m |-> m, d |-> d]
  BY YearKept, Narrowed DEF YearMonthDay
<1> DEFINE x == [y |-> y, m |-> m, d |-> d]
<1>2. x.y \in Int /\ x.m \in 1 .. 12 /\ x.d \in Int
  OBVIOUS
<1>3. DayCount(x) = First(y, m) + d - 1
  BY DEF DayCount, First
<1> HIDE DEF x
<1>4. ToDays(x) = DayCount(x)
  BY <1>2, ToDaysCounts
<1> QED BY <1>1, <1>3, <1>4 DEF x

\* The date of a day of a month.
LEMMA DayIn ==
  ASSUME NEW y \in Int, Short(y), NEW m \in Int, 1 <= m, m <= 12,
         NEW d \in Int, 1 <= d, d <= LengthOf(y, m)
  PROVE  FromDays(First(y, m) + d - 1) = [y |-> y, m |-> m, d |-> d]
<1> DEFINE x == [y |-> y, m |-> m, d |-> d]
<1>1. RealDate(x) /\ x.y = y
  BY DEF RealDate
<1>2. DayCount(x) = First(y, m) + d - 1
  BY DEF DayCount, First
<1> HIDE DEF x
<1>3. FromDays(DayCount(x)) = x
  BY <1>1, FromDaysReturns
<1> QED BY <1>2, <1>3 DEF x

\* The month after a month begins on the day after its last.
NextMonthOf(y, m) == IF m = 12 THEN [y |-> y + 1, m |-> 1] ELSE [y |-> y, m |-> m + 1]

\* The next month begins after this one's last day.
LEMMA NextFirst ==
  ASSUME NEW y \in Int, NEW m \in Int, 1 <= m, m <= 12
  PROVE  LET n == NextMonthOf(y, m)
         IN  First(n.y, n.m) = First(y, m) + LengthOf(y, m)
<1>1. CASE m = 12
  <2>1. /\ YearStart(y) \in Int /\ YearStart(y + 1) \in Int
        /\ YearStart(y + 1) = YearStart(y) + MonthStart(y, 12) + 31
        /\ MonthStart(y + 1, 1) = 0
    BY NextYear
  <2>2. LengthOf(y, 12) = 31
    BY LengthIs
  <2>3. MonthStart(y, 12) \in Int
    BY MonthStartInt
  <2>4. First(y + 1, 1) = First(y, 12) + LengthOf(y, 12)
    BY <2>1, <2>2, <2>3 DEF First
  <2> QED BY <1>1, <2>4 DEF NextMonthOf
<1>2. CASE m # 12
  <2>1. MonthStart(y, m + 1) = MonthStart(y, m) + LengthOf(y, m)
    BY <1>2, NextMonth
  <2>2. MonthStart(y, m) \in Int /\ LengthOf(y, m) \in Int /\ YearStart(y) \in Int
    BY YearInt, MonthStartInt, LengthRange
  <2>3. First(y, m + 1) = First(y, m) + LengthOf(y, m)
    BY <2>1, <2>2 DEF First
  <2> QED BY <1>2, <2>3 DEF NextMonthOf
<1> QED BY <1>1, <1>2

\* A day up to four weeks beyond a month's last is in the next month.
LEMMA DayBeyond ==
  ASSUME NEW y \in Int, Short(y), Short(y + 1), NEW m \in Int, 1 <= m, m <= 12,
         NEW d \in Int, LengthOf(y, m) < d, d <= LengthOf(y, m) + 28
  PROVE  FromDays(First(y, m) + d - 1).m # m
<1> DEFINE n == NextMonthOf(y, m)
           e == d - LengthOf(y, m)
<1>1. LengthOf(y, m) \in Int /\ First(y, m) \in Int
  BY LengthRange, FirstInt
<1>2. /\ n.y \in Int /\ Short(n.y) /\ n.m \in Int /\ 1 <= n.m /\ n.m <= 12 /\ n.m # m
  BY DEF NextMonthOf
<1>3. First(n.y, n.m) = First(y, m) + LengthOf(y, m)
  BY NextFirst
<1>4. e \in Int /\ 1 <= e /\ e <= 28
  BY <1>1
<1>5. First(n.y, n.m) + e - 1 = First(y, m) + d - 1
  BY <1>1, <1>3
<1> HIDE DEF n, e
<1>6. LengthOf(n.y, n.m) \in Int /\ 28 <= LengthOf(n.y, n.m)
  BY <1>2, LengthRange
<1>7. e <= LengthOf(n.y, n.m)
  BY <1>4, <1>6
<1>8. FromDays(First(n.y, n.m) + e - 1) = [y |-> n.y, m |-> n.m, d |-> e]
  BY <1>2, <1>4, <1>7, DayIn
<1> QED BY <1>2, <1>5, <1>8

-----------------------------------------------------------------------------
(* The n-th and the last such day of a month *)

LEMMA Indexed ==
  \A wd, i \in Int : 0 <= wd /\ wd <= 6 /\ 0 <= i /\ i <= 15 =>
    WeekdayIndexed(wd, i) = [wd |-> wd, i |-> i]
BY SMT DEF WeekdayIndexed

\* Today's date, from its month's first.
LEMMA TodayIs ==
  ASSUME WalkInv
  PROVE  /\ date = [y |-> date.y, m |-> date.m, d |-> date.d]
         /\ date.y \in Int /\ Short(date.y) /\ Short(date.y + 1) /\ Short(date.y - 1)
         /\ date.m \in Int /\ 1 <= date.m /\ date.m <= 12
         /\ date.d \in Int /\ 1 <= date.d /\ date.d <= LengthOf(date.y, date.m)
         /\ LengthOf(date.y, date.m) \in Int
         /\ 28 <= LengthOf(date.y, date.m) /\ LengthOf(date.y, date.m) <= 31
         /\ First(date.y, date.m) \in Int
         /\ serial \in Int /\ serial = First(date.y, date.m) + date.d - 1
         /\ wday = (serial + 4) % 7 /\ wday \in Int /\ 0 <= wday /\ wday <= 6
         /\ FromDays(serial) = date
<1>1. /\ RealDate(date) /\ serial = DayCount(date) /\ Wide(date.y) /\ serial \in Int
      /\ wday = (serial + 4) % 7
  BY Today
<1>2. /\ date = [y |-> date.y, m |-> date.m, d |-> date.d]
      /\ date.y \in Int
      /\ date.m \in Int /\ 1 <= date.m /\ date.m <= 12
      /\ date.d \in Int /\ 1 <= date.d /\ date.d <= LengthOf(date.y, date.m)
  BY <1>1 DEF RealDate
<1>3. Short(date.y) /\ Short(date.y + 1) /\ Short(date.y - 1)
  BY SMT, <1>1 DEF Wide, Short, FirstYear, LastYear
<1>4. /\ LengthOf(date.y, date.m) \in Int
      /\ 28 <= LengthOf(date.y, date.m) /\ LengthOf(date.y, date.m) <= 31
  BY <1>2, LengthRange
<1>5. First(date.y, date.m) \in Int
  BY <1>2, FirstInt
<1>6. serial = First(date.y, date.m) + date.d - 1
  BY <1>1 DEF DayCount, First
<1>7. wday \in Int /\ 0 <= wday /\ wday <= 6
  BY <1>1
<1>8. FromDays(serial) = date
  BY <1>1, <1>3, FromDaysReturns
<1> QED BY <1>1, <1>2, <1>3, <1>4, <1>5, <1>6, <1>7, <1>8

\* A weekday's n-th day of a month, for an n of 1 to 5.
LEMMA NthIs ==
  ASSUME NEW y \in Int, Short(y), NEW m \in Int, 1 <= m, m <= 12,
         NEW wd \in Int, NEW i \in Int
  PROVE  YearMonthWeekdayToDays([y |-> y, m |-> m, wdi |-> [wd |-> wd, i |-> i]])
           = First(y, m) + ((wd - ((First(y, m) + 4) % 7)) % 7) + (i - 1) * 7
<1>1. FirstOfMonth(y, m) = First(y, m) /\ First(y, m) \in Int
  <2>1. ToDays(YearMonthDay(y, m, 1)) = First(y, m) + 1 - 1
    BY FirstIs
  <2>2. First(y, m) \in Int
    BY FirstInt
  <2> QED BY <2>1, <2>2 DEF FirstOfMonth
<1>2. WeekdayFromDays(First(y, m)) = (First(y, m) + 4) % 7
  BY <1>1, WeekdayIs
<1>3. PICK v \in Int : v = (First(y, m) + 4) % 7
  BY <1>1
<1>4. WeekdayMinus(wd, v) = (wd - v) % 7
  BY WeekdayMinusIs
<1> QED BY <1>1, <1>2, <1>3, <1>4 DEF YearMonthWeekdayToDays

\* A month's first such weekday and whole weeks lead to the day.
LEMMA PlaceInMonth ==
  \A f, d \in Int : 1 <= d =>
    f + (((((f + d - 1) + 4) % 7) - ((f + 4) % 7)) % 7) + ((((d - 1) \div 7) + 1) - 1) * 7 = f + d - 1
BY SMT

\* A date as the n-th such weekday of its month.
LEMMA IndexedDate ==
  ASSUME NEW x, RealDate(x), Wide(x.y), NEW n \in Int, n = DayCount(x)
  PROVE  LET ymw == YearMonthWeekdayFromDays(n)
         IN  /\ ymw = [y |-> x.y, m |-> x.m,
                       wdi |-> [wd |-> (n + 4) % 7, i |-> ((x.d - 1) \div 7) + 1]]
             /\ YearMonthWeekdayToDays(ymw) = n
             /\ YearMonthWeekdayOk(ymw) /\ WeekdayIndexedOk(ymw.wdi)
<1>1. PICK y \in Int, m \in Int, d \in Int : y = x.y /\ m = x.m /\ d = x.d
  BY DEF RealDate
<1>2. 1 <= m /\ m <= 12 /\ 1 <= d /\ d <= LengthOf(y, m)
  BY <1>1 DEF RealDate
<1>3. Short(y) /\ YearOk(y)
  BY <1>1, WideShort DEF YearOk
<1>4. LengthOf(y, m) \in Int /\ LengthOf(y, m) <= 31
  BY <1>2, LengthRange
<1>5. PICK f \in Int : f = First(y, m)
  BY <1>2, FirstInt
<1>6. n = f + d - 1
  BY <1>1, <1>5 DEF DayCount, First
<1>7. PICK wd \in Int : wd = (n + 4) % 7
  OBVIOUS
<1>8. PICK i \in Int : i = ((d - 1) \div 7) + 1
  OBVIOUS
<1>9. 0 <= wd /\ wd <= 6 /\ 1 <= i /\ i <= 5
  BY <1>2, <1>4, <1>7, <1>8
<1> DEFINE ymw == [y |-> y, m |-> m, wdi |-> [wd |-> wd, i |-> i]]
<1>10. YearMonthWeekdayFromDays(n) = ymw
  <2>1. FromDays(n) = x
    BY <1>1, <1>3, FromDaysReturns
  <2>2. WeekdayFromDays(n) = wd
    BY <1>7, WeekdayIs
  <2>3. WeekdayIndexed(wd, i) = [wd |-> wd, i |-> i]
    BY <1>9, Indexed
  <2>4. Year(y) = y /\ Month(m) = m
    BY <1>2, <1>3, YearKept, Narrowed
  <2> QED BY <1>1, <1>8, <2>1, <2>2, <2>3, <2>4 DEF YearMonthWeekdayFromDays, YearMonthWeekday
<1>11. PICK r \in Int : r = (wd - ((f + 4) % 7)) % 7
  BY <1>5
<1>12. f + r + (i - 1) * 7 = n
  BY <1>2, <1>6, <1>7, <1>8, <1>11, PlaceInMonth
<1>13. YearMonthWeekdayToDays(ymw) = n
  BY <1>2, <1>3, <1>5, <1>11, <1>12, NthIs
<1>14. YearMonthWeekdayOk(ymw)
  <2>1. MonthOk(m) /\ WeekdayOk(wd)
    BY <1>2, <1>9 DEF MonthOk, WeekdayOk
  <2>2. FirstOfMonth(y, m) = f
    <3>1. ToDays(YearMonthDay(y, m, 1)) = f + 1 - 1
      BY <1>2, <1>3, <1>5, FirstIs
    <3> QED BY <3>1 DEF FirstOfMonth
  <2>3. WeekdayMinus(wd, WeekdayFromDays(f)) = r
    <3>1. WeekdayFromDays(f) = (f + 4) % 7 /\ (f + 4) % 7 \in Int
      BY WeekdayIs
    <3> QED BY <1>11, <3>1, WeekdayMinusIs
  <2>4. LastDay(YearMonthDayLast(y, m)) = LengthOf(y, m)
    BY <1>2, <1>3, LastDayIs
  <2>5. r + (i - 1) * 7 + 1 <= LengthOf(y, m)
    BY <1>2, <1>4, <1>6, <1>12
  <2> QED BY <1>3, <1>9, <2>1, <2>2, <2>3, <2>4, <2>5 DEF YearMonthWeekdayOk
<1>15. WeekdayIndexedOk([wd |-> wd, i |-> i])
  BY <1>9 DEF WeekdayIndexedOk, WeekdayOk
<1> QED BY <1>1, <1>7, <1>8, <1>10, <1>13, <1>14, <1>15

\* So it is of the day walked to.
LEMMA TodayIndexed ==
  ASSUME WalkInv
  PROVE  /\ YearMonthWeekdayFromDays(serial)
              = [y |-> date.y, m |-> date.m,
                 wdi |-> [wd |-> wday, i |-> ((date.d - 1) \div 7) + 1]]
         /\ YearMonthWeekdayToDays(YearMonthWeekdayFromDays(serial)) = serial
BY Today, IndexedDate

\* A fifth such day is refused exactly when it lies in the next month.
LEMMA FifthRefused ==
  ASSUME WalkInv
  PROVE  LET fifth == YearMonthWeekday(date.y, date.m, WeekdayIndexed(wday, 5))
         IN  YearMonthWeekdayOk(fifth) <=> FromDays(YearMonthWeekdayToDays(fifth)).m = date.m
<1> DEFINE fifth == [y |-> date.y, m |-> date.m, wdi |-> [wd |-> wday, i |-> 5]]
<1>1. PICK y \in Int, m \in Int : y = date.y /\ m = date.m
  BY TodayIs
<1>2. /\ Short(y) /\ Short(y + 1) /\ 1 <= m /\ m <= 12
      /\ wday \in Int /\ 0 <= wday /\ wday <= 6
      /\ LengthOf(y, m) \in Int /\ 28 <= LengthOf(y, m) /\ LengthOf(y, m) <= 31
      /\ First(y, m) \in Int
  BY <1>1, TodayIs
<1>3. YearMonthWeekday(date.y, date.m, WeekdayIndexed(wday, 5)) = fifth
  <2>1. WeekdayIndexed(wday, 5) = [wd |-> wday, i |-> 5]
    BY <1>2, Indexed
  <2>2. Year(y) = y /\ Month(m) = m
    BY <1>2, YearKept, Narrowed
  <2> QED BY <1>1, <2>1, <2>2 DEF YearMonthWeekday
<1>4. PICK r \in Int : r = (wday - ((First(y, m) + 4) % 7)) % 7
  BY <1>2
<1>5. 0 <= r /\ r <= 6
  BY <1>2, <1>4
<1>6. YearMonthWeekdayToDays(fifth) = First(y, m) + (r + 29) - 1
  <2>1. YearMonthWeekdayToDays(fifth)
          = First(y, m) + ((wday - ((First(y, m) + 4) % 7)) % 7) + (5 - 1) * 7
    BY <1>1, <1>2, NthIs
  <2> QED BY <1>2, <1>4, <2>1
<1>7. YearMonthWeekdayOk(fifth) <=> r + 29 <= LengthOf(y, m)
  <2>1. YearOk(y) /\ MonthOk(m) /\ WeekdayOk(wday)
    <3>1. y # -32768
      BY SMT, <1>1, Today DEF Wide, FirstYear, LastYear
    <3> QED BY <1>2, <3>1 DEF YearOk, MonthOk, WeekdayOk
  <2>2. WeekdayMinus(wday, WeekdayFromDays(FirstOfMonth(y, m))) = r
    <3>1. FirstOfMonth(y, m) = First(y, m)
      <4>1. ToDays(YearMonthDay(y, m, 1)) = First(y, m) + 1 - 1
        BY <1>2, FirstIs
      <4> QED BY <1>2, <4>1 DEF FirstOfMonth
    <3>2. WeekdayFromDays(First(y, m)) = (First(y, m) + 4) % 7
      BY <1>2, WeekdayIs
    <3>3. (First(y, m) + 4) % 7 \in Int
      BY <1>2
    <3> QED BY ZenonT(40), <1>2, <1>4, <3>1, <3>2, <3>3, WeekdayMinusIs
  <2>3. LastDay(YearMonthDayLast(y, m)) = LengthOf(y, m)
    BY <1>2, LastDayIs
  <2>4. YearMonthWeekdayOk(fifth) <=>
          r + (5 - 1) * 7 + 1 <= LengthOf(y, m)
    BY <1>1, <2>1, <2>2, <2>3 DEF YearMonthWeekdayOk
  <2> QED BY <1>2, <1>5, <2>4
<1> HIDE DEF fifth
<1>8. CASE r + 29 <= LengthOf(y, m)
  <2>1. FromDays(First(y, m) + (r + 29) - 1) = [y |-> y, m |-> m, d |-> r + 29]
    BY <1>2, <1>5, <1>8, DayIn
  <2> QED BY <1>1, <1>3, <1>6, <1>7, <1>8, <2>1
<1>9. CASE LengthOf(y, m) < r + 29
  <2>1. FromDays(First(y, m) + (r + 29) - 1).m # m
    BY <1>2, <1>5, <1>9, DayBeyond
  <2>2. ~(r + 29 <= LengthOf(y, m))
    BY <1>2, <1>5, <1>9
  <2> QED BY <1>1, <1>3, <1>6, <1>7, <2>1, <2>2
<1> QED BY <1>2, <1>5, <1>8, <1>9

\* The last such weekday is at most six days before the month's end.
LEMMA BackToWeekday ==
  \A l, wd \in Int : 0 <= wd /\ wd <= 6 =>
    LET r == (((l + 4) % 7) - wd) % 7
    IN  0 <= r /\ r <= 6 /\ ((l - r) + 4) % 7 = wd
BY SMT

\* The last such day of a month is less than a week before its end.
LEMMA LastFound ==
  ASSUME WalkInv
  PROVE  LET last == YearMonthWeekdayLastToDays(YearMonthWeekdayLast(date.y, date.m, wday))
         IN  /\ WeekdayFromDays(last) = wday
             /\ FromDays(last).m = date.m /\ FromDays(last + 7).m # date.m
<1>1. PICK y \in Int, m \in Int : y = date.y /\ m = date.m
  BY TodayIs
<1>2. /\ Short(y) /\ Short(y + 1) /\ 1 <= m /\ m <= 12
      /\ wday \in Int /\ 0 <= wday /\ wday <= 6
      /\ LengthOf(y, m) \in Int /\ 28 <= LengthOf(y, m) /\ LengthOf(y, m) <= 31
      /\ First(y, m) \in Int
  BY <1>1, TodayIs
<1>3. YearMonthWeekdayLast(date.y, date.m, wday) = [y |-> y, m |-> m, wd |-> wday]
  BY <1>1, <1>2, YearKept, Narrowed DEF YearMonthWeekdayLast
<1>4. PICK l \in Int : l = First(y, m) + LengthOf(y, m) - 1
  BY <1>2
<1>5. PICK r \in Int : r = (((l + 4) % 7) - wday) % 7
  BY <1>2
<1>6. 0 <= r /\ r <= 6 /\ ((l - r) + 4) % 7 = wday
  BY <1>2, <1>5, BackToWeekday
<1>7. YearMonthWeekdayLastToDays([y |-> y, m |-> m, wd |-> wday]) = l - r
  <2>1. LastDay(YearMonthDayLast(y, m)) = LengthOf(y, m)
    BY <1>2, LastDayIs
  <2>2. ToDays(YearMonthDay(y, m, LengthOf(y, m))) = l
    BY <1>2, <1>4, FirstIs
  <2>3. WeekdayMinus(WeekdayFromDays(l), wday) = r
    <3>1. WeekdayFromDays(l) = (l + 4) % 7 /\ (l + 4) % 7 \in Int
      BY WeekdayIs
    <3> QED BY <1>2, <1>5, <3>1, WeekdayMinusIs
  <2> QED BY <2>1, <2>2, <2>3 DEF YearMonthWeekdayLastToDays
<1>8. PICK d \in Int : d = LengthOf(y, m) - r
  BY <1>2
<1>9. 1 <= d /\ d <= LengthOf(y, m) /\ l - r = First(y, m) + d - 1
  BY <1>2, <1>4, <1>6, <1>8
<1>10. /\ LengthOf(y, m) < d + 7 /\ d + 7 <= LengthOf(y, m) + 28
       /\ (l - r) + 7 = First(y, m) + (d + 7) - 1
  BY <1>2, <1>4, <1>6, <1>8
<1>11. FromDays(l - r) = [y |-> y, m |-> m, d |-> d]
  BY <1>2, <1>9, DayIn
<1>12. FromDays((l - r) + 7).m # m
  BY <1>2, <1>10, DayBeyond
<1>13. WeekdayFromDays(l - r) = wday
  BY <1>6, WeekdayIs
<1> QED BY <1>1, <1>3, <1>7, <1>11, <1>12, <1>13

\* The places of days among their month's days of the same name.
LEMMA NthHold == WalkInv => NthWeekdays
<1> SUFFICES ASSUME WalkInv PROVE NthWeekdays
  OBVIOUS
<1>1. YearMonthWeekdayToDays(YearMonthWeekdayFromDays(serial)) = serial
  BY TodayIndexed
<1>2. /\ YearMonthWeekdayFromDays(serial).wdi.wd = wday
      /\ YearMonthWeekdayFromDays(serial).wdi.i \in 1 .. 5
  <2>1. ((date.d - 1) \div 7) + 1 \in 1 .. 5
    <3>1. date.d \in Int /\ 1 <= date.d /\ date.d <= 31
      BY TodayIs
    <3> QED BY <3>1
  <2> QED BY <2>1, TodayIndexed
<1> QED BY <1>1, <1>2, FifthRefused, LastFound DEF NthWeekdays

\* Both weekday classes go round the week as the days do, and a day is found
\* again by its place among its month's days of that name.
THEOREM WeekdaysGoRound == Spec => []WeekdaysAgree
<1>1. WalkInv => WeekdaysAgree
  <2> SUFFICES ASSUME WalkInv PROVE WeekdaysAgree
    OBVIOUS
  <2>1. serial \in Int /\ wday = (serial + 4) % 7
    BY TodayIs
  <2>2. WeekdayFromDays(serial) = wday
    BY <2>1, WeekdayIs
  <2>3. PICK iso \in Int : iso = ((serial + 3) % 7) + 1
    BY <2>1
  <2>4. IsoWeekdayFromDays(serial) = iso /\ 1 <= iso /\ iso <= 7
    BY <2>1, <2>3, IsoWeekdayIs, IsoInWeek
  <2>5. IsoEncoding(wday) = iso /\ CWeekday(iso) = wday
    BY <2>1, <2>3, Encodings
  <2>6. ASSUME NEW k \in Offsets
        PROVE  /\ WeekdayPlus(wday, k) = WeekdayFromDays(serial + k)
               /\ WeekdayMinus(WeekdayFromDays(serial + k), wday) = k % 7
               /\ IsoWeekdayPlus(iso, k) = IsoWeekdayFromDays(serial + k)
               /\ IsoWeekdayMinus(IsoWeekdayFromDays(serial + k), iso) = k % 7
    <3>1. k \in Int
      BY WalksAssumption
    <3>2. PICK v \in Int : v = (serial + k + 4) % 7
      BY <2>1, <3>1
    <3>3. WeekdayFromDays(serial + k) = v
      BY <2>1, <3>1, <3>2, WeekdayIs
    <3>4. PICK w \in Int : w = ((serial + k + 3) % 7) + 1
      BY <2>1, <3>1
    <3>5. IsoWeekdayFromDays(serial + k) = w /\ 1 <= w /\ w <= 7
      BY <2>1, <3>1, <3>4, IsoWeekdayIs, IsoInWeek
    <3>6. wday \in Int
      BY TodayIs
    <3>7. WeekdayPlus(wday, k) = v
      BY <2>1, <3>1, <3>2, <3>6, WeekdayPlusIs, RoundTheWeek
    <3>8. WeekdayMinus(v, wday) = k % 7
      <4>1. WeekdayMinus(v, wday) = (v - wday) % 7
        BY <3>6, WeekdayMinusIs
      <4>2. (v - wday) % 7 = k % 7
        BY SMT, <2>1, <3>1, <3>2
      <4> QED BY <4>1, <4>2
    <3>9. IsoWeekdayPlus(iso, k) = w
      BY <2>1, <2>3, <3>1, <3>4, IsoWeekdayPlusIs, RoundTheWeek
    <3>10. IsoWeekdayMinus(w, iso) = k % 7
      <4>1. IsoWeekdayMinus(w, iso) = (w - iso) % 7
        BY <2>4, <3>5, IsoWeekdayMinusIs
      <4>2. (w - iso) % 7 = k % 7
        BY SMT, <2>1, <2>3, <3>1, <3>4
      <4> QED BY <4>1, <4>2
    <3> QED BY <3>3, <3>5, <3>7, <3>8, <3>9, <3>10
  <2> QED BY <2>2, <2>4, <2>5, <2>6, NthHold DEF WeekdaysAgree
<1> QED BY <1>1, WalkHolds, PTL

-----------------------------------------------------------------------------
(* The order of dates *)

\* Tuples of two and of three numbers, first component first.
LEMMA Before2 ==
  ASSUME NEW a, NEW b, NEW c, NEW d
  PROVE  Before(<<a, b>>, <<c, d>>) <=> a < c \/ (a = c /\ b < d)
<1> DEFINE s == <<a, b>>
           t == <<c, d>>
<1>1. /\ DOMAIN s = {1, 2} /\ s[1] = a /\ s[2] = b
      /\ t[1] = c /\ t[2] = d
  OBVIOUS
<1>2. (1 .. 1 - 1) = {} /\ (1 .. 2 - 1) = {1}
  OBVIOUS
<1> HIDE DEF s, t
<1>3. Before(s, t) <=> \E i \in {1, 2} : s[i] < t[i] /\ \A j \in 1 .. i - 1 : s[j] = t[j]
  BY <1>1 DEF Before
<1>4. (\E i \in {1, 2} : s[i] < t[i] /\ \A j \in 1 .. i - 1 : s[j] = t[j])
        <=> \/ s[1] < t[1] /\ \A j \in 1 .. 1 - 1 : s[j] = t[j]
            \/ s[2] < t[2] /\ \A j \in 1 .. 2 - 1 : s[j] = t[j]
  OBVIOUS
<1>5. Before(s, t) <=> \/ s[1] < t[1]
                       \/ s[2] < t[2] /\ s[1] = t[1]
  BY <1>2, <1>3, <1>4
<1>6. Before(s, t) <=> a < c \/ (a = c /\ b < d)
  BY <1>1, <1>5
<1> QED BY <1>6 DEF s, t

\* Three numbers in order.
LEMMA Before3 ==
  ASSUME NEW a, NEW b, NEW c, NEW d, NEW e, NEW f
  PROVE  Before(<<a, b, c>>, <<d, e, f>>)
           <=> a < d \/ (a = d /\ (b < e \/ (b = e /\ c < f)))
<1> DEFINE s == <<a, b, c>>
           t == <<d, e, f>>
<1>1. /\ DOMAIN s = {1, 2, 3} /\ s[1] = a /\ s[2] = b /\ s[3] = c
      /\ t[1] = d /\ t[2] = e /\ t[3] = f
  OBVIOUS
<1>2. (1 .. 1 - 1) = {} /\ (1 .. 2 - 1) = {1} /\ (1 .. 3 - 1) = {1, 2}
  OBVIOUS
<1> HIDE DEF s, t
<1>3. Before(s, t) <=> \E i \in {1, 2, 3} : s[i] < t[i] /\ \A j \in 1 .. i - 1 : s[j] = t[j]
  BY <1>1 DEF Before
<1>4. (\E i \in {1, 2, 3} : s[i] < t[i] /\ \A j \in 1 .. i - 1 : s[j] = t[j])
        <=> \/ s[1] < t[1] /\ \A j \in 1 .. 1 - 1 : s[j] = t[j]
            \/ s[2] < t[2] /\ \A j \in 1 .. 2 - 1 : s[j] = t[j]
            \/ s[3] < t[3] /\ \A j \in 1 .. 3 - 1 : s[j] = t[j]
  OBVIOUS
<1>5. Before(s, t) <=> \/ s[1] < t[1]
                       \/ s[2] < t[2] /\ s[1] = t[1]
                       \/ s[3] < t[3] /\ s[1] = t[1] /\ s[2] = t[2]
  BY <1>2, <1>3, <1>4
<1>6. Before(s, t) <=> a < d \/ (a = d /\ (b < e \/ (b = e /\ c < f)))
  BY <1>1, <1>5
<1> QED BY <1>6 DEF s, t

Earlier(a, b) == a.y < b.y \/ (a.y = b.y /\ (a.m < b.m \/ (a.m = b.m /\ a.d < b.d)))

\* An earlier date is an earlier day.
LEMMA EarlierCounts ==
  ASSUME NEW a, RealDate(a), NEW b, RealDate(b), Earlier(a, b)
  PROVE  DayCount(a) < DayCount(b)
<1>1. /\ a.y \in Int /\ a.m \in Int /\ 1 <= a.m /\ a.m <= 12
      /\ a.d \in Int /\ 1 <= a.d /\ a.d <= LengthOf(a.y, a.m)
      /\ b.y \in Int /\ b.m \in Int /\ 1 <= b.m /\ b.m <= 12
      /\ b.d \in Int /\ 1 <= b.d
  BY DEF RealDate
<1>2. CASE a.y < b.y
  <2>1. /\ DayCount(a) \in Int /\ DayCount(a) < YearStart(a.y + 1)
        /\ DayCount(b) \in Int /\ YearStart(b.y) <= DayCount(b)
    BY InYear
  <2>2. /\ YearStart(a.y + 1) + 365 * (b.y - (a.y + 1)) <= YearStart(b.y)
        /\ YearStart(a.y + 1) \in Int /\ YearStart(b.y) \in Int
    <3>1. a.y + 1 \in Int /\ a.y + 1 <= b.y
      BY <1>1, <1>2
    <3> QED BY ZenonT(40), <1>1, <3>1, YearGrows, YearInt
  <2> QED BY <1>1, <1>2, <2>1, <2>2
<1>3. /\ DayCount(a) = First(a.y, a.m) + a.d - 1 /\ DayCount(b) = First(b.y, b.m) + b.d - 1
      /\ First(a.y, a.m) \in Int /\ First(b.y, b.m) \in Int
  <2>1. First(a.y, a.m) \in Int /\ First(b.y, b.m) \in Int
    BY <1>1, FirstInt
  <2> QED BY <2>1 DEF DayCount, First
<1>4. CASE a.y = b.y /\ a.m < b.m
  <2>1. MonthStart(a.y, a.m) + LengthOf(a.y, a.m) <= MonthStart(a.y, b.m)
    BY <1>1, <1>4, MonthGrows
  <2>2. /\ YearStart(a.y) \in Int /\ LengthOf(a.y, a.m) \in Int
        /\ MonthStart(a.y, a.m) \in Int /\ MonthStart(a.y, b.m) \in Int
    BY <1>1, YearInt, LengthRange, MonthStartInt
  <2>3. First(a.y, a.m) + LengthOf(a.y, a.m) <= First(b.y, b.m)
    BY <1>4, <2>1, <2>2 DEF First
  <2> QED BY <1>1, <1>3, <2>2, <2>3
<1>5. CASE a.y = b.y /\ a.m = b.m /\ a.d < b.d
  BY <1>1, <1>3, <1>5
<1> QED BY <1>2, <1>4, <1>5 DEF Earlier

\* Dates come one before the other as their days do.
LEMMA CivilOrder ==
  ASSUME NEW a, RealDate(a), NEW b, RealDate(b)
  PROVE  /\ DayCount(a) \in Int /\ DayCount(b) \in Int
         /\ Earlier(a, b) <=> DayCount(a) < DayCount(b)
<1>1. DayCount(a) \in Int /\ DayCount(b) \in Int
  BY InYear
<1>2. Earlier(a, b) => DayCount(a) < DayCount(b)
  BY EarlierCounts
<1>3. Earlier(b, a) => DayCount(b) < DayCount(a)
  BY EarlierCounts
<1>4. Earlier(a, b) \/ Earlier(b, a) \/ a = b
  BY DEF Earlier, RealDate
<1> QED BY <1>1, <1>2, <1>3, <1>4

-----------------------------------------------------------------------------
(* Months added *)

\* The year and the month that months from a month lead to.
YearAfter(y, m, n) == y + ((m - 1 + n) \div 12)

MonthAfter(m, n) == ((m - 1 + n) % 12) + 1

JumpHeld(n) == n \in Int /\ -6000 <= n /\ n <= 6000

\* Months added to a month, and taken away again.
LEMMA MonthsAway ==
  \A y, m, n \in Int : 1 <= m /\ m <= 12 =>
    LET z == YearAfter(y, m, n)
        k == MonthAfter(m, n)
    IN  /\ z \in Int /\ k \in Int /\ 1 <= k /\ k <= 12
        /\ YearAfter(z, k, -n) = y /\ MonthAfter(k, -n) = m
        /\ 12 * (z - y) + (k - m) = n
        /\ n > 0 <=> (y < z \/ (y = z /\ m < k))
        /\ n % 12 = 0 => z = y + (n \div 12) /\ k = m
BY SMT DEF YearAfter, MonthAfter

\* A short holds the year a jump leads to.
LEMMA JumpShort ==
  \A y, m, n \in Int : 1 <= m /\ m <= 12 /\ Wide(y) /\ JumpHeld(n) =>
    Short(YearAfter(y, m, n)) /\ YearAfter(y, m, n) # -32768
BY SMT DEF YearAfter, Wide, JumpHeld, Short, FirstYear, LastYear

\* operator+ of month.
LEMMA MonthPlusIs ==
  \A m, n \in Int : 1 <= m /\ m <= 12 => MonthPlus(m, n) = MonthAfter(m, n)
BY SMT DEF MonthPlus, MonthAfter, Month, Quot

\* operator- of month.
LEMMA MonthMinusIs ==
  \A m, n \in Int : 1 <= m /\ m <= 12 => MonthMinus(MonthAfter(m, n), m) = n % 12
BY SMT DEF MonthMinus, MonthAfter

\* The division of year_month's operator+ rounds down.
LEMMA MonthsDivided ==
  \A d \in Int : LET q == Quot(IF d >= 0 THEN d ELSE d - 11, 12)
                 IN  q = d \div 12 /\ d - q * 12 + 1 = (d % 12) + 1
BY SMT DEF Quot

\* operator+ of year_month.
LEMMA YearMonthPlusIs ==
  ASSUME NEW y \in Int, NEW m \in Int, 1 <= m, m <= 12, NEW n \in Int,
         Short(YearAfter(y, m, n))
  PROVE  YearMonthPlus([y |-> y, m |-> m], n) = [y |-> YearAfter(y, m, n), m |-> MonthAfter(m, n)]
<1>1. PICK d \in Int : d = m - 1 + n
  OBVIOUS
<1>2. PICK q \in Int : q = d \div 12
  OBVIOUS
<1>3. /\ Quot(IF d >= 0 THEN d ELSE d - 11, 12) = q
      /\ d - q * 12 + 1 = MonthAfter(m, n)
      /\ YearAfter(y, m, n) = y + q
  BY <1>1, <1>2, MonthsDivided DEF MonthAfter, YearAfter
<1>4. YearPlus(y, q) = y + q /\ Year(y + q) = y + q
  BY <1>3, YearKept DEF YearPlus
<1>5. Month(MonthAfter(m, n)) = MonthAfter(m, n)
  <2>1. MonthAfter(m, n) \in Int /\ 0 <= MonthAfter(m, n) /\ MonthAfter(m, n) <= 255
    BY SMT DEF MonthAfter
  <2> QED BY <2>1, Narrowed
<1>6. YearMonthPlus([y |-> y, m |-> m], n) = YearMonth(YearPlus(y, q), d - q * 12 + 1)
  BY <1>1, <1>3 DEF YearMonthPlus
<1> QED BY <1>3, <1>4, <1>5, <1>6 DEF YearMonth

\* What adding n months to today's month gives, and taking them away again.
LEMMA JumpFrom ==
  ASSUME WalkInv, NEW n \in Jumps
  PROVE  LET z == YearAfter(date.y, date.m, n)
             k == MonthAfter(date.m, n)
         IN  /\ n \in Int /\ -n \in Int
             /\ z \in Int /\ Short(z) /\ YearOk(z)
             /\ k \in Int /\ 1 <= k /\ k <= 12
             /\ YearAfter(z, k, -n) = date.y /\ MonthAfter(k, -n) = date.m
             /\ YearMonthPlus([y |-> date.y, m |-> date.m], n) = [y |-> z, m |-> k]
             /\ YearMonthPlus([y |-> z, m |-> k], -n) = [y |-> date.y, m |-> date.m]
             /\ \A yy \in {date.y, z} : Year(yy) = yy
             /\ \A mm \in {date.m, k} : Month(mm) = mm
<1>1. n \in Int /\ JumpHeld(n)
  <2>1. n \in Int
    BY WalksAssumption
  <2>2. -6000 <= n /\ n <= 6000
    BY JumpsAssumption
  <2> QED BY <2>1, <2>2 DEF JumpHeld
<1>2. PICK y \in Int, m \in Int : y = date.y /\ m = date.m
  BY TodayIs
<1>3. 1 <= m /\ m <= 12 /\ Short(y) /\ Wide(y)
  BY <1>2, TodayIs, Today
<1>4. PICK z \in Int, k \in Int : z = YearAfter(y, m, n) /\ k = MonthAfter(m, n)
  BY <1>1, <1>3, MonthsAway
<1>5. /\ 1 <= k /\ k <= 12 /\ YearAfter(z, k, -n) = y /\ MonthAfter(k, -n) = m
  BY <1>1, <1>3, <1>4, MonthsAway
<1>6. Short(z) /\ YearOk(z)
  BY <1>1, <1>3, <1>4, JumpShort DEF YearOk
<1>7. YearMonthPlus([y |-> y, m |-> m], n) = [y |-> z, m |-> k]
  BY <1>1, <1>3, <1>4, <1>6, YearMonthPlusIs
<1>8. -n \in Int
  BY <1>1
<1>9. YearMonthPlus([y |-> z, m |-> k], -n) = [y |-> y, m |-> m]
  BY <1>3, <1>5, <1>8, YearMonthPlusIs
<1>10. Year(y) = y /\ Year(z) = z /\ Month(m) = m /\ Month(k) = k
  BY <1>3, <1>5, <1>6, YearKept, Narrowed
<1> QED BY <1>1, <1>2, <1>4, <1>5, <1>6, <1>7, <1>8, <1>9, <1>10

\* A date with another month, when that month has its day, lies the right way
\* from it.
LEMMA MovedDate ==
  ASSUME WalkInv, NEW z \in Int, Short(z), YearOk(z), NEW k \in Int, 1 <= k, k <= 12
  PROVE  LET sum == [y |-> z, m |-> k, d |-> date.d]
         IN  /\ YearMonthDay(z, k, date.d) = sum
             /\ YearMonthDayOk(sum) <=> date.d <= LengthOf(z, k)
             /\ YearMonthDayOk(sum) =>
                  (ToDays(sum) > serial <=> (date.y < z \/ (date.y = z /\ date.m < k)))
<1> DEFINE sum == [y |-> z, m |-> k, d |-> date.d]
<1>1. date.d \in Int /\ 1 <= date.d /\ date.d <= 31
  BY TodayIs
<1>2. YearMonthDay(z, k, date.d) = sum
  <2>1. 0 <= date.d
    BY <1>1
  <2> QED BY <1>1, <2>1, FirstIs
<1>3. YearMonthDayOk(sum) <=> date.d <= LengthOf(z, k)
  <2>1. LastDay(YearMonthDayLast(z, k)) = LengthOf(z, k)
    BY LastDayIs
  <2>2. LengthOf(z, k) \in Int
    BY LengthRange
  <2>3. MonthOk(k)
    BY DEF MonthOk
  <2> QED BY <1>1, <2>1, <2>2, <2>3 DEF YearMonthDayOk
<1>4. ASSUME date.d <= LengthOf(z, k)
      PROVE  ToDays(sum) > serial <=> (date.y < z \/ (date.y = z /\ date.m < k))
  <2>1. RealDate(sum) /\ sum.y = z /\ sum.m = k /\ sum.d = date.d /\ sum.m \in 1 .. 12
    BY <1>1, <1>4 DEF RealDate
  <2>2. RealDate(date) /\ DayCount(date) = serial
    BY Today
  <2> HIDE DEF sum
  <2>3. ToDays(sum) = DayCount(sum)
    BY <1>1, <2>1, ToDaysCounts
  <2>4. /\ DayCount(date) \in Int /\ DayCount(sum) \in Int
        /\ Earlier(date, sum) <=> DayCount(date) < DayCount(sum)
    BY <2>1, <2>2, CivilOrder
  <2>5. Earlier(date, sum) <=> (date.y < z \/ (date.y = z /\ date.m < k))
    BY <1>1, <2>1 DEF Earlier
  <2> QED BY <2>2, <2>3, <2>4, <2>5
<1> QED BY <1>2, <1>3, <1>4

\* Adding months and taking them away again gives the same month, in every
\* class; whole years added as months are those years; the day of the month
\* is kept, and the sum lies the right way from the date when it is one.
THEOREM MonthsComeBack == Spec => []MonthsReturn
<1>1. WalkInv => MonthsReturn
  <2> SUFFICES ASSUME WalkInv PROVE MonthsReturn
    OBVIOUS
  <2> DEFINE ym == YearMonth(date.y, date.m)
             x  == YearMonthWeekdayFromDays(serial)
             l  == YearMonthWeekdayLast(date.y, date.m, wday)
  <2>1. PICK y \in Int, m \in Int : y = date.y /\ m = date.m
    BY TodayIs
  <2>2. /\ 1 <= m /\ m <= 12 /\ Short(y)
        /\ Year(y) = y /\ Month(m) = m
    BY <2>1, TodayIs, YearKept, Narrowed
  <2>3. ym = [y |-> y, m |-> m]
    BY <2>1, <2>2 DEF YearMonth
  <2>4. PICK i : x = [y |-> y, m |-> m, wdi |-> i]
    BY <2>1, TodayIndexed
  <2>5. l = [y |-> y, m |-> m, wd |-> wday]
    BY <2>1, <2>2 DEF YearMonthWeekdayLast
  <2> HIDE DEF ym, x, l
  <2>6. ASSUME NEW n \in Jumps
        PROVE  LET to  == YearMonthPlus(ym, n)
                   sum == YearMonthDayPlus(date, n)
               IN  /\ YearMonthOk(to)
                   /\ YearMonthPlus(to, -n) = ym
                   /\ YearMonthMinus(to, ym) = n
                   /\ MonthPlus(date.m, n) = to.m
                   /\ MonthMinus(to.m, date.m) = n % 12
                   /\ sum = [y |-> to.y, m |-> to.m, d |-> date.d]
                   /\ YearMonthDayOk(sum) <=> date.d <= LengthOf(to.y, to.m)
                   /\ YearMonthDayOk(sum) => (ToDays(sum) > serial <=> n > 0)
                   /\ YearMonthDayLastPlus(ym, n) = to
                   /\ n % 12 = 0 =>
                        LET years == n \div 12
                        IN  /\ YearMonthPlusYears(ym, years) = to
                            /\ YearMonthDayLastPlusYears(ym, years) = to
                            /\ YearMonthDayPlusYears(date, years) = sum
                            /\ YearMonthWeekdayPlusYears(x, years) = YearMonthWeekdayPlus(x, n)
                            /\ YearMonthWeekdayLastPlusYears(l, years) = YearMonthWeekdayLastPlus(l, n)
                   /\ YearMonthWeekdayPlus(YearMonthWeekdayPlus(x, n), -n) = x
                   /\ YearMonthWeekdayLastPlus(YearMonthWeekdayLastPlus(l, n), -n) = l
    <3>1. PICK z \in Int, k \in Int : z = YearAfter(y, m, n) /\ k = MonthAfter(m, n)
      BY <2>1, JumpFrom
    <3>2. /\ n \in Int
          /\ Short(z) /\ YearOk(z) /\ 1 <= k /\ k <= 12
          /\ YearMonthPlus(ym, n) = [y |-> z, m |-> k]
          /\ YearMonthPlus([y |-> z, m |-> k], -n) = ym
          /\ Year(z) = z /\ Month(k) = k
      BY <2>1, <2>3, <3>1, JumpFrom
    <3>3. YearMonth(y, m) = ym /\ YearMonth(z, k) = [y |-> z, m |-> k]
      BY <2>2, <2>3, <3>2 DEF YearMonth
    <3>4. /\ 12 * (z - y) + (k - m) = n
          /\ n > 0 <=> (y < z \/ (y = z /\ m < k))
          /\ n % 12 = 0 => z = y + (n \div 12) /\ k = m
      <4>1. LET yy == YearAfter(y, m, n)
                mm == MonthAfter(m, n)
            IN  /\ 12 * (yy - y) + (mm - m) = n
                /\ n > 0 <=> (y < yy \/ (y = yy /\ m < mm))
                /\ n % 12 = 0 => yy = y + (n \div 12) /\ mm = m
        BY <2>2, <3>2, MonthsAway
      <4> QED BY <3>1, <4>1
    <3>5. PICK to : to = [y |-> z, m |-> k]
      OBVIOUS
    <3>6. to = YearMonthPlus(ym, n) /\ to.y = z /\ to.m = k
      BY <3>2, <3>5
    <3>7. YearMonthOk(to)
      BY <3>2, <3>6 DEF YearMonthOk, MonthOk
    <3>8. YearMonthMinus(to, ym) = n
      <4>1. YearMonthMinus(to, ym) = (z - y) * 12 + (k - m)
        BY <2>3, <3>6 DEF YearMonthMinus, YearMinus
      <4> QED BY <3>4, <4>1
    <3>9. MonthPlus(date.m, n) = k /\ MonthMinus(k, date.m) = n % 12
      BY <2>1, <2>2, <3>1, <3>2, MonthPlusIs, MonthMinusIs
    <3>10. PICK sum : sum = [y |-> z, m |-> k, d |-> date.d]
      OBVIOUS
    <3>11. /\ YearMonthDay(z, k, date.d) = sum
           /\ YearMonthDayOk(sum) <=> date.d <= LengthOf(z, k)
           /\ YearMonthDayOk(sum) => (ToDays(sum) > serial <=> n > 0)
      BY <2>1, <3>2, <3>4, <3>10, MovedDate
    <3>12. YearMonthDayPlus(date, n) = sum
      BY <2>1, <3>3, <3>6, <3>11 DEF YearMonthDayPlus
    <3>13. YearMonthDayLastPlus(ym, n) = to
      <4>1. YearMonthDayLast(z, k) = to
        BY <3>2, <3>5 DEF YearMonthDayLast
      <4> QED BY <2>3, <3>3, <3>6, <4>1 DEF YearMonthDayLastPlus
    <3>14. /\ YearMonthWeekdayPlus(x, n) = [y |-> z, m |-> k, wdi |-> i]
           /\ YearMonthWeekdayPlus([y |-> z, m |-> k, wdi |-> i], -n) = x
      <4>1. YearMonthWeekdayPlus(x, n) = [y |-> z, m |-> k, wdi |-> i]
        BY <2>4, <3>2, <3>3, <3>6 DEF YearMonthWeekdayPlus, YearMonthWeekday
      <4>2. YearMonthWeekdayPlus([y |-> z, m |-> k, wdi |-> i], -n) = [y |-> y, m |-> m, wdi |-> i]
        BY <2>2, <2>3, <3>2, <3>3 DEF YearMonthWeekdayPlus, YearMonthWeekday
      <4> QED BY <2>4, <4>1, <4>2
    <3>15. /\ YearMonthWeekdayLastPlus(l, n) = [y |-> z, m |-> k, wd |-> wday]
           /\ YearMonthWeekdayLastPlus([y |-> z, m |-> k, wd |-> wday], -n) = l
      <4>1. YearMonthWeekdayLastPlus(l, n) = [y |-> z, m |-> k, wd |-> wday]
        BY <2>5, <3>2, <3>3, <3>6 DEF YearMonthWeekdayLastPlus, YearMonthWeekdayLast
      <4>2. YearMonthWeekdayLastPlus([y |-> z, m |-> k, wd |-> wday], -n)
              = [y |-> y, m |-> m, wd |-> wday]
        BY <2>2, <2>3, <3>2, <3>3 DEF YearMonthWeekdayLastPlus, YearMonthWeekdayLast
      <4> QED BY <2>5, <4>1, <4>2
    <3>16. ASSUME NEW years, years = n \div 12, n % 12 = 0
           PROVE  /\ YearMonthPlusYears(ym, years) = to
                  /\ YearMonthDayLastPlusYears(ym, years) = to
                  /\ YearMonthDayPlusYears(date, years) = sum
                  /\ YearMonthWeekdayPlusYears(x, years) = YearMonthWeekdayPlus(x, n)
                  /\ YearMonthWeekdayLastPlusYears(l, years) = YearMonthWeekdayLastPlus(l, n)
      <4>1. YearPlus(y, years) = z /\ k = m
        BY <3>2, <3>4, <3>16 DEF YearPlus
      <4>2. YearMonthPlusYears(ym, years) = to
        BY <2>3, <3>3, <3>5, <4>1 DEF YearMonthPlusYears
      <4>3. YearMonthDayLastPlusYears(ym, years) = to
        BY <2>3, <3>2, <3>5, <4>1 DEF YearMonthDayLastPlusYears, YearMonthDayLast
      <4>4. YearMonthDayPlusYears(date, years) = sum
        BY <2>1, <3>11, <4>1 DEF YearMonthDayPlusYears
      <4>5. YearMonthWeekdayPlusYears(x, years) = [y |-> z, m |-> k, wdi |-> i]
        BY <2>4, <3>2, <4>1 DEF YearMonthWeekdayPlusYears, YearMonthWeekday
      <4>6. YearMonthWeekdayLastPlusYears(l, years) = [y |-> z, m |-> k, wd |-> wday]
        BY <2>5, <3>2, <4>1 DEF YearMonthWeekdayLastPlusYears, YearMonthWeekdayLast
      <4> QED BY <3>14, <3>15, <4>2, <4>3, <4>4, <4>5, <4>6
    <3>17. YearMonthPlus(to, -n) = ym
      BY <3>2, <3>5
    <3>18. sum = [y |-> to.y, m |-> to.m, d |-> date.d]
      BY <3>6, <3>10
    <3> QED BY <3>6, <3>7, <3>8, <3>9, <3>11, <3>12, <3>13, <3>14, <3>15, <3>16, <3>17, <3>18
  <2> QED BY <2>6 DEF MonthsReturn, ym, x, l
<1> QED BY <1>1, WalkHolds, PTL

-----------------------------------------------------------------------------
(* ISO weeks and the order of dates *)

\* The weeks whose Thursday comes before a year, and that year's first Monday.
WeeksBefore(y) == (YearStart(y) - 1) \div 7

WeekOne(y) == 7 * WeeksBefore(y) + 4

WeeksOf(y) == WeeksBefore(y + 1) - WeeksBefore(y)

\* A year has 365 days, or 366.
LEMMA YearLength ==
  \A y \in Int : YearStart(y + 1) = YearStart(y) + (IF Leap(y) THEN 366 ELSE 365)
BY SMT DEF YearStart, Leap

\* A later day has no fewer Thursdays before it.
LEMMA DivGrows == \A a, b \in Int : a <= b => (a - 1) \div 7 <= (b - 1) \div 7
BY SMT

\* A year of either length has 52 or 53 Thursdays.
LEMMA DivYear ==
  \A a \in Int : /\ (a + 365 - 1) \div 7 - ((a - 1) \div 7) \in {52, 53}
                 /\ (a + 366 - 1) \div 7 - ((a - 1) \div 7) \in {52, 53}
BY SMT

\* Weeks and first Mondays are numbers.
LEMMA WeeksInt == \A y \in Int : WeeksBefore(y) \in Int /\ WeekOne(y) \in Int
<1> SUFFICES ASSUME NEW y \in Int PROVE WeeksBefore(y) \in Int /\ WeekOne(y) \in Int
  OBVIOUS
<1>1. YearStart(y) \in Int
  BY YearInt
<1>2. WeeksBefore(y) \in Int
  BY <1>1 DEF WeeksBefore
<1> QED BY <1>2 DEF WeekOne

\* An ISO year has 52 or 53 weeks.
LEMMA WeeksOfYear == \A y \in Int : WeeksOf(y) \in {52, 53}
<1> SUFFICES ASSUME NEW y \in Int PROVE WeeksOf(y) \in {52, 53}
  OBVIOUS
<1>1. PICK a \in Int : a = YearStart(y)
  BY YearInt
<1>2. WeeksBefore(y) = (a - 1) \div 7
  BY <1>1 DEF WeeksBefore
<1>3. WeeksBefore(y + 1) = (a + 366 - 1) \div 7 \/ WeeksBefore(y + 1) = (a + 365 - 1) \div 7
  <2>1. YearStart(y + 1) = a + 366 \/ YearStart(y + 1) = a + 365
    BY <1>1, YearLength
  <2> QED BY <2>1 DEF WeeksBefore
<1> QED BY <1>2, <1>3, DivYear DEF WeeksOf

\* A later year has no fewer weeks before it.
LEMMA WeeksGrow == \A y, z \in Int : y <= z => WeeksBefore(y) <= WeeksBefore(z)
<1> SUFFICES ASSUME NEW y \in Int, NEW z \in Int, y <= z
             PROVE  WeeksBefore(y) <= WeeksBefore(z)
  OBVIOUS
<1>1. PICK a \in Int, b \in Int : a = YearStart(y) /\ b = YearStart(z)
  BY YearInt
<1>2. a + 365 * (z - y) <= b
  BY <1>1, YearGrows
<1>3. a <= b
  BY <1>2
<1>4. (a - 1) \div 7 <= (b - 1) \div 7
  BY <1>3, DivGrows
<1> QED BY <1>1, <1>4 DEF WeeksBefore

-----------------------------------------------------------------------------
(* The Thursdays of the code *)

LEMMA LastThursdayIs ==
  ASSUME NEW y \in Int, Short(y)
  PROVE  LastThursday(y) = 7 * WeeksBefore(y + 1)
<1>1. CWeekday(Thursday) = 4
  BY SMT DEF CWeekday, Thursday, Weekday
<1>2. YearMonthWeekdayLast(y, 12, 4) = [y |-> y, m |-> 12, wd |-> 4]
  BY YearKept, Narrowed DEF YearMonthWeekdayLast
<1>3. PICK l \in Int : l = First(y, 12) + 31 - 1
  BY FirstInt
<1>4. ToDays(YearMonthDay(y, 12, LastDay(YearMonthDayLast(y, 12)))) = l
  <2>1. LastDay(YearMonthDayLast(y, 12)) = LengthOf(y, 12)
    BY LastDayIs
  <2>2. LengthOf(y, 12) = 31
    BY LengthIs
  <2>3. ToDays(YearMonthDay(y, 12, 31)) = l
    BY <1>3, FirstIs
  <2> QED BY <2>1, <2>2, <2>3
<1>5. YearStart(y + 1) = l + 1
  <2>1. /\ YearStart(y) \in Int /\ YearStart(y + 1) = YearStart(y) + MonthStart(y, 12) + 31
    BY NextYear
  <2>2. MonthStart(y, 12) \in Int
    BY MonthStartInt
  <2> QED BY <1>3, <2>1, <2>2 DEF First
<1>6. WeekdayMinus(WeekdayFromDays(l), 4) = (((l + 4) % 7) - 4) % 7
  <2>1. WeekdayFromDays(l) = (l + 4) % 7 /\ (l + 4) % 7 \in Int
    BY WeekdayIs
  <2> QED BY <2>1, WeekdayMinusIs
<1>7. LastThursday(y) = l - ((((l + 4) % 7) - 4) % 7)
  BY <1>1, <1>2, <1>4, <1>6 DEF LastThursday, YearMonthWeekdayLastToDays
<1>8. l - ((((l + 4) % 7) - 4) % 7) = 7 * (((l + 1) - 1) \div 7)
  BY SMT
<1> QED BY <1>5, <1>7, <1>8 DEF WeeksBefore

\* The first Monday by iso_week.h.
LEMMA StartIs ==
  ASSUME NEW y \in Int, Short(y), Short(y - 1)
  PROVE  StartOfYear(y) = WeekOne(y)
<1>1. YearPlus(y, -1) = y - 1
  <2>1. y - 1 = y + (-1) /\ y - 1 \in Int
    OBVIOUS
  <2> QED BY <2>1, YearKept DEF YearPlus
<1>2. LastThursday(y - 1) = 7 * WeeksBefore(y)
  <2>1. LastThursday(y - 1) = 7 * WeeksBefore((y - 1) + 1)
    BY LastThursdayIs
  <2>2. (y - 1) + 1 = y
    OBVIOUS
  <2> QED BY <2>1, <2>2
<1>3. IsoWeekdayMinus(Monday, Thursday) = 4
  BY SMT DEF IsoWeekdayMinus, Monday, Thursday
<1> QED BY <1>1, <1>2, <1>3 DEF StartOfYear, WeekOne

\* A year has the weeks between its Thursdays, 52 or 53.
LEMMA LastWeekIs ==
  ASSUME NEW y \in Int, Short(y), Short(y - 1)
  PROVE  LastWeek(y) = WeeksOf(y) /\ LastWeek(y) \in {52, 53}
<1>1. YearPlus(y, -1) = y - 1
  <2>1. y - 1 = y + (-1) /\ y - 1 \in Int
    OBVIOUS
  <2> QED BY <2>1, YearKept DEF YearPlus
<1>2. LastThursday(y - 1) = 7 * WeeksBefore(y)
  <2>1. LastThursday(y - 1) = 7 * WeeksBefore((y - 1) + 1)
    BY LastThursdayIs
  <2>2. (y - 1) + 1 = y
    OBVIOUS
  <2> QED BY <2>1, <2>2
<1>3. LastThursday(y) = 7 * WeeksBefore(y + 1)
  BY LastThursdayIs
<1>4. PICK a \in Int, b \in Int : a = WeeksBefore(y + 1) /\ b = WeeksBefore(y)
  BY WeeksInt
<1>5. WeeksOf(y) = a - b /\ a - b \in {52, 53}
  BY <1>4, WeeksOfYear DEF WeeksOf
<1>6. Weeknum(trunc(7 * a - 7 * b, 7)) = a - b
  <2>1. \A c, d \in Int : c - d \in {52, 53} => Weeknum(trunc(7 * c - 7 * d, 7)) = c - d
    BY SMT DEF Weeknum, trunc, Quot
  <2> QED BY <1>5, <2>1
<1> QED BY <1>1, <1>2, <1>3, <1>4, <1>5, <1>6 DEF LastWeek

-----------------------------------------------------------------------------
(* The ISO date of a day *)

\* The years of the ISO dates of covered days, and one more each way.
Broad(y) == y \in Int /\ FirstYear - 20 <= y /\ y <= LastYear + 20

\* A short holds a broad year and its neighbours.
LEMMA BroadShort ==
  \A y : Broad(y) => /\ y \in Int /\ Short(y) /\ Short(y - 1) /\ Short(y + 1)
                     /\ Short(y - 2) /\ Short(y + 2)
BY SMT DEF Broad, Short, FirstYear, LastYear

\* A wide year and its neighbours are broad.
LEMMA WideBroad == \A y : Wide(y) => Broad(y) /\ Broad(y - 1) /\ Broad(y + 1)
BY SMT DEF Wide, Broad, FirstYear, LastYear

\* An ISO date of the calendar, and the day it names.
IsoDate(x) ==
  /\ x = [y |-> x.y, wn |-> x.wn, wd |-> x.wd]
  /\ x.y \in Int
  /\ x.wn \in Int /\ 1 <= x.wn /\ x.wn <= WeeksOf(x.y)
  /\ x.wd \in Int /\ 1 <= x.wd /\ x.wd <= 7

IsoCount(x) == WeekOne(x.y) + (x.wn - 1) * 7 + x.wd - 1

\* A day lies in the ISO year of the Thursday next to it.
LEMMA IsoYearOn ==
  ASSUME NEW z \in Int, NEW late \in Int, YearStart(late) <= z + 3, z + 3 < YearStart(late + 1)
  PROVE  LET y == IF z < WeekOne(late) THEN late - 1 ELSE late
         IN  WeekOne(y) <= z /\ z < WeekOne(y + 1)
<1>1. PICK a \in Int, b \in Int, c \in Int :
        a = YearStart(late) /\ b = YearStart(late + 1) /\ c = YearStart(late - 1)
  BY YearInt
<1>2. c + 365 <= a
  <2>1. c + 365 * (late - (late - 1)) <= a
    BY <1>1, YearGrows
  <2> QED BY <2>1
<1>3. /\ WeekOne(late) = 7 * ((a - 1) \div 7) + 4
      /\ WeekOne(late + 1) = 7 * ((b - 1) \div 7) + 4
      /\ WeekOne(late - 1) = 7 * ((c - 1) \div 7) + 4
  BY <1>1 DEF WeekOne, WeeksBefore
<1>4. z < 7 * ((b - 1) \div 7) + 4 /\ 7 * ((c - 1) \div 7) + 4 <= z
  BY SMT, <1>1, <1>2
<1>5. (late - 1) + 1 = late
  OBVIOUS
<1>6. WeekOne(late) \in Int
  BY WeeksInt
<1> QED BY <1>3, <1>4, <1>5, <1>6

\* A day of an ISO year, by week and weekday.
LEMMA WeekParts ==
  \A z, s, w \in Int : s <= z /\ z < s + 7 * w /\ s % 7 = 4 /\ w <= 53 =>
    LET n == (z - s) \div 7 + 1
    IN  /\ trunc(z - s, 7) + 1 = n /\ Weeknum(n) = n
        /\ n \in Int /\ 1 <= n /\ n <= w
        /\ z = s + (n - 1) * 7 + (((z + 3) % 7) + 1) - 1
BY SMT DEF trunc, Quot, Weeknum

\* ISO years begin on a Monday, one after the other.
LEMMA WeekOneThursday == \A y \in Int : WeekOne(y) % 7 = 4 /\ WeekOne(y + 1) = WeekOne(y) + 7 * WeeksOf(y)
<1> SUFFICES ASSUME NEW y \in Int
             PROVE  WeekOne(y) % 7 = 4 /\ WeekOne(y + 1) = WeekOne(y) + 7 * WeeksOf(y)
  OBVIOUS
<1>1. PICK a \in Int, b \in Int : a = WeeksBefore(y) /\ b = WeeksBefore(y + 1)
  BY WeeksInt
<1>2. (7 * a + 4) % 7 = 4 /\ 7 * b + 4 = (7 * a + 4) + 7 * (b - a)
  BY SMT
<1> QED BY <1>1, <1>2 DEF WeekOne, WeeksOf

\* from_days of a covered day, three days before another one.
LEMMA IsoFound ==
  ASSUME NEW z \in Int, Covered(z + 3)
  PROVE  LET x == YearWeeknumWeekdayFromDays(z)
         IN  IsoDate(x) /\ IsoCount(x) = z /\ Broad(x.y)
<1>1. PICK late : late = FromDays(z + 3).y
  OBVIOUS
<1>2. /\ late \in Int /\ Wide(late)
      /\ YearStart(late) <= z + 3 /\ z + 3 < YearStart(late + 1)
  <2>1. /\ RealDate(FromDays(z + 3)) /\ DayCount(FromDays(z + 3)) = z + 3
        /\ Wide(FromDays(z + 3).y)
    BY DayFound
  <2> QED BY <1>1, <2>1, InYear
<1>3. /\ Broad(late) /\ Broad(late - 1)
      /\ Short(late) /\ Short(late - 1) /\ Short(late - 2)
  BY <1>2, WideBroad, BroadShort
<1>4. StartOfYear(late) = WeekOne(late)
  BY <1>2, <1>3, StartIs
<1>5. PICK y \in Int : y = IF z < WeekOne(late) THEN late - 1 ELSE late
  BY <1>2
<1>6. WeekOne(y) <= z /\ z < WeekOne(y + 1)
  BY <1>2, <1>5, IsoYearOn
<1>7. Broad(y) /\ Short(y) /\ Short(y - 1)
  BY <1>3, <1>5, BroadShort
<1>8. StartOfYear(y) = WeekOne(y)
  BY <1>7, StartIs
<1>9. (IF z < StartOfYear(late) THEN YearPlus(late, -1) ELSE late) = y
  <2>1. YearPlus(late, -1) = late - 1
    <3>1. late - 1 = late + (-1) /\ late - 1 \in Int
      BY <1>2
    <3> QED BY <1>3, <3>1, YearKept DEF YearPlus
  <2> QED BY <1>4, <1>5, <2>1
<1>10. PICK s \in Int, w \in Int : s = WeekOne(y) /\ w = WeeksOf(y)
  BY WeeksInt, WeeksOfYear
<1>11. s <= z /\ z < s + 7 * w /\ s % 7 = 4 /\ w <= 53
  BY <1>6, <1>10, WeekOneThursday, WeeksOfYear
<1>12. PICK n \in Int : n = (z - s) \div 7 + 1
  BY <1>10
<1>13. /\ trunc(z - s, 7) + 1 = n /\ Weeknum(n) = n
       /\ 1 <= n /\ n <= w
       /\ z = s + (n - 1) * 7 + (((z + 3) % 7) + 1) - 1
  BY ZenonT(40), <1>11, <1>12, WeekParts
<1>14. PICK wd \in Int : wd = ((z + 3) % 7) + 1
  OBVIOUS
<1>15. IsoWeekdayFromDays(z) = wd /\ 1 <= wd /\ wd <= 7
  BY <1>14, IsoWeekdayIs, IsoInWeek
<1>16. IsoYear(y) = y
  BY <1>7, YearKept DEF IsoYear, Year
<1>17. YearWeeknumWeekdayFromDays(z) = [y |-> y, wn |-> n, wd |-> wd]
  <2>1. YearWeeknumWeekdayFromDays(z)
          = YearWeeknumWeekday(y, trunc(z - StartOfYear(y), 7) + 1, IsoWeekdayFromDays(z))
    BY <1>1, <1>9 DEF YearWeeknumWeekdayFromDays
  <2> QED BY <1>8, <1>10, <1>13, <1>15, <1>16, <2>1 DEF YearWeeknumWeekday
<1>18. IsoDate([y |-> y, wn |-> n, wd |-> wd])
  BY <1>10, <1>13, <1>15 DEF IsoDate
<1>19. IsoCount([y |-> y, wn |-> n, wd |-> wd]) = z
  BY <1>10, <1>13, <1>14 DEF IsoCount
<1> QED BY <1>7, <1>17, <1>18, <1>19

-----------------------------------------------------------------------------
(* ISO dates come one before the other as their days do *)

IsoEarlier(a, b) ==
  a.y < b.y \/ (a.y = b.y /\ (a.wn < b.wn \/ (a.wn = b.wn /\ a.wd < b.wd)))

\* A date lies in its ISO year.
LEMMA InIsoYear ==
  ASSUME NEW x, IsoDate(x)
  PROVE  /\ IsoCount(x) \in Int
         /\ WeekOne(x.y) <= IsoCount(x) /\ IsoCount(x) < WeekOne(x.y + 1)
<1>1. PICK w \in Int, s \in Int : w = WeeksOf(x.y) /\ s = WeekOne(x.y)
  BY WeeksInt, WeeksOfYear DEF IsoDate
<1>2. WeekOne(x.y + 1) = s + 7 * w
  BY <1>1, WeekOneThursday DEF IsoDate
<1>3. /\ x.wn \in Int /\ 1 <= x.wn /\ x.wn <= w
      /\ x.wd \in Int /\ 1 <= x.wd /\ x.wd <= 7
  BY <1>1 DEF IsoDate
<1>4. IsoCount(x) = s + (x.wn - 1) * 7 + x.wd - 1
  BY <1>1 DEF IsoCount
<1> QED BY <1>1, <1>2, <1>3, <1>4

\* A later year begins no earlier.
LEMMA WeekOneGrows == \A y, z \in Int : y <= z => WeekOne(y) <= WeekOne(z)
<1> SUFFICES ASSUME NEW y \in Int, NEW z \in Int, y <= z PROVE WeekOne(y) <= WeekOne(z)
  OBVIOUS
<1>1. WeeksBefore(y) <= WeeksBefore(z) /\ WeeksBefore(y) \in Int /\ WeeksBefore(z) \in Int
  BY WeeksGrow, WeeksInt
<1> QED BY <1>1 DEF WeekOne

\* An earlier ISO date is an earlier day.
LEMMA IsoEarlierCounts ==
  ASSUME NEW a, IsoDate(a), NEW b, IsoDate(b), IsoEarlier(a, b)
  PROVE  IsoCount(a) < IsoCount(b)
<1>1. /\ a.y \in Int /\ a.wn \in Int /\ a.wd \in Int /\ a.wd <= 7
      /\ b.y \in Int /\ b.wn \in Int /\ b.wd \in Int /\ 1 <= b.wd
  BY DEF IsoDate
<1>2. CASE a.y < b.y
  <2>1. /\ IsoCount(a) \in Int /\ IsoCount(b) \in Int
        /\ IsoCount(a) < WeekOne(a.y + 1) /\ WeekOne(b.y) <= IsoCount(b)
    BY InIsoYear
  <2>2. WeekOne(a.y + 1) <= WeekOne(b.y)
    <3>1. a.y + 1 \in Int /\ a.y + 1 <= b.y
      BY <1>1, <1>2
    <3> QED BY <1>1, <3>1, WeekOneGrows
  <2>3. WeekOne(a.y + 1) \in Int /\ WeekOne(b.y) \in Int
    BY <1>1, WeeksInt
  <2> QED BY <2>1, <2>2, <2>3
<1>3. CASE a.y = b.y /\ (a.wn < b.wn \/ (a.wn = b.wn /\ a.wd < b.wd))
  <2>1. PICK s \in Int : s = WeekOne(a.y)
    BY <1>1, WeeksInt
  <2>2. /\ IsoCount(a) = s + (a.wn - 1) * 7 + a.wd - 1
        /\ IsoCount(b) = s + (b.wn - 1) * 7 + b.wd - 1
    BY <1>3, <2>1 DEF IsoCount
  <2> QED BY <1>1, <1>3, <2>1, <2>2
<1> QED BY <1>2, <1>3 DEF IsoEarlier

\* Hence ISO dates are ordered as their days.
LEMMA IsoOrder ==
  ASSUME NEW a, IsoDate(a), NEW b, IsoDate(b)
  PROVE  IsoEarlier(a, b) <=> IsoCount(a) < IsoCount(b)
<1>1. IsoCount(a) \in Int /\ IsoCount(b) \in Int
  BY InIsoYear
<1>2. IsoEarlier(a, b) => IsoCount(a) < IsoCount(b)
  BY IsoEarlierCounts
<1>3. IsoEarlier(b, a) => IsoCount(b) < IsoCount(a)
  BY IsoEarlierCounts
<1>4. IsoEarlier(a, b) \/ IsoEarlier(b, a) \/ a = b
  BY DEF IsoEarlier, IsoDate
<1> QED BY <1>1, <1>2, <1>3, <1>4

-----------------------------------------------------------------------------
(* The days compared *)

\* A day a walk compares with today: its date and its ISO date.
LEMMA Compared ==
  ASSUME WalkInv, NEW k \in Offsets \cup {0}
  PROVE  LET other == FromDays(serial + k)
             x     == YearWeeknumWeekdayFromDays(serial + k)
         IN  /\ k \in Int /\ serial \in Int /\ InReach(serial + k)
             /\ RealDate(other) /\ DayCount(other) = serial + k /\ Wide(other.y)
             /\ IsoDate(x) /\ IsoCount(x) = serial + k /\ Broad(x.y)
<1>1. k \in Int /\ InReach(serial + k) /\ serial \in Int
  BY WalkReach, TodayIs
<1>2. PICK n \in Int : n = serial + k
  BY <1>1
<1>3. Covered(n + 0) /\ Covered(n + 3)
  <2>1. InReach(n)
    BY <1>1, <1>2
  <2>2. Near(0) /\ Near(3)
    BY SMT DEF Near
  <2> QED BY <2>1, <2>2, ReachCovered
<1>4. n + 0 = n
  OBVIOUS
<1>5. /\ RealDate(FromDays(n)) /\ DayCount(FromDays(n)) = n /\ Wide(FromDays(n).y)
  BY <1>3, <1>4, DayFound
<1>6. /\ IsoDate(YearWeeknumWeekdayFromDays(n))
      /\ IsoCount(YearWeeknumWeekdayFromDays(n)) = n
      /\ Broad(YearWeeknumWeekdayFromDays(n).y)
  BY <1>3, IsoFound
<1> QED BY <1>1, <1>2, <1>5, <1>6

\* Today's own ISO date.
LEMMA TodayIso ==
  ASSUME WalkInv
  PROVE  LET x == YearWeeknumWeekdayFromDays(serial)
         IN  IsoDate(x) /\ IsoCount(x) = serial /\ Broad(x.y) /\ serial \in Int
<1>1. serial + 0 = serial
  BY TodayIs
<1>2. 0 \in Offsets \cup {0}
  OBVIOUS
<1> QED BY <1>1, <1>2, Compared

\* Every class of civil dates, for two dates and the days between them.
LEMMA CivilOrders ==
  ASSUME NEW a, RealDate(a), NEW b, RealDate(b), NEW k \in Int,
         DayCount(b) = DayCount(a) + k
  PROVE  LET laterMonth == k > 0 /\ (a.y # b.y \/ a.m # b.m)
         IN  /\ YearMonthDayLess(a, b) <=> k > 0
             /\ YearMonthLess(a, b) <=> laterMonth
             /\ YearMonthDayLastLess(a, b) <=> laterMonth
             /\ YearLess(a.y, b.y) <=> YearMinus(b.y, a.y) > 0
             /\ a.y = b.y =>
                  /\ MonthDayLess(a, b) <=> k > 0
                  /\ MonthDayLastLess(a, b) <=> laterMonth
                  /\ MonthLess(a.m, b.m) <=> laterMonth
             /\ a.y = b.y /\ a.m = b.m =>
                  /\ DayLess(a.d, b.d) <=> k > 0
                  /\ DayMinus(b.d, a.d) = k
                  /\ DayPlus(a.d, k) = b.d
<1>1. Earlier(a, b) <=> k > 0
  <2>1. /\ DayCount(a) \in Int /\ DayCount(b) \in Int
        /\ Earlier(a, b) <=> DayCount(a) < DayCount(b)
    BY CivilOrder
  <2> QED BY <2>1
<1>2. /\ a.y \in Int /\ a.m \in Int /\ a.d \in Int /\ 1 <= a.d
      /\ b.y \in Int /\ b.m \in Int /\ b.d \in Int /\ 1 <= b.d /\ b.d <= 31
      /\ 1 <= a.m /\ a.m <= 12
  <2>1. /\ b.y \in Int /\ b.m \in Int /\ b.d \in Int /\ 1 <= b.d /\ b.d <= LengthOf(b.y, b.m)
    BY DEF RealDate
  <2>2. LengthOf(b.y, b.m) \in Int /\ LengthOf(b.y, b.m) <= 31
    BY <2>1, LengthRange
  <2> QED BY <2>1, <2>2 DEF RealDate
<1>3. YearMonthDayLess(a, b) <=> Earlier(a, b)
  BY Before3 DEF YearMonthDayLess, Earlier
<1>4. /\ YearMonthLess(a, b) <=> a.y < b.y \/ (a.y = b.y /\ a.m < b.m)
      /\ YearMonthDayLastLess(a, b) <=> a.y < b.y \/ (a.y = b.y /\ a.m < b.m)
      /\ MonthDayLess(a, b) <=> a.m < b.m \/ (a.m = b.m /\ a.d < b.d)
  BY Before2 DEF YearMonthLess, YearMonthDayLastLess, MonthDayLess
<1>5. (a.y < b.y \/ (a.y = b.y /\ a.m < b.m)) <=> k > 0 /\ (a.y # b.y \/ a.m # b.m)
  BY <1>1, <1>2 DEF Earlier
<1>6. YearLess(a.y, b.y) <=> YearMinus(b.y, a.y) > 0
  BY <1>2 DEF YearLess, YearMinus
<1>7. ASSUME a.y = b.y
      PROVE  /\ MonthDayLess(a, b) <=> k > 0
             /\ MonthDayLastLess(a, b) <=> k > 0 /\ (a.y # b.y \/ a.m # b.m)
             /\ MonthLess(a.m, b.m) <=> k > 0 /\ (a.y # b.y \/ a.m # b.m)
  <2>1. MonthDayLess(a, b) <=> k > 0
    BY <1>1, <1>2, <1>4, <1>7 DEF Earlier
  <2>2. a.m < b.m <=> k > 0 /\ (a.y # b.y \/ a.m # b.m)
    BY <1>2, <1>5, <1>7
  <2> QED BY <2>1, <2>2 DEF MonthDayLastLess, MonthLess
<1>8. ASSUME a.y = b.y, a.m = b.m
      PROVE  /\ DayLess(a.d, b.d) <=> k > 0
             /\ DayMinus(b.d, a.d) = k
             /\ DayPlus(a.d, k) = b.d
  <2>1. First(a.y, a.m) \in Int
    BY <1>2, FirstInt
  <2>2. /\ DayCount(a) = First(a.y, a.m) + a.d - 1
        /\ DayCount(b) = First(a.y, a.m) + b.d - 1
    BY <1>8 DEF DayCount, First
  <2>3. b.d = a.d + k
    BY <1>2, <2>1, <2>2
  <2>4. Day(b.d) = b.d
    BY <1>2, Narrowed
  <2>5. DayLess(a.d, b.d) <=> k > 0
    BY <1>2, <2>3 DEF DayLess
  <2>6. DayMinus(b.d, a.d) = k
    BY <1>2, <2>3 DEF DayMinus
  <2> QED BY <2>3, <2>4, <2>5, <2>6 DEF DayPlus
<1> QED BY <1>1, <1>3, <1>4, <1>5, <1>6, <1>7, <1>8

\* Every class of ISO dates, likewise.
LEMMA IsoOrders ==
  ASSUME NEW a, IsoDate(a), NEW b, IsoDate(b), NEW k \in Int,
         IsoCount(b) = IsoCount(a) + k
  PROVE  /\ YearWeeknumWeekdayLess(a, b) <=> k > 0
         /\ YearWeeknumLess(a, b) <=> k > 0 /\ (a.y # b.y \/ a.wn # b.wn)
         /\ a.y = b.y =>
              /\ WeeknumWeekdayLess(a, b) <=> k > 0
              /\ 7 * WeeknumMinus(b.wn, a.wn) + b.wd - a.wd = k
              /\ WeeknumLess(a.wn, b.wn) => k > 0
         /\ IsoYearLess(a.y, b.y) => k > 0
<1>1. IsoEarlier(a, b) <=> k > 0
  <2>1. IsoCount(a) \in Int /\ IsoCount(b) \in Int
    BY InIsoYear
  <2>2. IsoEarlier(a, b) <=> IsoCount(a) < IsoCount(b)
    BY IsoOrder
  <2> QED BY <2>1, <2>2
<1>2. /\ a.y \in Int /\ a.wn \in Int /\ a.wd \in Int
      /\ b.y \in Int /\ b.wn \in Int /\ b.wd \in Int
  BY DEF IsoDate
<1>3. YearWeeknumWeekdayLess(a, b) <=> IsoEarlier(a, b)
  BY Before3 DEF YearWeeknumWeekdayLess, IsoEarlier
<1>4. /\ YearWeeknumLess(a, b) <=> a.y < b.y \/ (a.y = b.y /\ a.wn < b.wn)
      /\ WeeknumWeekdayLess(a, b) <=> a.wn < b.wn \/ (a.wn = b.wn /\ a.wd < b.wd)
  BY Before2 DEF YearWeeknumLess, WeeknumWeekdayLess
<1>5. (a.y < b.y \/ (a.y = b.y /\ a.wn < b.wn)) <=> k > 0 /\ (a.y # b.y \/ a.wn # b.wn)
  BY <1>1, <1>2 DEF IsoEarlier
<1>6. ASSUME a.y = b.y
      PROVE  /\ WeeknumWeekdayLess(a, b) <=> k > 0
             /\ 7 * WeeknumMinus(b.wn, a.wn) + b.wd - a.wd = k
             /\ WeeknumLess(a.wn, b.wn) => k > 0
  <2>1. WeeknumWeekdayLess(a, b) <=> k > 0
    BY <1>1, <1>2, <1>4, <1>6 DEF IsoEarlier
  <2>2. PICK s \in Int : s = WeekOne(a.y)
    BY <1>2, WeeksInt
  <2>3. /\ IsoCount(a) = s + (a.wn - 1) * 7 + a.wd - 1
        /\ IsoCount(b) = s + (b.wn - 1) * 7 + b.wd - 1
    BY <1>6, <2>2 DEF IsoCount
  <2>4. 7 * (b.wn - a.wn) + b.wd - a.wd = k
    BY <1>2, <2>2, <2>3
  <2>5. a.wn < b.wn => k > 0
    BY <1>1, <1>6 DEF IsoEarlier
  <2> QED BY <2>1, <2>4, <2>5 DEF WeeknumMinus, WeeknumLess
<1>7. IsoYearLess(a.y, b.y) => k > 0
  BY <1>1 DEF IsoYearLess, IsoEarlier
<1> QED BY <1>1, <1>3, <1>4, <1>5, <1>6, <1>7

\* Every date class orders its dates as their days follow each other.
THEOREM DatesInOrder == Spec => []OrdersFollowDays
<1>1. WalkInv => OrdersFollowDays
  <2> SUFFICES ASSUME WalkInv PROVE OrdersFollowDays
    OBVIOUS
  <2>1. /\ RealDate(date) /\ DayCount(date) = serial
        /\ IsoDate(YearWeeknumWeekdayFromDays(serial))
        /\ IsoCount(YearWeeknumWeekdayFromDays(serial)) = serial
    BY Today, TodayIso
  <2>2. PICK iso : iso = YearWeeknumWeekdayFromDays(serial)
    OBVIOUS
  <2>3. SUFFICES ASSUME NEW k \in Offsets \ {0},
                        NEW other, other = FromDays(serial + k),
                        NEW isoOther, isoOther = YearWeeknumWeekdayFromDays(serial + k)
                 PROVE  LET laterMonth == k > 0 /\ (date.y # other.y \/ date.m # other.m)
                        IN  /\ YearMonthDayLess(date, other) <=> k > 0
                            /\ YearWeeknumWeekdayLess(iso, isoOther) <=> k > 0
                            /\ YearMonthLess(date, other) <=> laterMonth
                            /\ YearMonthDayLastLess(date, other) <=> laterMonth
                            /\ YearLess(date.y, other.y) <=> YearMinus(other.y, date.y) > 0
                            /\ YearWeeknumLess(iso, isoOther)
                                 <=> k > 0 /\ (iso.y # isoOther.y \/ iso.wn # isoOther.wn)
                            /\ date.y = other.y =>
                                 /\ MonthDayLess(date, other) <=> k > 0
                                 /\ MonthDayLastLess(date, other) <=> laterMonth
                                 /\ MonthLess(date.m, other.m) <=> laterMonth
                            /\ date.y = other.y /\ date.m = other.m =>
                                 /\ DayLess(date.d, other.d) <=> k > 0
                                 /\ DayMinus(other.d, date.d) = k
                                 /\ DayPlus(date.d, k) = other.d
                            /\ iso.y = isoOther.y =>
                                 /\ WeeknumWeekdayLess(iso, isoOther) <=> k > 0
                                 /\ 7 * WeeknumMinus(isoOther.wn, iso.wn) + isoOther.wd - iso.wd = k
                                 /\ WeeknumLess(iso.wn, isoOther.wn) => k > 0
                            /\ IsoYearLess(iso.y, isoOther.y) => k > 0
    BY <2>2 DEF OrdersFollowDays
  <2>4. /\ k \in Int
        /\ RealDate(other) /\ DayCount(other) = DayCount(date) + k
        /\ IsoDate(iso) /\ IsoDate(isoOther) /\ IsoCount(isoOther) = IsoCount(iso) + k
    BY <2>1, <2>2, <2>3, Compared
  <2> QED BY <2>1, <2>4, CivilOrders, IsoOrders
<1> QED BY <1>1, WalkHolds, PTL

-----------------------------------------------------------------------------
(* Weeks and years *)

\* A day has one ISO date, and one year.
LEMMA OneIsoDate ==
  ASSUME NEW a, IsoDate(a), NEW b, IsoDate(b), IsoCount(a) = IsoCount(b)
  PROVE  a = b
<1>1. ~IsoEarlier(a, b) /\ ~IsoEarlier(b, a)
  <2>1. IsoCount(a) \in Int /\ IsoCount(b) \in Int
    BY InIsoYear
  <2>2. /\ IsoEarlier(a, b) <=> IsoCount(a) < IsoCount(b)
        /\ IsoEarlier(b, a) <=> IsoCount(b) < IsoCount(a)
    BY IsoOrder
  <2> QED BY <2>1, <2>2
<1> QED BY <1>1 DEF IsoEarlier, IsoDate

\* A day lies in one year only.
LEMMA OneYear ==
  ASSUME NEW x, RealDate(x), NEW y \in Int,
         YearStart(y) <= DayCount(x), DayCount(x) < YearStart(y + 1)
  PROVE  x.y = y
<1>1. /\ x.y \in Int /\ DayCount(x) \in Int
      /\ YearStart(x.y) <= DayCount(x) /\ DayCount(x) < YearStart(x.y + 1)
  BY InYear
<1>2. /\ YearStart(x.y) \in Int /\ YearStart(x.y + 1) \in Int
      /\ YearStart(y) \in Int /\ YearStart(y + 1) \in Int
  BY <1>1, YearInt
<1>3. ~(x.y < y)
  <2>1. SUFFICES ASSUME x.y < y PROVE FALSE
    OBVIOUS
  <2>2. x.y + 1 \in Int /\ x.y + 1 <= y
    BY <1>1, <2>1
  <2>3. YearStart(x.y + 1) + 365 * (y - (x.y + 1)) <= YearStart(y)
    BY <2>2, YearGrows
  <2> QED BY <1>1, <1>2, <2>2, <2>3
<1>4. ~(y < x.y)
  <2>1. SUFFICES ASSUME y < x.y PROVE FALSE
    OBVIOUS
  <2>2. y + 1 \in Int /\ y + 1 <= x.y
    BY <1>1, <2>1
  <2>3. YearStart(y + 1) + 365 * (x.y - (y + 1)) <= YearStart(x.y)
    BY <1>1, <2>2, YearGrows
  <2> QED BY <1>1, <1>2, <2>2, <2>3
<1> QED BY <1>1, <1>3, <1>4

\* The numbers of an ISO date.
LEMMA IsoNumbers ==
  ASSUME NEW x, IsoDate(x), Broad(x.y)
  PROVE  /\ x = [y |-> x.y, wn |-> x.wn, wd |-> x.wd]
         /\ x.y \in Int /\ Short(x.y) /\ Short(x.y - 1) /\ Short(x.y + 1) /\ Short(x.y - 2)
         /\ x.wn \in Int /\ 1 <= x.wn /\ x.wn <= 53
         /\ x.wd \in Int /\ 1 <= x.wd /\ x.wd <= 7
         /\ LastWeek(x.y) = WeeksOf(x.y) /\ LastWeek(x.y) \in {52, 53} /\ x.wn <= LastWeek(x.y)
         /\ WeekOne(x.y) \in Int /\ WeekOne(x.y) % 7 = 4
         /\ IsoCount(x) = WeekOne(x.y) + (x.wn - 1) * 7 + x.wd - 1
<1>1. /\ x = [y |-> x.y, wn |-> x.wn, wd |-> x.wd]
      /\ x.y \in Int /\ x.wn \in Int /\ 1 <= x.wn /\ x.wn <= WeeksOf(x.y)
      /\ x.wd \in Int /\ 1 <= x.wd /\ x.wd <= 7
  BY DEF IsoDate
<1>2. Short(x.y) /\ Short(x.y - 1) /\ Short(x.y + 1) /\ Short(x.y - 2)
  BY BroadShort
<1>3. LastWeek(x.y) = WeeksOf(x.y) /\ LastWeek(x.y) \in {52, 53}
  BY <1>1, <1>2, LastWeekIs
<1>4. x.wn <= LastWeek(x.y) /\ x.wn <= 53
  BY <1>1, <1>3
<1>5. WeekOne(x.y) \in Int /\ WeekOne(x.y) % 7 = 4
  BY <1>1, WeeksInt, WeekOneThursday
<1> QED BY <1>1, <1>2, <1>3, <1>4, <1>5 DEF IsoCount

\* to_days leads from an ISO date to its day.
LEMMA IsoReturns ==
  ASSUME NEW x, IsoDate(x), Broad(x.y)
  PROVE  YearWeeknumWeekdayToDays(x) = IsoCount(x)
<1>1. StartOfYear(x.y) = WeekOne(x.y)
  BY IsoNumbers, StartIs
<1>2. IsoWeekdayMinus(x.wd, Monday) = x.wd - 1
  BY IsoNumbers DEF IsoWeekdayMinus, Monday
<1>3. YearWeeknumWeekdayToDays(x) = WeekOne(x.y) + (x.wn - 1) * 7 + (x.wd - 1)
  BY <1>1, <1>2 DEF YearWeeknumWeekdayToDays
<1>4. WeekOne(x.y) + (x.wn - 1) * 7 + (x.wd - 1) = WeekOne(x.y) + (x.wn - 1) * 7 + x.wd - 1
  BY IsoNumbers
<1> QED BY <1>3, <1>4, IsoNumbers

\* The weekday of a day, from its first Monday and its week.
LEMMA IsoWeekdayOf ==
  \A s, n, d \in Int : s % 7 = 4 /\ 1 <= d /\ d <= 7 => (((s + (n - 1) * 7 + d - 1) + 3) % 7) + 1 = d
BY SMT

\* A week has the year of its Thursday.
LEMMA ThursdayYear ==
  ASSUME NEW y \in Int, NEW n \in Int, 1 <= n, n <= WeeksOf(y)
  PROVE  LET t == WeekOne(y) + (n - 1) * 7 + 3
         IN  t \in Int /\ YearStart(y) <= t /\ t < YearStart(y + 1)
<1>1. PICK a \in Int, b \in Int : a = YearStart(y) /\ b = YearStart(y + 1)
  BY YearInt
<1>2. PICK v \in Int, w \in Int : v = (a - 1) \div 7 /\ w = (b - 1) \div 7
  OBVIOUS
<1>3. WeekOne(y) = 7 * v + 4 /\ WeeksOf(y) = w - v
  BY <1>1, <1>2 DEF WeekOne, WeeksOf, WeeksBefore
<1>4. a <= 7 * v + 7 /\ 7 * w <= b - 1
  BY SMT, <1>2
<1>5. 1 <= n /\ n <= w - v
  BY <1>3
<1>6. a <= (7 * v + 4) + (n - 1) * 7 + 3 /\ (7 * v + 4) + (n - 1) * 7 + 3 < b
  BY <1>4, <1>5
<1> QED BY <1>1, <1>3, <1>6

\* A week after an ISO date: the next week, or the first of the next year.
LEMMA WeekLater ==
  ASSUME NEW x, IsoDate(x), Broad(x.y), NEW z, IsoDate(z), IsoCount(z) = IsoCount(x) + 7
  PROVE  /\ x.wn = LastWeek(x.y) => z.wn = 1 /\ z.y = x.y + 1
         /\ x.wn < LastWeek(x.y) => z = [x EXCEPT !.wn = x.wn + 1]
<1>1. ASSUME x.wn = LastWeek(x.y) PROVE z.wn = 1 /\ z.y = x.y + 1
  <2> DEFINE v == [y |-> x.y + 1, wn |-> 1, wd |-> x.wd]
  <2>1. WeekOne(x.y + 1) = WeekOne(x.y) + 7 * WeeksOf(x.y)
    BY IsoNumbers, WeekOneThursday
  <2>2. IsoDate(v)
    <3>1. x.y + 1 \in Int
      BY IsoNumbers
    <3>2. WeeksOf(x.y + 1) \in {52, 53}
      BY <3>1, WeeksOfYear
    <3> QED BY <3>1, <3>2, IsoNumbers DEF IsoDate
  <2>3. IsoCount(v) = IsoCount(x) + 7
    <3>1. IsoCount(v) = WeekOne(x.y + 1) + (1 - 1) * 7 + x.wd - 1
      BY DEF IsoCount
    <3>2. /\ WeekOne(x.y) \in Int /\ x.wd \in Int /\ WeeksOf(x.y) \in Int /\ WeeksOf(x.y) = x.wn
          /\ IsoCount(x) = WeekOne(x.y) + (x.wn - 1) * 7 + x.wd - 1
      BY <1>1, IsoNumbers
    <3> QED BY <2>1, <3>1, <3>2
  <2> HIDE DEF v
  <2>4. z = v
    BY <2>2, <2>3, OneIsoDate
  <2> QED BY <2>4 DEF v
<1>2. ASSUME x.wn < LastWeek(x.y) PROVE z = [x EXCEPT !.wn = x.wn + 1]
  <2> DEFINE v == [y |-> x.y, wn |-> x.wn + 1, wd |-> x.wd]
  <2>1. IsoDate(v)
    <3>1. x.wn + 1 <= WeeksOf(x.y) /\ 1 <= x.wn + 1 /\ x.wn + 1 \in Int
      BY <1>2, IsoNumbers
    <3> QED BY <3>1, IsoNumbers DEF IsoDate
  <2>2. IsoCount(v) = IsoCount(x) + 7
    <3>1. IsoCount(v) = WeekOne(x.y) + ((x.wn + 1) - 1) * 7 + x.wd - 1
      BY DEF IsoCount
    <3> QED BY <3>1, IsoNumbers
  <2>3. v = [x EXCEPT !.wn = x.wn + 1]
    BY IsoNumbers
  <2> HIDE DEF v
  <2>4. z = v
    BY <2>1, <2>2, OneIsoDate
  <2> QED BY <2>3, <2>4
<1> QED BY <1>1, <1>2

\* A weekday of a year's last week.
LEMMA LastWeekReturns ==
  ASSUME NEW x, IsoDate(x), Broad(x.y), x.wn = LastWeek(x.y)
  PROVE  YearLastweekWeekdayToDays(YearLastweekWeekday(x.y, x.wd)) = IsoCount(x)
<1>1. YearLastweekWeekday(x.y, x.wd) = [y |-> x.y, wd |-> x.wd]
  <2>1. IsoYear(x.y) = x.y
    BY IsoNumbers, YearKept DEF IsoYear, Year
  <2> QED BY <2>1 DEF YearLastweekWeekday
<1>2. LastThursday(x.y) = 7 * WeeksBefore(x.y + 1)
  BY IsoNumbers, LastThursdayIs
<1>3. IsoWeekdayMinus(Sunday, Thursday) = 3 /\ IsoWeekdayMinus(Sunday, x.wd) = 7 - x.wd
  BY IsoNumbers DEF IsoWeekdayMinus, Sunday, Thursday
<1>4. PICK a \in Int, b \in Int : a = WeeksBefore(x.y) /\ b = WeeksBefore(x.y + 1)
  BY IsoNumbers, WeeksInt
<1>5. WeekOne(x.y) = 7 * a + 4 /\ x.wn = b - a
  BY <1>4, IsoNumbers DEF WeekOne, WeeksOf
<1>6. YearLastweekWeekdayToDays([y |-> x.y, wd |-> x.wd]) = 7 * b + 3 - (7 - x.wd)
  BY <1>2, <1>3, <1>4 DEF YearLastweekWeekdayToDays
<1>7. IsoCount(x) = (7 * a + 4) + ((b - a) - 1) * 7 + x.wd - 1 /\ x.wd \in Int
  BY <1>5, IsoNumbers
<1>8. 7 * b + 3 - (7 - x.wd) = (7 * a + 4) + ((b - a) - 1) * 7 + x.wd - 1
  BY <1>4, <1>7
<1> QED BY <1>1, <1>6, <1>7, <1>8

\* min() and max() are the ends of a short.
LEMMA IsoYearHeld == \A y \in Int : Short(y) => IsoYearOk(y)
BY SMT DEF Short, IsoYearOk

\* The same date of the year before or after.
LEMMA YearMoved ==
  ASSUME NEW x, IsoDate(x), Broad(x.y), NEW n \in {-1, 1}
  PROVE  LET moved == YearWeeknumWeekdayPlusYears(x, n)
         IN  /\ YearWeeknumWeekdayOk(moved) <=> x.wn <= LastWeek(x.y + n)
             /\ YearWeeknumOk(YearWeeknumPlusYears(x, n)) <=> YearWeeknumWeekdayOk(moved)
             /\ YearWeeknumWeekdayLess(x, moved) <=> n > 0
             /\ YearLastweekWeekdayLess(x, moved) <=> n > 0
<1>1. PICK y \in Int : y = x.y + n
  BY IsoNumbers
<1>2. Short(y) /\ Short(y - 1)
  <2>1. x.y + (-1) = x.y - 1 /\ (x.y - 1) - 1 = x.y - 2 /\ (x.y + 1) - 1 = x.y
    BY IsoNumbers
  <2> QED BY <1>1, <2>1, IsoNumbers
<1>3. IsoYear(y) = y /\ IsoYear(x.y + n) = y
  BY <1>1, <1>2, YearKept DEF IsoYear, Year
<1>4. Weeknum(x.wn) = x.wn
  <2>1. \A w \in Int : 1 <= w /\ w <= 53 => Weeknum(w) = w
    BY SMT DEF Weeknum
  <2> QED BY <2>1, IsoNumbers
<1>5. YearWeeknumWeekdayPlusYears(x, n) = [y |-> y, wn |-> x.wn, wd |-> x.wd]
  BY <1>3, <1>4 DEF YearWeeknumWeekdayPlusYears, YearWeeknumWeekday, IsoYearPlus
<1>6. YearWeeknumPlusYears(x, n) = [y |-> y, wn |-> x.wn]
  BY <1>3 DEF YearWeeknumPlusYears, IsoYearPlus
<1>7. IsoYearOk(y) /\ IsoWeekdayOk(x.wd) /\ LastWeek(y) \in {52, 53}
  <2>1. IsoYearOk(y)
    BY <1>2, IsoYearHeld
  <2>2. IsoWeekdayOk(x.wd)
    BY IsoNumbers DEF IsoWeekdayOk
  <2> QED BY <1>2, <2>1, <2>2, LastWeekIs
<1>8. x.wn \in 1 .. LastWeek(y) <=> x.wn <= LastWeek(y)
  BY <1>7, IsoNumbers
<1>9. YearWeeknumWeekdayOk([y |-> y, wn |-> x.wn, wd |-> x.wd]) <=> x.wn <= LastWeek(y)
  BY <1>7, <1>8 DEF YearWeeknumWeekdayOk
<1>10. YearWeeknumOk([y |-> y, wn |-> x.wn]) <=> x.wn <= LastWeek(y)
  BY <1>7, <1>8 DEF YearWeeknumOk
<1>11. /\ x.y < y <=> n > 0
       /\ x.y # y
  BY <1>1, IsoNumbers
<1>12. YearWeeknumWeekdayLess(x, [y |-> y, wn |-> x.wn, wd |-> x.wd]) <=> n > 0
  BY <1>11, Before3 DEF YearWeeknumWeekdayLess
<1>13. YearLastweekWeekdayLess(x, [y |-> y, wn |-> x.wn, wd |-> x.wd]) <=> n > 0
  BY <1>11, Before2 DEF YearLastweekWeekdayLess
<1> QED BY <1>1, <1>5, <1>6, <1>9, <1>10, <1>12, <1>13

\* The ISO classes accept such a date.
LEMMA WeekOk ==
  ASSUME NEW x, IsoDate(x), Broad(x.y)
  PROVE  /\ YearWeeknumOk(x) /\ WeeknumWeekdayOk(x) /\ YearWeeknumWeekdayOk(x)
         /\ LastWeek(x.y) \in {52, 53}
<1>1. IsoYearOk(x.y)
  BY IsoNumbers, IsoYearHeld
<1>2. x.wn \in 1 .. LastWeek(x.y) /\ x.wn \in 1 .. 53 /\ x.wd \in 1 .. 7
  BY IsoNumbers
<1> QED BY <1>1, <1>2, IsoNumbers
        DEF YearWeeknumOk, WeeknumWeekdayOk, YearWeeknumWeekdayOk, WeeknumOk, IsoWeekdayOk

\* The Thursday of today's week is in the civil year that is its ISO year.
LEMMA ThursdayIs ==
  ASSUME WalkInv
  PROVE  LET x == YearWeeknumWeekdayFromDays(serial)
         IN  x.wd = IsoEncoding(wday) /\ x.y = FromDays(serial - x.wd + Thursday).y
<1>1. PICK x : x = YearWeeknumWeekdayFromDays(serial)
  OBVIOUS
<1>2. IsoDate(x) /\ IsoCount(x) = serial /\ Broad(x.y) /\ serial \in Int
  BY <1>1, TodayIso
<1>3. PICK s \in Int, n \in Int, d \in Int : s = WeekOne(x.y) /\ n = x.wn /\ d = x.wd
  BY <1>2, IsoNumbers
<1>4. s % 7 = 4 /\ 1 <= d /\ d <= 7 /\ serial = s + (n - 1) * 7 + d - 1 /\ 1 <= n
  BY <1>2, <1>3, IsoNumbers
<1>5. x.wd = IsoEncoding(wday)
  <2>1. ((serial + 3) % 7) + 1 = d
    BY <1>4, IsoWeekdayOf
  <2>2. wday = (serial + 4) % 7
    BY TodayIs
  <2> QED BY <1>2, <1>3, <2>1, <2>2, Encodings
<1>6. PICK t \in Int : t = s + (n - 1) * 7 + 3
  OBVIOUS
<1>7. YearStart(x.y) <= t /\ t < YearStart(x.y + 1)
  <2>1. x.y \in Int /\ n <= WeeksOf(x.y)
    BY <1>2, <1>3 DEF IsoDate
  <2> QED BY <1>3, <1>4, <1>6, <2>1, ThursdayYear
<1>8. serial - x.wd + Thursday = t
  <2>1. serial - d + 4 = t
    BY <1>4, <1>6
  <2> QED BY <1>3, <2>1 DEF Thursday
<1>9. Covered(t)
  <2>1. PICK j \in Int : j = 4 - d
    OBVIOUS
  <2>2. Near(j)
    BY SMT, <1>4, <2>1 DEF Near
  <2>3. serial + j = t
    BY <1>2, <1>4, <1>6, <2>1
  <2>4. InReach(serial)
    BY Today
  <2> QED BY <2>2, <2>3, <2>4, ReachCovered
<1>10. RealDate(FromDays(t)) /\ DayCount(FromDays(t)) = t
  BY <1>9, DayFound
<1>11. FromDays(t).y = x.y
  <2>1. x.y \in Int
    BY <1>2, IsoNumbers
  <2> QED BY <1>7, <1>10, <2>1, OneYear
<1> QED BY <1>1, <1>5, <1>8, <1>11

\* The ISO date of a day leads back to it, weeks have the years of their
\* Thursdays, and years change after their 52nd or 53rd week.
THEOREM WeeksOfIso == Spec => []IsoWeeks
<1>1. WalkInv => IsoWeeks
  <2> SUFFICES ASSUME WalkInv PROVE IsoWeeks
    OBVIOUS
  <2>1. PICK x : x = YearWeeknumWeekdayFromDays(serial)
    OBVIOUS
  <2>2. PICK next : next = YearWeeknumWeekdayFromDays(serial + 7)
    OBVIOUS
  <2>3. IsoDate(x) /\ IsoCount(x) = serial /\ Broad(x.y) /\ serial \in Int
    BY <2>1, TodayIso
  <2>4. IsoDate(next) /\ IsoCount(next) = IsoCount(x) + 7
    <3>1. InReach(serial) /\ Near(10)
      BY SMT, Today DEF Near
    <3>2. Covered(serial + 10)
      BY <3>1, ReachCovered
    <3>3. (serial + 7) + 3 = serial + 10 /\ serial + 7 \in Int
      BY <2>3
    <3> QED BY <2>2, <2>3, <3>2, <3>3, IsoFound
  <2>5. YearWeeknumWeekdayToDays(x) = serial
    BY <2>3, IsoReturns
  <2>6. x.wd = IsoEncoding(wday) /\ x.y = FromDays(serial - x.wd + Thursday).y
    BY <2>1, ThursdayIs
  <2>7. /\ YearWeeknumOk(x) /\ WeeknumWeekdayOk(x)
        /\ LastWeek(x.y) \in {52, 53}
    BY <2>3, WeekOk
  <2>8. ASSUME x.wn = LastWeek(x.y)
        PROVE  /\ next.wn = 1 /\ next.y = IsoYearPlus(x.y, 1)
               /\ YearLastweekWeekdayToDays(YearLastweekWeekday(x.y, x.wd)) = serial
    <3>1. IsoYearPlus(x.y, 1) = x.y + 1
      BY <2>3, IsoNumbers, YearKept DEF IsoYearPlus, IsoYear, Year
    <3> QED BY <2>3, <2>4, <2>8, <3>1, WeekLater, LastWeekReturns
  <2>9. ASSUME x.wn < LastWeek(x.y)
        PROVE  next = [x EXCEPT !.wn = WeeknumPlus(x.wn, 1)]
    <3>1. WeeknumPlus(x.wn, 1) = x.wn + 1
      <4>1. \A w \in Int : 1 <= w /\ w <= 53 => Weeknum(w + 1) = w + 1
        BY SMT DEF Weeknum
      <4> QED BY <2>3, <4>1, IsoNumbers DEF WeeknumPlus
    <3> QED BY <2>3, <2>4, <2>9, <3>1, WeekLater
  <2>10. ASSUME NEW n \in {-1, 1}, NEW moved, moved = YearWeeknumWeekdayPlusYears(x, n)
         PROVE  /\ YearWeeknumWeekdayOk(moved) <=> x.wn <= LastWeek(x.y + n)
                /\ YearWeeknumOk(YearWeeknumPlusYears(x, n)) <=> YearWeeknumWeekdayOk(moved)
                /\ YearWeeknumWeekdayLess(x, moved) <=> n > 0
                /\ YearLastweekWeekdayLess(x, moved) <=> n > 0
    BY <2>3, <2>10, YearMoved
  <2> QED BY <2>1, <2>2, <2>5, <2>6, <2>7, <2>8, <2>9, <2>10 DEF IsoWeeks
<1> QED BY <1>1, WalkHolds, PTL

-----------------------------------------------------------------------------
\* The dates computed for a day are dates their classes can hold, in every
\* form.
THEOREM DatesHeld == Spec => []TypeOK
<1>1. WalkInv => TypeOK
  <2> SUFFICES ASSUME WalkInv, NEW k \in Offsets \cup {0}
               PROVE  /\ \A x \in {FromDays(serial + k)} :
                           x = YearMonthDay(x.y, x.m, x.d) /\ YearMonthDayOk(x)
                      /\ YearMonthWeekdayOk(YearMonthWeekdayFromDays(serial + k))
                      /\ WeekdayIndexedOk(YearMonthWeekdayFromDays(serial + k).wdi)
                      /\ YearWeeknumWeekdayOk(YearWeeknumWeekdayFromDays(serial + k))
    BY DEF TypeOK
  <2>1. PICK n \in Int : n = serial + k
    BY Compared
  <2>2. PICK x : x = FromDays(n)
    OBVIOUS
  <2>3. /\ RealDate(x) /\ DayCount(x) = n /\ Wide(x.y)
        /\ IsoDate(YearWeeknumWeekdayFromDays(n)) /\ Broad(YearWeeknumWeekdayFromDays(n).y)
    BY <2>1, <2>2, Compared
  <2>4. /\ x = [y |-> x.y, m |-> x.m, d |-> x.d]
        /\ x.y \in Int /\ Short(x.y) /\ YearOk(x.y)
        /\ x.m \in Int /\ 1 <= x.m /\ x.m <= 12
        /\ x.d \in Int /\ 1 <= x.d /\ x.d <= LengthOf(x.y, x.m)
        /\ LengthOf(x.y, x.m) \in Int /\ LengthOf(x.y, x.m) <= 31
    <3>1. x.y \in Int /\ x.m \in Int
      BY <2>3 DEF RealDate
    <3>2. Short(x.y) /\ YearOk(x.y)
      BY <2>3, WideShort DEF YearOk
    <3>3. LengthOf(x.y, x.m) \in Int /\ LengthOf(x.y, x.m) <= 31
      BY <3>1, LengthRange
    <3> QED BY <2>3, <3>2, <3>3 DEF RealDate
  <2>5. x = YearMonthDay(x.y, x.m, x.d)
    BY <2>4, FirstIs
  <2>6. YearMonthDayOk(x)
    <3>1. LastDay(YearMonthDayLast(x.y, x.m)) = LengthOf(x.y, x.m)
      BY <2>4, LastDayIs
    <3>2. x.d \in 1 .. LengthOf(x.y, x.m) /\ MonthOk(x.m)
      BY <2>4 DEF MonthOk
    <3> QED BY <2>4, <3>1, <3>2 DEF YearMonthDayOk
  <2>7. /\ YearMonthWeekdayOk(YearMonthWeekdayFromDays(n))
        /\ WeekdayIndexedOk(YearMonthWeekdayFromDays(n).wdi)
    BY <2>3, IndexedDate
  <2>8. YearWeeknumWeekdayOk(YearWeeknumWeekdayFromDays(n))
    BY <2>3, WeekOk
  <2> QED BY <2>1, <2>2, <2>5, <2>6, <2>7, <2>8
<1> QED BY <1>1, WalkHolds, PTL

=============================================================================
