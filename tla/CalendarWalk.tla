---------------------------- MODULE CalendarWalk ----------------------------
(***************************************************************************)
(* A reference calendar that only counts: from a known day it walks one    *)
(* day at a time, in both directions, and at each day the arithmetic of    *)
(* date.h, iso_week.h and the bot's timestamps is compared with it.        *)
(***************************************************************************)
EXTENDS Timestamps

CONSTANTS KnownDays,  \* [serial, date, wday]: where the walks start
          Span,       \* how many days a walk goes, each way
          Offsets,    \* how many days away other days are compared
          Jumps,      \* how many months are added
          Clocks      \* the times of day [s, us] of the timestamps

ASSUME WalksAssumption ==
  /\ KnownDays \subseteq [serial : Int, date : [y : Int, m : 1 .. 12, d : 1 .. 31], wday : 0 .. 6]
  /\ Span \in Nat
  /\ Offsets \subseteq Int
  /\ Jumps \subseteq Int

\* Months added stay within 500 years.
ASSUME JumpsAssumption == \A n \in Jumps : -6000 <= n /\ n <= 6000

ASSUME ClocksAssumption ==
  \A c \in Clocks : c \in [s : Nat, us : Nat] /\ c.s < 86400 /\ c.us < 1000000

VARIABLES start,      \* the known day of this walk
          serial,     \* days since 1970-01-01
          date,       \* [y, m, d]
          wday        \* 0, Sunday, to 6

vars == <<start, serial, date, wday>>

Leap(y) == (y % 4 = 0 /\ y % 100 # 0) \/ y % 400 = 0

LengthOf(y, m) == CASE m = 2 -> IF Leap(y) THEN 29 ELSE 28
                    [] m \in {4, 6, 9, 11} -> 30
                    [] OTHER -> 31

(* The days from 1970-01-01 to the first of a year's January: a day more   *)
(* than 365 for each leap year since, or less for each one before.         *)
YearStart(y) ==
  LET Leaps(z) == (z \div 4) - (z \div 100) + (z \div 400)
  IN  365 * (y - 1970) + Leaps(y - 1) - Leaps(1969)

(* The days of a year before a month. *)
MonthStart(y, m) ==
  <<0, 31, 59, 90, 120, 151, 181, 212, 243, 273, 304, 334>>[m]
    + (IF m > 2 /\ Leap(y) THEN 1 ELSE 0)

DayCount(x) == YearStart(x.y) + MonthStart(x.y, x.m) + x.d - 1

(* The years of the days looked at: a short holds them, and those months   *)
(* and weeks away.                                                         *)
FirstYear == -32000

LastYear == 32000

(* The known days are days of the calendar; 1970-01-01 was a Thursday.     *)
ASSUME KnownDaysAssumption ==
  \A k \in KnownDays :
    /\ k.date.d <= LengthOf(k.date.y, k.date.m)
    /\ k.serial = DayCount(k.date)
    /\ k.wday = (k.serial + 4) % 7
    /\ \A o \in Offsets \cup {0} : /\ YearStart(FirstYear) <= k.serial - Span + o
                                  /\ k.serial + Span + o < YearStart(LastYear + 1)

DayAfter(x) ==
  IF x.d < LengthOf(x.y, x.m) THEN [x EXCEPT !.d = x.d + 1]
  ELSE IF x.m < 12 THEN [y |-> x.y, m |-> x.m + 1, d |-> 1]
  ELSE [y |-> x.y + 1, m |-> 1, d |-> 1]

DayBefore(x) ==
  IF x.d > 1 THEN [x EXCEPT !.d = x.d - 1]
  ELSE IF x.m > 1 THEN [y |-> x.y, m |-> x.m - 1, d |-> LengthOf(x.y, x.m - 1)]
  ELSE [y |-> x.y - 1, m |-> 12, d |-> 31]

Init == /\ start \in KnownDays
        /\ serial = start.serial
        /\ date = start.date
        /\ wday = start.wday

Tomorrow == /\ serial \in start.serial .. start.serial + Span - 1
            /\ serial' = serial + 1
            /\ date' = DayAfter(date)
            /\ wday' = (wday + 1) % 7
            /\ UNCHANGED start

Yesterday == /\ serial \in start.serial - Span + 1 .. start.serial
             /\ serial' = serial - 1
             /\ date' = DayBefore(date)
             /\ wday' = (wday + 6) % 7
             /\ UNCHANGED start

Next == Tomorrow \/ Yesterday

Spec == Init /\ [][Next]_vars

-----------------------------------------------------------------------------
(* Type invariant: the dates computed for a day and for those around it    *)
(* are dates the classes can hold, in every form.                          *)
TypeOK ==
  \A k \in Offsets \cup {0} :
    /\ \A x \in {FromDays(serial + k)} : x = YearMonthDay(x.y, x.m, x.d) /\ YearMonthDayOk(x)
    /\ YearMonthWeekdayOk(YearMonthWeekdayFromDays(serial + k))
    /\ WeekdayIndexedOk(YearMonthWeekdayFromDays(serial + k).wdi)
    /\ YearWeeknumWeekdayOk(YearWeeknumWeekdayFromDays(serial + k))

(* The last day of a month is the one before the next month's first, and   *)
(* no other day of 0 to 32 passes ok() but those the month has.            *)
MonthsEnd ==
  LET last == LastDay(YearMonthDayLast(date.y, date.m))
  IN  /\ YearMonthDayLastOk(YearMonthDayLast(date.y, date.m))
      /\ date.d = last <=> DayAfter(date).d = 1
      /\ \A d \in 0 .. 32 :
           /\ YearMonthDayOk(YearMonthDay(date.y, date.m, d)) <=> d \in 1 .. LengthOf(date.y, date.m)
           /\ MonthDayOk(MonthDay(date.m, d)) <=> d \in 1 .. LengthOf(2000, date.m)
           /\ MonthDayOk(MonthDay(date.m, d)) => DayOk(d)

(* year_month_day::from_days and to_days count as the calendar does, over  *)
(* century years, the turn of an era and days before 1970; and the dates   *)
(* that pass ok() are those the calendar has.                              *)
CivilDates ==
  /\ FromDays(serial) = date /\ ToDays(date) = serial
  /\ MonthsEnd

(* A day is the n-th such weekday of its month, and that n leads back to   *)
(* it; a fifth one is refused exactly when it would lie in the next month; *)
(* the last such weekday is less than a week before the month's end.       *)
NthWeekdays ==
  LET x    == YearMonthWeekdayFromDays(serial)
      fifth == YearMonthWeekday(date.y, date.m, WeekdayIndexed(wday, 5))
      last == YearMonthWeekdayLastToDays(YearMonthWeekdayLast(date.y, date.m, wday))
  IN  /\ YearMonthWeekdayToDays(x) = serial
      /\ x.wdi.wd = wday /\ x.wdi.i \in 1 .. 5
      /\ YearMonthWeekdayOk(fifth) <=> FromDays(YearMonthWeekdayToDays(fifth)).m = date.m
      /\ WeekdayFromDays(last) = wday
      /\ FromDays(last).m = date.m /\ FromDays(last + 7).m # date.m

(* Both weekday classes name the day of the week, before and after 1970,   *)
(* and adding days to a weekday, or taking one weekday from another, goes  *)
(* round the week as the days themselves do; a day is found again by its   *)
(* place among its month's days of that name.                              *)
WeekdaysAgree ==
  LET iso == IsoWeekdayFromDays(serial)
  IN  /\ NthWeekdays
      /\ WeekdayFromDays(serial) = wday
      /\ IsoEncoding(wday) = iso /\ CWeekday(iso) = wday
      /\ \A k \in Offsets :
           /\ WeekdayPlus(wday, k) = WeekdayFromDays(serial + k)
           /\ WeekdayMinus(WeekdayFromDays(serial + k), wday) = k % 7
           /\ IsoWeekdayPlus(iso, k) = IsoWeekdayFromDays(serial + k)
           /\ IsoWeekdayMinus(IsoWeekdayFromDays(serial + k), iso) = k % 7

(* Every date class orders its dates as their days follow each other.      *)
OrdersFollowDays ==
  \A iso \in {YearWeeknumWeekdayFromDays(serial)} : \A k \in Offsets \ {0} :
    \A other \in {FromDays(serial + k)}, isoOther \in {YearWeeknumWeekdayFromDays(serial + k)} :
        LET laterMonth == k > 0 /\ (date.y # other.y \/ date.m # other.m)
        IN  /\ YearMonthDayLess(date, other) <=> k > 0
            /\ YearWeeknumWeekdayLess(iso, isoOther) <=> k > 0
            /\ YearMonthLess(date, other) <=> laterMonth
            /\ YearMonthDayLastLess(date, other) <=> laterMonth
            /\ YearLess(date.y, other.y) <=> YearMinus(other.y, date.y) > 0
            /\ YearWeeknumLess(iso, isoOther)
                 <=> k > 0 /\ (iso.y # isoOther.y \/ iso.wn # isoOther.wn)
            /\ date.y = other.y =>
                 /\ MonthDayLess(date, other) <=> k > 0
                 /\ MonthDayLastLess(date, other) <=> laterMonth
                 /\ MonthLess(date.m, other.m) <=> laterMonth
            /\ date.y = other.y /\ date.m = other.m =>
                 /\ DayLess(date.d, other.d) <=> k > 0
                 /\ DayMinus(other.d, date.d) = k
                 /\ DayPlus(date.d, k) = other.d
            /\ iso.y = isoOther.y =>
                 /\ WeeknumWeekdayLess(iso, isoOther) <=> k > 0
                 /\ 7 * WeeknumMinus(isoOther.wn, iso.wn) + isoOther.wd - iso.wd = k
                 /\ WeeknumLess(iso.wn, isoOther.wn) => k > 0
            /\ IsoYearLess(iso.y, isoOther.y) => k > 0

-----------------------------------------------------------------------------
(* Adding months and taking them away again gives the same month, whatever *)
(* the years between, in every class; the day of the month is kept, so     *)
(* that the sum may be no date: it is one exactly when its month has that  *)
(* day, and then it lies the right way from the date.                      *)
MonthsReturn ==
  LET ym == YearMonth(date.y, date.m)
      x  == YearMonthWeekdayFromDays(serial)
      l  == YearMonthWeekdayLast(date.y, date.m, wday)
  IN  \A n \in Jumps :
        LET to  == YearMonthPlus(ym, n)
            sum == YearMonthDayPlus(date, n)
        IN  /\ YearMonthOk(to)
            /\ YearMonthPlus(to, -n) = ym
            /\ YearMonthMinus(to, ym) = n
            /\ MonthPlus(date.m, n) = to.m
            /\ MonthMinus(to.m, date.m) = n % 12
            /\ sum = [y |-> to.y, m |-> to.m, d |-> date.d]
            /\ YearMonthDayOk(sum) <=> date.d <= LengthOf(to.y, to.m)
            /\ YearMonthDayOk(sum) => (ToDays(sum) > serial <=> n > 0)
            /\ YearMonthDayLastPlus(ym, n) = to
            /\ n % 12 = 0 =>
                 LET years == n \div 12
                 IN  /\ YearMonthPlusYears(ym, years) = to
                     /\ YearMonthDayLastPlusYears(ym, years) = to
                     /\ YearMonthDayPlusYears(date, years) = sum
                     /\ YearMonthWeekdayPlusYears(x, years) = YearMonthWeekdayPlus(x, n)
                     /\ YearMonthWeekdayLastPlusYears(l, years) = YearMonthWeekdayLastPlus(l, n)
            /\ YearMonthWeekdayPlus(YearMonthWeekdayPlus(x, n), -n) = x
            /\ YearMonthWeekdayLastPlus(YearMonthWeekdayLastPlus(l, n), -n) = l

-----------------------------------------------------------------------------
(* The ISO date of a day leads back to it; a week begins on Monday and has *)
(* the year of its Thursday; years change from their last week, the 52nd   *)
(* or 53rd, to week 1, and the same date of another year exists unless its *)
(* week is one that year lacks.                                            *)
IsoWeeks ==
  \A x \in {YearWeeknumWeekdayFromDays(serial)} :
    LET next == YearWeeknumWeekdayFromDays(serial + 7)
        thursday == FromDays(serial - x.wd + Thursday)
    IN  /\ YearWeeknumWeekdayToDays(x) = serial
        /\ x.wd = IsoEncoding(wday) /\ x.y = thursday.y
        /\ YearWeeknumOk(x) /\ WeeknumWeekdayOk(x) /\ LastWeek(x.y) \in {52, 53}
        /\ x.wn = LastWeek(x.y) =>
             /\ next.wn = 1 /\ next.y = IsoYearPlus(x.y, 1)
             /\ YearLastweekWeekdayToDays(YearLastweekWeekday(x.y, x.wd)) = serial
        /\ x.wn < LastWeek(x.y) => next = [x EXCEPT !.wn = WeeknumPlus(x.wn, 1)]
        /\ \A n \in {-1, 1} : \A moved \in {YearWeeknumWeekdayPlusYears(x, n)} :
             /\ YearWeeknumWeekdayOk(moved) <=> x.wn <= LastWeek(x.y + n)
             /\ YearWeeknumOk(YearWeeknumPlusYears(x, n)) <=> YearWeeknumWeekdayOk(moved)
             /\ YearWeeknumWeekdayLess(x, moved) <=> n > 0
             /\ YearLastweekWeekdayLess(x, moved) <=> n > 0

-----------------------------------------------------------------------------
Here(c) == [day |-> serial, s |-> c.s, us |-> c.us]

(* Years of four digits, which "%F" writes as it reads them. *)
FourDigits == 0 <= date.y /\ date.y <= 9999

(* The day of the week an HTTP date begins with is that of the date after  *)
(* it, which reads back as the timestamp's second; from 1970 on, since the *)
(* one is rounded towards 1970 and the other is not.                       *)
HttpDates ==
  serial >= 0 => \A c \in Clocks : \A http \in {to_http_ts_str(Here(c))} :
    LET r == FoldLeft(Read, Reader(http.text),
               <<Conversion("unsigned", 2), Conversion("char", Dash),
                 Conversion("unsigned", 2), Conversion("char", Dash),
                 Conversion("signed", 4), Conversion("blanks", 0)>> \o FormatT)
    IN  /\ http.weekday = WeekdayName(IsoEncoding(wday))
        /\ date.y <= 9999 => r.got = <<date.d, date.m, date.y, c.s \div 3600,
                                       (c.s \div 60) % 60, c.s % 60, 0>>

(* A timestamp written and read again, and one that went through a column  *)
(* of the database, is the same timestamp, to the microsecond; an HTTP     *)
(* date names its day and second.                                          *)
TimestampsReturn ==
  /\ FourDigits => \A c \in Clocks : \A text \in {to_iso8601_str(Here(c))} :
       /\ from_iso8601_str(text) = {Here(c)}
       /\ from_iso8601_str(Column(text)) = {Here(c)}
  /\ HttpDates

(* A text with a day, a month, an hour, a minute or a second that does not *)
(* exist is refused, and so is one that ends before its seconds.           *)
Text(y, m, d, tod) ==
  PutF([y |-> y, m |-> m, d |-> d]) \o <<Blank>> \o PutTime(tod, 6)

OnlyRealTimes ==
  FourDigits =>
    LET Accepted(m, d, h, mi, s) ==
          from_iso8601_str(Text(date.y, m, d, [h |-> h, m |-> mi, s |-> s, us |-> 5])) # {}
        text == Text(date.y, date.m, date.d, [h |-> 0, m |-> 0, s |-> 0, us |-> 0])
    IN  /\ \A d \in {0, 1, 28, 29, 30, 31, 32} :
             Accepted(date.m, d, 0, 0, 0) <=> d \in 1 .. LengthOf(date.y, date.m)
        /\ \A m \in {0, 1, 12, 13} : Accepted(m, 1, 23, 59, 59) <=> m \in 1 .. 12
        /\ ~Accepted(date.m, date.d, 24, 0, 0)
        /\ ~Accepted(date.m, date.d, 0, 60, 0)
        /\ ~Accepted(date.m, date.d, 0, 0, 60)
        /\ \A n \in 0 .. 17 : from_iso8601_str(SubSeq(text, 1, n)) = {}

(* The expiry refreshSpotify stores is the moment an hour ahead, not a     *)
(* year of the last century, for as long as the seconds fit 32 bits, and   *)
(* reads back from the column as itself: a token is not fetched again      *)
(* before it expires.                                                      *)
ExpiryKept ==
  \A c \in Clocks :
    LET due == Seconds(serial, c.s + 3600)
        ts  == Expiry([day |-> serial, s |-> c.s], 3600)
    IN  serial >= 0 /\ SecondsBefore(due, Wrap) =>
          /\ from_iso8601_str(Column(to_iso8601_str(ts))) = {from_unix_time(due)}
          /\ to_unix_time(ts) = due
          /\ SecondsBefore([day |-> serial, s |-> c.s], ts)

=============================================================================
