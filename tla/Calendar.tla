------------------------------ MODULE Calendar ------------------------------
(***************************************************************************)
(* The civil calendar of src/include/142bot/date.h, on which db.cpp builds *)
(* the bot's timestamps.                                                   *)
(*                                                                         *)
(* A day of sys_days is an integer, the days since 1970-01-01.  A date is  *)
(* a record of the numbers its class keeps: y a short, m and d an unsigned *)
(* char, wd a weekday in C encoding (0 is Sunday), i an index.  Each group *)
(* of overloads (both orders of the operands, sys_days and local_days, the *)
(* compound assignments, the comparisons that are all written with the     *)
(* class's <) is one operator.                                             *)
(***************************************************************************)
EXTENDS Integers, Sequences

(***************************************************************************)
(* C++ arithmetic: division rounds to zero; b is positive.                 *)
(***************************************************************************)
Quot(a, b) == IF a >= 0 THEN a \div b ELSE -((-a) \div b)

Rem(a, b) == a - b * Quot(a, b)

(* Mutant of Before: any component that is less decides. *)
BeforeAnywhere(s, t) == \E i \in DOMAIN s : s[i] < t[i]

(* The order of two tuples of numbers, first component first. *)
Before(s, t) == \E i \in DOMAIN s : /\ s[i] < t[i]
                                    /\ \A j \in 1 .. i - 1 : s[j] = t[j]

(* trunc and duration_cast: a duration in a longer unit, rounded to zero. *)
trunc(n, unit) == Quot(n, unit)

-----------------------------------------------------------------------------
(* day, month, year: the narrowing of each constructor, then its operators. *)

Day(d) == d % 256

DayOk(d) == d \in 1 .. 31

DayLess(d, e) == d < e

DayMinus(d, e) == d - e

DayPlus(d, days) == Day(d + days)

Month(m) == m % 256

MonthOk(m) == m \in 1 .. 12

MonthLess(m, n) == m < n

(* Months from n on to m, once round the year at most. *)
MonthMinus(m, n) == IF m - n \in 0 .. 11 THEN m - n ELSE m - n + 12

MonthPlus(m, months) ==
  LET mu == m + months - 1
      yr == Quot(IF mu >= 0 THEN mu ELSE mu - 11, 12)
  IN  Month(mu - yr * 12 + 1)

Year(y) == ((y + 32768) % 65536) - 32768

YearOk(y) == y # -32768

IsLeap(y) == /\ Rem(y, 4) = 0
             /\ Rem(y, 100) # 0 \/ Rem(y, 400) = 0

YearLess(y, z) == y < z

YearMinus(y, z) == y - z

YearPlus(y, years) == Year(y + years)

-----------------------------------------------------------------------------
(* weekday *)

(* n modulo 7 as an unsigned of 32 bits, 2^32 being 4 modulo 7. *)
Unsigned7(n) == (IF n >= 0 THEN n ELSE n + 4) % 7

(* Mutant of WeekdayFromDays: the sum is taken before the wrap always. *)
WeekdayUnguarded(z) == Unsigned7(z + 4)

WeekdayFromDays(z) == IF z >= -4 THEN Unsigned7(z + 4) ELSE Unsigned7(z)

Weekday(wd) == IF wd # 7 THEN wd % 256 ELSE 0

WeekdayOk(wd) == wd <= 6

IsoEncoding(wd) == IF wd = 0 THEN 7 ELSE wd

WeekdayMinus(v, w) ==
  LET wdu == v - w
      wk  == Quot(IF wdu >= 0 THEN wdu ELSE wdu - 6, 7)
  IN  wdu - wk * 7

WeekdayPlus(v, days) ==
  LET wdu == v + days
      wk  == Quot(IF wdu >= 0 THEN wdu ELSE wdu - 6, 7)
  IN  Weekday(wdu - wk * 7)

(* weekday_indexed: the index is a field of four bits. *)
WeekdayIndexed(wd, i) == [wd |-> wd % 16, i |-> i % 16]

WeekdayIndexedOk(x) == WeekdayOk(x.wd) /\ x.i \in 1 .. 5

-----------------------------------------------------------------------------
(* year_month *)

YearMonth(y, m) == [y |-> Year(y), m |-> Month(m)]

YearMonthOk(ym) == YearOk(ym.y) /\ MonthOk(ym.m)

YearMonthLess(a, b) == Before(<<a.y, a.m>>, <<b.y, b.m>>)

(* Mutant of YearMonthPlus: negative months divided towards zero. *)
YearMonthPlusTruncated(ym, months) ==
  LET dmi == ym.m - 1 + months
      dy  == Quot(dmi, 12)
  IN  YearMonth(YearPlus(ym.y, dy), dmi - dy * 12 + 1)

YearMonthPlus(ym, months) ==
  LET dmi == ym.m - 1 + months
      dy  == Quot(IF dmi >= 0 THEN dmi ELSE dmi - 11, 12)
  IN  YearMonth(YearPlus(ym.y, dy), dmi - dy * 12 + 1)

YearMonthMinus(a, b) == YearMinus(a.y, b.y) * 12 + (a.m - b.m)

YearMonthPlusYears(ym, years) == YearMonth(YearPlus(ym.y, years), ym.m)

-----------------------------------------------------------------------------
(* month_day and month_day_last *)

MonthDay(m, d) == [m |-> Month(m), d |-> Day(d)]

(* The days of each month, with 28 or 29 for February. *)
MonthLengths(february) == <<31, february, 31, 30, 31, 30, 31, 31, 30, 31, 30, 31>>

MonthDayOk(md) == MonthOk(md.m) /\ md.d \in 1 .. MonthLengths(29)[md.m]

MonthDayLess(a, b) == Before(<<a.m, a.d>>, <<b.m, b.d>>)

MonthDayLastLess(a, b) == MonthLess(a.m, b.m)

-----------------------------------------------------------------------------
(* year_month_day_last: the last day of a month. *)

YearMonthDayLast(y, m) == [y |-> Year(y), m |-> Month(m)]

YearMonthDayLastOk(ymdl) == YearOk(ymdl.y) /\ MonthOk(ymdl.m)

LastDay(ymdl) == IF (ymdl.m # 2 \/ ~IsLeap(ymdl.y)) /\ MonthOk(ymdl.m)
                   THEN MonthLengths(28)[ymdl.m]
                   ELSE 29

YearMonthDayLastLess(a, b) == Before(<<a.y, a.m>>, <<b.y, b.m>>)

YearMonthDayLastPlus(ymdl, months) ==
  LET ym == YearMonthPlus(YearMonth(ymdl.y, ymdl.m), months)
  IN  YearMonthDayLast(ym.y, ym.m)

YearMonthDayLastPlusYears(ymdl, years) ==
  YearMonthDayLast(YearPlus(ymdl.y, years), ymdl.m)

-----------------------------------------------------------------------------
(* year_month_day *)

YearMonthDay(y, m, d) == [y |-> Year(y), m |-> Month(m), d |-> Day(d)]

ToDays(ymd) ==
  LET y   == ymd.y - (IF ymd.m <= 2 THEN 1 ELSE 0)
      era == Quot(IF y >= 0 THEN y ELSE y - 399, 400)
      yoe == y - era * 400
      doy == ((153 * (IF ymd.m > 2 THEN ymd.m - 3 ELSE ymd.m + 9) + 2) \div 5) + ymd.d - 1
      doe == yoe * 365 + (yoe \div 4) - (yoe \div 100) + doy
  IN  era * 146097 + doe - 719468

YearMonthDayOk(ymd) == /\ YearOk(ymd.y)
                       /\ MonthOk(ymd.m)
                       /\ ymd.d \in 1 .. LastDay(YearMonthDayLast(ymd.y, ymd.m))

YearMonthDayLess(a, b) == Before(<<a.y, a.m, a.d>>, <<b.y, b.m, b.d>>)

(* Mutant of FromDays: the era before 0000-03-01 divided towards zero. *)
FromDaysTruncated(days) ==
  LET z   == days + 719468
      era == Quot(z, 146097)
      doe == z - era * 146097
      yoe == (doe - (doe \div 1460) + (doe \div 36524) - (doe \div 146096)) \div 365
      doy == doe - (365 * yoe + (yoe \div 4) - (yoe \div 100))
      mp  == (5 * doy + 2) \div 153
      d   == doy - ((153 * mp + 2) \div 5) + 1
      m   == IF mp < 10 THEN mp + 3 ELSE mp - 9
  IN  YearMonthDay(yoe + era * 400 + (IF m <= 2 THEN 1 ELSE 0), m, d)

FromDays(days) ==
  LET z   == days + 719468
      era == Quot(IF z >= 0 THEN z ELSE z - 146096, 146097)
      doe == z - era * 146097
      yoe == (doe - (doe \div 1460) + (doe \div 36524) - (doe \div 146096)) \div 365
      doy == doe - (365 * yoe + (yoe \div 4) - (yoe \div 100))
      mp  == (5 * doy + 2) \div 153
      d   == doy - ((153 * mp + 2) \div 5) + 1
      m   == IF mp < 10 THEN mp + 3 ELSE mp - 9
  IN  YearMonthDay(yoe + era * 400 + (IF m <= 2 THEN 1 ELSE 0), m, d)

YearMonthDayPlus(ymd, months) ==
  LET ym == YearMonthPlus(YearMonth(ymd.y, ymd.m), months)
  IN  YearMonthDay(ym.y, ym.m, ymd.d)

YearMonthDayPlusYears(ymd, years) == YearMonthDay(YearPlus(ymd.y, years), ymd.m, ymd.d)

-----------------------------------------------------------------------------
(* year_month_weekday and year_month_weekday_last: "the second Friday of a *)
(* month" and "the last Friday of a month".                                *)

YearMonthWeekday(y, m, wdi) == [y |-> Year(y), m |-> Month(m), wdi |-> wdi]

FirstOfMonth(y, m) == ToDays(YearMonthDay(y, m, 1))

YearMonthWeekdayOk(ymw) ==
  /\ YearOk(ymw.y)
  /\ MonthOk(ymw.m)
  /\ WeekdayOk(ymw.wdi.wd)
  /\ ymw.wdi.i >= 1
  /\ \/ ymw.wdi.i <= 4
     \/ WeekdayMinus(ymw.wdi.wd, WeekdayFromDays(FirstOfMonth(ymw.y, ymw.m)))
           + (ymw.wdi.i - 1) * 7 + 1
         <= LastDay(YearMonthDayLast(ymw.y, ymw.m))

YearMonthWeekdayFromDays(z) ==
  LET ymd == FromDays(z)
  IN  YearMonthWeekday(ymd.y, ymd.m,
                       WeekdayIndexed(WeekdayFromDays(z), ((ymd.d - 1) \div 7) + 1))

YearMonthWeekdayToDays(ymw) ==
  LET d == FirstOfMonth(ymw.y, ymw.m)
  IN  d + WeekdayMinus(ymw.wdi.wd, WeekdayFromDays(d)) + (ymw.wdi.i - 1) * 7

YearMonthWeekdayPlus(ymw, months) ==
  LET ym == YearMonthPlus(YearMonth(ymw.y, ymw.m), months)
  IN  YearMonthWeekday(ym.y, ym.m, ymw.wdi)

YearMonthWeekdayPlusYears(ymw, years) ==
  YearMonthWeekday(YearPlus(ymw.y, years), ymw.m, ymw.wdi)

YearMonthWeekdayLast(y, m, wd) == [y |-> Year(y), m |-> Month(m), wd |-> wd]

YearMonthWeekdayLastToDays(ymwl) ==
  LET ymdl == YearMonthDayLast(ymwl.y, ymwl.m)
      d    == ToDays(YearMonthDay(ymwl.y, ymwl.m, LastDay(ymdl)))
  IN  d - WeekdayMinus(WeekdayFromDays(d), ymwl.wd)

YearMonthWeekdayLastPlus(ymwl, months) ==
  LET ym == YearMonthPlus(YearMonth(ymwl.y, ymwl.m), months)
  IN  YearMonthWeekdayLast(ym.y, ym.m, ymwl.wd)

YearMonthWeekdayLastPlusYears(ymwl, years) ==
  YearMonthWeekdayLast(YearPlus(ymwl.y, years), ymwl.m, ymwl.wd)

=============================================================================
