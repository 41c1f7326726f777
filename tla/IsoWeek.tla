------------------------------ MODULE IsoWeek ------------------------------
(***************************************************************************)
(* The ISO week dates of src/include/142bot/iso_week.h: a year, a week     *)
(* number (an unsigned char) and a weekday from 1, Monday, to 7, Sunday.   *)
(* The first week of a year is the one after the last Thursday of the      *)
(* December before, the week that has the year's first Thursday.           *)
(***************************************************************************)
EXTENDS Calendar

Monday == 1

Thursday == 4

Sunday == 7

-----------------------------------------------------------------------------
(* weekday *)

IsoWeekdayFromDays(z) ==
  LET c == IF z >= -4 THEN Rem(z + 4, 7) ELSE Rem(z + 5, 7) + 6
  IN  IF c # 0 THEN c ELSE 7

(* operator date::weekday *)
CWeekday(wd) == Weekday(IF wd # 7 THEN wd ELSE 0)

IsoWeekdayOk(wd) == wd \in 1 .. 7

IsoWeekdayMinus(v, w) == IF v - w \in 0 .. 6 THEN v - w ELSE v - w + 7

IsoWeekdayPlus(v, days) ==
  LET wdu == v - 1 + days
      wk  == Quot(IF wdu >= 0 THEN wdu ELSE wdu - 6, 7)
  IN  (wdu - wk * 7 + 1) % 256

(* operator<<: the name alone, without a comma. *)
WeekdayName(wd) == <<"Mon", "Tue", "Wed", "Thu", "Fri", "Sat", "Sun">>[wd]

-----------------------------------------------------------------------------
(* year: every value of a short is an ISO year. *)

IsoYear(y) == ((y + 32768) % 65536) - 32768

IsoYearOk(y) == -32768 <= y /\ y <= 32767

IsoYearLess(y, z) == y < z

IsoYearPlus(y, years) == IsoYear(y + years)

-----------------------------------------------------------------------------
(* weeknum *)

Weeknum(wn) == wn % 256

WeeknumOk(wn) == wn \in 1 .. 53

WeeknumLess(v, w) == v < w

WeeknumMinus(v, w) == v - w

WeeknumPlus(v, weeks) == Weeknum(v + weeks)

-----------------------------------------------------------------------------
(* year_weeknum, year_lastweek, weeknum_weekday *)

(* The last Thursday of December of the year. *)
LastThursday(y) ==
  YearMonthWeekdayLastToDays(YearMonthWeekdayLast(y, 12, CWeekday(Thursday)))

(* Mutant of LastWeek: the weeks of 365 days instead of its Thursdays.     *)
LastWeekFixed(y) == Weeknum(trunc(365, 7))

LastWeek(y) == Weeknum(trunc(LastThursday(y) - LastThursday(YearPlus(y, -1)), 7))

YearWeeknumOk(ywn) == IsoYearOk(ywn.y) /\ ywn.wn \in 1 .. LastWeek(ywn.y)

YearWeeknumLess(a, b) == Before(<<a.y, a.wn>>, <<b.y, b.wn>>)

YearWeeknumPlusYears(ywn, years) == [y |-> IsoYearPlus(ywn.y, years), wn |-> ywn.wn]

WeeknumWeekdayOk(x) == WeeknumOk(x.wn) /\ IsoWeekdayOk(x.wd)

WeeknumWeekdayLess(a, b) == Before(<<a.wn, a.wd>>, <<b.wn, b.wd>>)

-----------------------------------------------------------------------------
(* year_lastweek_weekday: a weekday of a year's last week. *)

YearLastweekWeekday(y, wd) == [y |-> IsoYear(y), wd |-> wd]

YearLastweekWeekdayToDays(x) ==
  LastThursday(x.y) + IsoWeekdayMinus(Sunday, Thursday) - IsoWeekdayMinus(Sunday, x.wd)

YearLastweekWeekdayLess(a, b) == Before(<<a.y, a.wd>>, <<b.y, b.wd>>)

-----------------------------------------------------------------------------
(* year_weeknum_weekday *)

YearWeeknumWeekday(y, wn, wd) == [y |-> IsoYear(y), wn |-> Weeknum(wn), wd |-> wd]

(* The Monday of the year's first week. *)
StartOfYear(y) == LastThursday(YearPlus(y, -1)) + IsoWeekdayMinus(Monday, Thursday)

YearWeeknumWeekdayToDays(x) ==
  StartOfYear(x.y) + (x.wn - 1) * 7 + IsoWeekdayMinus(x.wd, Monday)

YearWeeknumWeekdayOk(x) == /\ IsoYearOk(x.y)
                           /\ IsoWeekdayOk(x.wd)
                           /\ x.wn \in 1 .. LastWeek(x.y)

(* Mutant of YearWeeknumWeekdayFromDays: the week's year is the day's own, *)
(* also when the day comes before that year's first week.                  *)
YearWeeknumWeekdayOfCivilYear(z) ==
  LET y == FromDays(z).y
  IN  YearWeeknumWeekday(y, trunc(z - StartOfYear(y), 7) + 1, IsoWeekdayFromDays(z))

YearWeeknumWeekdayFromDays(z) ==
  LET late == FromDays(z + 3).y
      y    == IF z < StartOfYear(late) THEN YearPlus(late, -1) ELSE late
  IN  YearWeeknumWeekday(y, trunc(z - StartOfYear(y), 7) + 1, IsoWeekdayFromDays(z))

YearWeeknumWeekdayLess(a, b) == Before(<<a.y, a.wn, a.wd>>, <<b.y, b.wn, b.wd>>)

YearWeeknumWeekdayPlusYears(x, years) ==
  YearWeeknumWeekday(IsoYearPlus(x.y, years), x.wn, x.wd)

=============================================================================
