----------------------------- MODULE Timestamps -----------------------------
(***************************************************************************)
(* asdf::timestamp of src/src/db.cpp, a system time in microseconds, and   *)
(* the text it travels as: date.h's format and parse for "%F %T", pqxx's   *)
(* string_traits around them and PostgreSQL's TIMESTAMP column.            *)
(*                                                                         *)
(* A time point is [day, s, us] with s and us never negative: TLC's        *)
(* integers have 32 bits, a count of microseconds does not fit.  Text is a *)
(* sequence of characters, a digit being its value.                        *)
(***************************************************************************)
EXTENDS IsoWeek, FiniteSets, SequencesExt

Dash == 10
Plus == 11
Colon == 12
Point == 13
Blank == 14

Digit == 0 .. 9

Smaller(a, b) == IF a < b THEN a ELSE b

(* time_point_cast rounds towards 1970. *)
CastDays(ts) == IF ts.day < 0 /\ (ts.s # 0 \/ ts.us # 0) THEN ts.day + 1 ELSE ts.day

CastSeconds(ts) ==
  LET s == IF ts.day < 0 /\ ts.us # 0 THEN ts.s + 1 ELSE ts.s
  IN  [day |-> ts.day + (s \div 86400), s |-> s % 86400, us |-> 0]

-----------------------------------------------------------------------------
(* Writing: the stream operators and to_stream.                            *)

Number(n) ==
  LET digits[k \in Nat] == IF k < 10 THEN <<k>> ELSE Append(digits[k \div 10], k % 10)
  IN  digits[n]

Padded(text, width) == [i \in 1 .. width - Len(text) |-> 0] \o text

Signed(n) == IF n < 0 THEN <<Dash>> \o Number(-n) ELSE Number(n)

(* hh_mm_ss of a time of day [s, us]. *)
HhMmSs(d) == [h |-> d.s \div 3600, m |-> (d.s \div 60) % 60, s |-> d.s % 60, us |-> d.us]

(* decimal_format_seconds: six digits of fraction at microseconds, none at *)
(* seconds.                                                                *)
PutSeconds(tod, fraction) ==
  Padded(Number(tod.s), 2)
    \o IF fraction > 0 THEN <<Point>> \o Padded(Number(tod.us), fraction) ELSE <<>>

PutTime(tod, fraction) ==
  Padded(Number(tod.h), 2) \o <<Colon>> \o Padded(Number(tod.m), 2)
    \o <<Colon>> \o PutSeconds(tod, fraction)

(* %F fills before the sign, %Y after it. *)
PutF(ymd) == Padded(Signed(ymd.y), 4) \o <<Dash>> \o Padded(Number(ymd.m), 2)
               \o <<Dash>> \o Padded(Number(ymd.d), 2)

PutY(y) == IF y < 0 THEN <<Dash>> \o Padded(Number(-y), 4) ELSE Padded(Number(y), 4)

(* The other letters of a format, from the fields to_stream is given. *)
PutYear(f) == PutY(f.ymd.y)

PutMonth(f) == Padded(Number(f.ymd.m), 2)

PutDay(f) == Padded(Number(f.ymd.d), 2)

PutHour(f) == Padded(Number(f.tod.h), 2)

PutMinute(f) == Padded(Number(f.tod.m), 2)

PutSecond(f, fraction) == PutSeconds(f.tod, fraction)

(* Mutant of Fields: no day taken back before 1970. *)
FieldsTruncated(ts) ==
  LET day == CastDays(ts)
  IN  [ymd |-> FromDays(day), tod |-> HhMmSs([s |-> ts.s, us |-> ts.us])]

(* The day and the time of day to_stream splits a time point into. *)
Fields(ts) ==
  LET sd  == CastDays(ts)
      day == IF sd <= ts.day THEN sd ELSE sd - 1
  IN  [ymd |-> FromDays(day),
       tod |-> HhMmSs([s |-> (ts.day - day) * 86400 + ts.s, us |-> ts.us])]

-----------------------------------------------------------------------------
(* Reading: what is left, whether all was well, the numbers read so far.   *)

Reader(text) == [left |-> text, ok |-> TRUE, got |-> <<>>]

Failed(r) == [r EXCEPT !.ok = FALSE]

Took(r, n, numbers) == [left |-> SubSeq(r.left, n + 1, Len(r.left)), ok |-> r.ok,
                        got |-> r.got \o numbers]

Value(digits) == FoldLeft(LAMBDA x, c : 10 * x + c, 0, digits)

(* How many of the first max characters are digits, all of them in a row. *)
Run(text, max) ==
  Cardinality({k \in 1 .. Smaller(max, Len(text)) : \A j \in 1 .. k : text[j] \in Digit})

ReadUnsigned(r, max) ==
  LET n == Run(r.left, max)
  IN  IF n = 0 THEN Failed(r) ELSE Took(r, n, <<Value(SubSeq(r.left, 1, n))>>)

ReadSigned(r, max) ==
  LET sign == r.left # <<>> /\ Head(r.left) \in {Dash, Plus}
      rest == IF sign THEN Tail(r.left) ELSE r.left
      n    == Run(rest, max)
      x    == Value(SubSeq(rest, 1, n))
  IN  IF n = 0 THEN Failed(r)
      ELSE Took([r EXCEPT !.left = rest], n,
                <<IF sign /\ Head(r.left) = Dash THEN -x ELSE x>>)

ReadChar(r, c) == IF r.left # <<>> /\ Head(r.left) = c THEN Took(r, 1, <<>>) ELSE Failed(r)

(* A blank of the format matches any number of blanks. *)
SkipBlanks(r) ==
  Took(r, Cardinality({k \in DOMAIN r.left : \A j \in 1 .. k : r.left[j] = Blank}), <<>>)

(* A fraction's digits in microseconds: round_i goes to the nearest, ties  *)
(* to the even one.                                                        *)
Micros(digits) ==
  LET n == Len(digits)
      p == 10 ^ (IF n > 6 THEN n - 6 ELSE 6 - n)
      f == Value(digits)
      q == f \div p
      r == f % p
  IN  IF n <= 6 THEN f * p
      ELSE IF 2 * r > p \/ (2 * r = p /\ q % 2 = 1) THEN q + 1 ELSE q

(* read_long_double: at most max characters, the first point counted.      *)
ReadDecimal(r, max) ==
  LET n == Cardinality({k \in 1 .. Smaller(max, Len(r.left)) : \A j \in 1 .. k :
             \/ r.left[j] \in Digit
             \/ r.left[j] = Point /\ \A i \in 1 .. j - 1 : r.left[i] # Point})
      whole    == Run(r.left, n)
      fraction == Micros(SubSeq(r.left, whole + 2, n))
      seconds  == Value(SubSeq(r.left, 1, whole)) + (fraction \div 1000000)
  IN  IF n = 0 THEN Failed(r) ELSE Took(r, n, <<seconds, fraction % 1000000>>)

(* One conversion of a format, or a character that stands for itself.      *)
Read(r, c) ==
  CASE c.read = "signed"   -> ReadSigned(r, c.n)
    [] c.read = "unsigned" -> ReadUnsigned(r, c.n)
    [] c.read = "decimal"  -> ReadDecimal(r, c.n)
    [] c.read = "char"     -> ReadChar(r, c.n)
    [] c.read = "blanks"   -> SkipBlanks(r)

Conversion(read, n) == [read |-> read, n |-> n]

(* What "%F" and "%T" stand for. *)
FormatF == <<Conversion("signed", 4), Conversion("char", Dash), Conversion("unsigned", 2),
             Conversion("char", Dash), Conversion("unsigned", 2)>>

FormatT == <<Conversion("unsigned", 2), Conversion("char", Colon), Conversion("unsigned", 2),
             Conversion("char", Colon), Conversion("decimal", 9)>>

(* Failed readers read on here; nothing looks at what they got. *)
ReadFields(text) ==
  FoldLeft(Read, Reader(text), FormatF \o <<Conversion("blanks", 0)>> \o FormatT)

(* Mutant of InConventionalRange: a time of day that is not looked at. *)
InAnyRange(tod) == TRUE

InConventionalRange(tod) == tod.h < 24 /\ tod.m < 60 /\ tod.s < 60 /\ tod.us < 1000000

DateRead(r) == YearMonthDay(r.got[1], r.got[2], r.got[3])

TimeRead(r) == [h |-> r.got[4], m |-> r.got[5], s |-> r.got[6], us |-> r.got[7]]

TimePoint(ymd, tod) ==
  [day |-> ToDays(ymd), s |-> (tod.h * 60 + tod.m) * 60 + tod.s, us |-> tod.us]

(* from_stream of a sys_time: the time points read, none or one. *)
FromStream(text) ==
  {TimePoint(DateRead(r), TimeRead(r)) :
     r \in {x \in {ReadFields(text)} :
             x.ok /\ YearMonthDayOk(DateRead(x)) /\ InConventionalRange(TimeRead(x))}}

-----------------------------------------------------------------------------
(* db.cpp and db.hpp *)

to_iso8601_str(ts) ==
  LET f == Fields(ts) IN PutF(f.ymd) \o <<Blank>> \o PutTime(f.tod, 6)

(* Any number of timestamps but one is the false of from_iso8601_str, for  *)
(* which from_string throws.                                               *)
from_iso8601_str(text) == FromStream(text)

(* The name of the day and the text after it, " GMT" left out. *)
to_http_ts_str(ts) ==
  LET f == Fields(CastSeconds(ts))
  IN  [weekday |-> WeekdayName(YearWeeknumWeekdayFromDays(CastDays(ts)).wd),
       text    |-> PutDay(f) \o <<Dash>> \o PutMonth(f) \o <<Dash>> \o PutYear(f)
                     \o <<Blank>> \o PutHour(f) \o <<Colon>> \o PutMinute(f)
                     \o <<Colon>> \o PutSecond(f, 0)]

(* 2^32 seconds. *)
Wrap == [day |-> 49710, s |-> 23296]

SecondsBefore(a, b) == Before(<<a.day, a.s>>, <<b.day, b.s>>)

Seconds(day, s) == [day |-> day + (s \div 86400), s |-> s % 86400]

(* Mutant of Unsigned32: an int, which is negative from 2038 on. *)
Signed32(t) == IF SecondsBefore(t, [day |-> 24855, s |-> 11648]) THEN t
               ELSE Seconds(t.day - Wrap.day, t.s - Wrap.s)

(* time(0) + expires as the unsigned int from_unix_time takes. *)
Unsigned32(t) == IF SecondsBefore(t, Wrap) THEN t
                 ELSE Seconds(t.day - Wrap.day, t.s - Wrap.s)

from_unix_time(t) == [day |-> t.day, s |-> t.s, us |-> 0]

to_unix_time(ts) ==
  LET t == CastSeconds(ts)
  IN  IF t.day < 0 THEN Seconds(t.day + Wrap.day, t.s + Wrap.s) ELSE Seconds(t.day, t.s)

(* refreshSpotify's expiry: the time of the answer and the seconds it gave. *)
Expiry(now, expires) == from_unix_time(Unsigned32(Seconds(now.day, now.s + expires)))

(* PostgreSQL writes a TIMESTAMP without the zeros that end its fraction.  *)
Column(text) ==
  LET point == CHOOSE k \in DOMAIN text : text[k] = Point
      kept  == {k \in DOMAIN text : k > point /\ text[k] # 0}
      last  == IF kept = {} THEN point - 1
               ELSE CHOOSE k \in kept : \A j \in kept : j <= k
  IN  SubSeq(text, 1, last)

=============================================================================
