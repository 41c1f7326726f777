----------------------------- MODULE MCCalendar -----------------------------
(***************************************************************************)
(* Walks around the days where the arithmetic turns: the era's turn in the *)
(* year 0, the century years 1900, 2000 and 2100, 1970, the ends of signed *)
(* and unsigned seconds in 2038 and 2106, and the last year of four        *)
(* digits.                                                                 *)
(***************************************************************************)
EXTENDS CalendarWalk

Known(n, y, m, d, wd) == [serial |-> n, date |-> [y |-> y, m |-> m, d |-> d], wday |-> wd]

MCKnownDays == {Known(-719468, 0, 3, 1, 3), Known(-25508, 1900, 3, 1, 4),
                Known(0, 1970, 1, 1, 4), Known(11017, 2000, 3, 1, 3),
                Known(24855, 2038, 1, 19, 2), Known(47541, 2100, 3, 1, 1),
                Known(49710, 2106, 2, 7, 0), Known(2932896, 9999, 12, 31, 5)}

MCOffsets == {-366, -30, -1, 1, 8, 31, 400}

MCJumps == {-25, -12, -3, 1, 11, 24}

MCClocks == {[s |-> 0, us |-> 0], [s |-> 86399, us |-> 999999], [s |-> 3661, us |-> 500]}

=============================================================================
