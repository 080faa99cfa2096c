------------------------------- MODULE CivilDay -------------------------------
(***************************************************************************)
(* The day number that NetworkSynchronizedClock::read (examples/scheduler) *)
(* gives with the local time: the ordinal of the civil date in the         *)
(* proleptic Gregorian calendar, from the fields of a std::tm.             *)
(***************************************************************************)
EXTENDS Integers

CONSTANT Years    \* bound: the years whose days are checked

ASSUME YearsAssumption == Years \subseteq Int

(* Division of int in C++: towards zero. *)
Quotient(a, b) == IF a >= 0 THEN a \div b ELSE -((-a) \div b)

Era(year) == Quotient(IF year >= 0 THEN year ELSE year - 399, 400)

ShiftedMonth(m) == IF m > 2 THEN m - 3 ELSE m + 9

DayOfYear(m, d) == (153 * ShiftedMonth(m) + 2) \div 5 + d - 1

EveryFourthYear(yoe) == yoe * 365 + yoe \div 4

YearsBefore(yoe) == yoe * 365 + yoe \div 4 - yoe \div 100

(* Years begin in March, so that the leap day is the last. *)
ShiftedYear(y, m) == IF m <= 2 THEN y - 1 ELSE y

DayNumber(year, doy) == Era(year) * 146097 + YearsBefore(year - Era(year) * 400) + doy

Ordinal(y, m, d) == DayNumber(ShiftedYear(y, m), DayOfYear(m, d))

-----------------------------------------------------------------------------
(* The reference: the calendar, day by day. *)

IsLeap(y) == y % 4 = 0 /\ (y % 100 # 0 \/ y % 400 = 0)

DaysIn(y, m) ==
    IF m = 2 THEN (IF IsLeap(y) THEN 29 ELSE 28)
    ELSE IF m \in {4, 6, 9, 11} THEN 30 ELSE 31

(* The number of the day after. *)
NextDay(y, m, d) ==
    IF d < DaysIn(y, m) THEN Ordinal(y, m, d + 1)
    ELSE IF m < 12 THEN Ordinal(y, m + 1, 1) ELSE Ordinal(y + 1, 1, 1)
=============================================================================
