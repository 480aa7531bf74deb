----------------------------- MODULE Calendar -----------------------------
(***************************************************************************)
(* The time fields of the logic language (logic/compile.rs).  A time is a  *)
(* record of the fields of a civil date and time; weekdays and ordinals    *)
(* are chrono's.                                                           *)
(***************************************************************************)
EXTENDS Integers

\* TimeField::is_leap_year
IsLeapYear(y) == (y % 4 = 0 /\ y % 100 # 0) \/ y % 400 = 0

\* TimeField::get_last_day
LastDay(month, y) ==
  CASE month = 2 -> 28 + (IF IsLeapYear(y) THEN 1 ELSE 0)
    [] month \in {4, 6, 9, 11} -> 30
    [] OTHER -> 31

\* chrono: the days before a month of a year, ordinal0 and weekday (Monday is 0).
DaysBefore(month, y) ==
  LET sum[k \in 1..12] == IF k = 1 THEN 0 ELSE sum[k - 1] + LastDay(k - 1, y)
  IN  sum[month]
Ordinal0(t) == DaysBefore(t.month, t.year) + t.day - 1
Weekday(t) ==
  LET y == t.year - 1
  IN  (y * 365 + y \div 4 - y \div 100 + y \div 400 + Ordinal0(t)) % 7

\* Defect: the last day of February of a leap year is taken for the first of March.
DayOfYearLate(t) == Ordinal0(t) - (IF Ordinal0(t) > 59 /\ IsLeapYear(t.year) THEN 1 ELSE 0)

\* DOY: leap years count February 29th as the 28th.
DayOfYear(t) == Ordinal0(t) - (IF Ordinal0(t) > 58 /\ IsLeapYear(t.year) THEN 1 ELSE 0)

\* SOM and EOM: which of the month's such weekdays it is, from its start and its end.
StartOfMonth(t) == (t.day + 6) \div 7
EndOfMonth(t) == (LastDay(t.month, t.year) + 7 - t.day) \div 7

\* TimeField::project, as a number; LY is 0 or 1.  A month is 1 to 12, as
\* chrono has it: LN_GRAMMAR.md gives 0-11.
Project(field, t) ==
  CASE field = "second" -> t.second
    [] field = "minute" -> t.minute
    [] field = "hour" -> t.hour
    [] field = "day" -> t.day
    [] field = "DOW" -> Weekday(t)
    [] field = "DOY" -> DayOfYear(t)
    [] field = "SOM" -> StartOfMonth(t)
    [] field = "EOM" -> EndOfMonth(t)
    [] field = "month" -> t.month
    [] field = "year" -> t.year
    [] field = "LY" -> IF IsLeapYear(t.year) THEN 1 ELSE 0

-----------------------------------------------------------------------------
(* What the comment of compile.rs says of the fields. *)

Days(month, y) == 1..LastDay(month, y)

\* DOY is the day of a year without February 29th, which counts as the 28th.
DayOfCommonYear(t) ==
  Ordinal0([t EXCEPT !.year = 2023,
                     !.day = IF t.month = 2 /\ t.day = 29 THEN 28 ELSE t.day])

\* The days of t's month that have t's weekday.
SameWeekday(t) == {d \in Days(t.month, t.year) : Weekday([t EXCEPT !.day = d]) = Weekday(t)}
=============================================================================
