------------------------------ MODULE Calendar ------------------------------
(***************************************************************************)
(* str_to_time of ltc/old_ltc/ltc.cpp, which turns the date of a log line  *)
(* into seconds since the epoch by a calculation of its own.  The time of  *)
(* day is added as it is, so days are enough.                              *)
(*                                                                         *)
(* The specification turns the pages of the calendar from 1 January 1970   *)
(* on and counts them; the properties compare the count with the program's.*)
(***************************************************************************)
EXTENDS Integers, Sequences

CONSTANT LastYear  \* bound: the calendar's last year

VARIABLES
    year, month, mday,  \* the date, 1 January being month 1, day 1
    days                \* days since 1 January 1970

date == <<year, month, mday, days>>

Leap(y) == (y % 4 = 0 /\ y % 100 # 0) \/ y % 400 = 0
Long == {1, 3, 5, 7, 8, 10, 12}
DaysIn(y, m) == IF m = 2 THEN (IF Leap(y) THEN 29 ELSE 28) ELSE IF m \in Long THEN 31 ELSE 30

FirstDay == year = 1970 /\ month = 1 /\ mday = 1 /\ days = 0

NextDay ==
    /\ mday < DaysIn(year, month)
    /\ mday' = mday + 1 /\ days' = days + 1 /\ UNCHANGED <<year, month>>

NextMonth ==
    /\ mday = DaysIn(year, month) /\ month < 12
    /\ month' = month + 1 /\ mday' = 1 /\ days' = days + 1 /\ UNCHANGED year

NextYear ==
    /\ mday = DaysIn(year, month) /\ month = 12 /\ year < LastYear
    /\ year' = year + 1 /\ month' = 1 /\ mday' = 1 /\ days' = days + 1

Turn == NextDay \/ NextMonth \/ NextYear
CalendarSpec == FirstDay /\ [][Turn]_date

----------------------------------------------------------------------------
days_past_in_year == <<31, 59, 90, 120, 151, 181, 212, 243, 273, 304, 334, 365>>

\* tdays of str_to_time, for tm_year = y - 1900, tm_mon = m - 1, tm_mday = d.
TDays(y, m, d) ==
    LET tyears == y - 1900 - 70
        leaps == (tyears + 2) \div 4
        past == IF m - 1 > 0 THEN days_past_in_year[m - 1] ELSE 0
    IN  past + (d - 1) + tyears * 365 + leaps

----------------------------------------------------------------------------
\* str_to_time counts the days since the epoch, but for January and February of
\* a leap year, which it dates one day late (ltc.cpp 251-255): 29 February and
\* 1 March become one day, and a stay over that midnight is credited a negative
\* time by log_disconn.
RightFromMarch ==
    TDays(year, month, mday) =
        IF Leap(year) /\ month <= 2 THEN days + 1 ELSE days

=============================================================================
