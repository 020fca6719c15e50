---------------------------- MODULE SigningDate ----------------------------
(***************************************************************************)
(* The date of a request signature (crates/xlb/src/seed.rs,                *)
(* format_amz_time): seconds since 1970 to a civil date by integer         *)
(* arithmetic alone, and the calendar it has to agree with.                *)
(*                                                                         *)
(* The code counts years from the 1st of March, so that a leap day is the  *)
(* last of its year, in eras of 400 years.  The days come from an unsigned *)
(* number of seconds, so the branch for z < 0 is never taken.              *)
(***************************************************************************)
EXTENDS Integers

daysOf(secs) == secs \div 86400
z(days)      == days + 719468               \* days since 0000-03-01

eraOf(n) == n \div 146097
doe(n)   == n - eraOf(n) * 146097            \* day of the era

\* A plausible error: the correction for centuries forgotten.
yoeNoCentury(d) == (d - d \div 1460 - d \div 146096) \div 365

yoe(d)   == (d - d \div 1460 + d \div 36524 - d \div 146096) \div 365
doy(d)   == d - (365 * yoe(d) + yoe(d) \div 4 - yoe(d) \div 100)

mp(y)       == (5 * y + 2) \div 153          \* month, from March
dayOf(y)    == y - (153 * mp(y) + 2) \div 5 + 1
\* A plausible error: January taken for a thirteenth month.
monthOfSlip(y) == IF mp(y) <= 10 THEN mp(y) + 3 ELSE mp(y) - 9

monthOf(y)  == IF mp(y) < 10 THEN mp(y) + 3 ELSE mp(y) - 9

civil(n) ==
    LET y == doy(doe(n))
    IN  [year  |-> yoe(doe(n)) + eraOf(n) * 400 + (IF monthOf(y) <= 2 THEN 1 ELSE 0),
         month |-> monthOf(y),
         day   |-> dayOf(y)]

\* x-amz-date: the date with the time of day.
format_amz_time(secs) ==
    LET sod == secs % 86400
    IN  [date   |-> civil(z(daysOf(secs))),
         hour   |-> sod \div 3600,
         minute |-> (sod % 3600) \div 60,
         second |-> sod % 60]

-----------------------------------------------------------------------------
(***************************************************************************)
(* The calendar: how one day, and one second, follow another.              *)
(***************************************************************************)
IsLeap(year) == year % 4 = 0 /\ (year % 100 # 0 \/ year % 400 = 0)

MonthLength(year, month) ==
    CASE month = 2                -> IF IsLeap(year) THEN 29 ELSE 28
      [] month \in {4, 6, 9, 11}  -> 30
      [] OTHER                    -> 31

NextDay(t) ==
    IF t.day < MonthLength(t.year, t.month)
    THEN [t EXCEPT !.day = @ + 1]
    ELSE IF t.month < 12
         THEN [year |-> t.year, month |-> t.month + 1, day |-> 1]
         ELSE [year |-> t.year + 1, month |-> 1, day |-> 1]

NextSecond(t) ==
    IF t.second < 59 THEN [t EXCEPT !.second = @ + 1]
    ELSE IF t.minute < 59 THEN [t EXCEPT !.second = 0, !.minute = @ + 1]
    ELSE IF t.hour < 23 THEN [t EXCEPT !.second = 0, !.minute = 0, !.hour = @ + 1]
    ELSE [date |-> NextDay(t.date), hour |-> 0, minute |-> 0, second |-> 0]

Date  == [year : Nat, month : 1 .. 12, day : 1 .. 31]
Stamp == [date : Date, hour : 0 .. 23, minute : 0 .. 59, second : 0 .. 59]
=============================================================================
