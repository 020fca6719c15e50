--------------------------- MODULE PublishProofs ---------------------------
(***************************************************************************)
(* The promise of publishing, for any number of publishers, classes and    *)
(* blobs, from any second on; and before it, what DatedByTheCalendar rests *)
(* on: the date of a signature is the calendar's, for every second from    *)
(* 1970 on.                                                                *)
(***************************************************************************)
EXTENDS Publish, TLAPS

-----------------------------------------------------------------------------
(***************************************************************************)
(* The day of the era: 146097 days in 400 years that begin in March.       *)
(***************************************************************************)
LEMMA YearRange ==
  ASSUME NEW d \in Nat, d < 146097
  PROVE  /\ yoe(d) \in Nat /\ yoe(d) < 400
         /\ doy(d) \in Nat /\ doy(d) < 366
  BY SMTT(60) DEF yoe, doy

\* A year ends after 365 days, and after 366 when its February is a leap one.
LEMMA YearStep ==
  ASSUME NEW d \in Nat, d < 146096
  PROVE  \/ yoe(d + 1) = yoe(d) /\ doy(d + 1) = doy(d) + 1
         \/ /\ yoe(d + 1) = yoe(d) + 1 /\ doy(d + 1) = 0
            /\ doy(d) = IF IsLeap(yoe(d) + 1) THEN 365 ELSE 364
  BY SMTT(60) DEF yoe, doy, IsLeap

LEMMA LeapDay ==
  ASSUME NEW d \in Nat, d < 146097, doy(d) = 365
  PROVE  IsLeap(yoe(d) + 1)
  BY SMTT(60) DEF yoe, doy, IsLeap

\* An era ends with a leap day: its last year is divisible by 400.
LEMMA EraEnd ==
  /\ yoe(146096) = 399 /\ doy(146096) = 365 /\ IsLeap(400)
  /\ yoe(0) = 0 /\ doy(0) = 0
  BY SMT DEF yoe, doy, IsLeap

LEMMA EraStep ==
  ASSUME NEW n \in Nat
  PROVE  /\ eraOf(n) \in Nat /\ doe(n) \in Nat /\ doe(n) < 146097
         /\ doe(n) < 146096 => eraOf(n + 1) = eraOf(n) /\ doe(n + 1) = doe(n) + 1
         /\ doe(n) = 146096 => eraOf(n + 1) = eraOf(n) + 1 /\ doe(n + 1) = 0
  BY SMT DEF eraOf, doe

\* Leap years repeat every 400 years.
LEMMA LeapPeriod ==
  ASSUME NEW y \in Nat, NEW e \in Nat
  PROVE  IsLeap(y + e * 400) <=> IsLeap(y)
<1>1. (y + e * 400) % 4 = y % 4
  BY SMT
<1>2. (y + e * 400) % 100 = y % 100
  BY SMT
<1>3. (y + e * 400) % 400 = y % 400
  BY SMT
<1> QED  BY <1>1, <1>2, <1>3 DEF IsLeap

-----------------------------------------------------------------------------
(***************************************************************************)
(* The day of the year: 30 or 31 days from March to January, and the rest. *)
(***************************************************************************)
Length(month) == IF month \in {4, 6, 9, 11} THEN 30 ELSE 31

LEMMA MonthRange ==
  ASSUME NEW y \in Nat, y < 366
  PROVE  /\ monthOf(y) \in 1 .. 12 /\ dayOf(y) \in 1 .. 31
         /\ monthOf(y) = 2 <=> y >= 337
         /\ monthOf(y) <= 2 <=> y >= 306
  BY SMT DEF mp, monthOf, dayOf

LEMMA MonthStep ==
  ASSUME NEW y \in Nat, y < 365
  PROVE  \/ /\ monthOf(y + 1) = monthOf(y) /\ dayOf(y + 1) = dayOf(y) + 1
            /\ monthOf(y) # 2 => dayOf(y) < Length(monthOf(y))
         \/ /\ monthOf(y) # 2 /\ dayOf(y) = Length(monthOf(y)) /\ dayOf(y + 1) = 1
            /\ monthOf(y + 1) = IF monthOf(y) = 12 THEN 1 ELSE monthOf(y) + 1
  BY SMT DEF mp, monthOf, dayOf, Length

LEMMA FebruaryAndMarch ==
  /\ \A y \in 337 .. 365 : dayOf(y) = y - 336
  /\ monthOf(0) = 3 /\ dayOf(0) = 1
  BY SMT DEF mp, monthOf, dayOf

-----------------------------------------------------------------------------
\* Every day has a month and a day of the calendar.
THEOREM CivilType == \A n \in Nat : civil(n) \in Date
<1> SUFFICES ASSUME NEW n \in Nat
             PROVE  civil(n) \in Date
  OBVIOUS
<1> DEFINE d == doe(n)
           y == doy(d)
<1>1. eraOf(n) \in Nat /\ yoe(d) \in Nat /\ y \in Nat /\ y < 366
  BY EraStep, YearRange
<1>2. monthOf(y) \in 1 .. 12 /\ dayOf(y) \in 1 .. 31
  BY <1>1, MonthRange
<1> HIDE DEF d, y
<1>3. yoe(d) + eraOf(n) * 400 + (IF monthOf(y) <= 2 THEN 1 ELSE 0) \in Nat
  BY <1>1, <1>2, SMT
<1> QED  BY <1>2, <1>3 DEF civil, Date, d, y
-----------------------------------------------------------------------------
(***************************************************************************)
(* What civil says of day y of a year that began in the March of year m.   *)
(***************************************************************************)
On(m, y) == [year  |-> m + (IF monthOf(y) <= 2 THEN 1 ELSE 0),
             month |-> monthOf(y), day |-> dayOf(y)]

LEMMA WithinYear ==
  ASSUME NEW m \in Nat, NEW y \in Nat, y < 365,
         y = 364 => IsLeap(m + 1)
  PROVE  On(m, y + 1) = NextDay(On(m, y))
<1> DEFINE here  == On(m, y)
           there == On(m, y + 1)
<1>1. /\ monthOf(y) \in 1 .. 12 /\ dayOf(y) \in 1 .. 31
      /\ monthOf(y) = 2 <=> y >= 337
      /\ monthOf(y) <= 2 <=> y >= 306
      /\ monthOf(y + 1) \in 1 .. 12 /\ dayOf(y + 1) \in 1 .. 31
      /\ monthOf(y + 1) <= 2 <=> y + 1 >= 306
  BY MonthRange, SMT
<1>2. /\ here.year = m + (IF monthOf(y) <= 2 THEN 1 ELSE 0)
      /\ here.month = monthOf(y) /\ here.day = dayOf(y)
      /\ here = [year |-> here.year, month |-> here.month, day |-> here.day]
  BY DEF On
<1>3. CASE /\ monthOf(y + 1) = monthOf(y) /\ dayOf(y + 1) = dayOf(y) + 1
           /\ monthOf(y) # 2 => dayOf(y) < Length(monthOf(y))
  <2>1. dayOf(y) < MonthLength(here.year, here.month)
    <3>1. CASE monthOf(y) # 2
      BY <1>1, <1>2, <1>3, <3>1, SMT DEF MonthLength, Length
    <3>2. CASE monthOf(y) = 2
      <4>1. here.year = m + 1 /\ dayOf(y) = y - 336
        BY <1>1, <1>2, <3>2, FebruaryAndMarch, SMT
      <4> QED  BY <1>1, <1>2, <3>2, <4>1, SMT DEF MonthLength
    <3> QED  BY <3>1, <3>2
  <2>2. NextDay(here) = [here EXCEPT !.day = @ + 1]
    BY <1>2, <2>1 DEF NextDay
  <2>3. there = [year |-> here.year, month |-> here.month, day |-> here.day + 1]
    BY <1>2, <1>3 DEF On
  <2> QED  BY <1>2, <2>2, <2>3
<1>4. CASE /\ monthOf(y) # 2 /\ dayOf(y) = Length(monthOf(y)) /\ dayOf(y + 1) = 1
           /\ monthOf(y + 1) = IF monthOf(y) = 12 THEN 1 ELSE monthOf(y) + 1
  <2>1. ~(here.day < MonthLength(here.year, here.month))
    BY <1>1, <1>2, <1>4, SMT DEF MonthLength, Length
  <2>2. CASE monthOf(y) = 12
    <3>1. here.year = m /\ there.year = m + 1
      BY <1>1, <1>2, <1>4, <2>2, SMT DEF On
    <3>2. NextDay(here) = [year |-> m + 1, month |-> 1, day |-> 1]
      BY <1>2, <2>1, <2>2, <3>1, SMT DEF NextDay
    <3> QED  BY <1>4, <2>2, <3>1, <3>2 DEF On
  <2>3. CASE monthOf(y) < 12
    <3>1. there.year = here.year
      BY <1>1, <1>2, <1>4, <2>3, SMT DEF On
    <3>2. NextDay(here) = [year |-> here.year, month |-> here.month + 1, day |-> 1]
      BY <1>2, <2>1, <2>3, SMT DEF NextDay
    <3>3. there = [year |-> here.year, month |-> here.month + 1, day |-> 1]
      BY <1>2, <1>4, <2>3, <3>1, SMT DEF On
    <3> QED  BY <1>2, <3>2, <3>3
  <2> QED  BY <1>1, <2>2, <2>3, SMT
<1> QED  BY <1>3, <1>4, MonthStep

LEMMA OverYear ==
  ASSUME NEW m \in Nat, NEW y \in Nat,
         y = IF IsLeap(m + 1) THEN 365 ELSE 364
  PROVE  On(m + 1, 0) = NextDay(On(m, y))
<1>1. monthOf(y) = 2 /\ dayOf(y) = y - 336
  BY MonthRange, FebruaryAndMarch, SMT
<1>2. On(m, y) = [year |-> m + 1, month |-> 2, day |-> y - 336]
  BY <1>1, SMT DEF On
<1>3. NextDay(On(m, y)) = [year |-> m + 1, month |-> 3, day |-> 1]
  <2> DEFINE t == [year |-> m + 1, month |-> 2, day |-> y - 336]
  <2>1. MonthLength(m + 1, 2) = y - 336
    BY SMT DEF MonthLength
  <2>2. t.year = m + 1 /\ t.month = 2 /\ t.day = y - 336
    OBVIOUS
  <2>3. ~(t.day < MonthLength(t.year, t.month))
    BY <2>1, <2>2, SMT
  <2>4. NextDay(t) = [year |-> t.year, month |-> t.month + 1, day |-> 1]
    BY <2>2, <2>3, SMT DEF NextDay
  <2>5. NextDay(t) = [year |-> m + 1, month |-> 2 + 1, day |-> 1]
    BY <2>2, <2>4
  <2> HIDE DEF t
  <2>6. NextDay(t) = [year |-> m + 1, month |-> 3, day |-> 1]
    BY <2>5, SMT
  <2> QED  BY <1>2, <2>6 DEF t
<1>4. On(m + 1, 0) = [year |-> m + 1, month |-> 3, day |-> 1]
  <2>1. monthOf(0) = 3 /\ dayOf(0) = 1
    BY FebruaryAndMarch
  <2>2. m + 1 + (IF 3 <= 2 THEN 1 ELSE 0) = m + 1
    OBVIOUS
  <2> QED  BY <2>1, <2>2 DEF On
<1> QED  BY <1>3, <1>4

(***************************************************************************)
(* civil is the calendar: day after day, through leap days, the ends of    *)
(* months and years, centuries and eras.                                   *)
(***************************************************************************)
THEOREM CivilFollows == \A n \in Nat : civil(n + 1) = NextDay(civil(n))
<1> SUFFICES ASSUME NEW n \in Nat
             PROVE  civil(n + 1) = NextDay(civil(n))
  OBVIOUS
<1> DEFINE d == doe(n)
           e == eraOf(n)
           m == yoe(d) + e * 400
<1>1. /\ e \in Nat /\ d \in Nat /\ d < 147097 /\ d < 146097
      /\ d < 146096 => eraOf(n + 1) = e /\ doe(n + 1) = d + 1
      /\ d = 146096 => eraOf(n + 1) = e + 1 /\ doe(n + 1) = 0
  BY EraStep, SMT
<1>2. /\ yoe(d) \in Nat /\ doy(d) \in Nat /\ doy(d) < 366
      /\ IsLeap(yoe(d) + 1 + e * 400) <=> IsLeap(yoe(d) + 1)
  <2>1. yoe(d) \in Nat /\ doy(d) \in Nat /\ doy(d) < 366
    BY <1>1, YearRange
  <2>2. yoe(d) + 1 \in Nat
    BY <2>1
  <2> HIDE DEF d, e
  <2> QED  BY <1>1, <2>1, <2>2, LeapPeriod
<1>3. civil(n) = On(m, doy(d)) /\ m \in Nat /\ m + 1 = yoe(d) + 1 + e * 400
  <2>1. m \in Nat /\ m + 1 = yoe(d) + 1 + e * 400
    BY <1>1, <1>2, SMT
  <2> QED  BY <2>1 DEF civil, On
<1>4. CASE d = 146096
  <2>1. doy(d) = 365 /\ yoe(d) = 399 /\ IsLeap(m + 1)
    BY <1>2, <1>3, <1>4, EraEnd, SMT
  <2>2. civil(n + 1) = On((e + 1) * 400, 0)
    <3>1. civil(n + 1) = On(0 + (e + 1) * 400, 0)
      BY <1>1, <1>4, EraEnd DEF civil, On
    <3> QED  BY <1>1, <3>1, SMT
  <2>3. (e + 1) * 400 = m + 1
    BY <1>1, <2>1, SMT
  <2> QED  BY <1>3, <2>1, <2>2, <2>3, OverYear
<1>5. CASE d < 146096 /\ yoe(d + 1) = yoe(d) /\ doy(d + 1) = doy(d) + 1
  <2>1. civil(n + 1) = On(m, doy(d) + 1)
    BY <1>1, <1>5 DEF civil, On
  <2>2. doy(d) < 365 /\ (doy(d) = 364 => IsLeap(m + 1))
    <3>1. doy(d + 1) < 366 /\ (doy(d + 1) = 365 => IsLeap(yoe(d + 1) + 1))
      BY <1>1, <1>5, YearRange, LeapDay, SMT
    <3> QED  BY <1>2, <1>3, <1>5, <3>1, SMT
  <2> QED  BY <1>2, <1>3, <2>1, <2>2, WithinYear
<1>6. CASE /\ d < 146096 /\ yoe(d + 1) = yoe(d) + 1 /\ doy(d + 1) = 0
           /\ doy(d) = IF IsLeap(yoe(d) + 1) THEN 365 ELSE 364
  <2>1. civil(n + 1) = On(m + 1, 0)
    <3>1. civil(n + 1) = On(yoe(d) + 1 + e * 400, 0)
      BY <1>1, <1>6 DEF civil, On
    <3> QED  BY <1>3, <3>1
  <2> QED  BY <1>2, <1>3, <1>6, <2>1, OverYear
<1> HIDE DEF m
<1> QED  BY <1>1, <1>4, <1>5, <1>6, YearStep, SMT

-----------------------------------------------------------------------------
(***************************************************************************)
(* With the time of day: every second is followed by the next one, over    *)
(* minutes, hours and midnights, and the count begins with 1970.           *)
(***************************************************************************)
Epoch == [date |-> [year |-> 1970, month |-> 1, day |-> 1],
          hour |-> 0, minute |-> 0, second |-> 0]

THEOREM BeginsAtEpoch == format_amz_time(0) = Epoch
<1>1. z(daysOf(0)) = 719468 /\ 0 % 86400 = 0
  BY SMT DEF z, daysOf
<1>2. eraOf(719468) = 4 /\ doe(719468) = 135080
  BY SMT DEF eraOf, doe
<1>3. yoe(135080) = 369 /\ doy(135080) = 306
  BY SMT DEF yoe, doy
<1>4. monthOf(306) = 1 /\ dayOf(306) = 1
  BY SMT DEF mp, monthOf, dayOf
<1>5. civil(719468) = [year |-> 1970, month |-> 1, day |-> 1]
  BY <1>2, <1>3, <1>4, SMT DEF civil
<1> QED  BY <1>1, <1>5, SMT DEF format_amz_time, Epoch

LEMMA StampType == \A s \in Nat : format_amz_time(s) \in Stamp
<1> SUFFICES ASSUME NEW s \in Nat
             PROVE  format_amz_time(s) \in Stamp
  OBVIOUS
<1>1. z(daysOf(s)) \in Nat
  BY SMT DEF z, daysOf
<1>2. civil(z(daysOf(s))) \in Date
  BY <1>1, CivilType
<1>3. /\ (s % 86400) \div 3600 \in 0 .. 23
      /\ ((s % 86400) % 3600) \div 60 \in 0 .. 59
      /\ (s % 86400) % 60 \in 0 .. 59
  BY SMT
<1> QED  BY <1>2, <1>3 DEF format_amz_time, Stamp

LEMMA SecondStep ==
  ASSUME NEW d, NEW h, NEW mi, NEW se, se < 59
  PROVE  NextSecond([date |-> d, hour |-> h, minute |-> mi, second |-> se])
           = [date |-> d, hour |-> h, minute |-> mi, second |-> se + 1]
<1> DEFINE t == [date |-> d, hour |-> h, minute |-> mi, second |-> se]
<1>1. NextSecond(t) = [t EXCEPT !.second = @ + 1]
  BY DEF NextSecond
<1> QED  BY <1>1

LEMMA MinuteStep ==
  ASSUME NEW d, NEW h, NEW mi, mi < 59
  PROVE  NextSecond([date |-> d, hour |-> h, minute |-> mi, second |-> 59])
           = [date |-> d, hour |-> h, minute |-> mi + 1, second |-> 0]
<1> DEFINE t == [date |-> d, hour |-> h, minute |-> mi, second |-> 59]
<1>1. ~(59 < 59)
  OBVIOUS
<1>2. NextSecond(t) = [t EXCEPT !.second = 0, !.minute = @ + 1]
  BY <1>1 DEF NextSecond
<1> QED  BY <1>2

LEMMA HourStep ==
  ASSUME NEW d, NEW h, h < 23
  PROVE  NextSecond([date |-> d, hour |-> h, minute |-> 59, second |-> 59])
           = [date |-> d, hour |-> h + 1, minute |-> 0, second |-> 0]
<1> DEFINE t == [date |-> d, hour |-> h, minute |-> 59, second |-> 59]
<1>1. ~(59 < 59)
  OBVIOUS
<1>2. NextSecond(t) = [t EXCEPT !.second = 0, !.minute = 0, !.hour = @ + 1]
  BY <1>1 DEF NextSecond
<1> QED  BY <1>2

THEOREM StampFollows ==
  \A s \in Nat : format_amz_time(s + 1) = NextSecond(format_amz_time(s))
<1> SUFFICES ASSUME NEW s \in Nat
             PROVE  format_amz_time(s + 1) = NextSecond(format_amz_time(s))
  OBVIOUS
<1> DEFINE r == s % 86400
           q == (s + 1) % 86400
           days == daysOf(s)
<1>1. /\ days \in Nat /\ r \in Nat /\ r < 86400
      /\ r < 86399 => daysOf(s + 1) = days /\ q = r + 1
      /\ r = 86399 => daysOf(s + 1) = days + 1 /\ q = 0
  BY SMT DEF daysOf
<1>2. /\ format_amz_time(s) =
            [date |-> civil(z(days)), hour |-> r \div 3600,
             minute |-> (r % 3600) \div 60, second |-> r % 60]
      /\ format_amz_time(s + 1) =
            [date |-> civil(z(daysOf(s + 1))), hour |-> q \div 3600,
             minute |-> (q % 3600) \div 60, second |-> q % 60]
  BY DEF format_amz_time
<1> HIDE DEF r, q, days
<1>3. CASE r < 86399
  <2>1. \/ /\ r % 60 < 59 /\ (r + 1) % 60 = (r % 60) + 1
           /\ ((r + 1) % 3600) \div 60 = (r % 3600) \div 60
           /\ (r + 1) \div 3600 = r \div 3600
        \/ /\ r % 60 = 59 /\ (r + 1) % 60 = 0
           /\ (r % 3600) \div 60 < 59
           /\ ((r + 1) % 3600) \div 60 = (r % 3600) \div 60 + 1
           /\ (r + 1) \div 3600 = r \div 3600
        \/ /\ r % 60 = 59 /\ (r + 1) % 60 = 0
           /\ (r % 3600) \div 60 = 59 /\ ((r + 1) % 3600) \div 60 = 0
           /\ r \div 3600 < 23
           /\ (r + 1) \div 3600 = r \div 3600 + 1
    BY <1>1, <1>3, SMT
  <2>2. q = r + 1 /\ daysOf(s + 1) = days
    BY <1>1, <1>3
  <2> DEFINE t == format_amz_time(s)
             u == format_amz_time(s + 1)
  <2>3. /\ t = [date |-> t.date, hour |-> r \div 3600,
                minute |-> (r % 3600) \div 60, second |-> r % 60]
        /\ u = [date |-> t.date, hour |-> (r + 1) \div 3600,
                minute |-> ((r + 1) % 3600) \div 60, second |-> (r + 1) % 60]
    BY <1>2, <2>2
  <2> HIDE DEF t, u
  <2>4. ASSUME r % 60 < 59
        PROVE  u = NextSecond(t)
    <3>1. u = [date |-> t.date, hour |-> r \div 3600,
               minute |-> (r % 3600) \div 60, second |-> (r % 60) + 1]
      BY <2>1, <2>3, <2>4, SMT
    <3> QED  BY <2>3, <2>4, <3>1, SecondStep
  <2>5. ASSUME r % 60 = 59, (r % 3600) \div 60 < 59
        PROVE  u = NextSecond(t)
    <3>1. u = [date |-> t.date, hour |-> r \div 3600,
               minute |-> (r % 3600) \div 60 + 1, second |-> 0]
      BY <2>1, <2>3, <2>5, SMT
    <3> QED  BY <2>3, <2>5, <3>1, MinuteStep
  <2>6. ASSUME r % 60 = 59, (r % 3600) \div 60 = 59, r \div 3600 < 23
        PROVE  u = NextSecond(t)
    <3>1. u = [date |-> t.date, hour |-> r \div 3600 + 1, minute |-> 0, second |-> 0]
      BY <2>1, <2>3, <2>6, SMT
    <3> QED  BY <2>3, <2>6, <3>1, HourStep
  <2>7. u = NextSecond(t)
    BY <2>1, <2>4, <2>5, <2>6, SMT
  <2> QED  BY <2>7 DEF t, u
<1>4. CASE r = 86399
  <2>1. /\ r % 60 = 59 /\ (r % 3600) \div 60 = 59 /\ r \div 3600 = 23
        /\ q % 60 = 0 /\ (q % 3600) \div 60 = 0 /\ q \div 3600 = 0
    BY <1>1, <1>4, SMT
  <2>2. civil(z(days + 1)) = NextDay(civil(z(days)))
    <3>1. z(days) \in Nat /\ z(days + 1) = z(days) + 1
      BY <1>1, SMT DEF z
    <3> QED  BY <3>1, CivilFollows
  <2> QED  BY <1>1, <1>2, <1>4, <2>1, <2>2, SMT DEF NextSecond
<1> QED  BY <1>1, <1>3, <1>4, SMT

-----------------------------------------------------------------------------

(***************************************************************************)
(* What is true of one run while the origin holds the keys in held: each   *)
(* answer it waits for, or acts on, still says the truth because the       *)
(* origin only grows.                                                      *)
(***************************************************************************)
RunOK(r, held) ==
    /\ r \in Run
    /\ r.at \in {"head", "put", "append", "row", "ok"} => r.key \in Key
    /\ r.at \in {"append", "row", "ok"} => r.key \in held
    /\ r.answer \in {"found", "stored"} => r.key \in held
    /\ r.before => r.key \in held
    /\ r.at = "head" /\ r.answer = "missing" => ~r.before
    /\ r.at = "put" => ~r.before
    /\ r.signed = r.sent

ClockOK ==
    /\ clock \in [secs : Nat, stamp : Stamp, ticks : Nat]
    /\ clock.stamp = format_amz_time(clock.secs)

StoreOK ==
    /\ weather \in {"bad", "good"}
    /\ bucket \subseteq Key /\ late \subseteq Key
    /\ rows \subseteq bucket
    /\ line \in Publisher \cup {Empty, Garbled}

RunsOK ==
    /\ DOMAIN pub = Publisher /\ pub = [p \in Publisher |-> pub[p]]
    /\ \A p \in Publisher : RunOK(pub[p], bucket)

PublishInv == ClockOK /\ StoreOK /\ RunsOK

-----------------------------------------------------------------------------
LEMMA DerivedKey ==
  ASSUME NEW c \in Class, NEW blob \in Blob, derive_key(c, blob) # None
  PROVE  derive_key(c, blob) \in Key
<1> DEFINE paths == {template[d].path : d \in Class}
<1>1. template[c].path \in paths
  OBVIOUS
<1>2. derive_key(c, blob) = <<template[c].path, blob>>
  BY DEF derive_key
<1>3. Key = paths \X Blob
  BY DEF Key
<1> HIDE DEF paths
<1> QED  BY <1>1, <1>2, <1>3

LEMMA NoneAnswers == None \notin {"found", "missing", "stored", "refused", "failed"}
BY MarkerAssumption

LEMMA IdleRuns ==
  ASSUME NEW held
  PROVE  RunOK(Idle, held) /\ RunOK(Error, held)
BY NoneAnswers DEF RunOK, Run, Idle, Error

\* What a run relies on stays true when the origin grows.
LEMMA MoreHeld ==
  ASSUME NEW r, NEW held, NEW more, held \subseteq more, RunOK(r, held)
  PROVE  RunOK(r, more)
BY DEF RunOK

\* A signed request differs in its dates alone, and both are today's.
LEMMA SignedRun ==
  ASSUME ClockOK, NEW r \in Run
  PROVE  /\ sign(r) \in Run
         /\ sign(r).at = r.at /\ sign(r).key = r.key /\ sign(r).before = r.before
         /\ sign(r).answer = None /\ sign(r).signed = sign(r).sent
<1>1. clock.stamp \in Stamp /\ clock.stamp = format_amz_time(clock.secs)
  BY DEF ClockOK
<1> QED  BY <1>1 DEF sign, Run

\* One run moves, the origin may grow: the other runs are as good as before.
LEMMA OneRun ==
  ASSUME RunsOK, NEW p \in Publisher, NEW r,
         pub' = [pub EXCEPT ![p] = r], bucket \subseteq bucket', RunOK(r, bucket')
  PROVE  RunsOK'
<1>1. pub' = [q \in Publisher |-> pub'[q]] /\ DOMAIN pub' = Publisher
  BY DEF RunsOK
<1>2. ASSUME NEW q \in Publisher
      PROVE  RunOK(pub'[q], bucket')
  <2>1. CASE q = p
    BY <2>1 DEF RunsOK
  <2>2. CASE q # p
    <3>1. pub'[q] = pub[q] /\ RunOK(pub[q], bucket)
      BY <2>2 DEF RunsOK
    <3> QED  BY <3>1, MoreHeld
  <2> QED  BY <2>1, <2>2
<1> QED  BY <1>1, <1>2 DEF RunsOK

LEMMA SameRuns ==
  ASSUME RunsOK, pub' = pub, bucket \subseteq bucket'
  PROVE  RunsOK'
<1>1. \A p \in Publisher : RunOK(pub[p], bucket')
  BY MoreHeld DEF RunsOK
<1> QED  BY <1>1 DEF RunsOK

LEMMA GoneOn ==
  ASSUME RunsOK, NEW p \in Publisher, NEW held, NEW at \in {"append", "ok"},
         pub[p].key \in Key, pub[p].key \in held
  PROVE  RunOK(GoesTo(p, at), held)
<1>1. pub[p].record \in BOOLEAN
  BY DEF RunsOK, RunOK, Run
<1> QED  BY <1>1 DEF GoesTo, RunOK, Run, Idle

LEMMA SeededRun ==
  ASSUME RunsOK, NEW p \in Publisher, pub[p].key \in Key, pub[p].key \in bucket
  PROVE  RunOK(Seeded(p), bucket)
BY GoneOn DEF Seeded

-----------------------------------------------------------------------------
LEMMA InitPublish == Init => PublishInv
<1> SUFFICES ASSUME Init PROVE PublishInv
  OBVIOUS
<1>1. ClockOK
  BY MomentAssumption DEF Init, ClockOK
<1>2. StoreOK
  BY DEF Init, StoreOK
<1>3. RunsOK
  BY IdleRuns DEF Init, RunsOK
<1> QED  BY <1>1, <1>2, <1>3 DEF PublishInv

LEMMA BeginStep ==
  ASSUME PublishInv, NEW p \in Publisher, NEW c \in Class, NEW blob \in Blob,
         NEW env, NEW record \in BOOLEAN, Begin(p, c, blob, env, record)
  PROVE  PublishInv'
<1> DEFINE k == derive_key(c, blob)
           held == k \in bucket
           asks == [Idle EXCEPT !.at = "head", !.key = k, !.record = record,
                                !.before = held]
<1>1. k \in Key /\ held \in BOOLEAN /\ (held => k \in bucket)
  BY DerivedKey DEF Begin
<1> HIDE DEF k, held
<1>2. /\ asks \in Run /\ asks.at = "head" /\ asks.key = k
      /\ asks.before => k \in bucket
  BY <1>1 DEF Run, Idle
<1> HIDE DEF asks
<1>3. RunOK(sign(asks), bucket)
  BY <1>1, <1>2, SignedRun, NoneAnswers DEF PublishInv, RunOK
<1>4. RunsOK'
  BY <1>3, OneRun DEF PublishInv, Begin, k, held, asks
<1> QED  BY <1>4 DEF PublishInv, Begin, ClockOK, StoreOK

LEMMA RefusedStep ==
  ASSUME PublishInv, NEW p \in Publisher, NEW c, NEW blob, NEW env,
         BeginRefused(p, c, blob, env)
  PROVE  PublishInv'
<1>1. RunsOK'
  BY IdleRuns, OneRun DEF PublishInv, BeginRefused
<1> QED  BY <1>1 DEF PublishInv, BeginRefused, ClockOK, StoreOK

LEMMA HeadArrivesStep ==
  ASSUME PublishInv, NEW p \in Publisher, HeadArrives(p)
  PROVE  PublishInv'
<1>1. PICK a \in {"refused", "found", "missing", "failed"} :
          /\ pub' = [pub EXCEPT ![p].answer = a]
          /\ a = "found" => pub[p].key \in bucket
          /\ a = "missing" => pub[p].key \notin bucket
  BY DEF HeadArrives
<1>2. RunOK(pub[p], bucket) /\ pub[p].at = "head"
  BY DEF PublishInv, RunsOK, HeadArrives, Asking
<1>3. RunOK([pub[p] EXCEPT !.answer = a], bucket)
  BY <1>1, <1>2 DEF RunOK, Run
<1>4. RunsOK'
  BY <1>1, <1>3, OneRun DEF PublishInv, HeadArrives
<1> QED  BY <1>4 DEF PublishInv, HeadArrives, ClockOK, StoreOK

LEMMA HeadAnsweredStep ==
  ASSUME PublishInv, NEW p \in Publisher, HeadAnswered(p)
  PROVE  PublishInv'
<1>1. RunOK(pub[p], bucket) /\ pub[p].at = "head" /\ pub[p].key \in Key
  BY DEF PublishInv, RunsOK, RunOK, HeadAnswered
<1>2. ASSUME pub[p].answer = "missing"
      PROVE  RunOK(sign([pub[p] EXCEPT !.at = "put"]), bucket)
  <2> DEFINE asks == [pub[p] EXCEPT !.at = "put"]
  <2>1. /\ asks \in Run /\ asks.at = "put" /\ asks.key = pub[p].key
        /\ asks.before = pub[p].before
    BY <1>1 DEF RunOK, Run
  <2>2. ~asks.before
    BY <1>1, <1>2, <2>1 DEF RunOK
  <2> HIDE DEF asks
  <2>3. RunOK(sign(asks), bucket)
    BY <1>1, <2>1, <2>2, SignedRun, NoneAnswers DEF PublishInv, RunOK
  <2> QED  BY <2>3 DEF asks
<1>3. ASSUME pub[p].answer = "found"
      PROVE  RunOK(Seeded(p), bucket)
  BY <1>1, <1>3, SeededRun DEF PublishInv, RunOK
<1>4. RunsOK'
  BY <1>2, <1>3, IdleRuns, OneRun DEF PublishInv, HeadAnswered
<1> QED  BY <1>4 DEF PublishInv, HeadAnswered, ClockOK, StoreOK

LEMMA PutArrivesStep ==
  ASSUME PublishInv, NEW p \in Publisher, PutArrives(p)
  PROVE  PublishInv'
<1>1. PICK a \in {"stored", "refused", "failed"} :
          /\ pub' = [pub EXCEPT ![p].answer = a]
          /\ bucket' \in {bucket, bucket \cup {pub[p].key}}
          /\ a = "stored" => pub[p].key \in bucket'
  BY DEF PutArrives
<1>2. RunOK(pub[p], bucket) /\ pub[p].at = "put" /\ pub[p].key \in Key
  BY DEF PublishInv, RunsOK, RunOK, PutArrives, Asking
<1>3. RunOK([pub[p] EXCEPT !.answer = a], bucket')
  BY <1>1, <1>2 DEF RunOK, Run
<1>4. RunsOK'
  BY <1>1, <1>3, OneRun DEF PublishInv
<1> QED  BY <1>1, <1>2, <1>4 DEF PublishInv, PutArrives, ClockOK, StoreOK

LEMMA PutBreaksStep ==
  ASSUME PublishInv, NEW p \in Publisher, PutBreaks(p)
  PROVE  PublishInv'
<1>1. RunOK(pub[p], bucket) /\ pub[p].at = "put" /\ pub[p].key \in Key
  BY DEF PublishInv, RunsOK, RunOK, PutBreaks, Asking
<1>2. RunOK([pub[p] EXCEPT !.answer = "failed"], bucket)
  BY <1>1 DEF RunOK, Run
<1>3. RunsOK'
  BY <1>2, OneRun DEF PublishInv, PutBreaks
<1> QED  BY <1>1, <1>3 DEF PublishInv, PutBreaks, ClockOK, StoreOK

LEMMA PutAnsweredStep ==
  ASSUME PublishInv, NEW p \in Publisher, PutAnswered(p)
  PROVE  PublishInv'
<1> DEFINE r == IF pub[p].answer = "stored" THEN Seeded(p) ELSE Error
<1>1. RunOK(pub[p], bucket) /\ pub[p].key \in Key
  BY DEF PublishInv, RunsOK, RunOK, PutAnswered
<1>2. RunOK(r, bucket)
  BY <1>1, SeededRun, IdleRuns DEF PublishInv, RunOK
<1>3. pub' = [pub EXCEPT ![p] = r] /\ bucket' = bucket
  BY DEF PutAnswered
<1> HIDE DEF r
<1>4. RunsOK'
  BY <1>2, <1>3, OneRun DEF PublishInv
<1> QED  BY <1>4 DEF PublishInv, PutAnswered, ClockOK, StoreOK

LEMMA AppendStep ==
  ASSUME PublishInv, NEW p \in Publisher,
         AppendFirst(p) \/ AppendMore(p) \/ AppendRest(p) \/ AppendFails(p)
  PROVE  PublishInv'
<1>1. RunOK(pub[p], bucket)
  BY DEF PublishInv, RunsOK
<1>2. CASE AppendFirst(p)
  <2>1. RunOK([pub[p] EXCEPT !.at = "row"], bucket)
    BY <1>1, <1>2 DEF RunOK, Run, AppendFirst
  <2>2. RunsOK'
    BY <1>2, <2>1, OneRun DEF PublishInv, AppendFirst
  <2> QED  BY <1>2, <2>2 DEF PublishInv, AppendFirst, ClockOK, StoreOK
<1>3. CASE AppendMore(p)
  <2>1. RunsOK'
    BY <1>3, SameRuns DEF PublishInv, AppendMore
  <2> QED  BY <1>3, <2>1 DEF PublishInv, AppendMore, ClockOK, StoreOK
<1>4. CASE AppendRest(p)
  <2>1. pub[p].key \in Key /\ pub[p].key \in bucket
    BY <1>1, <1>4 DEF RunOK, AppendRest
  <2>2. RunOK(GoesTo(p, "ok"), bucket)
    BY <2>1, GoneOn DEF PublishInv
  <2>3. RunsOK'
    BY <1>4, <2>2, OneRun DEF PublishInv, AppendRest
  <2> QED  BY <1>4, <2>1, <2>3 DEF PublishInv, AppendRest, ClockOK, StoreOK
<1>5. CASE AppendFails(p)
  <2>1. RunsOK'
    BY <1>5, IdleRuns, OneRun DEF PublishInv, AppendFails
  <2> QED  BY <1>5, <2>1 DEF PublishInv, AppendFails, ClockOK, StoreOK
<1> QED  BY <1>2, <1>3, <1>4, <1>5

LEMMA KillStep ==
  ASSUME PublishInv, NEW p \in Publisher, Kill(p)
  PROVE  PublishInv'
<1>1. RunsOK'
  BY IdleRuns, OneRun DEF PublishInv, Kill
<1>2. late' \subseteq Key
  <2>1. Asking(p, "put") => pub[p].key \in Key
    BY DEF Asking, PublishInv, RunsOK, RunOK
  <2> QED  BY <2>1 DEF Kill, PublishInv, StoreOK
<1> QED  BY <1>1, <1>2 DEF PublishInv, Kill, ClockOK, StoreOK

LEMMA LatePutStep ==
  ASSUME PublishInv, NEW k \in late, LatePut(k)
  PROVE  PublishInv'
<1>1. RunsOK'
  BY SameRuns DEF PublishInv, LatePut
<1> QED  BY <1>1 DEF PublishInv, LatePut, ClockOK, StoreOK

\* The code's date keeps pace with the calendar.
LEMMA TickStep ==
  ASSUME PublishInv, Tick
  PROVE  PublishInv'
<1>1. RunsOK'
  BY SameRuns DEF PublishInv, Tick
<1>2. ClockOK'
  <2>1. clock.secs \in Nat /\ clock.ticks \in Nat
        /\ clock.stamp = format_amz_time(clock.secs)
    BY DEF PublishInv, ClockOK
  <2>2. /\ NextSecond(clock.stamp) = format_amz_time(clock.secs + 1)
        /\ format_amz_time(clock.secs + 1) \in Stamp
    BY <2>1, StampFollows, StampType
  <2>3. clock' = [secs |-> clock.secs + 1, stamp |-> NextSecond(clock.stamp),
                  ticks |-> clock.ticks + 1]
    BY DEF Tick
  <2>4. clock.secs + 1 \in Nat /\ clock.ticks + 1 \in Nat
    BY <2>1
  <2> QED  BY <2>2, <2>3, <2>4 DEF ClockOK
<1> QED  BY <1>1, <1>2 DEF PublishInv, Tick, StoreOK

LEMMA NextPublish == PublishInv /\ [Next]_vars => PublishInv'
<1> SUFFICES ASSUME PublishInv, [Next]_vars PROVE PublishInv'
  OBVIOUS
<1>1. CASE \E p \in Publisher : \E c \in Class, blob \in Blob, env \in SUBSET Variable :
              \/ BeginRefused(p, c, blob, env)
              \/ \E record \in BOOLEAN : Begin(p, c, blob, env, record)
  BY <1>1, BeginStep, RefusedStep
<1>2. CASE \E p \in Publisher : Advance(p)
  BY <1>2, HeadArrivesStep, HeadAnsweredStep, PutArrivesStep, PutAnsweredStep,
     AppendStep DEF Advance
<1>3. CASE \E p \in Publisher : PutBreaks(p) \/ AppendMore(p) \/ AppendFails(p) \/ Kill(p)
  BY <1>3, PutBreaksStep, AppendStep, KillStep
<1>4. CASE \E k \in late : LatePut(k)
  BY <1>4, LatePutStep
<1>5. CASE Tick
  BY <1>5, TickStep
<1>6. CASE WeatherClears \/ UNCHANGED vars
  <2>1. RunsOK'
    BY <1>6, SameRuns DEF PublishInv, WeatherClears, vars
  <2> QED  BY <1>6, <2>1 DEF PublishInv, WeatherClears, vars, ClockOK, StoreOK
<1> QED  BY <1>1, <1>2, <1>3, <1>4, <1>5, <1>6 DEF Next

LEMMA AlwaysPublish == Spec => []PublishInv
BY InitPublish, NextPublish, PTL DEF Spec

-----------------------------------------------------------------------------
\* A run that reports success has its object at the origin.
THEOREM SuccessIsTrue == Spec => []OkMeansHeld
<1>1. PublishInv => OkMeansHeld
  BY DEF PublishInv, RunsOK, RunOK, OkMeansHeld
<1> QED  BY <1>1, AlwaysPublish, PTL

\* A run does not upload what the origin held when it began.
THEOREM NothingTwice == Spec => []NoReupload
<1>1. PublishInv => NoReupload
  BY DEF PublishInv, RunsOK, RunOK, NoReupload
<1> QED  BY <1>1, AlwaysPublish, PTL

\* Every request bears the date that a calendar shows, from any second on.
THEOREM DatedByTheCalendar == Spec => []SignedToday
<1>1. PublishInv => SignedToday
  BY DEF PublishInv, RunsOK, RunOK, SignedToday
<1> QED  BY <1>1, AlwaysPublish, PTL

\* Every variable keeps its type, and every date is a month and a day.
THEOREM PublishType == Spec => []TypeOK
<1>1. PublishInv => TypeOK
  BY DEF PublishInv, RunsOK, RunOK, ClockOK, StoreOK, TypeOK
<1> QED  BY <1>1, AlwaysPublish, PTL

(***************************************************************************)
(* The origin only grows, and the manifest names only what it holds.       *)
(***************************************************************************)
THEOREM OriginImplemented == Spec => OriginHolds
<1>1. Init => O!OInit
  BY DEF Init, O!OInit
<1>2. PublishInv /\ [Next]_vars => [O!ONext]_(O!ovars)
  <2> SUFFICES ASSUME PublishInv, [Next]_vars PROVE [O!ONext]_(O!ovars)
    OBVIOUS
  <2>1. ASSUME NEW p \in Publisher, PutArrives(p)
        PROVE  [O!ONext]_(O!ovars)
    <3>1. pub[p].key \in Key
      BY <2>1 DEF PublishInv, RunsOK, RunOK, PutArrives, Asking
    <3> QED  BY <2>1, <3>1 DEF PutArrives, O!ONext, O!Store, O!ovars
  <2>2. ASSUME NEW p \in Publisher, AppendRest(p)
        PROVE  [O!ONext]_(O!ovars)
    <3>1. pub[p].key \in Key /\ pub[p].key \in bucket
      BY <2>2 DEF PublishInv, RunsOK, RunOK, AppendRest
    <3> QED  BY <2>2, <3>1 DEF AppendRest, O!ONext, O!Record, O!ovars
  <2>3. ASSUME NEW k \in late, LatePut(k)
        PROVE  [O!ONext]_(O!ovars)
    BY <2>3 DEF PublishInv, StoreOK, LatePut, O!ONext, O!Store, O!ovars
  <2>4. ASSUME UNCHANGED <<bucket, rows>>
        PROVE  [O!ONext]_(O!ovars)
    BY <2>4 DEF O!ovars
  <2>5. CASE \E p \in Publisher :
                \/ \E c \in Class, blob \in Blob, env \in SUBSET Variable :
                      \/ BeginRefused(p, c, blob, env)
                      \/ \E record \in BOOLEAN : Begin(p, c, blob, env, record)
                \/ HeadArrives(p) \/ HeadAnswered(p) \/ PutAnswered(p)
                \/ AppendFirst(p) \/ AppendMore(p) \/ AppendFails(p)
                \/ PutBreaks(p) \/ Kill(p)
    BY <2>4, <2>5 DEF BeginRefused, Begin, HeadArrives, HeadAnswered, PutAnswered,
       AppendFirst, AppendMore, AppendFails, PutBreaks, Kill
  <2>6. CASE Tick \/ WeatherClears \/ UNCHANGED vars
    BY <2>4, <2>6 DEF Tick, WeatherClears, vars
  <2> QED  BY <2>1, <2>2, <2>3, <2>5, <2>6 DEF Next, Advance
<1> QED  BY <1>1, <1>2, AlwaysPublish, PTL DEF Spec, OriginHolds, O!OSpec
=============================================================================
