------------------------------- MODULE Expiry -------------------------------
(***************************************************************************)
(* What the pages say of when a link ends (views.rs).  The database keeps  *)
(* an instant as SQLite's datetime() writes it, read here as a record of   *)
(* numbers; an instant is the day since 1970 and the second of that day.   *)
(***************************************************************************)
EXTENDS Integers

CONSTANT SecondsLeft     \* seconds a link may have left when its page is opened
ASSUME SecondsAssumption == SecondsLeft \subseteq Int

VARIABLES calendar,  \* a month, and the days since 1970 that came before it
          left       \* seconds the link of a page has left
time_vars == <<calendar, left>>

Instant(day, sec) == [day |-> day, sec |-> sec]

\* Mutated: centuries are leap years.
JulianInstant(at) ==
  LET y   == IF at.month <= 2 THEN at.year - 1 ELSE at.year
      doy == (153 * ((at.month + 9) % 12) + 2) \div 5 + at.day - 1
      doe == (y % 400) * 365 + (y % 400) \div 4 + doy
  IN  Instant((y \div 400) * 146097 + doe - 719468, at.hour * 3600 + at.minute * 60 + at.second)

\* Years that begin in March, in eras of 400 years.
parse_sqlite_utc(at) ==
  LET y   == IF at.month <= 2 THEN at.year - 1 ELSE at.year
      yoe == y % 400
      doy == (153 * ((at.month + 9) % 12) + 2) \div 5 + at.day - 1
      doe == yoe * 365 + yoe \div 4 - yoe \div 100 + doy
  IN  Instant((y \div 400) * 146097 + doe - 719468, at.hour * 3600 + at.minute * 60 + at.second)

seconds_until(at, now) ==
  LET end == parse_sqlite_utc(at) IN (end.day - now.day) * 86400 + end.sec - now.sec

Said(n, unit) == [n |-> n, unit |-> unit]

\* Minutes and hours are cut, days go to the nearest; "less than a minute" is no minute.
humanize_expires_in(secs) ==
  IF secs < 3600 THEN Said((IF secs < 0 THEN 0 ELSE secs) \div 60, 60)
  ELSE IF secs < 86400 THEN Said(secs \div 3600, 3600)
  ELSE Said((secs + 43200) \div 86400, 86400)

\* A ceiling in the largest unit that divides it.
humanize_duration(secs) ==
  IF secs % 86400 = 0 THEN Said(secs \div 86400, 86400)
  ELSE IF secs % 3600 = 0 THEN Said(secs \div 3600, 3600)
  ELSE Said(secs \div 60, 60)
-----------------------------------------------------------------------------
(* The calendar, month by month: the reference for the formula above. *)
Leap(y) == y % 4 = 0 /\ (y % 100 # 0 \/ y % 400 = 0)
MonthDays(y, m) == CASE m = 2 -> (IF Leap(y) THEN 29 ELSE 28) [] m \in {4, 6, 9, 11} -> 30 [] OTHER -> 31

TimeInit == calendar = [year |-> 1970, month |-> 1, days |-> 0] /\ left = 0

NewMonth ==
  /\ calendar' = [year  |-> IF calendar.month = 12 THEN calendar.year + 1 ELSE calendar.year,
                  month |-> IF calendar.month = 12 THEN 1 ELSE calendar.month + 1,
                  days  |-> calendar.days + MonthDays(calendar.year, calendar.month)]
  /\ UNCHANGED left

Opened == left' \in SecondsLeft /\ UNCHANGED calendar

TimeSpec == TimeInit /\ [][NewMonth \/ Opened]_time_vars

(***************************************************************************)
(* An expiry is read back as the instant it was written for, whatever the  *)
(* month, and over the ends of leap years and centuries: a link that lives *)
(* a second more has a second more left.                                   *)
(***************************************************************************)
DatesAreRead(month) ==
  \A day \in 1..MonthDays(month.year, month.month), clock \in {<<0, 0, 0>>, <<23, 59, 59>>} :
    LET at == [year |-> month.year, month |-> month.month, day |-> day,
               hour |-> clock[1], minute |-> clock[2], second |-> clock[3]]
    IN  seconds_until(at, Instant(month.days + day - 1, 0)) = clock[1] * 3600 + clock[2] * 60 + clock[3]

(***************************************************************************)
(* The time left never grows as time passes; below a day it is never more  *)
(* than is left, and short by less than its own unit; from a day on it is  *)
(* off by half a day at most.                                              *)
(***************************************************************************)
Length(said) == said.n * said.unit

ToldTruly(secs, said) ==
  /\ Length(said) <= Length(humanize_expires_in(secs + 1))
  /\ secs < 0 => Length(said) = 0
  /\ 0 <= secs /\ secs < 86400 => Length(said) <= secs /\ secs < Length(said) + said.unit
  /\ secs >= 86400 => Length(said) - secs <= 43200 /\ secs - Length(said) < 43200
  /\ secs < 0 \/ said.n < 60 \/ said.unit = 86400

\* A ceiling of whole minutes is named exactly, and one of whole days as the time left is.
CeilingIsExact(secs) ==
  secs > 0 /\ secs % 60 = 0 =>
    /\ Length(humanize_duration(secs)) = secs
    /\ secs % 86400 = 0 => humanize_expires_in(secs) = humanize_duration(secs)

SpanIsTrue(secs) == ToldTruly(secs, humanize_expires_in(secs)) /\ CeilingIsExact(secs)

\* What the pages say of a link's end is so, in any month and whatever is left.
TimesAreTrue == DatesAreRead(calendar) /\ SpanIsTrue(left)
=============================================================================
