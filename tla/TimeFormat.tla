----------------------------- MODULE TimeFormat -----------------------------
(***************************************************************************)
(* The formats "date", "time" and "date-time": the arithmetic of           *)
(* string-format-check.cpp, put to the test by a clock.                    *)
(*                                                                         *)
(* The clock shows the days of the calendar and the minutes of UTC, with   *)
(* a leap second now and then.  Somebody writes down what it shows, in     *)
(* some time zone, perhaps with a slip of the pen, and the text is checked.*)
(* A text is what the groups of the regular expressions find in it.        *)
(***************************************************************************)
EXTENDS Integers

CONSTANTS
  Start,    \* the moments at which the clock may be set
  Watched,  \* bound: the minutes of the day in which it is watched
  LastYear, \* bound: the clock stops after this year
  Zone,     \* the zones in which times are written
  Slip      \* fields of a text, and by how much they are wrong

DayMinutes == 24 * 60
MaxYear == 9999

(***************************************************************************)
(* The calendar of RFC 3339, appendix C, and UTC.                          *)
(***************************************************************************)
Leap(year) == (year % 4 = 0 /\ year % 100 # 0) \/ year % 400 = 0
MonthLength(year, month) ==
  <<31, IF Leap(year) THEN 29 ELSE 28, 31, 30, 31, 30, 31, 31, 30, 31, 30, 31>>[month]

\* A day, a minute of it and a second; the last minute may have a leap second.
Year == 0..MaxYear
Month == 1..12
MonthDay == 1..31
Minute == 0..(DayMinutes - 1)
Second == 0..60
Moment == [year : Year, month : Month, mday : MonthDay, minute : Minute, second : Second]
IsDay(d) == d.year \in Year /\ d.month \in Month /\ d.mday \in 1..MonthLength(d.year, d.month)
IsMoment(c) == c \in Moment /\ IsDay(c) /\ (c.second = 60 => c.minute = DayMinutes - 1)

Format == {"date", "time", "date-time"}
AnyZone == [sign : {"Z"}, offsetHour : {0}, offsetMinute : {0}]
           \cup [sign : {"+", "-"}, offsetHour : 0..23, offsetMinute : 0..59]
Text == [matches : BOOLEAN, format : Format, year : Nat, month : Nat, mday : Nat,
         hour : Nat, minute : Nat, second : Nat,
         sign : {"Z", "+", "-"}, offsetHour : Nat, offsetMinute : Nat]

ASSUME TimeAssumption ==
  /\ LastYear \in 1..(MaxYear - 2)
  /\ \A c \in Start : IsMoment(c) /\ c.year \in 1..LastYear
  /\ Zone \subseteq AnyZone
  /\ Slip \subseteq [field : {"year", "month", "mday", "hour", "minute", "second",
                              "offsetHour", "offsetMinute"}, by : Int]

VARIABLES
  clock,  \* the moment it is
  text,   \* what was written, and the format it is checked for
  verdict \* what default_string_format_check() says

vars == <<clock, text, verdict>>
-----------------------------------------------------------------------------
(***************************************************************************)
(* The code.  A check that throws is FALSE.                                *)
(***************************************************************************)
range_check(value, min, max) == value >= min /\ value <= max

\* Mutant: the rule of the Julian calendar.
JulianLeapYear(year) == year % 4 = 0

isLeapYear(year) == year % 4 = 0 /\ (year % 100 # 0 \/ year % 400 = 0)

rfc3339_date_check(v) ==
  /\ v.matches
  /\ range_check(v.month, 1, 12)
  /\ \/ v.month = 2 /\ range_check(v.mday, 1, IF isLeapYear(v.year) THEN 29 ELSE 28)
     \/ v.month # 2 /\ v.month <= 7 /\ range_check(v.mday, 1, IF v.month % 2 = 0 THEN 30 ELSE 31)
     \/ v.month > 7 /\ range_check(v.mday, 1, IF v.month % 2 = 0 THEN 31 ELSE 30)

\* The minutes of the offset.  stoi() of the sign and the hours: -00 has no sign.
Offset(sign, hour, minute) ==
  IF sign = "-" /\ hour > 0 THEN -(hour * 60 + minute) ELSE hour * 60 + minute

\* Mutant: the day before is not wrapped around.
unwrapped_minutes(hour, minute, offset) == hour * 60 + minute - offset

day_minutes(hour, minute, offset) ==
  LET m == hour * 60 + minute - offset IN IF m < 0 THEN m + 60 * 24 ELSE m

last_second(minutes) == IF minutes % 24 = 23 /\ minutes \div 24 = 59 THEN 60 ELSE 59

rfc3339_time_check(v) ==
  LET offset == Offset(v.sign, v.offsetHour, v.offsetMinute)
  IN /\ v.matches
     /\ range_check(v.hour, 0, 23) /\ range_check(v.minute, 0, 59)
     /\ range_check(v.offsetHour, 0, 23) /\ range_check(v.offsetMinute, 0, 59)
     /\ range_check(v.second, 0, last_second(day_minutes(v.hour, v.minute, offset)))

rfc3339_date_time_check(v) == v.matches /\ rfc3339_date_check(v) /\ rfc3339_time_check(v)

default_string_format_check(v) ==
  CASE v.format = "date" -> rfc3339_date_check(v)
    [] v.format = "time" -> rfc3339_time_check(v)
    [] v.format = "date-time" -> rfc3339_date_time_check(v)
-----------------------------------------------------------------------------
(***************************************************************************)
(* The clock and the writer.                                               *)
(***************************************************************************)
On(c, year, month, mday) == [c EXCEPT !.year = year, !.month = month, !.mday = mday]
At(c, minute, second) == [c EXCEPT !.minute = minute, !.second = second]
Tomorrow(c) ==
  IF c.mday < MonthLength(c.year, c.month) THEN On(c, c.year, c.month, c.mday + 1)
  ELSE IF c.month < 12 THEN On(c, c.year, c.month + 1, 1) ELSE On(c, c.year + 1, 1, 1)
Yesterday(c) ==
  IF c.mday > 1 THEN On(c, c.year, c.month, c.mday - 1)
  ELSE IF c.month > 1 THEN On(c, c.year, c.month - 1, MonthLength(c.year, c.month - 1))
       ELSE On(c, c.year - 1, 12, 31)

\* The minutes a zone is ahead of UTC.
Ahead(sign, hour, minute) ==
  IF sign = "-" THEN -(hour * 60 + minute) ELSE hour * 60 + minute

\* What the clock shows, as it is written in a zone.
Written(c, z, format) ==
  LET m == c.minute + Ahead(z.sign, z.offsetHour, z.offsetMinute)
      d == CASE m < 0 -> Yesterday(c) [] m >= DayMinutes -> Tomorrow(c) [] OTHER -> c
  IN [matches |-> TRUE, format |-> format,
      year |-> d.year, month |-> d.month, mday |-> d.mday,
      hour |-> (m % DayMinutes) \div 60, minute |-> (m % DayMinutes) % 60, second |-> c.second,
      sign |-> z.sign, offsetHour |-> z.offsetHour, offsetMinute |-> z.offsetMinute]

\* text says when the moment c is.
Denotes(c) == \E z \in Zone, format \in Format : text = Written(c, z, format)

\* The clock is looked at in the first and in the last second of a minute, and in
\* the leap second that may follow 23:59:59.
Tick ==
  /\ clock.year <= LastYear /\ clock.minute \in Watched
  /\ \/ clock.second < 59 /\ clock' = At(clock, clock.minute, 59)
     \/ /\ clock.second = 59 /\ clock.minute = DayMinutes - 1
        /\ clock' = At(clock, clock.minute, 60)
     \/ /\ clock.second >= 59 /\ clock.minute < DayMinutes - 1
        /\ clock' = At(clock, clock.minute + 1, 0)
     \/ /\ clock.second >= 59 /\ clock.minute = DayMinutes - 1
        /\ clock' = At(Tomorrow(clock), 0, 0)
  /\ UNCHANGED <<text, verdict>>

Write(z, format) ==
  /\ text' = Written(clock, z, format)
  /\ verdict' = "unknown"
  /\ UNCHANGED clock

\* A slip of the pen, or not a text of this kind at all.
Misspell ==
  /\ Denotes(clock)
  /\ \/ text' = [text EXCEPT !.matches = FALSE]
     \/ \E s \in Slip :
          /\ text.sign = "Z" => s.field \notin {"offsetHour", "offsetMinute"}
          /\ text[s.field] + s.by \in 0..(IF s.field = "year" THEN MaxYear ELSE 99)
          /\ text' = [text EXCEPT ![s.field] = @ + s.by]
  /\ verdict' = "unknown"
  /\ UNCHANGED clock

Check ==
  /\ verdict = "unknown"
  /\ verdict' = IF default_string_format_check(text) THEN "valid" ELSE "invalid"
  /\ UNCHANGED <<clock, text>>

Init ==
  /\ clock \in Start
  /\ \E z \in Zone, format \in Format : text = Written(clock, z, format)
  /\ verdict = "unknown"

Next == Tick \/ (\E z \in Zone, format \in Format : Write(z, format)) \/ Misspell \/ Check
Spec == Init /\ [][Next]_vars
-----------------------------------------------------------------------------
(***************************************************************************)
(* Properties.                                                             *)
(***************************************************************************)

\* The comment at string-format-check.cpp:101 claims "it won't lead to false
\* negatives": whatever the clock shows, in whatever zone it is written, is
\* accepted, leap seconds included on whichever local day they fall.
NoFalseNegatives == Denotes(clock) => verdict # "invalid"

\* An offset of less than an hour behind UTC, whose sign stoi() loses.
Unsigned(v) == v.sign = "-" /\ v.offsetHour = 0 /\ v.offsetMinute # 0
SignedZones == \A z \in Zone : ~Unsigned(z)

\* What is accepted is right: there is such a day in the calendar, and a minute of
\* UTC in which clocks in that zone show this time, for a leap second the last.
AcceptsOnlyMoments ==
  verdict = "valid" /\ ~Unsigned(text) =>
    /\ text.matches
    /\ text.format # "time" => IsDay(text)
    /\ text.format # "date" =>
         /\ text.hour \in 0..23 /\ text.minute \in 0..59 /\ text.second \in 0..60
         /\ text.offsetHour \in 0..23 /\ text.offsetMinute \in 0..59
         /\ \E m \in Minute :
              /\ (m + Ahead(text.sign, text.offsetHour, text.offsetMinute)) % DayMinutes
                   = text.hour * 60 + text.minute
              /\ text.second = 60 => m = DayMinutes - 1
=============================================================================
