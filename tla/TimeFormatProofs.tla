-------------------------- MODULE TimeFormatProofs --------------------------
(***************************************************************************)
(* The checks of dates and times are right for every date, time and zone,  *)
(* those without the sign of their offset excepted.                        *)
(***************************************************************************)
EXTENDS TimeFormat, TLAPS

Verdict == {"unknown", "valid", "invalid"}

IInv ==
  /\ IsMoment(clock) /\ clock.year \in 1..(LastYear + 1)
  /\ text \in Text /\ text.year <= MaxYear
  /\ verdict \in Verdict
  /\ verdict = "valid" => default_string_format_check(text)
  /\ verdict = "invalid" => ~default_string_format_check(text)
-----------------------------------------------------------------------------
(***************************************************************************)
(* Arithmetic.                                                             *)
(***************************************************************************)

\* Hours, minutes, offsets and the minutes of a day less an offset.
Hours == 0..23
Minutes == 0..59
Offsets == (-1439)..1439
Differences == 0..2878

\* The last years.
LEMMA Years ==
  /\ MaxYear \in Nat /\ LastYear \in 1..(MaxYear - 2)
  /\ 1..LastYear \subseteq 1..(MaxYear - 1) /\ 1..(LastYear + 1) \subseteq 1..(MaxYear - 1)
<1>1. MaxYear \in Nat
  BY DEF MaxYear
<1> QED
  BY <1>1, TimeAssumption

\* A number and the next one.
LEMMA ThisOrNext == ASSUME NEW y \in Int PROVE y \in y..(y + 1) /\ y + 1 \in y..(y + 1)
OBVIOUS

\* Hours and minutes are taken from day_minutes the wrong way round; for the last
\* minute of the day this makes no difference.
LEMMA LastMinute ==
  ASSUME NEW d \in Differences
  PROVE  last_second(d) = IF d = 1439 THEN 60 ELSE 59
BY DEF last_second, Differences

\* The sign of an offset is lost only when there are no hours.
LEMMA SignKept ==
  ASSUME NEW sign, NEW h \in Hours, NEW m \in Minutes, ~(sign = "-" /\ h = 0 /\ m # 0)
  PROVE  Offset(sign, h, m) = Ahead(sign, h, m) /\ Ahead(sign, h, m) \in Offsets
BY DEF Offset, Ahead, Hours, Minutes, Offsets

\* A time less an offset lies within two days.
LEMMA Difference ==
  ASSUME NEW h \in Hours, NEW m \in Minutes, NEW o \in Offsets
  PROVE  day_minutes(h, m, o) \in Differences
BY DEF Hours, Minutes, Offsets, Differences, day_minutes
-----------------------------------------------------------------------------
(***************************************************************************)
(* The calendar.                                                           *)
(***************************************************************************)

\* Months have 28 to 31 days.
LEMMA Lengths ==
  ASSUME NEW year, NEW month \in 1..12
  PROVE  MonthLength(year, month) \in 28..31 /\ (month = 12 => MonthLength(year, month) = 31)
<1>1. \/ month = 1 \/ month = 2 \/ month = 3 \/ month = 4 \/ month = 5 \/ month = 6 \/ month = 7
      \/ month = 8 \/ month = 9 \/ month = 10 \/ month = 11 \/ month = 12
  OBVIOUS
<1> QED
  BY <1>1 DEF MonthLength

\* The parity rule of rfc3339_date_check() is the table of the RFC.
LEMMA SameDays ==
  ASSUME NEW v \in Text, v.year <= MaxYear
  PROVE  rfc3339_date_check(v) <=> v.matches /\ IsDay(v)
<1>1. v.year \in Nat /\ v.month \in Nat /\ v.mday \in Nat /\ v.matches \in BOOLEAN
  BY DEF Text
<1>2. isLeapYear(v.year) <=> Leap(v.year)
  BY <1>1 DEF isLeapYear, Leap
<1>3. CASE v.month \notin 1..12
  BY <1>1, <1>3 DEF rfc3339_date_check, range_check, IsDay, Month
<1>4. CASE v.month \in 1..12
  <2> DEFINE limit == MonthLength(v.year, v.month)
  <2>1. limit = CASE v.month = 2 -> (IF isLeapYear(v.year) THEN 29 ELSE 28)
                  [] v.month # 2 /\ v.month <= 7 -> (IF v.month % 2 = 0 THEN 30 ELSE 31)
                  [] v.month > 7 -> (IF v.month % 2 = 0 THEN 31 ELSE 30)
    <3>1. \/ v.month = 1 \/ v.month = 2 \/ v.month = 3 \/ v.month = 4 \/ v.month = 5
          \/ v.month = 6 \/ v.month = 7 \/ v.month = 8 \/ v.month = 9 \/ v.month = 10
          \/ v.month = 11 \/ v.month = 12
      BY <1>4
    <3> QED
      BY <1>2, <3>1 DEF MonthLength
  <2>2. limit \in 28..31
    BY <1>4, Lengths
  <2>3. IsDay(v) <=> v.mday \in 1..limit
    BY <1>1, <1>4 DEF IsDay, Month, Year
  <2> HIDE DEF limit
  <2>4. rfc3339_date_check(v) <=> v.matches /\ v.mday \in 1..limit
    BY <1>1, <1>4, <2>1, <2>2 DEF rfc3339_date_check, range_check
  <2> QED
    BY <2>3, <2>4
<1> QED
  BY <1>3, <1>4

\* The fields of a moment.
LEMMA Fields ==
  ASSUME NEW c \in Moment
  PROVE  /\ c.year \in Year /\ c.month \in Month /\ c.mday \in MonthDay
         /\ c.minute \in Minute /\ c.second \in Second
BY DEF Moment

\* Another day at the same time.
LEMMA OtherDay ==
  ASSUME NEW c \in Moment, NEW y \in Year, NEW m \in Month, NEW d \in MonthDay
  PROVE  /\ On(c, y, m, d) \in Moment
         /\ On(c, y, m, d).year = y /\ On(c, y, m, d).month = m /\ On(c, y, m, d).mday = d
         /\ On(c, y, m, d).minute = c.minute /\ On(c, y, m, d).second = c.second
BY DEF On, Moment

\* Another time of the same day.
LEMMA OtherTime ==
  ASSUME NEW c \in Moment, NEW m \in Minute, NEW s \in Second
  PROVE  /\ At(c, m, s) \in Moment
         /\ At(c, m, s).year = c.year /\ At(c, m, s).month = c.month /\ At(c, m, s).mday = c.mday
         /\ At(c, m, s).minute = m /\ At(c, m, s).second = s
BY DEF At, Moment

\* The days before and after a day.
LEMMA Neighbours ==
  ASSUME NEW c \in Moment, IsDay(c), c.year \in 1..(MaxYear - 1)
  PROVE  /\ Tomorrow(c) \in Moment /\ IsDay(Tomorrow(c)) /\ Tomorrow(c).year \in c.year..(c.year + 1)
         /\ Yesterday(c) \in Moment /\ IsDay(Yesterday(c))
<1>1. c.year \in Year /\ c.month \in Month /\ c.mday \in MonthDay
      /\ c.mday \in 1..MonthLength(c.year, c.month)
  BY Fields DEF IsDay
<1>2. \A year : \A month \in 1..12 : MonthLength(year, month) \in 28..31
  BY Lengths
<1>3. MonthLength(c.year - 1, 12) = 31
  BY Lengths
<1>4. MaxYear \in Nat
  BY SMTT(20) DEF MaxYear
<1>5. ASSUME NEW y \in Year, NEW m \in Month, NEW d \in 1..MonthLength(y, m)
      PROVE  On(c, y, m, d) \in Moment /\ IsDay(On(c, y, m, d)) /\ On(c, y, m, d).year = y
  <2>1. d \in MonthDay
    BY <1>2 DEF Month, MonthDay
  <2>2. On(c, y, m, d) \in Moment /\ On(c, y, m, d).year = y /\ On(c, y, m, d).month = m
        /\ On(c, y, m, d).mday = d
    BY <2>1, OtherDay
  <2> QED
    BY <2>2 DEF IsDay
<1> DEFINE y == c.year
<1>6. y \in Int /\ y \in y..(y + 1) /\ y + 1 \in y..(y + 1)
  <2>1. y \in Int
    BY <1>1 DEF Year
  <2> HIDE DEF y
  <2> QED
    BY <2>1, ThisOrNext
<1>7. Tomorrow(c) \in Moment /\ IsDay(Tomorrow(c)) /\ Tomorrow(c).year \in c.year..(c.year + 1)
  <2>1. CASE c.mday < MonthLength(c.year, c.month)
    <3>1. c.mday + 1 \in 1..MonthLength(c.year, c.month)
      BY <1>1, <1>2, <2>1 DEF Month
    <3> QED
      BY <1>1, <1>5, <1>6, <2>1, <3>1 DEF Tomorrow
  <2>2. CASE ~(c.mday < MonthLength(c.year, c.month)) /\ c.month < 12
    <3>1. c.month + 1 \in Month /\ 1 \in 1..MonthLength(c.year, c.month + 1)
      BY <1>1, <1>2, <2>2 DEF Month
    <3> QED
      BY <1>1, <1>5, <1>6, <2>2, <3>1 DEF Tomorrow
  <2>3. CASE ~(c.mday < MonthLength(c.year, c.month)) /\ ~(c.month < 12)
    <3>1. c.year + 1 \in Year /\ 1 \in Month /\ MonthLength(c.year + 1, 1) \in 28..31
      BY <1>2, <1>4 DEF Year, Month
    <3>2. 1 \in 1..MonthLength(c.year + 1, 1)
      BY <3>1
    <3> QED
      BY <1>5, <1>6, <2>3, <3>1, <3>2 DEF Tomorrow
  <2> QED
    BY <2>1, <2>2, <2>3
<1>8. Yesterday(c) \in Moment /\ IsDay(Yesterday(c))
  <2>1. CASE c.mday > 1
    <3>1. c.mday - 1 \in 1..MonthLength(c.year, c.month)
      BY <1>1, <1>2, <2>1 DEF Month
    <3> QED
      BY <1>1, <1>5, <2>1, <3>1 DEF Yesterday
  <2>2. CASE ~(c.mday > 1) /\ c.month > 1
    <3>1. c.month - 1 \in Month
      BY <1>1, <2>2 DEF Month
    <3>2. MonthLength(c.year, c.month - 1) \in 1..MonthLength(c.year, c.month - 1)
      BY <1>2, <3>1 DEF Month
    <3> QED
      BY <1>1, <1>5, <2>2, <3>1, <3>2 DEF Yesterday
  <2>3. CASE ~(c.mday > 1) /\ ~(c.month > 1)
    <3>1. c.year - 1 \in Year /\ 12 \in Month /\ 31 \in 1..MonthLength(c.year - 1, 12)
      BY <1>3, <1>4 DEF Year, Month
    <3> QED
      BY <1>1, <1>5, <2>3, <3>1 DEF Yesterday
  <2> QED
    BY <2>1, <2>2, <2>3
<1> QED
  BY <1>7, <1>8
-----------------------------------------------------------------------------
(***************************************************************************)
(* The minutes of the day.                                                 *)
(***************************************************************************)

\* rfc3339_time_check() lets a leap second pass exactly in the last minute of UTC.
LEMMA SecondsAllowed ==
  ASSUME NEW v \in Text, ~Unsigned(v)
  PROVE  rfc3339_time_check(v) <=>
           /\ v.matches /\ v.hour \in Hours /\ v.minute \in Minutes
           /\ v.offsetHour \in Hours /\ v.offsetMinute \in Minutes
           /\ LET o == Ahead(v.sign, v.offsetHour, v.offsetMinute)
              IN v.second \in 0..(IF day_minutes(v.hour, v.minute, o) = 1439 THEN 60 ELSE 59)
<1>1. v.hour \in Nat /\ v.minute \in Nat /\ v.offsetHour \in Nat /\ v.offsetMinute \in Nat
      /\ v.second \in Nat /\ v.matches \in BOOLEAN
  BY DEF Text
<1> DEFINE o == Ahead(v.sign, v.offsetHour, v.offsetMinute)
           p == Offset(v.sign, v.offsetHour, v.offsetMinute)
           InRange == /\ v.hour \in Hours /\ v.minute \in Minutes
                      /\ v.offsetHour \in Hours /\ v.offsetMinute \in Minutes
           last(d) == IF d = 1439 THEN 60 ELSE 59
<1>2. InRange => last_second(day_minutes(v.hour, v.minute, p))
                   = last(day_minutes(v.hour, v.minute, o))
  <2> SUFFICES ASSUME InRange
               PROVE  last_second(day_minutes(v.hour, v.minute, p))
                        = last(day_minutes(v.hour, v.minute, o))
    OBVIOUS
  <2>1. p = o /\ o \in Offsets
    BY SignKept DEF Unsigned
  <2>2. day_minutes(v.hour, v.minute, o) \in Differences
    BY <2>1, Difference
  <2>3. last_second(day_minutes(v.hour, v.minute, o)) = last(day_minutes(v.hour, v.minute, o))
    BY <2>2, LastMinute
  <2> QED
    BY <2>1, <2>3
<1>3. rfc3339_time_check(v)
        <=> /\ v.matches /\ InRange
            /\ v.second \in 0..last_second(day_minutes(v.hour, v.minute, p))
  <2>1. last_second(day_minutes(v.hour, v.minute, p)) \in Int
    BY DEF last_second
  <2> QED
    BY <1>1, <2>1 DEF rfc3339_time_check, range_check, Hours, Minutes
<1> QED
  BY <1>2, <1>3

\* A minute of the day as hours and minutes.
LEMMA HoursAndMinutes ==
  ASSUME NEW x, x \in 0..1439
  PROVE  x \div 60 \in 0..23 /\ x % 60 \in 0..59 /\ (x \div 60) * 60 + (x % 60) = x
<1>1. x \in Int
  OBVIOUS
<1>2. x \div 60 \in 0..23
  OBVIOUS
<1>3. x % 60 \in 0..59
  OBVIOUS
<1>4. (x \div 60) * 60 + (x % 60) = x
  BY ONLY <1>1
<1> QED
  BY <1>2, <1>3, <1>4

\* Offsets added to the last minute of UTC, wrapped around.
LEMMA LastAhead == ASSUME NEW o \in Offsets PROVE (1439 + o) % 1440 = IF o > 0 THEN o - 1 ELSE 1439 + o
<1>1. CASE o > 0
  BY <1>1 DEF Offsets
<1>2. CASE o <= 0
  BY <1>2 DEF Offsets
<1> QED
  BY <1>1, <1>2 DEF Offsets

\* It is 23:59 UTC when the time is one minute before the offset or one day later.
LEMMA IsLast ==
  ASSUME NEW h \in Hours, NEW m \in Minutes, NEW o \in Offsets,
         h * 60 + m = IF o > 0 THEN o - 1 ELSE 1439 + o
  PROVE  day_minutes(h, m, o) = 1439
BY DEF Hours, Minutes, Offsets, day_minutes

\* The last minute of UTC, written in another zone, is read as the last.
LEMMA ReadBack ==
  ASSUME NEW h \in Hours, NEW m \in Minutes, NEW o \in Offsets,
         h * 60 + m = (1439 + o) % 1440
  PROVE  day_minutes(h, m, o) = 1439
<1>1. (1439 + o) % 1440 = IF o > 0 THEN o - 1 ELSE 1439 + o
  BY LastAhead
<1>2. h * 60 + m = IF o > 0 THEN o - 1 ELSE 1439 + o
  BY <1>1
<1> QED
  BY <1>2, IsLast

\* Adding the offset again gives the time.
LEMMA AddedAgain ==
  ASSUME NEW h \in Hours, NEW m \in Minutes, NEW o \in Offsets
  PROVE  ((day_minutes(h, m, o) % 1440) + o) % 1440 = h * 60 + m
BY DEF Hours, Minutes, Offsets, day_minutes

\* A minute of the day.
LEMMA Remainder == ASSUME NEW d \in Differences PROVE d % 1440 \in 0..1439
BY DEF Differences

\* A minute of UTC in which clocks in a zone show a time; the last minute if the
\* code takes it for the last.
HasUtc(h, m, o) ==
  \E k \in 0..1439 : /\ (k + o) % 1440 = h * 60 + m
                     /\ day_minutes(h, m, o) = 1439 => k = 1439

\* Every time of day in every zone belongs to a minute of UTC.
LEMMA HasMinute ==
  ASSUME NEW h \in Hours, NEW m \in Minutes, NEW o \in Offsets
  PROVE  HasUtc(h, m, o)
<1> DEFINE d == day_minutes(h, m, o)
<1>1. d \in Differences
  BY Difference
<1>2. ((d % 1440) + o) % 1440 = h * 60 + m
  BY AddedAgain
<1> HIDE DEF d
<1>3. d % 1440 \in 0..1439
  BY <1>1, Remainder
<1>4. d = 1439 => d % 1440 = 1439
  OBVIOUS
<1> QED
  BY <1>2, <1>3, <1>4, SMTT(20) DEF d, HasUtc

\* The minutes of two days and of the day before.
Shifted == (-1439)..2878

\* A minute of UTC in another zone.
LEMMA WrapDay == ASSUME NEW m \in Shifted PROVE m % 1440 \in 0..1439
BY DEF Shifted

\* No zone is a day or more ahead or behind.
LEMMA AheadBound ==
  ASSUME NEW sign, NEW h \in Hours, NEW m \in Minutes
  PROVE  Ahead(sign, h, m) \in Offsets
BY DEF Ahead, Hours, Minutes, Offsets

\* A minute of the day and an offset.
LEMMA Sum2 == ASSUME NEW k \in 0..1439, NEW o \in Offsets PROVE k + o \in Shifted
BY DEF Offsets, Shifted

\* The next minute of the day.
LEMMA NextMinute == ASSUME NEW m \in Minute, m < DayMinutes - 1 PROVE m + 1 \in Minute
BY DEF Minute, DayMinutes

\* The fields of a zone.
LEMMA ZoneFields ==
  ASSUME NEW z \in AnyZone
  PROVE  z.sign \in {"Z", "+", "-"} /\ z.offsetHour \in Hours /\ z.offsetMinute \in Minutes
BY DEF AnyZone, Hours, Minutes

\* What is written of a moment is a text of a day of the calendar and a time that the
\* checks accept, unless the sign of the offset is lost.
LEMMA WrittenRight ==
  ASSUME NEW c, IsMoment(c), c.year \in 1..(MaxYear - 1), NEW z \in AnyZone, NEW format \in Format
  PROVE  /\ Written(c, z, format) \in Text /\ Written(c, z, format).year <= MaxYear
         /\ ~Unsigned(z) => default_string_format_check(Written(c, z, format))
<1> DEFINE a == Ahead(z.sign, z.offsetHour, z.offsetMinute)
           m == c.minute + a
           d == CASE m < 0 -> Yesterday(c) [] m >= DayMinutes -> Tomorrow(c) [] OTHER -> c
           w == Written(c, z, format)
<1>1. c \in Moment /\ IsDay(c)
  BY DEF IsMoment
<1>2. z.sign \in {"Z", "+", "-"} /\ z.offsetHour \in Hours /\ z.offsetMinute \in Minutes
  BY ZoneFields
<1>3. a \in Offsets
  BY <1>2, AheadBound
<1>4. c.minute \in 0..1439 /\ c.second \in 0..60
  BY <1>1, Fields DEF Minute, Second, DayMinutes
<1>5. m \in Shifted
  <2> DEFINE k == c.minute
  <2>1. k \in 0..1439
    BY <1>4
  <2> HIDE DEF k, a
  <2>2. k + a \in Shifted
    BY <1>3, <2>1, Sum2
  <2> QED
    BY <2>2 DEF k, a
<1>6. d \in Moment /\ IsDay(d)
  BY <1>1, Neighbours
<1>7. d.year \in Year /\ d.month \in Month /\ d.mday \in MonthDay
  BY <1>6, Fields
<1> DEFINE x == m % DayMinutes
<1>8. x \in 0..1439
  BY <1>5, WrapDay, SMTT(20) DEF DayMinutes
<1>9. x \div 60 \in Hours /\ x % 60 \in Minutes /\ (x \div 60) * 60 + (x % 60) = x
  <2> HIDE DEF x
  <2> QED
    BY <1>8, HoursAndMinutes DEF Hours, Minutes
<1>10. w = [matches |-> TRUE, format |-> format,
            year |-> d.year, month |-> d.month, mday |-> d.mday,
            hour |-> x \div 60, minute |-> x % 60, second |-> c.second,
            sign |-> z.sign, offsetHour |-> z.offsetHour, offsetMinute |-> z.offsetMinute]
  BY DEF Written
<1> HIDE DEF d, x, w
<1>11. /\ w.matches = TRUE /\ w.format = format
       /\ w.year = d.year /\ w.month = d.month /\ w.mday = d.mday
       /\ w.hour = x \div 60 /\ w.minute = x % 60 /\ w.second = c.second
       /\ w.sign = z.sign /\ w.offsetHour = z.offsetHour /\ w.offsetMinute = z.offsetMinute
  BY <1>10
<1>12. w \in Text
  <2>1. d.year \in Nat /\ d.month \in Nat /\ d.mday \in Nat
    BY <1>7 DEF Year, Month, MonthDay
  <2>2. x \div 60 \in Nat /\ x % 60 \in Nat /\ c.second \in Nat
        /\ z.offsetHour \in Nat /\ z.offsetMinute \in Nat
    BY <1>2, <1>4, <1>9 DEF Hours, Minutes
  <2> QED
    BY <1>2, <1>10, <2>1, <2>2 DEF Text
<1>13. w.year <= MaxYear
  <2>1. w.year \in 0..MaxYear
    BY <1>7, <1>11 DEF Year
  <2> QED
    BY <2>1, Years
<1>14. rfc3339_date_check(w)
  <2>1. IsDay(w)
    BY <1>6, <1>11 DEF IsDay
  <2> QED
    BY <1>11, <1>12, <1>13, <2>1, SameDays
<1>15. ~Unsigned(z) => rfc3339_time_check(w)
  <2> SUFFICES ASSUME ~Unsigned(z) PROVE rfc3339_time_check(w)
    OBVIOUS
  <2>1. ~Unsigned(w)
    BY <1>11 DEF Unsigned
  <2>2. c.second = 60 => day_minutes(w.hour, w.minute, a) = 1439
    <3> SUFFICES ASSUME c.second = 60 PROVE day_minutes(w.hour, w.minute, a) = 1439
      OBVIOUS
    <3>1. c.minute = 1439
      BY DEF IsMoment, DayMinutes
    <3>2. w.hour * 60 + w.minute = (1439 + a) % 1440
      BY <1>9, <1>11, <3>1 DEF x, DayMinutes
    <3>3. w.hour \in Hours /\ w.minute \in Minutes
      BY <1>9, <1>11
    <3> HIDE DEF a
    <3> QED
      BY <1>3, <3>2, <3>3, ReadBack
  <2>3. w.second \in 0..(IF day_minutes(w.hour, w.minute, a) = 1439 THEN 60 ELSE 59)
    BY <1>4, <1>11, <2>2
  <2> QED
    BY <1>2, <1>9, <1>11, <1>12, <2>1, <2>3, SecondsAllowed
<1>16. ~Unsigned(z) => default_string_format_check(w)
  <2>1. w.format = "date" \/ w.format = "time" \/ w.format = "date-time"
    BY <1>11 DEF Format
  <2> QED
    BY <1>11, <1>14, <1>15, <2>1 DEF default_string_format_check, rfc3339_date_time_check
<1> QED
  BY <1>12, <1>13, <1>16 DEF w
-----------------------------------------------------------------------------
(***************************************************************************)
(* The invariant.                                                          *)
(***************************************************************************)

\* The clock shows moments of the calendar.
LEMMA TickRight ==
  ASSUME IInv, Tick
  PROVE  IsMoment(clock') /\ clock'.year \in 1..(LastYear + 1)
<1>1. clock \in Moment /\ IsDay(clock) /\ clock.year \in 1..LastYear
  BY DEF IInv, IsMoment, Tick
<1>2. clock.minute \in Minute /\ clock.second \in Second
  BY <1>1, Fields
<1>3. ASSUME NEW m \in Minute, NEW s \in Second, clock' = At(clock, m, s),
             s = 60 => m = DayMinutes - 1
      PROVE  IsMoment(clock') /\ clock'.year \in 1..(LastYear + 1)
  <2>1. /\ clock' \in Moment /\ clock'.year = clock.year /\ clock'.month = clock.month
        /\ clock'.mday = clock.mday /\ clock'.minute = m /\ clock'.second = s
    BY <1>1, <1>3, OtherTime
  <2>2. clock.year \in 1..(LastYear + 1)
    BY <1>1, TimeAssumption
  <2> QED
    BY <1>1, <1>3, <2>1, <2>2 DEF IsMoment, IsDay
<1>4. CASE clock' = At(clock, clock.minute, 59)
  BY <1>2, <1>3, <1>4 DEF Second
<1>5. CASE clock.minute = DayMinutes - 1 /\ clock' = At(clock, clock.minute, 60)
  BY <1>2, <1>3, <1>5 DEF Second
<1>6. CASE clock.minute < DayMinutes - 1 /\ clock' = At(clock, clock.minute + 1, 0)
  <2>1. clock.minute + 1 \in Minute
    BY <1>2, <1>6, NextMinute
  <2> QED
    BY <1>3, <1>6, <2>1 DEF Second
<1>7. CASE clock' = At(Tomorrow(clock), 0, 0)
  <2>1. clock.year \in 1..(MaxYear - 1)
    BY <1>1, Years
  <2>2. Tomorrow(clock) \in Moment /\ IsDay(Tomorrow(clock))
        /\ Tomorrow(clock).year \in clock.year..(clock.year + 1)
    BY <1>1, <2>1, Neighbours
  <2> DEFINE t == Tomorrow(clock)
  <2>3. t.year \in 1..(LastYear + 1)
    <3> DEFINE y == t.year
    <3>1. y \in clock.year..(clock.year + 1)
      BY <2>2
    <3> HIDE DEF y
    <3> QED
      BY <1>1, <3>1, TimeAssumption DEF y
  <2> HIDE DEF t
  <2>4. 0 \in Minute /\ 0 \in Second
    BY DEF Minute, Second, DayMinutes
  <2>5. /\ clock' \in Moment /\ clock'.year = t.year /\ clock'.month = t.month
        /\ clock'.mday = t.mday /\ clock'.second = 0
    BY <1>7, <2>2, <2>4, OtherTime DEF t
  <2> QED
    BY <2>2, <2>3, <2>5 DEF t, IsMoment, IsDay
<1> QED
  BY <1>4, <1>5, <1>6, <1>7 DEF Tick

\* A slip leaves a text.
LEMMA SlipRight ==
  ASSUME NEW t \in Text, t.year <= MaxYear, NEW s \in Slip,
         t[s.field] + s.by \in 0..(IF s.field = "year" THEN MaxYear ELSE 99)
  PROVE  /\ [t EXCEPT ![s.field] = @ + s.by] \in Text
         /\ [t EXCEPT ![s.field] = @ + s.by].year <= MaxYear
<1> DEFINE n == t[s.field] + s.by
<1>1. s.field \in {"year", "month", "mday", "hour", "minute", "second",
                   "offsetHour", "offsetMinute"}
  BY TimeAssumption
<1>2. n \in Nat /\ (s.field = "year" => n <= MaxYear)
  BY <1>1 DEF MaxYear
<1> HIDE DEF n
<1>4. CASE s.field = "year"
  BY <1>2, <1>4 DEF Text
<1>5. CASE s.field = "month"
  BY <1>2, <1>5 DEF Text
<1>6. CASE s.field = "mday"
  BY <1>2, <1>6 DEF Text
<1>7. CASE s.field = "hour"
  BY <1>2, <1>7 DEF Text
<1>8. CASE s.field = "minute"
  BY <1>2, <1>8 DEF Text
<1>9. CASE s.field = "second"
  BY <1>2, <1>9 DEF Text
<1>10. CASE s.field = "offsetHour"
  BY <1>2, <1>10 DEF Text
<1>11. CASE s.field = "offsetMinute"
  BY <1>2, <1>11 DEF Text
<1> QED
  BY <1>1, <1>4, <1>5, <1>6, <1>7, <1>8, <1>9, <1>10, <1>11

\* The clock and the text are what they should be, and the verdict is of the text.
LEMMA Inductive == Spec => []IInv
<1>1. ASSUME NEW c, IsMoment(c), c.year \in 1..(LastYear + 1), NEW z \in Zone, NEW format \in Format
      PROVE  Written(c, z, format) \in Text /\ Written(c, z, format).year <= MaxYear
  <2>1. c.year \in 1..(MaxYear - 1)
    BY <1>1, Years
  <2>2. z \in AnyZone
    BY TimeAssumption
  <2> QED
    BY <1>1, <2>1, <2>2, WrittenRight
<1>2. Init => IInv
  <2> SUFFICES ASSUME Init PROVE IInv
    OBVIOUS
  <2>1. IsMoment(clock) /\ clock.year \in 1..(LastYear + 1)
    BY TimeAssumption DEF Init
  <2>2. text \in Text /\ text.year <= MaxYear
    BY <1>1, <2>1 DEF Init
  <2> QED
    BY <2>1, <2>2 DEF Init, IInv, Verdict
<1>3. IInv /\ [Next]_vars => IInv'
  <2> SUFFICES ASSUME IInv, [Next]_vars PROVE IInv'
    OBVIOUS
  <2>1. CASE Tick
    <3>1. IsMoment(clock') /\ clock'.year \in 1..(LastYear + 1)
      BY <2>1, TickRight
    <3>2. text' = text /\ verdict' = verdict
      BY <2>1 DEF Tick
    <3> QED
      BY <3>1, <3>2 DEF IInv
  <2>2. ASSUME NEW z \in Zone, NEW format \in Format, Write(z, format) PROVE IInv'
    <3>1. text' \in Text /\ text'.year <= MaxYear
      BY <1>1, <2>2 DEF Write, IInv
    <3> QED
      BY <2>2, <3>1 DEF Write, IInv, Verdict
  <2>3. CASE Misspell
    <3>2. ASSUME NEW s \in Slip,
                 text[s.field] + s.by \in 0..(IF s.field = "year" THEN MaxYear ELSE 99),
                 text' = [text EXCEPT ![s.field] = @ + s.by]
          PROVE  text' \in Text /\ text'.year <= MaxYear
      BY <3>2, SlipRight DEF IInv
    <3>3. text' \in Text /\ text'.year <= MaxYear
      <4>1. CASE text' = [text EXCEPT !.matches = FALSE]
        BY <4>1 DEF IInv, Text
      <4> QED
        BY <2>3, <3>2, <4>1 DEF Misspell
    <3> QED
      BY <2>3, <3>3 DEF Misspell, IInv, Verdict
  <2>4. CASE Check
    BY <2>4 DEF Check, IInv, Verdict
  <2>5. CASE UNCHANGED vars
    BY <2>5 DEF vars, IInv
  <2> QED
    BY <2>1, <2>2, <2>3, <2>4, <2>5 DEF Next
<1> QED
  BY <1>2, <1>3, PTL DEF Spec

\* Where no zone is less than an hour behind UTC, whatever the clock shows is accepted:
\* default_string_format_check() has no false negatives.
THEOREM NeverFalselyRejected ==
  ASSUME SignedZones
  PROVE  Spec => []NoFalseNegatives
<1>1. IInv => NoFalseNegatives
  <2> SUFFICES ASSUME IInv, NEW z \in Zone, NEW format \in Format,
                      text = Written(clock, z, format)
               PROVE  default_string_format_check(text)
    BY DEF NoFalseNegatives, Denotes, IInv
  <2>1. z \in AnyZone /\ ~Unsigned(z)
    BY TimeAssumption DEF SignedZones
  <2>2. clock.year \in 1..(MaxYear - 1)
    BY Years DEF IInv
  <2> QED
    BY <2>1, <2>2, WrittenRight DEF IInv
<1> QED
  BY <1>1, Inductive, PTL

\* What is accepted is a day of the calendar and a time that clocks show, for a leap
\* second in the last minute of UTC.
THEOREM OnlyMomentsAccepted == Spec => []AcceptsOnlyMoments
<1>1. IInv => AcceptsOnlyMoments
  <2> SUFFICES ASSUME IInv, verdict = "valid", ~Unsigned(text) PROVE AcceptsOnlyMoments
    BY DEF AcceptsOnlyMoments
  <2>1. text \in Text /\ text.year <= MaxYear /\ default_string_format_check(text)
    BY DEF IInv
  <2>2. text.format = "date" \/ text.format = "time" \/ text.format = "date-time"
    BY <2>1 DEF Text, Format
  <2>3. text.format # "time" => rfc3339_date_check(text)
    BY <2>1, <2>2 DEF default_string_format_check, rfc3339_date_time_check
  <2>4. text.format # "date" => rfc3339_time_check(text)
    BY <2>1, <2>2 DEF default_string_format_check, rfc3339_date_time_check
  <2>5. text.matches
    BY <2>3, <2>4, <2>2 DEF rfc3339_date_check, rfc3339_time_check
  <2>6. text.format # "time" => IsDay(text)
    BY <2>1, <2>3, SameDays
  <2>7. ASSUME text.format # "date"
        PROVE  /\ text.hour \in 0..23 /\ text.minute \in 0..59 /\ text.second \in 0..60
               /\ text.offsetHour \in 0..23 /\ text.offsetMinute \in 0..59
               /\ \E m \in Minute :
                    /\ (m + Ahead(text.sign, text.offsetHour, text.offsetMinute)) % DayMinutes
                         = text.hour * 60 + text.minute
                    /\ text.second = 60 => m = DayMinutes - 1
    <3> DEFINE o == Ahead(text.sign, text.offsetHour, text.offsetMinute)
               h == text.hour
               n == text.minute
               d == day_minutes(h, n, o)
    <3>1. /\ h \in Hours /\ n \in Minutes
          /\ text.offsetHour \in Hours /\ text.offsetMinute \in Minutes
          /\ text.second \in 0..(IF d = 1439 THEN 60 ELSE 59)
      BY <2>1, <2>4, <2>7, SecondsAllowed
    <3>2. o \in Offsets
      BY <3>1, AheadBound
    <3> HIDE DEF o
    <3> HIDE DEF h, n
    <3>3. HasUtc(h, n, o)
      BY <3>1, <3>2, HasMinute
    <3>4. PICK k \in 0..1439 : /\ (k + o) % 1440 = h * 60 + n
                               /\ d = 1439 => k = 1439
      BY <3>3, SMTT(20) DEF HasUtc
    <3> HIDE DEF d
    <3>5. text.second \in 0..60 /\ (text.second = 60 => d = 1439)
      BY <3>1
    <3>6. k \in Minute /\ (k + o) % DayMinutes = h * 60 + n
          /\ (text.second = 60 => k = DayMinutes - 1)
      BY <3>4, <3>5 DEF Minute, DayMinutes
    <3> QED
      BY <3>1, <3>5, <3>6 DEF h, n, o, Hours, Minutes
  <2> QED
    BY <2>5, <2>6, <2>7 DEF AcceptsOnlyMoments
<1> QED
  BY <1>1, Inductive, PTL
=============================================================================
