------------------------------- MODULE MCTimes -------------------------------
(***************************************************************************)
(* Clocks set shortly before the ends of months and of a day in between,   *)
(* in common years, leap years and the two kinds of centuries.             *)
(***************************************************************************)
EXTENDS TimeFormat

Before(year, month, mday) ==
  [year |-> year, month |-> month, mday |-> mday, minute |-> 1438, second |-> 59]
Starts == {Before(1900, 2, 28), Before(2000, 2, 28), Before(2000, 2, 29), Before(2019, 2, 28),
           Before(2019, 4, 30), Before(2019, 7, 31), Before(2020, 12, 31), Before(2020, 8, 15)}
LastMinutes == {1438, 1439, 0}

Offset_(sign, hour, minute) == [sign |-> sign, offsetHour |-> hour, offsetMinute |-> minute]
SomeZones == {Offset_("Z", 0, 0), Offset_("-", 0, 0), Offset_("+", 0, 20), Offset_("-", 8, 0),
              Offset_("-", 1, 30), Offset_("+", 1, 0), Offset_("+", 23, 59), Offset_("-", 23, 59)}
BehindByMinutes == {Offset_("-", 0, 30)}

By(field, n) == [field |-> field, by |-> n]
Slips == {By("year", 1), By("month", 1), By("month", -1), By("month", -12), By("mday", 1),
          By("mday", -31), By("hour", 1), By("hour", 24), By("minute", 1), By("minute", 60),
          By("second", 1), By("second", 2), By("offsetHour", 1), By("offsetMinute", 1),
          By("offsetMinute", 40)}
NoSlips == {}
=============================================================================
