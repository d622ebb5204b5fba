------------------------------ MODULE Calendar ------------------------------
(***************************************************************************)
(* Which row of which table a time belongs to.  Time is counted in slots   *)
(* of five minutes, and the row of a time is the number of its hour, day,  *)
(* month or year: the strings of db_get_date_generator, made comparable.   *)
(* Months have one length here, and there is one time zone.                *)
(***************************************************************************)
EXTENDS Integers

CONSTANTS
    FivesPerHour,   \* 12
    HoursPerDay,    \* 24
    DaysPerMonth,   \* about 30
    MonthsPerYear   \* 12

ASSUME CalendarAssumption ==
    /\ FivesPerHour \in Nat \ {0}
    /\ HoursPerDay \in Nat \ {0}
    /\ DaysPerMonth \in Nat \ {0}
    /\ MonthsPerYear \in Nat \ {0}

Dated == {"fiveminute", "hour", "day", "month", "year"}
Table == Dated \cup {"top"}

Hour(s) == s \div FivesPerHour
Day(s)  == Hour(s) \div HoursPerDay

getcurrenthour(s) == Hour(s) % HoursPerDay

(* MonthRotate moves the first day of a month, and of a year as well if    *)
(* MonthRotateAffectsYears says so; data that is imported ("direct") is    *)
(* stored under the date it has.                                           *)
Rotation(settings, direct) == IF direct THEN 0 ELSE settings.monthrotate - 1

MonthOfDay(day) == day \div DaysPerMonth
YearOfDay(day)  == MonthOfDay(day) \div MonthsPerYear

db_get_date_generator(settings, table, direct, s) ==
    CASE table = "fiveminute"      -> s
      [] table = "hour"            -> Hour(s)
      [] table \in {"day", "top"}  -> Day(s)
      [] table = "month"           -> MonthOfDay(Day(s) - Rotation(settings, direct))
      [] table = "year"            ->
            YearOfDay(Day(s) - IF settings.monthrotateyears
                               THEN Rotation(settings, direct) ELSE 0)
=============================================================================
