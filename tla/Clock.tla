------------------------------- MODULE Clock -------------------------------
(***************************************************************************)
(* The calendar of the label (clock.c): seconds since the first of January *)
(* 2000 to a date and back, the day of the week, and which of the          *)
(* callbacks a tick of the clock calls.  A UTCTime is kept as its days and *)
(* the seconds left, because its unsigned 32 bits are more than TLC has.   *)
(***************************************************************************)
EXTENDS Integers, FiniteSets

CONSTANT CheckedDays   \* the days, from 2000-01-01 on, that are compared

\* A UTCTime of 32 bits reaches no further.
LastDays == 49710

ASSUME ClockAssumption == \A d \in CheckedDays : d \in Nat /\ d < LastDays

DAY == 86400

UTCTime(days, left) == [days |-> days, left |-> left]

BEGYEAR == 2000

IsLeapYear(yr) == (yr % 400 = 0) \/ (yr % 100 # 0 /\ yr % 4 = 0)

YearLength(yr) == IF IsLeapYear(yr) THEN 366 ELSE 365

\* Slip: the second half of the year is shifted a month late.
monthLength_Later(leap, mon) ==
    IF mon = 1 THEN IF leap THEN 29 ELSE 28
    ELSE IF (IF mon > 7 THEN mon - 1 ELSE mon) % 2 = 1 THEN 30 ELSE 31

\* Months count from 0.
monthLength(leap, mon) ==
    IF mon = 1 THEN IF leap THEN 29 ELSE 28
    ELSE IF (IF mon > 6 THEN mon - 1 ELSE mon) % 2 = 1 THEN 30 ELSE 31

\* Days from the first of a year on, and from the first of a month on.
YearAndDays == [year : Nat, days : Nat]
MonthAndDays == [leap : BOOLEAN, month : Nat, days : Nat]

LastYear == {t \in YearAndDays : t.days < YearLength(t.year)}
LastMonth == {t \in MonthAndDays : t.days < monthLength(t.leap, t.month)}

\* The loop over the years, ...
InYear[t \in YearAndDays] ==
    IF t \in LastYear THEN t
    ELSE InYear[[year |-> t.year + 1, days |-> t.days - YearLength(t.year)]]

\* ... and that over the months of a year.
InMonth[t \in MonthAndDays] ==
    IF t \in LastMonth THEN t
    ELSE InMonth[[leap |-> t.leap, month |-> t.month + 1,
                  days |-> t.days - monthLength(t.leap, t.month)]]

UINT16 == 65536

ConvertToUTCTime(secTime) ==
    LET left == secTime.left
        y == InYear[[year |-> BEGYEAR, days |-> secTime.days % UINT16]]
        m == InMonth[[leap |-> IsLeapYear(y.year), month |-> 0, days |-> y.days]]
    IN  [year |-> y.year, month |-> m.month, day |-> m.days, hour |-> left \div 3600,
         minutes |-> (left % 3600) \div 60, seconds |-> left % 60]

\* Month and day from 1, for the callers.
get_clock_time(secTime) ==
    LET tm == ConvertToUTCTime(secTime)
    IN  [year |-> tm.year, month |-> tm.month + 1, day |-> tm.day + 1,
         hour |-> tm.hour, minutes |-> tm.minutes, seconds |-> tm.seconds]

DaysOfMonths(leap, n) ==
    LET days[k \in Nat] == IF k = 0 THEN 0 ELSE monthLength(leap, k - 1) + days[k - 1]
    IN  days[n]

DaysOfYears[n \in Nat] ==
    IF n = 0 THEN 0 ELSE YearLength(n - 1 + 2000) + DaysOfYears[n - 1]

\* Here years count from 2000.
convert_time_to_Second(tm) ==
    UTCTime(tm.day - 1 + DaysOfMonths(IsLeapYear(tm.year + 2000), tm.month - 1)
                + DaysOfYears[tm.year],
            tm.seconds + tm.minutes * 60 + tm.hour * 3600)

Weekdays == <<"Mon", "Tues", "Wed", "Thur", "Fri", "Sat", "Sun">>

\* SYSTEM_ORIGIN_DAY_OF_WEEK: the first of January 2000 was a Saturday.
get_day_of_week(secTime) == Weekdays[1 + (((secTime.days % 7) + 5) % 7)]

\* The callbacks that update_clock calls besides the second's, for the dates
\* of two ticks.
Updates(old, new) ==
    {f \in {"minutes", "hour", "day", "month", "year"} : old[f] # new[f]}

-----------------------------------------------------------------------------
(* A calendar to compare with: the day after a day, and the weekday from   *)
(* the count of days by Zeller's rule.                                     *)

LastDay(yr, mon) ==
    CASE mon \in {4, 6, 9, 11} -> 30
      [] mon = 2 /\ yr % 4 = 0 /\ yr # 2100 -> 29
      [] mon = 2 /\ (yr % 4 # 0 \/ yr = 2100) -> 28
      [] OTHER -> 31

Midnight(year, month, day) ==
    [year |-> year, month |-> month, day |-> day, hour |-> 0, minutes |-> 0, seconds |-> 0]

DayAfter(d) ==
    CASE d.day < LastDay(d.year, d.month) -> Midnight(d.year, d.month, d.day + 1)
      [] d.day = LastDay(d.year, d.month) /\ d.month < 12 -> Midnight(d.year, d.month + 1, 1)
      [] OTHER -> Midnight(d.year + 1, 1, 1)

Zeller(d) ==
    LET m == IF d.month < 3 THEN d.month + 12 ELSE d.month
        y == IF d.month < 3 THEN d.year - 1 ELSE d.year
        h == (d.day + (13 * (m + 1)) \div 5 + (y % 100) + (y % 100) \div 4
              + (y \div 100) \div 4 + 5 * (y \div 100)) % 7
    IN  Weekdays[1 + ((h + 5) % 7)]

\* A callback is called only together with those of the smaller units.
UpdatesNested(old, new) ==
    Updates(get_clock_time(old), get_clock_time(new)) \in
        {{}, {"minutes"}, {"minutes", "hour"}, {"minutes", "hour", "day"},
         {"minutes", "hour", "day", "month"}, {"minutes", "hour", "day", "month", "year"}}

\* The calendar agrees with the one to compare with on every checked day: the
\* first day, the day after each day, the weekday, the way back to seconds at
\* the turn of an hour, and the callbacks at the turn of a minute, an hour and
\* a day.
CalendarRight ==
    /\ get_clock_time(UTCTime(0, 0)) = Midnight(2000, 1, 1)
    /\ \A d \in CheckedDays :
          LET today == get_clock_time(UTCTime(d, 0))
          IN  /\ get_clock_time(UTCTime(d + 1, 0)) = DayAfter(today)
              /\ get_day_of_week(UTCTime(d, DAY - 1)) = Zeller(today)
              /\ \A left \in {0, 3599, 3600, DAY - 1} :
                    LET tm == get_clock_time(UTCTime(d, left))
                    IN  convert_time_to_Second([tm EXCEPT !.year = @ - 2000]) = UTCTime(d, left)
              /\ UpdatesNested(UTCTime(d, DAY - 1), UTCTime(d + 1, 0))
              /\ \A left \in {58, 59, 3598, 3599} :
                    UpdatesNested(UTCTime(d, left), UTCTime(d, left + 1))

=============================================================================
