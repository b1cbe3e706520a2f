------------------------------ MODULE Calendar ------------------------------
(***************************************************************************)
(* The dates and times of PgDatetime against the Gregorian calendar.  A    *)
(* case under test is a date, which walks day by day from one that is      *)
(* known, or an instant, which is written and read back.                   *)
(***************************************************************************)
EXTENDS PgDatetime, Sequences

CONSTANTS
    Anchors,    \* known dates: [days, year, month, day]
    Walk,       \* bound: days walked from each of them, in both directions
    Instants    \* the micros and offsets tested

\* The Gregorian calendar.
Leap(y) == y % 4 = 0 /\ (y % 100 # 0 \/ y % 400 = 0)
MonthDays(y, m) == IF m = 2 THEN IF Leap(y) THEN 29 ELSE 28
                   ELSE IF m \in {4, 6, 9, 11} THEN 30 ELSE 31

IsDate(d) == /\ d.year \in Int /\ d.month \in 1..12
             /\ d.day \in 1..MonthDays(d.year, d.month)

\* How many days begin before a date: since the year 0, and since the epoch.
LeapsBefore(y) == (y + 3) \div 4 - (y + 99) \div 100 + (y + 399) \div 400
MonthStart == <<0, 31, 59, 90, 120, 151, 181, 212, 243, 273, 304, 334>>
LeapDay(y, m) == IF Leap(y) /\ m > 2 THEN 1 ELSE 0

DaysBefore(d) ==
    365 * d.year + LeapsBefore(d.year)
    + MonthStart[d.month] + LeapDay(d.year, d.month) + d.day - 1

Epoch == [year |-> 2000, month |-> 1, day |-> 1]

DayNumber(d) == DaysBefore(d) - DaysBefore(Epoch)

\* One day at a time.
NextDay(d) ==
    IF d.day < MonthDays(d.year, d.month) THEN [d EXCEPT !.day = @ + 1]
    ELSE IF d.month < 12 THEN [d EXCEPT !.day = 1, !.month = @ + 1]
    ELSE [d EXCEPT !.day = 1, !.month = 1, !.year = @ + 1]

DayBefore(d) ==
    IF d.day > 1 THEN [d EXCEPT !.day = @ - 1]
    ELSE IF d.month > 1
      THEN [d EXCEPT !.month = @ - 1, !.day = MonthDays(d.year, d.month - 1)]
      ELSE [d EXCEPT !.day = 31, !.month = 12, !.year = @ - 1]

\* The known dates are dates, and the walks stay clear of the infinities.
ASSUME CalendarAssumption ==
    /\ Second \in Nat \ {0} /\ Walk \in Nat /\ Instants \subseteq Int
    /\ MinDays \in Int /\ MaxDays \in Int
    /\ \A a \in Anchors :
          /\ a \in [days : Int, year : Int, month : 1..12, day : 1..31]
          /\ IsDate(a) /\ a.days = DayNumber(a)
          /\ MinDays < a.days - Walk /\ a.days + Walk < MaxDays

----------------------------------------------------------------------------
VARIABLE case

DateCase ==
    \E a \in Anchors, step \in {-1, 1} :
        case = [what |-> "date", on |-> a, step |-> step, left |-> Walk]

InstantCase ==
    \E m \in Instants, w \in Instants :
        case = [what |-> "instant", micros |-> m, west |-> w]

WalkOn ==
    /\ case.what = "date" /\ case.left > 0
    /\ LET d == IF case.step = 1 THEN NextDay(case.on) ELSE DayBefore(case.on)
       IN case' = [case EXCEPT !.on = [d EXCEPT !.days = @ + case.step],
                               !.left = @ - 1]

----------------------------------------------------------------------------
\* Every date PostgreSQL can send is written as the Gregorian calendar has
\* it: across leap days, centuries and eras, before the year 1 and at the end
\* of the range, where a day is one later than the day before.
CalendarIsGregorian ==
    case.what = "date" =>
        Date(case.on.days) = [sign |-> Sign(case.on.year), year |-> case.on.year,
                              month |-> case.on.month, day |-> case.on.day]

\* A time and a timestamp can be read back to the instant they were written
\* for, before the epoch as after it, and only midnight at the end of a day
\* is 24:00:00; with a zone, the time is the same and the zone, of less than 16
\* hours either way, is written with the sign of the east.
MicrosOf(t) ==
    ((t.hour * 60 + t.minute) * 60 + t.second) * Second + t.fraction

InstantsReadBack ==
    case.what = "instant" =>
        LET m == case.micros
            t == Time(m)
            s == Timestamp(m)
            z == TimeTz(m, case.west)
        IN /\ IF m \in 0..Day
                THEN /\ MicrosOf(t) = m
                     /\ t.minute < 60 /\ t.second < 60 /\ t.fraction < Second
                     /\ t.hour = 24 => m = Day
                ELSE t = OutOfRange
           /\ m \notin {MinMicros, MaxMicros} =>
                /\ IsDate(s.date)
                /\ DayNumber(s.date) * Day + MicrosOf(s.time) = m
                /\ s.time.hour < 24
           /\ IF m \in 0..Day /\ -(16 * 3600) < case.west /\ case.west < 16 * 3600
                THEN LET east == (z.hours * 60 + z.minutes) * 60 + z.seconds
                     IN /\ z.time = t /\ z.minutes < 60 /\ z.seconds < 60
                        /\ (IF z.sign = "-" THEN -east ELSE east) = -case.west
                ELSE z = OutOfRange
=============================================================================
