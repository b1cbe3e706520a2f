----------------------------- MODULE PgDatetime -----------------------------
(***************************************************************************)
(* sqlx_pg_datetime.rs: PostgreSQL's binary dates and times, which count   *)
(* days and microseconds from 2000-01-01.  A text is the record of its     *)
(* fields; how many digits a field gets is left out.  The integers of the  *)
(* code are wide enough for every operation here (i32 days as i64).        *)
(***************************************************************************)
EXTENDS Integers

CONSTANTS
    Second,     \* micros in a second, 1000000 in the code
    MaxDays,    \* i32::MAX
    MinDays,    \* i32::MIN
    MaxMicros,  \* i64::MAX
    MinMicros   \* i64::MIN

Day == 24 * 3600 * Second

\* In 0..9999 a year has no sign.
Sign(year) == IF year < 0 THEN "-" ELSE IF year > 9999 THEN "+" ELSE ""

\* As if the remainder of a century took no notice of its leap day.
CivilDateDriftsByCentury(days) ==
    LET z   == days + 10957 + 719468
        era == z \div 146097
        doe == z % 146097
        yoe == (doe - doe \div 1460 + doe \div 36524) \div 365
        doy == doe - (365 * yoe + yoe \div 4 - yoe \div 100)
        mp  == (5 * doy + 2) \div 153
        month == IF mp < 10 THEN mp + 3 ELSE mp - 9
        year == yoe + era * 400 + (IF month <= 2 THEN 1 ELSE 0)
    IN [sign |-> Sign(year), year |-> year, month |-> month,
        day |-> doy - (153 * mp + 2) \div 5 + 1]

\* \div and % are Euclidean, as div_euclid and rem_euclid are; where the code
\* has / its operands are not negative.
CivilDate(days) ==
    LET z   == days + 10957 + 719468
        era == z \div 146097
        doe == z % 146097
        yoe == (doe - doe \div 1460 + doe \div 36524 - doe \div 146096) \div 365
        doy == doe - (365 * yoe + yoe \div 4 - yoe \div 100)
        mp  == (5 * doy + 2) \div 153
        month == IF mp < 10 THEN mp + 3 ELSE mp - 9
        year == yoe + era * 400 + (IF month <= 2 THEN 1 ELSE 0)
    IN [sign |-> Sign(year), year |-> year, month |-> month,
        day |-> doy - (153 * mp + 2) \div 5 + 1]

Infinity(sign) == [sign |-> sign, year |-> "infinity"]

Date(days) == IF days = MaxDays THEN Infinity("")
              ELSE IF days = MinDays THEN Infinity("-")
              ELSE CivilDate(days)

OutOfRange == [error |-> "out of range"]

\* 24:00:00 is a time.
Time(micros) ==
    IF micros \notin 0..Day THEN OutOfRange
    ELSE LET seconds == micros \div Second
         IN [hour |-> seconds \div 3600, minute |-> (seconds \div 60) % 60,
             second |-> seconds % 60, fraction |-> micros % Second]

\* As if the division rounded towards zero.
TimestampTruncates(micros) ==
    IF micros = MaxMicros THEN Infinity("")
    ELSE IF micros = MinMicros THEN Infinity("-")
    ELSE LET days == IF micros < 0 THEN -((-micros) \div Day) ELSE micros \div Day
         IN [date |-> CivilDate(days), time |-> Time(micros % Day)]

Timestamp(micros) ==
    IF micros = MaxMicros THEN Infinity("")
    ELSE IF micros = MinMicros THEN Infinity("-")
    ELSE [date |-> CivilDate(micros \div Day), time |-> Time(micros % Day)]

\* PostgreSQL counts offsets towards the west, the text towards the east.
TimeTz(micros, west) ==
    IF west \notin -57599..57599 \/ Time(micros) = OutOfRange THEN OutOfRange
    ELSE LET offset == IF west < 0 THEN -west ELSE west
         IN [time |-> Time(micros), sign |-> IF west > 0 THEN "-" ELSE "+",
             hours |-> offset \div 3600, minutes |-> (offset \div 60) % 60,
             seconds |-> offset % 60]
=============================================================================
