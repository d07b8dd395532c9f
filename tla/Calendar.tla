------------------------------- MODULE Calendar -------------------------------
(***************************************************************************)
(* The dates in the names of backups and in the log: civil_from_days       *)
(* (native-host/src/migration.rs), in whole numbers.                       *)
(***************************************************************************)
EXTENDS Integers

\* From days since 1970-01-01 to <<year, month, day>>.
CivilFromDays(days) ==
    LET z   == days + 719468
        era == z \div 146097
        doe == z % 146097
        yoe == (doe - doe \div 1460 + doe \div 36524 - doe \div 146096) \div 365
        doy == doe - (365 * yoe + yoe \div 4 - yoe \div 100)
        mp  == (5 * doy + 2) \div 153
        m   == IF mp < 10 THEN mp + 3 ELSE mp - 9
    IN  <<yoe + era * 400 + (IF m <= 2 THEN 1 ELSE 0), m,
          doy - (153 * mp + 2) \div 5 + 1>>

------------------------------------------------------------------------------
\* The Gregorian calendar, said by its rules.
Leap(y) == y % 4 = 0 /\ (y % 100 # 0 \/ y % 400 = 0)

MonthLength(y, m) ==
    IF m = 2 THEN (IF Leap(y) THEN 29 ELSE 28)
    ELSE IF m \in {4, 6, 9, 11} THEN 30 ELSE 31

Tomorrow(date) ==
    LET y == date[1]  m == date[2]  d == date[3] IN
    IF d < MonthLength(y, m) THEN <<y, m, d + 1>>
    ELSE IF m < 12 THEN <<y, m + 1, 1>> ELSE <<y + 1, 1, 1>>

Cycle == 146097   \* the days of 400 years

\* Day by day from the start of the epoch, for as many days.
FollowsTheCalendar(days) ==
    /\ CivilFromDays(0) = <<1970, 1, 1>>
    /\ \A n \in 0..days - 1 : CivilFromDays(n + 1) = Tomorrow(CivilFromDays(n))
==============================================================================
