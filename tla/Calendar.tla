------------------------------ MODULE Calendar ------------------------------
(***************************************************************************)
(* The conversion of a time to a date (e4__usize_togmt of                  *)
(* core/src/util/usize.c).  The time of day is left out: a time is a       *)
(* number of days since 1 January 1970.  The code counts from 1 March 2000 *)
(* and, before that day, counts backwards.                                 *)
(***************************************************************************)
EXTENDS Integers, Sequences

days_per_fyear == 365 * 4 + 1
days_per_cent  == 25 * days_per_fyear - 1
days_per_qcent == days_per_cent * 4 + 1
month_days     == <<31, 30, 31, 30, 31, 31, 30, 31, 30, 31, 31, 29>>  \* from March

\* Before[k] is the number of days before the k-th month of a year from March.
Before[k \in 1..13] == IF k = 1 THEN 0 ELSE Before[k - 1] + month_days[k - 1]

\* The month that holds a day of a year from March; 13 after its last day.
\* Fault: the last day of a month is put into the next.
MonthOf_Early(day) ==
  CHOOSE k \in 1..13 : Before[k] <= day + 1 /\ (k <= 12 => day + 1 < Before[k + 1])
MonthOf(day) ==
  CHOOSE k \in 1..13 : Before[k] <= day /\ (k <= 12 => day < Before[k + 1])

togmt(t) ==
  LET negated == t < 11017
      n      == IF negated THEN 11017 - t ELSE t - 11017
      rest   == n % days_per_qcent
      qcents == n \div days_per_qcent
      cents  == rest \div days_per_cent
      fyears == (rest % days_per_cent) \div days_per_fyear
      days   == (rest % days_per_cent) % days_per_fyear
      years  == days \div 365 + 4 * fyears + 100 * cents + 400 * qcents
      year   == 2000 + (IF negated THEN -(years + 1) ELSE years)
      day    == IF negated THEN 366 - (days % 365) ELSE days % 365
      k      == MonthOf(day)
  IN  IF day = 0 /\ (fyears # 0 \/ cents % 4 = 0)
      THEN [year |-> year, mon |-> 2, mday |-> 29]
      ELSE [year |-> IF k > 10 THEN year + 1 ELSE year,
            mon |-> ((k + 1) % 12) + 1, mday |-> day - Before[k] + 1]

=============================================================================
