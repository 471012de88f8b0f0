------------------------------ MODULE ClockProofs ------------------------------
(***************************************************************************)
(* Proofs about the calendar, the clock of the collectors and the archive  *)
(* that names its rankings by the day.                                     *)
(*                                                                         *)
(* JalaliCalendar: the conversions give the day of the walk, and two of    *)
(* them another one, on every day from the Nowruz of 1370 on and not only  *)
(* to the year in which TLC stops.  A day is numbered in both calendars    *)
(* (JDayNumber, GDayNumber); one step of the walk adds one to both numbers,*)
(* so that their difference stays what it was (WalkInv).  What a conversion*)
(* computes from such a number by dividing it by the days of a cycle is the*)
(* date it numbers: JalaliYear for the cycles of 33 years, GregorianYear   *)
(* for those of 400.                                                       *)
(*                                                                         *)
(* CollectorSchedule: the slots of the collectors, whatever second they    *)
(* are started at, however long a collection lasts and however late the    *)
(* phone wakes them.                                                       *)
(*                                                                         *)
(* BaseShareArchives: types for any number of chains; and with one chain   *)
(* at a time, for any number of days, rankings and kills, the archive      *)
(* names its days and is kept, a comparison is with the last archived day  *)
(* and stays backed by the archive, and a chain that ended leaves one      *)
(* ranking in all its files.                                               *)
(***************************************************************************)
EXTENDS JalaliCalendar, CollectorSchedule, BaseShareArchives, TLAPS

-------------------------------------------------------------------------------
\* The days of a year, split into months: MonthOf finds the month again, for any table that
\* rises by at least the length of each month.
LEMMA MaxIs ==
  ASSUME NEW S \in SUBSET Int, NEW x \in S, \A y \in S : y <= x
  PROVE  Max(S) = x
<1>1. \A y \in S : x >= y
  OBVIOUS
<1>2. \E z \in S : \A y \in S : z >= y
  BY <1>1
<1> DEFINE z == CHOOSE z \in S : \A y \in S : z >= y
<1>3. z \in S /\ \A y \in S : z >= y
  BY <1>2
<1>4. z = x
  <2> HIDE DEF z
  <2>1. z >= x /\ z <= x /\ z \in Int /\ x \in Int
    BY <1>3
  <2> QED
    BY <2>1
<1> QED
  BY <1>4 DEF Max

IsBefore(before, length) ==
  /\ \A m \in 1..12 : before[m] \in Int /\ length[m] \in Int
  /\ \A k, m \in 1..12 :
       /\ k <= m => before[k] <= before[m]
       /\ k > m => before[k] >= before[m] + length[m]

LEMMA DayIsFound ==
  ASSUME NEW before, NEW length, IsBefore(before, length),
         NEW m \in 1..12, NEW d \in Int, 1 <= d, d <= length[m], NEW y
  PROVE  DayOfYear(y, before[m] + d - 1, before) = Date(y, m, d)
<1> DEFINE n == before[m] + d - 1
           S == {k \in 1..12 : before[k] <= n}
<1>1. before[m] \in Int /\ length[m] \in Int /\ n \in Int
  BY DEF IsBefore
<1>2. m \in S
  BY <1>1
<1>3. \A k \in S : k <= m
  <2> TAKE k \in S
  <2>1. CASE k > m
    <3>1. before[k] >= before[m] + length[m] /\ before[k] \in Int
      BY <2>1 DEF IsBefore
    <3> QED
      BY <3>1, <1>1
  <2> QED
    BY <2>1
<1>4. Max(S) = m
  BY <1>2, <1>3, MaxIs
<1>5. n - before[m] + 1 = d
  BY <1>1
<1> QED
  BY <1>4, <1>5 DEF DayOfYear, MonthOf

\* Day n of year r of cycle q, all counted from 0.
CycleDay(q, r, n) == 12053 * q + 365 * r + (r + 3) \div 4 + n

\* n is a day of year r of a cycle, of 366 days when r is one of its eight leap years.
IsDayOfCycleYear(r, n) ==
  0 <= r /\ r <= 32 /\ 0 <= n /\ n <= (IF r % 4 = 0 /\ r < 32 THEN 365 ELSE 364)

LEMMA JalaliCycle ==
  ASSUME NEW q \in Int, NEW r \in Int, NEW n \in Int, NEW y0 \in Int,
         IsDayOfCycleYear(r, n), NEW days \in Int, days = CycleDay(q, r, n)
  PROVE  FromCycle(y0, days, 366) = DayOfYear(y0 + 33 * q + r, n, JBefore)
<1>1. PICK a \in 0..8, b \in 0..3 : a = r \div 4 /\ b = r % 4
  <2>1. r \div 4 \in 0..8 /\ r % 4 \in 0..3
    BY DEF IsDayOfCycleYear
  <2> QED
    BY <2>1
<1>2. PICK one \in 0..1 : one = 1 <=> b > 0
  <2>1. CASE b > 0
    BY <2>1
  <2>2. CASE ~(b > 0)
    BY <2>2
  <2> QED
    BY <2>1, <2>2
<1>3. PICK t \in Int : t = 365 * b + one + n
  OBVIOUS
<1>4. PICK u \in Int : u = 1461 * a + t
  OBVIOUS
<1>5. r = 4 * a + b /\ (r + 3) \div 4 = a + one
  BY <1>1, <1>2
<1>6. 0 <= n /\ n <= 365 /\ (b > 0 => n <= 364) /\ (a = 8 => b = 0 /\ n <= 364)
  BY <1>1 DEF IsDayOfCycleYear
<1>7. 0 <= t /\ t <= 1460 /\ (a = 8 => t <= 364)
  BY <1>2, <1>3, <1>6
<1>8. 0 <= u /\ u <= 12052 /\ days = 12053 * q + u
  BY <1>3, <1>4, <1>5, <1>7 DEF CycleDay
<1>9. days \div 12053 = q /\ days % 12053 = u
  BY <1>8
<1>10. u \div 1461 = a /\ u % 1461 = t
  BY <1>4, <1>7
<1>11. PICK y \in Int : y = y0 + 33 * q + 4 * a
  OBVIOUS
<1>12. SplitYears(y, t, 366) = <<y + b, n>>
  BY <1>2, <1>3, <1>6 DEF SplitYears
<1>13. y + b = y0 + 33 * q + r
  BY <1>5, <1>11
<1>14. /\ y0 + 33 * (days \div CycleDays) + 4 * ((days % CycleDays) \div FourYears) = y
       /\ (days % CycleDays) % FourYears = t
  BY <1>9, <1>10, <1>11 DEF CycleDays, FourYears
<1> QED
  BY <1>12, <1>13, <1>14 DEF FromCycle

\* Day n of year y, both counted from 0, and y from the first year of a cycle.
JalaliDay(y, n) == 365 * y + JLeapDays(y) + n

\* FromCycle gives that day of that year, from whichever cycle the years are counted.
LEMMA JalaliYear ==
  ASSUME NEW y \in Int, NEW n \in Int, NEW y0 \in Int, NEW back \in Int,
         IsDayOfCycleYear(y % 33, n),
         NEW days \in Int, days = JalaliDay(y, n) - 12053 * back
  PROVE  FromCycle(y0 + 33 * back, days, 366) = DayOfYear(y0 + y, n, JBefore)
<1>1. PICK q \in Int : q = y \div 33 - back
  OBVIOUS
<1>2. PICK r \in Int : r = y % 33
  OBVIOUS
<1>3. y = 33 * (q + back) + r
  BY <1>1, <1>2
<1>4. days = CycleDay(q, r, n)
  <2>1. JLeapDays(y) = (q + back) * 8 + (r + 3) \div 4
    BY <1>1, <1>2 DEF JLeapDays
  <2> QED
    BY <1>3, <2>1 DEF CycleDay, JalaliDay
<1>5. PICK z \in Int : z = y0 + 33 * back
  OBVIOUS
<1>6. FromCycle(z, days, 366) = DayOfYear(z + 33 * q + r, n, JBefore)
  BY <1>2, <1>4, JalaliCycle
<1>7. z + 33 * q + r = y0 + y
  BY <1>3, <1>5
<1> QED
  BY <1>5, <1>6, <1>7

\* The leap years of the calendar are those that the number of a day counts.
LEMMA JalaliLeapYear ==
  ASSUME NEW y \in Int
  PROVE  /\ JLeap(y) <=> (((y + 1595) % 33) % 4 = 0 /\ (y + 1595) % 33 < 32)
         /\ JLeapDays(y + 1596)
              = JLeapDays(y + 1595) + (IF JLeap(y) THEN 1 ELSE 0)
<1>1. PICK r \in 0..32 : r = (y + 1595) % 33
  <2>1. (y + 1595) % 33 \in 0..32
    OBVIOUS
  <2> QED
    BY <2>1
<1>2. PICK q \in Int : q = (y + 1595) \div 33 /\ y + 1595 = 33 * q + r
  <2>1. (y + 1595) \div 33 \in Int /\ y + 1595 = 33 * ((y + 1595) \div 33) + ((y + 1595) % 33)
    OBVIOUS
  <2> QED
    BY <1>1, <2>1
<1>3. y % 33 = IF r >= 11 THEN r - 11 ELSE r + 22
  BY <1>2
<1>4. JLeap(y) <=> (r % 4 = 0 /\ r < 32)
  BY <1>3 DEF JLeap
<1>5. JLeapDays(y + 1595) = 8 * q + (r + 3) \div 4
  BY <1>1, <1>2 DEF JLeapDays
<1>6. JLeapDays(y + 1596) = IF r = 32 THEN 8 * q + 8 ELSE 8 * q + (r + 4) \div 4
  <2>1. y + 1596 = 33 * q + (r + 1)
    BY <1>2
  <2>2. CASE r = 32
    <3>1. (y + 1596) \div 33 = q + 1 /\ (y + 1596) % 33 = 0
      BY <2>1, <2>2
    <3> QED
      BY <2>2, <3>1 DEF JLeapDays
  <2>3. CASE r < 32
    <3>1. (y + 1596) \div 33 = q /\ (y + 1596) % 33 = r + 1
      BY <2>1, <2>3
    <3> QED
      BY <2>3, <3>1 DEF JLeapDays
  <2> QED
    BY <2>2, <2>3
<1>7. (r + 4) \div 4 = (r + 3) \div 4 + (IF r % 4 = 0 THEN 1 ELSE 0)
  OBVIOUS
<1>8. r = 32 => (r + 3) \div 4 = 8
  OBVIOUS
<1> QED
  BY <1>1, <1>4, <1>5, <1>6, <1>7, <1>8

-------------------------------------------------------------------------------
\* Day n of the year 400 a + 100 b + 4 c + e, counted from the year 0.
CenturyDay(b, c, e, n) ==
  (IF b > 0 THEN 36525 + 36524 * (b - 1) ELSE 0)
    + 1461 * c - (IF b > 0 /\ c + e > 0 THEN 1 ELSE 0)
    + 365 * e + (IF e > 0 THEN 1 ELSE 0) + n

IsDayOfCentury(b, c, e, n) ==
  /\ 0 <= b /\ b <= 3 /\ 0 <= c /\ c <= 24 /\ 0 <= e /\ e <= 3
  /\ 0 <= n /\ n <= (IF e = 0 /\ (c > 0 \/ b = 0) THEN 365 ELSE 364)

\* Century finds the century, and a day within it from which the four years can be read.
LEMMA CenturyIsFound ==
  ASSUME NEW b \in Int, NEW c \in Int, NEW e \in Int, NEW n \in Int,
         IsDayOfCentury(b, c, e, n), NEW u \in Int, u = CenturyDay(b, c, e, n)
  PROVE  /\ 0 <= u /\ u <= 146096
         /\ Century(u)[1] = 100 * b
         /\ Century(u)[2] \div 1461 = c
         /\ Century(u)[2] % 1461 = 365 * e + (IF e > 0 THEN 1 ELSE 0) + n
<1>0. /\ b \in 0..3 /\ c \in 0..24 /\ e \in 0..3 /\ 0 <= n /\ n <= 365
      /\ n = 365 => (e = 0 /\ (c > 0 \/ b = 0))
  BY DEF IsDayOfCentury
<1>1. PICK one \in 0..1 : one = 1 <=> e > 0
  <2>1. CASE e > 0
    BY <2>1
  <2>2. CASE ~(e > 0)
    BY <2>2
  <2> QED
    BY <2>1, <2>2
<1>2. PICK t \in Int : t = 365 * e + one + n
  OBVIOUS
<1>3. 0 <= t /\ t <= 1460
  BY <1>0, <1>1, <1>2
<1>4. PICK v \in Int : v = 1461 * c + t
  OBVIOUS
<1>9. 0 <= v /\ v <= 36524
  BY <1>0, <1>3, <1>4
<1>5. v \div 1461 = c /\ v % 1461 = t
  BY <1>0, <1>3, <1>4
<1>6. t = 365 * e + (IF e > 0 THEN 1 ELSE 0) + n
  BY <1>1, <1>2
<1>7. CASE b = 0
  <2>1. u = v
    BY <1>1, <1>2, <1>4, <1>7 DEF CenturyDay
  <2>2. Century(u) = <<0, v>>
    BY <1>9, <2>1 DEF Century
  <2> QED
    <3>1. Century(u)[1] = 100 * b /\ Century(u)[2] = v
      BY <1>7, <2>2
    <3>2. 0 <= u /\ u <= 146096
      BY <1>9, <2>1
    <3> QED
      BY <1>5, <1>6, <3>1, <3>2
<1>8. CASE b > 0
  <2>1. PICK w \in Int : w = IF c + e > 0 THEN v - 1 ELSE v
    BY <1>4
  <2>2. u = 36525 + 36524 * (b - 1) + w
    BY <1>0, <1>1, <1>2, <1>4, <1>8, <2>1 DEF CenturyDay
  <2>3. 0 <= w /\ w <= 36523
    <3>1. CASE c + e > 0
      BY <1>0, <1>1, <1>2, <1>4, <1>9, <2>1, <3>1
    <3>2. CASE c = 0 /\ e = 0
      BY <1>0, <1>1, <1>2, <1>4, <1>8, <2>1, <3>2
    <3> QED
      BY <1>0, <3>1, <3>2
  <2>7. u > 36524 /\ 0 <= u /\ u <= 146096 /\ u - 1 = 36524 * b + w
    BY <1>0, <1>8, <2>2, <2>3
  <2>4. (u - 1) \div 36524 = b /\ (u - 1) % 36524 = w
    BY <1>0, <2>3, <2>7
  <2>5. IF w >= 365 THEN w + 1 = v ELSE w = v
    BY <1>0, <1>1, <1>2, <1>4, <1>8, <2>1
  <2>6. Century(u) = <<100 * b, v>>
    BY <2>4, <2>5, <2>7 DEF Century
  <2> QED
    <3>1. Century(u)[1] = 100 * b /\ Century(u)[2] = v
      BY <2>6
    <3>2. 0 <= u /\ u <= 146096
      BY <2>7
    <3> QED
      BY <1>5, <1>6, <3>1, <3>2
<1> QED
  BY <1>0, <1>7, <1>8

\* Year e of the four years c of century b of the 400 years a, all counted from 0.
IsYear(y, a, b, c, e) ==
  /\ 0 <= b /\ b <= 3 /\ 0 <= c /\ c <= 24 /\ 0 <= e /\ e <= 3
  /\ y = 400 * a + 100 * b + 4 * c + e

LeapDaysBefore(a, b, c, e) ==
  97 * a + 24 * b + c + (IF e > 0 THEN 1 ELSE 0)
    - (IF c + e > 0 THEN 1 ELSE 0) + (IF b + c + e > 0 THEN 1 ELSE 0)

LEMMA YearIsSplit ==
  ASSUME NEW y \in Int
  PROVE  \E a, b, c, e \in Int : IsYear(y, a, b, c, e)
<1>1. PICK a \in Int, x \in Int : y = 400 * a + x /\ 0 <= x /\ x <= 399
  <2>1. y \div 400 \in Int /\ y % 400 \in Int
    OBVIOUS
  <2>2. y = 400 * (y \div 400) + (y % 400) /\ 0 <= y % 400 /\ y % 400 <= 399
    OBVIOUS
  <2> QED
    BY <2>1, <2>2
<1>2. PICK b \in Int, z \in Int : x = 100 * b + z /\ 0 <= z /\ z <= 99
  <2>1. x \div 100 \in Int /\ x % 100 \in Int
    OBVIOUS
  <2>2. x = 100 * (x \div 100) + (x % 100) /\ 0 <= x % 100 /\ x % 100 <= 99
    OBVIOUS
  <2> QED
    BY <2>1, <2>2
<1>3. PICK c \in Int, e \in Int : z = 4 * c + e /\ 0 <= e /\ e <= 3
  <2>1. z \div 4 \in Int /\ z % 4 \in Int
    OBVIOUS
  <2>2. z = 4 * (z \div 4) + (z % 4) /\ 0 <= z % 4 /\ z % 4 <= 3
    OBVIOUS
  <2> QED
    BY <2>1, <2>2
<1>4. 0 <= b /\ b <= 3 /\ 0 <= c /\ c <= 24
  BY <1>1, <1>2, <1>3
<1>5. y = 400 * a + 100 * b + 4 * c + e
  BY <1>1, <1>2, <1>3
<1> QED
  BY <1>3, <1>4, <1>5 DEF IsYear

LEMMA GregorianLeapYear ==
  ASSUME NEW a \in Int, NEW b \in Int, NEW c \in Int, NEW e \in Int,
         NEW y \in Int, IsYear(y, a, b, c, e)
  PROVE  /\ GLeap(y) <=> e = 0 /\ (c > 0 \/ b = 0)
         /\ LeapDays(y) = LeapDaysBefore(a, b, c, e)
<1>0. /\ 0 <= b /\ b <= 3 /\ 0 <= c /\ c <= 24 /\ 0 <= e /\ e <= 3
      /\ y = 400 * a + 100 * b + 4 * c + e
  BY DEF IsYear
<1>1. PICK z \in Int : z = 4 * c + e
  BY <1>0
<1>2. y % 4 = e
  BY <1>0
<1>3. y % 100 = z
  <2>1. y = 100 * (4 * a + b) + z /\ 0 <= z /\ z <= 99
    BY <1>0, <1>1
  <2> QED
    BY <1>0, <2>1
<1>4. y % 400 = 100 * b + z
  <2>1. y = 400 * a + (100 * b + z) /\ 0 <= 100 * b + z /\ 100 * b + z <= 399
    BY <1>0, <1>1
  <2> QED
    BY <1>0, <2>1
<1>5. GLeap(y) <=> e = 0 /\ (c > 0 \/ b = 0)
  BY <1>0, <1>1, <1>2, <1>3, <1>4 DEF GLeap, Divides
<1>6. (y + 3) \div 4 = 100 * a + 25 * b + c + (IF e > 0 THEN 1 ELSE 0)
  <2>1. CASE e > 0
    <3>1. y + 3 = 4 * (100 * a + 25 * b + c + 1) + (e - 1)
      BY <1>0
    <3> QED
      BY <1>0, <2>1, <3>1
  <2>2. CASE e = 0
    <3>1. y + 3 = 4 * (100 * a + 25 * b + c) + 3
      BY <1>0, <2>2
    <3> QED
      BY <1>0, <2>2, <3>1
  <2> QED
    BY <1>0, <2>1, <2>2
<1>7. (y + 99) \div 100 = 4 * a + b + (IF c + e > 0 THEN 1 ELSE 0)
  <2>1. CASE c + e > 0
    <3>1. y + 99 = 100 * (4 * a + b + 1) + (z - 1) /\ 0 <= z - 1 /\ z - 1 <= 98
      BY <1>0, <1>1, <2>1
    <3> QED
      BY <1>0, <2>1, <3>1
  <2>2. CASE ~(c + e > 0)
    <3>1. y + 99 = 100 * (4 * a + b) + 99
      BY <1>0, <2>2
    <3> QED
      BY <1>0, <2>2, <3>1
  <2> QED
    BY <1>0, <2>1, <2>2
<1>8. (y + 399) \div 400 = a + (IF b + c + e > 0 THEN 1 ELSE 0)
  <2>1. CASE b + c + e > 0
    <3>1. /\ y + 399 = 400 * (a + 1) + (100 * b + z - 1)
          /\ 0 <= 100 * b + z - 1 /\ 100 * b + z - 1 <= 398
      BY <1>0, <1>1, <2>1
    <3> QED
      BY <1>0, <2>1, <3>1
  <2>2. CASE ~(b + c + e > 0)
    <3>1. y + 399 = 400 * a + 399
      BY <1>0, <2>2
    <3> QED
      BY <1>0, <2>2, <3>1
  <2> QED
    BY <1>0, <2>1, <2>2
<1>9. LeapDays(y) = LeapDaysBefore(a, b, c, e)
  BY <1>0, <1>6, <1>7, <1>8 DEF LeapDays, LeapDaysBefore
<1> QED
  BY <1>0, <1>5, <1>9

\* The leap days before a year count the year before it.
LEMMA LeapDayAfterYear ==
  ASSUME NEW y \in Int
  PROVE  LeapDays(y + 1) = LeapDays(y) + (IF GLeap(y) THEN 1 ELSE 0)
<1>0. PICK a, b, c, e \in Int : IsYear(y, a, b, c, e)
  BY YearIsSplit
<1>1. /\ 0 <= b /\ b <= 3 /\ 0 <= c /\ c <= 24 /\ 0 <= e /\ e <= 3
      /\ y = 400 * a + 100 * b + 4 * c + e
  BY <1>0 DEF IsYear
<1>2. GLeap(y) <=> e = 0 /\ (c > 0 \/ b = 0)
  BY <1>0, GregorianLeapYear
<1>8. LeapDays(y) = 97 * a + 24 * b + c + (IF e > 0 THEN 1 ELSE 0)
                      - (IF c + e > 0 THEN 1 ELSE 0)
                      + (IF b + c + e > 0 THEN 1 ELSE 0)
  BY <1>0, GregorianLeapYear DEF LeapDaysBefore
<1>3. PICK z \in Int : z = y + 1
  OBVIOUS
<1>4. CASE e < 3
  <2>1. PICK x \in Int : x = e + 1
    OBVIOUS
  <2>2. IsYear(z, a, b, c, x)
    BY <1>1, <1>3, <1>4, <2>1 DEF IsYear
  <2>3. LeapDays(z) = LeapDaysBefore(a, b, c, x)
    BY <2>2, GregorianLeapYear
  <2> QED
    BY <1>1, <1>2, <1>8, <1>3, <1>4, <2>1, <2>3 DEF LeapDaysBefore
<1>5. CASE e = 3 /\ c < 24
  <2>1. PICK x \in Int : x = c + 1
    OBVIOUS
  <2>2. IsYear(z, a, b, x, 0)
    BY <1>1, <1>3, <1>5, <2>1 DEF IsYear
  <2>3. LeapDays(z) = LeapDaysBefore(a, b, x, 0)
    BY <2>2, GregorianLeapYear
  <2> QED
    BY <1>1, <1>2, <1>8, <1>3, <1>5, <2>1, <2>3 DEF LeapDaysBefore
<1>6. CASE e = 3 /\ c = 24 /\ b < 3
  <2>1. PICK x \in Int : x = b + 1
    OBVIOUS
  <2>2. IsYear(z, a, x, 0, 0)
    BY <1>1, <1>3, <1>6, <2>1 DEF IsYear
  <2>3. LeapDays(z) = LeapDaysBefore(a, x, 0, 0)
    BY <2>2, GregorianLeapYear
  <2> QED
    BY <1>1, <1>2, <1>8, <1>3, <1>6, <2>1, <2>3 DEF LeapDaysBefore
<1>7. CASE e = 3 /\ c = 24 /\ b = 3
  <2>1. PICK x \in Int : x = a + 1
    OBVIOUS
  <2>2. IsYear(z, x, 0, 0, 0)
    BY <1>1, <1>3, <1>7, <2>1 DEF IsYear
  <2>3. LeapDays(z) = LeapDaysBefore(x, 0, 0, 0)
    BY <2>2, GregorianLeapYear
  <2> QED
    BY <1>1, <1>2, <1>8, <1>3, <1>7, <2>1, <2>3 DEF LeapDaysBefore
<1> QED
  BY <1>1, <1>4, <1>5, <1>6, <1>7

\* Day n of year y, both counted from 0.
YearDay(y, n) == 365 * y + LeapDays(y) + n

\* The days before each month of year y.
MonthStarts(y) ==
  [m \in 1..12 |-> IF m > 2 /\ GLeap(y) THEN GBefore[m] + 1 ELSE GBefore[m]]

\* FromGregorianCycle gives that day of that year.
LEMMA GregorianYear ==
  ASSUME NEW y \in Int, NEW n \in Int, 0 <= n, n <= (IF GLeap(y) THEN 365 ELSE 364),
         NEW days \in Int, days = YearDay(y, n)
  PROVE  FromGregorianCycle(days) = DayOfYear(y, n, MonthStarts(y))
<1>0. PICK a, b, c, e \in Int : IsYear(y, a, b, c, e)
  BY YearIsSplit
<1>1. /\ 0 <= b /\ b <= 3 /\ 0 <= c /\ c <= 24 /\ 0 <= e /\ e <= 3
      /\ y = 400 * a + 100 * b + 4 * c + e
  BY <1>0 DEF IsYear
<1>2. GLeap(y) <=> e = 0 /\ (c > 0 \/ b = 0)
  BY <1>0, GregorianLeapYear
<1>11. LeapDays(y) = 97 * a + 24 * b + c + (IF e > 0 THEN 1 ELSE 0)
                      - (IF c + e > 0 THEN 1 ELSE 0)
                      + (IF b + c + e > 0 THEN 1 ELSE 0)
  BY <1>0, GregorianLeapYear DEF LeapDaysBefore
<1>3. IsDayOfCentury(b, c, e, n)
  BY <1>1, <1>2 DEF IsDayOfCentury
<1>4. PICK u \in Int : u = CenturyDay(b, c, e, n)
  <2>1. CenturyDay(b, c, e, n) \in Int
    BY DEF CenturyDay
  <2> QED
    BY <2>1
<1>5. days = 146097 * a + u
  <2>1. days = 365 * (400 * a + 100 * b + 4 * c + e)
                 + (97 * a + 24 * b + c + (IF e > 0 THEN 1 ELSE 0)
                      - (IF c + e > 0 THEN 1 ELSE 0)
                      + (IF b + c + e > 0 THEN 1 ELSE 0)) + n
    BY <1>1, <1>11 DEF YearDay
  <2>2. CASE b > 0
    <3>1. u = 36525 + 36524 * (b - 1) + 1461 * c - (IF c + e > 0 THEN 1 ELSE 0)
                + 365 * e + (IF e > 0 THEN 1 ELSE 0) + n
      BY <1>4, <2>2 DEF CenturyDay
    <3> QED
      BY <1>1, <2>1, <2>2, <3>1
  <2>3. CASE b = 0
    <3>1. u = 1461 * c + 365 * e + (IF e > 0 THEN 1 ELSE 0) + n
      BY <1>4, <2>3 DEF CenturyDay
    <3> QED
      BY <1>1, <2>1, <2>3, <3>1
  <2> QED
    BY <1>1, <2>2, <2>3
<1>6. PICK y1 \in Int : y1 = 400 * a + 100 * b + 4 * c
  OBVIOUS
<1>7. /\ 0 <= u /\ u <= 146096
      /\ Century(u)[1] = 100 * b
      /\ Century(u)[2] \div 1461 = c
      /\ Century(u)[2] % 1461 = 365 * e + (IF e > 0 THEN 1 ELSE 0) + n
  BY <1>3, <1>4, CenturyIsFound
<1>8. days \div 146097 = a /\ days % 146097 = u
  BY <1>5, <1>7
<1>9. 400 * (days \div 146097) + Century(days % 146097)[1]
        + 4 * (Century(days % 146097)[2] \div FourYears) = y1
  BY <1>6, <1>7, <1>8 DEF FourYears
<1>12. PICK t \in Int : t = 365 * e + (IF e > 0 THEN 1 ELSE 0) + n
  OBVIOUS
<1>13. SplitYears(y1, t, 366) = <<y1 + e, n>>
  <2>1. CASE e > 0
    BY <1>1, <1>2, <1>12, <2>1 DEF SplitYears
  <2>2. CASE e = 0
    BY <1>1, <1>12, <2>2 DEF SplitYears
  <2> QED
    BY <1>1, <2>1, <2>2
<1>10. SplitYears(y1, Century(days % 146097)[2] % FourYears, 366) = <<y, n>>
  BY <1>1, <1>6, <1>7, <1>8, <1>12, <1>13 DEF FourYears
<1> QED
  BY <1>9, <1>10 DEF FromGregorianCycle, MonthStarts

-------------------------------------------------------------------------------
JLengths(y) == [m \in 1..12 |-> JLength(y, m)]
GLengths(y) == [m \in 1..12 |-> GLength(y, m)]

\* The months of year y follow one another, and its last one ends the year.
JMonths(y) ==
  /\ IsBefore(JBefore, JLengths(y))
  /\ \A m \in 1..12 :
       /\ JLength(y, m) \in Int /\ JLength(y, m) >= 29 /\ JBefore[m] \in Int
       /\ JBefore[m] >= 0
       /\ JBefore[m] + JLength(y, m) <= (IF JLeap(y) THEN 366 ELSE 365)
       /\ m < 12 => JBefore[m + 1] = JBefore[m] + JLength(y, m)
  /\ JBefore[12] + JLength(y, 12) = (IF JLeap(y) THEN 366 ELSE 365)
  /\ JBefore[1] = 0

LEMMA JTable ==
  ASSUME NEW y \in Int
  PROVE  JMonths(y)
<1>1. \A m \in 1..12 : JLength(y, m) \in Int /\ JLength(y, m) >= 29 /\ JBefore[m] \in Int
                         /\ JBefore[m] >= 0
  BY DEF JBefore, JLength, JDays
<1>2. \A m \in 1..12 : JBefore[m] + JLength(y, m) <= (IF JLeap(y) THEN 366 ELSE 365)
  BY DEF JBefore, JLength, JDays
<1>3. \A m \in 1..12 : m < 12 => JBefore[m + 1] = JBefore[m] + JLength(y, m)
  BY DEF JBefore, JLength, JDays
<1>4. JBefore[12] + JLength(y, 12) = (IF JLeap(y) THEN 366 ELSE 365)
  BY DEF JBefore, JLength, JDays
<1>5. \A k, m \in 1..12 : k <= m => JBefore[k] <= JBefore[m]
  BY DEF JBefore
<1>6. \A k, m \in 1..12 : k > m => JBefore[k] >= JBefore[m] + JLength(y, m)
  <2> TAKE k, m \in 1..12
  <2> HAVE k > m
  <2>1. m + 1 \in 1..12 /\ m + 1 <= k /\ m < 12
    OBVIOUS
  <2>2. JBefore[m + 1] <= JBefore[k]
    BY <1>5, <2>1
  <2> QED
    BY <1>1, <1>3, <2>1, <2>2
<1>7. \A m \in 1..12 : JLengths(y)[m] = JLength(y, m)
  BY DEF JLengths
<1>8. IsBefore(JBefore, JLengths(y))
  BY <1>1, <1>5, <1>6, <1>7 DEF IsBefore
<1>9. JBefore[1] = 0
  BY DEF JBefore
<1> QED
  BY <1>1, <1>2, <1>3, <1>4, <1>8, <1>9 DEF JMonths

\* The months of year y follow one another, and its last one ends the year.
GMonths(y) ==
  /\ IsBefore(MonthStarts(y), GLengths(y))
  /\ \A m \in 1..12 :
       /\ GLength(y, m) \in Int /\ GLength(y, m) >= 28 /\ MonthStarts(y)[m] \in Int
       /\ MonthStarts(y)[m] >= 0
       /\ MonthStarts(y)[m] + GLength(y, m) <= (IF GLeap(y) THEN 366 ELSE 365)
       /\ m < 12 => MonthStarts(y)[m + 1] = MonthStarts(y)[m] + GLength(y, m)
  /\ MonthStarts(y)[12] + GLength(y, 12) = (IF GLeap(y) THEN 366 ELSE 365)
  /\ MonthStarts(y)[1] = 0

LEMMA GTable ==
  ASSUME NEW y \in Int
  PROVE  GMonths(y)
<1>1. \A m \in 1..12 : GLength(y, m) \in Int /\ GLength(y, m) >= 28
                         /\ MonthStarts(y)[m] \in Int /\ MonthStarts(y)[m] >= 0
  BY DEF MonthStarts, GBefore, GLength, GDays
<1>2. \A m \in 1..12 :
        MonthStarts(y)[m] + GLength(y, m) <= (IF GLeap(y) THEN 366 ELSE 365)
  BY DEF MonthStarts, GBefore, GLength, GDays
<1>3. \A m \in 1..12 :
        m < 12 => MonthStarts(y)[m + 1] = MonthStarts(y)[m] + GLength(y, m)
  BY DEF MonthStarts, GBefore, GLength, GDays
<1>4. MonthStarts(y)[12] + GLength(y, 12) = (IF GLeap(y) THEN 366 ELSE 365)
  BY DEF MonthStarts, GBefore, GLength, GDays
<1>5. \A k, m \in 1..12 : k <= m => MonthStarts(y)[k] <= MonthStarts(y)[m]
  <2>1. \A k, m \in 1..12 : k <= m => GBefore[k] <= GBefore[m]
    BY DEF GBefore
  <2>2. \A k \in 1..12 : GBefore[k] \in Int
    BY DEF GBefore
  <2> QED
    BY <2>1, <2>2 DEF MonthStarts
<1>6. \A k, m \in 1..12 : k > m => MonthStarts(y)[k] >= MonthStarts(y)[m] + GLength(y, m)
  <2> TAKE k, m \in 1..12
  <2> HAVE k > m
  <2>1. m + 1 \in 1..12 /\ m + 1 <= k /\ m < 12
    OBVIOUS
  <2>2. MonthStarts(y)[m + 1] <= MonthStarts(y)[k]
    BY <1>5, <2>1
  <2> QED
    BY <1>1, <1>3, <2>1, <2>2
<1>7. \A m \in 1..12 : GLengths(y)[m] = GLength(y, m)
  BY DEF GLengths
<1>8. IsBefore(MonthStarts(y), GLengths(y))
  BY <1>1, <1>5, <1>6, <1>7 DEF IsBefore
<1>9. MonthStarts(y)[1] = 0
  BY DEF MonthStarts, GBefore
<1> QED
  BY <1>1, <1>2, <1>3, <1>4, <1>8, <1>9 DEF GMonths

-------------------------------------------------------------------------------
IsJDate(d) ==
  /\ d \in [year : Int, month : 1..12, day : Int]
  /\ 1 <= d.day /\ d.day <= JLength(d.year, d.month)

IsGDate(d) ==
  /\ d \in [year : Int, month : 1..12, day : Int]
  /\ 1 <= d.day /\ d.day <= GLength(d.year, d.month)

JDayNumber(d) == JalaliDay(d.year + 1595, JBefore[d.month] + d.day - 1)
GDayNumber(d) == YearDay(d.year, MonthStarts(d.year)[d.month] + d.day - 1)

\* Tomorrow is a date of the calendar, and its number is one more.
LEMMA JTomorrow ==
  ASSUME NEW d, IsJDate(d)
  PROVE  /\ IsJDate(Tomorrow(d, JLength))
         /\ JDayNumber(Tomorrow(d, JLength)) = JDayNumber(d) + 1
<1> DEFINE t == Tomorrow(d, JLength)
<1>1. /\ d.year \in Int /\ d.month \in 1..12 /\ d.day \in Int
      /\ 1 <= d.day /\ d.day <= JLength(d.year, d.month)
      /\ d = Date(d.year, d.month, d.day)
  BY DEF IsJDate, Date
<1>2. PICK y \in Int, m \in 1..12, nth \in Int : y = d.year /\ m = d.month /\ nth = d.day
  BY <1>1
<1>3. /\ JLength(y, m) \in Int /\ JBefore[m] \in Int
      /\ m < 12 => JBefore[m + 1] = JBefore[m] + JLength(y, m)
      /\ JBefore[12] + JLength(y, 12) = (IF JLeap(y) THEN 366 ELSE 365)
      /\ JBefore[1] = 0
  <2>1. JMonths(y)
    BY JTable
  <2> QED
    BY <2>1 DEF JMonths
<1>4. JLeapDays(y + 1595) \in Int
  BY DEF JLeapDays
<1>5. JDayNumber(d) = 365 * (y + 1595) + JLeapDays(y + 1595) + JBefore[m] + nth - 1
  BY <1>2, <1>3, <1>4 DEF JDayNumber, JalaliDay
<1>6. CASE nth < JLength(y, m)
  <2>1. t = Date(y, m, nth + 1)
    BY <1>1, <1>2, <1>6 DEF Tomorrow, Date
  <2>2. IsJDate(t)
    BY <1>2, <1>3, <1>6, <1>1, <2>1 DEF IsJDate, Date
  <2>3. JDayNumber(t) = 365 * (y + 1595) + JLeapDays(y + 1595) + JBefore[m] + (nth + 1) - 1
    BY <1>3, <1>4, <2>1 DEF JDayNumber, JalaliDay, Date
  <2> QED
    BY <1>3, <1>4, <1>5, <2>2, <2>3
<1>7. CASE nth = JLength(y, m) /\ m < 12
  <2>1. t = Date(y, m + 1, 1)
    BY <1>1, <1>2, <1>3, <1>7 DEF Tomorrow
  <2>2. JLength(y, m + 1) >= 1
    <3>1. JMonths(y) /\ m + 1 \in 1..12
      BY <1>7, JTable
    <3> QED
      BY <3>1 DEF JMonths
  <2>3. IsJDate(t)
    BY <1>7, <2>1, <2>2 DEF IsJDate, Date
  <2>4. JBefore[m + 1] \in Int /\ JBefore[m + 1] = JBefore[m] + nth
    BY <1>3, <1>7
  <2>5. JDayNumber(t) = 365 * (y + 1595) + JLeapDays(y + 1595) + JBefore[m + 1]
    BY <1>4, <2>1, <2>4 DEF JDayNumber, JalaliDay, Date
  <2> QED
    BY <1>3, <1>4, <1>5, <2>3, <2>4, <2>5
<1>8. CASE nth = JLength(y, m) /\ m = 12
  <2>1. t = Date(y + 1, 1, 1)
    BY <1>1, <1>2, <1>3, <1>8 DEF Tomorrow
  <2>2. JLength(y + 1, 1) >= 1
    BY DEF JLength, JDays
  <2>3. IsJDate(t)
    BY <2>1, <2>2 DEF IsJDate, Date
  <2>4. JLeapDays(y + 1596) = JLeapDays(y + 1595) + (IF JLeap(y) THEN 1 ELSE 0)
    BY JalaliLeapYear
  <2>5. y + 1 + 1595 = y + 1596
    OBVIOUS
  <2>6. JDayNumber(t) = 365 * (y + 1596) + JLeapDays(y + 1596)
    <3>1. JLeapDays(y + 1596) \in Int
      BY DEF JLeapDays
    <3> QED
      BY <1>3, <2>1, <2>5, <3>1 DEF JDayNumber, JalaliDay, Date
  <2>7. JBefore[m] + nth = (IF JLeap(y) THEN 366 ELSE 365)
    BY <1>3, <1>8
  <2> QED
    BY <1>3, <1>4, <1>5, <2>3, <2>4, <2>6, <2>7
<1>9. nth < JLength(y, m) \/ (nth = JLength(y, m) /\ (m < 12 \/ m = 12))
  BY <1>1, <1>2, <1>3
<1> QED
  BY <1>6, <1>7, <1>8, <1>9

LEMMA GTomorrow ==
  ASSUME NEW d, IsGDate(d)
  PROVE  /\ IsGDate(Tomorrow(d, GLength))
         /\ GDayNumber(Tomorrow(d, GLength)) = GDayNumber(d) + 1
<1> DEFINE t == Tomorrow(d, GLength)
<1>1. /\ d.year \in Int /\ d.month \in 1..12 /\ d.day \in Int
      /\ 1 <= d.day /\ d.day <= GLength(d.year, d.month)
      /\ d = Date(d.year, d.month, d.day)
  BY DEF IsGDate, Date
<1>2. PICK y \in Int, m \in 1..12, nth \in Int : y = d.year /\ m = d.month /\ nth = d.day
  BY <1>1
<1>3. /\ GLength(y, m) \in Int /\ MonthStarts(y)[m] \in Int
      /\ m < 12 => MonthStarts(y)[m + 1] = MonthStarts(y)[m] + GLength(y, m)
      /\ MonthStarts(y)[12] + GLength(y, 12) = (IF GLeap(y) THEN 366 ELSE 365)
      /\ MonthStarts(y)[1] = 0
  <2>1. GMonths(y)
    BY GTable
  <2> QED
    BY <2>1 DEF GMonths
<1>4. LeapDays(y) \in Int
  BY DEF LeapDays
<1>5. GDayNumber(d) = 365 * y + LeapDays(y) + MonthStarts(y)[m] + nth - 1
  BY <1>2, <1>3, <1>4 DEF GDayNumber, YearDay
<1>6. CASE nth < GLength(y, m)
  <2>1. t = Date(y, m, nth + 1)
    BY <1>1, <1>2, <1>6 DEF Tomorrow, Date
  <2>2. IsGDate(t)
    BY <1>2, <1>3, <1>6, <1>1, <2>1 DEF IsGDate, Date
  <2>3. GDayNumber(t) = 365 * y + LeapDays(y) + MonthStarts(y)[m] + (nth + 1) - 1
    BY <1>3, <1>4, <2>1 DEF GDayNumber, YearDay, Date
  <2> QED
    BY <1>3, <1>4, <1>5, <2>2, <2>3
<1>7. CASE nth = GLength(y, m) /\ m < 12
  <2>1. t = Date(y, m + 1, 1)
    BY <1>1, <1>2, <1>3, <1>7 DEF Tomorrow
  <2>2. GLength(y, m + 1) >= 1
    <3>1. GMonths(y) /\ m + 1 \in 1..12
      BY <1>7, GTable
    <3> QED
      BY <3>1 DEF GMonths
  <2>3. IsGDate(t)
    BY <1>7, <2>1, <2>2 DEF IsGDate, Date
  <2>4. MonthStarts(y)[m + 1] \in Int /\ MonthStarts(y)[m + 1] = MonthStarts(y)[m] + nth
    BY <1>3, <1>7
  <2>5. GDayNumber(t) = 365 * y + LeapDays(y) + MonthStarts(y)[m + 1]
    BY <1>4, <2>1, <2>4 DEF GDayNumber, YearDay, Date
  <2> QED
    BY <1>3, <1>4, <1>5, <2>3, <2>4, <2>5
<1>8. CASE nth = GLength(y, m) /\ m = 12
  <2>1. t = Date(y + 1, 1, 1)
    BY <1>1, <1>2, <1>3, <1>8 DEF Tomorrow
  <2>2. GLength(y + 1, 1) >= 1
    BY DEF GLength, GDays
  <2>3. IsGDate(t)
    BY <2>1, <2>2 DEF IsGDate, Date
  <2>4. LeapDays(y + 1) = LeapDays(y) + (IF GLeap(y) THEN 1 ELSE 0)
    BY LeapDayAfterYear
  <2>5. MonthStarts(y + 1)[1] = 0
    BY DEF MonthStarts, GBefore
  <2>6. GDayNumber(t) = 365 * (y + 1) + LeapDays(y + 1)
    <3>1. LeapDays(y + 1) \in Int
      BY DEF LeapDays
    <3> QED
      BY <1>3, <2>1, <2>5, <3>1 DEF GDayNumber, YearDay, Date
  <2>7. MonthStarts(y)[m] + nth = (IF GLeap(y) THEN 366 ELSE 365)
    BY <1>3, <1>8
  <2> QED
    BY <1>3, <1>4, <1>5, <2>3, <2>4, <2>6, <2>7
<1>9. nth < GLength(y, m) \/ (nth = GLength(y, m) /\ (m < 12 \/ m = 12))
  BY <1>1, <1>2, <1>3
<1> QED
  BY <1>6, <1>7, <1>8, <1>9

-------------------------------------------------------------------------------
\* The code adds one to the year from March on, so that its leap days are counted.
LEMMA DayNumberIsOne ==
  ASSUME NEW d, IsGDate(d)
  PROVE  DayNumber(d) = GDayNumber(d) + 1
<1>1. PICK y \in Int, m \in 1..12, nth \in Int : y = d.year /\ m = d.month /\ nth = d.day
  BY DEF IsGDate
<1>2. GBefore[m] \in Int
  BY DEF GBefore
<1>3. LeapDays(y) \in Int
  BY DEF LeapDays
<1>4. CASE m > 2
  <2>1. LeapDays(y + 1) = LeapDays(y) + (IF GLeap(y) THEN 1 ELSE 0)
    BY LeapDayAfterYear
  <2>2. MonthStarts(y)[m] = GBefore[m] + (IF GLeap(y) THEN 1 ELSE 0)
    BY <1>2, <1>4 DEF MonthStarts
  <2>3. DayNumber(d) = 365 * y + LeapDays(y + 1) + nth + GBefore[m]
    BY <1>1, <1>4 DEF DayNumber
  <2>4. GDayNumber(d) = 365 * y + LeapDays(y) + (MonthStarts(y)[m] + nth - 1)
    BY <1>1 DEF GDayNumber, YearDay
  <2> QED
    BY <1>2, <1>3, <2>1, <2>2, <2>3, <2>4
<1>5. CASE m <= 2
  <2>1. MonthStarts(y)[m] = GBefore[m]
    BY <1>5 DEF MonthStarts
  <2>2. DayNumber(d) = 365 * y + LeapDays(y) + nth + GBefore[m]
    BY <1>1, <1>5 DEF DayNumber
  <2>3. GDayNumber(d) = 365 * y + LeapDays(y) + (MonthStarts(y)[m] + nth - 1)
    BY <1>1 DEF GDayNumber, YearDay
  <2> QED
    BY <1>2, <1>3, <2>1, <2>2, <2>3
<1> QED
  BY <1>4, <1>5

\* days counts d from the year y0, the first of a cycle, back cycles after that of -1595.
IsCount(d, y0, days, back) ==
  y0 = 33 * back - 1595 /\ days = JDayNumber(d) - 12053 * back

LEMMA JalaliIsRead ==
  ASSUME NEW d, IsJDate(d), NEW back \in Int, NEW y0 \in Int, NEW days \in Int,
         IsCount(d, y0, days, back)
  PROVE  FromCycle(y0, days, 366) = d
<1>1. PICK y \in Int, m \in 1..12, nth \in Int : y = d.year /\ m = d.month /\ nth = d.day
  BY DEF IsJDate
<1>2. 1 <= nth /\ nth <= JLength(y, m) /\ d = Date(y, m, nth)
  BY <1>1 DEF IsJDate, Date
<1>3. PICK n \in Int : n = JBefore[m] + nth - 1
  <2>1. JBefore[m] \in Int
    BY DEF JBefore
  <2> QED
    BY <2>1
<1>4. 0 <= n /\ n <= (IF JLeap(y) THEN 365 ELSE 364)
  <2>1. JMonths(y)
    BY JTable
  <2>2. /\ JLength(y, m) \in Int /\ JBefore[m] \in Int /\ JBefore[m] >= 0
        /\ JBefore[m] + JLength(y, m) <= (IF JLeap(y) THEN 366 ELSE 365)
    BY <2>1 DEF JMonths
  <2> QED
    BY <1>2, <1>3, <2>2
<1>5. PICK z \in Int : z = y + 1595
  OBVIOUS
<1>6. IsDayOfCycleYear(z % 33, n)
  <2>1. JLeap(y) <=> ((z % 33) % 4 = 0 /\ z % 33 < 32)
    BY <1>5, JalaliLeapYear
  <2>2. PICK r \in Int : r = z % 33 /\ 0 <= r /\ r <= 32
    <3>1. z % 33 \in Int /\ 0 <= z % 33 /\ z % 33 <= 32
      OBVIOUS
    <3> QED
      BY <3>1
  <2> QED
    BY <1>4, <2>1, <2>2 DEF IsDayOfCycleYear
<1>7. days = JalaliDay(z, n) - 12053 * back
  BY <1>1, <1>3, <1>5 DEF JDayNumber, IsCount
<1>8. FromCycle(-1595 + 33 * back, days, 366) = DayOfYear(-1595 + z, n, JBefore)
  <2>1. PICK first \in Int : first = -1595
    OBVIOUS
  <2>2. FromCycle(first + 33 * back, days, 366) = DayOfYear(first + z, n, JBefore)
    BY <1>6, <1>7, JalaliYear
  <2> QED
    BY <2>1, <2>2
<1>9. -1595 + 33 * back = y0 /\ -1595 + z = y
  BY <1>5 DEF IsCount
<1>10. DayOfYear(y, n, JBefore) = Date(y, m, nth)
  <2>1. IsBefore(JBefore, JLengths(y)) /\ JLengths(y)[m] = JLength(y, m)
    BY JTable DEF JMonths, JLengths
  <2> QED
    BY <1>2, <1>3, <2>1, DayIsFound
<1> QED
  BY <1>2, <1>8, <1>9, <1>10

LEMMA GregorianIsRead ==
  ASSUME NEW d, IsGDate(d), NEW days \in Int, days = GDayNumber(d)
  PROVE  FromGregorianCycle(days) = d
<1>1. PICK y \in Int, m \in 1..12, nth \in Int : y = d.year /\ m = d.month /\ nth = d.day
  BY DEF IsGDate
<1>2. 1 <= nth /\ nth <= GLength(y, m) /\ d = Date(y, m, nth)
  BY <1>1 DEF IsGDate, Date
<1>3. GMonths(y)
  BY GTable
<1>4. PICK n \in Int : n = MonthStarts(y)[m] + nth - 1
  <2>1. MonthStarts(y)[m] \in Int
    BY <1>3 DEF GMonths
  <2> QED
    BY <2>1
<1>5. 0 <= n /\ n <= (IF GLeap(y) THEN 365 ELSE 364)
  <2>1. /\ GLength(y, m) \in Int /\ MonthStarts(y)[m] \in Int /\ MonthStarts(y)[m] >= 0
        /\ MonthStarts(y)[m] + GLength(y, m) <= (IF GLeap(y) THEN 366 ELSE 365)
    BY <1>3 DEF GMonths
  <2> QED
    BY <1>2, <1>4, <2>1
<1>6. days = YearDay(y, n)
  BY <1>1, <1>4 DEF GDayNumber
<1>7. FromGregorianCycle(days) = DayOfYear(y, n, MonthStarts(y))
  BY <1>5, <1>6, GregorianYear
<1>8. DayOfYear(y, n, MonthStarts(y)) = Date(y, m, nth)
  <2>1. IsBefore(MonthStarts(y), GLengths(y)) /\ GLengths(y)[m] = GLength(y, m)
    BY <1>3 DEF GMonths, GLengths
  <2> QED
    BY <1>2, <1>4, <2>1, DayIsFound
<1> QED
  BY <1>2, <1>7, <1>8

\* build_validated_bundle.py and bale_listener.py count the years from 1600, four cycles
\* of 400 years after the year 0.
LEMMA LeapDaysFrom1600 ==
  ASSUME NEW y \in Int
  PROVE  LeapDays(y - 1600) = LeapDays(y) - 388
<1>1. /\ (y - 1600 + 3) \div 4 = (y + 3) \div 4 - 400
      /\ (y - 1600 + 99) \div 100 = (y + 99) \div 100 - 16
      /\ (y - 1600 + 399) \div 400 = (y + 399) \div 400 - 4
  OBVIOUS
<1>2. /\ (y + 3) \div 4 \in Int /\ (y + 99) \div 100 \in Int /\ (y + 399) \div 400 \in Int
  OBVIOUS
<1> QED
  BY <1>1, <1>2 DEF LeapDays

LEMMA DayNumberType ==
  ASSUME NEW d, IsGDate(d)
  PROVE  DayNumber(d) \in Int
<1>1. PICK y \in Int, m \in 1..12, nth \in Int : y = d.year /\ m = d.month /\ nth = d.day
  BY DEF IsGDate
<1>2. PICK y2 \in Int : y2 = IF m > 2 THEN y + 1 ELSE y
  OBVIOUS
<1>3. GBefore[m] \in Int /\ LeapDays(y2) \in Int
  BY DEF GBefore, LeapDays
<1>4. CASE m > 2
  BY <1>1, <1>2, <1>3, <1>4 DEF DayNumber
<1>5. CASE ~(m > 2)
  BY <1>1, <1>2, <1>3, <1>5 DEF DayNumber
<1> QED
  BY <1>4, <1>5

LEMMA NumbersFrom1600 ==
  ASSUME NEW d, IsGDate(d)
  PROVE  DayNumber([d EXCEPT !.year = @ - 1600]) = DayNumber(d) - 584388
<1>1. PICK y \in Int, m \in 1..12, nth \in Int :
        y = d.year /\ m = d.month /\ nth = d.day /\ d = Date(y, m, nth)
  BY DEF IsGDate, Date
<1>2. PICK y2 \in Int : y2 = IF m > 2 THEN y + 1 ELSE y
  OBVIOUS
<1>3. GBefore[m] \in Int /\ LeapDays(y2) \in Int
  BY DEF GBefore, LeapDays
<1>4. DayNumber(d) = 365 * y + LeapDays(y2) + nth + GBefore[m]
  <2>1. CASE m > 2
    BY <1>1, <1>2, <2>1 DEF DayNumber
  <2>2. CASE ~(m > 2)
    BY <1>1, <1>2, <2>2 DEF DayNumber
  <2> QED
    BY <2>1, <2>2
<1>5. LeapDays(y2 - 1600) = LeapDays(y2) - 388
  BY LeapDaysFrom1600
<1>6. [d EXCEPT !.year = @ - 1600] = Date(y - 1600, m, nth)
  BY <1>1 DEF Date
<1>7. DayNumber(Date(y - 1600, m, nth))
        = 365 * (y - 1600) + LeapDays(y2 - 1600) + nth + GBefore[m]
  <2>1. CASE m > 2
    <3>1. y2 - 1600 = y - 1600 + 1
      BY <1>2, <2>1
    <3> QED
      BY <2>1, <3>1 DEF DayNumber, Date
  <2>2. CASE ~(m > 2)
    <3>1. y2 - 1600 = y - 1600
      BY <1>2, <2>2
    <3> QED
      BY <2>2, <3>1 DEF DayNumber, Date
  <2> QED
    BY <2>1, <2>2
<1> QED
  BY <1>3, <1>4, <1>5, <1>6, <1>7

\* The number of the day that bale_listener.py computes.
ListenerDay(d) ==
  365 * (d.year - 1600) + LeapDays(d.year - 1600) + GBefore[d.month]
    + (IF d.month > 2 /\ GLeap(d.year) THEN 1 ELSE 0) + d.day - 1

LEMMA ListenerNumber ==
  ASSUME NEW d, IsGDate(d)
  PROVE  ListenerDay(d) = DayNumber(d) - 584389
<1>1. PICK y \in Int, m \in 1..12, nth \in Int : y = d.year /\ m = d.month /\ nth = d.day
  BY DEF IsGDate
<1>2. GBefore[m] \in Int /\ LeapDays(y) \in Int
  BY DEF GBefore, LeapDays
<1>3. LeapDays(y - 1600) = LeapDays(y) - 388
  BY LeapDaysFrom1600
<1>4. LeapDays(y + 1) = LeapDays(y) + (IF GLeap(y) THEN 1 ELSE 0)
  BY LeapDayAfterYear
<1>5. DayNumber(d) = 365 * y + LeapDays(y) + (IF m > 2 /\ GLeap(y) THEN 1 ELSE 0)
                       + nth + GBefore[m]
  <2>1. CASE m > 2
    <3>1. DayNumber(d) = 365 * y + LeapDays(y + 1) + nth + GBefore[m]
      BY <1>1, <2>1 DEF DayNumber
    <3> QED
      BY <1>2, <1>4, <2>1, <3>1
  <2>2. CASE ~(m > 2)
    <3>1. DayNumber(d) = 365 * y + LeapDays(y) + nth + GBefore[m]
      BY <1>1, <2>2 DEF DayNumber
    <3> QED
      BY <1>2, <2>2, <3>1
  <2> QED
    BY <2>1, <2>2
<1>6. ListenerDay(d) = 365 * (y - 1600) + LeapDays(y - 1600) + GBefore[m]
                         + (IF m > 2 /\ GLeap(y) THEN 1 ELSE 0) + nth - 1
  BY <1>1 DEF ListenerDay
<1> QED
  BY <1>2, <1>3, <1>5, <1>6

-------------------------------------------------------------------------------
\* g and j are days of their calendars, and the same day.
WalkInv ==
  /\ IsGDate(g)
  /\ IsJDate(j)
  /\ JDayNumber(j) = GDayNumber(g) + 355667

LEMMA DaysAreNumbers ==
  ASSUME WalkInv
  PROVE  JDayNumber(j) \in Int /\ GDayNumber(g) \in Int
<1>1. PICK y \in Int, m \in 1..12, nth \in Int : y = j.year /\ m = j.month /\ nth = j.day
  BY DEF WalkInv, IsJDate
<1>2. PICK y2 \in Int, m2 \in 1..12, day2 \in Int :
        y2 = g.year /\ m2 = g.month /\ day2 = g.day
  BY DEF WalkInv, IsGDate
<1>3. JBefore[m] \in Int /\ JLeapDays(y + 1595) \in Int
  BY DEF JBefore, JLeapDays
<1>4. MonthStarts(y2)[m2] \in Int /\ LeapDays(y2) \in Int
  BY DEF MonthStarts, GBefore, LeapDays
<1>5. JDayNumber(j) \in Int
  BY <1>1, <1>3 DEF JDayNumber, JalaliDay
<1> QED
  BY <1>2, <1>4, <1>5 DEF GDayNumber, YearDay

\* The header counts from the year 0 what it should count from 1600.
LEMMA HeaderIsRead ==
  ASSUME NEW d, IsGDate(d)
  PROVE  TransportToJalali(d) = gregorian_to_jalali(CenturiesOn(d))
<1>1. PICK y \in Int, m \in 1..12, nth \in Int :
        y = d.year /\ m = d.month /\ nth = d.day /\ d = Date(y, m, nth)
  BY DEF IsGDate, Date
<1>2. PICK y2 \in Int : y2 = IF m > 2 THEN y + 1 ELSE y
  OBVIOUS
<1>3. GBefore[m] \in Int /\ LeapDays(y2) \in Int
  BY DEF GBefore, LeapDays
<1>4. DayNumber(d) = 365 * y + LeapDays(y2) + nth + GBefore[m]
  <2>1. CASE m > 2
    BY <1>1, <1>2, <2>1 DEF DayNumber
  <2>2. CASE ~(m > 2)
    BY <1>1, <1>2, <2>2 DEF DayNumber
  <2> QED
    BY <2>1, <2>2
<1>5. LeapDays(y2 + 1600) = LeapDays(y2) + 388
  <2>1. PICK y3 \in Int : y3 = y2 + 1600
    OBVIOUS
  <2>2. LeapDays(y3 - 1600) = LeapDays(y3) - 388
    BY LeapDaysFrom1600
  <2>3. LeapDays(y3) \in Int
    BY DEF LeapDays
  <2>4. y3 - 1600 = y2
    BY <2>1
  <2> QED
    BY <1>3, <2>1, <2>2, <2>3, <2>4
<1>6. PICK later : later = CenturiesOn(d)
  OBVIOUS
<1>7. later.year = y + 1600 /\ later.month = m /\ later.day = nth - 1
  BY <1>1, <1>6 DEF Date, CenturiesOn
<1>8. DayNumber(later) = DayNumber(d) + 584387
  <2>1. CASE m > 2
    <3>1. DayNumber(later) = 365 * (y + 1600) + LeapDays(y2 + 1600) + (nth - 1) + GBefore[m]
      BY <1>2, <1>7, <2>1 DEF DayNumber
    <3> QED
      BY <1>3, <1>4, <1>5, <3>1
  <2>2. CASE ~(m > 2)
    <3>1. DayNumber(later) = 365 * (y + 1600) + LeapDays(y2 + 1600) + (nth - 1) + GBefore[m]
      BY <1>2, <1>7, <2>2 DEF DayNumber
    <3> QED
      BY <1>3, <1>4, <1>5, <3>1
  <2> QED
    BY <2>1, <2>2
<1>9. PICK days \in Int : days = DayNumber(d) - 81
  <2>1. DayNumber(d) \in Int
    BY <1>3, <1>4
  <2> QED
    BY <2>1
<1>10. TransportToJalali(d) = FromCycle(979, days, 366)
  <2>1. DayNumber(d) - 80 - 1 = days
    BY <1>3, <1>4, <1>9
  <2> QED
    BY <2>1 DEF TransportToJalali
<1>11. gregorian_to_jalali(later) = FromCycle(-1595, days + 940134, 366)
  <2>1. 355666 + DayNumber(later) = days + 940134
    BY <1>3, <1>4, <1>8, <1>9
  <2> QED
    BY <2>1 DEF gregorian_to_jalali
<1>12. FromCycle(-1595, days + 940134, 366) = FromCycle(979, days, 366)
  <2>1. (days + 940134) % CycleDays = days % CycleDays
    BY DEF CycleDays
  <2>2. (days + 940134) \div CycleDays = days \div CycleDays + 78
    BY DEF CycleDays
  <2>3. PICK rest \in Int : rest = 4 * ((days % CycleDays) \div FourYears)
    BY DEF CycleDays, FourYears
  <2>4. PICK q \in Int : q = days \div CycleDays
    BY DEF CycleDays
  <2>5. -1595 + 33 * (q + 78) + rest = 979 + 33 * q + rest
    OBVIOUS
  <2> QED
    BY <2>1, <2>2, <2>3, <2>4, <2>5 DEF FromCycle
<1> QED
  BY <1>6, <1>10, <1>11, <1>12

\* Four years after a date, a week less or a day more, FromGregorianCycle is three years on.
LEMMA YearsOn ==
  ASSUME NEW d, IsGDate(d), NEW k \in 1454..1461
  PROVE  FromGregorianCycle(GDayNumber(d) + k).year >= d.year + 3
<1>1. PICK y \in Int, m \in 1..12, nth \in Int : y = d.year /\ m = d.month /\ nth = d.day
  BY DEF IsGDate
<1>2. PICK n \in Int :
        n = MonthStarts(y)[m] + nth - 1 /\ 0 <= n /\ n <= (IF GLeap(y) THEN 365 ELSE 364)
  <2>1. GMonths(y)
    BY GTable
  <2>2. /\ GLength(y, m) \in Int /\ MonthStarts(y)[m] \in Int /\ MonthStarts(y)[m] >= 0
        /\ MonthStarts(y)[m] + GLength(y, m) <= (IF GLeap(y) THEN 366 ELSE 365)
    BY <2>1 DEF GMonths
  <2> QED
    BY <1>1, <2>2 DEF IsGDate
<1>3. PICK days \in Int : days = GDayNumber(d) + k /\ days = YearDay(y, n) + k
  <2>1. GDayNumber(d) = YearDay(y, n)
    BY <1>1, <1>2 DEF GDayNumber
  <2>2. YearDay(y, n) \in Int
    BY DEF YearDay, LeapDays
  <2> QED
    BY <2>1, <2>2
<1>4. /\ LeapDays(y) \in Int /\ LeapDays(y + 3) \in Int
      /\ LeapDays(y + 4) \in Int /\ LeapDays(y + 5) \in Int
      /\ LeapDays(y + 3) - LeapDays(y) \in 0..1
      /\ LeapDays(y + 4) = LeapDays(y + 3) + (IF GLeap(y + 3) THEN 1 ELSE 0)
      /\ LeapDays(y + 5) = LeapDays(y + 4) + (IF GLeap(y + 4) THEN 1 ELSE 0)
      /\ LeapDays(y + 4) - LeapDays(y) \in 0..1
  <2>1. /\ LeapDays(y) \in Int /\ LeapDays(y + 3) \in Int
        /\ LeapDays(y + 4) \in Int /\ LeapDays(y + 5) \in Int
    BY DEF LeapDays
  <2>2. LeapDays(y + 4) = LeapDays(y + 3) + (IF GLeap(y + 3) THEN 1 ELSE 0)
    <3>1. LeapDays(y + 3 + 1) = LeapDays(y + 3) + (IF GLeap(y + 3) THEN 1 ELSE 0)
      BY LeapDayAfterYear
    <3> QED
      BY <3>1
  <2>3. LeapDays(y + 5) = LeapDays(y + 4) + (IF GLeap(y + 4) THEN 1 ELSE 0)
    <3>1. LeapDays(y + 4 + 1) = LeapDays(y + 4) + (IF GLeap(y + 4) THEN 1 ELSE 0)
      BY LeapDayAfterYear
    <3> QED
      BY <3>1
  <2>4. LeapDays(y + 4) - LeapDays(y) \in 0..1
    BY DEF LeapDays
  <2>5. LeapDays(y + 3) - LeapDays(y) \in 0..1
    BY DEF LeapDays
  <2> QED
    BY <2>1, <2>2, <2>3, <2>4, <2>5
<1>5. \A z, nz \in Int :
        0 <= nz /\ nz <= (IF GLeap(z) THEN 365 ELSE 364) /\ days = YearDay(z, nz)
          => FromGregorianCycle(days).year = z
  <2>1. SUFFICES ASSUME NEW z \in Int, NEW nz \in Int, 0 <= nz,
                        nz <= (IF GLeap(z) THEN 365 ELSE 364), days = YearDay(z, nz)
                 PROVE  FromGregorianCycle(days).year = z
    OBVIOUS
  <2>2. FromGregorianCycle(days) = DayOfYear(z, nz, MonthStarts(z))
    BY <2>1, GregorianYear
  <2> QED
    BY <2>2 DEF DayOfYear, Date
<1>11. days = 365 * y + LeapDays(y) + n + k
  BY <1>3, <1>4 DEF YearDay
<1>6. PICK nz \in Int : days = YearDay(y + 4, nz) /\ nz \in -7..366
  <2>1. PICK nz \in Int : nz = n + k - 1460 - (LeapDays(y + 4) - LeapDays(y))
    BY <1>4
  <2>2. days = YearDay(y + 4, nz)
    <3>1. days = 365 * (y + 4) + LeapDays(y + 4) + nz
      BY <1>11, <1>4, <2>1
    <3> QED
      BY <3>1 DEF YearDay
  <2>3. nz \in -7..366
    <3>1. n <= 365
      BY <1>2
    <3>2. PICK gap \in 0..1 : gap = LeapDays(y + 4) - LeapDays(y)
      BY <1>4
    <3> QED
      BY <1>2, <2>1, <3>1, <3>2
  <2> QED
    BY <2>2, <2>3
<1>7. CASE nz < 0
  <2>1. PICK n3 \in Int : n3 = nz + 365 + (IF GLeap(y + 3) THEN 1 ELSE 0)
    OBVIOUS
  <2>2. days = YearDay(y + 3, n3)
    <3>1. days = 365 * (y + 4) + LeapDays(y + 4) + nz
      BY <1>6 DEF YearDay
    <3>2. days = 365 * (y + 3) + LeapDays(y + 3) + n3
      BY <1>4, <2>1, <3>1
    <3> QED
      BY <3>2 DEF YearDay
  <2>3. 0 <= n3 /\ n3 <= (IF GLeap(y + 3) THEN 365 ELSE 364)
    BY <1>6, <1>7, <2>1
  <2> QED
    BY <1>1, <1>3, <1>5, <2>2, <2>3
<1>8. CASE 0 <= nz /\ nz <= (IF GLeap(y + 4) THEN 365 ELSE 364)
  BY <1>1, <1>3, <1>5, <1>6, <1>8
<1>9. CASE nz > (IF GLeap(y + 4) THEN 365 ELSE 364)
  <2>1. PICK n5 \in Int : n5 = nz - 365 - (IF GLeap(y + 4) THEN 1 ELSE 0)
    OBVIOUS
  <2>2. days = YearDay(y + 5, n5)
    <3>1. days = 365 * (y + 4) + LeapDays(y + 4) + nz
      BY <1>6 DEF YearDay
    <3>2. days = 365 * (y + 5) + LeapDays(y + 5) + n5
      BY <1>4, <2>1, <3>1
    <3> QED
      BY <3>2 DEF YearDay
  <2>3. 0 <= n5 /\ n5 <= (IF GLeap(y + 5) THEN 365 ELSE 364)
    BY <1>6, <1>9, <2>1
  <2> QED
    BY <1>1, <1>3, <1>5, <2>2, <2>3
<1> QED
  BY <1>6, <1>7, <1>8, <1>9

\* Until 1600 the number of a Jalali year is less than that of the Gregorian one.
LEMMA JalaliYearIsLess ==
  ASSUME WalkInv, j.year \in 1200..1600
  PROVE  j.year < g.year
<1>1. PICK y \in Int, m \in 1..12, nth \in Int : y = j.year /\ m = j.month /\ nth = j.day
  BY DEF WalkInv, IsJDate
<1>2. PICK z \in Int, m2 \in 1..12, day2 \in Int :
        z = g.year /\ m2 = g.month /\ day2 = g.day
  BY DEF WalkInv, IsGDate
<1>3. PICK n \in Int : n = JBefore[m] + nth - 1 /\ 0 <= n
  <2>1. JBefore[m] \in Int /\ JBefore[m] >= 0
    BY DEF JBefore
  <2> QED
    BY <1>1, <2>1 DEF WalkInv, IsJDate
<1>4. PICK n2 \in Int : n2 = MonthStarts(z)[m2] + day2 - 1 /\ n2 <= 365
  <2>1. GMonths(z)
    BY GTable
  <2>2. /\ GLength(z, m2) \in Int /\ MonthStarts(z)[m2] \in Int
        /\ MonthStarts(z)[m2] + GLength(z, m2) <= (IF GLeap(z) THEN 366 ELSE 365)
    BY <2>1 DEF GMonths
  <2>3. MonthStarts(z)[m2] + GLength(z, m2) <= 366
    BY <2>2
  <2> QED
    BY <1>2, <2>2, <2>3 DEF WalkInv, IsGDate
<1>5. 365 * (y + 1595) + JLeapDays(y + 1595) + n = 365 * z + LeapDays(z) + n2 + 355667
  BY <1>1, <1>2, <1>3, <1>4 DEF WalkInv, JDayNumber, GDayNumber, JalaliDay, YearDay
<1>6. ASSUME z <= y PROVE FALSE
  <2>1. PICK a, b, c \in Int : a = (z + 3) \div 4 /\ b = (z + 99) \div 100 /\ c = (z + 399) \div 400
    OBVIOUS
  <2>2. 4 * a <= z + 3 /\ 100 * b >= z /\ 400 * c <= z + 399
    BY <2>1
  <2>3. LeapDays(z) = a - b + c
    BY <2>1 DEF LeapDays
  <2>4. PICK q, r \in Int : q = (y + 1595) \div 33 /\ r = (((y + 1595) % 33) + 3) \div 4
    OBVIOUS
  <2>5. 33 * q >= y + 1595 - 32 /\ r >= 0
    BY <2>4
  <2>6. JLeapDays(y + 1595) = q * 8 + r
    BY <2>4 DEF JLeapDays
  <2> QED
    BY <1>1, <1>3, <1>4, <1>5, <1>6, <2>2, <2>3, <2>5, <2>6
<1> QED
  BY <1>1, <1>2, <1>6

\* What behavior_engine.py converts is three years on or more.
LEMMA BehaviorIsLate ==
  ASSUME WalkInv
  PROVE  BehaviorToGregorian(j).year >= g.year + 3
<1>1. PICK y \in Int, m \in 1..12, nth \in Int : y = j.year /\ m = j.month /\ nth = j.day
  BY DEF WalkInv, IsJDate
<1>2. PICK start \in Int : start = JBefore[m]
  BY DEF JBefore
<1>3. start = IF m <= 7 THEN 31 * (m - 1) ELSE 30 * (m - 1) + 6
  BY <1>2 DEF JBefore
<1>4. PICK before \in Int : before = (IF m < 7 THEN 31 ELSE 30) * (m - 1)
  OBVIOUS
<1>5. start - before \in {0, 6}
  <2>1. CASE m < 7
    BY <1>3, <1>4, <2>1
  <2>2. CASE m = 7
    BY <1>3, <1>4, <2>2
  <2>3. CASE m > 7
    BY <1>3, <1>4, <2>3
  <2> QED
    BY <2>1, <2>2, <2>3
<1>6. PICK leaps \in Int : leaps = JLeapDays(y + 1599) - JLeapDays(y + 1595) /\ leaps \in 0..1
  <2>1. JLeapDays(y + 1599) - JLeapDays(y + 1595) \in 0..1
    BY DEF JLeapDays
  <2> QED
    BY <2>1
<1>7. JLeapDays(y + 1595) \in Int /\ JLeapDays(y + 1599) \in Int
  BY DEF JLeapDays
<1>8. PICK n \in Int : n = GDayNumber(g)
  BY DaysAreNumbers
<1>9. 365 * (y + 1595) + JLeapDays(y + 1595) + (start + nth - 1) = n + 355667
  BY <1>1, <1>2, <1>8 DEF WalkInv, JDayNumber, JalaliDay
<1>10. PICK k \in 1454..1461 : k = 1460 + leaps - (start - before)
  BY <1>5, <1>6
<1>11. BehaviorToGregorian(j)
         = FromGregorianCycle(365 * (y + 1599) + JLeapDays(y + 1599) + nth + before - 355668)
  BY <1>1, <1>4 DEF BehaviorToGregorian
<1>12. 365 * (y + 1599) + JLeapDays(y + 1599) + nth + before - 355668 = n + k
  BY <1>6, <1>7, <1>9, <1>10
<1>13. FromGregorianCycle(n + k).year >= g.year + 3
  BY <1>8, YearsOn DEF WalkInv
<1> QED
  BY <1>11, <1>12, <1>13

LEMMA ContractIsRead ==
  ASSUME WalkInv
  PROVE  ContractDateIsRead
<1>1. \A form \in {"digits", "dashes"} : contract_date(form, g) = g
  BY DEF WalkInv, IsGDate, contract_date
<1>2. ASSUME j.year \in 1200..1600, NEW form \in ContractForms
      PROVE  \/ contract_date(form, j).year <= j.year /\ j.year < g.year
             \/ contract_date(form, j).year >= g.year + 3
  <2>1. PICK y \in Int : y = j.year
    BY DEF WalkInv, IsJDate
  <2>2. y < g.year
    BY <1>2, <2>1, JalaliYearIsLess
  <2>3. CASE form # "slashes" /\ j.day <= GLength(j.year, j.month)
    BY <2>1, <2>2, <2>3 DEF contract_date
  <2>4. CASE ~(form # "slashes" /\ j.day <= GLength(j.year, j.month))
    BY <1>2, <2>4, BehaviorIsLate DEF contract_date
  <2> QED
    BY <2>3, <2>4
<1> QED
  BY <1>1, <1>2 DEF ContractDateIsRead

\* On a day of the walk every conversion gives what DatesAreRead says it does.
LEMMA WalkReads ==
  ASSUME WalkInv
  PROVE  DatesAreRead
<1>0. IsGDate(g) /\ IsJDate(j)
  BY DEF WalkInv
<1>1. PICK number \in Int : number = DayNumber(g)
  <2>1. DayNumber(g) \in Int
    BY <1>0, DayNumberType
  <2> QED
    BY <2>1
<1>2. number = GDayNumber(g) + 1 /\ JDayNumber(j) = number + 355666
  BY <1>0, <1>1, DayNumberIsOne, DaysAreNumbers DEF WalkInv
<1>3. gregorian_to_jalali(g) = j
  <2>1. PICK days \in Int : days = 355666 + number
    OBVIOUS
  <2>2. PICK y0 \in Int : y0 = -1595
    OBVIOUS
  <2>3. IsCount(j, y0, days, 0)
    BY <1>2, <2>1, <2>2, DaysAreNumbers DEF IsCount
  <2>4. FromCycle(y0, days, 366) = j
    BY <1>0, <2>3, JalaliIsRead
  <2> QED
    BY <1>1, <2>1, <2>2, <2>4 DEF gregorian_to_jalali
<1>4. PICK days \in Int : days = number - 584468
  OBVIOUS
<1>5. FromCycle(979, days, 366) = j
  <2>1. IsCount(j, 979, days, 78)
    BY <1>2, <1>4, DaysAreNumbers DEF IsCount
  <2> QED
    BY <1>0, <2>1, JalaliIsRead
<1>6. BundleToJalali(g) = j
  <2>1. DayNumber([g EXCEPT !.year = @ - 1600]) - 80 = days
    BY <1>0, <1>1, <1>4, NumbersFrom1600
  <2> QED
    BY <1>5, <2>1 DEF BundleToJalali
<1>7. ListenerToJalali(g) = j
  <2>1. ListenerDay(g) - 79 = days
    BY <1>0, <1>1, <1>4, ListenerNumber
  <2>2. ListenerToJalali(g) = FromCycle(979, ListenerDay(g) - 79, 366)
    BY DEF ListenerToJalali, ListenerDay
  <2> QED
    BY <1>5, <2>1, <2>2
<1>8. jalali_to_gregorian(j) = g
  <2>1. PICK y \in Int, m \in 1..12, nth \in Int : y = j.year /\ m = j.month /\ nth = j.day
    BY <1>0 DEF IsJDate
  <2>2. PICK start \in Int : start = JBefore[m]
    BY DEF JBefore
  <2>3. start = IF m <= 7 THEN 31 * (m - 1) ELSE 30 * (m - 1) + 6
    BY <2>2 DEF JBefore
  <2>4. PICK first \in Int : first = 365 * (y + 1595) + JLeapDays(y + 1595)
    BY DEF JLeapDays
  <2>5. JDayNumber(j) = first + (start + nth - 1)
    BY <2>1, <2>2, <2>4 DEF JDayNumber, JalaliDay
  <2>6. PICK n \in Int : n = GDayNumber(g)
    BY DaysAreNumbers
  <2>7. first + nth + start - 355668 = n
    BY <2>5, <2>6 DEF WalkInv
  <2>8. FromGregorianCycle(n) = g
    BY <1>0, <2>6, GregorianIsRead
  <2>9. jalali_to_gregorian(j) = FromGregorianCycle(first + nth + start - 355668)
    BY <2>1, <2>3, <2>4 DEF jalali_to_gregorian
  <2> QED
    BY <2>7, <2>8, <2>9
<1> QED
  <2>1. HeaderIsCenturiesOn
    BY <1>0, HeaderIsRead DEF HeaderIsCenturiesOn
  <2>2. ContractDateIsRead
    BY ContractIsRead
  <2> QED
    BY <1>3, <1>6, <1>7, <1>8, <2>1, <2>2 DEF DatesAreRead, DatesAreToday, ExpiryIsRead

LEMMA InitWalkInv == CalendarInit => WalkInv
<1> SUFFICES ASSUME CalendarInit PROVE WalkInv
  OBVIOUS
<1>1. g = Date(1991, 3, 21) /\ j = Date(1370, 1, 1)
  BY DEF CalendarInit
<1>2. IsGDate(g)
  BY <1>1 DEF IsGDate, Date, GLength, GDays
<1>3. IsJDate(j)
  BY <1>1 DEF IsJDate, Date, JLength, JDays
<1>4. LeapDays(1991) = 483
  BY DEF LeapDays
<1>5. ~GLeap(1991) /\ MonthStarts(1991)[3] = 59
  BY DEF GLeap, Divides, MonthStarts, GBefore
<1>6. JLeapDays(2965) = 719
  BY DEF JLeapDays
<1>7. JBefore[1] = 0
  BY DEF JBefore
<1>8. JDayNumber(j) = 365 * 2965 + 719 + 0
  BY <1>1, <1>6, <1>7 DEF JDayNumber, JalaliDay, Date
<1>9. GDayNumber(g) = 365 * 1991 + 483 + 79
  BY <1>1, <1>4, <1>5 DEF GDayNumber, YearDay, Date
<1> QED
  BY <1>2, <1>3, <1>8, <1>9 DEF WalkInv

LEMMA NextWalkInv == WalkInv /\ [CalendarNext]_calendarVars => WalkInv'
<1> SUFFICES ASSUME WalkInv, [CalendarNext]_calendarVars PROVE WalkInv'
  OBVIOUS
<1>1. CASE CalendarNext
  <2>1. g' = Tomorrow(g, GLength) /\ j' = Tomorrow(j, JLength)
    BY <1>1 DEF CalendarNext
  <2>2. IsGDate(g') /\ GDayNumber(g') = GDayNumber(g) + 1
    BY <2>1, GTomorrow DEF WalkInv
  <2>3. IsJDate(j') /\ JDayNumber(j') = JDayNumber(j) + 1
    BY <2>1, JTomorrow DEF WalkInv
  <2>4. JDayNumber(j') = GDayNumber(g') + 355667
    BY <2>2, <2>3, DaysAreNumbers DEF WalkInv
  <2> QED
    BY <2>2, <2>3, <2>4 DEF WalkInv
<1>2. CASE UNCHANGED calendarVars
  BY <1>2 DEF calendarVars, WalkInv
<1> QED
  BY <1>1, <1>2

\* Both dates of the walk are dates of their calendars, and number the same day.
THEOREM WalkInvariance == CalendarSpec => []WalkInv
<1> QED
  BY InitWalkInv, NextWalkInv, PTL DEF CalendarSpec

\* On every day, the conversions of the reports' dates, of the listener and of an expiry date
\* give the date of the two calendars; the header of a message and a contract's Jalali date
\* are centuries and years away from it.
THEOREM EveryDateIsRead == CalendarSpec => []DatesAreRead
<1>1. WalkInv => DatesAreRead
  BY WalkReads
<1> QED
  BY <1>1, WalkInvariance, PTL

-------------------------------------------------------------------------------
\* "A collection does not last into the next slot": with the minute that the loop moves away
\* it ends before the half hour after the next does.
ShortCollections == \A d \in Lasts : d + Away <= 30 * 60

ScheduleTypeOK ==
  /\ loops \in BOOLEAN /\ trading \in BOOLEAN /\ late \in BOOLEAN /\ turned \in BOOLEAN
  /\ begun \in Nat /\ clock \in Nat /\ taken \subseteq Nat
  /\ place \in (IF loops THEN {"look", "away"} ELSE {"look", "recheck", "ended"})

\* Who is about to collect has seen a day of trading; the job collects last of all.
PlaceInv ==
  /\ place \in {"recheck", "away"} \/ taken # {} => trading
  /\ ~loops /\ place # "ended" => taken = {}
  /\ ~loops => \A c, e \in taken : c = e

\* What the loop has taken is over a minute ago when it looks at the clock again.
AwayInv == loops => \A c \in taken : c + (IF place = "look" THEN Away ELSE 0) <= clock

InSlots == \A c \in taken : HalfHour(Minute(c)) /\ (~turned => Minute(c) \in Opens..End)

\* The slots up to the clock, or up to where the loop is moving away to.
NoneMissed ==
  loops /\ trading /\ ~late /\ ~turned =>
    \A m \in Opens..End :
      HalfHour(m) /\ begun < (m + 1) * 60 /\ (m + 1) * 60 <= (IF place = "away" THEN clock + Away ELSE clock)
        => \E c \in taken : Minute(c) = m

ScheduleInv == ScheduleTypeOK /\ PlaceInv /\ AwayInv /\ SlotOnce /\ InSlots

-------------------------------------------------------------------------------
\* The arithmetic of minutes and half hours.
LEMMA Minutes ==
  ASSUME NEW c \in Nat
  PROVE  Minute(c) \in Nat /\ 60 * Minute(c) <= c /\ c < 60 * Minute(c) + 60
BY DEF Minute

LEMMA TornMinute ==
  ASSUME NEW c \in Nat, (c + 1) % 3600 = 0
  PROVE  Minute(c) - 59 \in Nat /\ HalfHour(Minute(c) - 59) /\ HalfHour(Minute(c + 1))
BY DEF Minute, HalfHour

LEMMA LaterMinute ==
  ASSUME NEW c \in Nat, NEW e \in Nat, c + Away <= e
  PROVE  Minute(c) # Minute(e)
BY DEF Minute, Away

\* What is read of the clock.
LEMMA ReadsAre ==
  ASSUME ScheduleTypeOK, NEW r \in Reads
  PROVE  /\ r.at \in Nat /\ r.at >= clock /\ r.minute \in Nat /\ r.torn \in BOOLEAN
         /\ HalfHour(r.minute) => HalfHour(Minute(r.at))
         /\ ~r.torn => r.at = clock /\ r.minute = Minute(clock)
<1>1. clock \in Nat BY DEF ScheduleTypeOK
<1>2. CASE r = [at |-> clock, minute |-> Minute(clock), torn |-> FALSE]
  BY <1>1, <1>2, Minutes
<1>3. CASE (clock + 1) % 3600 = 0 /\ r = [at |-> clock + 1, minute |-> Minute(clock) - 59, torn |-> TRUE]
  BY <1>1, <1>3, TornMinute
<1> QED BY <1>2, <1>3 DEF Reads

LEMMA SleepsAre ==
  ASSUME NEW m \in Nat
  PROVE  ToSlot(m) \in Nat /\ ToNextSlot(m) \in Nat /\ (m < Opens => (Opens - m) * 60 \in Nat)
<1>1. ToSlot(m) \in Nat BY DEF ToSlot, Nine
<1>2. ToNextSlot(m) \in Nat BY DEF ToNextSlot
<1>3. m < Opens => (Opens - m) * 60 \in Nat BY DEF Opens, Nine
<1> QED BY <1>1, <1>2, <1>3

\* A sleep takes nothing, and time goes on.
LEMMA SleepStep ==
  ASSUME ScheduleInv, NEW r, r.at \in Nat, r.at >= clock, r.torn \in BOOLEAN, NEW s \in Nat, NEW next,
         Sleeps(r, s, next), next \in IF loops THEN {"look"} ELSE {"recheck"}, place # "ended", ~loops => trading,
         place = "away" => s >= Away
  PROVE  ScheduleInv'
<1> USE DEF ScheduleInv
<1>1. /\ place' = next /\ turned' = (turned \/ r.torn) /\ UNCHANGED <<loops, trading, begun, taken>>
      /\ clock' \in Nat /\ clock' >= clock + s /\ late' \in BOOLEAN
  <2>1. PICK o \in Nat : clock' = r.at + s + o
    <3>1. CASE clock' = r.at + s
      <4>1. r.at + s = r.at + s + 0 OBVIOUS
      <4> QED BY <3>1, <4>1
    <3>2. CASE \E o \in Overslept : clock' = r.at + s + o BY <3>2, SecondsAssumption
    <3> QED BY <3>1, <3>2 DEF Sleeps
  <2>2. clock' \in Nat /\ clock' >= clock + s BY <2>1 DEF ScheduleTypeOK
  <2>3. late' \in BOOLEAN BY DEF Sleeps, ScheduleTypeOK
  <2>4. place' = next /\ turned' = (turned \/ r.torn) /\ UNCHANGED <<loops, trading, begun, taken>> BY DEF Sleeps
  <2> QED BY <2>2, <2>3, <2>4
<1>t. turned' \in BOOLEAN /\ (turned => turned')
  <2>1. CASE turned BY <1>1, <2>1
  <2>2. CASE ~turned BY <1>1, <2>2
  <2> QED BY <2>1, <2>2
<1>2. ScheduleTypeOK'
  BY <1>1, <1>t DEF ScheduleTypeOK
<1>3. PlaceInv' BY <1>1 DEF PlaceInv, ScheduleTypeOK
<1>4. AwayInv' BY <1>1 DEF AwayInv, ScheduleTypeOK, Away
<1>5. SlotOnce' BY <1>1 DEF SlotOnce
<1>6. InSlots' BY <1>1, <1>t DEF InSlots, ScheduleTypeOK, Opens
<1> QED BY <1>2, <1>3, <1>4, <1>5, <1>6

LEMMA CollectStep ==
  ASSUME ScheduleInv, NEW r \in Reads, HalfHour(r.minute), r.minute \in Opens..End, trading,
         NEW next, Collects(r, next),
         IF loops THEN place = "look" /\ next = "away" ELSE taken = {} /\ next = "ended"
  PROVE  ScheduleInv'
<1> USE DEF ScheduleInv
<1>1. PICK d \in Nat : clock' = r.at + d BY SecondsAssumption DEF Collects
<1>2. /\ place' = next /\ turned' = (turned \/ r.torn) /\ taken' = taken \cup {r.at}
      /\ UNCHANGED <<loops, trading, begun, late>>
  BY DEF Collects
<1>3. /\ r.at \in Nat /\ r.at >= clock /\ r.torn \in BOOLEAN
      /\ HalfHour(Minute(r.at)) /\ (~r.torn => Minute(r.at) \in Opens..End)
  BY ReadsAre
<1>t. turned' \in BOOLEAN
  <2>1. CASE turned BY <1>2, <2>1
  <2>2. CASE ~turned BY <1>2, <1>3, <2>2
  <2> QED BY <2>1, <2>2
<1>4. ScheduleTypeOK'
  <2>1. clock' \in Nat BY <1>1, <1>3
  <2>3. taken' \subseteq Nat BY <1>2, <1>3 DEF ScheduleTypeOK
  <2>2. place' \in IF loops THEN {"look", "away"} ELSE {"look", "recheck", "ended"} BY <1>2
  <2> QED BY <1>2, <1>t, <2>1, <2>2, <2>3 DEF ScheduleTypeOK
<1>5. PlaceInv' BY <1>2 DEF PlaceInv, ScheduleTypeOK
<1>6. AwayInv'
  <2> SUFFICES ASSUME loops, NEW c \in taken' PROVE c + (IF place' = "look" THEN Away ELSE 0) <= clock'
    BY <1>2 DEF AwayInv
  <2>1. place' = "away" BY <1>2
  <2>2. c \in taken => c <= clock BY DEF AwayInv, Away, ScheduleTypeOK
  <2> QED BY <1>1, <1>2, <1>3, <2>1, <2>2 DEF ScheduleTypeOK
<1>7. SlotOnce'
  <2>1. CASE ~loops BY <1>2, <2>1 DEF SlotOnce
  <2>2. CASE loops
    <3>1. \A c \in taken : c + Away <= r.at BY <1>3, <2>2 DEF AwayInv, ScheduleTypeOK, Away
    <3>2. \A c \in taken : Minute(c) # Minute(r.at) BY <1>3, <3>1, LaterMinute DEF ScheduleTypeOK
    <3> QED BY <1>2, <3>2 DEF SlotOnce
  <2> QED BY <2>1, <2>2
<1>8. InSlots' BY <1>2, <1>3 DEF InSlots, ScheduleTypeOK, Opens
<1> QED BY <1>4, <1>5, <1>6, <1>7, <1>8

\* Where a script is, what it has taken and when: a slot is taken at most once, and a loop that
\* looks at the clock again has left behind what it took.
THEOREM ScheduleInvariance == ScheduleSpec => []ScheduleInv
<1>1. ScheduleInit => ScheduleInv
  BY SecondsAssumption DEF ScheduleInit, ScheduleInv, ScheduleTypeOK, PlaceInv, AwayInv, SlotOnce, InSlots
<1>2. ScheduleInv /\ [ScheduleNext]_scheduleVars => ScheduleInv'
  <2> SUFFICES ASSUME ScheduleInv, [ScheduleNext]_scheduleVars PROVE ScheduleInv' OBVIOUS
  <2>1. CASE UNCHANGED scheduleVars
    <3>1. UNCHANGED <<loops, trading, begun, clock, place, late, turned, taken>> BY <2>1 DEF scheduleVars
    <3>2. ScheduleTypeOK' /\ PlaceInv' BY <3>1 DEF ScheduleInv, ScheduleTypeOK, PlaceInv
    <3>3. AwayInv' /\ SlotOnce' BY <3>1 DEF ScheduleInv, AwayInv, SlotOnce
    <3>4. InSlots' BY <3>1 DEF ScheduleInv, InSlots, Opens
    <3> QED BY <3>2, <3>3, <3>4 DEF ScheduleInv
  <2>2. CASE JobLeaves \/ JobMisses
    <3>1. ~loops /\ place' = "ended" /\ UNCHANGED <<loops, trading, begun, clock, late, turned, taken>>
      BY <2>2 DEF JobLeaves, JobMisses, Leaves
    <3>2. ScheduleTypeOK' /\ PlaceInv' BY <3>1 DEF ScheduleInv, ScheduleTypeOK, PlaceInv
    <3>3. AwayInv' /\ SlotOnce' BY <3>1 DEF ScheduleInv, AwayInv, SlotOnce
    <3>4. InSlots' BY <3>1 DEF ScheduleInv, InSlots, Opens
    <3> QED BY <3>2, <3>3, <3>4 DEF ScheduleInv
  <2>3. CASE JobAligns
    <3>1. PICK r \in Reads : Sleeps(r, ToSlot(r.minute), "recheck") BY <2>3 DEF JobAligns
    <3> QED BY <2>3, <3>1, ReadsAre, SleepsAre, SleepStep DEF JobAligns, ScheduleInv
  <2>4. CASE JobCollects
    <3>1. PICK r \in Reads : SlotNow(r.minute) /\ Collects(r, "ended") BY <2>4 DEF JobCollects
    <3>2. HalfHour(r.minute) /\ r.minute \in Opens..End BY <2>4, <3>1 DEF JobCollects, SlotNow, Opens
    <3>3. trading /\ taken = {} BY <2>4 DEF JobCollects, ScheduleInv, PlaceInv
    <3> QED BY <2>4, <3>1, <3>2, <3>3, CollectStep DEF JobCollects
  <2>5. CASE LoopWaits
    <3>1. PICK r \in Reads :
            \/ Sleeps(r, 300, "look")
            \/ r.minute < Opens /\ Sleeps(r, (Opens - r.minute) * 60, "look")
            \/ Sleeps(r, ToNextSlot(r.minute), "look")
      BY <2>5 DEF LoopWaits
    <3>2. r.minute \in Nat /\ r.at \in Nat /\ r.at >= clock /\ r.torn \in BOOLEAN BY ReadsAre DEF ScheduleInv
    <3>3. PICK s \in Nat : Sleeps(r, s, "look") BY <3>1, <3>2, SleepsAre
    <3> QED BY <2>5, <3>2, <3>3, SleepStep DEF LoopWaits
  <2>6. CASE LoopCollects
    <3>1. PICK r \in Reads : HalfHour(r.minute) /\ r.minute \in Opens..End /\ Collects(r, "away") BY <2>6 DEF LoopCollects
    <3> QED BY <2>6, <3>1, CollectStep DEF LoopCollects
  <2>7. CASE LoopMovesAway
    <3> DEFINE r == [at |-> clock, torn |-> FALSE]
    <3>1. r.at \in Nat /\ r.at >= clock /\ r.torn \in BOOLEAN BY DEF ScheduleInv, ScheduleTypeOK
    <3>2. Sleeps(r, Away, "look") /\ loops /\ place = "away" /\ trading
      BY <2>7 DEF LoopMovesAway, ScheduleInv, PlaceInv
    <3> HIDE DEF r
    <3>3. Away \in Nat /\ Away >= Away BY DEF Away
    <3> QED BY <3>1, <3>2, <3>3, SleepStep
  <2> QED BY <2>1, <2>2, <2>3, <2>4, <2>5, <2>6, <2>7 DEF ScheduleNext
<1> QED BY <1>1, <1>2, PTL DEF ScheduleSpec

-------------------------------------------------------------------------------
\* What is left to the next half hour ends in it, or before the end of its minute.
LEMMA NextSlot ==
  ASSUME NEW c \in Nat, NEW m \in Nat, HalfHour(m), ~HalfHour(Minute(c)), (m + 1) * 60 <= c + ToNextSlot(Minute(c))
  PROVE  (m + 1) * 60 <= c
<1>1. Minute(c) \in Nat /\ 60 * Minute(c) <= c /\ c < 60 * Minute(c) + 60 BY Minutes
<1> DEFINE k == Minute(c)
<1> HIDE DEF k
<1>2. k \in Nat /\ 60 * k <= c /\ c < 60 * k + 60 /\ m % 30 = 0 /\ k % 30 # 0 BY <1>1 DEF k, HalfHour
<1>3. k % 30 \in 1..29 BY <1>2
<1>4. ToNextSlot(k) = (30 - (k % 30)) * 60 - 5 BY <1>3 DEF ToNextSlot
<1>5. (m + 1) * 60 <= c + (30 - (k % 30)) * 60 - 5 BY <1>4 DEF k
<1> QED BY <1>2, <1>5

LEMMA BeforeOpening ==
  ASSUME NEW c \in Nat, Minute(c) < Opens, NEW m \in Opens..End
  PROVE  ~((m + 1) * 60 <= c + (Opens - Minute(c)) * 60)
<1>1. Minute(c) \in Nat /\ c < 60 * Minute(c) + 60 BY Minutes
<1>2. Opens \in Nat /\ m \in Nat /\ m >= Opens BY DEF Opens, Nine, End
<1> QED BY <1>1, <1>2

LEMMA AfterTheEnd ==
  ASSUME NEW c \in Nat, Minute(c) > End, NEW m \in Opens..End
  PROVE  (m + 1) * 60 <= c
BY Minutes DEF Opens, Nine, End

\* From the beginning of a slot that is being collected to the moment the loop looks again.
LEMMA WholeSlot ==
  ASSUME ShortCollections, NEW c \in Nat, NEW d \in Lasts, NEW m \in Nat, HalfHour(m), HalfHour(Minute(c)),
         (m + 1) * 60 <= c + d + Away
  PROVE  m = Minute(c) \/ (m + 1) * 60 <= c
<1>1. Minute(c) \in Nat /\ 60 * Minute(c) <= c /\ c < 60 * Minute(c) + 60 BY Minutes
<1> DEFINE k == Minute(c)
<1> HIDE DEF k
<1>2. k \in Nat /\ 60 * k <= c /\ c < 60 * k + 60 /\ m % 30 = 0 /\ k % 30 = 0 BY <1>1 DEF k, HalfHour
<1>3. d \in Nat /\ d + Away <= 1800 /\ Away = 61 BY SecondsAssumption DEF ShortCollections, Away
<1>4. (m + 1) * 60 <= c + 1800 BY <1>3
<1>5. m = k \/ (m + 1) * 60 <= c BY <1>2, <1>4
<1> QED BY <1>5 DEF k

\* A loop that runs, is woken in time and reads the clock in one piece has taken every slot
\* since it was started, and while it moves away from one it does not skip the next.
THEOREM NoneIsMissed == ShortCollections => (ScheduleSpec => []NoneMissed)
<1> SUFFICES ASSUME ShortCollections PROVE ScheduleSpec => []NoneMissed OBVIOUS
<1>1. ScheduleInit => NoneMissed
  <2> SUFFICES ASSUME ScheduleInit PROVE NoneMissed OBVIOUS
  <2>1. clock = begun /\ place = "look" /\ begun \in Nat BY SecondsAssumption DEF ScheduleInit
  <2>2. \A m \in Opens..End : (m + 1) * 60 \in Nat BY DEF Opens, Nine, End
  <2> QED BY <2>1, <2>2 DEF NoneMissed
<1>2. ScheduleInv /\ NoneMissed /\ [ScheduleNext]_scheduleVars => NoneMissed'
  <2> SUFFICES ASSUME ScheduleInv, NoneMissed, [ScheduleNext]_scheduleVars PROVE NoneMissed' OBVIOUS
  <2>0. clock \in Nat /\ begun \in Nat /\ taken \subseteq Nat BY DEF ScheduleInv, ScheduleTypeOK
  <2>1. CASE UNCHANGED scheduleVars
    BY <2>1 DEF scheduleVars, NoneMissed, Opens
  <2>2. CASE ~loops
    <3>1. ~loops'
      BY <2>2 DEF scheduleVars, ScheduleNext, JobLeaves, JobMisses, JobAligns, JobCollects, LoopWaits, LoopCollects,
         LoopMovesAway, Sleeps, Collects, Leaves
    <3> QED BY <3>1 DEF NoneMissed
  <2> SUFFICES ASSUME loops', trading', ~late', ~turned', NEW m \in Opens'..End, HalfHour(m), begun' < (m + 1) * 60,
                      (m + 1) * 60 <= (IF place' = "away" THEN clock' + Away ELSE clock'),
                      ScheduleNext, loops
               PROVE  \E c \in taken' : Minute(c) = m
    BY <2>1, <2>2 DEF NoneMissed
  <2>3. /\ m \in Nat /\ (m + 1) * 60 \in Nat
        /\ Opens' = Opens
    BY DEF Opens, Nine, End
  <2>4. CASE LoopWaits
    <3>1. PICK r \in Reads :
            \/ (~trading \/ r.minute > End) /\ Sleeps(r, 300, "look")
            \/ trading /\ r.minute < Opens /\ Sleeps(r, (Opens - r.minute) * 60, "look")
            \/ /\ trading /\ r.minute \in Opens..End /\ ~HalfHour(r.minute)
               /\ Sleeps(r, ToNextSlot(r.minute), "look")
      BY <2>4 DEF LoopWaits
    <3>2. PICK s : Sleeps(r, s, "look") /\ s \in {300, (Opens - r.minute) * 60, ToNextSlot(r.minute)}
      BY <3>1
    <3>3. /\ place' = "look" /\ taken' = taken /\ trading /\ begun' = begun /\ ~turned /\ ~r.torn /\ ~late
          /\ clock' = r.at + s
      <4>1. turned' = (turned \/ r.torn) BY <3>2 DEF Sleeps
      <4>2. ~turned BY <4>1
      <4>3. ~r.torn BY <4>1
      <4> QED BY <3>2, <4>2, <4>3 DEF Sleeps
    <3>4. r.at = clock /\ r.minute = Minute(clock) BY <3>3, ReadsAre DEF ScheduleInv
    <3>5. place = "look" BY <2>4 DEF LoopWaits
    <3>6. (m + 1) * 60 <= clock
      <4>1. CASE r.minute > End BY <2>0, <2>3, <3>4, <4>1, AfterTheEnd
      <4>2. CASE r.minute < Opens /\ Sleeps(r, (Opens - r.minute) * 60, "look")
        <5>1. clock' = clock + (Opens - Minute(clock)) * 60 BY <3>3, <3>4, <4>2 DEF Sleeps
        <5>2. (m + 1) * 60 <= clock + (Opens - Minute(clock)) * 60 BY <3>3, <5>1
        <5> QED BY <2>0, <2>3, <3>4, <4>2, <5>2, BeforeOpening
      <4>3. CASE ~HalfHour(r.minute) /\ Sleeps(r, ToNextSlot(r.minute), "look")
        <5>1. clock' = clock + ToNextSlot(Minute(clock)) BY <3>3, <3>4, <4>3 DEF Sleeps
        <5>2. (m + 1) * 60 <= clock + ToNextSlot(Minute(clock)) BY <3>3, <5>1
        <5> QED BY <2>0, <2>3, <3>4, <4>3, <5>2, NextSlot
      <4> QED BY <3>1, <3>3, <4>1, <4>2, <4>3
    <3>7. \E c \in taken : Minute(c) = m
      BY <2>3, <3>3, <3>5, <3>6 DEF NoneMissed
    <3> QED BY <3>3, <3>7
  <2>5. CASE LoopCollects
    <3>1. PICK r \in Reads : HalfHour(r.minute) /\ Collects(r, "away") BY <2>5 DEF LoopCollects
    <3>2. PICK d \in Lasts : clock' = r.at + d BY <3>1 DEF Collects
    <3>3. /\ place' = "away" /\ taken' = taken \cup {r.at} /\ trading /\ begun' = begun /\ ~turned /\ ~r.torn /\ ~late
      <4>1. turned' = (turned \/ r.torn) BY <3>1 DEF Collects
      <4>2. ~turned BY <4>1
      <4>3. ~r.torn BY <4>1
      <4> QED BY <3>1, <4>2, <4>3 DEF Collects
    <3>4. r.at = clock /\ r.minute = Minute(clock) BY <3>3, ReadsAre DEF ScheduleInv
    <3>5. (m + 1) * 60 <= clock + d + Away BY <3>2, <3>3, <3>4
    <3>6. m = Minute(clock) \/ (m + 1) * 60 <= clock BY <2>0, <2>3, <3>1, <3>4, <3>5, WholeSlot
    <3>7. CASE m = Minute(clock) BY <3>3, <3>4, <3>7
    <3>8. CASE (m + 1) * 60 <= clock
      <4>1. place = "look" BY <2>5 DEF LoopCollects
      <4>2. \E c \in taken : Minute(c) = m BY <2>3, <3>3, <3>8, <4>1 DEF NoneMissed
      <4> QED BY <3>3, <4>2
    <3> QED BY <3>6, <3>7, <3>8
  <2>6. CASE LoopMovesAway
    <3>1. place' = "look" /\ taken' = taken /\ trading /\ begun' = begun /\ ~turned /\ ~late /\ clock' = clock + Away
      BY <2>6 DEF LoopMovesAway, Sleeps, ScheduleInv, ScheduleTypeOK
    <3>2. place = "away" BY <2>6 DEF LoopMovesAway
    <3>3. \E c \in taken : Minute(c) = m BY <2>3, <3>1, <3>2 DEF NoneMissed
    <3> QED BY <3>1, <3>3
  <2> QED BY <2>4, <2>5, <2>6 DEF ScheduleNext, JobLeaves, JobMisses, JobAligns, JobCollects
<1> QED BY <1>1, <1>2, ScheduleInvariance, PTL DEF ScheduleSpec

\* However long a collection lasts and however late the phone wakes a script: nothing is
\* collected outside a half hour of a session, and the loop collects none twice.
THEOREM NothingIsTakenTwice == ScheduleSpec => [](CollectsInSlot /\ SlotOnce)
<1>1. ScheduleInv => CollectsInSlot /\ SlotOnce
  BY DEF ScheduleInv, InSlots, PlaceInv, CollectsInSlot
<1> QED BY <1>1, ScheduleInvariance, PTL

\* Every half hour of a session is collected once.
THEOREM SlotsStayKept == ShortCollections => (ScheduleSpec => []SlotsAreKept)
<1> SUFFICES ASSUME ShortCollections PROVE ScheduleSpec => []SlotsAreKept OBVIOUS
<1>1. ScheduleInv /\ NoneMissed => SlotsAreKept
  <2> SUFFICES ASSUME ScheduleInv, NoneMissed PROVE SlotsAreKept OBVIOUS
  <2>1. CollectsInSlot BY DEF ScheduleInv, InSlots, PlaceInv, CollectsInSlot
  <2>2. SlotOnce BY DEF ScheduleInv
  <2>3. NoSlotMissed BY DEF NoneMissed, NoSlotMissed, ScheduleInv, ScheduleTypeOK, Opens, Nine, End
  <2> QED BY <2>1, <2>2, <2>3 DEF SlotsAreKept
<1> QED BY <1>1, ScheduleInvariance, NoneIsMissed, PTL

-------------------------------------------------------------------------------
(***************************************************************************)
(* Types.                                                                  *)
(***************************************************************************)
\* The part of ArchivesTypeOK that is about a chain.
ChainOK(p) ==
  /\ kind[p] \in ScriptKinds /\ stage[p] \in Stages /\ step[p] \in Steps
  /\ hand[p] \in Report \cup {None} /\ prior[p] \in Report \cup {None}
  /\ stage[p] \in Files => step[p] \in {"read", "open", "write"}
  /\ stage[p] \in Files /\ step[p] # "read" => hand[p] \in Report
  /\ stage[p] = "rank" /\ step[p] # "read" => hand[p] \in Dated
  /\ stage[p] \in {"idle", "done"} => step[p] = "read"

Arrays ==
  /\ kind \in [Chains -> ScriptKinds]
  /\ stage \in [Chains -> Stages] /\ step \in [Chains -> Steps]
  /\ hand \in [Chains -> Report \cup {None}] /\ prior \in [Chains -> Report \cup {None}]

OutputsOK ==
  /\ file \in [Files -> Report \cup {None, Torn}]
  /\ archive \in [1..MaxDay -> Report \cup {None, Torn}]
  /\ compared \in Comparison \cup {None, Torn}

\* A step that rewrites what belongs to p, well-typed, keeps the other chains'.
LEMMA ChainsStayOK ==
  ASSUME ArchivesTypeOK, NEW p \in Chains,
         NEW k \in ScriptKinds, NEW s \in Stages, NEW t \in Steps,
         NEW h \in Report \cup {None}, NEW q \in Report \cup {None},
         kind' = [kind EXCEPT ![p] = k],
         stage' = [stage EXCEPT ![p] = s], step' = [step EXCEPT ![p] = t],
         hand' = [hand EXCEPT ![p] = h], prior' = [prior EXCEPT ![p] = q],
         s \in Files => t \in {"read", "open", "write"},
         s \in Files /\ t # "read" => h \in Report,
         s = "rank" /\ t # "read" => h \in Dated,
         s \in {"idle", "done"} => t = "read",
         OutputsOK', day' \in 0..MaxDay, kills' \in 0..MaxKills
  PROVE  ArchivesTypeOK'
<1>1. Arrays'
  BY DEF ArchivesTypeOK, Arrays
<1>2. ASSUME NEW c \in Chains PROVE ChainOK(c)'
  <2>1. CASE c = p
    BY <2>1 DEF ArchivesTypeOK, ChainOK
  <2>2. CASE c # p
    <3>1. /\ kind'[c] = kind[c] /\ stage'[c] = stage[c] /\ step'[c] = step[c]
          /\ hand'[c] = hand[c] /\ prior'[c] = prior[c]
      BY <2>2 DEF ArchivesTypeOK
    <3> QED
      BY <3>1 DEF ArchivesTypeOK, ChainOK
  <2> QED
    BY <2>1, <2>2
<1> QED
  BY <1>1, <1>2 DEF ArchivesTypeOK, Arrays, ChainOK, OutputsOK

LEMMA InitTypeOK == ArchivesInit => ArchivesTypeOK
<1> SUFFICES ASSUME ArchivesInit PROVE ArchivesTypeOK
  OBVIOUS
<1>1. day \in 0..MaxDay /\ kills \in 0..MaxKills
  BY BoundAssumption DEF ArchivesInit
<1>2. OutputsOK
  BY DEF ArchivesInit, OutputsOK
<1>3. Arrays
  BY DEF ArchivesInit, Arrays, ScriptKinds, Stages, Programs, Steps
<1>4. \A p \in Chains : stage[p] = "idle" /\ step[p] = "read"
  BY DEF ArchivesInit
<1> QED
  BY <1>1, <1>2, <1>3, <1>4 DEF ArchivesTypeOK, OutputsOK, Arrays, Files

\* What Goes does, in the form ChainsStayOK asks for.
LEMMA GoesTyped ==
  ASSUME ArchivesTypeOK, NEW p \in Chains, NEW s \in Stages, NEW t \in Steps, Goes(p, s, t),
         NEW h \in Report \cup {None}, NEW q \in Report \cup {None},
         hand' = [hand EXCEPT ![p] = h], prior' = [prior EXCEPT ![p] = q],
         s \in Files => t \in {"read", "open", "write"},
         s \in Files /\ t # "read" => h \in Report,
         s = "rank" /\ t # "read" => h \in Dated,
         s \in {"idle", "done"} => t = "read",
         OutputsOK'
  PROVE  ArchivesTypeOK'
<1>1. kind' = [kind EXCEPT ![p] = kind[p]] /\ kind[p] \in ScriptKinds
  BY DEF ArchivesTypeOK, Goes
<1>2. day' \in 0..MaxDay /\ kills' \in 0..MaxKills
  BY DEF ArchivesTypeOK, Goes
<1>3. stage' = [stage EXCEPT ![p] = s] /\ step' = [step EXCEPT ![p] = t]
  BY DEF Goes
<1> QED
  BY <1>1, <1>2, <1>3, ChainsStayOK

LEMMA KeepsTyped ==
  ASSUME ArchivesTypeOK, NEW p \in Chains, Keeps
  PROVE  /\ hand' = [hand EXCEPT ![p] = hand[p]] /\ hand[p] \in Report \cup {None}
         /\ prior' = [prior EXCEPT ![p] = prior[p]] /\ prior[p] \in Report \cup {None}
BY DEF ArchivesTypeOK, Keeps

LEMMA AfterTyped ==
  ASSUME NEW p \in Chains, stage[p] \in Programs
  PROVE  After(p) \in Stages
BY DEF After, Follows, Stages, Programs, Files

LEMMA RunTypeOK ==
  ASSUME ArchivesTypeOK, NEW p \in Chains, Run(p)
  PROVE  ArchivesTypeOK'
<1> USE DEF Files, Programs, Stages, Steps, ScriptKinds
<1>o. OutputsOK
  BY DEF ArchivesTypeOK, OutputsOK
<1>r. Dated \subseteq Report
  BY DEF Dated
<1>p. /\ stage[p] \in Stages /\ step[p] \in Steps
      /\ stage[p] \in Files /\ step[p] # "read" => hand[p] \in Report
      /\ stage[p] = "rank" /\ step[p] # "read" => hand[p] \in Dated
  BY DEF ArchivesTypeOK
<1>1. ASSUME NEW k \in ScriptKinds, NEW s \in Programs, Starts(p, k, s) PROVE ArchivesTypeOK'
  <2>1. step' = [step EXCEPT ![p] = "read"]
    BY <1>1 DEF ArchivesTypeOK, Starts
  <2>2. /\ hand' = [hand EXCEPT ![p] = hand[p]] /\ hand[p] \in Report \cup {None}
        /\ prior' = [prior EXCEPT ![p] = prior[p]] /\ prior[p] \in Report \cup {None}
    BY <1>1 DEF ArchivesTypeOK, Starts
  <2>3. OutputsOK' /\ day' \in 0..MaxDay /\ kills' \in 0..MaxKills
    BY <1>1 DEF ArchivesTypeOK, Starts, OutputsOK, outputs
  <2>4. /\ kind' = [kind EXCEPT ![p] = k] /\ stage' = [stage EXCEPT ![p] = s]
        /\ s \in Stages /\ "read" \in Steps /\ s \notin {"idle", "done"}
    BY <1>1 DEF Starts
  <2> QED
    BY <2>1, <2>2, <2>3, <2>4, ChainsStayOK
<1>2. ASSUME NEW s \in Stages, Goes(p, s, "read"), Forgets(p), OutputsOK' PROVE ArchivesTypeOK'
  BY <1>2, GoesTyped DEF Forgets
<1>3. ASSUME NEW s \in Stages, NEW r \in Report, Goes(p, s, "open"), Holds(p, r),
             s \in Files, OutputsOK'
      PROVE  ArchivesTypeOK'
  <2>1. prior' = [prior EXCEPT ![p] = prior[p]] /\ prior[p] \in Report \cup {None}
    BY <1>3 DEF ArchivesTypeOK, Holds
  <2> QED
    BY <1>3, <2>1, GoesTyped DEF Holds
<1>4. ASSUME NEW t \in Steps, Goes(p, "rank", t), Keeps, hand[p] \in Dated, OutputsOK'
      PROVE  ArchivesTypeOK'
  BY <1>4, <1>r, KeepsTyped, GoesTyped
<1>5. CASE StartDaily(p) \/ StartEod(p) \/ StartAlone(p)
  BY <1>1, <1>5 DEF StartDaily, StartEod, StartAlone
<1>6. CASE Scan(p)
  BY <1>3, <1>6, <1>o DEF Scan, OutputsOK, outputs
<1>7. CASE ScanFails(p) \/ ReadFails(p)
  BY <1>2, <1>7, <1>o DEF ScanFails, ReadFails, OutputsOK, outputs
<1>8. CASE Read(p)
  <2>1. stage[p] \in Stages /\ stage[p] \in Files
    BY <1>8 DEF Read
  <2> QED
    BY <1>3, <1>8, <1>o, <2>1 DEF Read, OutputsOK, outputs
<1>9. CASE Open(p)
  <2>1. OutputsOK' /\ stage[p] \in Files /\ hand[p] \in Report /\ Keeps /\ Goes(p, stage[p], "write")
    BY <1>9, <1>o, <1>p DEF Open, OutputsOK
  <2> QED
    BY <2>1, KeepsTyped, GoesTyped
<1>10. CASE Write(p)
  <2>1. OutputsOK'
    BY <1>10, <1>o, <1>p DEF Write, OutputsOK, Written
  <2> QED
    BY <1>2, <1>10, <2>1, AfterTyped DEF Write
<1>11. CASE ReadCurrent(p)
  <2>1. file["plain"] \in Dated /\ Holds(p, file["plain"]) /\ Goes(p, "rank", "prior") /\ OutputsOK'
    BY <1>11, <1>o DEF ReadCurrent, OutputsOK, outputs
  <2>2. prior' = [prior EXCEPT ![p] = prior[p]] /\ prior[p] \in Report \cup {None}
    BY <2>1 DEF ArchivesTypeOK, Holds
  <2>3. /\ hand' = [hand EXCEPT ![p] = file["plain"]] /\ file["plain"] \in Report \cup {None}
        /\ "rank" \in Stages /\ "prior" \in Steps /\ "rank" \notin Files \cup {"idle", "done"}
    BY <2>1, <1>r DEF Holds
  <2> QED
    BY <2>1, <2>2, <2>3, GoesTyped
<1>12. CASE ReadPrior(p)
  <2>1. PICK q \in Priors(hand[p]) : Comparable(q, hand[p]) /\ prior' = [prior EXCEPT ![p] = q]
    BY <1>12 DEF ReadPrior
  <2>2. q \in Report \cup {None}
    BY <2>1, <1>r DEF Comparable
  <2>3. hand' = [hand EXCEPT ![p] = hand[p]] /\ hand[p] \in Dated /\ OutputsOK'
    BY <1>12, <1>o, <1>p DEF ReadPrior, OutputsOK, outputs, At, ArchivesTypeOK
  <2>4. /\ hand[p] \in Report \cup {None} /\ {"archive", "open"} \subseteq Steps
        /\ "rank" \in Stages /\ "rank" \notin Files \cup {"idle", "done"}
        /\ prior' = [prior EXCEPT ![p] = q]
    BY <2>1, <2>3, <1>r
  <2>5. CASE Goes(p, "rank", "archive")
    BY <2>2, <2>3, <2>4, <2>5, GoesTyped
  <2>6. CASE Goes(p, "rank", "open")
    BY <2>2, <2>3, <2>4, <2>6, GoesTyped
  <2> QED
    BY <1>12, <2>5, <2>6 DEF ReadPrior
<1>13. CASE RankFails(p)
  <2>1. Forgets(p) /\ OutputsOK'
    BY <1>13, <1>o DEF RankFails, OutputsOK, outputs
  <2> QED
    BY <1>2, <1>13, <2>1 DEF RankFails
<1>14. CASE OpenArchive(p)
  <2>1. OutputsOK' /\ hand[p] \in Dated
    BY <1>14, <1>o, <1>p DEF OpenArchive, OutputsOK, At
  <2> QED
    BY <1>4, <1>14, <2>1 DEF OpenArchive
<1>15. CASE CopyArchive(p)
  <2>1. hand[p] \in Dated /\ file["plain"] \in Report \cup {None, Torn}
    BY <1>15, <1>o, <1>p DEF CopyArchive, OutputsOK, At
  <2>2. OutputsOK'
    BY <1>15, <1>o, <2>1 DEF CopyArchive, OutputsOK, Written
  <2> QED
    BY <1>4, <1>15, <2>1, <2>2 DEF CopyArchive
<1>16. CASE OpenCompared(p)
  <2>1. OutputsOK' /\ hand[p] \in Dated
    BY <1>16, <1>o, <1>p DEF OpenCompared, OutputsOK, At
  <2> QED
    BY <1>4, <1>16, <2>1 DEF OpenCompared
<1>17. CASE WriteCompared(p)
  <2>1. [cur |-> hand[p], prev |-> prior[p]] \in Comparison
    BY <1>17, <1>p DEF WriteCompared, At, Comparison, ArchivesTypeOK
  <2>2. OutputsOK'
    BY <1>17, <1>o, <2>1 DEF WriteCompared, OutputsOK, Written
  <2>3. After(p) \in Stages
    BY <1>17, AfterTyped DEF WriteCompared, At
  <2> QED
    BY <1>2, <1>17, <2>2, <2>3 DEF WriteCompared
<1> QED
  BY <1>5, <1>6, <1>7, <1>8, <1>9, <1>10, <1>11, <1>12, <1>13, <1>14, <1>15, <1>16, <1>17
     DEF Run, Rank

LEMMA KilledTypeOK ==
  ASSUME ArchivesTypeOK, NEW p \in Chains, ChainKilled(p)
  PROVE  ArchivesTypeOK'
<1>1. /\ kind' = [kind EXCEPT ![p] = kind[p]] /\ kind[p] \in ScriptKinds
      /\ kills' \in 0..MaxKills /\ day' \in 0..MaxDay /\ OutputsOK'
  BY BoundAssumption DEF ArchivesTypeOK, ChainKilled, OutputsOK, outputs
<1> QED
  BY <1>1, ChainsStayOK DEF ChainKilled, Forgets, Stages, Steps, Programs, Files

LEMMA NextTypeOK == ArchivesTypeOK /\ [ArchivesNext]_archivesVars => ArchivesTypeOK'
<1> SUFFICES ASSUME ArchivesTypeOK, [ArchivesNext]_archivesVars PROVE ArchivesTypeOK'
  OBVIOUS
<1>1. CASE Publish
  BY <1>1, BoundAssumption DEF Publish, ArchivesTypeOK, outputs
<1>2. CASE UNCHANGED archivesVars
  BY <1>2 DEF archivesVars, ArchivesTypeOK, outputs
<1> QED
  BY <1>1, <1>2, RunTypeOK, KilledTypeOK DEF ArchivesNext

\* The state keeps its types, for any number of chains at once: whatever a chain has in
\* hand between two steps is a report, and a dated one while it is compared (the early
\* exits of rank_change's main).
THEOREM TypeCorrect == ArchivesSpec => []ArchivesTypeOK
BY InitTypeOK, NextTypeOK, PTL DEF ArchivesSpec

-------------------------------------------------------------------------------
(***************************************************************************)
(* One chain at a time.                                                    *)
(***************************************************************************)
OneChain == \A p, q \in Chains : p = q

\* q is what a report r must be compared with: the archived report of the last day
\* before r's, or None.
IsPrior(q, r) ==
  /\ q # None => q \in Dated /\ q.date < r.date /\ archive[q.date] = q
  /\ \A d \in 1..MaxDay : d < r.date /\ archive[d] # None => q # None /\ d <= q.date

\* While p is past reading the ranking, nobody rewrites it, nor the part of the archive p
\* has looked at.
RankOK(p) ==
  stage[p] = "rank" /\ step[p] # "read" =>
    /\ file["plain"] = hand[p]
    /\ step[p] # "prior" => IsPrior(prior[p], hand[p])
    /\ step[p] = "archive" => archive[hand[p].date] = None
    /\ step[p] = "copy" => archive[hand[p].date] = Torn
    /\ step[p] \in {"open", "write"} => archive[hand[p].date] # None

IInv ==
  /\ ArchivesTypeOK
  /\ \A p \in Chains : RankOK(p)
  /\ ArchiveNamesItsDay
  /\ ComparisonIsBacked

LEMMA InitIInv == ArchivesInit => IInv
<1> SUFFICES ASSUME ArchivesInit PROVE IInv
  OBVIOUS
<1>1. ArchivesTypeOK
  BY InitTypeOK
<1>2. \A p \in Chains : RankOK(p)
  BY DEF ArchivesInit, RankOK
<1>3. ArchiveNamesItsDay /\ ComparisonIsBacked
  BY NotReports DEF ArchivesInit, ArchiveNamesItsDay, ComparisonIsBacked
<1> QED
  BY <1>1, <1>2, <1>3 DEF IInv

\* The prior report that rank_change accepts is the one it must be.
LEMMA PriorIsRight ==
  ASSUME IInv, NEW r \in Dated, NEW q \in Priors(r), Comparable(q, r)
  PROVE  IsPrior(q, r)
<1>1. CASE Before(r) = {}
  <2>1. q = None
    BY <1>1 DEF Priors
  <2>2. \A d \in 1..MaxDay : ~(d < r.date /\ archive[d] # None)
    BY <1>1 DEF Before
  <2> QED
    BY <2>1, <2>2 DEF IsPrior
<1>2. CASE Before(r) # {}
  <2>1. PICK d \in Before(r) : q = archive[d] /\ \A e \in Before(r) : e <= d
    BY <1>2 DEF Priors
  <2>2. d \in 1..MaxDay /\ q # None /\ q \in Dated /\ q.date < r.date
    BY <2>1 DEF Before, Comparable
  <2>3. q.date = d
    BY <2>1, <2>2 DEF IInv, ArchiveNamesItsDay, Dated
  <2>4. \A e \in 1..MaxDay : e < r.date /\ archive[e] # None => e <= d
    BY <2>1 DEF Before
  <2> QED
    BY <2>1, <2>2, <2>3, <2>4 DEF IsPrior
<1> QED
  BY <1>1, <1>2

\* Writing the file of r's own day changes nothing before it.
LEMMA PriorStays ==
  ASSUME ArchivesTypeOK, NEW r \in Dated, NEW q \in Report \cup {None}, IsPrior(q, r), NEW x,
         archive' = [archive EXCEPT ![r.date] = x]
  PROVE  IsPrior(q, r)'
<1>1. r.date \in 1..MaxDay
  BY BoundAssumption DEF Dated, Report
<1>2. \A d \in 1..MaxDay : d # r.date => archive'[d] = archive[d]
  BY DEF ArchivesTypeOK
<1>3. ASSUME q # None PROVE q \in Dated /\ q.date < r.date /\ archive'[q.date] = q
  <2>1. q \in Dated /\ q.date < r.date /\ archive[q.date] = q
    BY <1>3 DEF IsPrior
  <2>2. q.date \in 1..MaxDay /\ q.date # r.date
    BY <2>1, <1>1 DEF Dated, Report
  <2> QED
    BY <2>1, <2>2, <1>2
<1>4. ASSUME NEW d \in 1..MaxDay, d < r.date, archive'[d] # None
      PROVE  q # None /\ d <= q.date
  <2>1. d # r.date
    BY <1>1, <1>4
  <2> QED
    BY <1>2, <1>4, <2>1 DEF IsPrior
<1> QED
  BY <1>3, <1>4 DEF IsPrior

\* Neither does it take a side of a comparison away, if the day had no readable file.
LEMMA BackedStays ==
  ASSUME ArchivesTypeOK, ComparisonIsBacked, NEW r \in Dated, NEW x, x # None,
         archive[r.date] \in {None, Torn},
         archive' = [archive EXCEPT ![r.date] = x], compared' = compared
  PROVE  ComparisonIsBacked'
<1> SUFFICES ASSUME compared \in Comparison PROVE ComparisonIsBacked'
  BY DEF ComparisonIsBacked
<1>1. compared.cur \in Dated /\ compared.prev \in Report \cup {None}
  BY DEF Comparison
<1>2. compared.cur.date \in 1..MaxDay
  BY <1>1, BoundAssumption DEF Dated, Report
<1>3. archive'[compared.cur.date] # None
  BY <1>2 DEF ArchivesTypeOK, ComparisonIsBacked
<1>4. ASSUME compared.prev # None
      PROVE  /\ compared.prev.date \in 1..(compared.cur.date - 1)
             /\ archive'[compared.prev.date] = compared.prev
  <2>1. /\ compared.prev.date \in 1..(compared.cur.date - 1)
        /\ archive[compared.prev.date] = compared.prev
    BY <1>4 DEF ComparisonIsBacked
  <2>2. compared.prev.date # r.date
    BY <2>1, <1>1, <1>4, NotReports
  <2>3. compared.prev.date \in 1..MaxDay
    <3>1. \A c \in 1..MaxDay : \A e \in 1..(c - 1) : e \in 1..MaxDay
      BY BoundAssumption
    <3> QED
      BY <2>1, <1>2, <3>1
  <2>4. archive'[compared.prev.date] = archive[compared.prev.date]
    BY <2>2, <2>3 DEF ArchivesTypeOK
  <2> QED
    BY <2>1, <2>4
<1> QED
  BY <1>3, <1>4 DEF ComparisonIsBacked

LEMMA RunIInv ==
  ASSUME OneChain, IInv, NEW p \in Chains, Run(p)
  PROVE  IInv'
<1>t. ArchivesTypeOK /\ ArchivesTypeOK'
  BY RunTypeOK DEF IInv
<1>c. \A c \in Chains : c = p
  BY DEF OneChain
<1>d. hand[p] \in Dated => hand[p].date \in 1..MaxDay
  BY BoundAssumption DEF Dated, Report
<1>1. ASSUME UNCHANGED <<archive, compared>>, RankOK(p)' PROVE IInv'
  BY <1>1, <1>t, <1>c DEF IInv, ArchiveNamesItsDay, ComparisonIsBacked
<1>2. CASE StartDaily(p) \/ StartEod(p) \/ StartAlone(p)
  <2>1. UNCHANGED <<archive, compared>> /\ step'[p] = "read"
    BY <1>2, <1>t DEF StartDaily, StartEod, StartAlone, Starts, outputs, ArchivesTypeOK
  <2> QED
    BY <1>1, <2>1 DEF RankOK
<1>3. CASE Scan(p) \/ ScanFails(p) \/ Read(p) \/ ReadFails(p) \/ Open(p) \/ Write(p) \/ RankFails(p)
  <2>1. UNCHANGED <<archive, compared>>
    BY <1>3 DEF Scan, ScanFails, Read, ReadFails, Open, Write, RankFails, outputs
  <2>2. stage'[p] # "rank" \/ step'[p] = "read"
    BY <1>3, <1>t DEF Scan, ScanFails, Read, ReadFails, Open, Write, RankFails, Goes, At, ArchivesTypeOK, Files
  <2> QED
    BY <1>1, <2>1, <2>2 DEF RankOK
<1>4. CASE ReadCurrent(p)
  <2>1. UNCHANGED <<archive, compared>> /\ file'["plain"] = hand'[p] /\ step'[p] = "prior"
    BY <1>4, <1>t DEF ReadCurrent, Holds, Goes, outputs, ArchivesTypeOK
  <2> QED
    BY <1>1, <2>1 DEF RankOK
<1>5. CASE ReadPrior(p)
  <2>1. PICK q \in Priors(hand[p]) : Comparable(q, hand[p]) /\ prior' = [prior EXCEPT ![p] = q]
    BY <1>5 DEF ReadPrior
  <2>2. UNCHANGED <<archive, compared, file, hand>> /\ hand[p] \in Dated /\ prior'[p] = q
    BY <1>5, <2>1, <1>t DEF ReadPrior, outputs, At, ArchivesTypeOK
  <2>3. IsPrior(q, hand[p])
    BY <2>1, <2>2, PriorIsRight
  <2>4. IsPrior(prior[p], hand[p])'
    BY <2>2, <2>3 DEF IsPrior
  <2>5. file["plain"] = hand[p]
    BY <1>5 DEF ReadPrior, At, IInv, RankOK
  <2>6. step'[p] = IF archive[hand[p].date] = None THEN "archive" ELSE "open"
    BY <1>5, <1>t DEF ReadPrior, Goes, ArchivesTypeOK
  <2>7. RankOK(p)'
    BY <2>2, <2>4, <2>5, <2>6 DEF RankOK
  <2> QED
    BY <1>1, <2>2, <2>7
<1>6. CASE OpenArchive(p)
  <2>1. /\ hand[p] \in Dated /\ prior[p] \in Report \cup {None} /\ step'[p] = "copy"
        /\ file' = file /\ hand' = hand /\ prior' = prior /\ compared' = compared
        /\ archive' = [archive EXCEPT ![hand[p].date] = Torn]
    BY <1>6, <1>t DEF OpenArchive, At, Goes, Keeps, ArchivesTypeOK
  <2>2. archive[hand[p].date] = None /\ file["plain"] = hand[p] /\ IsPrior(prior[p], hand[p])
    BY <1>6 DEF OpenArchive, At, IInv, RankOK
  <2>3. archive'[hand[p].date] = Torn
    BY <2>1, <1>d, <1>t DEF ArchivesTypeOK
  <2>4. IsPrior(prior[p], hand[p])'
    <3>1. ASSUME NEW r \in Dated, NEW q \in Report \cup {None}, IsPrior(q, r), r = hand[p], q = prior[p]
          PROVE  IsPrior(q, r)'
      BY <3>1, <2>1, <1>t, PriorStays
    <3> QED
      BY <3>1, <2>1, <2>2
  <2>5. RankOK(p)'
    BY <2>1, <2>2, <2>3, <2>4 DEF RankOK
  <2>6. ComparisonIsBacked'
    BY <2>1, <2>2, <1>t, BackedStays, NotReports DEF IInv
  <2>7. ArchiveNamesItsDay'
    BY <2>1, <1>t, NotReports DEF IInv, ArchiveNamesItsDay, ArchivesTypeOK
  <2> QED
    BY <1>t, <1>c, <2>5, <2>6, <2>7 DEF IInv
<1>7. CASE CopyArchive(p)
  <2>1. /\ hand[p] \in Dated /\ prior[p] \in Report \cup {None} /\ step'[p] = "open"
        /\ file' = file /\ hand' = hand /\ prior' = prior /\ compared' = compared
    BY <1>7, <1>t DEF CopyArchive, At, Goes, Keeps, ArchivesTypeOK
  <2>2. archive[hand[p].date] = Torn /\ file["plain"] = hand[p] /\ IsPrior(prior[p], hand[p])
    BY <1>7 DEF CopyArchive, At, IInv, RankOK
  <2>3. archive' = [archive EXCEPT ![hand[p].date] = hand[p]]
    BY <1>7, <2>2 DEF CopyArchive, Written
  <2>4. archive'[hand[p].date] = hand[p] /\ hand[p] # None
    BY <2>1, <2>3, <1>d, <1>t, NotReports DEF ArchivesTypeOK, Dated
  <2>5. IsPrior(prior[p], hand[p])'
    <3>1. ASSUME NEW r \in Dated, NEW q \in Report \cup {None}, IsPrior(q, r), r = hand[p], q = prior[p]
          PROVE  IsPrior(q, r)'
      BY <3>1, <2>3, <1>t, PriorStays
    <3> QED
      BY <3>1, <2>1, <2>2
  <2>6. RankOK(p)'
    BY <2>1, <2>2, <2>4, <2>5 DEF RankOK
  <2>7. ComparisonIsBacked'
    BY <2>1, <2>2, <2>3, <2>4, <1>t, BackedStays DEF IInv
  <2>8. ArchiveNamesItsDay'
    BY <2>3, <1>t DEF IInv, ArchiveNamesItsDay, ArchivesTypeOK
  <2> QED
    BY <1>t, <1>c, <2>6, <2>7, <2>8 DEF IInv
<1>8. CASE OpenCompared(p)
  <2>1. UNCHANGED <<file, archive, hand, prior>> /\ step'[p] = "write" /\ compared' \notin Comparison
    BY <1>8, <1>t, NotReports DEF OpenCompared, Goes, Keeps, ArchivesTypeOK
  <2>2. RankOK(p)'
    BY <1>8, <2>1 DEF OpenCompared, At, IInv, RankOK, IsPrior
  <2>3. ComparisonIsBacked' /\ ArchiveNamesItsDay'
    BY <2>1 DEF IInv, ComparisonIsBacked, ArchiveNamesItsDay
  <2> QED
    BY <1>t, <1>c, <2>2, <2>3 DEF IInv
<1>9. CASE WriteCompared(p)
  <2>1. archive' = archive /\ step'[p] = "read" /\ hand[p] \in Dated
    BY <1>9, <1>t DEF WriteCompared, At, Goes, ArchivesTypeOK
  <2>2. archive[hand[p].date] # None /\ IsPrior(prior[p], hand[p])
    BY <1>9 DEF WriteCompared, At, IInv, RankOK
  <2>3. compared' \in {[cur |-> hand[p], prev |-> prior[p]], Torn}
    BY <1>9 DEF WriteCompared, Written
  <2>4. ComparisonIsBacked'
    <3>1. CASE compared' = Torn
      BY <3>1, NotReports DEF ComparisonIsBacked
    <3>2. CASE compared' = [cur |-> hand[p], prev |-> prior[p]]
      <4>1. prior[p] # None => prior[p].date \in 1..(hand[p].date - 1) /\ archive[prior[p].date] = prior[p]
        BY <2>1, <2>2, <1>d, BoundAssumption DEF IsPrior, Dated, Report
      <4> QED
        BY <3>2, <2>1, <2>2, <4>1 DEF ComparisonIsBacked
    <3> QED
      BY <2>3, <3>1, <3>2
  <2>5. RankOK(p)' /\ ArchiveNamesItsDay'
    BY <2>1 DEF IInv, RankOK, ArchiveNamesItsDay
  <2> QED
    BY <1>t, <1>c, <2>4, <2>5 DEF IInv
<1> QED
  BY <1>2, <1>3, <1>4, <1>5, <1>6, <1>7, <1>8, <1>9 DEF Run, Rank

LEMMA NextIInv == OneChain /\ IInv /\ [ArchivesNext]_archivesVars => IInv'
<1> SUFFICES ASSUME OneChain, IInv, [ArchivesNext]_archivesVars PROVE IInv'
  OBVIOUS
<1>t. ArchivesTypeOK /\ ArchivesTypeOK'
  BY NextTypeOK DEF IInv
<1>1. CASE Publish \/ UNCHANGED archivesVars
  BY <1>1, <1>t DEF Publish, archivesVars, outputs, IInv, RankOK, IsPrior, ArchiveNamesItsDay,
                    ComparisonIsBacked
<1>2. ASSUME NEW p \in Chains, ChainKilled(p) PROVE IInv'
  <2>1. UNCHANGED <<file, archive, compared>> /\ stage'[p] = "idle"
    BY <1>2, <1>t DEF ChainKilled, outputs, ArchivesTypeOK
  <2>2. \A c \in Chains : RankOK(c)'
    BY <2>1 DEF OneChain, RankOK
  <2> QED
    BY <1>t, <2>1, <2>2 DEF IInv, ArchiveNamesItsDay, ComparisonIsBacked
<1> QED
  BY <1>1, <1>2, RunIInv DEF ArchivesNext

-------------------------------------------------------------------------------
\* With one chain at a time, what the archive has under a date is a ranking of that date
\* (rank_change's main: the name is the date of the ranking it read).
THEOREM ArchiveIsNamed ==
  ASSUME OneChain PROVE ArchivesSpec => []ArchiveNamesItsDay
<1>1. ArchivesInit => IInv
  BY InitIInv
<1>2. IInv /\ [ArchivesNext]_archivesVars => IInv'
  BY NextIInv
<1>3. IInv => ArchiveNamesItsDay
  BY DEF IInv
<1> QED
  BY <1>1, <1>2, <1>3, PTL DEF ArchivesSpec

\* With one chain at a time, what a readable comparison compares is in the archive,
\* through every rerun and kill (rank_change's main).
THEOREM ComparisonStaysBacked ==
  ASSUME OneChain PROVE ArchivesSpec => []ComparisonIsBacked
<1>1. ArchivesInit => IInv
  BY InitIInv
<1>2. IInv /\ [ArchivesNext]_archivesVars => IInv'
  BY NextIInv
<1>3. IInv => ComparisonIsBacked
  BY DEF IInv
<1> QED
  BY <1>1, <1>2, <1>3, PTL DEF ArchivesSpec

LEMMA KeptStep ==
  IInv /\ [ArchivesNext]_archivesVars =>
    [\A d \in 1..MaxDay : archive[d] \in Report => archive'[d] = archive[d]]_archivesVars
<1> SUFFICES ASSUME IInv, ArchivesNext, NEW d \in 1..MaxDay, archive[d] \in Report
             PROVE  archive'[d] = archive[d]
  OBVIOUS
<1>1. ASSUME NEW p \in Chains, OpenArchive(p) \/ CopyArchive(p) PROVE archive'[d] = archive[d]
  <2>1. archive[hand[p].date] \in {None, Torn}
    BY <1>1 DEF OpenArchive, CopyArchive, At, IInv, RankOK
  <2>2. d # hand[p].date
    BY <2>1, NotReports
  <2>3. PICK x : archive' = [archive EXCEPT ![hand[p].date] = x]
    BY <1>1 DEF OpenArchive, CopyArchive
  <2> QED
    BY <2>2, <2>3 DEF IInv, ArchivesTypeOK
<1>2. ASSUME NEW p \in Chains, Run(p), ~OpenArchive(p), ~CopyArchive(p) PROVE archive' = archive
  BY <1>2 DEF Run, Rank, StartDaily, StartEod, StartAlone, Starts, Scan, ScanFails, Read, ReadFails,
              Open, Write, ReadCurrent, ReadPrior, RankFails, OpenCompared, WriteCompared, outputs
<1>3. ASSUME NEW p \in Chains, ChainKilled(p) PROVE archive' = archive
  BY <1>3 DEF ChainKilled, outputs
<1>4. Publish => archive' = archive
  BY DEF Publish, outputs
<1> QED
  BY <1>1, <1>2, <1>3, <1>4 DEF ArchivesNext

\* With one chain at a time, a readable snapshot of the archive is never replaced ("A
\* same-date rerun does not replace an existing archived snapshot", rank_change).
THEOREM ArchiveStays ==
  ASSUME OneChain PROVE ArchivesSpec => ArchiveIsKept
<1>1. ArchivesInit => IInv
  BY InitIInv
<1>2. IInv /\ [ArchivesNext]_archivesVars => IInv'
  BY NextIInv
<1> QED
  BY <1>1, <1>2, KeptStep, PTL DEF ArchivesSpec, ArchiveIsKept

LEMMA ComparedStep ==
  IInv /\ [ArchivesNext]_archivesVars =>
    [compared' \in Comparison /\ compared' # compared =>
       \A d \in 1..(compared'.cur.date - 1) :
         archive[d] # None => compared'.prev # None /\ d <= compared'.prev.date]_archivesVars
<1> SUFFICES ASSUME IInv, ArchivesNext, compared' \in Comparison, compared' # compared,
                    NEW d \in 1..(compared'.cur.date - 1), archive[d] # None
             PROVE  compared'.prev # None /\ d <= compared'.prev.date
  OBVIOUS
<1>1. PICK p \in Chains : WriteCompared(p)
  <2>1. Publish => compared' = compared
    BY DEF Publish, outputs
  <2>2. ASSUME NEW p \in Chains, ChainKilled(p) PROVE compared' = compared
    BY <2>2 DEF ChainKilled, outputs
  <2>3. ASSUME NEW p \in Chains, Run(p), ~WriteCompared(p) PROVE compared' \in {compared, Torn}
    BY <2>3 DEF Run, Rank, StartDaily, StartEod, StartAlone, Starts, Scan, ScanFails, Read,
                ReadFails, Open, Write, ReadCurrent, ReadPrior, RankFails, OpenArchive, CopyArchive,
                OpenCompared, outputs
  <2> QED
    BY <2>1, <2>2, <2>3, NotReports DEF ArchivesNext
<1>2. compared' = [cur |-> hand[p], prev |-> prior[p]]
  BY <1>1, NotReports DEF WriteCompared, Written
<1>3. hand[p] \in Dated /\ IsPrior(prior[p], hand[p])
  BY <1>1 DEF WriteCompared, At, IInv, RankOK, ArchivesTypeOK
<1>4. d \in 1..MaxDay /\ d < hand[p].date
  BY <1>2, <1>3, BoundAssumption DEF Dated, Report
<1> QED
  BY <1>2, <1>3, <1>4 DEF IsPrior

\* With one chain at a time, a comparison is with the last archived day before its own
\* (rank_change's prior_files[-1]), even if that one cannot be read: then there is none.
THEOREM ComparesWithLast ==
  ASSUME OneChain PROVE ArchivesSpec => ComparedWithLast
<1>1. ArchivesInit => IInv
  BY InitIInv
<1>2. IInv /\ [ArchivesNext]_archivesVars => IInv'
  BY NextIInv
<1> QED
  BY <1>1, <1>2, ComparedStep, PTL DEF ArchivesSpec, ComparedWithLast

-------------------------------------------------------------------------------
(***************************************************************************)
(* The files of a chain that is run as a whole: each program hands on what *)
(* it read, and finds the file it opened as it left it.                    *)
(***************************************************************************)
HandedOn(p) ==
  /\ stage[p] \in {"plain", "rank", "done"} => file["whole"] \in Report
  /\ stage[p] = "plain" /\ step[p] # "read" => hand[p] = file["whole"]
  /\ stage[p] \in Files /\ step[p] = "write" => file[stage[p]] = Torn
  /\ stage[p] \in {"rank", "done"} => file["plain"] = file["whole"]
  /\ stage[p] = "rank" /\ step[p] = "write" => compared = Torn
  /\ stage[p] = "done" /\ kind[p] = "daily" => compared \in Comparison /\ compared.cur = file["plain"]

ChainInv == \A p \in Chains : kind[p] # "alone" => HandedOn(p)

LEMMA RunHandsOn ==
  ASSUME OneChain, IInv, ChainInv, NEW p \in Chains, Run(p)
  PROVE  ChainInv'
<1>t. ArchivesTypeOK /\ ArchivesTypeOK'
  BY RunTypeOK DEF IInv
<1>s. /\ stage[p] \in Stages /\ step[p] \in Steps /\ kind[p] \in ScriptKinds
      /\ stage[p] \in Files /\ step[p] # "read" => hand[p] \in Report
      /\ file \in [Files -> Report \cup {None, Torn}]
  BY <1>t DEF ArchivesTypeOK
<1> SUFFICES ASSUME kind'[p] # "alone" PROVE HandedOn(p)'
  BY DEF OneChain, ChainInv
<1>1. CASE StartDaily(p) \/ StartEod(p) \/ StartAlone(p)
  <2>1. stage'[p] = "whole" /\ step'[p] = "read"
    BY <1>1, <1>t DEF StartDaily, StartEod, StartAlone, Starts, ArchivesTypeOK
  <2> QED
    BY <2>1 DEF HandedOn
<1> SUFFICES ASSUME ~StartDaily(p), ~StartEod(p), ~StartAlone(p) PROVE HandedOn(p)'
  BY <1>1
<1>k. kind' = kind /\ HandedOn(p)
  <2>1. kind' = kind
    BY DEF Run, Rank, Scan, ScanFails, Read, ReadFails, Open, Write, ReadCurrent, ReadPrior, RankFails,
           OpenArchive, CopyArchive, OpenCompared, WriteCompared, Goes
  <2> QED
    BY <2>1 DEF ChainInv
<1>2. CASE Scan(p)
  <2>1. stage'[p] = "whole" /\ step'[p] = "open"
    BY <1>2, <1>t DEF Scan, Goes, ArchivesTypeOK
  <2> QED
    BY <2>1 DEF HandedOn
<1>3. CASE ScanFails(p) \/ ReadFails(p)
  <2>1. stage'[p] = "idle"
    BY <1>3, <1>t DEF ScanFails, ReadFails, Goes, ArchivesTypeOK
  <2> QED
    BY <2>1 DEF HandedOn, Files
<1>4. CASE Read(p)
  <2>1. /\ stage'[p] = "plain" /\ step'[p] = "open" /\ hand'[p] = file["whole"] /\ file' = file
        /\ file["whole"] \in Report
    BY <1>4, <1>t DEF Read, Holds, Goes, Files, Source, outputs, ArchivesTypeOK
  <2> QED
    BY <2>1 DEF HandedOn
<1>5. CASE Open(p)
  <2>1. /\ stage'[p] = stage[p] /\ stage[p] \in Files /\ step'[p] = "write" /\ hand' = hand
        /\ file' = [file EXCEPT ![stage[p]] = Torn] /\ step[p] = "open"
    BY <1>5, <1>t DEF Open, Goes, Keeps, ArchivesTypeOK
  <2>2. file'[stage[p]] = Torn /\ (stage[p] = "plain" => file'["whole"] = file["whole"])
    BY <2>1, <1>s DEF Files
  <2> QED
    BY <2>1, <2>2, <1>k DEF HandedOn, Files
<1>6. CASE Write(p)
  <2>1. /\ stage[p] \in Files /\ step[p] = "write" /\ stage'[p] = After(p) /\ step'[p] = "read"
        /\ hand[p] \in Report
    BY <1>6, <1>t, <1>s DEF Write, Goes, ArchivesTypeOK
  <2>2. file' = [file EXCEPT ![stage[p]] = hand[p]]
    BY <1>6, <2>1, <1>k DEF Write, Written, HandedOn
  <2>3. stage'[p] = IF stage[p] = "whole" THEN "plain" ELSE "rank"
    BY <2>1, <1>k DEF After, Follows, Files
  <2>4. CASE stage[p] = "whole"
    <3>1. file'["whole"] = hand[p]
      BY <2>2, <2>4, <1>s DEF Files
    <3> QED
      BY <2>1, <2>3, <2>4, <3>1 DEF HandedOn, Files
  <2>5. CASE stage[p] = "plain"
    <3>1. file'["plain"] = hand[p] /\ file'["whole"] = file["whole"] /\ hand[p] = file["whole"]
      BY <2>1, <2>2, <2>5, <1>s, <1>k DEF Files, HandedOn
    <3> QED
      BY <2>1, <2>3, <2>5, <3>1 DEF HandedOn, Files
  <2> QED
    BY <2>1, <2>4, <2>5 DEF Files
<1>7. CASE ReadCurrent(p) \/ ReadPrior(p) \/ OpenArchive(p) \/ CopyArchive(p)
  <2>1. /\ stage[p] = "rank" /\ stage'[p] = "rank" /\ step'[p] \in {"prior", "archive", "open", "copy"}
        /\ UNCHANGED file
    BY <1>7, <1>t DEF ReadCurrent, ReadPrior, OpenArchive, CopyArchive, At, Goes, outputs, ArchivesTypeOK
  <2> QED
    BY <2>1, <1>k DEF HandedOn, Files
<1>8. CASE RankFails(p)
  <2>1. /\ stage[p] = "rank" /\ UNCHANGED file
        /\ stage'[p] = IF kind[p] = "eod" THEN "done" ELSE "idle"
    BY <1>8, <1>t DEF RankFails, At, Goes, outputs, ArchivesTypeOK
  <2> QED
    BY <2>1, <1>k DEF HandedOn, Files
<1>9. CASE OpenCompared(p)
  <2>1. stage[p] = "rank" /\ stage'[p] = "rank" /\ compared' = Torn /\ UNCHANGED file
    BY <1>9, <1>t DEF OpenCompared, At, Goes, ArchivesTypeOK
  <2> QED
    BY <2>1, <1>k DEF HandedOn, Files
<1>10. CASE WriteCompared(p)
  <2>1. /\ stage[p] = "rank" /\ step[p] = "write" /\ stage'[p] = "done" /\ UNCHANGED file
        /\ hand[p] \in Dated /\ prior[p] \in Report \cup {None}
    BY <1>10, <1>t, <1>k DEF WriteCompared, At, Goes, After, Follows, ArchivesTypeOK
  <2>2. compared' = [cur |-> hand[p], prev |-> prior[p]]
    BY <1>10, <2>1, <1>k DEF WriteCompared, Written, HandedOn
  <2>3. file["plain"] = hand[p]
    BY <2>1 DEF IInv, RankOK
  <2>4. compared' \in Comparison /\ compared'.cur = file["plain"]
    BY <2>1, <2>2, <2>3 DEF Comparison
  <2> QED
    BY <2>1, <2>4, <1>k DEF HandedOn, Files
<1> QED
  BY <1>2, <1>3, <1>4, <1>5, <1>6, <1>7, <1>8, <1>9, <1>10 DEF Run, Rank

LEMMA NextChainInv == OneChain /\ IInv /\ ChainInv /\ [ArchivesNext]_archivesVars => ChainInv'
<1> SUFFICES ASSUME OneChain, IInv, ChainInv, [ArchivesNext]_archivesVars PROVE ChainInv'
  OBVIOUS
<1>1. CASE Publish \/ UNCHANGED archivesVars
  BY <1>1 DEF Publish, archivesVars, outputs, ChainInv, HandedOn
<1>2. ASSUME NEW p \in Chains, ChainKilled(p) PROVE ChainInv'
  <2>1. stage'[p] = "idle"
    BY <1>2 DEF ChainKilled, IInv, ArchivesTypeOK
  <2> QED
    BY <2>1 DEF OneChain, ChainInv, HandedOn, Files
<1> QED
  BY <1>1, <1>2, RunHandsOn DEF ArchivesNext

\* With one chain at a time, a script that ran to its end leaves one ranking in all its files
\* (daily_base_share_report.sh, wait_for_today_eod.sh).
THEOREM ChainLeavesOneRanking ==
  ASSUME OneChain PROVE ArchivesSpec => []ChainAgrees
<1>1. ArchivesInit => IInv /\ ChainInv
  BY InitIInv DEF ArchivesInit, ChainInv, HandedOn, Files
<1>2. IInv /\ [ArchivesNext]_archivesVars => IInv'
  BY NextIInv
<1>3. IInv /\ ChainInv /\ [ArchivesNext]_archivesVars => ChainInv'
  BY NextChainInv
<1>4. ChainInv => ChainAgrees
  BY DEF ChainInv, HandedOn, ChainAgrees
<1> QED
  BY <1>1, <1>2, <1>3, <1>4, PTL DEF ArchivesSpec

\* The three together, for any number of days, rankings, reruns and kills.
THEOREM EveningsAreSound ==
  ASSUME OneChain PROVE ArchivesSpec => []EveningIsSound
<1>1. ArchiveNamesItsDay /\ ComparisonIsBacked /\ ChainAgrees => EveningIsSound
  BY DEF EveningIsSound
<1> QED
  BY <1>1, ArchiveIsNamed, ComparisonStaysBacked, ChainLeavesOneRanking, PTL
===============================================================================
