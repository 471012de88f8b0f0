---------------------------- MODULE JalaliCalendar -----------------------------
(***************************************************************************)
(* The date conversions between the Gregorian and the Jalali calendar.     *)
(* The code has nine of them, each a few lines of integer arithmetic: four *)
(* to the Jalali calendar with their copies, two from it.  They are        *)
(* compared with a calendar that is simply walked, one day after the       *)
(* other, by the rules of the two calendars: some give the day of the      *)
(* walk, and two give another one.                                         *)
(* A definition named Slip... is a mistake that a change of the code could *)
(* make in the definition after it; each breaks a property stated below.   *)
(***************************************************************************)
EXTENDS Integers, FiniteSets, FiniteSetsExt

CONSTANT LastYear   \* bound: the Gregorian year in which the walk ends

ASSUME LastYearAssumption == LastYear \in Nat

VARIABLES
  g,   \* a day in the Gregorian calendar
  j    \* the same day in the Jalali calendar

calendarVars == <<g, j>>

Date(y, m, d) == [year |-> y, month |-> m, day |-> d]

(***************************************************************************)
(* The calendars.  Jalali leap years follow the 33-year cycle.             *)
(***************************************************************************)
Divides(n, y) == y % n = 0
GLeap(y) == Divides(4, y) /\ (~Divides(100, y) \/ Divides(400, y))
JLeap(y) == y % 33 \in {1, 5, 9, 13, 17, 22, 26, 30}

GDays == <<31, 28, 31, 30, 31, 30, 31, 31, 30, 31, 30, 31>>
JDays == <<31, 31, 31, 31, 31, 31, 30, 30, 30, 30, 30, 29>>

GLength(y, m) == IF m = 2 /\ GLeap(y) THEN 29 ELSE GDays[m]
JLength(y, m) == IF m = 12 /\ JLeap(y) THEN 30 ELSE JDays[m]

Tomorrow(date, Length(_, _)) ==
  CASE date.day < Length(date.year, date.month) -> [date EXCEPT !.day = @ + 1]
    [] date.day = Length(date.year, date.month) /\ date.month < 12 ->
         Date(date.year, date.month + 1, 1)
    [] OTHER -> Date(date.year + 1, 1, 1)

\* The Nowruz of 1370.
CalendarInit == g = Date(1991, 3, 21) /\ j = Date(1370, 1, 1)

CalendarNext ==
  /\ g.year < LastYear
  /\ g' = Tomorrow(g, GLength)
  /\ j' = Tomorrow(j, JLength)

CalendarSpec == CalendarInit /\ [][CalendarNext]_calendarVars

-------------------------------------------------------------------------------
(***************************************************************************)
(* What the conversions share.                                             *)
(***************************************************************************)
\* The days before each month, in a year that is not leap.
GBefore == <<0, 31, 59, 90, 120, 151, 181, 212, 243, 273, 304, 334>>
JBefore == <<0, 31, 62, 93, 124, 155, 186, 216, 246, 276, 306, 336>>

\* The month in which day n of the year lies, days counted from 0.
MonthOf(n, before) == Max({m \in 1..12 : before[m] <= n})
DayOfYear(y, n, before) ==
  LET m == MonthOf(n, before) IN Date(y, m, n - before[m] + 1)

CycleDays == 12053     \* 33 Jalali years
FourYears == 1461

\* Gregorian leap days before year y, y included when its February is over.
LeapDays(y) == (y + 3) \div 4 - (y + 99) \div 100 + (y + 399) \div 400

\* The year within the four that start at y, and the day within it.
SplitYears(y, days, first) ==
  IF days >= first
    THEN <<y + (days - 1) \div 365, (days - 1) % 365>>
    ELSE <<y, days>>

\* Jalali date of a day counted from the start of a cycle that begins in year y0.
FromCycle(y0, days, first) ==
  LET y == y0 + 33 * (days \div CycleDays) + 4 * ((days % CycleDays) \div FourYears)
      s == SplitYears(y, (days % CycleDays) % FourYears, first)
  IN  DayOfYear(s[1], s[2], JBefore)

(***************************************************************************)
(* persian_date_utils.py; copied into run_reports_fast.py and              *)
(* run_multi_reports_engine.py.                                            *)
(***************************************************************************)
DayNumber(d) ==
  LET y2 == IF d.month > 2 THEN d.year + 1 ELSE d.year
  IN  365 * d.year + LeapDays(y2) + d.day + GBefore[d.month]

SlipLeapDayNextYear(d) == FromCycle(-1595, 355666 + DayNumber(d), 365)

gregorian_to_jalali(d) == FromCycle(-1595, 355666 + DayNumber(d), 366)

\* build_validated_bundle.py counts from 1600.
BundleToJalali(d) ==
  FromCycle(979, DayNumber([d EXCEPT !.year = @ - 1600]) - 80, 366)

\* The one that bale_transport.py defines once more, further down, and so uses: in the
\* button with the time and in the header of every message.
TransportToJalali(d) == FromCycle(979, DayNumber(d) - 80 - 1, 366)

\* bale_listener.py; the one that bale_transport.py defines first is the same.
ListenerToJalali(d) ==
  LET gy2 == d.year - 1600
      feb29 == IF d.month > 2 /\ GLeap(d.year) THEN 1 ELSE 0
      g_day_no == 365 * gy2 + LeapDays(gy2) + GBefore[d.month] + feb29 + d.day - 1
  IN  FromCycle(979, g_day_no - 79, 366)

(***************************************************************************)
(* From Jalali to Gregorian.                                               *)
(***************************************************************************)
\* The century within 400 years, and the day within it; the last three centuries have
\* no leap day at their start, and count their days as if they had.
Century(n) ==
  IF n > 36524
    THEN LET rest == (n - 1) % 36524
         IN  <<100 * ((n - 1) \div 36524), IF rest >= 365 THEN rest + 1 ELSE rest>>
    ELSE <<0, n>>

\* Gregorian date of a day counted from the start of the year 0.
FromGregorianCycle(days) ==
  LET c == Century(days % 146097)
      y == 400 * (days \div 146097) + c[1] + 4 * (c[2] \div FourYears)
      s == SplitYears(y, c[2] % FourYears, 366)
      before == [m \in 1..12 |-> IF m > 2 /\ GLeap(s[1]) THEN GBefore[m] + 1 ELSE GBefore[m]]
  IN  DayOfYear(s[1], s[2], before)

JLeapDays(y) == (y \div 33) * 8 + ((y % 33) + 3) \div 4

\* scripts/analyze_unmatched_optionschool_symbols.py
jalali_to_gregorian(d) ==
  LET jy == d.year + 1595
      before == IF d.month <= 7 THEN 31 * (d.month - 1) ELSE 30 * (d.month - 1) + 6
  IN  FromGregorianCycle(365 * jy + JLeapDays(jy) + d.day + before - 355668)

\* behavior_engine.py has the same arithmetic with another year and other months.
BehaviorToGregorian(d) ==
  LET jy == d.year + 1599
      before == (IF d.month < 7 THEN 31 ELSE 30) * (d.month - 1)
  IN  FromGregorianCycle(365 * jy + JLeapDays(jy) + d.day + before - 355668)

\* A contract's date as the market watch may write it: 14050706, 1405-07-06, 1405/07/06.
ContractForms == {"digits", "dashes", "slashes"}
NoDay == Date(0, 0, 0)

\* _contract_date(text): the first two forms are taken for Gregorian whenever there is such
\* a Gregorian day (of a year of four digits); only what is left over is converted.
contract_date(form, d) ==
  IF form # "slashes" /\ d.day <= GLength(d.year, d.month) THEN d
  ELSE IF d.year \in 1200..1600 THEN BehaviorToGregorian(d)
  ELSE NoDay

-------------------------------------------------------------------------------
\* The conversions of the reports' dates and of the listener give the day of the walk.
DatesAreToday ==
  /\ gregorian_to_jalali(g) = j
  /\ BundleToJalali(g) = j
  /\ ListenerToJalali(g) = j

\* An expiry date of the OptionSchool workbook is read as the day it means.
ExpiryIsRead == jalali_to_gregorian(j) = g

\* The day before the same one sixteen hundred years on.
CenturiesOn(d) == [d EXCEPT !.year = @ + 1600, !.day = @ - 1]

\* The header of a message shows what the others would give of that day, not today's date.
HeaderIsCenturiesOn == TransportToJalali(g) = gregorian_to_jalali(CenturiesOn(g))

\* A contract's date of the market watch is read as its day when it is Gregorian, and never
\* when it is Jalali: it is then read as a day of the Gregorian year of that number,
\* centuries ago, or of one three years on or more.
ContractDateIsRead ==
  /\ \A form \in {"digits", "dashes"} : contract_date(form, g) = g
  /\ j.year \in 1200..1600 => \A form \in ContractForms :
       LET day == contract_date(form, j)
       IN (day.year <= j.year /\ j.year < g.year) \/ day.year >= g.year + 3

\* What each conversion in use makes of a day: the day itself, but for the header of a
\* message and a contract's Jalali date, which are never what they should be.
DatesAreRead == DatesAreToday /\ ExpiryIsRead /\ HeaderIsCenturiesOn /\ ContractDateIsRead
===============================================================================
