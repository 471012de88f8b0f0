--------------------------- MODULE CollectorSchedule ---------------------------
(***************************************************************************)
(* When the history of the market is collected.  scripts/                  *)
(* run_tsetmc_history_job.sh is started again and again, waits for the     *)
(* next half hour, collects and ends; run_tsetmc_market_collector.sh loops *)
(* for ever and collects at every half hour of a session.  Both compute a  *)
(* sleep from the minute they read; the phone may wake them later.  Each   *)
(* keeps to one process of its kind with a directory, which is not         *)
(* modelled: a kill leaves the directory, and nothing is ever collected    *)
(* again.                                                                  *)
(* A definition named Slip... is a mistake that a change of the code could *)
(* make in the definition after it; each breaks a property stated below.   *)
(***************************************************************************)
EXTENDS Naturals

CONSTANTS
  Begins,     \* the seconds of the day a script may be started at
  Lasts,      \* the seconds a collection may take
  Overslept,  \* the seconds the phone may wake a script too late, once
  Until       \* bound: the second of the day the walk ends at

ASSUME SecondsAssumption == Until \in Nat /\ Begins \cup Lasts \cup Overslept \subseteq Nat

VARIABLES
  loops,   \* whether it is the collector that loops, or the job
  trading, \* whether it is Saturday to Wednesday
  begun,   \* the second of the day it was started at
  clock,   \* the second of the day
  place,   \* where the script is
  late,    \* the phone woke it too late
  turned,  \* it read the hour before the turn of an hour and the minute after
  taken    \* the second each collection began at

scheduleVars == <<loops, trading, begun, clock, place, late, turned, taken>>

Minute(c) == c \div 60
HalfHour(m) == m % 30 = 0
Nine == 9 * 60
End == 12 * 60 + 30
Opens == IF loops THEN Nine + 30 ELSE Nine

ScheduleInit ==
  /\ loops \in BOOLEAN /\ trading \in BOOLEAN
  /\ begun \in Begins /\ clock = begun
  /\ place = "look" /\ late = FALSE /\ turned = FALSE /\ taken = {}

\* The hour and the minute are read by two processes, and what they read is put together.
Reads ==
  {[at |-> clock, minute |-> Minute(clock), torn |-> FALSE]}
  \cup IF (clock + 1) % 3600 = 0
       THEN {[at |-> clock + 1, minute |-> Minute(clock) - 59, torn |-> TRUE]} ELSE {}

\* sleep s, and the phone wakes it in time or not.
Sleeps(r, s, next) ==
  /\ \/ clock' = r.at + s /\ UNCHANGED late
     \/ \E o \in Overslept : ~late /\ late' = TRUE /\ clock' = r.at + s + o
  /\ place' = next /\ turned' = (turned \/ r.torn)
  /\ UNCHANGED <<loops, trading, begun, taken>>

Collects(r, next) ==
  /\ taken' = taken \cup {r.at}
  /\ \E d \in Lasts : clock' = r.at + d
  /\ place' = next /\ turned' = (turned \/ r.torn)
  /\ UNCHANGED <<loops, trading, begun, late>>

Leaves ==
  /\ place' = "ended"
  /\ UNCHANGED <<loops, trading, begun, clock, late, turned, taken>>

-------------------------------------------------------------------------------
\* The job: past the end, or not a day of trading, there is nothing to wait for.
JobLeaves ==
  /\ ~loops /\ place = "look" /\ (~trading \/ \E r \in Reads : r.minute > End)
  /\ Leaves

\* To nine, or to the next half hour, by the minute.
ToSlot(m) == IF m < Nine THEN (Nine - m) * 60 ELSE ((30 - (m % 30)) % 30) * 60

JobAligns ==
  /\ ~loops /\ place = "look" /\ trading
  /\ \E r \in Reads : r.minute <= End /\ Sleeps(r, ToSlot(r.minute), "recheck")

SlipNoRecheck(m) == TRUE

\* The minute is read again after the sleep.
SlotNow(m) == HalfHour(m) /\ m \in Nine..End

JobCollects ==
  ~loops /\ place = "recheck" /\ \E r \in Reads : SlotNow(r.minute) /\ Collects(r, "ended")

JobMisses == ~loops /\ place = "recheck" /\ (\E r \in Reads : ~SlotNow(r.minute)) /\ Leaves

-------------------------------------------------------------------------------
\* The loop: five seconds short of the next half hour, from a minute that is none.
ToNextSlot(m) == LET s == (30 - (m % 30)) * 60 - 5 IN IF s < 5 THEN 5 ELSE s

LoopWaits ==
  /\ loops /\ place = "look"
  /\ \E r \in Reads :
       \/ (~trading \/ r.minute > End) /\ Sleeps(r, 300, "look")
       \/ trading /\ r.minute < Opens /\ Sleeps(r, (Opens - r.minute) * 60, "look")
       \/ /\ trading /\ r.minute \in Opens..End /\ ~HalfHour(r.minute)
          /\ Sleeps(r, ToNextSlot(r.minute), "look")

LoopCollects ==
  /\ loops /\ place = "look" /\ trading
  /\ \E r \in Reads : HalfHour(r.minute) /\ r.minute \in Opens..End /\ Collects(r, "away")

\* "Move away from the slot so the same slot cannot be collected twice."
Away == 61

LoopMovesAway ==
  loops /\ place = "away" /\ Sleeps([at |-> clock, torn |-> FALSE], Away, "look")

ScheduleNext ==
  /\ clock < Until
  /\ \/ JobLeaves \/ JobAligns \/ JobCollects \/ JobMisses
     \/ LoopWaits \/ LoopCollects \/ LoopMovesAway

ScheduleSpec == ScheduleInit /\ [][ScheduleNext]_scheduleVars

-------------------------------------------------------------------------------
\* Nothing is collected outside a half hour, however late a script is woken after it computed
\* its sleep, nor outside the session, unless an hour turned while it read the clock: a loop
\* that reads 12 and then 00 collects at 13:00.
CollectsInSlot ==
  \A c \in taken :
    HalfHour(Minute(c)) /\ trading /\ (~turned => Minute(c) \in Opens..End)

\* The loop collects no half hour twice.
SlotOnce == \A c, e \in taken : Minute(c) = Minute(e) => c = e

\* It misses none while it runs, if the phone wakes it in time, a collection does not last
\* into the next one, and no hour turned while it read the clock: one that reads 08 and then
\* 00 sleeps until 10:30.
NoSlotMissed ==
  loops /\ trading /\ ~late /\ ~turned =>
    \A m \in Opens..End :
      HalfHour(m) /\ begun < (m + 1) * 60 /\ clock >= (m + 1) * 60 /\ place = "look"
        => \E c \in taken : Minute(c) = m

\* Every half hour of a session is collected once.
SlotsAreKept == CollectsInSlot /\ SlotOnce /\ NoSlotMissed
===============================================================================
