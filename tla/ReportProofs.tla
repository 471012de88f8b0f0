------------------------------ MODULE ReportProofs -----------------------------
(***************************************************************************)
(* Proofs about the report and what is kept of it: ReportRepository, for   *)
(* any calendar of sessions, any minutes at which something happens, and   *)
(* any number of runs and kills; ReportEvidence, for any number of         *)
(* reports, runs and kills; BestLimitsEvidence, for any snapshots, watch   *)
(* lists and pauses, and any number of moves of the market and retries;    *)
(* and the two memories of the phone, CaseMemory and HistoryVersions, for  *)
(* any snapshots, and any number of runs, kills and rewritten reports.     *)
(***************************************************************************)
EXTENDS ReportRepository, ReportEvidence, BestLimitsEvidence, HistoryVersions,
        WellFoundedInduction, FiniteSetTheorems, SequenceTheorems, TLAPS

Envelope == [run : Nat, made : Nat]

ReportTypeOK ==
  /\ now \in Nat
  /\ json \in [run : Nat, made : Nat, mtime : Nat, torn : BOOLEAN] /\ json.mtime <= now
  /\ excel \in Nat /\ markdown \in Nat
  /\ runner \in [at : {"idle", "built", "opened", "written", "saved"}, env : Envelope]
  /\ fetch \in [at : {"idle", "asking"}, env : Envelope]
  /\ reader \in [at : {"idle", "read"}, env : Envelope]
  /\ verdict \in [run : Nat, made : Nat, fresh : BOOLEAN]
  /\ runs \in Nat /\ breaks \in Nat /\ crossed \in BOOLEAN

\* Runs are numbered in their order: nobody has seen a later one than was begun, and the one
\* that is under way is the last.
NumbersInv ==
  /\ json.run <= runs /\ fetch.env.run <= runs /\ reader.env.run <= runs /\ verdict.run <= runs
  /\ runner.env.run <= runs /\ (runner.at # "idle" => runner.env.run = runs)
  /\ excel <= runs /\ markdown <= excel
  /\ runner.at = "saved" => excel = runner.env.run

\* As long as no correction crossed a run, what a correction will write back is what the file
\* has, and the file has the run that is being written.
FilesInv ==
  ~crossed =>
    /\ fetch.at = "asking" => fetch.env.run = json.run
    /\ runner.at \in {"opened", "written"} => json.run = runner.env.run
    /\ excel <= json.run

\* Whoever has an envelope of a run has the time at which that run began.
Held == {[run |-> json.run, made |-> json.made], [run |-> verdict.run, made |-> verdict.made],
         runner.env, fetch.env, reader.env, NoEnvelope}
TimesInv == \A e, f \in Held : e.run = f.run => e.made = f.made

\* What was called fresh at this moment still is, though its file was written since.
VerdictInv == verdict.fresh => StillFresh(json.mtime, now)

ReportInv == ReportTypeOK /\ NumbersInv /\ FilesInv /\ TimesInv /\ VerdictInv

\* No session opens between two moments without being seen to.
EveryOpening == \A d \in TradingDays : d * 1440 + MarketOpens \in Moments

-------------------------------------------------------------------------------
\* Any numbers have a smallest one.
LEMMA Smallest ==
  ASSUME NEW T \in SUBSET Nat, T # {}
  PROVE  \E x \in T : \A y \in T : x <= y
<1>1. \E x \in T : \A y \in T : <<y, x>> \notin OpToRel(<, Nat)
  BY NatLessThanWellFounded, WFMin
<1>2. \A x, y \in Nat : <<y, x>> \notin OpToRel(<, Nat) => x <= y
  BY DEF OpToRel
<1> QED BY <1>1, <1>2

\* Min is that one.
LEMMA MinIsSmallest ==
  ASSUME NEW T \in SUBSET Nat, T # {}
  PROVE  /\ Min(T) \in T
         /\ \A y \in T : Min(T) <= y
BY Smallest DEF Min

\* Max is the largest of numbers that something bounds: the smallest of their bounds.
LEMMA MaxIsLargest ==
  ASSUME NEW T \in SUBSET Nat, T # {}, NEW n \in Nat, \A y \in T : y <= n
  PROVE  /\ Max(T) \in T
         /\ \A y \in T : Max(T) >= y
<1> DEFINE Bounds == {m \in Nat : \A y \in T : y <= m}
<1>1. n \in Bounds /\ Bounds \in SUBSET Nat OBVIOUS
<1>2. PICK m \in Bounds : \A k \in Bounds : m <= k BY <1>1, Smallest
<1>3. m \in T
  <2>1. SUFFICES ASSUME m \notin T PROVE FALSE OBVIOUS
  <2>2. m \in Nat /\ \A y \in T : y \in Nat /\ y < m BY <2>1
  <2>3. PICK y \in T : TRUE OBVIOUS
  <2>4. m # 0 BY <2>2, <2>3
  <2>5. m - 1 \in Bounds BY <2>2, <2>4
  <2> QED BY <1>2, <2>2, <2>5
<1>4. \A y \in T : m >= y OBVIOUS
<1> QED BY <1>3, <1>4 DEF Max

\* What last_session_start returns: an opening, if any came before, and none since.
LEMMA LastStart ==
  ASSUME NEW t \in Nat
  PROVE  /\ last_session_start(t) \in Nat /\ last_session_start(t) <= t
         /\ \A d \in TradingDays : d * 1440 + MarketOpens <= t => d * 1440 + MarketOpens <= last_session_start(t)
         /\ \/ last_session_start(t) = 0
            \/ \E d \in TradingDays : last_session_start(t) = d * 1440 + MarketOpens
<1> DEFINE open == IF MinuteOf(t) < MarketOpens THEN 1 ELSE 0
           sessions == {d \in TradingDays : d + open <= Day(t)}
<1>0. open \in 0..1 /\ MarketOpens = 540 BY DEF MarketOpens
<1>1. Day(t) \in Nat /\ MinuteOf(t) \in 0..1439 /\ t = Day(t) * 1440 + MinuteOf(t) BY DEF Day, MinuteOf
<1>2. TradingDays \subseteq Nat BY RepositoryAssumption
<1>3. last_session_start(t) = IF sessions = {} THEN 0 ELSE Max(sessions) * 1440 + MarketOpens
  BY DEF last_session_start
<1>4. ASSUME NEW d \in TradingDays
      PROVE  d + open <= Day(t) <=> d * 1440 + MarketOpens <= t
  BY <1>0, <1>1, <1>2
<1>5. CASE sessions = {}
  <2>1. \A d \in TradingDays : ~(d * 1440 + MarketOpens <= t) BY <1>4, <1>5
  <2> QED BY <1>3, <1>5, <2>1
<1>6. CASE sessions # {}
  <2>1. sessions \in SUBSET Nat BY <1>2
  <2>2. \A d \in sessions : d <= Day(t)
    <3>1. ASSUME NEW d \in TradingDays, d + open <= Day(t) PROVE d <= Day(t) BY <1>0, <1>1, <1>2, <3>1
    <3> QED BY <3>1
  <2> DEFINE last == Max(sessions)
  <2>3. last \in sessions /\ \A d \in sessions : last >= d
    <3>1. Day(t) \in Nat BY <1>1
    <3> HIDE DEF sessions
    <3>2. Max(sessions) \in sessions /\ \A d \in sessions : Max(sessions) >= d
      BY <1>6, <2>1, <2>2, <3>1, MaxIsLargest
    <3> QED BY <3>2
  <2> HIDE DEF last
  <2>4. last \in TradingDays /\ last \in Nat /\ last * 1440 + MarketOpens <= t BY <1>2, <1>4, <2>3
  <2>5. \A d \in TradingDays : d * 1440 + MarketOpens <= t => d \in Nat /\ last >= d BY <1>2, <1>4, <2>3
  <2>6. \A d \in TradingDays :
          d * 1440 + MarketOpens <= t => d * 1440 + MarketOpens <= last * 1440 + MarketOpens
    BY <1>0, <2>4, <2>5
  <2>7. last_session_start(t) = last * 1440 + MarketOpens BY <1>3, <1>6 DEF last
  <2>8. last * 1440 + MarketOpens \in Nat BY <1>0, <2>4
  <2> QED BY <2>4, <2>6, <2>7, <2>8
<1> QED BY <1>5, <1>6

\* A report is fresh at the minute it is written.
LEMMA FreshAtOnce ==
  ASSUME NEW t \in Nat
  PROVE  StillFresh(t, t)
BY LastStart DEF StillFresh, MaxAge

-------------------------------------------------------------------------------
\* In the market's hours what is fresh is of the last twenty minutes.
LEMMA FreshInHours ==
  ASSUME NEW t \in Nat, NEW g \in Nat, is_market_hours(t)
  PROVE  StillFresh(g, t) <=> t <= g + 20
BY DEF StillFresh, MaxAge

\* The next moment is the first one after now.
LEMMA NextMoment ==
  ASSUME now \in Nat, TimePasses
  PROVE  now' \in Nat /\ now' > now /\ \A t \in Moments : t > now => now' <= t
<1> DEFINE later == {t \in Moments : t > now}
<1>1. later \in SUBSET Nat /\ later # {} BY RepositoryAssumption DEF TimePasses
<1>2. now' = Min(later) BY DEF TimePasses
<1>3. Min(later) \in later /\ \A t \in later : Min(later) <= t
  <2> HIDE DEF later
  <2> QED BY <1>1, MinIsSmallest
<1> QED BY <1>1, <1>2, <1>3

\* The variables keep their types, and no file is of the future.
LEMMA TypeStep ==
  ASSUME ReportTypeOK, [ReportNext]_reportVars
  PROVE  ReportTypeOK'
<1> USE RepositoryAssumption DEF ReportTypeOK, Envelope, File, Has, NoEnvelope, RunnerGoes, reportFiles
<1>1. CASE TimePasses
  <2>1. now' \in Nat /\ now' > now BY <1>1, NextMoment
  <2> QED BY <1>1, <2>1 DEF TimePasses, NoVerdict
<1>2. CASE RunnerBuilds BY <1>2 DEF RunnerBuilds
<1>3. CASE RunnerOpens BY <1>3 DEF RunnerOpens
<1>4. CASE RunnerWrites BY <1>4 DEF RunnerWrites
<1>5. CASE RunnerSaves BY <1>5 DEF RunnerSaves
<1>6. CASE RunnerSaveFails BY <1>6 DEF RunnerSaveFails
<1>7. CASE RunnerEnds BY <1>7 DEF RunnerEnds
<1>8. CASE RunnerKilled BY <1>8 DEF RunnerKilled
<1>9. CASE FetchReads BY <1>9 DEF FetchReads
<1>10. CASE FetchWrites BY <1>10 DEF FetchWrites
<1>11. CASE LoadReads BY <1>11 DEF LoadReads
<1>12. CASE LoadJudges
  <2>1. StillFresh(json.mtime, now) \in BOOLEAN
    <3>1. (now - json.mtime <= MaxAge) \in BOOLEAN /\ (json.mtime >= last_session_start(now)) \in BOOLEAN OBVIOUS
    <3> QED BY <3>1, Zenon DEF StillFresh
  <2> QED BY <1>12, <2>1 DEF LoadJudges
<1>13. CASE UNCHANGED reportVars BY <1>13 DEF reportVars
<1> QED
  BY <1>1, <1>2, <1>3, <1>4, <1>5, <1>6, <1>7, <1>8, <1>9, <1>10, <1>11, <1>12, <1>13 DEF ReportNext

\* Runs keep their numbers, and files that are written in an order keep it.
LEMMA FilesStep ==
  ASSUME ReportTypeOK, NumbersInv, FilesInv, [ReportNext]_reportVars
  PROVE  NumbersInv' /\ FilesInv'
<1> USE DEF ReportTypeOK, Envelope, NumbersInv, FilesInv, File, Has, NoEnvelope, RunnerGoes, reportFiles
<1>1. CASE TimePasses BY <1>1 DEF TimePasses, NoVerdict
<1>2. CASE RunnerBuilds BY <1>2 DEF RunnerBuilds
<1>3. CASE RunnerOpens BY <1>3 DEF RunnerOpens
<1>4. CASE RunnerWrites BY <1>4 DEF RunnerWrites
<1>5. CASE RunnerSaves BY <1>5 DEF RunnerSaves
<1>6. CASE RunnerSaveFails BY <1>6 DEF RunnerSaveFails
<1>7. CASE RunnerEnds BY <1>7 DEF RunnerEnds
<1>8. CASE RunnerKilled BY <1>8 DEF RunnerKilled
<1>9. CASE FetchReads BY <1>9 DEF FetchReads
<1>10. CASE FetchWrites BY <1>10 DEF FetchWrites
<1>11. CASE LoadReads BY <1>11 DEF LoadReads
<1>12. CASE LoadJudges BY <1>12 DEF LoadJudges
<1>13. CASE UNCHANGED reportVars BY <1>13 DEF reportVars
<1> QED
  BY <1>1, <1>2, <1>3, <1>4, <1>5, <1>6, <1>7, <1>8, <1>9, <1>10, <1>11, <1>12, <1>13 DEF ReportNext

\* Copies of an envelope have its time, and a new run has a number nobody has seen.
LEMMA TimesStep ==
  ASSUME ReportTypeOK, NumbersInv, TimesInv, [ReportNext]_reportVars
  PROVE  TimesInv'
<1> USE DEF ReportTypeOK, Envelope, NumbersInv, TimesInv, Held, File, Has, NoEnvelope, RunnerGoes, reportFiles
<1>1. CASE TimePasses BY <1>1 DEF TimePasses, NoVerdict
<1>2. CASE RunnerBuilds BY <1>2 DEF RunnerBuilds
<1>3. CASE RunnerOpens BY <1>3 DEF RunnerOpens
<1>4. CASE RunnerWrites BY <1>4 DEF RunnerWrites
<1>5. CASE RunnerSaves BY <1>5 DEF RunnerSaves
<1>6. CASE RunnerSaveFails BY <1>6 DEF RunnerSaveFails
<1>7. CASE RunnerEnds BY <1>7 DEF RunnerEnds
<1>8. CASE RunnerKilled BY <1>8 DEF RunnerKilled
<1>9. CASE FetchReads BY <1>9 DEF FetchReads
<1>10. CASE FetchWrites BY <1>10 DEF FetchWrites
<1>11. CASE LoadReads BY <1>11 DEF LoadReads
<1>12. CASE LoadJudges BY <1>12 DEF LoadJudges
<1>13. CASE UNCHANGED reportVars BY <1>13 DEF reportVars
<1> QED
  BY <1>1, <1>2, <1>3, <1>4, <1>5, <1>6, <1>7, <1>8, <1>9, <1>10, <1>11, <1>12, <1>13 DEF ReportNext

\* A verdict is about its moment, and a file that is written at that moment is fresh.
LEMMA VerdictStep ==
  ASSUME ReportTypeOK, VerdictInv, [ReportNext]_reportVars
  PROVE  VerdictInv'
<1>1. CASE TimePasses BY <1>1 DEF TimePasses, NoVerdict, VerdictInv
<1>2. CASE LoadJudges
  <2>1. json' = json /\ now' = now /\ verdict'.fresh = StillFresh(json.mtime, now)
    BY <1>2 DEF LoadJudges, reportFiles
  <2>2. StillFresh(json.mtime, now)' <=> StillFresh(json.mtime, now)
    BY <2>1 DEF StillFresh, is_market_hours, last_session_start
  <2> QED BY <2>1, <2>2 DEF VerdictInv
<1>3. CASE RunnerOpens \/ RunnerWrites \/ FetchWrites
  <2>1. now' = now /\ json'.mtime = now
    BY <1>3 DEF RunnerOpens, RunnerWrites, FetchWrites, RunnerGoes, File
  <2>2. StillFresh(now, now) BY FreshAtOnce DEF ReportTypeOK
  <2> QED BY <2>1, <2>2 DEF VerdictInv, StillFresh, is_market_hours, last_session_start
<1>4. CASE UNCHANGED <<now, json, verdict>>
  BY <1>4 DEF VerdictInv, StillFresh, is_market_hours, last_session_start
<1> QED
  BY <1>1, <1>2, <1>3, <1>4
  DEF ReportNext, RunnerBuilds, RunnerSaves, RunnerSaveFails, RunnerEnds, RunnerKilled, FetchReads,
      LoadReads, RunnerGoes, reportFiles, reportVars

\* The invariant holds at the beginning and is kept.
THEOREM Invariance == ReportSpec => []ReportInv
<1>1. ReportInit => ReportInv
  <2> SUFFICES ASSUME ReportInit PROVE ReportInv OBVIOUS
  <2>1. now \in Nat BY RepositoryAssumption, MinIsSmallest DEF ReportInit
  <2>2. ReportTypeOK
    <3>1. NoEnvelope \in Envelope BY DEF NoEnvelope, Envelope
    <3>2. runner = Has("idle", NoEnvelope) /\ fetch = Has("idle", NoEnvelope) /\ reader = Has("idle", NoEnvelope)
      BY DEF ReportInit
    <3>3. json \in [run : Nat, made : Nat, mtime : Nat, torn : BOOLEAN] /\ json.mtime <= now
      BY <2>1 DEF ReportInit, NoReportFile
    <3>4. verdict \in [run : Nat, made : Nat, fresh : BOOLEAN] BY DEF ReportInit, NoVerdict
    <3>5. excel \in Nat /\ markdown \in Nat /\ runs \in Nat /\ breaks \in Nat /\ crossed \in BOOLEAN
      BY DEF ReportInit
    <3> QED BY <2>1, <3>1, <3>2, <3>3, <3>4, <3>5 DEF ReportTypeOK, Has
  <2>3. NumbersInv /\ FilesInv /\ VerdictInv
    BY DEF ReportInit, NumbersInv, FilesInv, VerdictInv, Has, NoEnvelope, NoReportFile, NoVerdict
  <2>4. TimesInv BY DEF ReportInit, TimesInv, Held, Has, NoEnvelope, NoReportFile, NoVerdict
  <2> QED BY <2>2, <2>3, <2>4 DEF ReportInv
<1>2. ReportInv /\ [ReportNext]_reportVars => ReportInv'
  BY TypeStep, FilesStep, TimesStep, VerdictStep DEF ReportInv
<1> QED BY <1>1, <1>2, PTL DEF ReportSpec

\* The variables of the repository have their types.
THEOREM TypeCorrect == ReportSpec => []ReportTypeOK
BY Invariance, PTL DEF ReportInv

\* The files of a report follow each other, and what is called fresh is: BaseReport.run and
\* load, beside the correction and any kill.
THEOREM ReportStaysWhole == ReportSpec => []ReportIsWhole
<1>1. ReportInv => FilesInOrder BY DEF ReportInv, NumbersInv, FilesInv, FilesInOrder
<1>2. ReportInv => FreshIsOfThisSession
  <2> SUFFICES ASSUME ReportInv, verdict.fresh, json.mtime - json.made <= MaxAge, json.run = verdict.run
               PROVE  \/ now - verdict.made <= 2 * MaxAge
                      \/ ~\E d \in TradingDays : d * 1440 + MarketOpens \in (json.mtime + 1)..now
    BY DEF FreshIsOfThisSession
  <2>1. json.made = verdict.made BY DEF ReportInv, TimesInv, Held
  <2>2. now \in Nat /\ json.mtime \in Nat /\ json.made \in Nat BY DEF ReportInv, ReportTypeOK
  <2>3. CASE now - json.mtime <= MaxAge BY <2>1, <2>2, <2>3 DEF MaxAge
  <2>4. CASE json.mtime >= last_session_start(now)
    <3>1. ASSUME NEW d \in TradingDays, d * 1440 + MarketOpens \in (json.mtime + 1)..now PROVE FALSE
      <4>1. d * 1440 + MarketOpens <= now /\ d * 1440 + MarketOpens > json.mtime /\ d * 1440 + MarketOpens \in Int
        BY <2>2, <3>1
      <4>2. d * 1440 + MarketOpens <= last_session_start(now) /\ last_session_start(now) \in Nat
        BY <2>2, <4>1, LastStart
      <4> QED BY <2>2, <2>4, <4>1, <4>2
    <3> QED BY <3>1
  <2> QED BY <2>3, <2>4 DEF ReportInv, VerdictInv, StillFresh
<1>3. ReportInv => ReportIsWhole BY <1>1, <1>2 DEF ReportIsWhole
<1> QED BY <1>3, Invariance, PTL

-------------------------------------------------------------------------------
\* A minute of a day is of no other day.
LEMMA SameDay ==
  ASSUME NEW d \in Nat, NEW e \in Nat, NEW m \in Nat, NEW n \in Nat, m < 1440, n < 1440,
         d * 1440 + m = e * 1440 + n
  PROVE  d = e /\ m = n
<1>1. d < e + 1 /\ e < d + 1 OBVIOUS
<1> QED BY <1>1

\* The session's hours of a day.
LEMMA HoursOfDay ==
  ASSUME NEW t \in Nat
  PROVE  is_market_hours(t) <=>
           \E d \in TradingDays : d * 1440 + MarketOpens <= t /\ t <= d * 1440 + MarketCloses
<1>1. Day(t) \in Nat /\ MinuteOf(t) \in 0..1439 /\ t = Day(t) * 1440 + MinuteOf(t) BY DEF Day, MinuteOf
<1>2. TradingDays \subseteq Nat BY RepositoryAssumption
<1>3. MarketOpens = 540 /\ MarketCloses = 750 BY DEF MarketOpens, MarketCloses
<1>4. ASSUME is_market_hours(t)
      PROVE  Day(t) \in TradingDays /\ Day(t) * 1440 + MarketOpens <= t /\ t <= Day(t) * 1440 + MarketCloses
  BY <1>1, <1>3, <1>4 DEF is_market_hours
<1>5. ASSUME NEW d \in TradingDays, d * 1440 + MarketOpens <= t, t <= d * 1440 + MarketCloses
      PROVE  is_market_hours(t)
  <2> DEFINE m == t - d * 1440
  <2>0. d \in Nat /\ m \in Nat /\ m < 1440 /\ d * 1440 + m = t BY <1>2, <1>3, <1>5
  <2> HIDE DEF m
  <2>1. d = Day(t) BY <1>1, <2>0, SameDay
  <2>2. MinuteOf(t) >= MarketOpens /\ MinuteOf(t) <= MarketCloses BY <1>1, <1>3, <1>5, <2>1
  <2> QED BY <1>1, <1>3, <2>1, <2>2 DEF is_market_hours
<1> QED BY <1>4, <1>5

\* The file goes on to later runs.
LEMMA ForwardStep ==
  ASSUME ReportTypeOK, NumbersInv, FilesInv, [ReportNext]_reportVars
  PROVE  RunsGoForward
<1> USE DEF ReportTypeOK, Envelope, NumbersInv, FilesInv, RunsGoForward, File, RunnerGoes, reportFiles
<1>1. CASE RunnerOpens BY <1>1 DEF RunnerOpens
<1>2. CASE RunnerWrites BY <1>2 DEF RunnerWrites
<1>3. CASE FetchWrites BY <1>3 DEF FetchWrites
<1>4. CASE UNCHANGED json BY <1>4
<1> QED
  BY <1>1, <1>2, <1>3, <1>4
  DEF ReportNext, TimePasses, RunnerBuilds, RunnerSaves, RunnerSaveFails, RunnerEnds, RunnerKilled, FetchReads,
      LoadReads, LoadJudges, reportVars

\* Only time makes a file stale or fresh.
LEMMA OnlyTime ==
  ASSUME [ReportNext]_reportVars
  PROVE  TimePasses \/ now' = now
BY DEF ReportNext, RunnerBuilds, RunnerOpens, RunnerWrites, RunnerSaves, RunnerSaveFails, RunnerEnds,
       RunnerKilled, FetchReads, FetchWrites, LoadReads, LoadJudges, RunnerGoes, reportVars

\* Outside the market's hours only an opening makes a report stale, and none is passed over.
LEMMA StaleStep ==
  ASSUME EveryOpening, ReportTypeOK, TimePasses
  PROVE  FreshUntilOpening
<1> SUFFICES ASSUME NEW g \in Moments, g <= now, StillFresh(g, now), ~is_market_hours(now), ~is_market_hours(now')
             PROVE  StillFresh(g, now')
  BY DEF FreshUntilOpening
<1>1. now \in Nat /\ now' \in Nat /\ now' > now /\ \A t \in Moments : t > now => now' <= t
  BY NextMoment DEF ReportTypeOK
<1>2. g \in Nat /\ TradingDays \subseteq Nat BY RepositoryAssumption
<1>3. g >= last_session_start(now) BY DEF StillFresh
<1>4. last_session_start(now) \in Nat /\ last_session_start(now') \in Nat BY <1>1, LastStart
<1>5. CASE last_session_start(now') = 0 BY <1>2, <1>5 DEF StillFresh
<1>6. ASSUME NEW d \in TradingDays, last_session_start(now') = d * 1440 + MarketOpens
      PROVE  d * 1440 + MarketOpens <= now
  <2>1. d * 1440 + MarketOpens \in Moments BY DEF EveryOpening
  <2>2. d * 1440 + MarketOpens <= now' BY <1>1, <1>6, LastStart
  <2>3. d * 1440 + MarketOpens # now'
    <3>1. SUFFICES ASSUME d * 1440 + MarketOpens = now' PROVE FALSE OBVIOUS
    <3>2. now' <= d * 1440 + MarketCloses BY <1>1, <1>2, <3>1 DEF MarketOpens, MarketCloses
    <3> QED BY <1>1, <3>1, <3>2, HoursOfDay
  <2> QED BY <1>1, <1>4, <1>6, <2>1, <2>2, <2>3
<1>7. last_session_start(now') = 0 \/ last_session_start(now') <= last_session_start(now)
  BY <1>1, <1>6, LastStart
<1> QED BY <1>2, <1>3, <1>4, <1>5, <1>7 DEF StillFresh

\* A stale report is fresh again only when its own session closes.
LEMMA AgainStep ==
  ASSUME ReportTypeOK, TimePasses
  PROVE  FreshAgainAtClose
<1> SUFFICES ASSUME NEW g \in Moments, g <= now, ~StillFresh(g, now), StillFresh(g, now')
             PROVE  Day(now) \in TradingDays /\ Day(g) = Day(now) /\ is_market_hours(now) /\ ~is_market_hours(now')
  BY DEF FreshAgainAtClose
<1>1. now \in Nat /\ now' \in Nat /\ now' > now BY NextMoment DEF ReportTypeOK
<1>2. g \in Nat /\ TradingDays \subseteq Nat BY RepositoryAssumption
<1>3. last_session_start(now) \in Nat /\ last_session_start(now') \in Nat /\ last_session_start(now) <= now
  BY <1>1, LastStart
<1>4. is_market_hours(now)
  <2> SUFFICES ASSUME ~is_market_hours(now) PROVE FALSE OBVIOUS
  <2>1. g < last_session_start(now) BY <1>2, <1>3 DEF StillFresh
  <2>2. PICK d \in TradingDays : last_session_start(now) = d * 1440 + MarketOpens BY <1>1, <1>2, <1>3, <2>1, LastStart
  <2>3. CASE is_market_hours(now')
    <3>1. now' <= g + 20 BY <1>1, <1>2, <2>3, FreshInHours
    <3>2. now <= g + 20 BY <1>1, <1>2, <3>1
    <3>3. now <= last_session_start(now) + 20 BY <1>1, <1>2, <1>3, <2>1, <3>2
    <3>4. d \in Nat /\ MarketOpens = 540 /\ MarketCloses = 750 BY <1>2 DEF MarketOpens, MarketCloses
    <3>5. now <= d * 1440 + MarketCloses BY <1>1, <2>2, <3>3, <3>4
    <3> QED BY <1>1, <1>3, <2>2, <3>5, HoursOfDay
  <2>4. CASE ~is_market_hours(now')
    <3>1. g >= last_session_start(now') BY <2>4 DEF StillFresh
    <3>2. d * 1440 + MarketOpens <= now' BY <1>1, <1>3, <2>2
    <3>3. last_session_start(now) <= last_session_start(now') BY <1>1, <2>2, <3>2, LastStart
    <3> QED BY <1>2, <1>3, <2>1, <3>1, <3>3
  <2> QED BY <2>3, <2>4
<1>5. ~(now <= g + 20) BY <1>1, <1>2, <1>4, FreshInHours
<1>6. ~is_market_hours(now')
  <2>1. is_market_hours(now') => now' <= g + 20 BY <1>1, <1>2, FreshInHours
  <2> QED BY <1>1, <1>2, <1>5, <2>1
<1>7. Day(now) \in TradingDays /\ MinuteOf(now) >= MarketOpens BY <1>4 DEF is_market_hours
<1>8. now = Day(now) * 1440 + MinuteOf(now) /\ Day(now) \in Nat /\ MinuteOf(now) \in 0..1439
  BY <1>1 DEF Day, MinuteOf
<1>9. Day(now) * 1440 + MarketOpens <= now' BY <1>1, <1>7, <1>8 DEF MarketOpens
<1>10. Day(now) * 1440 + MarketOpens <= g
  <2>1. Day(now) * 1440 + MarketOpens <= last_session_start(now') BY <1>1, <1>7, <1>9, LastStart
  <2>2. g >= last_session_start(now') BY <1>6 DEF StillFresh
  <2> QED BY <1>2, <1>3, <1>8, <2>1, <2>2 DEF MarketOpens
<1>11. Day(g) = Day(now)
  <2>1. g = Day(g) * 1440 + MinuteOf(g) /\ Day(g) \in Nat /\ MinuteOf(g) \in 0..1439 BY <1>2 DEF Day, MinuteOf
  <2> DEFINE m == g - Day(now) * 1440
  <2>2. m \in Nat /\ m < 1440 /\ Day(now) * 1440 + m = g
    BY <1>1, <1>2, <1>8, <1>10 DEF MarketOpens
  <2> HIDE DEF m
  <2>3. MinuteOf(g) \in Nat /\ MinuteOf(g) < 1440 BY <2>1
  <2>4. Day(now) * 1440 + m = Day(g) * 1440 + MinuteOf(g) BY <2>1, <2>2
  <2>5. Day(now) \in Nat BY <1>8
  <2> QED BY <2>1, <2>2, <2>3, <2>4, <2>5, SameDay
<1> QED BY <1>4, <1>6, <1>7, <1>11

\* Freshness turns only where it should: is_report_still_fresh_now over any calendar, if
\* something happens at every opening; and runs follow each other in the file.
THEOREM FreshnessTurnsOnTime == EveryOpening => (ReportSpec => FreshnessTurns)
<1> SUFFICES ASSUME EveryOpening PROVE ReportSpec => FreshnessTurns OBVIOUS
<1>1. ReportInv /\ [ReportNext]_reportVars => [RunsGoForward /\ FreshUntilOpening /\ FreshAgainAtClose]_reportVars
  <2> SUFFICES ASSUME ReportInv, [ReportNext]_reportVars
               PROVE  RunsGoForward /\ FreshUntilOpening /\ FreshAgainAtClose
    OBVIOUS
  <2>1. RunsGoForward BY ForwardStep DEF ReportInv
  <2>2. CASE TimePasses BY <2>1, <2>2, StaleStep, AgainStep DEF ReportInv
  <2>3. CASE now' = now BY <2>1, <2>3 DEF FreshUntilOpening, FreshAgainAtClose
  <2> QED BY <2>2, <2>3, OnlyTime
<1> QED BY <1>1, Invariance, PTL DEF ReportSpec, FreshnessTurns

-------------------------------------------------------------------------------
(***************************************************************************)
(* ReportEvidence. A run of the engine leaves its files one after the      *)
(* other, and the gate, the archive and the bundle read them at other      *)
(* times. As long as no two runs overlapped and none was killed half way,  *)
(* the files that a reader has taken are those of the report it has taken  *)
(* last.                                                                   *)
(***************************************************************************)
Rows == {"whole", "top", "fewer", "torn", "none", "share"}
Report == [snap : Numbers, rows : Rows, sound : BOOLEAN, universe : Rows \ {"torn", "none"}]
EngineStages == {"idle", "built", "text", "top", "archived"}
GateStages == {"idle", "engine", "verify", "read", "audit", "hash", "send", "conclude"}

EvidenceTypeOK ==
  /\ made \in Seq(Report)
  /\ text \in Nat /\ audit \in Nat
  /\ cached \in [snap : Numbers, rows : Rows]
  /\ archived \in [Numbers -> Rows]
  /\ engine \in [Engines -> [at : EngineStages, report : Nat]]
  /\ gate \in [at : GateStages, text : Nat, audit : Nat]
  /\ delivery \in [status : {"none", "SUCCESS", "FAIL"}, sent : Nat, report : Nat]
  /\ passed \in [report : Nat, snap : Numbers]
  /\ bundle \in [at : {"idle", "named", "copied", "queued"}, named : Nat, text : Nat]
  /\ stops \in Nat /\ mixed \in BOOLEAN

\* An engine is at work on a report that was built; the collector only archives.
EngineInv ==
  /\ \A e \in Engines : Busy(e) => engine[e].report \in DOMAIN made
  /\ engine["collector"].at \in {"idle", "top"}

\* The engines that have written their text, but not their audit.
Between == {e \in Engines \ {"collector"} : engine[e].at \in {"text", "top", "archived"}}

\* Unless two ran at once or one was killed: one engine at a time, and nobody reads meanwhile;
\* the text and the audit are of one report, or the text is of the one that is under way.
AloneInv ==
  /\ \A e, f \in Engines : Busy(e) /\ Busy(f) => e = f
  /\ gate.at \in {"read", "audit", "hash", "send"} \/ bundle.at \in {"named", "copied"}
       => \A e \in Engines : ~Busy(e)
  /\ text = audit \/ \E e \in Between : text = engine[e].report
  /\ \A e \in Between : text = engine[e].report

\* What gate 6 holds in hand is what it read, and only an audited report is sent.
GateInv ==
  /\ gate.at = "send" => Sound(gate.audit)
  /\ delivery.status # "SUCCESS" => delivery.report = 0
  /\ ~mixed => /\ gate.at \in {"audit", "hash"} => gate.text = text
               /\ gate.at = "send" => gate.text = gate.audit

\* What is being copied is of the report whose name was written down.
CopyInv == ~mixed /\ bundle.at = "named" => bundle.named = text

EvidenceInv ==
  EvidenceTypeOK /\ EngineInv /\ (~mixed => AloneInv) /\ GateInv /\ CopyInv /\ EvidenceIsOfOneRun
-------------------------------------------------------------------------------
\* What a report once is, it stays: reports are only added.
LEMMA ReportsStay ==
  ASSUME EvidenceTypeOK, [EvidenceNext]_evidenceVars
  PROVE  /\ DOMAIN made \subseteq DOMAIN made'
         /\ \A r \in DOMAIN made : made'[r] = made[r]
<1>1. CASE made' = made BY <1>1
<1>2. ASSUME NEW e \in Engines, EngineBuilds(e)
      PROVE  /\ DOMAIN made \subseteq DOMAIN made'
             /\ \A r \in DOMAIN made : made'[r] = made[r]
  <2>1. PICK report : made' = Append(made, report) BY <1>2 DEF EngineBuilds
  <2> QED BY <2>1 DEF EvidenceTypeOK
<1>3. CASE ~\E e \in Engines : EngineBuilds(e)
  <2>1. made' = made
    BY <1>3 DEF EvidenceNext, evidenceVars, EngineWritesText, EngineWritesTop, EngineArchives, Archive,
       EngineAt, EngineWritesAudit, EngineKilled, GateBegins, GateFails, VerifiesAudit, ReadsText, ReadsAudit,
       ComparesHash, Sends, Concludes, GateGoes, GateStands, BundleBegins, BundleCopies, BundlePublished,
       BundleStands
  <2> QED BY <2>1
<1> QED BY <1>2, <1>3

\* What was sound stays so, and names the same snapshot.
LEMMA SoundStays ==
  ASSUME EvidenceTypeOK, [EvidenceNext]_evidenceVars, NEW r, Sound(r)
  PROVE  Sound(r)' /\ SnapOf(r)' = SnapOf(r)
  BY ReportsStay DEF Sound, SnapOf

\* The snapshot of any number is one of Numbers.
LEMMA SnapIsNumber ==
  ASSUME EvidenceTypeOK, NEW r
  PROVE  SnapOf(r) \in Numbers
<1>1. 0 \in Numbers BY EvidenceAssumption DEF Numbers
<1>2. \A q \in DOMAIN made : made[q] \in Report BY DEF EvidenceTypeOK
<1> QED BY <1>1, <1>2 DEF SnapOf, Report

LEMMA EngineTypes ==
  ASSUME EvidenceTypeOK, EngineInv, NEW e \in Engines,
         EngineBuilds(e) \/ EngineWritesText(e) \/ EngineWritesTop(e) \/ EngineArchives(e)
           \/ EngineWritesAudit(e) \/ EngineKilled(e)
  PROVE  EvidenceTypeOK'
<1>0. /\ engine \in [Engines -> [at : EngineStages, report : Nat]] /\ made \in Seq(Report)
      /\ archived \in [Numbers -> Rows] /\ cached \in [snap : Numbers, rows : Rows]
      /\ NoRun \in [at : EngineStages, report : Nat]
      /\ gate \in [at : GateStages, text : Nat, audit : Nat] /\ text \in Nat /\ audit \in Nat
      /\ stops \in Nat /\ mixed \in BOOLEAN /\ MaxReports \in Nat
  BY EvidenceAssumption DEF EvidenceTypeOK, NoRun, EngineStages
<1>b. Busy(e) => Of(e) \in Report BY <1>0 DEF EngineInv, Of
<1>f. [gate EXCEPT !.at = "verify"] \in [at : GateStages, text : Nat, audit : Nat] BY <1>0 DEF GateStages
<1>g. NoGate \in [at : GateStages, text : Nat, audit : Nat] BY DEF NoGate, GateStages
<1>1. CASE EngineBuilds(e)
  <2>1. PICK of \in {[snap |-> Len(made) + 1, rows |-> "whole"]}
               \cup {[snap |-> made[r].snap, rows |-> "whole"] : r \in {q \in DOMAIN made : made[q].rows = "whole"}}
               \cup {c \in {cached} : c.rows \in UsableRows},
             share \in BOOLEAN, sound \in BOOLEAN :
             /\ cached' = IF of.snap = Len(made) + 1 THEN of ELSE cached
             /\ made' = Append(made, [snap |-> of.snap, rows |-> of.rows, sound |-> sound,
                                      universe |-> IF share THEN "share" ELSE of.rows])
    BY <1>1 DEF EngineBuilds
  <2>2. Len(made) + 1 \in Numbers /\ Len(made) \in Nat BY <1>0, <1>1 DEF EngineBuilds, Numbers
  <2>3. of \in [snap : Numbers, rows : {"whole", "top"}]
    <3>1. CASE of = [snap |-> Len(made) + 1, rows |-> "whole"] BY <2>2, <3>1
    <3>2. ASSUME NEW r \in DOMAIN made, of = [snap |-> made[r].snap, rows |-> "whole"]
          PROVE of \in [snap : Numbers, rows : {"whole", "top"}]
      <4>1. made[r] \in Report BY <1>0
      <4> QED BY <3>2, <4>1 DEF Report
    <3>3. CASE of = cached /\ cached.rows \in UsableRows BY <1>0, <3>3 DEF UsableRows
    <3> QED BY <2>1, <3>1, <3>2, <3>3
  <2>4. cached' \in [snap : Numbers, rows : Rows] BY <1>0, <2>1, <2>3 DEF Rows
  <2>5. made' \in Seq(Report) /\ Len(made') \in Nat
    <3>1. [snap |-> of.snap, rows |-> of.rows, sound |-> sound, universe |-> IF share THEN "share" ELSE of.rows]
            \in Report BY <2>1, <2>3 DEF Report, Rows
    <3> QED BY <1>0, <2>1, <3>1
  <2>6. engine' \in [Engines -> [at : EngineStages, report : Nat]]
    BY <1>0, <1>1, <2>5 DEF EngineBuilds, EngineStages
  <2>7. mixed' \in BOOLEAN
    <3>1. (mixed \/ Reading \/ \E o \in Engines : Busy(o)) \in BOOLEAN OBVIOUS
    <3> QED BY <1>1, <3>1 DEF EngineBuilds
  <2> QED BY <1>1, <2>4, <2>5, <2>6, <2>7 DEF EngineBuilds, EvidenceTypeOK, gateVars
<1>2. CASE EngineWritesText(e)
  BY <1>0, <1>2 DEF EngineWritesText, EngineAt, EvidenceTypeOK, gateVars, EngineStages
<1>3. CASE EngineWritesTop(e)
  <2>1. Busy(e) BY <1>3 DEF EngineWritesTop, EngineAt, Busy
  <2>2. Of(e).snap \in Numbers BY <1>b, <2>1 DEF Report
  <2>3. cached' \in [snap : Numbers, rows : Rows] BY <1>3, <2>2 DEF EngineWritesTop, Rows
  <2> QED BY <1>0, <1>3, <2>3 DEF EngineWritesTop, EngineAt, EvidenceTypeOK, gateVars, EngineStages
<1>4. CASE EngineArchives(e)
  <2>1. Busy(e) BY <1>4 DEF EngineArchives, Archive, Busy
  <2>2. Of(e).universe \in Rows BY <1>b, <2>1 DEF Report
  <2>3. archived' \in [Numbers -> Rows] BY <1>0, <1>4, <2>2 DEF EngineArchives, Archive
  <2>4. engine' \in [Engines -> [at : EngineStages, report : Nat]]
    BY <1>0, <1>4 DEF EngineArchives, Archive, EngineStages
  <2> QED BY <1>4, <2>3, <2>4 DEF EngineArchives, Archive, EvidenceTypeOK, gateVars
<1>5. CASE EngineWritesAudit(e)
  <2>1. audit' \in Nat BY <1>0, <1>5 DEF EngineWritesAudit
  <2>2. engine' \in [Engines -> [at : EngineStages, report : Nat]] BY <1>0, <1>5 DEF EngineWritesAudit
  <2>3. gate' \in [at : GateStages, text : Nat, audit : Nat] BY <1>0, <1>5, <1>f DEF EngineWritesAudit, Returns
  <2> QED BY <1>5, <2>1, <2>2, <2>3 DEF EngineWritesAudit, EvidenceTypeOK
<1>6. CASE EngineKilled(e)
  <2>1. engine' \in [Engines -> [at : EngineStages, report : Nat]] /\ stops' \in Nat /\ mixed' \in BOOLEAN
    BY <1>0, <1>6 DEF EngineKilled
  <2>2. gate' \in [at : GateStages, text : Nat, audit : Nat] BY <1>0, <1>6, <1>g DEF EngineKilled
  <2>3. text' \in Nat /\ audit' \in Nat BY <1>0, <1>6 DEF EngineKilled, TornText, evidenceFiles
  <2>4. cached' \in [snap : Numbers, rows : Rows]
    BY <1>0, <1>6 DEF EngineKilled, Numbers, Rows, evidenceFiles
  <2>5. archived' \in [Numbers -> Rows] BY <1>0, <1>6 DEF EngineKilled, Rows, evidenceFiles
  <2> QED BY <1>6, <2>1, <2>2, <2>3, <2>4, <2>5 DEF EngineKilled, EvidenceTypeOK
<1> QED BY <1>1, <1>2, <1>3, <1>4, <1>5, <1>6

LEMMA ReaderTypes ==
  ASSUME EvidenceTypeOK,
         \/ GateBegins \/ GateFails \/ VerifiesAudit \/ ReadsText \/ ReadsAudit \/ ComparesHash \/ Sends \/ Concludes
         \/ BundleBegins \/ BundleCopies \/ BundlePublished
  PROVE  EvidenceTypeOK'
<1>0. /\ gate \in [at : GateStages, text : Nat, audit : Nat] /\ text \in Nat /\ audit \in Nat /\ mixed \in BOOLEAN
      /\ delivery \in [status : {"none", "SUCCESS", "FAIL"}, sent : Nat, report : Nat]
      /\ NoGate \in [at : GateStages, text : Nat, audit : Nat]
      /\ bundle \in [at : {"idle", "named", "copied", "queued"}, named : Nat, text : Nat]
  BY DEF EvidenceTypeOK, NoGate, GateStages
<1>m. (mixed \/ \E e \in Engines : Busy(e)) \in BOOLEAN OBVIOUS
<1> USE DEF GateStands, evidenceFiles
<1>1. CASE GateBegins BY <1>0, <1>1 DEF GateBegins, EvidenceTypeOK, GateStages
<1>2. CASE GateFails BY <1>0, <1>2 DEF GateFails, EvidenceTypeOK
<1>3. CASE VerifiesAudit BY <1>0, <1>m, <1>3 DEF VerifiesAudit, GateGoes, EvidenceTypeOK, GateStages
<1>4. CASE ReadsText BY <1>0, <1>m, <1>4 DEF ReadsText, GateGoes, EvidenceTypeOK, GateStages
<1>5. CASE ReadsAudit BY <1>0, <1>m, <1>5 DEF ReadsAudit, GateGoes, EvidenceTypeOK, GateStages
<1>6. CASE ComparesHash BY <1>0, <1>m, <1>6 DEF ComparesHash, GateGoes, EvidenceTypeOK, GateStages
<1>7. CASE Sends
  <2>1. delivery' \in [status : {"none", "SUCCESS", "FAIL"}, sent : Nat, report : Nat]
    BY <1>0, <1>7 DEF Sends, NoDelivery
  <2>2. gate' \in [at : GateStages, text : Nat, audit : Nat] BY <1>0, <1>7 DEF Sends, GateStages
  <2> QED BY <1>7, <2>1, <2>2 DEF Sends, EvidenceTypeOK
<1>8. CASE Concludes
  <2>1. passed' \in [report : Nat, snap : Numbers] BY <1>0, <1>8, SnapIsNumber DEF Concludes, EvidenceTypeOK
  <2> QED BY <1>0, <1>8, <2>1 DEF Concludes, EvidenceTypeOK
<1>9. CASE BundleBegins
  <2>1. bundle' \in [at : {"idle", "named", "copied", "queued"}, named : Nat, text : Nat]
    BY <1>0, <1>9 DEF BundleBegins
  <2> QED BY <1>m, <1>9, <2>1 DEF BundleBegins, BundleStands, EvidenceTypeOK, gateVars
<1>10. CASE BundleCopies BY <1>0, <1>10 DEF BundleCopies, BundleStands, EvidenceTypeOK, gateVars
<1>11. CASE BundlePublished
  <2>1. bundle' \in [at : {"idle", "named", "copied", "queued"}, named : Nat, text : Nat]
    BY <1>0, <1>11 DEF BundlePublished, NoBundle
  <2> QED BY <1>11, <2>1 DEF BundlePublished, BundleStands, EvidenceTypeOK, gateVars
<1> QED BY <1>1, <1>2, <1>3, <1>4, <1>5, <1>6, <1>7, <1>8, <1>9, <1>10, <1>11
LEMMA EvidenceTypeStep ==
  ASSUME EvidenceTypeOK, EngineInv, [EvidenceNext]_evidenceVars
  PROVE  EvidenceTypeOK'
<1>1. CASE UNCHANGED evidenceVars BY <1>1 DEF evidenceVars, EvidenceTypeOK
<1>2. CASE EvidenceNext BY <1>2, EngineTypes, ReaderTypes DEF EvidenceNext
<1> QED BY <1>1, <1>2

-------------------------------------------------------------------------------
Readers ==
  \/ GateBegins \/ GateFails \/ VerifiesAudit \/ ReadsText \/ ReadsAudit \/ ComparesHash \/ Sends \/ Concludes
  \/ BundleBegins \/ BundleCopies \/ BundlePublished

\* Readers leave the engines and their files alone.
LEMMA ReadersOnlyRead ==
  ASSUME Readers
  PROVE  UNCHANGED <<made, evidenceFiles, engine, stops>>
BY DEF Readers, GateBegins, GateFails, VerifiesAudit, ReadsText, ReadsAudit, ComparesHash, Sends, Concludes,
   GateGoes, GateStands, BundleBegins, BundleCopies, BundlePublished, BundleStands

\* The engine at work moves on, or a new one begins; no other does.
LEMMA OthersStay ==
  ASSUME EvidenceTypeOK, NEW e \in Engines,
         EngineBuilds(e) \/ EngineWritesText(e) \/ EngineWritesTop(e) \/ EngineArchives(e)
           \/ EngineWritesAudit(e) \/ EngineKilled(e)
  PROVE  \A o \in Engines \ {e} : engine'[o] = engine[o]
BY DEF EvidenceTypeOK, EngineBuilds, EngineWritesText, EngineWritesTop, EngineArchives, Archive, EngineAt,
   EngineWritesAudit, EngineKilled

LEMMA EngineStep ==
  ASSUME EvidenceTypeOK, EngineInv, [EvidenceNext]_evidenceVars
  PROVE  EngineInv'
<1>1. CASE UNCHANGED evidenceVars BY <1>1 DEF evidenceVars, EngineInv, Busy
<1>2. CASE Readers BY <1>2, ReadersOnlyRead DEF EngineInv, Busy
<1>3. ASSUME NEW e \in Engines,
             EngineBuilds(e) \/ EngineWritesText(e) \/ EngineWritesTop(e) \/ EngineArchives(e)
               \/ EngineWritesAudit(e) \/ EngineKilled(e)
      PROVE  EngineInv'
  <2>0. engine \in [Engines -> [at : EngineStages, report : Nat]] /\ made \in Seq(Report) BY DEF EvidenceTypeOK
  <2>1. \A o \in Engines \ {e} : engine'[o] = engine[o] BY <1>3, OthersStay
  <2>2. DOMAIN made \subseteq DOMAIN made' BY ReportsStay
  <2>3. Busy(e)' => engine'[e].report \in DOMAIN made' /\ (e = "collector" => engine'[e].at = "top")
    <3>1. CASE EngineBuilds(e)
      <4>1. PICK report : made' = Append(made, report) BY <3>1 DEF EngineBuilds
      <4>2. Len(made') \in DOMAIN made' BY <2>0, <4>1
      <4> QED BY <2>0, <3>1, <4>2 DEF EngineBuilds
    <3>2. CASE EngineWritesText(e) \/ EngineWritesTop(e) \/ EngineArchives(e)
      <4>1. Busy(e) /\ (e = "collector" => engine[e].at = "top")
        BY <3>2 DEF EngineWritesText, EngineWritesTop, EngineArchives, Archive, EngineAt, Busy, EngineInv
      <4>2. engine'[e] = NoRun \/ engine'[e].report = engine[e].report
        BY <2>0, <3>2 DEF EngineWritesText, EngineWritesTop, EngineArchives, Archive, EngineAt
      <4>3. e = "collector" => engine'[e] = NoRun
        BY <2>0, <3>2, <4>1 DEF EngineWritesText, EngineWritesTop, EngineArchives, Archive, EngineAt
      <4> QED BY <2>2, <4>1, <4>2, <4>3 DEF EngineInv, Busy, NoRun
    <3>3. CASE EngineWritesAudit(e) \/ EngineKilled(e)
      <4>1. engine'[e] = NoRun BY <2>0, <3>3 DEF EngineWritesAudit, EngineKilled
      <4> QED BY <4>1 DEF Busy, NoRun
    <3> QED BY <1>3, <3>1, <3>2, <3>3
  <2>4. \A o \in Engines \ {e} : Busy(o)' = Busy(o) BY <2>1 DEF Busy
  <2> QED BY <2>1, <2>2, <2>3, <2>4 DEF EngineInv, Busy, Engines
<1> QED BY <1>1, <1>2, <1>3 DEF EvidenceNext, Readers

-------------------------------------------------------------------------------
\* What was mixed stays so.
LEMMA MixedStays ==
  ASSUME [EvidenceNext]_evidenceVars, ~mixed'
  PROVE  ~mixed
BY DEF EvidenceNext, evidenceVars, EngineBuilds, EngineWritesText, EngineWritesTop, EngineArchives, Archive,
   EngineAt, EngineWritesAudit, EngineKilled, GateBegins, GateFails, VerifiesAudit, ReadsText, ReadsAudit,
   ComparesHash, Sends, Concludes, GateGoes, GateStands, BundleBegins, BundleCopies, BundlePublished,
   BundleStands

LEMMA AloneEngineStep ==
  ASSUME EvidenceTypeOK, EngineInv, AloneInv, ~mixed', NEW e \in Engines,
         EngineBuilds(e) \/ EngineWritesText(e) \/ EngineWritesTop(e) \/ EngineArchives(e)
           \/ EngineWritesAudit(e) \/ EngineKilled(e)
  PROVE  AloneInv'
<1>0. engine \in [Engines -> [at : EngineStages, report : Nat]] /\ gate \in [at : GateStages, text : Nat, audit : Nat]
  BY DEF EvidenceTypeOK
<1>1. \A o \in Engines \ {e} : engine'[o] = engine[o] BY OthersStay
<1>2. \A o \in Engines \ {e} : ~Busy(o) /\ o \notin Between /\ ~Busy(o)' /\ o \notin Between'
  <2>1. \A o \in Engines \ {e} : ~Busy(o)
    BY DEF AloneInv, EngineBuilds, EngineWritesText, EngineWritesTop, EngineArchives, Archive, EngineAt,
       EngineWritesAudit, EngineKilled, Busy
  <2> QED BY <1>1, <2>1 DEF Busy, Between
<1>3. (\A o, f \in Engines : Busy(o) /\ Busy(f) => o = f)' BY <1>2
<1>4. ~(gate.at \in {"read", "audit", "hash", "send"} \/ bundle.at \in {"named", "copied"})'
  <2>1. ~(gate.at \in {"read", "audit", "hash", "send"} \/ bundle.at \in {"named", "copied"})
    <3>1. CASE EngineBuilds(e) BY <3>1 DEF EngineBuilds, Reading
    <3>2. CASE ~EngineBuilds(e)
      BY <3>2 DEF AloneInv, EngineWritesText, EngineWritesTop, EngineArchives, Archive, EngineAt,
         EngineWritesAudit, EngineKilled, Busy
    <3> QED BY <3>1, <3>2
  <2>2. (gate' = gate \/ gate'.at = "verify") /\ bundle' = bundle
    BY <1>0 DEF EngineBuilds, EngineWritesText, EngineWritesTop, EngineArchives, Archive, EngineAt,
       EngineWritesAudit, EngineKilled, Returns, gateVars
  <2> QED BY <2>1, <2>2
<1>5. (text = audit \/ \E o \in Between : text = engine[o].report)' /\ (\A o \in Between : text = engine[o].report)'
  <2>1. CASE EngineBuilds(e)
    <3>1. e \notin Between /\ e \notin Between' /\ text' = text /\ audit' = audit
      BY <1>0, <2>1 DEF EngineBuilds, Between, Busy
    <3> QED BY <1>2, <3>1 DEF AloneInv, Between
  <2>2. CASE EngineWritesText(e)
    <3>1. e # "collector" BY <2>2 DEF EngineWritesText, EngineAt, EngineInv
    <3>2. e \in Between' /\ text' = engine'[e].report
      BY <1>0, <2>2, <3>1 DEF EngineWritesText, EngineAt, Between
    <3> QED BY <1>2, <3>2 DEF Between
  <2>3. CASE EngineWritesTop(e)
    <3>1. e # "collector" BY <2>3 DEF EngineWritesTop, EngineAt, EngineInv
    <3>2. e \in Between /\ e \in Between' /\ engine'[e].report = engine[e].report /\ text' = text
      BY <1>0, <2>3, <3>1 DEF EngineWritesTop, EngineAt, Between
    <3> QED BY <1>2, <3>2 DEF AloneInv, Between
  <2>4. CASE EngineArchives(e)
    <3>1. text' = text /\ audit' = audit /\ (e \in Between <=> e \in Between')
          /\ (e \in Between => engine'[e].report = engine[e].report)
      BY <1>0, <2>4 DEF EngineArchives, Archive, Between, NoRun
    <3> QED BY <1>2, <3>1 DEF AloneInv, Between
  <2>5. CASE EngineWritesAudit(e)
    <3>1. e \in Between BY <2>5 DEF EngineWritesAudit, EngineInv, Between
    <3>2. e \notin Between' /\ audit' = engine[e].report /\ text' = text
      BY <1>0, <2>5 DEF EngineWritesAudit, Between, NoRun
    <3> QED BY <1>2, <3>1, <3>2 DEF AloneInv, Between
  <2>6. CASE EngineKilled(e) BY <2>6 DEF EngineKilled
  <2> QED BY <2>1, <2>2, <2>3, <2>4, <2>5, <2>6
<1> QED BY <1>3, <1>4, <1>5 DEF AloneInv

LEMMA AloneStep ==
  ASSUME EvidenceTypeOK, EngineInv, ~mixed => AloneInv, [EvidenceNext]_evidenceVars, ~mixed'
  PROVE  AloneInv'
<1>0. AloneInv /\ gate \in [at : GateStages, text : Nat, audit : Nat]
      /\ bundle \in [at : {"idle", "named", "copied", "queued"}, named : Nat, text : Nat]
  BY MixedStays DEF EvidenceTypeOK
<1>1. CASE UNCHANGED evidenceVars BY <1>0, <1>1 DEF evidenceVars, AloneInv, Busy, Between
<1>2. CASE Readers
  <2>1. UNCHANGED <<engine, text, audit>> BY <1>2, ReadersOnlyRead DEF evidenceFiles
  <2>2. (gate.at \in {"read", "audit", "hash", "send"})' => gate.at = gate'.at \/ \A e \in Engines : ~Busy(e)
    <3>1. CASE VerifiesAudit \/ ReadsText \/ ReadsAudit \/ ComparesHash
      BY <3>1 DEF VerifiesAudit, ReadsText, ReadsAudit, ComparesHash, GateGoes
    <3>2. CASE GateBegins \/ GateFails \/ Sends \/ Concludes
      <4>1. gate'.at \in {"engine", "idle", "conclude"}
        BY <3>2 DEF GateBegins, GateFails, Sends, Concludes, NoGate
      <4> QED BY <4>1
    <3>3. CASE BundleBegins \/ BundleCopies \/ BundlePublished
      BY <3>3 DEF BundleBegins, BundleCopies, BundlePublished, BundleStands, gateVars
    <3> QED BY <1>2, <3>1, <3>2, <3>3 DEF Readers
  <2>3. (bundle.at \in {"named", "copied"})' =>
          bundle.at \in {"named", "copied"} \/ \A e \in Engines : ~Busy(e)
    BY <1>0, <1>2 DEF Readers, GateBegins, GateFails, VerifiesAudit, ReadsText, ReadsAudit, ComparesHash, Sends,
       Concludes, GateGoes, GateStands, BundleBegins, BundleCopies, BundlePublished, NoBundle
  <2>4. (gate.at \in {"read", "audit", "hash", "send"} \/ bundle.at \in {"named", "copied"})'
          => \A e \in Engines : ~Busy(e)
    BY <1>0, <2>2, <2>3 DEF AloneInv
  <2> QED BY <1>0, <2>1, <2>4 DEF AloneInv, Busy, Between
<1> QED BY <1>0, <1>1, <1>2, AloneEngineStep DEF EvidenceNext, Readers

-------------------------------------------------------------------------------
\* While nothing is mixed, an engine at work leaves the gate and the copy to themselves.
LEMMA EngineKeepsAway ==
  ASSUME EvidenceTypeOK, NEW e \in Engines,
         EngineBuilds(e) \/ EngineWritesText(e) \/ EngineWritesTop(e) \/ EngineArchives(e)
           \/ EngineWritesAudit(e) \/ EngineKilled(e)
  PROVE  /\ UNCHANGED <<delivery, passed, bundle>>
         /\ gate' = gate \/ gate'.at \in {"verify", "idle"}
         /\ text' = text \/ Busy(e) \/ mixed'
<1>0. gate \in [at : GateStages, text : Nat, audit : Nat] BY DEF EvidenceTypeOK
<1>1. UNCHANGED <<delivery, passed, bundle>>
  BY DEF EngineBuilds, EngineWritesText, EngineWritesTop, EngineArchives, Archive, EngineAt, EngineWritesAudit,
     EngineKilled, gateVars
<1>2. CASE EngineWritesText(e) BY <1>1, <1>2 DEF EngineWritesText, EngineAt, Busy, gateVars
<1>3. CASE EngineKilled(e)
  <2>1. mixed' /\ (gate' = gate \/ gate' = NoGate) BY <1>3 DEF EngineKilled
  <2> QED BY <1>1, <2>1 DEF NoGate
<1>4. CASE EngineWritesAudit(e) BY <1>0, <1>1, <1>4 DEF EngineWritesAudit, Returns
<1>5. CASE EngineBuilds(e) \/ EngineWritesTop(e) \/ EngineArchives(e)
  <2>1. gate' = gate /\ text' = text
    BY <1>5 DEF EngineBuilds, EngineWritesTop, EngineAt, EngineArchives, Archive, gateVars
  <2> QED BY <1>1, <2>1
<1> QED BY <1>2, <1>3, <1>4, <1>5

LEMMA GateStep ==
  ASSUME EvidenceTypeOK, GateInv, ~mixed => AloneInv, [EvidenceNext]_evidenceVars
  PROVE  GateInv'
<1>0. /\ gate \in [at : GateStages, text : Nat, audit : Nat]
      /\ delivery \in [status : {"none", "SUCCESS", "FAIL"}, sent : Nat, report : Nat]
      /\ ~mixed' => ~mixed
  BY MixedStays DEF EvidenceTypeOK
<1>s. \A r : Sound(r) => Sound(r)' BY SoundStays
<1>1. CASE UNCHANGED evidenceVars BY <1>1 DEF evidenceVars, GateInv, Sound
<1>2. ASSUME NEW e \in Engines,
             EngineBuilds(e) \/ EngineWritesText(e) \/ EngineWritesTop(e) \/ EngineArchives(e)
               \/ EngineWritesAudit(e) \/ EngineKilled(e)
      PROVE  GateInv'
  <2>1. delivery' = delivery /\ (gate' = gate \/ gate'.at \in {"verify", "idle"}) BY <1>2, EngineKeepsAway
  <2>2. ~mixed' /\ gate.at \in {"audit", "hash"} => text' = text
    BY <1>0, <1>2, EngineKeepsAway DEF AloneInv
  <2> QED BY <1>0, <1>s, <2>1, <2>2 DEF GateInv
<1>3. CASE BundleBegins \/ BundleCopies \/ BundlePublished
  BY <1>0, <1>3 DEF BundleBegins, BundleCopies, BundlePublished, BundleStands, evidenceFiles, gateVars, GateInv, Sound
<1>4. CASE GateBegins \/ GateFails \/ VerifiesAudit \/ Concludes
  <2>1. gate'.at \in {"engine", "idle", "read"} /\ delivery' = delivery
    BY <1>0, <1>4 DEF GateBegins, GateFails, VerifiesAudit, Concludes, GateGoes, NoGate
  <2> QED BY <2>1 DEF GateInv
<1>5. CASE ReadsText
  <2>1. gate'.at = "audit" /\ gate'.text = text /\ text' = text /\ delivery' = delivery
    BY <1>0, <1>5 DEF ReadsText, GateGoes, GateStands, evidenceFiles
  <2> QED BY <2>1 DEF GateInv
<1>6. CASE ReadsAudit
  <2>1. /\ gate.at = "audit" /\ gate'.at = "hash" /\ gate'.text = gate.text
        /\ text' = text /\ delivery' = delivery
    BY <1>0, <1>6 DEF ReadsAudit, GateGoes, GateStands, evidenceFiles
  <2> QED BY <1>0, <2>1 DEF GateInv
<1>7. CASE ComparesHash
  <2>1. /\ gate.at = "hash" /\ gate'.at = "send" /\ gate'.text = gate.text /\ gate'.audit = gate.audit
        /\ text = gate.audit /\ Sound(gate.audit) /\ text' = text /\ delivery' = delivery
    BY <1>0, <1>7 DEF ComparesHash, GateGoes, GateStands, evidenceFiles
  <2> QED BY <1>0, <1>s, <2>1 DEF GateInv
<1>8. CASE Sends
  <2>1. gate'.at \in {"idle", "conclude"} /\ (delivery'.status # "SUCCESS" => delivery'.report = 0)
    BY <1>0, <1>8 DEF Sends, NoGate, NoDelivery
  <2> QED BY <2>1 DEF GateInv
<1> QED BY <1>1, <1>2, <1>3, <1>4, <1>5, <1>6, <1>7, <1>8 DEF EvidenceNext

LEMMA CopyStep ==
  ASSUME EvidenceTypeOK, CopyInv, BundleIsOfOneRun, EngineInv, ~mixed => AloneInv, [EvidenceNext]_evidenceVars
  PROVE  CopyInv' /\ BundleIsOfOneRun'
<1> SUFFICES ASSUME ~mixed' PROVE CopyInv' /\ BundleIsOfOneRun'
  BY DEF CopyInv, BundleIsOfOneRun
<1>0. /\ bundle \in [at : {"idle", "named", "copied", "queued"}, named : Nat, text : Nat]
      /\ ~mixed /\ AloneInv
  BY MixedStays DEF EvidenceTypeOK
<1>1. CASE UNCHANGED evidenceVars BY <1>1 DEF evidenceVars, CopyInv, BundleIsOfOneRun
<1>2. ASSUME NEW e \in Engines,
             EngineBuilds(e) \/ EngineWritesText(e) \/ EngineWritesTop(e) \/ EngineArchives(e)
               \/ EngineWritesAudit(e) \/ EngineKilled(e)
      PROVE  CopyInv' /\ BundleIsOfOneRun'
  <2>1. bundle' = bundle BY <1>2, EngineKeepsAway
  <2>2. bundle.at = "named" => text' = text BY <1>0, <1>2, EngineKeepsAway DEF AloneInv
  <2> QED BY <1>0, <2>1, <2>2 DEF CopyInv, BundleIsOfOneRun
<1>3. CASE BundleBegins
  <2>1. \A e \in Engines : ~Busy(e) BY <1>3 DEF BundleBegins
  <2>2. text = audit BY <1>0, <2>1 DEF AloneInv, Between, Busy
  <2>3. bundle'.at = "named" /\ bundle'.named = audit /\ text' = text
    BY <1>3 DEF BundleBegins, BundleStands, evidenceFiles
  <2> QED BY <2>2, <2>3 DEF CopyInv, BundleIsOfOneRun
<1>4. CASE BundleCopies
  <2>1. bundle.at = "named" /\ bundle'.at = "copied" /\ bundle'.named = bundle.named /\ bundle'.text = text
    BY <1>0, <1>4 DEF BundleCopies
  <2> QED BY <1>0, <2>1 DEF CopyInv, BundleIsOfOneRun
<1>5. CASE BundlePublished
  <2>1. CASE bundle' = NoBundle BY <2>1 DEF NoBundle, CopyInv, BundleIsOfOneRun
  <2>2. CASE bundle' = [bundle EXCEPT !.at = "queued"]
    <3>1. bundle.at = "copied" BY <1>5 DEF BundlePublished
    <3>2. bundle'.at = "queued" /\ bundle'.named = bundle.named /\ bundle'.text = bundle.text BY <1>0, <2>2
    <3> QED BY <1>0, <3>1, <3>2 DEF CopyInv, BundleIsOfOneRun
  <2> QED BY <1>5, <2>1, <2>2 DEF BundlePublished
<1>6. CASE GateBegins \/ GateFails \/ VerifiesAudit \/ ReadsText \/ ReadsAudit \/ ComparesHash \/ Sends \/ Concludes
  <2>1. bundle' = bundle /\ text' = text
    BY <1>6 DEF GateBegins, GateFails, VerifiesAudit, ReadsText, ReadsAudit, ComparesHash, Sends, Concludes,
       GateGoes, GateStands, evidenceFiles
  <2> QED BY <1>0, <2>1 DEF CopyInv, BundleIsOfOneRun
<1> QED BY <1>1, <1>2, <1>3, <1>4, <1>5, <1>6 DEF EvidenceNext

\* A delivery is of what the gate compared, and stays of an audited report.
LEMMA DeliveryStep ==
  ASSUME EvidenceTypeOK, GateInv, DeliveredWasAudited, [EvidenceNext]_evidenceVars
  PROVE  DeliveredWasAudited'
<1>0. \A r : Sound(r) => Sound(r)' BY SoundStays
<1>1. CASE delivery' = delivery BY <1>0, <1>1, MixedStays DEF DeliveredWasAudited
<1>2. CASE Sends
  <2>1. gate.at = "send" /\ mixed' = mixed BY <1>2 DEF Sends
  <2>2. delivery'.status = "SUCCESS" => delivery' = [status |-> "SUCCESS", sent |-> gate.text, report |-> gate.audit]
    BY <1>2 DEF Sends, NoDelivery
  <2> QED BY <1>0, <2>1, <2>2 DEF GateInv, DeliveredWasAudited
<1>3. CASE ~Sends
  <2>1. CASE \E e \in Engines :
               EngineBuilds(e) \/ EngineWritesText(e) \/ EngineWritesTop(e) \/ EngineArchives(e)
                 \/ EngineWritesAudit(e) \/ EngineKilled(e)
    BY <1>1, <2>1, EngineKeepsAway
  <2>2. CASE UNCHANGED evidenceVars BY <1>1, <2>2 DEF evidenceVars
  <2>3. CASE Readers
    <3>1. delivery' = delivery
      BY <1>3, <2>3 DEF Readers, GateBegins, GateFails, VerifiesAudit, ReadsText, ReadsAudit, ComparesHash,
         Concludes, GateGoes, BundleBegins, BundleCopies, BundlePublished, BundleStands, gateVars
    <3> QED BY <1>1, <3>1
  <2> QED BY <2>1, <2>2, <2>3 DEF EvidenceNext, Readers
<1> QED BY <1>2, <1>3

\* Gate 6 names the text it sees: the one it compared with the delivery.
LEMMA PassStep ==
  ASSUME EvidenceTypeOK, GateInv, DeliveredWasAudited, PassIsOfOneRun, [EvidenceNext]_evidenceVars
  PROVE  PassIsOfOneRun'
<1>0. \A r : Sound(r) => Sound(r)' /\ SnapOf(r)' = SnapOf(r) BY SoundStays
<1>1. CASE passed' = passed BY <1>0, <1>1 DEF PassIsOfOneRun
<1>2. CASE Concludes /\ passed' # passed
  <2>1. /\ passed' = [report |-> text, snap |-> SnapOf(audit)]
        /\ delivery.report = text /\ SnapOf(delivery.report) = SnapOf(audit)
    BY <1>2 DEF Concludes
  <2>2. text # 0 => Sound(text) BY <2>1 DEF GateInv, DeliveredWasAudited
  <2> QED BY <1>0, <2>1, <2>2 DEF PassIsOfOneRun
<1>3. CASE ~Concludes
  <2>1. CASE \E e \in Engines :
               EngineBuilds(e) \/ EngineWritesText(e) \/ EngineWritesTop(e) \/ EngineArchives(e)
                 \/ EngineWritesAudit(e) \/ EngineKilled(e)
    BY <1>1, <2>1, EngineKeepsAway
  <2>2. CASE UNCHANGED evidenceVars BY <1>1, <2>2 DEF evidenceVars
  <2>3. CASE Readers
    <3>1. passed' = passed
      BY <1>3, <2>3 DEF Readers, GateBegins, GateFails, VerifiesAudit, ReadsText, ReadsAudit, ComparesHash,
         Sends, GateGoes, BundleBegins, BundleCopies, BundlePublished, BundleStands, gateVars
    <3> QED BY <1>1, <3>1
  <2> QED BY <2>1, <2>2, <2>3 DEF EvidenceNext, Readers
<1> QED BY <1>1, <1>2, <1>3

\* What an engine archives is the universe of its own report, and only a kill leaves else.
LEMMA ArchiveStep ==
  ASSUME EvidenceTypeOK, EngineInv, ArchiveIsUncut, [EvidenceNext]_evidenceVars
  PROVE  ArchiveIsUncut'
<1> SUFFICES ASSUME ~mixed', NEW s \in Numbers, archived'[s] # "none"
             PROVE  \E r \in DOMAIN made' : made'[r].snap = s /\ made'[r].universe = archived'[s]
  BY DEF ArchiveIsUncut
<1>0. ~mixed /\ archived \in [Numbers -> Rows] BY MixedStays DEF EvidenceTypeOK
<1>1. CASE archived' = archived
  <2>1. PICK r \in DOMAIN made : made[r].snap = s /\ made[r].universe = archived[s]
    BY <1>0, <1>1 DEF ArchiveIsUncut
  <2> QED BY <1>1, <2>1, ReportsStay
<1>2. ASSUME NEW e \in Engines, EngineArchives(e), archived' # archived
      PROVE  \E r \in DOMAIN made' : made'[r].snap = s /\ made'[r].universe = archived'[s]
  <2>1. Busy(e) /\ made' = made BY <1>2 DEF EngineArchives, Archive, Busy
  <2>2. CASE s = Of(e).snap /\ archived[s] = "none"
    <3>1. archived'[s] = Of(e).universe BY <1>0, <1>2, <2>2 DEF EngineArchives, Archive
    <3>2. engine[e].report \in DOMAIN made BY <2>1 DEF EngineInv
    <3> QED BY <2>1, <2>2, <3>1, <3>2 DEF Of
  <2>3. CASE ~(s = Of(e).snap /\ archived[s] = "none")
    <3>1. archived'[s] = archived[s] BY <1>0, <1>2, <2>3 DEF EngineArchives, Archive
    <3> QED BY <1>0, <2>1, <3>1 DEF ArchiveIsUncut
  <2> QED BY <2>2, <2>3
<1>3. CASE ~\E e \in Engines : EngineArchives(e)
  <2>1. archived' = archived
    <3>1. CASE Readers BY <3>1, ReadersOnlyRead DEF evidenceFiles
    <3>2. CASE UNCHANGED evidenceVars BY <3>2 DEF evidenceVars
    <3>3. ASSUME NEW e \in Engines,
                 EngineBuilds(e) \/ EngineWritesText(e) \/ EngineWritesTop(e)
                   \/ EngineWritesAudit(e) \/ EngineKilled(e)
          PROVE archived' = archived
      BY <3>3 DEF EngineBuilds, EngineWritesText, EngineWritesTop, EngineWritesAudit, EngineKilled
    <3> QED BY <1>3, <3>1, <3>2, <3>3 DEF EvidenceNext, Readers
  <2> QED BY <1>1, <2>1
<1> QED BY <1>1, <1>2, <1>3

-------------------------------------------------------------------------------
\* The invariant: every reader has in hand what one run of the engine left, or says so.
THEOREM EvidenceInvariance == EvidenceSpec => []EvidenceInv
<1>1. EvidenceInit => EvidenceInv
  <2> SUFFICES ASSUME EvidenceInit PROVE EvidenceInv OBVIOUS
  <2>1. EvidenceTypeOK
    <3>1. 0 \in Numbers BY EvidenceAssumption DEF Numbers
    <3>2. made \in Seq(Report) /\ cached \in [snap : Numbers, rows : Rows] /\ archived \in [Numbers -> Rows]
      BY <3>1 DEF EvidenceInit, Rows
    <3>3. engine \in [Engines -> [at : EngineStages, report : Nat]]
      BY DEF EvidenceInit, NoRun, EngineStages
    <3>4. gate \in [at : GateStages, text : Nat, audit : Nat] /\ passed \in [report : Nat, snap : Numbers]
          /\ delivery \in [status : {"none", "SUCCESS", "FAIL"}, sent : Nat, report : Nat]
          /\ bundle \in [at : {"idle", "named", "copied", "queued"}, named : Nat, text : Nat]
      BY <3>1 DEF EvidenceInit, NoGate, NoPass, NoDelivery, NoBundle, GateStages
    <3> QED BY <3>2, <3>3, <3>4 DEF EvidenceInit, EvidenceTypeOK
  <2>2. \A e \in Engines : ~Busy(e) /\ e \notin Between BY DEF EvidenceInit, Busy, Between, NoRun
  <2>3. EngineInv /\ AloneInv
    <3>1. EngineInv BY <2>2 DEF EvidenceInit, EngineInv, NoRun, Engines
    <3>2. text = audit BY DEF EvidenceInit
    <3>3. Between = {} BY <2>2 DEF Between
    <3>4. AloneInv BY <2>2, <3>2, <3>3 DEF AloneInv
    <3> QED BY <3>1, <3>4
  <2>4. GateInv /\ CopyInv BY DEF EvidenceInit, GateInv, CopyInv, NoGate, NoDelivery, NoBundle
  <2>5. EvidenceIsOfOneRun
    BY DEF EvidenceInit, EvidenceIsOfOneRun, DeliveredWasAudited, PassIsOfOneRun, ArchiveIsUncut, BundleIsOfOneRun,
       NoDelivery, NoPass, NoBundle
  <2> QED BY <2>1, <2>3, <2>4, <2>5 DEF EvidenceInv
<1>2. EvidenceInv /\ [EvidenceNext]_evidenceVars => EvidenceInv'
  <2> SUFFICES ASSUME EvidenceInv, [EvidenceNext]_evidenceVars PROVE EvidenceInv' OBVIOUS
  <2> USE DEF EvidenceInv, EvidenceIsOfOneRun
  <2>1. EvidenceTypeOK' BY EvidenceTypeStep
  <2>2. EngineInv' BY EngineStep
  <2>3. ~mixed' => AloneInv' BY AloneStep
  <2>4. GateInv' BY GateStep
  <2>5. CopyInv' /\ BundleIsOfOneRun' BY CopyStep
  <2>6. DeliveredWasAudited' /\ PassIsOfOneRun' BY DeliveryStep, PassStep
  <2>7. ArchiveIsUncut' BY ArchiveStep
  <2> QED BY <2>1, <2>2, <2>3, <2>4, <2>5, <2>6, <2>7
<1> QED BY <1>1, <1>2, PTL DEF EvidenceSpec

\* What was delivered, what was concluded, what is archived and what is published is each of
\* one run of the engine, however many ran and were killed.
THEOREM OneRunBehindTheEvidence == EvidenceSpec => []EvidenceIsOfOneRun
<1>1. EvidenceInv => EvidenceIsOfOneRun BY DEF EvidenceInv
<1> QED BY <1>1, EvidenceInvariance, PTL

-------------------------------------------------------------------------------
\* Sequences of anything.
IsSeq(s) == Len(s) \in Nat /\ s = [k \in 1..Len(s) |-> s[k]]

\* A sequence is a sequence of its elements, and of one thing more.
LEMMA IsOneOf ==
  ASSUME NEW s, IsSeq(s), NEW x
  PROVE  s \in Seq({s[k] : k \in 1..Len(s)} \union {x})
<1>1. PICK n \in Nat : n = Len(s) BY DEF IsSeq
<1>2. PICK S : S = {s[k] : k \in 1..Len(s)} \union {x} OBVIOUS
<1>3. s = [k \in 1..n |-> s[k]] /\ \A k \in 1..n : s[k] \in S BY <1>1, <1>2 DEF IsSeq
<1>4. s \in [1..n -> S] BY <1>3
<1>5. s \in Seq(S) BY <1>4
<1> QED BY <1>2, <1>5

\* What Append makes of a sequence.
LEMMA Appended ==
  ASSUME NEW s, IsSeq(s), NEW x
  PROVE  /\ IsSeq(Append(s, x)) /\ Len(Append(s, x)) = Len(s) + 1
         /\ Append(s, x)[Len(s) + 1] = x
         /\ \A k \in 1..Len(s) : Append(s, x)[k] = s[k]
<1> PICK S : S = {s[k] : k \in 1..Len(s)} \union {x} OBVIOUS
<1>1. s \in Seq(S) /\ x \in S BY IsOneOf
<1>2. PICK t : t = Append(s, x) OBVIOUS
<1>3. t \in Seq(S) /\ Len(t) = Len(s) + 1 /\ t[Len(s) + 1] = x /\ \A k \in 1..Len(s) : t[k] = s[k] BY <1>1, <1>2
<1>4. IsSeq(t) BY <1>3 DEF IsSeq
<1> QED BY <1>2, <1>3, <1>4

\* What Tail leaves of a sequence.
LEMMA Tailed ==
  ASSUME NEW s, IsSeq(s), s # <<>>
  PROVE  /\ IsSeq(Tail(s)) /\ Len(Tail(s)) = Len(s) - 1 /\ Len(s) >= 1
         /\ Head(s) = s[1]
         /\ \A k \in 1..Len(s) - 1 : Tail(s)[k] = s[k + 1]
<1>1. PICK S : s \in Seq(S) BY IsOneOf
<1>2. PICK t : t = Tail(s) OBVIOUS
<1>3. /\ t \in Seq(S) /\ Len(t) = Len(s) - 1 /\ Len(s) >= 1 /\ Head(s) = s[1]
      /\ \A k \in 1..Len(s) - 1 : t[k] = s[k + 1]
  BY <1>1, <1>2
<1>4. IsSeq(t) BY <1>3 DEF IsSeq
<1> QED BY <1>2, <1>3, <1>4

\* A round, the pause, and the same round.
LEMMA TwoRounds ==
  ASSUME NEW r, IsSeq(r), NEW x
  PROVE  LET plan == r \o <<x>> \o r
         IN /\ IsSeq(plan) /\ Len(plan) = 2 * Len(r) + 1
            /\ plan[Len(r) + 1] = x
            /\ \A k \in 1..Len(r) : plan[k] = r[k] /\ plan[Len(r) + 1 + k] = r[k]
<1> PICK S : S = {r[k] : k \in 1..Len(r)} \union {x} OBVIOUS
<1>1. r \in Seq(S) /\ x \in S BY IsOneOf
<1>2. PICK n \in Nat : n = Len(r) BY <1>1
<1>3. PICK a : a = r \o <<x>> OBVIOUS
<1>4. a \in Seq(S) /\ Len(a) = n + 1 /\ a[n + 1] = x /\ \A k \in 1..n : a[k] = r[k] BY <1>1, <1>2, <1>3
<1>5. PICK b : b = a \o r OBVIOUS
<1>6. b \in Seq(S) /\ Len(b) = 2 * n + 1
  <2>0. a \in Seq(S) /\ r \in Seq(S) BY <1>1, <1>4
  <2>1. b \in Seq(S) /\ Len(b) = Len(a) + Len(r) BY <1>5, <2>0, ConcatProperties
  <2> QED BY <1>2, <1>4, <2>1
<1>7. \A k \in 1..n + 1 : b[k] = a[k] BY <1>1, <1>2, <1>4, <1>5
<1>8. \A k \in 1..n : b[n + 1 + k] = r[k]
  <2> TAKE k \in 1..n
  <2>1. PICK i \in Nat : i = n + 1 + k OBVIOUS
  <2>2. i > Len(a) /\ i <= Len(a) + Len(r) /\ i - Len(a) = k BY <1>2, <1>4, <2>1
  <2>3. b[i] = r[i - Len(a)] BY <1>1, <1>4, <1>5, <2>2
  <2> QED BY <2>1, <2>2, <2>3
<1>9. b[n + 1] = x /\ \A k \in 1..n : b[k] = r[k] BY <1>4, <1>7
<1>10. IsSeq(b) BY <1>6 DEF IsSeq
<1> QED BY <1>2, <1>3, <1>5, <1>6, <1>8, <1>9, <1>10

-------------------------------------------------------------------------------
\* The how-manieth of a set of numbers a number is.
Rank(T, p) == Cardinality({q \in T : q <= p})

\* The larger a number of a finite set, the larger its rank.
LEMMA RanksRise ==
  ASSUME NEW T \in SUBSET Nat, IsFiniteSet(T), NEW p \in T
  PROVE  /\ Rank(T, p) \in 1..Cardinality(T) /\ Cardinality(T) \in Nat
         /\ \A q \in T : p < q => Rank(T, p) < Rank(T, q)
<1> DEFINE Upto(x) == {q \in T : q <= x}
<1>1. \A x \in T : IsFiniteSet(Upto(x)) /\ Cardinality(Upto(x)) \in Nat /\ Cardinality(Upto(x)) <= Cardinality(T)
  <2> TAKE x \in T
  <2>1. Upto(x) \subseteq T OBVIOUS
  <2> HIDE DEF Upto
  <2> QED BY <2>1, FS_Subset, FS_CardinalityType
<1>2. Cardinality(Upto(p)) >= 1
  <2>1. p \in Upto(p) OBVIOUS
  <2>2. Upto(p) # {} BY <2>1
  <2> HIDE DEF Upto
  <2> QED BY <1>1, <2>2, FS_EmptySet
<1>3. ASSUME NEW q \in T, p < q PROVE Cardinality(Upto(p)) < Cardinality(Upto(q))
  <2>0. p \in Nat /\ q \in Nat /\ \A x \in T : x \in Nat OBVIOUS
  <2>5. \A x \in T : x <= p => x <= q BY <1>3, <2>0
  <2>6. q <= q /\ ~(q <= p) BY <1>3, <2>0
  <2>1. Upto(p) \subseteq Upto(q) /\ q \in Upto(q) /\ q \notin Upto(p) BY <2>5, <2>6
  <2>2. Upto(p) # Upto(q) BY <2>1
  <2> HIDE DEF Upto
  <2>3. Cardinality(Upto(p)) <= Cardinality(Upto(q)) BY <1>1, <2>1, FS_Subset
  <2>4. Cardinality(Upto(p)) # Cardinality(Upto(q)) BY <1>1, <2>1, <2>2, FS_Subset
  <2> QED BY <1>1, <2>3, <2>4
<1>4. Cardinality(T) \in Nat BY FS_CardinalityType
<1>5. \A x : Rank(T, x) = Cardinality(Upto(x)) BY DEF Rank
<1> HIDE DEF Upto
<1> QED BY <1>1, <1>2, <1>3, <1>4, <1>5

\* There is a number of every rank.
LEMMA EachRank ==
  ASSUME NEW T \in SUBSET Nat, IsFiniteSet(T), NEW n \in 1..Cardinality(T)
  PROVE  \E p \in T : Rank(T, p) = n
<1>0. Cardinality(T) \in Nat BY FS_CardinalityType
<1> DEFINE None == {m \in 1..Cardinality(T) : \A p \in T : Rank(T, p) # m}
<1>1. SUFFICES ASSUME None # {} PROVE FALSE BY <1>0
<1>2. None \in SUBSET Nat BY <1>0
<1>3. PICK m \in None : \A k \in None : m <= k
  <2> HIDE DEF None
  <2> QED BY <1>1, <1>2, Smallest
<1>4. m \in Nat /\ 1 <= m /\ m <= Cardinality(T) /\ \A p \in T : Rank(T, p) # m BY <1>0
<1>5. CASE m = 1
  <2>1. T # {} BY <1>4, <1>5, FS_EmptySet
  <2>2. PICK p \in T : \A q \in T : p <= q BY <2>1, Smallest
  <2>3. {q \in T : q <= p} = {p}
    <3>1. p \in Nat /\ \A q \in T : q \in Nat OBVIOUS
    <3>2. \A q \in T : q <= p <=> q = p BY <2>2, <3>1
    <3> QED BY <3>2
  <2>4. Rank(T, p) = 1 BY <2>3, FS_Singleton DEF Rank
  <2> QED BY <1>4, <1>5, <2>4
<1>6. CASE m > 1
  <2>1. m - 1 \in 1..Cardinality(T) /\ m - 1 \notin None BY <1>0, <1>3, <1>4, <1>6
  <2>2. PICK p \in T : Rank(T, p) = m - 1 BY <2>1
  <2> DEFINE low == {q \in T : q <= p}
             above == {q \in T : q > p}
  <2>3. IsFiniteSet(low) /\ Cardinality(low) = m - 1
    <3>1. low \subseteq T OBVIOUS
    <3>2. Cardinality(low) = m - 1 BY <2>2 DEF Rank
    <3> HIDE DEF low
    <3> QED BY <3>1, <3>2, FS_Subset
  <2>4. above # {}
    <3>1. SUFFICES ASSUME above = {} PROVE FALSE OBVIOUS
    <3>2. \A q \in T : q \in Nat OBVIOUS
    <3>3. \A q \in T : ~(q > p) BY <3>1
    <3>4. \A q \in T : q <= p BY <3>2, <3>3
    <3>5. low = T BY <3>4
    <3> HIDE DEF low
    <3> QED BY <1>4, <2>3, <3>5
  <2>5. above \in SUBSET Nat OBVIOUS
  <2>6. PICK a \in above : \A q \in above : a <= q
    <3> HIDE DEF above
    <3> QED BY <2>4, <2>5, Smallest
  <2>7. {q \in T : q <= a} = low \union {a} /\ a \notin low
    <3>1. a \in T /\ a \in Nat /\ a > p /\ \A q \in T : q \in Nat OBVIOUS
    <3>2. \A q \in T : q > p => a <= q BY <2>6
    <3>3. \A q \in T : q <= a <=> q <= p \/ q = a BY <3>1, <3>2
    <3>4. a \notin low BY <3>1
    <3>5. {q \in T : q <= a} = low \union {a} BY <3>1, <3>3
    <3> QED BY <3>4, <3>5
  <2>8. Cardinality(low \union {a}) = m
    <3> HIDE DEF low
    <3> QED BY <1>4, <2>3, <2>7, FS_AddElement
  <2>9. Rank(T, a) = m BY <2>7, <2>8 DEF Rank
  <2> QED BY <1>4, <2>6, <2>9
<1> QED BY <1>4, <1>5, <1>6

\* What is at these places, in their order.
LEMMA FilteredIs ==
  ASSUME NEW s, NEW T \in SUBSET Nat, IsFiniteSet(T)
  PROVE  /\ IsSeq(Filtered(s, T)) /\ Len(Filtered(s, T)) = Cardinality(T)
         /\ \A n \in 1..Cardinality(T) : \E p \in T : Rank(T, p) = n /\ Filtered(s, T)[n] = s[p]
         /\ \A p \in T : Filtered(s, T)[Rank(T, p)] = s[p]
<1>1. Cardinality(T) \in Nat BY FS_CardinalityType
<1> DEFINE Place(n) == CHOOSE p \in T : Rank(T, p) = n
<1>2. PICK f : f = [n \in 1..Cardinality(T) |-> s[Place(n)]] OBVIOUS
<1>3. Filtered(s, T) = f BY <1>2 DEF Filtered, Rank
<1>4. \A n \in 1..Cardinality(T) : Place(n) \in T /\ Rank(T, Place(n)) = n
  <2> TAKE n \in 1..Cardinality(T)
  <2>1. \E p \in T : Rank(T, p) = n BY EachRank
  <2> QED BY <2>1
<1> HIDE DEF Place
<1>5. \A n \in 1..Cardinality(T) : f[n] = s[Place(n)] BY <1>2
<1>6. IsSeq(f) /\ Len(f) = Cardinality(T) BY <1>1, <1>2 DEF IsSeq
<1>7. ASSUME NEW p \in T PROVE f[Rank(T, p)] = s[p]
  <2>1. Rank(T, p) \in 1..Cardinality(T) BY RanksRise
  <2>2. Place(Rank(T, p)) \in T /\ Rank(T, Place(Rank(T, p))) = Rank(T, p) BY <1>4, <2>1
  <2>3. PICK q \in T : q = Place(Rank(T, p)) BY <2>2
  <2>4. Rank(T, q) = Rank(T, p) /\ Rank(T, p) \in Nat BY <1>1, <2>1, <2>2, <2>3
  <2>5. ~(p < q) BY <2>4, RanksRise
  <2>6. ~(q < p) BY <2>4, RanksRise
  <2>7. p = q BY <2>5, <2>6
  <2> QED BY <1>5, <2>1, <2>3, <2>7
<1> QED BY <1>3, <1>4, <1>5, <1>6, <1>7

-------------------------------------------------------------------------------
\* A selection: rows that do not name the pause.
IsSelection(rows) ==
  /\ IsSeq(rows)
  /\ \A k \in 1..Len(rows) : Pause \notin {rows[k].option, rows[k].underlying}

InstrumentsOf(rows) == OptionsOf(rows) \union UnderlyingsOf(rows)

\* A part of a snapshot is a selection.
LEMMA PickedIsASelection ==
  ASSUME NEW rows \in BookBoards, NEW live
  PROVE  IsSelection(Picked(rows, live))
<1>1. Len(rows) \in Nat /\ DOMAIN rows = 1..Len(rows)
      /\ \A k \in DOMAIN rows : Pause \notin {rows[k].option, rows[k].underlying}
  BY LookAssumption
<1>2. PICK T : T \subseteq DOMAIN rows /\ Picked(rows, live) = Filtered(rows, T) BY DEF Picked
<1>3. IsFiniteSet(1..Len(rows)) BY <1>1, FS_Interval
<1>4. T \in SUBSET Nat /\ IsFiniteSet(T) BY <1>1, <1>2, <1>3, FS_Subset
<1>5. PICK f : f = Filtered(rows, T) OBVIOUS
<1>6. IsSeq(f) /\ Len(f) = Cardinality(T) /\ \A n \in 1..Cardinality(T) : \E p \in T : f[n] = rows[p]
  BY <1>4, <1>5, FilteredIs
<1> QED BY <1>1, <1>2, <1>5, <1>6 DEF IsSelection

\* A round names every instrument of the selection once, and nothing else but the pause.
LEMMA RoundIs ==
  ASSUME NEW rows, IsSelection(rows)
  PROVE  /\ IsSeq(InOrder(rows))
         /\ \A n \in 1..Len(InOrder(rows)) : InOrder(rows)[n] # Pause
         /\ \A i \in InstrumentsOf(rows) :
              \E p \in 1..Len(InOrder(rows)) : \A n \in 1..Len(InOrder(rows)) : InOrder(rows)[n] = i <=> n = p
<1>1. PICK len \in Nat : len = Len(rows) BY DEF IsSelection, IsSeq
<1>2. PICK named : named = [n \in 1..2 * Len(rows) |->
                              IF n % 2 = 1 THEN rows[(n + 1) \div 2].option ELSE rows[n \div 2].underlying]
  OBVIOUS
<1>3. PICK T : T = {n \in DOMAIN named : \A j \in 1..n - 1 : named[j] # named[n]} OBVIOUS
<1>4. InOrder(rows) = Filtered(named, T) BY <1>2, <1>3 DEF InOrder
<1>5. DOMAIN named = 1..2 * len BY <1>1, <1>2
<1>6. DOMAIN rows = 1..len BY <1>1 DEF IsSelection, IsSeq
<1>7. \A n \in 1..2 * len : named[n] # Pause
  <2> TAKE n \in 1..2 * len
  <2>1. CASE n % 2 = 1
    <3>1. (n + 1) \div 2 \in 1..len BY <2>1
    <3>2. named[n] = rows[(n + 1) \div 2].option BY <1>1, <1>2, <2>1
    <3> QED BY <1>1, <3>1, <3>2 DEF IsSelection
  <2>2. CASE n % 2 # 1
    <3>1. n \div 2 \in 1..len BY <2>2
    <3>2. named[n] = rows[n \div 2].underlying BY <1>1, <1>2, <2>2
    <3> QED BY <1>1, <3>1, <3>2 DEF IsSelection
  <2> QED BY <2>1, <2>2
<1>8. \A i \in InstrumentsOf(rows) : \E n \in 1..2 * len : named[n] = i
  <2> TAKE i \in InstrumentsOf(rows)
  <2>1. CASE i \in OptionsOf(rows)
    <3>1. PICK k \in 1..len : i = rows[k].option BY <1>6, <2>1 DEF OptionsOf
    <3>2. PICK n \in Nat : n = 2 * k - 1 BY <3>1
    <3>3. n \in 1..2 * len /\ n % 2 = 1 /\ (n + 1) \div 2 = k BY <3>2
    <3> QED BY <1>1, <1>2, <3>1, <3>3
  <2>2. CASE i \in UnderlyingsOf(rows)
    <3>1. PICK k \in 1..len : i = rows[k].underlying BY <1>6, <2>2 DEF UnderlyingsOf
    <3>2. PICK n \in Nat : n = 2 * k BY <3>1
    <3>3. n \in 1..2 * len /\ n % 2 # 1 /\ n \div 2 = k BY <3>2
    <3> QED BY <1>1, <1>2, <3>1, <3>3
  <2> QED BY <2>1, <2>2 DEF InstrumentsOf
<1>9. T \in SUBSET Nat /\ IsFiniteSet(T) /\ T \subseteq 1..2 * len
  <2>1. IsFiniteSet(1..2 * len) BY FS_Interval
  <2>2. T \subseteq 1..2 * len BY <1>3, <1>5
  <2>3. \A x \in 1..2 * len : x \in Nat OBVIOUS
  <2>4. IsFiniteSet(T) BY <2>1, <2>2, FS_Subset
  <2> QED BY <2>2, <2>3, <2>4
<1>10. PICK r : r = Filtered(named, T) OBVIOUS
<1>11. PICK m \in Nat : m = Cardinality(T) BY <1>9, FS_CardinalityType
<1>12. /\ IsSeq(r) /\ Len(r) = m
       /\ \A n \in 1..m : \E p \in T : Rank(T, p) = n /\ r[n] = named[p]
       /\ \A p \in T : r[Rank(T, p)] = named[p]
  BY <1>9, <1>10, <1>11, FilteredIs
<1>13. \A n \in 1..m : r[n] # Pause BY <1>7, <1>9, <1>12
<1>14. ASSUME NEW i \in InstrumentsOf(rows)
       PROVE  \E p \in 1..m : \A n \in 1..m : r[n] = i <=> n = p
  <2> DEFINE here == {n \in 1..2 * len : named[n] = i}
  <2>1. here # {} /\ here \in SUBSET Nat BY <1>8
  <2>2. PICK first \in here : \A n \in here : first <= n
    <3> HIDE DEF here
    <3> QED BY <2>1, Smallest
  <2>3. first \in 1..2 * len /\ named[first] = i OBVIOUS
  <2>4. \A j \in 1..first - 1 : named[j] # named[first]
    <3> TAKE j \in 1..first - 1
    <3>1. j \in 1..2 * len /\ ~(first <= j) BY <2>3
    <3>2. j \notin here BY <2>2, <3>1
    <3> QED BY <2>3, <3>1, <3>2
  <2>5. first \in T BY <1>3, <1>5, <2>3, <2>4
  <2>6. Rank(T, first) \in 1..m /\ r[Rank(T, first)] = i BY <1>9, <1>11, <1>12, <2>3, <2>5, RanksRise
  <2>7. ASSUME NEW n \in 1..m, r[n] = i PROVE n = Rank(T, first)
    <3>1. PICK p \in T : Rank(T, p) = n /\ named[p] = i BY <1>12, <2>7
    <3>2. p \in 1..2 * len /\ first \in Nat /\ p \in Nat BY <1>9, <2>3
    <3>3. first <= p BY <2>2, <3>1, <3>2
    <3>4. \A j \in 1..p - 1 : named[j] # named[p] BY <1>3
    <3>5. ~(first < p)
      <4>1. first < p => first \in 1..p - 1 BY <2>3, <3>2
      <4> QED BY <2>3, <3>1, <3>4, <4>1
    <3>6. first = p BY <3>2, <3>3, <3>5
    <3> QED BY <3>1, <3>6
  <2> QED BY <2>6, <2>7
<1> QED BY <1>4, <1>10, <1>12, <1>13, <1>14

-------------------------------------------------------------------------------
Plan(rows) == InOrder(rows) \o <<Pause>> \o InOrder(rows)

\* Every observation is of what was captured, and of the same level at the same time.
IsBacked(captures, observed) ==
  /\ IsSeq(captures) /\ IsSeq(observed) /\ Len(captures) = Len(observed)
  /\ \A k \in 1..Len(observed) :
       /\ observed[k].id = captures[k].id /\ observed[k].at = captures[k].at
       /\ observed[k].level = captures[k].level
       /\ observed[k].at - observed[k].watched \in 0..20

\* What was observed, in so many steps of the plan: the pause is none.
IsObserved(rows, steps, observed) ==
  LET half == Len(InOrder(rows))
  IN /\ Len(observed) = IF steps <= half THEN steps ELSE steps - 1
     /\ \A k \in 1..Len(observed) : observed[k].id = Plan(rows)[IF k <= half THEN k ELSE k + 1]

\* What is left of the plan.
IsLeft(rows, todo) ==
  /\ IsSeq(todo) /\ Len(todo) <= Len(Plan(rows))
  /\ \A n \in 1..Len(todo) : todo[n] = Plan(rows)[Len(Plan(rows)) - Len(todo) + n]

Parts == {"stage", "clock", "tries", "selected", "todo", "watched", "level", "captures", "observed"}
LookTypes ==
  /\ looking = [part \in Parts |-> looking[part]]
  /\ looking.stage \in {"idle", "watch", "limits"}
  /\ looking.clock \in Nat /\ looking.tries \in Nat

Looking ==
  looking.stage # "idle" =>
    /\ IsSelection(looking.selected) /\ IsLeft(looking.selected, looking.todo)
    /\ IsBacked(looking.captures, looking.observed)
    /\ IsObserved(looking.selected, Len(Plan(looking.selected)) - Len(looking.todo), looking.observed)
    /\ looking.stage = "limits" =>
         /\ looking.todo # <<>> /\ Head(looking.todo) # Pause
         /\ looking.watched \in Nat /\ looking.watched <= looking.clock

\* A package that unblocks scoring is of a whole plan, and passed the gate.
Packed ==
  package.status = "READY" =>
    /\ IsSelection(package.selected) /\ IsBacked(package.captures, package.observed)
    /\ IsObserved(package.selected, Len(Plan(package.selected)), package.observed)
    /\ Cardinality(OptionsOf(package.selected)) >= 3
    /\ OptionsOf(package.selected) \cap UnderlyingsOf(package.selected) = {}

LookInv == LookTypes /\ Looking /\ Packed

-------------------------------------------------------------------------------
\* Where the pause is, and how often an instrument is in the plan.
LEMMA PlanIs ==
  ASSUME NEW rows, IsSelection(rows)
  PROVE  /\ IsSeq(Plan(rows)) /\ Len(InOrder(rows)) \in Nat /\ Len(Plan(rows)) = 2 * Len(InOrder(rows)) + 1
         /\ \A n \in 1..Len(Plan(rows)) : Plan(rows)[n] = Pause <=> n = Len(InOrder(rows)) + 1
         /\ \A k \in 1..Len(InOrder(rows)) :
              Plan(rows)[k] = InOrder(rows)[k] /\ Plan(rows)[Len(InOrder(rows)) + 1 + k] = InOrder(rows)[k]
<1>1. PICK r : r = InOrder(rows) OBVIOUS
<1>2. IsSeq(r) /\ \A n \in 1..Len(r) : r[n] # Pause BY <1>1, RoundIs
<1>3. PICK plan : plan = Plan(rows) OBVIOUS
<1>4. /\ IsSeq(plan) /\ Len(plan) = 2 * Len(r) + 1 /\ plan[Len(r) + 1] = Pause
      /\ \A k \in 1..Len(r) : plan[k] = r[k] /\ plan[Len(r) + 1 + k] = r[k]
  <2>1. plan = r \o <<Pause>> \o r BY <1>1, <1>3 DEF Plan
  <2> QED BY <1>2, <2>1, TwoRounds
<1>5. PICK m \in Nat : m = Len(r) BY <1>2 DEF IsSeq
<1>6. \A n \in 1..2 * m + 1 : plan[n] = Pause <=> n = m + 1
  <2> TAKE n \in 1..2 * m + 1
  <2>1. CASE n \in 1..m BY <1>2, <1>4, <1>5, <2>1
  <2>2. CASE n = m + 1 BY <1>4, <1>5, <2>2
  <2>3. CASE n > m + 1
    <3>1. PICK k \in 1..m : n = m + 1 + k
      <4>1. n - (m + 1) \in 1..m /\ n = m + 1 + (n - (m + 1)) BY <2>3
      <4> QED BY <4>1
    <3>2. plan[n] = r[k] BY <1>4, <1>5, <3>1
    <3> QED BY <1>2, <1>5, <2>3, <3>2
  <2> QED BY <2>1, <2>2, <2>3
<1> QED BY <1>1, <1>3, <1>4, <1>5, <1>6

\* A step of the plan that is no pause, with its observation.
LEMMA OneMoreSeen ==
  ASSUME NEW rows, IsSelection(rows), NEW todo, IsLeft(rows, todo), todo # <<>>, Head(todo) # Pause,
         NEW observed, IsSeq(observed), IsObserved(rows, Len(Plan(rows)) - Len(todo), observed),
         NEW o, o.id = Head(todo)
  PROVE  /\ IsLeft(rows, Tail(todo))
         /\ IsObserved(rows, Len(Plan(rows)) - Len(Tail(todo)), Append(observed, o))
<1>1. PICK plan : plan = Plan(rows) OBVIOUS
<1>2. PICK half \in Nat : half = Len(InOrder(rows)) BY PlanIs
<1>3. IsSeq(plan) /\ Len(plan) = 2 * half + 1 /\ \A n \in 1..2 * half + 1 : plan[n] = Pause <=> n = half + 1
  BY <1>1, <1>2, PlanIs
<1>4. PICK left \in Nat : left = Len(todo) /\ left <= 2 * half + 1 BY <1>1, <1>3 DEF IsLeft, IsSeq
<1>5. \A n \in 1..left : todo[n] = plan[2 * half + 1 - left + n] BY <1>1, <1>3, <1>4 DEF IsLeft
<1>6. PICK rest : rest = Tail(todo) OBVIOUS
<1>7. IsSeq(rest) /\ Len(rest) = left - 1 /\ left >= 1 /\ Head(todo) = todo[1] /\ \A k \in 1..left - 1 : rest[k] = todo[k + 1]
  BY <1>4, <1>6, Tailed DEF IsLeft
<1>8. PICK steps \in Nat : steps = 2 * half + 1 - left BY <1>4
<1>9. o.id = plan[steps + 1] /\ steps + 1 \in 1..2 * half + 1 /\ steps + 1 # half + 1
  <2>1. 1 \in 1..left BY <1>7
  <2>2. todo[1] = plan[2 * half + 1 - left + 1] BY <1>5, <2>1
  <2>3. o.id = plan[steps + 1] /\ steps + 1 \in 1..2 * half + 1 BY <1>4, <1>7, <1>8, <2>2
  <2> QED BY <1>3, <1>7, <2>3
<1>10. IsLeft(rows, rest)
  <2>1. \A n \in 1..left - 1 : rest[n] = plan[2 * half + 1 - (left - 1) + n]
    <3> TAKE n \in 1..left - 1
    <3>1. n + 1 \in 1..left BY <1>4
    <3>2. todo[n + 1] = plan[2 * half + 1 - left + (n + 1)] BY <1>5, <3>1
    <3>3. 2 * half + 1 - left + (n + 1) = 2 * half + 1 - (left - 1) + n BY <1>4
    <3> QED BY <1>7, <3>2, <3>3
  <2>2. left - 1 <= 2 * half + 1 BY <1>4
  <2> QED BY <1>1, <1>3, <1>7, <2>1, <2>2 DEF IsLeft
<1>11. PICK seen \in Nat : seen = Len(observed) BY DEF IsSeq
<1>12. seen = (IF steps <= half THEN steps ELSE steps - 1)
       /\ \A k \in 1..seen : observed[k].id = plan[IF k <= half THEN k ELSE k + 1]
  <2>1. Len(Plan(rows)) - Len(todo) = steps BY <1>1, <1>3, <1>4, <1>8
  <2>2. IsObserved(rows, steps, observed) BY <2>1
  <2> QED BY <1>1, <1>2, <1>11, <2>2 DEF IsObserved
<1>13. PICK more : more = Append(observed, o) OBVIOUS
<1>14. Len(more) = seen + 1 /\ more[seen + 1] = o /\ \A k \in 1..seen : more[k] = observed[k]
  BY <1>11, <1>13, Appended
<1>15. seen + 1 = (IF steps + 1 <= half THEN steps + 1 ELSE steps) BY <1>9, <1>12
<1>16. \A k \in 1..seen + 1 : more[k].id = plan[IF k <= half THEN k ELSE k + 1]
  <2> TAKE k \in 1..seen + 1
  <2>1. CASE k \in 1..seen BY <1>12, <1>14, <2>1
  <2>2. CASE k = seen + 1
    <3>1. steps + 1 = (IF k <= half THEN k ELSE k + 1) BY <1>9, <1>12, <2>2
    <3> QED BY <1>9, <1>14, <2>2, <3>1
  <2> QED BY <1>11, <2>1, <2>2
<1>17. IsObserved(rows, steps + 1, more) BY <1>1, <1>2, <1>14, <1>15, <1>16 DEF IsObserved
<1>18. Len(Plan(rows)) - Len(rest) = steps + 1 BY <1>1, <1>3, <1>4, <1>7, <1>8
<1> QED BY <1>6, <1>10, <1>13, <1>17, <1>18

\* The pause.
LEMMA PauseSeen ==
  ASSUME NEW rows, IsSelection(rows), NEW todo, IsLeft(rows, todo), todo # <<>>, Head(todo) = Pause,
         NEW observed, IsObserved(rows, Len(Plan(rows)) - Len(todo), observed)
  PROVE  /\ IsLeft(rows, Tail(todo))
         /\ IsObserved(rows, Len(Plan(rows)) - Len(Tail(todo)), observed)
<1>1. PICK plan : plan = Plan(rows) OBVIOUS
<1>2. PICK half \in Nat : half = Len(InOrder(rows)) BY PlanIs
<1>3. IsSeq(plan) /\ Len(plan) = 2 * half + 1 /\ \A n \in 1..2 * half + 1 : plan[n] = Pause <=> n = half + 1
  BY <1>1, <1>2, PlanIs
<1>4. PICK left \in Nat : left = Len(todo) /\ left <= 2 * half + 1 BY <1>1, <1>3 DEF IsLeft, IsSeq
<1>5. \A n \in 1..left : todo[n] = plan[2 * half + 1 - left + n] BY <1>1, <1>3, <1>4 DEF IsLeft
<1>6. PICK rest : rest = Tail(todo) OBVIOUS
<1>7. IsSeq(rest) /\ Len(rest) = left - 1 /\ left >= 1 /\ Head(todo) = todo[1] /\ \A k \in 1..left - 1 : rest[k] = todo[k + 1]
  BY <1>4, <1>6, Tailed DEF IsLeft
<1>8. 2 * half + 1 - left = half
  <2>1. 1 \in 1..left BY <1>7
  <2>2. todo[1] = plan[2 * half + 1 - left + 1] BY <1>5, <2>1
  <2>3. PICK n \in 1..2 * half + 1 : n = 2 * half + 1 - left + 1
    <3>1. 2 * half + 1 - left + 1 \in 1..2 * half + 1 BY <1>4, <1>7
    <3> QED BY <3>1
  <2>4. n = half + 1 BY <1>3, <1>7, <2>2, <2>3
  <2> QED BY <1>4, <2>3, <2>4
<1>9. IsLeft(rows, rest)
  <2>1. \A n \in 1..left - 1 : rest[n] = plan[2 * half + 1 - (left - 1) + n]
    <3> TAKE n \in 1..left - 1
    <3>1. n + 1 \in 1..left BY <1>4
    <3>2. todo[n + 1] = plan[2 * half + 1 - left + (n + 1)] BY <1>5, <3>1
    <3>3. 2 * half + 1 - left + (n + 1) = 2 * half + 1 - (left - 1) + n BY <1>4
    <3> QED BY <1>7, <3>2, <3>3
  <2>2. left - 1 <= 2 * half + 1 BY <1>4
  <2> QED BY <1>1, <1>3, <1>7, <2>1, <2>2 DEF IsLeft
<1>10. Len(Plan(rows)) - Len(rest) = half + 1 /\ Len(Plan(rows)) - Len(todo) = half
  <2>1. 2 * half + 1 - (left - 1) = half + 1 BY <1>4, <1>8
  <2>2. Len(Plan(rows)) = 2 * half + 1 BY <1>1, <1>3
  <2> QED BY <1>4, <1>7, <1>8, <2>1, <2>2
<1>11. IsObserved(rows, half, observed) BY <1>10
<1>12. IsObserved(rows, half + 1, observed)
  <2>1. (IF half <= half THEN half ELSE half - 1) = (IF half + 1 <= half THEN half + 1 ELSE half + 1 - 1) OBVIOUS
  <2> QED BY <1>2, <1>11, <2>1 DEF IsObserved
<1> QED BY <1>6, <1>9, <1>10, <1>12

-------------------------------------------------------------------------------
\* The fields of a run that has not begun.
LEMMA IdleIsSound ==
  /\ NoLook = [part \in Parts |-> NoLook[part]] /\ DOMAIN NoLook = Parts
  /\ NoLook.stage = "idle" /\ NoLook.clock = 0 /\ NoLook.tries = 0
  /\ NoLook.captures = <<>> /\ NoLook.observed = <<>>
BY DEF NoLook, Parts

\* Before the first run nothing unblocks scoring.
THEOREM LookStart == LookInit => LookInv
<1> SUFFICES ASSUME LookInit PROVE LookInv OBVIOUS
<1>1. looking = NoLook /\ package = NoPackage BY DEF LookInit
<1>2. LookTypes BY <1>1, IdleIsSound DEF LookTypes
<1>3. Looking BY <1>1, IdleIsSound DEF Looking
<1>4. package.status = "none" BY <1>1 DEF NoPackage
<1>5. Packed BY <1>4 DEF Packed
<1> QED BY <1>2, <1>3, <1>5 DEF LookInv

\* A run that fails leaves a package that unblocks nothing.
LEMMA FailedLook == LookInv /\ RunFails => LookInv'
<1> SUFFICES ASSUME LookInv, RunFails PROVE LookInv' OBVIOUS
<1>1. looking' = NoLook /\ package' = [NoPackage EXCEPT !.status = "FAILED"] BY DEF RunFails
<1>2. LookTypes' BY <1>1, IdleIsSound DEF LookTypes
<1>3. Looking' BY <1>1, IdleIsSound DEF Looking
<1>4. package'.status = "FAILED" BY <1>1 DEF NoPackage
<1>5. Packed' BY <1>4 DEF Packed
<1> QED BY <1>2, <1>3, <1>5 DEF LookInv

\* A package that nobody writes stays what it was.
LEMMA PackageStays == LookInv /\ UNCHANGED package => Packed'
BY DEF LookInv, Packed

\* The fields of a run.
LEMMA Fields ==
  ASSUME LookInv
  PROVE  /\ DOMAIN looking = Parts /\ looking.clock \in Nat /\ looking.tries \in Nat
         /\ looking.stage \in {"idle", "watch", "limits"}
         /\ looking = [part \in Parts |-> looking[part]]
<1>1. looking = [part \in Parts |-> looking[part]] BY DEF LookInv, LookTypes
<1>2. PICK l : l = [part \in Parts |-> looking[part]] OBVIOUS
<1>3. DOMAIN l = Parts BY <1>2
<1>4. DOMAIN looking = Parts BY <1>1, <1>2, <1>3
<1> QED BY <1>1, <1>4 DEF LookInv, LookTypes

\* What a step may change that is no change of the plan, of what was seen, or of the package.
LEMMA OnlyTimePasses ==
  ASSUME LookInv, looking' = [part \in Parts |-> looking'[part]],
         looking'.stage \in {"watch", "limits"}, looking'.clock \in Nat, looking'.tries \in Nat,
         looking.stage # "idle", looking'.selected = looking.selected, looking'.todo = looking.todo,
         looking'.captures = looking.captures, looking'.observed = looking.observed,
         looking'.stage = "limits" =>
           /\ looking.todo # <<>> /\ Head(looking.todo) # Pause
           /\ looking'.watched \in Nat /\ looking'.watched <= looking'.clock,
         UNCHANGED package
  PROVE  LookInv'
<1>1. LookTypes' BY DEF LookTypes
<1>2. Looking
  BY DEF LookInv
<1>3. Looking' BY <1>2 DEF Looking
<1> QED BY <1>1, <1>3, PackageStays DEF LookInv

\* The plan is two rounds of what was selected; nothing was seen yet.
LEMMA SelectsKeeps == LookInv /\ RunSelects => LookInv'
<1> SUFFICES ASSUME LookInv, RunSelects PROVE LookInv' OBVIOUS
<1>1. PICK board \in BookBoards, live \in LiveBooks :
        LET selected == Picked(board, live)
            round == InOrder(selected)
        IN IF Len(selected) < OptionCount THEN RunFails
           ELSE /\ looking' = [NoLook EXCEPT !.stage = "watch", !.selected = selected,
                               !.todo = round \o <<Pause>> \o round]
                /\ UNCHANGED <<quotes, package, hitches>>
  BY DEF RunSelects
<1>2. PICK rows : rows = Picked(board, live) OBVIOUS
<1>3. CASE RunFails BY <1>3, FailedLook
<1>4. CASE /\ looking' = [NoLook EXCEPT !.stage = "watch", !.selected = rows,
                          !.todo = InOrder(rows) \o <<Pause>> \o InOrder(rows)]
           /\ UNCHANGED package
  <2>1. looking' = [NoLook EXCEPT !.stage = "watch", !.selected = rows, !.todo = Plan(rows)] BY <1>4 DEF Plan
  <2>2. /\ looking' = [part \in Parts |-> looking'[part]]
        /\ looking'.stage = "watch" /\ looking'.clock = 0 /\ looking'.tries = 0
        /\ looking'.captures = <<>> /\ looking'.observed = <<>>
        /\ looking'.selected = rows /\ looking'.todo = Plan(rows)
    BY <2>1, IdleIsSound DEF Parts
  <2>3. IsSelection(rows) BY <1>2, PickedIsASelection
  <2>4. IsSeq(Plan(rows)) /\ Len(Plan(rows)) \in Nat /\ Len(InOrder(rows)) \in Nat BY <2>3, PlanIs DEF IsSeq
  <2>5. IsLeft(rows, Plan(rows))
    <3>1. \A n \in 1..Len(Plan(rows)) : Len(Plan(rows)) - Len(Plan(rows)) + n = n BY <2>4
    <3> QED BY <2>4, <3>1 DEF IsLeft
  <2>6. IsSeq(<<>>) /\ Len(<<>>) = 0 BY DEF IsSeq
  <2>7. IsBacked(<<>>, <<>>) BY <2>6 DEF IsBacked
  <2>8. IsObserved(rows, 0, <<>>) BY <2>4, <2>6 DEF IsObserved
  <2>9. Len(Plan(rows)) - Len(Plan(rows)) = 0 BY <2>4
  <2>10. LookTypes' BY <2>2 DEF LookTypes
  <2>11. Looking' BY <2>2, <2>3, <2>5, <2>7, <2>8, <2>9 DEF Looking
  <2> QED BY <1>4, <2>10, <2>11, PackageStays DEF LookInv
<1> QED BY <1>1, <1>2, <1>3, <1>4

\* The pause takes a step of the plan and sees nothing.
LEMMA PausesKeeps == LookInv /\ RunPauses => LookInv'
<1> SUFFICES ASSUME LookInv, RunPauses PROVE LookInv' OBVIOUS
<1>1. PICK pause \in Pauses : looking' = [looking EXCEPT !.clock = @ + pause, !.todo = Tail(@)]
  BY DEF RunPauses
<1>2. looking.stage = "watch" /\ looking.todo # <<>> /\ Head(looking.todo) = Pause /\ UNCHANGED package
  BY DEF RunPauses, Pausing
<1>3. pause \in Nat BY LookAssumption
<1>4. /\ looking' = [part \in Parts |-> looking'[part]]
      /\ looking'.stage = "watch" /\ looking'.clock \in Nat /\ looking'.tries \in Nat
      /\ looking'.captures = looking.captures /\ looking'.observed = looking.observed
      /\ looking'.selected = looking.selected /\ looking'.todo = Tail(looking.todo)
  <2>0. PICK c \in Nat : c = looking.clock BY Fields
  <2>1. PICK left : left = Tail(looking.todo) OBVIOUS
  <2>2. looking' = [looking EXCEPT !.clock = c + pause, !.todo = left] BY <1>1, <2>0, <2>1, Fields DEF Parts
  <2>3. /\ looking' = [part \in Parts |-> looking'[part]]
        /\ looking'.stage = looking.stage /\ looking'.clock = c + pause /\ looking'.tries = looking.tries
        /\ looking'.captures = looking.captures /\ looking'.observed = looking.observed
        /\ looking'.selected = looking.selected /\ looking'.todo = left
    BY <2>2, Fields DEF Parts
  <2>4. c + pause \in Nat /\ looking.tries \in Nat BY <1>3, Fields
  <2> QED BY <1>2, <2>1, <2>3, <2>4
<1>5. /\ IsSelection(looking.selected) /\ IsLeft(looking.selected, looking.todo)
      /\ IsBacked(looking.captures, looking.observed)
      /\ IsObserved(looking.selected, Len(Plan(looking.selected)) - Len(looking.todo), looking.observed)
  BY <1>2 DEF LookInv, Looking
<1>6. /\ IsLeft(looking.selected, Tail(looking.todo))
      /\ IsObserved(looking.selected, Len(Plan(looking.selected)) - Len(Tail(looking.todo)), looking.observed)
  BY <1>2, <1>5, PauseSeen
<1>7. LookTypes' BY <1>4 DEF LookTypes
<1>8. Looking' BY <1>4, <1>5, <1>6 DEF Looking
<1> QED BY <1>2, <1>7, <1>8, PackageStays DEF LookInv

\* A request that is asked again only takes time.
LEMMA RetriedKeeps == LookInv /\ RequestRetried => LookInv'
<1> SUFFICES ASSUME LookInv, RequestRetried PROVE LookInv' OBVIOUS
<1>1. /\ looking' = [looking EXCEPT !.tries = @ + 1, !.clock = @ + 3 * (looking.tries + 1)]
      /\ looking.stage \in {"watch", "limits"} /\ UNCHANGED package
  BY DEF RequestRetried
<1>2. PICK c \in Nat, t \in Nat : c = looking.clock /\ t = looking.tries BY Fields
<1>3. looking' = [looking EXCEPT !.tries = t + 1, !.clock = c + 3 * (t + 1)] BY <1>1, <1>2, Fields DEF Parts
<1>4. /\ looking' = [part \in Parts |-> looking'[part]]
      /\ looking'.stage = looking.stage /\ looking'.clock = c + 3 * (t + 1) /\ looking'.tries = t + 1
      /\ looking'.captures = looking.captures /\ looking'.observed = looking.observed
      /\ looking'.selected = looking.selected /\ looking'.todo = looking.todo /\ looking'.watched = looking.watched
  BY <1>3, Fields DEF Parts
<1>5. looking'.clock \in Nat /\ looking'.tries \in Nat /\ looking'.clock >= c BY <1>4
<1>6. looking.stage = "limits" =>
        looking.todo # <<>> /\ Head(looking.todo) # Pause /\ looking.watched \in Nat /\ looking.watched <= c
  BY <1>2 DEF LookInv, Looking
<1>7. looking'.stage = "limits" =>
        /\ looking.todo # <<>> /\ Head(looking.todo) # Pause
        /\ looking'.watched \in Nat /\ looking'.watched <= looking'.clock
  BY <1>4, <1>5, <1>6
<1> QED BY <1>1, <1>4, <1>5, <1>7, OnlyTimePasses

\* What the market watch shows belongs to the instrument that is due.
LEMMA WatchKeeps == LookInv /\ WatchFetched => LookInv'
<1> SUFFICES ASSUME LookInv, WatchFetched PROVE LookInv' OBVIOUS
<1>1. /\ looking' = [looking EXCEPT !.stage = "limits", !.clock = @ + 1, !.tries = 0,
                     !.watched = looking.clock + 1, !.level = quotes[Head(looking.todo)]]
      /\ looking.stage = "watch" /\ looking.todo # <<>> /\ Head(looking.todo) # Pause /\ UNCHANGED package
  BY DEF WatchFetched, Pausing
<1>2. /\ looking' = [part \in Parts |-> looking'[part]]
      /\ looking'.stage = "limits" /\ looking'.clock = looking.clock + 1 /\ looking'.tries = 0
      /\ looking'.captures = looking.captures /\ looking'.observed = looking.observed
      /\ looking'.selected = looking.selected /\ looking'.todo = looking.todo /\ looking'.watched = looking.clock + 1
  BY <1>1, Fields DEF Parts
<1>3. looking'.clock \in Nat /\ looking'.watched \in Nat /\ looking'.watched <= looking'.clock BY <1>2, Fields
<1> QED BY <1>1, <1>2, <1>3, OnlyTimePasses

\* An observation and its capture are of the level that both sources showed within five seconds.
LEMMA LimitsKeeps == LookInv /\ LimitsFetched => LookInv'
<1> SUFFICES ASSUME LookInv, LimitsFetched PROVE LookInv' OBVIOUS
<1>1. looking.stage = "limits" BY DEF LimitsFetched
<1>2. PICK d \in Durations :
        LET i == Head(looking.todo)
            at == looking.clock + d
        IN IF ~Agrees(looking.level, i) \/ ~InTime(looking.watched, at) THEN RunFails
           ELSE /\ looking' = [looking EXCEPT !.stage = "watch", !.clock = at, !.tries = 0, !.todo = Tail(@),
                               !.captures = Append(@, [id |-> i, at |-> at, level |-> quotes[i]]),
                               !.observed = Append(@, [id |-> i, at |-> at, watched |-> looking.watched,
                                                       level |-> looking.level])]
                /\ UNCHANGED <<quotes, package, hitches>>
  BY DEF LimitsFetched
<1>3. PICK i, at, w, level : i = Head(looking.todo) /\ at = looking.clock + d /\ w = looking.watched /\ level = looking.level
  OBVIOUS
<1>4. CASE RunFails BY <1>4, FailedLook
<1>5. CASE /\ Agrees(level, i) /\ InTime(w, at) /\ UNCHANGED package
           /\ looking' = [looking EXCEPT !.stage = "watch", !.clock = at, !.tries = 0, !.todo = Tail(@),
                          !.captures = Append(@, [id |-> i, at |-> at, level |-> quotes[i]]),
                          !.observed = Append(@, [id |-> i, at |-> at, watched |-> w, level |-> level])]
  <2>1. PICK c, o : c = [id |-> i, at |-> at, level |-> quotes[i]]
                    /\ o = [id |-> i, at |-> at, watched |-> w, level |-> level]
    OBVIOUS
  <2>2. c.id = i /\ c.at = at /\ c.level = quotes[i] /\ o.id = i /\ o.at = at /\ o.watched = w /\ o.level = level
    BY <2>1
  <2>3. looking' = [looking EXCEPT !.stage = "watch", !.clock = at, !.tries = 0, !.todo = Tail(@),
                    !.captures = Append(@, c), !.observed = Append(@, o)]
    BY <1>5, <2>1
  <2>4. /\ looking' = [part \in Parts |-> looking'[part]]
        /\ looking'.stage = "watch" /\ looking'.clock = at /\ looking'.tries = 0
        /\ looking'.captures = Append(looking.captures, c) /\ looking'.observed = Append(looking.observed, o)
        /\ looking'.selected = looking.selected /\ looking'.todo = Tail(looking.todo)
    BY <2>3, Fields DEF Parts
  <2>5. /\ IsSelection(looking.selected) /\ IsLeft(looking.selected, looking.todo)
        /\ IsBacked(looking.captures, looking.observed)
        /\ IsObserved(looking.selected, Len(Plan(looking.selected)) - Len(looking.todo), looking.observed)
        /\ looking.todo # <<>> /\ Head(looking.todo) # Pause
        /\ w \in Nat /\ w <= looking.clock
    BY <1>1, <1>3 DEF LookInv, Looking
  <2>6. at \in Nat /\ at - w \in 0..20
    <3>1. PICK before \in Nat : before = looking.clock BY Fields
    <3>2. d = 1 \/ d = 21 BY DEF Durations
    <3>3. at = before + d /\ w \in Nat /\ w <= before BY <1>3, <2>5, <3>1
    <3>4. at - w <= 20 BY <1>5 DEF InTime
    <3>5. at \in Nat /\ at - w \in Nat BY <3>2, <3>3
    <3> QED BY <3>4, <3>5
  <2>7. /\ IsLeft(looking.selected, Tail(looking.todo))
        /\ IsObserved(looking.selected, Len(Plan(looking.selected)) - Len(Tail(looking.todo)), Append(looking.observed, o))
    <3>1. IsSeq(looking.observed) BY <2>5 DEF IsBacked
    <3> QED BY <1>3, <2>2, <2>5, <3>1, OneMoreSeen
  <2>8. IsBacked(Append(looking.captures, c), Append(looking.observed, o))
    <3>1. PICK cs, os : cs = looking.captures /\ os = looking.observed OBVIOUS
    <3>2. PICK n \in Nat : n = Len(cs) /\ n = Len(os) BY <2>5, <3>1 DEF IsBacked, IsSeq
    <3>3. PICK more, seen : more = Append(cs, c) /\ seen = Append(os, o) OBVIOUS
    <3>4. /\ IsSeq(more) /\ Len(more) = n + 1 /\ more[n + 1] = c /\ \A k \in 1..n : more[k] = cs[k]
          /\ IsSeq(seen) /\ Len(seen) = n + 1 /\ seen[n + 1] = o /\ \A k \in 1..n : seen[k] = os[k]
      BY <2>5, <3>1, <3>2, <3>3, Appended DEF IsBacked
    <3>5. \A k \in 1..n + 1 :
            /\ seen[k].id = more[k].id /\ seen[k].at = more[k].at /\ seen[k].level = more[k].level
            /\ seen[k].at - seen[k].watched \in 0..20
      <4> TAKE k \in 1..n + 1
      <4>1. CASE k \in 1..n
        <5>1. /\ os[k].id = cs[k].id /\ os[k].at = cs[k].at /\ os[k].level = cs[k].level
              /\ os[k].at - os[k].watched \in 0..20
          BY <2>5, <3>1, <3>2, <4>1 DEF IsBacked
        <5> QED BY <3>4, <4>1, <5>1
      <4>2. CASE k = n + 1
        <5>1. level = quotes[i] BY <1>5 DEF Agrees
        <5> QED BY <2>2, <2>6, <3>4, <4>2, <5>1
      <4> QED BY <3>2, <4>1, <4>2
    <3> QED BY <3>1, <3>3, <3>4, <3>5 DEF IsBacked
  <2>9. LookTypes' BY <2>4, <2>6 DEF LookTypes
  <2>10. Looking' BY <2>4, <2>5, <2>7, <2>8 DEF Looking
  <2> QED BY <1>5, <2>9, <2>10, PackageStays DEF LookInv
<1> QED BY <1>2, <1>3, <1>4, <1>5

\* The package is of a whole plan.
LEMMA EndsKeeps == LookInv /\ RunEnds => LookInv'
<1> SUFFICES ASSUME LookInv, RunEnds PROVE LookInv' OBVIOUS
<1>1. looking.stage = "watch" /\ looking.todo = <<>> /\ looking' = NoLook BY DEF RunEnds
<1>2. PICK all : all = [status |-> "INCOMPLETE", captures |-> looking.captures, observed |-> looking.observed,
                        selected |-> looking.selected]
  OBVIOUS
<1>3. package' = [all EXCEPT !.status = IF Ready(all) THEN "READY" ELSE "INCOMPLETE"] BY <1>2 DEF RunEnds
<1>4. /\ package'.status = (IF Ready(all) THEN "READY" ELSE "INCOMPLETE")
      /\ package'.captures = looking.captures /\ package'.observed = looking.observed
      /\ package'.selected = looking.selected /\ all.selected = looking.selected
  BY <1>2, <1>3
<1>5. /\ IsSelection(looking.selected) /\ IsBacked(looking.captures, looking.observed)
      /\ IsObserved(looking.selected, Len(Plan(looking.selected)) - Len(looking.todo), looking.observed)
  BY <1>1 DEF LookInv, Looking
<1>6. Len(Plan(looking.selected)) - Len(looking.todo) = Len(Plan(looking.selected))
  <2>1. Len(Plan(looking.selected)) \in Nat BY <1>5, PlanIs DEF IsSeq
  <2>2. Len(looking.todo) = 0 BY <1>1
  <2> QED BY <2>1, <2>2
<1>7. Ready(all) => /\ Cardinality(OptionsOf(looking.selected)) >= 3
                    /\ OptionsOf(looking.selected) \cap UnderlyingsOf(looking.selected) = {}
  BY <1>4 DEF Ready
<1>8. Packed' BY <1>4, <1>5, <1>6, <1>7 DEF Packed
<1>9. LookTypes' BY <1>1, IdleIsSound DEF LookTypes
<1>10. Looking' BY <1>1, IdleIsSound DEF Looking
<1> QED BY <1>8, <1>9, <1>10 DEF LookInv

\* Every step of a run keeps the invariant.
THEOREM LookStep == LookInv /\ [LookNext]_lookVars => LookInv'
<1> SUFFICES ASSUME LookInv, [LookNext]_lookVars PROVE LookInv' OBVIOUS
<1>1. ASSUME UNCHANGED <<looking, package>> PROVE LookInv'
  <2>1. looking' = looking BY <1>1
  <2>2. LookTypes' BY <2>1 DEF LookInv, LookTypes
  <2>3. Looking' BY <2>1 DEF LookInv, Looking
  <2> QED BY <1>1, <2>2, <2>3, PackageStays DEF LookInv
<1>2. CASE UNCHANGED lookVars BY <1>1, <1>2 DEF lookVars
<1>3. CASE \E i \in Instruments : MarketMoves(i) BY <1>1, <1>3 DEF MarketMoves
<1>4. CASE RequestFails BY <1>4, FailedLook DEF RequestFails
<1> QED BY <1>2, <1>3, <1>4, SelectsKeeps, PausesKeeps, RetriedKeeps, WatchKeeps, LimitsKeeps, EndsKeeps DEF LookNext

\* In every run: what is left is the end of the plan, what was seen is its beginning, every
\* capture has its observation of the same level (build_package, capture_pairwise_evidence).
THEOREM LookInvariance == LookSpec => []LookInv
BY LookStart, LookStep, PTL DEF LookSpec

\* What unblocks production scoring was looked at twice, each time in both sources at once,
\* whatever the snapshots, the watch lists, the pauses, the retries and the moves of the market
\* (live_bestlimits_evidence_runner.py, bestlimits_evidence_gate.py).
THEOREM ScoringIsUnlockedByEvidence == LookSpec => []UnlockedByEvidence
<1>1. ASSUME LookInv, package.status = "READY" PROVE UnlockedBySameTime
  <2>1. IsBacked(package.captures, package.observed) BY <1>1 DEF LookInv, Packed
  <2>2. DOMAIN package.captures = 1..Len(package.captures) /\ DOMAIN package.observed = 1..Len(package.captures)
    BY <2>1 DEF IsBacked, IsSeq
  <2> QED BY <2>1, <2>2 DEF UnlockedBySameTime, IsBacked
<1>2. ASSUME LookInv, package.status = "READY" PROVE UnlockedByTwoLooks
  <2>1. PICK rows, os : rows = package.selected /\ os = package.observed OBVIOUS
  <2>2. /\ IsSelection(rows) /\ IsSeq(os) /\ IsObserved(rows, Len(Plan(rows)), os)
        /\ Cardinality(OptionsOf(rows)) >= 3 /\ OptionsOf(rows) \cap UnderlyingsOf(rows) = {}
    BY <1>2, <2>1 DEF LookInv, Packed, IsBacked
  <2>0. PICK r : r = InOrder(rows) OBVIOUS
  <2>3. PICK half \in Nat : half = Len(r) BY <2>0, <2>2, PlanIs
  <2>4. /\ Len(Plan(rows)) = 2 * half + 1
        /\ \A k \in 1..half : Plan(rows)[k] = r[k] /\ Plan(rows)[half + 1 + k] = r[k]
    BY <2>0, <2>2, <2>3, PlanIs
  <2>5. Len(os) = 2 * half /\ \A k \in 1..2 * half : os[k].id = Plan(rows)[IF k <= half THEN k ELSE k + 1]
    <3>1. half = Len(InOrder(rows)) BY <2>0, <2>3
    <3>2. Len(os) = 2 * half BY <2>2, <2>4, <3>1 DEF IsObserved
    <3> QED BY <2>2, <3>1, <3>2 DEF IsObserved
  <2>6. DOMAIN os = 1..2 * half BY <2>2, <2>5 DEF IsSeq
  <2>7. ASSUME NEW i \in InstrumentsOf(rows) PROVE Cardinality({k \in DOMAIN os : os[k].id = i}) = 2
    <3>1. PICK p \in 1..half : \A n \in 1..half : r[n] = i <=> n = p BY <2>0, <2>2, <2>3, RoundIs
    <3>2. \A k \in 1..2 * half : os[k].id = i <=> k = p \/ k = p + half
      <4> TAKE k \in 1..2 * half
      <4>1. CASE k <= half
        <5>1. os[k].id = r[k] BY <2>4, <2>5, <4>1
        <5> QED BY <3>1, <4>1, <5>1
      <4>2. CASE k > half
        <5>1. PICK n \in 1..half : k = half + n
          <6>1. k - half \in 1..half /\ k = half + (k - half) BY <4>2
          <6> QED BY <6>1
        <5>2. os[k].id = Plan(rows)[k + 1] BY <2>5, <4>2
        <5>3. k + 1 = half + 1 + n BY <5>1
        <5>4. os[k].id = r[n] BY <2>4, <5>2, <5>3
        <5> QED BY <3>1, <5>1, <5>4
      <4> QED BY <4>1, <4>2
    <3>3. p \in 1..2 * half /\ p + half \in 1..2 * half /\ p # p + half OBVIOUS
    <3>4. {k \in DOMAIN os : os[k].id = i} = {p} \union {p + half} BY <2>6, <3>2, <3>3
    <3>5. IsFiniteSet({p}) /\ Cardinality({p}) = 1 /\ p + half \notin {p} BY <3>3, FS_Singleton
    <3>6. Cardinality({p} \union {p + half}) = 2 BY <3>5, FS_AddElement
    <3> QED BY <3>4, <3>6
  <2> QED BY <2>1, <2>2, <2>7 DEF UnlockedByTwoLooks, InstrumentsOf
<1>3. LookInv => UnlockedByEvidence
  BY <1>1, <1>2 DEF UnlockedByEvidence, UnlockedBySameTime, UnlockedByTwoLooks
<1> QED BY <1>3, LookInvariance, PTL

-------------------------------------------------------------------------------
\* Two sequences, one behind the other.
LEMMA Joined ==
  ASSUME NEW s, IsSeq(s), NEW t, IsSeq(t)
  PROVE  /\ IsSeq(s \o t) /\ Len(s \o t) = Len(s) + Len(t)
         /\ \A i \in 1..Len(s) : (s \o t)[i] = s[i]
         /\ \A i \in 1..Len(t) : (s \o t)[Len(s) + i] = t[i]
<1>1. PICK S : S = {s[k] : k \in 1..Len(s)} \union {t[k] : k \in 1..Len(t)} OBVIOUS
<1>2. PICK m \in Nat, n \in Nat : m = Len(s) /\ n = Len(t) BY DEF IsSeq
<1>3. s \in Seq(S) /\ t \in Seq(S)
  <2>1. s = [k \in 1..m |-> s[k]] /\ t = [k \in 1..n |-> t[k]] BY <1>2 DEF IsSeq
  <2>2. (\A k \in 1..m : s[k] \in S) /\ \A k \in 1..n : t[k] \in S BY <1>1, <1>2
  <2>3. s \in [1..m -> S] BY <2>1, <2>2
  <2>4. t \in [1..n -> S] BY <2>1, <2>2
  <2> QED BY <2>3, <2>4
<1>4. PICK u : u = s \o t OBVIOUS
<1>5. u \in Seq(S) /\ Len(u) = m + n BY <1>2, <1>3, <1>4, ConcatProperties
<1>6. \A i \in 1..m : u[i] = s[i] BY <1>2, <1>3, <1>4
<1>7. \A i \in 1..n : u[m + i] = t[i]
  <2> TAKE i \in 1..n
  <2>1. PICK k \in Nat : k = m + i OBVIOUS
  <2>2. k > Len(s) /\ k <= Len(s) + Len(t) /\ k - Len(s) = i BY <1>2, <2>1
  <2>3. u[k] = t[k - Len(s)] BY <1>3, <1>4, <2>2
  <2> QED BY <2>1, <2>2, <2>3
<1>8. IsSeq(u) BY <1>5 DEF IsSeq
<1> QED BY <1>2, <1>4, <1>5, <1>6, <1>7, <1>8

\* The beginning of a sequence.
LEMMA Begun ==
  ASSUME NEW s, IsSeq(s), NEW n \in 0..Len(s)
  PROVE  /\ IsSeq(SubSeq(s, 1, n)) /\ Len(SubSeq(s, 1, n)) = n
         /\ \A i \in 1..n : SubSeq(s, 1, n)[i] = s[i]
<1>1. PICK m \in Nat : m = Len(s) BY DEF IsSeq
<1>2. PICK S : S = {s[k] : k \in 1..m} OBVIOUS
<1>3. s = [k \in 1..m |-> s[k]] /\ \A k \in 1..m : s[k] \in S BY <1>1, <1>2 DEF IsSeq
<1>4. s \in [1..m -> S] BY <1>3
<1>5. s \in Seq(S) BY <1>4
<1>6. PICK u : u = SubSeq(s, 1, n) OBVIOUS
<1>7. n \in Nat /\ n <= m BY <1>1
<1>8. u = [i \in 1..n |-> s[i]] BY <1>1, <1>3, <1>5, <1>6, <1>7
<1>9. IsSeq(u) /\ Len(u) = n BY <1>7, <1>8 DEF IsSeq
<1> QED BY <1>6, <1>8, <1>9

-------------------------------------------------------------------------------
\* What is in the two files of the shadow.
MemoryTypes ==
  /\ DOMAIN shadow = {"at", "snap", "cases", "runs"}
  /\ IsSeq(lifecycle) /\ shadow.runs \in Nat /\ shadow.at \in {"idle", "memory", "lifecycle"}
  /\ shadow.cases = <<>> \/ shadow.cases \in CaseLists
  /\ \A i \in 1..Len(lifecycle) :
       /\ lifecycle[i].count \in Nat /\ lifecycle[i].run \in Nat /\ lifecycle[i].run <= shadow.runs
       /\ shadow.at # "idle" => lifecycle[i].run < shadow.runs
  /\ memory = [k \in CaseKeys |-> memory[k]]
  /\ \A k \in CaseKeys : DOMAIN memory[k] = {"state", "strength", "snap"}
  /\ IsSeq(store) /\ cuts \in Nat

\* The memory is a step before the lifecycle when it has been written and that has not.
GoneSoFar ==
  cuts = 0 =>
    /\ remembers /\ readable
    /\ \A k \in CaseKeys :
         IF shadow.at = "lifecycle" /\ k \in KeysOf(shadow.cases)
         THEN memory[k].state \notin {"UNSEEN", "RESOLVED"}
         ELSE /\ (memory[k] = Unseen) = ~Told(k)
              /\ Told(k) => (memory[k].state = "RESOLVED") =
                              (shadow.at = "lifecycle" \/ Latest(k).state = "RESOLVED")

MemoryInv ==
  MemoryTypes /\ GoneSoFar /\ SeenStands /\ ReturnIsRecurring /\ StoredOnce /\ AgainIsTheSame

-------------------------------------------------------------------------------
\* The latest event of a case.
LEMMA LatestIs ==
  ASSUME MemoryTypes, NEW k, Told(k)
  PROVE  /\ Max(EventsOfKey(k)) \in 1..Len(lifecycle) /\ lifecycle[Max(EventsOfKey(k))].key = k
         /\ \A i \in EventsOfKey(k) : i <= Max(EventsOfKey(k))
<1>1. PICK n \in Nat : n = Len(lifecycle) BY DEF MemoryTypes, IsSeq
<1>2. DOMAIN lifecycle = 1..n BY <1>1 DEF MemoryTypes, IsSeq
<1>3. PICK S : S = EventsOfKey(k) OBVIOUS
<1>4. S # {} /\ S \in SUBSET Nat /\ S \subseteq 1..n /\ \A i \in S : lifecycle[i].key = k
  BY <1>2, <1>3 DEF Told, EventsOfKey
<1>5. \A i \in S : i <= n BY <1>4
<1>6. Max(S) \in S /\ \A i \in S : Max(S) >= i BY <1>4, <1>5, MaxIsLargest
<1>7. \A i \in S : i <= Max(S)
  <2>1. PICK m \in Nat : m = Max(S) BY <1>4, <1>6
  <2> QED BY <1>4, <1>6, <2>1
<1> QED BY <1>1, <1>3, <1>4, <1>6, <1>7

\* An event of the run under way.
NewEvent(e) ==
  \/ \E i \in DOMAIN shadow.cases : e = EventOf(shadow.cases[i])
  \/ \E k \in Gone : e = Resolved(k)

\* The event of a case of the snapshot.
LEMMA CaseEvent ==
  ASSUME MemoryTypes, NEW c
  PROVE  /\ EventOf(c).key = c.key /\ EventOf(c).run = shadow.runs /\ EventOf(c).count \in Nat
         /\ EventOf(c).state # "RESOLVED"
         /\ ~Told(c.key) => EventOf(c).first = shadow.snap /\ EventOf(c).count = 1
         /\ Told(c.key) => /\ EventOf(c).first = Latest(c.key).first
                           /\ EventOf(c).count = Latest(c.key).count + 1 /\ Latest(c.key).count \in Nat
                           /\ EventOf(c).state # "NEW"
                           /\ (EventOf(c).state = "RECURRING") = (Latest(c.key).state = "RESOLVED")
<1>1. CASE ~Told(c.key) BY <1>1 DEF EventOf, Event
<1>2. CASE Told(c.key)
  <2>1. PICK old : old = Latest(c.key) OBVIOUS
  <2>2. old.count \in Nat BY <1>2, <2>1, LatestIs DEF Latest, MemoryTypes
  <2>3. PICK state : state = LifecycleState(old, Strength(c.status)) OBVIOUS
  <2>4. EventOf(c) = Event(c.key, c.name, state, Strength(c.status), old.first, old.count + 1)
    BY <1>2, <2>1, <2>3 DEF EventOf
  <2>5. /\ state \notin {"NEW", "RESOLVED"}
        /\ (state = "RECURRING") = (old.state = "RESOLVED")
    BY <2>3 DEF LifecycleState
  <2>6. PICK e : e = EventOf(c) OBVIOUS
  <2>7. /\ e.key = c.key /\ e.run = shadow.runs /\ e.count = old.count + 1 /\ e.state = state /\ e.first = old.first
    BY <2>4, <2>6 DEF Event
  <2> QED BY <1>2, <2>1, <2>2, <2>5, <2>6, <2>7
<1> QED BY <1>1, <1>2

\* The event of a case that is gone.
LEMMA GoneEvent ==
  ASSUME MemoryTypes, NEW k \in Gone
  PROVE  /\ Resolved(k).key = k /\ Resolved(k).run = shadow.runs
         /\ Told(k) /\ k \notin KeysOf(shadow.cases) /\ Latest(k).state # "RESOLVED"
         /\ Resolved(k).count = Latest(k).count /\ Latest(k).count \in Nat /\ Resolved(k).first = Latest(k).first
         /\ Resolved(k).state = "RESOLVED"
<1>1. Told(k) /\ k \notin KeysOf(shadow.cases) /\ Latest(k).state # "RESOLVED" BY DEF Gone
<1>2. Latest(k).count \in Nat BY <1>1, LatestIs DEF Latest, MemoryTypes
<1> QED BY <1>1, <1>2 DEF Resolved, Event

\* Whichever it is.
LEMMA NewEventIs ==
  ASSUME MemoryTypes, NEW e, NewEvent(e)
  PROVE  /\ e.run = shadow.runs /\ e.count \in Nat
         /\ Told(e.key) => /\ e.first = Latest(e.key).first /\ e.count >= Latest(e.key).count
                           /\ e.state # "NEW"
                           /\ (e.state = "RECURRING") = (Latest(e.key).state = "RESOLVED")
<1>1. ASSUME NEW i \in DOMAIN shadow.cases, e = EventOf(shadow.cases[i])
      PROVE  /\ e.run = shadow.runs /\ e.count \in Nat
             /\ Told(e.key) => /\ e.first = Latest(e.key).first /\ e.count >= Latest(e.key).count
                               /\ e.state # "NEW"
                               /\ (e.state = "RECURRING") = (Latest(e.key).state = "RESOLVED")
  <2>1. PICK c : c = shadow.cases[i] OBVIOUS
  <2>2. e = EventOf(c) BY <1>1, <2>1
  <2>3. e.key = c.key /\ e.run = shadow.runs /\ e.count \in Nat BY <2>2, CaseEvent
  <2>4. ASSUME Told(c.key)
        PROVE  /\ e.first = Latest(c.key).first /\ e.count >= Latest(c.key).count
               /\ e.state # "NEW" /\ (e.state = "RECURRING") = (Latest(c.key).state = "RESOLVED")
    BY <2>2, <2>4, CaseEvent
  <2> QED BY <2>3, <2>4
<1>2. ASSUME NEW k \in Gone, e = Resolved(k)
      PROVE  /\ e.run = shadow.runs /\ e.count \in Nat
             /\ Told(e.key) => /\ e.first = Latest(e.key).first /\ e.count >= Latest(e.key).count
                               /\ e.state # "NEW"
                               /\ (e.state = "RECURRING") = (Latest(e.key).state = "RESOLVED")
  BY <1>2, GoneEvent
<1> QED BY <1>1, <1>2 DEF NewEvent

\* Two events of one case in one run.
LEMMA NewEventsAgree ==
  ASSUME MemoryTypes, NEW e, NewEvent(e), NEW f, NewEvent(f), e.key = f.key
  PROVE  e.first = f.first /\ e.count = f.count
<1>1. ASSUME NEW g, NewEvent(g)
      PROVE  \/ /\ g.key \in KeysOf(shadow.cases)
                /\ ~Told(g.key) => g.first = shadow.snap /\ g.count = 1
                /\ Told(g.key) => g.first = Latest(g.key).first /\ g.count = Latest(g.key).count + 1
             \/ /\ g.key \notin KeysOf(shadow.cases)
                /\ g.first = Latest(g.key).first /\ g.count = Latest(g.key).count
  <2>1. ASSUME NEW i \in DOMAIN shadow.cases, g = EventOf(shadow.cases[i])
        PROVE  /\ g.key \in KeysOf(shadow.cases)
               /\ ~Told(g.key) => g.first = shadow.snap /\ g.count = 1
               /\ Told(g.key) => g.first = Latest(g.key).first /\ g.count = Latest(g.key).count + 1
    <3>1. PICK c : c = shadow.cases[i] OBVIOUS
    <3>2. g = EventOf(c) BY <2>1, <3>1
    <3>3. g.key = c.key /\ c.key \in KeysOf(shadow.cases) BY <3>1, <3>2, CaseEvent DEF KeysOf
    <3>4. ASSUME ~Told(c.key) PROVE g.first = shadow.snap /\ g.count = 1 BY <3>2, <3>4, CaseEvent
    <3>5. ASSUME Told(c.key) PROVE g.first = Latest(c.key).first /\ g.count = Latest(c.key).count + 1
      BY <3>2, <3>5, CaseEvent
    <3> QED BY <3>3, <3>4, <3>5
  <2>2. ASSUME NEW k \in Gone, g = Resolved(k)
        PROVE  g.key \notin KeysOf(shadow.cases) /\ g.first = Latest(g.key).first /\ g.count = Latest(g.key).count
    BY <2>2, GoneEvent
  <2> QED BY <1>1, <2>1, <2>2 DEF NewEvent
<1> QED BY <1>1

\* The cases of a run are so many.
LEMMA ToTellIsFinite == MemoryTypes => IsFiniteSet(ToTell)
<1> SUFFICES ASSUME MemoryTypes PROVE IsFiniteSet(ToTell) OBVIOUS
<1>1. PICK D : D = DOMAIN shadow.cases OBVIOUS
<1>2. IsFiniteSet(D)
  <2>1. CASE shadow.cases = <<>>
    <3>1. D = {} BY <1>1, <2>1
    <3> QED BY <3>1, FS_EmptySet
  <2>2. CASE shadow.cases \in CaseLists
    <3>1. PICK n \in Nat : D = 1..n BY <1>1, <2>2, MemoryAssumption
    <3>2. IsFiniteSet(1..n) BY FS_Interval
    <3> QED BY <3>1, <3>2
  <2> QED BY <2>1, <2>2 DEF MemoryTypes
<1>3. PICK n \in Nat : DOMAIN lifecycle = 1..n BY DEF MemoryTypes, IsSeq
<1>4. PICK K : K = {lifecycle[i].key : i \in 1..n} OBVIOUS
<1>5. IsFiniteSet(K)
  <2>1. PICK f : f = [i \in 1..n |-> lifecycle[i].key] OBVIOUS
  <2>2. f \in Surjection(1..n, K) BY <1>4, <2>1 DEF Surjection
  <2>3. IsFiniteSet(1..n) BY FS_Interval
  <2> QED BY <2>2, <2>3, FS_Surjection
<1>6. IsFiniteSet(Gone)
  <2>1. Gone \subseteq K BY <1>3, <1>4 DEF Gone, Told, EventsOfKey
  <2> QED BY <1>5, <2>1, FS_Subset
<1>7. PICK A : A = {<<"case", i>> : i \in D} OBVIOUS
<1>8. IsFiniteSet(A)
  <2>1. PICK f : f = [i \in D |-> <<"case", i>>] OBVIOUS
  <2>2. f \in Surjection(D, A) BY <1>7, <2>1 DEF Surjection
  <2> QED BY <1>2, <2>2, FS_Surjection
<1>9. PICK B : B = {<<"gone", k>> : k \in Gone} OBVIOUS
<1>10. IsFiniteSet(B)
  <2>1. PICK f : f = [k \in Gone |-> <<"gone", k>>] OBVIOUS
  <2>2. f \in Surjection(Gone, B) BY <1>9, <2>1 DEF Surjection
  <2> QED BY <1>6, <2>2, FS_Surjection
<1>11. ToTell = A \union B BY <1>1, <1>7, <1>9 DEF ToTell
<1>12. IsFiniteSet(A \union B) BY <1>8, <1>10, FS_Union
<1> QED BY <1>11, <1>12

\* What a run appends: an event of every case of the snapshot and of every case that is gone.
LEMMA NewEventsAre ==
  ASSUME MemoryTypes, NEW events \in NewEvents
  PROVE  /\ IsSeq(events) /\ \A n \in 1..Len(events) : NewEvent(events[n])
         /\ \A i \in DOMAIN shadow.cases : \E n \in 1..Len(events) : events[n] = EventOf(shadow.cases[i])
         /\ \A k \in Gone : \E n \in 1..Len(events) : events[n] = Resolved(k)
<1>1. PICK order \in Sorted : events = [n \in DOMAIN order |-> EventFrom(order[n])] BY DEF NewEvents
<1>2. PICK size \in Nat : size = Cardinality(ToTell) BY ToTellIsFinite, FS_CardinalityType
<1>3. /\ DOMAIN order = 1..size /\ \A n \in 1..size : order[n] \in ToTell
      /\ \A x \in ToTell : \E n \in 1..size : order[n] = x
  BY <1>2 DEF Sorted
<1>4. events = [n \in 1..size |-> EventFrom(order[n])] BY <1>1, <1>3
<1>5. IsSeq(events) /\ Len(events) = size BY <1>4 DEF IsSeq
<1>6. \A n \in 1..size : events[n] = EventFrom(order[n]) BY <1>4
<1>7. \A i \in DOMAIN shadow.cases : <<"case", i>> \in ToTell /\ EventFrom(<<"case", i>>) = EventOf(shadow.cases[i])
  BY DEF ToTell, EventFrom
<1>8. \A k \in Gone : <<"gone", k>> \in ToTell /\ EventFrom(<<"gone", k>>) = Resolved(k)
  BY DEF ToTell, EventFrom
<1>9. \A n \in 1..size : NewEvent(events[n])
  <2> TAKE n \in 1..size
  <2>1. PICK x \in ToTell : order[n] = x BY <1>3
  <2>2. CASE \E i \in DOMAIN shadow.cases : x = <<"case", i>> BY <1>6, <1>7, <2>1, <2>2 DEF NewEvent
  <2>3. CASE \E k \in Gone : x = <<"gone", k>> BY <1>6, <1>8, <2>1, <2>3 DEF NewEvent
  <2> QED BY <2>2, <2>3 DEF ToTell
<1>10. \A i \in DOMAIN shadow.cases : \E n \in 1..size : events[n] = EventOf(shadow.cases[i])
  <2> TAKE i \in DOMAIN shadow.cases
  <2>1. PICK x \in ToTell : x = <<"case", i>> /\ EventFrom(x) = EventOf(shadow.cases[i]) BY <1>7
  <2>2. PICK n \in 1..size : order[n] = x BY <1>3, <2>1
  <2> QED BY <1>6, <2>1, <2>2
<1>11. \A k \in Gone : \E n \in 1..size : events[n] = Resolved(k)
  <2> TAKE k \in Gone
  <2>1. PICK x \in ToTell : x = <<"gone", k>> /\ EventFrom(x) = Resolved(k) BY <1>8
  <2>2. PICK n \in 1..size : order[n] = x BY <1>3, <2>1
  <2> QED BY <1>6, <2>1, <2>2
<1> QED BY <1>5, <1>9, <1>10, <1>11

-------------------------------------------------------------------------------
\* The log with events of a run behind it, with all of them or with the first ones.
IsLonger(t) ==
  /\ IsSeq(lifecycle') /\ Len(lifecycle') = Len(lifecycle) + Len(t)
  /\ \A i \in 1..Len(lifecycle) : lifecycle'[i] = lifecycle[i]
  /\ \A i \in 1..Len(t) : lifecycle'[Len(lifecycle) + i] = t[i]
  /\ \A j \in 1..Len(lifecycle') : j > Len(lifecycle) => NewEvent(lifecycle'[j])

\* The log of a run that appended to it.
LEMMA Longer ==
  ASSUME MemoryTypes, NEW t, IsSeq(t), \A n \in 1..Len(t) : NewEvent(t[n]), lifecycle' = lifecycle \o t
  PROVE  IsLonger(t)
<1>1. IsSeq(lifecycle) BY DEF MemoryTypes
<1>2. /\ IsSeq(lifecycle') /\ Len(lifecycle') = Len(lifecycle) + Len(t)
      /\ \A i \in 1..Len(lifecycle) : lifecycle'[i] = lifecycle[i]
      /\ \A i \in 1..Len(t) : lifecycle'[Len(lifecycle) + i] = t[i]
  BY <1>1, Joined
<1>3. PICK m \in Nat, n \in Nat : m = Len(lifecycle) /\ n = Len(t) BY <1>1 DEF IsSeq
<1>4. \A j \in 1..m + n : j > m => NewEvent(lifecycle'[j])
  <2> TAKE j \in 1..m + n
  <2> HAVE j > m
  <2>1. PICK i \in 1..n : j = m + i
    <3>1. j - m \in 1..n /\ j = m + (j - m) OBVIOUS
    <3> QED BY <3>1
  <2>2. lifecycle'[j] = t[i] BY <1>2, <1>3, <2>1
  <2>3. NewEvent(t[i]) BY <1>3
  <2> QED BY <2>2, <2>3
<1> QED BY <1>2, <1>3, <1>4 DEF IsLonger

\* The last old event of a case that has a new one.
LEMMA OldAndNew ==
  ASSUME MemoryTypes, SeenStands, NEW i \in 1..Len(lifecycle), NEW e, NewEvent(e), e.key = lifecycle[i].key
  PROVE  /\ Told(e.key) /\ i <= Max(EventsOfKey(e.key)) /\ i \in EventsOfKey(e.key)
         /\ lifecycle[i].first = e.first /\ lifecycle[i].count <= e.count
<1>1. DOMAIN lifecycle = 1..Len(lifecycle) BY DEF MemoryTypes, IsSeq
<1>2. i \in EventsOfKey(e.key) BY <1>1 DEF EventsOfKey
<1>3. Told(e.key) BY <1>2 DEF Told
<1>4. PICK p : p = Max(EventsOfKey(e.key)) OBVIOUS
<1>5. p \in 1..Len(lifecycle) /\ lifecycle[p].key = e.key /\ i <= p BY <1>2, <1>3, <1>4, LatestIs
<1>6. e.first = lifecycle[p].first /\ e.count >= lifecycle[p].count BY <1>3, <1>4, NewEventIs DEF Latest
<1>7. lifecycle[i].first = lifecycle[p].first /\ lifecycle[i].count <= lifecycle[p].count
  <2>1. Len(lifecycle) \in Nat BY DEF MemoryTypes, IsSeq
  <2>2. i \in Nat /\ p \in Nat BY <1>5, <2>1
  <2>3. CASE i < p BY <1>1, <1>5, <2>3 DEF SeenStands
  <2>4. CASE i = p
    <3>1. lifecycle[p].count \in Nat BY <1>5 DEF MemoryTypes
    <3> QED BY <2>4, <3>1
  <2> QED BY <1>5, <2>2, <2>3, <2>4
<1>8. lifecycle[i].count \in Nat /\ lifecycle[p].count \in Nat /\ e.count \in Nat
  BY <1>5, NewEventIs DEF MemoryTypes
<1>9. lifecycle[i].count <= e.count BY <1>6, <1>7, <1>8
<1> QED BY <1>2, <1>3, <1>4, <1>5, <1>6, <1>7, <1>9

\* What stands in the log still does.
LEMMA LogGrows ==
  ASSUME MemoryTypes, SeenStands, ReturnIsRecurring, NEW t, IsLonger(t), IsSeq(t)
  PROVE  SeenStands' /\ ReturnIsRecurring'
<1>1. PICK m \in Nat, n \in Nat : m = Len(lifecycle) /\ n = Len(t) BY DEF MemoryTypes, IsSeq
<1>2. PICK M : M = lifecycle' OBVIOUS
<1>3. /\ DOMAIN M = 1..m + n /\ DOMAIN lifecycle = 1..m /\ \A i \in 1..m : M[i] = lifecycle[i]
      /\ \A j \in 1..m + n : j > m => NewEvent(M[j])
  BY <1>1, <1>2 DEF IsLonger, IsSeq, MemoryTypes
<1>4. ASSUME NEW i \in 1..m + n, NEW j \in 1..m + n, i < j, M[i].key = M[j].key
      PROVE  M[i].first = M[j].first /\ M[i].count <= M[j].count
  <2>1. CASE j <= m
    <3>1. i \in 1..m /\ j \in 1..m BY <1>4, <2>1
    <3>2. M[i] = lifecycle[i] /\ M[j] = lifecycle[j] BY <1>3, <3>1
    <3> QED BY <1>3, <1>4, <3>1, <3>2 DEF SeenStands
  <2>2. CASE i <= m /\ j > m
    <3>1. i \in 1..Len(lifecycle) /\ M[i] = lifecycle[i] /\ NewEvent(M[j]) BY <1>1, <1>3, <2>2
    <3> QED BY <1>4, <3>1, OldAndNew
  <2>3. CASE i > m
    <3>1. NewEvent(M[i]) /\ NewEvent(M[j]) BY <1>3, <1>4, <2>3
    <3>2. M[i].first = M[j].first /\ M[i].count = M[j].count BY <1>4, <3>1, NewEventsAgree
    <3>3. M[j].count \in Nat BY <3>1, NewEventIs
    <3> QED BY <3>2, <3>3
  <2> QED BY <2>1, <2>2, <2>3
<1>5. ASSUME NEW i \in 1..m + n, NEW j \in 1..m + n, i < j, M[i].key = M[j].key,
             \A x \in i + 1..j - 1 : M[x].key # M[j].key, M[i].run # M[j].run
      PROVE  (M[i].state = "RESOLVED") = (M[j].state = "RECURRING") /\ M[j].state # "NEW"
  <2>1. CASE j <= m
    <3>1. i \in 1..m /\ j \in 1..m BY <1>5, <2>1
    <3>2. M[i] = lifecycle[i] /\ M[j] = lifecycle[j] BY <1>3, <3>1
    <3>3. \A x \in i + 1..j - 1 : lifecycle[x].key # lifecycle[j].key
      <4> TAKE x \in i + 1..j - 1
      <4>1. x \in 1..m BY <2>1
      <4>2. M[x] = lifecycle[x] BY <1>3, <4>1
      <4> QED BY <1>5, <3>2, <4>2
    <3>4. FollowsOn(i, j) BY <1>5, <3>2, <3>3 DEF FollowsOn
    <3> QED BY <1>3, <1>5, <3>1, <3>2, <3>4 DEF ReturnIsRecurring
  <2>2. CASE i <= m /\ j > m
    <3>1. i \in 1..Len(lifecycle) /\ M[i] = lifecycle[i] /\ NewEvent(M[j]) BY <1>1, <1>3, <2>2
    <3>2. PICK k : k = M[j].key OBVIOUS
    <3>3. Told(k) /\ i <= Max(EventsOfKey(k)) BY <1>5, <3>1, <3>2, OldAndNew
    <3>4. PICK p : p = Max(EventsOfKey(k)) OBVIOUS
    <3>5. p \in 1..m /\ lifecycle[p].key = k BY <1>1, <3>3, <3>4, LatestIs
    <3>6. p = i
      <4>1. SUFFICES ASSUME p # i PROVE FALSE OBVIOUS
      <4>2. p \in i + 1..j - 1 BY <2>2, <3>3, <3>4, <3>5, <4>1
      <4>3. M[p] = lifecycle[p] BY <1>3, <3>5
      <4> QED BY <1>5, <3>2, <3>5, <4>2, <4>3
    <3>7. Latest(k) = M[i] BY <3>1, <3>4, <3>6 DEF Latest
    <3> QED BY <3>1, <3>2, <3>3, <3>7, NewEventIs
  <2>3. CASE i > m
    <3>1. NewEvent(M[i]) /\ NewEvent(M[j]) BY <1>3, <1>5, <2>3
    <3>2. M[i].run = shadow.runs /\ M[j].run = shadow.runs BY <3>1, NewEventIs
    <3> QED BY <1>5, <3>2
  <2> QED BY <2>1, <2>2, <2>3
<1>6. SeenStands' BY <1>2, <1>3, <1>4 DEF SeenStands
<1>7. ReturnIsRecurring' BY <1>2, <1>3, <1>5 DEF ReturnIsRecurring, FollowsOn
<1> QED BY <1>6, <1>7

\* The events in it have counts and runs.
LEMMA LogIsTyped ==
  ASSUME MemoryTypes, NEW t, IsSeq(t), IsLonger(t)
  PROVE  \A i \in 1..Len(lifecycle') :
           lifecycle'[i].count \in Nat /\ lifecycle'[i].run \in Nat /\ lifecycle'[i].run <= shadow.runs
<1>1. PICK m \in Nat, n \in Nat : m = Len(lifecycle) /\ n = Len(t) BY DEF MemoryTypes, IsSeq
<1>2. SUFFICES ASSUME NEW i \in 1..m + n
               PROVE  /\ lifecycle'[i].count \in Nat /\ lifecycle'[i].run \in Nat
                      /\ lifecycle'[i].run <= shadow.runs
  BY <1>1 DEF IsLonger
<1>3. CASE i <= m
  <2>1. i \in 1..m /\ lifecycle'[i] = lifecycle[i] BY <1>1, <1>3 DEF IsLonger
  <2> QED BY <1>1, <2>1 DEF MemoryTypes
<1>4. CASE i > m
  <2>1. PICK e : e = lifecycle'[i] OBVIOUS
  <2>2. NewEvent(e) BY <1>1, <1>4, <2>1 DEF IsLonger
  <2>3. e.run = shadow.runs /\ e.count \in Nat BY <2>2, NewEventIs
  <2>4. shadow.runs \in Nat BY DEF MemoryTypes
  <2> QED BY <2>1, <2>3, <2>4
<1> QED BY <1>3, <1>4

-------------------------------------------------------------------------------
\* Parts of the invariant that a step does not touch.
LEMMA LogStays == UNCHANGED lifecycle => /\ SeenStands' = SeenStands /\ ReturnIsRecurring' = ReturnIsRecurring
                                         /\ \A k \in CaseKeys : Told(k)' = Told(k) /\ Latest(k)' = Latest(k)
<1> SUFFICES ASSUME UNCHANGED lifecycle
             PROVE  /\ SeenStands' = SeenStands /\ ReturnIsRecurring' = ReturnIsRecurring
                    /\ \A k \in CaseKeys : Told(k)' = Told(k) /\ Latest(k)' = Latest(k)
  OBVIOUS
<1>1. SeenStands' = SeenStands BY DEF SeenStands
<1>2. ReturnIsRecurring' = ReturnIsRecurring BY DEF ReturnIsRecurring, FollowsOn
<1>3. \A k \in CaseKeys : Told(k)' = Told(k) /\ Latest(k)' = Latest(k) BY DEF Told, Latest, EventsOfKey
<1> QED BY <1>1, <1>2, <1>3

\* The same of the snapshots that are stored.
LEMMA StoreStays == UNCHANGED storeVars => StoredOnce' = StoredOnce /\ AgainIsTheSame' = AgainIsTheSame
BY DEF storeVars, StoredOnce, AgainIsTheSame

\* What the log says of a case when a run has told of all of them.
LEMMA AllAreTold ==
  ASSUME MemoryTypes, SeenStands, NEW t \in NewEvents, IsLonger(t), IsSeq(t), NEW k \in CaseKeys
  PROVE  /\ k \in KeysOf(shadow.cases) => Told(k)' /\ Latest(k)'.state # "RESOLVED"
         /\ k \notin KeysOf(shadow.cases) => Told(k)' = Told(k) /\ (Told(k) => Latest(k)'.state = "RESOLVED")
<1>1. PICK m \in Nat, n \in Nat : m = Len(lifecycle) /\ n = Len(t) BY DEF MemoryTypes, IsSeq
<1>2. PICK M : M = lifecycle' OBVIOUS
<1>3. /\ DOMAIN M = 1..m + n /\ DOMAIN lifecycle = 1..m /\ \A i \in 1..m : M[i] = lifecycle[i]
      /\ \A i \in 1..n : M[m + i] = t[i]
      /\ \A j \in 1..m + n : j > m => NewEvent(M[j])
  BY <1>1, <1>2 DEF IsLonger, IsSeq, MemoryTypes
<1>4. PICK S : S = {i \in 1..m + n : M[i].key = k} OBVIOUS
<1>5. EventsOfKey(k)' = S BY <1>2, <1>3, <1>4 DEF EventsOfKey
<1>6. Told(k)' = (S # {}) BY <1>5 DEF Told
<1>7. Latest(k)' = M[Max(S)] BY <1>2, <1>5 DEF Latest
<1>8. S # {} => /\ Max(S) \in 1..m + n /\ M[Max(S)].key = k
                /\ \A i \in S : i <= Max(S)
  <2> SUFFICES ASSUME S # {}
               PROVE  Max(S) \in 1..m + n /\ M[Max(S)].key = k /\ \A i \in S : i <= Max(S)
    OBVIOUS
  <2>1. S \in SUBSET Nat /\ \A i \in S : i <= m + n BY <1>4
  <2>2. m + n \in Nat OBVIOUS
  <2>3. Max(S) \in S /\ \A i \in S : Max(S) >= i BY <2>1, <2>2, MaxIsLargest
  <2>4. PICK x \in Nat : x = Max(S) BY <2>1, <2>3
  <2>5. \A i \in S : i <= x BY <2>1, <2>3, <2>4
  <2> QED BY <1>4, <2>3, <2>4, <2>5
<1>9. ASSUME NEW j \in 1..m + n, j > m, M[j].key = k
      PROVE  Told(k)' /\ NewEvent(Latest(k)') /\ Latest(k)'.key = k
  <2>1. j \in S BY <1>4, <1>9
  <2>2. S # {} BY <2>1
  <2>3. PICK x \in 1..m + n : x = Max(S) BY <1>8, <2>2
  <2>4. x > m /\ M[x].key = k BY <1>8, <1>9, <2>1, <2>2, <2>3
  <2> QED BY <1>3, <1>6, <1>7, <2>2, <2>3, <2>4
<1>10. ASSUME NEW x \in 1..n, t[x].key = k
       PROVE  Told(k)' /\ NewEvent(Latest(k)') /\ Latest(k)'.key = k
  <2>1. PICK j \in 1..m + n : j = m + x OBVIOUS
  <2>2. j > m /\ M[j].key = k BY <1>3, <1>10, <2>1
  <2> QED BY <1>9, <2>2
<1>11. PICK e : e = Latest(k)' OBVIOUS
<1>12. ASSUME k \in KeysOf(shadow.cases) PROVE Told(k)' /\ e.state # "RESOLVED"
  <2>1. PICK i \in DOMAIN shadow.cases : shadow.cases[i].key = k BY <1>12 DEF KeysOf
  <2>2. PICK x \in 1..n : t[x] = EventOf(shadow.cases[i]) BY <1>1, NewEventsAre
  <2>3. t[x].key = k BY <2>1, <2>2, CaseEvent
  <2>4. Told(k)' /\ NewEvent(e) /\ e.key = k BY <1>10, <1>11, <2>3
  <2>5. ~\E g \in Gone : e = Resolved(g) BY <1>12, <2>4, GoneEvent
  <2>6. PICK h \in DOMAIN shadow.cases : e = EventOf(shadow.cases[h]) BY <2>4, <2>5 DEF NewEvent
  <2> QED BY <2>4, <2>6, CaseEvent
<1>13. ASSUME k \notin KeysOf(shadow.cases), k \in Gone PROVE Told(k)' /\ Told(k) /\ e.state = "RESOLVED"
  <2>1. PICK x \in 1..n : t[x] = Resolved(k) BY <1>1, <1>13, NewEventsAre
  <2>2. t[x].key = k BY <1>13, <2>1, GoneEvent
  <2>3. Told(k)' /\ NewEvent(e) /\ e.key = k BY <1>10, <1>11, <2>2
  <2>4. ~\E i \in DOMAIN shadow.cases : e = EventOf(shadow.cases[i])
    <3>1. SUFFICES ASSUME NEW i \in DOMAIN shadow.cases, e = EventOf(shadow.cases[i]) PROVE FALSE OBVIOUS
    <3>2. shadow.cases[i].key = k BY <2>3, <3>1, CaseEvent
    <3> QED BY <1>13, <3>2 DEF KeysOf
  <2>5. PICK g \in Gone : e = Resolved(g) BY <2>3, <2>4 DEF NewEvent
  <2>6. e.state = "RESOLVED" /\ Told(k) BY <1>13, <2>5, GoneEvent
  <2> QED BY <2>3, <2>6
<1>14. ASSUME k \notin KeysOf(shadow.cases), k \notin Gone
       PROVE  Told(k)' = Told(k) /\ (Told(k) => e.state = "RESOLVED")
  <2>1. \A j \in 1..m + n : j > m => M[j].key # k
    <3> TAKE j \in 1..m + n
    <3> HAVE j > m
    <3>1. NewEvent(M[j]) BY <1>3
    <3>2. ASSUME NEW i \in DOMAIN shadow.cases, M[j] = EventOf(shadow.cases[i]) PROVE M[j].key # k
      <4>1. M[j].key = shadow.cases[i].key BY <3>2, CaseEvent
      <4> QED BY <1>14, <4>1 DEF KeysOf
    <3>3. ASSUME NEW g \in Gone, M[j] = Resolved(g) PROVE M[j].key # k BY <1>14, <3>3, GoneEvent
    <3> QED BY <3>1, <3>2, <3>3 DEF NewEvent
  <2>2. \A i \in 1..m + n : M[i].key = k => i \in 1..m
    <3> TAKE i \in 1..m + n
    <3>1. i <= m \/ i > m OBVIOUS
    <3> QED BY <2>1, <3>1
  <2>3. \A i \in 1..m : i \in 1..m + n /\ M[i].key = lifecycle[i].key BY <1>3
  <2>4. S = EventsOfKey(k) BY <1>3, <1>4, <2>2, <2>3 DEF EventsOfKey
  <2>5. Told(k)' = Told(k) BY <1>6, <2>4 DEF Told
  <2>6. ASSUME Told(k) PROVE e.state = "RESOLVED"
    <3>1. Max(S) \in 1..m BY <1>1, <2>4, <2>6, LatestIs
    <3>2. e = Latest(k) BY <1>3, <1>7, <1>11, <2>4, <3>1 DEF Latest
    <3>3. Latest(k).state = "RESOLVED" BY <1>14, <2>6 DEF Gone
    <3> QED BY <3>2, <3>3
  <2> QED BY <2>5, <2>6
<1> QED BY <1>11, <1>12, <1>13, <1>14

-------------------------------------------------------------------------------
\* At first nothing is known of any case.
THEOREM MemoryStart == MemoryInit => MemoryInv
<1> SUFFICES ASSUME MemoryInit PROVE MemoryInv OBVIOUS
<1>1. /\ memory = [k \in CaseKeys |-> Unseen] /\ remembers = TRUE /\ lifecycle = <<>> /\ readable = TRUE
      /\ shadow = [at |-> "idle", snap |-> 0, cases |-> <<>>, runs |-> 0]
      /\ store = <<>> /\ answer = NoAnswer /\ cuts = 0
  BY DEF MemoryInit
<1>2. IsSeq(<<>>) /\ Len(<<>>) = 0 /\ DOMAIN <<>> = {} BY DEF IsSeq
<1>3. MemoryTypes BY <1>1, <1>2 DEF MemoryTypes, Unseen
<1>4. \A k : EventsOfKey(k) = {} BY <1>1, <1>2 DEF EventsOfKey
<1>5. GoneSoFar BY <1>1, <1>4 DEF GoneSoFar, Told
<1>6. SeenStands /\ ReturnIsRecurring BY <1>1, <1>2 DEF SeenStands, ReturnIsRecurring
<1>7. StoredOnce BY <1>1, <1>2 DEF StoredOnce
<1>8. AgainIsTheSame BY <1>1 DEF AgainIsTheSame
<1> QED BY <1>3, <1>5, <1>6, <1>7, <1>8 DEF MemoryInv

\* A run of the shadow begins, for the next snapshot or for the last once more.
LEMMA ShadowBeginsKeeps == MemoryInv /\ ShadowBegins => MemoryInv'
<1> SUFFICES ASSUME MemoryInv, ShadowBegins PROVE MemoryInv' OBVIOUS
<1>1. shadow.at = "idle" /\ UNCHANGED <<shadowFiles, storeVars, cuts>> BY DEF ShadowBegins
<1>2. MemoryTypes BY DEF MemoryInv
<1>3. PICK before \in Nat : before = shadow.runs BY <1>2 DEF MemoryTypes
<1>4. /\ DOMAIN shadow' = {"at", "snap", "cases", "runs"} /\ shadow'.at = "memory" /\ shadow'.runs = before + 1
      /\ shadow'.cases = <<>> \/ shadow'.cases \in CaseLists
  <2>1. ASSUME NEW l \in CaseLists,
               shadow' = [at |-> "memory", snap |-> shadow.snap + 1, cases |-> l, runs |-> shadow.runs + 1]
        PROVE  /\ DOMAIN shadow' = {"at", "snap", "cases", "runs"} /\ shadow'.at = "memory"
               /\ shadow'.runs = before + 1
               /\ shadow'.cases = <<>> \/ shadow'.cases \in CaseLists
    BY <1>3, <2>1
  <2>2. ASSUME shadow' = [shadow EXCEPT !.at = "memory", !.runs = @ + 1]
        PROVE  /\ DOMAIN shadow' = {"at", "snap", "cases", "runs"} /\ shadow'.at = "memory"
               /\ shadow'.runs = before + 1
               /\ shadow'.cases = <<>> \/ shadow'.cases \in CaseLists
    BY <1>2, <1>3, <2>2 DEF MemoryTypes
  <2> QED BY <2>1, <2>2 DEF ShadowBegins
<1>5. lifecycle' = lifecycle /\ memory' = memory /\ remembers' = remembers /\ readable' = readable
      /\ store' = store /\ cuts' = cuts
  BY <1>1 DEF shadowFiles, storeVars
<1>6. \A i \in 1..Len(lifecycle) :
        lifecycle[i].count \in Nat /\ lifecycle[i].run \in Nat /\ lifecycle[i].run < before + 1
  BY <1>2, <1>3 DEF MemoryTypes
<1>7. MemoryTypes' BY <1>2, <1>4, <1>5, <1>6 DEF MemoryTypes
<1>8. GoneSoFar' BY <1>1, <1>4, <1>5, LogStays DEF MemoryInv, GoneSoFar
<1> QED BY <1>1, <1>5, <1>7, <1>8, LogStays, StoreStays DEF MemoryInv

\* The memory is written.
LEMMA UpdateMemoryKeeps == MemoryInv /\ UpdateMemory => MemoryInv'
<1> SUFFICES ASSUME MemoryInv, UpdateMemory PROVE MemoryInv' OBVIOUS
<1>1. /\ shadow.at = "memory" /\ shadow' = [shadow EXCEPT !.at = "lifecycle"]
      /\ memory' = [k \in CaseKeys |-> NextMemory(k)] /\ UNCHANGED <<remembers, lifecycle, readable, storeVars, cuts>>
  BY DEF UpdateMemory, ShadowAt
<1>2. MemoryTypes BY DEF MemoryInv
<1>3. /\ DOMAIN shadow' = {"at", "snap", "cases", "runs"} /\ shadow'.at = "lifecycle" /\ shadow'.runs = shadow.runs
      /\ shadow'.cases = shadow.cases
  BY <1>1, <1>2 DEF MemoryTypes
<1>4. store' = store BY <1>1 DEF storeVars
<1>5. \A k \in CaseKeys : memory'[k] = NextMemory(k) BY <1>1
<1>6. ASSUME NEW k \in CaseKeys
      PROVE  /\ DOMAIN memory'[k] = {"state", "strength", "snap"}
             /\ k \in KeysOf(shadow.cases) => memory'[k].state \notin {"UNSEEN", "RESOLVED"}
             /\ k \notin KeysOf(shadow.cases) =>
                  /\ (memory'[k] = Unseen) = (memory[k] = Unseen)
                  /\ memory[k] # Unseen => memory'[k].state = "RESOLVED"
  <2>1. PICK new : new = memory'[k] OBVIOUS
  <2>2. PICK old : old = memory[k] OBVIOUS
  <2>3. DOMAIN old = {"state", "strength", "snap"} BY <1>2, <2>2 DEF MemoryTypes
  <2>4. CASE k \in KeysOf(shadow.cases)
    <3>1. PICK strength, snap : new = [state |-> MemoryState(old, strength, snap), strength |-> strength, snap |-> snap]
      BY <1>5, <2>1, <2>2, <2>4 DEF NextMemory, Remembered
    <3>2. MemoryState(old, strength, snap) \notin {"UNSEEN", "RESOLVED"} BY DEF MemoryState
    <3> QED BY <2>1, <2>4, <3>1, <3>2
  <2>5. CASE k \notin KeysOf(shadow.cases) /\ old = Unseen
    <3>1. new = Unseen BY <1>5, <2>1, <2>2, <2>5 DEF NextMemory
    <3> QED BY <2>1, <2>2, <2>3, <2>5, <3>1
  <2>6. CASE k \notin KeysOf(shadow.cases) /\ old # Unseen
    <3>1. new = [old EXCEPT !.state = "RESOLVED"] BY <1>5, <2>1, <2>2, <2>6 DEF NextMemory
    <3>2. DOMAIN new = {"state", "strength", "snap"} /\ new.state = "RESOLVED" BY <2>3, <3>1
    <3>3. Unseen.state = "UNSEEN" BY DEF Unseen
    <3>4. new # Unseen BY <3>2, <3>3
    <3> QED BY <2>1, <2>2, <2>6, <3>2, <3>4
  <2> QED BY <2>4, <2>5, <2>6
<1>7. memory' = [k \in CaseKeys |-> memory'[k]] BY <1>1
<1>8. MemoryTypes' BY <1>1, <1>2, <1>3, <1>4, <1>6, <1>7 DEF MemoryTypes
<1>9. GoneSoFar'
  <2> SUFFICES ASSUME cuts' = 0 PROVE GoneSoFar' BY DEF GoneSoFar
  <2>1. /\ remembers /\ readable
        /\ \A k \in CaseKeys : (memory[k] = Unseen) = ~Told(k)
    BY <1>1 DEF MemoryInv, GoneSoFar
  <2>2. remembers' /\ readable' /\ KeysOf(shadow'.cases) = KeysOf(shadow.cases) BY <1>1, <1>3, <2>1
  <2>3. ASSUME NEW k \in CaseKeys, k \notin KeysOf(shadow.cases)
        PROVE  (memory'[k] = Unseen) = ~Told(k)' /\ (Told(k)' => memory'[k].state = "RESOLVED")
    <3>1. Told(k)' = Told(k) BY <1>1, LogStays
    <3>2. (memory'[k] = Unseen) = (memory[k] = Unseen) /\ (memory[k] # Unseen => memory'[k].state = "RESOLVED")
      BY <1>6, <2>3
    <3> QED BY <2>1, <3>1, <3>2
  <2> QED BY <1>3, <1>6, <2>2, <2>3 DEF GoneSoFar
<1> QED BY <1>1, <1>8, <1>9, LogStays, StoreStays DEF MemoryInv

\* A run whose log is longer, and no longer runs.
LEMMA EndedRun ==
  ASSUME MemoryTypes, SeenStands, ReturnIsRecurring, NEW t, IsSeq(t), IsLonger(t),
         shadow' = [shadow EXCEPT !.at = "idle"], UNCHANGED <<memory, store>>, cuts' \in Nat
  PROVE  MemoryTypes' /\ SeenStands' /\ ReturnIsRecurring'
<1>1. /\ DOMAIN shadow' = {"at", "snap", "cases", "runs"} /\ shadow'.at = "idle" /\ shadow'.runs = shadow.runs
      /\ shadow'.cases = shadow.cases
  BY DEF MemoryTypes
<1>2. \A i \in 1..Len(lifecycle') :
        lifecycle'[i].count \in Nat /\ lifecycle'[i].run \in Nat /\ lifecycle'[i].run <= shadow.runs
  BY LogIsTyped
<1>3. IsSeq(lifecycle') BY DEF IsLonger
<1>4. MemoryTypes' BY <1>1, <1>2, <1>3 DEF MemoryTypes
<1> QED BY <1>4, LogGrows

\* A run that does nothing to the log leaves it as long as it was.
LEMMA NothingLonger ==
  ASSUME MemoryTypes, UNCHANGED lifecycle
  PROVE  IsLonger(<<>>) /\ IsSeq(<<>>)
<1>1. IsSeq(<<>>) /\ Len(<<>>) = 0 BY DEF IsSeq
<1>2. PICK m \in Nat : m = Len(lifecycle) BY DEF MemoryTypes, IsSeq
<1>3. Len(lifecycle') = m /\ IsSeq(lifecycle') BY <1>2 DEF MemoryTypes
<1> QED BY <1>1, <1>2, <1>3 DEF IsLonger

\* The events of a run are appended.
LEMMA AppendEventsKeeps == MemoryInv /\ AppendEvents => MemoryInv'
<1> SUFFICES ASSUME MemoryInv, AppendEvents PROVE MemoryInv' OBVIOUS
<1>1. /\ shadow.at = "lifecycle" /\ shadow' = [shadow EXCEPT !.at = "idle"]
      /\ UNCHANGED <<memory, remembers, readable, storeVars, cuts>>
  BY DEF AppendEvents, ShadowAt
<1>2. PICK t \in NewEvents : lifecycle' = lifecycle \o t BY DEF AppendEvents
<1>3. MemoryTypes /\ SeenStands /\ ReturnIsRecurring BY DEF MemoryInv
<1>4. IsSeq(t) /\ \A n \in 1..Len(t) : NewEvent(t[n]) BY <1>3, NewEventsAre
<1>5. IsLonger(t) BY <1>2, <1>3, <1>4, Longer
<1>6. store' = store /\ memory' = memory /\ cuts' = cuts /\ cuts \in Nat BY <1>1, <1>3 DEF storeVars, MemoryTypes
<1>7. MemoryTypes' /\ SeenStands' /\ ReturnIsRecurring' BY <1>1, <1>3, <1>4, <1>5, <1>6, EndedRun
<1>8. GoneSoFar'
  <2> SUFFICES ASSUME cuts' = 0 PROVE GoneSoFar' BY DEF GoneSoFar
  <2>1. /\ remembers' /\ readable' /\ shadow'.at = "idle"
        /\ \A k \in CaseKeys :
             IF k \in KeysOf(shadow.cases) THEN memory[k].state \notin {"UNSEEN", "RESOLVED"}
             ELSE (memory[k] = Unseen) = ~Told(k) /\ (Told(k) => memory[k].state = "RESOLVED")
    BY <1>1, <1>3, <1>6 DEF MemoryInv, GoneSoFar, MemoryTypes
  <2>2. ASSUME NEW k \in CaseKeys
        PROVE  /\ (memory'[k] = Unseen) = ~Told(k)'
               /\ Told(k)' => (memory'[k].state = "RESOLVED") = (Latest(k)'.state = "RESOLVED")
    <3>1. CASE k \in KeysOf(shadow.cases)
      <4>1. Told(k)' /\ Latest(k)'.state # "RESOLVED" BY <1>3, <1>4, <1>5, <3>1, AllAreTold
      <4>2. memory[k].state \notin {"UNSEEN", "RESOLVED"} BY <2>1, <3>1
      <4>3. memory[k] # Unseen BY <4>2 DEF Unseen
      <4> QED BY <1>6, <4>1, <4>2, <4>3
    <3>2. CASE k \notin KeysOf(shadow.cases)
      <4>1. Told(k)' = Told(k) /\ (Told(k) => Latest(k)'.state = "RESOLVED")
        BY <1>3, <1>4, <1>5, <3>2, AllAreTold
      <4>2. (memory[k] = Unseen) = ~Told(k) /\ (Told(k) => memory[k].state = "RESOLVED") BY <2>1, <3>2
      <4> QED BY <1>6, <4>1, <4>2
    <3> QED BY <3>1, <3>2
  <2> QED BY <2>1, <2>2 DEF GoneSoFar
<1> QED BY <1>1, <1>7, <1>8, StoreStays DEF MemoryInv

\* A file that was cut off has been cut off by a kill.
LEMMA ShadowRaisesKeeps == MemoryInv /\ ShadowRaises => MemoryInv'
<1> SUFFICES ASSUME MemoryInv, ShadowRaises PROVE MemoryInv' OBVIOUS
<1>1. /\ ~remembers \/ ~readable
      /\ shadow' = [shadow EXCEPT !.at = "idle"] /\ UNCHANGED <<shadowFiles, storeVars, cuts>>
  BY DEF ShadowRaises
<1>2. MemoryTypes /\ SeenStands /\ ReturnIsRecurring BY DEF MemoryInv
<1>3. store' = store /\ memory' = memory /\ lifecycle' = lifecycle /\ cuts' = cuts /\ cuts \in Nat
  BY <1>1, <1>2 DEF storeVars, shadowFiles, MemoryTypes
<1>4. MemoryTypes' /\ SeenStands' /\ ReturnIsRecurring' BY <1>1, <1>2, <1>3, NothingLonger, EndedRun
<1>5. cuts # 0 BY <1>1 DEF MemoryInv, GoneSoFar
<1>6. GoneSoFar' BY <1>3, <1>5 DEF GoneSoFar
<1> QED BY <1>1, <1>4, <1>6, StoreStays DEF MemoryInv

\* A kill cuts off one file, or leaves the first events of a run.
LEMMA ShadowKilledKeeps == MemoryInv /\ ShadowKilled => MemoryInv'
<1> SUFFICES ASSUME MemoryInv, ShadowKilled PROVE MemoryInv' OBVIOUS
<1>1. cuts' = cuts + 1 /\ shadow' = [shadow EXCEPT !.at = "idle"] /\ UNCHANGED storeVars BY DEF ShadowKilled
<1>2. MemoryTypes /\ SeenStands /\ ReturnIsRecurring BY DEF MemoryInv
<1>3. cuts' \in Nat /\ cuts' # 0 BY <1>1, <1>2 DEF MemoryTypes
<1>4. store' = store BY <1>1 DEF storeVars
<1>5. memory' = memory BY DEF ShadowKilled, shadowFiles
<1>6. MemoryTypes' /\ SeenStands' /\ ReturnIsRecurring'
  <2>1. CASE lifecycle' = lifecycle BY <1>1, <1>2, <1>3, <1>4, <1>5, <2>1, NothingLonger, EndedRun
  <2>2. ASSUME NEW t \in NewEvents, NEW n \in 0..Len(t), lifecycle' = lifecycle \o SubSeq(t, 1, n)
        PROVE  MemoryTypes' /\ SeenStands' /\ ReturnIsRecurring'
    <3>1. IsSeq(t) /\ \A i \in 1..Len(t) : NewEvent(t[i]) BY <1>2, NewEventsAre
    <3>2. PICK u : u = SubSeq(t, 1, n) OBVIOUS
    <3>3. IsSeq(u) /\ Len(u) = n /\ \A i \in 1..n : u[i] = t[i] BY <3>1, <3>2, Begun
    <3>4. \A i \in 1..n : i \in 1..Len(t) BY <3>1 DEF IsSeq
    <3>5. \A i \in 1..Len(u) : NewEvent(u[i]) BY <3>1, <3>3, <3>4
    <3>6. IsLonger(u) BY <1>2, <2>2, <3>2, <3>3, <3>5, Longer
    <3> QED BY <1>1, <1>2, <1>3, <1>4, <1>5, <3>3, <3>6, EndedRun
  <2> QED BY <2>1, <2>2 DEF ShadowKilled, shadowFiles
<1>7. GoneSoFar' BY <1>3 DEF GoneSoFar
<1> QED BY <1>1, <1>6, <1>7, StoreStays DEF MemoryInv

\* A snapshot is stored, or one that is there already is answered.
LEMMA StoreSnapshotKeeps == MemoryInv /\ StoreSnapshot => MemoryInv'
<1> SUFFICES ASSUME MemoryInv, StoreSnapshot PROVE MemoryInv' OBVIOUS
<1>1. PICK id, hash : Store(id, hash) BY DEF StoreSnapshot
<1>2. UNCHANGED <<shadowFiles, shadow, cuts>> BY DEF StoreSnapshot
<1>3. /\ memory' = memory /\ remembers' = remembers /\ lifecycle' = lifecycle /\ readable' = readable
      /\ shadow' = shadow /\ cuts' = cuts
  BY <1>2 DEF shadowFiles
<1>4. MemoryTypes /\ StoredOnce BY DEF MemoryInv
<1>5. PICK n \in Nat : n = Len(store) BY <1>4 DEF MemoryTypes, IsSeq
<1>6. DOMAIN store = 1..n BY <1>4, <1>5 DEF MemoryTypes, IsSeq
<1>7. IsSeq(store') /\ StoredOnce' /\ AgainIsTheSame'
  <2>1. CASE IsStored(id, hash)
    <3>1. /\ store' = store
          /\ answer' = [status |-> "DUPLICATE", id |-> id, previous |-> PreviousOfDuplicate(id)]
      BY <1>1, <2>1 DEF Store
    <3>2. answer'.previous = IF Len(store') > 1 THEN store'[Len(store') - 1].id ELSE 0
      BY <3>1 DEF PreviousOfDuplicate
    <3> QED BY <1>4, <3>1, <3>2 DEF MemoryTypes, StoredOnce, AgainIsTheSame
  <2>2. CASE ~IsStored(id, hash)
    <3>1. /\ answer' = [status |-> "APPENDED", id |-> id,
                        previous |-> IF store = <<>> THEN 0 ELSE store[Len(store)].id]
          /\ store' = Append(store, [id |-> id, hash |-> hash])
      BY <1>1, <2>2 DEF Store
    <3>2. PICK one : one = [id |-> id, hash |-> hash] OBVIOUS
    <3>3. PICK more : more = Append(store, one) OBVIOUS
    <3>4. IsSeq(more) /\ Len(more) = n + 1 /\ more[n + 1] = one /\ \A i \in 1..n : more[i] = store[i]
      BY <1>4, <1>5, <3>3, Appended DEF MemoryTypes
    <3>5. DOMAIN more = 1..n + 1 BY <3>4 DEF IsSeq
    <3>6. \A i \in 1..n : store[i].id # id BY <1>6, <2>2 DEF IsStored, StoredAt
    <3>7. \A i, j \in 1..n + 1 : more[i].id = more[j].id => i = j
      <4>1. \A i \in 1..n + 1 : i \in 1..n \/ i = n + 1 OBVIOUS
      <4>2. one.id = id BY <3>2
      <4>3. \A i, j \in 1..n : store[i].id = store[j].id => i = j BY <1>4, <1>6 DEF StoredOnce
      <4> QED BY <3>4, <3>6, <4>1, <4>2, <4>3
    <3>8. StoredOnce' BY <3>1, <3>2, <3>3, <3>5, <3>7 DEF StoredOnce
    <3>9. answer'.previous = IF Len(more) > 1 THEN more[Len(more) - 1].id ELSE 0
      <4>1. CASE n = 0
        <5>1. store = <<>> BY <1>4, <1>5, <4>1 DEF MemoryTypes, IsSeq
        <5> QED BY <3>1, <3>4, <4>1, <5>1
      <4>2. CASE n > 0
        <5>1. store # <<>> BY <1>5, <4>2
        <5>2. more[n] = store[n] /\ Len(more) - 1 = n /\ Len(more) > 1 BY <3>4, <4>2
        <5> QED BY <1>5, <3>1, <5>1, <5>2
      <4> QED BY <4>1, <4>2
    <3>10. AgainIsTheSame' BY <3>1, <3>2, <3>3, <3>9 DEF AgainIsTheSame
    <3> QED BY <3>1, <3>2, <3>3, <3>4, <3>8, <3>10
  <2> QED BY <2>1, <2>2
<1>8. MemoryTypes' BY <1>3, <1>4, <1>7 DEF MemoryTypes
<1>9. GoneSoFar' BY <1>3, LogStays DEF MemoryInv, GoneSoFar
<1> QED BY <1>3, <1>7, <1>8, <1>9, LogStays DEF MemoryInv

\* Every step keeps what the files of the shadow are.
THEOREM MemoryStep == MemoryInv /\ [MemoryNext]_memoryVars => MemoryInv'
<1> SUFFICES ASSUME MemoryInv, [MemoryNext]_memoryVars PROVE MemoryInv' OBVIOUS
<1>1. CASE UNCHANGED memoryVars
  <2>1. /\ memory' = memory /\ remembers' = remembers /\ lifecycle' = lifecycle /\ readable' = readable
        /\ shadow' = shadow /\ cuts' = cuts /\ UNCHANGED storeVars /\ store' = store
    BY <1>1 DEF memoryVars, storeVars
  <2>2. MemoryTypes' BY <2>1 DEF MemoryInv, MemoryTypes
  <2>3. GoneSoFar' BY <2>1, LogStays DEF MemoryInv, GoneSoFar
  <2> QED BY <2>1, <2>2, <2>3, LogStays, StoreStays DEF MemoryInv
<1> QED BY <1>1, ShadowBeginsKeeps, UpdateMemoryKeeps, AppendEventsKeeps, ShadowRaisesKeeps, ShadowKilledKeeps,
           StoreSnapshotKeeps
        DEF MemoryNext

\* The memory of the cases and the log of their events go together in every behaviour of the
\* shadows, whatever is repeated or killed (case_memory_shadow.py, case_lifecycle_shadow.py,
\* historical_snapshot.py).
THEOREM MemoryInvariance == MemorySpec => []MemoryInv
BY MemoryStart, MemoryStep, PTL DEF MemorySpec

\* The memory and the lifecycle agree on who is gone.
LEMMA GoneIsGone == MemoryInv => GoneInBoth
BY DEF MemoryInv, GoneSoFar, GoneInBoth

-------------------------------------------------------------------------------
\* A read report, as it was read, is in a readable file of its date; or the file of its
\* digest is there and was cut off.
Kept(seen) ==
  LET digest == <<seen.file, seen.report>>
  IN \/ \E n \in Readable : versions[n] = [date |-> seen.report.date, text |-> seen.report.text, digest |-> digest]
     \/ DigestName(seen.report.date, digest) \in DOMAIN versions \ Readable

IsReading(list) ==
  IsSeq(list) /\ \A i \in 1..Len(list) : list[i].file \in Sources /\ list[i].report \in EveningReports

\* What is left is the end of what was read.
IsEnd(left, list) ==
  /\ IsSeq(left) /\ Len(left) <= Len(list)
  /\ \A n \in 1..Len(left) : left[n] = list[Len(list) - Len(left) + n]

UnderWay == manager.at \in {"next", "write", "compare"}

VersionsTypes ==
  /\ latest = [f \in Sources |-> latest[f]] /\ \A f \in Sources : latest[f] \in EveningReports \union {CutOff}
  /\ DOMAIN manager = {"at", "read", "left", "name", "runs"}
  /\ manager.at \in {"idle", "second", "next", "write", "compare"}
  /\ moved \in BOOLEAN
  /\ IsReading(manager.read)
  /\ UnderWay => IsEnd(manager.left, manager.read)
  /\ manager.at = "compare" => manager.left = <<>>

\* What the files hold; as long as no report moved, of the very report in the digest.
FilesAreTrue ==
  \A n \in Readable :
    /\ versions[n].date = n[1] /\ versions[n].date \in 1..MaxDates
    /\ Len(n) = 2 => versions[n].digest = n[2]
    /\ \E f : ~moved =>
         versions[n] = [date |-> versions[n].date, text |-> versions[n].text,
                        digest |-> <<f, [date |-> versions[n].date, text |-> versions[n].text]>>]

\* The file that is open has been cut off and gets the report that is due.
OpenFile ==
  manager.at = "write" =>
    /\ manager.left # <<>> /\ Candidate.report.date # 0
    /\ manager.name[1] \in {FirstName(Candidate.report.date), DigestName(Candidate.report.date, manager.name[2])}
    /\ manager.name[1] \in DOMAIN versions /\ versions[manager.name[1]] = CutSnapshot
    /\ ~moved => manager.name[2] = <<Candidate.file, Candidate.report>>

\* The reports that were gone through.
Progress ==
  UnderWay /\ ~moved =>
    \A i \in 1..Len(manager.read) :
      i <= Len(manager.read) - Len(manager.left) /\ manager.read[i].report.date # 0 => Kept(manager.read[i])

\* The comparison that is open is of the last two dates.
OpenComparison ==
  manager.at = "compare" =>
    /\ LastDates[1] < LastDates[2]
    /\ \A i \in 1..2 : manager.name[i].date = LastDates[i] /\ manager.name[i] \in {versions[n] : n \in Readable}

VersionsInv == VersionsTypes /\ FilesAreTrue /\ OpenFile /\ Progress /\ OpenComparison /\ ComparedAreKept

-------------------------------------------------------------------------------
\* A file more, or one written again.
LEMMA Put ==
  ASSUME NEW files, NEW name, NEW content
  PROVE  /\ DOMAIN WithFile(files, name, content) = DOMAIN files \union {name}
         /\ WithFile(files, name, content)[name] = content
         /\ \A n \in DOMAIN files : n # name => WithFile(files, name, content)[n] = files[n]
<1>1. PICK g : g = [n \in DOMAIN files \union {name} |-> IF n = name THEN content ELSE files[n]] OBVIOUS
<1>2. WithFile(files, name, content) = g BY <1>1 DEF WithFile
<1>3. DOMAIN g = DOMAIN files \union {name} /\ g[name] = content BY <1>1
<1>4. \A n \in DOMAIN files : n # name => g[n] = files[n] BY <1>1
<1> QED BY <1>2, <1>3, <1>4

\* What Readable depends on.
LEMMA ReadableStays ==
  UNCHANGED versions => /\ Readable' = Readable /\ DatesKept' = DatesKept /\ LastDates' = LastDates
                        /\ \A seen : Kept(seen)' = Kept(seen)
<1> SUFFICES ASSUME UNCHANGED versions
             PROVE  /\ Readable' = Readable /\ DatesKept' = DatesKept /\ LastDates' = LastDates
                    /\ \A seen : Kept(seen)' = Kept(seen)
  OBVIOUS
<1>1. Readable' = Readable BY DEF Readable
<1>2. DatesKept' = DatesKept BY <1>1 DEF DatesKept
<1>3. LastDates' = LastDates BY <1>2 DEF LastDates
<1>4. \A seen : Kept(seen)' = Kept(seen) BY <1>1 DEF Kept
<1> QED BY <1>1, <1>2, <1>3, <1>4

\* As long as no file is written, the parts about files stand.
LEMMA FilesStay ==
  ASSUME VersionsInv, UNCHANGED <<versions, comparisons>>, moved => moved', moved' \in BOOLEAN
  PROVE  FilesAreTrue' /\ ComparedAreKept'
<1>1. Readable' = Readable /\ versions' = versions /\ comparisons' = comparisons BY ReadableStays
<1>2. FilesAreTrue' BY <1>1 DEF VersionsInv, FilesAreTrue
<1>3. ComparedAreKept' BY <1>1 DEF VersionsInv, ComparedAreKept
<1> QED BY <1>2, <1>3

\* A report that can be read is one more of those that were.
LEMMA WithOneMore ==
  ASSUME VersionsTypes, NEW list, IsReading(list), NEW f \in Sources
  PROVE  IsReading(WithCandidate(list, f))
<1>1. CASE latest[f] = CutOff BY <1>1 DEF WithCandidate
<1>2. CASE latest[f] # CutOff
  <2>1. PICK one : one = [file |-> f, report |-> latest[f]] OBVIOUS
  <2>2. one.file \in Sources /\ one.report \in EveningReports BY <1>2, <2>1 DEF VersionsTypes
  <2>3. PICK more : more = Append(list, one) OBVIOUS
  <2>4. PICK n \in Nat : n = Len(list) BY DEF IsReading, IsSeq
  <2>5. IsSeq(more) /\ Len(more) = n + 1 /\ more[n + 1] = one /\ \A i \in 1..n : more[i] = list[i]
    BY <2>3, <2>4, Appended DEF IsReading
  <2>6. \A i \in 1..n + 1 : more[i].file \in Sources /\ more[i].report \in EveningReports
    <3> TAKE i \in 1..n + 1
    <3>1. CASE i \in 1..n BY <2>4, <2>5, <3>1 DEF IsReading
    <3>2. CASE i = n + 1 BY <2>2, <2>5, <3>2
    <3> QED BY <3>1, <3>2
  <2>7. IsReading(more) BY <2>5, <2>6 DEF IsReading
  <2> QED BY <1>2, <2>1, <2>3, <2>7 DEF WithCandidate
<1> QED BY <1>1, <1>2

\* The report that is due was read, and the ones before it were gone through.
LEMMA CandidateIs ==
  ASSUME VersionsInv, UnderWay, manager.left # <<>>
  PROVE  /\ Candidate \in {manager.read[i] : i \in 1..Len(manager.read)}
         /\ Candidate.file \in Sources /\ Candidate.report \in EveningReports
         /\ IsEnd(Tail(manager.left), manager.read)
         /\ \A i \in 1..Len(manager.read) :
              i <= Len(manager.read) - Len(Tail(manager.left)) =>
                i <= Len(manager.read) - Len(manager.left) \/ manager.read[i] = Candidate
<1>1. IsSeq(manager.left) /\ IsReading(manager.read) /\ IsEnd(manager.left, manager.read)
  BY DEF VersionsInv, VersionsTypes, IsEnd
<1>2. PICK list, left : list = manager.read /\ left = manager.left OBVIOUS
<1>3. PICK m \in Nat, n \in Nat : m = Len(list) /\ n = Len(left) BY <1>1, <1>2 DEF IsReading, IsSeq
<1>4. PICK rest : rest = Tail(left) OBVIOUS
<1>5. IsSeq(rest) /\ Len(rest) = n - 1 /\ n >= 1 /\ Head(left) = left[1] /\ \A k \in 1..n - 1 : rest[k] = left[k + 1]
  BY <1>1, <1>2, <1>3, <1>4, Tailed
<1>6. n <= m /\ \A k \in 1..n : left[k] = list[m - n + k] BY <1>1, <1>2, <1>3 DEF IsEnd
<1>7. Candidate = list[m - n + 1] /\ m - n + 1 \in 1..m
  <2>1. 1 \in 1..n /\ m - n + 1 \in 1..m BY <1>5, <1>6
  <2> QED BY <1>2, <1>5, <1>6, <2>1 DEF Candidate
<1>8. IsEnd(rest, list)
  <2>1. \A k \in 1..n - 1 : rest[k] = list[m - (n - 1) + k]
    <3> TAKE k \in 1..n - 1
    <3>1. k + 1 \in 1..n /\ m - n + (k + 1) = m - (n - 1) + k OBVIOUS
    <3> QED BY <1>5, <1>6, <3>1
  <2>2. n - 1 <= m BY <1>6
  <2> QED BY <1>3, <1>5, <2>1, <2>2 DEF IsEnd
<1>9. \A i \in 1..m : i <= m - (n - 1) => i <= m - n \/ i = m - n + 1 OBVIOUS
<1>10. Candidate.file \in Sources /\ Candidate.report \in EveningReports BY <1>1, <1>2, <1>3, <1>7 DEF IsReading
<1> QED BY <1>2, <1>3, <1>4, <1>5, <1>7, <1>8, <1>9, <1>10

\* The last two dates of the files are two.
LEMMA TwoLastDates ==
  ASSUME FilesAreTrue, Cardinality(DatesKept) > 1
  PROVE  LastDates[1] < LastDates[2] /\ LastDates[1] \in DatesKept /\ LastDates[2] \in DatesKept
<1>1. PICK D : D = DatesKept OBVIOUS
<1>2. D \subseteq 1..MaxDates BY <1>1 DEF DatesKept, FilesAreTrue
<1>3. MaxDates \in Nat BY VersionsAssumption
<1>4. D \in SUBSET Nat /\ \A y \in D : y <= MaxDates BY <1>2, <1>3
<1>5. D # {} BY <1>1, FS_EmptySet
<1>6. Max(D) \in D /\ \A y \in D : Max(D) >= y BY <1>3, <1>4, <1>5, MaxIsLargest
<1>7. PICK x \in Nat : x = Max(D) BY <1>4, <1>6
<1>8. PICK E : E = D \ {x} OBVIOUS
<1>9. E # {}
  <2>1. SUFFICES ASSUME E = {} PROVE FALSE OBVIOUS
  <2>2. D = {x} BY <1>6, <1>7, <1>8, <2>1
  <2> QED BY <1>1, <2>2, FS_Singleton
<1>10. E \in SUBSET Nat /\ \A y \in E : y <= MaxDates BY <1>4, <1>8
<1>11. Max(E) \in E BY <1>3, <1>9, <1>10, MaxIsLargest
<1>12. Max(E) \in D /\ Max(E) \in Nat /\ Max(E) # x /\ x >= Max(E) BY <1>4, <1>6, <1>7, <1>8, <1>11
<1>13. LastDates = <<Max(E), x>> BY <1>1, <1>7, <1>8 DEF LastDates
<1> QED BY <1>1, <1>6, <1>7, <1>12, <1>13

-------------------------------------------------------------------------------
\* At first there is no file.
THEOREM VersionsStart == VersionsInit => VersionsInv
<1> SUFFICES ASSUME VersionsInit PROVE VersionsInv OBVIOUS
<1>1. /\ latest = [f \in Sources |-> CutOff] /\ versions = <<>> /\ comparisons = <<>>
      /\ manager = [at |-> "idle", read |-> <<>>, left |-> <<>>, name |-> <<>>, runs |-> 0] /\ moved = FALSE
  BY DEF VersionsInit, ManagerIdle
<1>2. DOMAIN <<>> = {} /\ IsSeq(<<>>) /\ Len(<<>>) = 0 BY DEF IsSeq
<1>3. VersionsTypes
  <2>1. latest = [f \in Sources |-> latest[f]] /\ \A f \in Sources : latest[f] = CutOff BY <1>1
  <2>2. /\ DOMAIN manager = {"at", "read", "left", "name", "runs"} /\ manager.at = "idle" /\ manager.read = <<>>
        /\ moved \in BOOLEAN
    BY <1>1
  <2>3. IsReading(<<>>) BY <1>2 DEF IsReading
  <2> QED BY <2>1, <2>2, <2>3 DEF VersionsTypes, UnderWay
<1>4. Readable = {} BY <1>1, <1>2 DEF Readable
<1>5. FilesAreTrue BY <1>4 DEF FilesAreTrue
<1>6. OpenFile /\ Progress /\ OpenComparison BY <1>1 DEF OpenFile, Progress, OpenComparison, UnderWay
<1>7. ComparedAreKept BY <1>1, <1>2 DEF ComparedAreKept
<1> QED BY <1>3, <1>5, <1>6, <1>7 DEF VersionsInv

\* A report is rewritten, whatever the manager is doing.
LEMMA RewrittenKeeps == VersionsInv /\ Rewritten => VersionsInv'
<1> SUFFICES ASSUME VersionsInv, Rewritten PROVE VersionsInv' OBVIOUS
<1>1. PICK f \in Sources, r \in EveningReports \cup {CutOff} : latest' = [latest EXCEPT ![f] = r] BY DEF Rewritten
<1>2. /\ versions' = versions /\ comparisons' = comparisons /\ manager' = manager /\ moved' = moved
  BY DEF Rewritten
<1>3. latest' = [g \in Sources |-> latest'[g]] /\ \A g \in Sources : latest'[g] \in EveningReports \union {CutOff}
  <2>1. latest = [g \in Sources |-> latest[g]] BY DEF VersionsInv, VersionsTypes
  <2>2. latest' = [g \in Sources |-> IF g = f THEN r ELSE latest[g]] BY <1>1, <2>1
  <2>3. \A g \in Sources : latest'[g] = IF g = f THEN r ELSE latest[g] BY <2>2
  <2> QED BY <2>2, <2>3 DEF VersionsInv, VersionsTypes
<1>4. VersionsTypes' BY <1>2, <1>3 DEF VersionsInv, VersionsTypes, UnderWay
<1>5. moved \in BOOLEAN BY DEF VersionsInv, VersionsTypes
<1>6. FilesAreTrue' /\ ComparedAreKept' BY <1>2, <1>5, FilesStay
<1>7. OpenFile' BY <1>2 DEF VersionsInv, OpenFile, Candidate
<1>8. Progress' BY <1>2, ReadableStays DEF VersionsInv, Progress, UnderWay
<1>9. OpenComparison' BY <1>2, ReadableStays DEF VersionsInv, OpenComparison
<1> QED BY <1>4, <1>6, <1>7, <1>8, <1>9 DEF VersionsInv

\* The manager has nothing open and nothing gone through.
LEMMA FreshManager ==
  ASSUME VersionsInv, UNCHANGED <<latest, versions, comparisons, moved>>,
         DOMAIN manager' = {"at", "read", "left", "name", "runs"},
         manager'.at \in {"idle", "second"}, IsReading(manager'.read)
  PROVE  VersionsInv'
<1>1. VersionsTypes' BY DEF VersionsInv, VersionsTypes, UnderWay
<1>2. moved \in BOOLEAN BY DEF VersionsInv, VersionsTypes
<1>3. FilesAreTrue' /\ ComparedAreKept' BY <1>2, FilesStay
<1>4. OpenFile' /\ Progress' /\ OpenComparison' BY DEF OpenFile, Progress, OpenComparison, UnderWay
<1> QED BY <1>1, <1>3, <1>4 DEF VersionsInv

\* ... or it is gone.
LEMMA IdleManager ==
  ASSUME VersionsInv, UNCHANGED <<latest, versions, comparisons, moved>>, NEW x, manager' = ManagerIdle(x)
  PROVE  VersionsInv'
<1>1. IsReading(<<>>)
  <2>1. IsSeq(<<>>) /\ Len(<<>>) = 0 BY DEF IsSeq
  <2> QED BY <2>1 DEF IsReading
<1>2. /\ DOMAIN manager' = {"at", "read", "left", "name", "runs"} /\ manager'.at = "idle" /\ manager'.read = <<>>
  BY DEF ManagerIdle
<1> QED BY <1>1, <1>2, FreshManager

\* The first report is read.
LEMMA BeginsKeeps == VersionsInv /\ ManagerBegins => VersionsInv'
<1> SUFFICES ASSUME VersionsInv, ManagerBegins PROVE VersionsInv' OBVIOUS
<1>1. PICK list : list = WithCandidate(<<>>, "plain") OBVIOUS
<1>2. IsReading(list)
  <2>1. IsSeq(<<>>) /\ Len(<<>>) = 0 BY DEF IsSeq
  <2>2. IsReading(<<>>) BY <2>1 DEF IsReading
  <2>3. "plain" \in Sources BY DEF Sources
  <2> QED BY <1>1, <2>2, <2>3, WithOneMore DEF VersionsInv
<1>3. manager' = [ManagerIdle(manager.runs + 1) EXCEPT !.at = "second", !.read = list]
  BY <1>1 DEF ManagerBegins, ManagerIsAt
<1>4. /\ DOMAIN manager' = {"at", "read", "left", "name", "runs"} /\ manager'.at = "second" /\ manager'.read = list
  BY <1>3 DEF ManagerIdle
<1>5. UNCHANGED <<latest, versions, comparisons, moved>> BY DEF ManagerBegins, WritesNothing
<1> QED BY <1>2, <1>4, <1>5, FreshManager

\* The second report is read: all is left.
LEMMA SecondKeeps == VersionsInv /\ ReadsSecond => VersionsInv'
<1> SUFFICES ASSUME VersionsInv, ReadsSecond PROVE VersionsInv' OBVIOUS
<1>1. PICK list : list = WithCandidate(manager.read, "whole") OBVIOUS
<1>2. IsReading(list)
  <2>1. VersionsTypes BY DEF VersionsInv
  <2>2. IsReading(manager.read) BY <2>1 DEF VersionsTypes
  <2>3. "whole" \in Sources BY DEF Sources
  <2> QED BY <1>1, <2>1, <2>2, <2>3, WithOneMore
<1>3. manager' = [manager EXCEPT !.at = "next", !.read = list, !.left = list]
  BY <1>1 DEF ReadsSecond, ManagerIsAt
<1>4. /\ DOMAIN manager' = {"at", "read", "left", "name", "runs"} /\ manager'.at = "next"
      /\ manager'.read = list /\ manager'.left = list
  BY <1>3 DEF VersionsInv, VersionsTypes
<1>5. latest' = latest /\ versions' = versions /\ comparisons' = comparisons /\ moved' = moved
  BY DEF ReadsSecond, WritesNothing
<1>6. PICK m \in Nat : m = Len(list) BY <1>2 DEF IsReading, IsSeq
<1>7. IsEnd(list, list)
  <2>1. \A n \in 1..m : m - m + n = n OBVIOUS
  <2> QED BY <1>2, <1>6, <2>1 DEF IsEnd, IsReading
<1>8. VersionsTypes' BY <1>2, <1>4, <1>5, <1>7 DEF VersionsInv, VersionsTypes
<1>9. moved \in BOOLEAN BY DEF VersionsInv, VersionsTypes
<1>10. FilesAreTrue' /\ ComparedAreKept' BY <1>5, <1>9, FilesStay
<1>11. OpenFile' /\ OpenComparison' BY <1>4 DEF OpenFile, OpenComparison
<1>12. Progress'
  <2>1. \A i \in 1..m : ~(i <= m - m) OBVIOUS
  <2> QED BY <1>4, <1>6, <2>1 DEF Progress
<1> QED BY <1>8, <1>10, <1>11, <1>12 DEF VersionsInv

\* A report is done with when it has no date, or is kept, or one has moved; the open file is
\* closed by then.
LEMMA DoneKeeps ==
  ASSUME VersionsInv, UnderWay, manager.left # <<>>, manager' = CandidateDone, latest' = latest,
         NEW c, c = Candidate,
         moved => moved', moved' \in BOOLEAN, FilesAreTrue', ComparedAreKept',
         ~moved' => /\ \A seen : Kept(seen) => Kept(seen)'
                    /\ c.report.date # 0 => Kept(c)'
  PROVE  VersionsInv'
<1>1. /\ DOMAIN manager' = {"at", "read", "left", "name", "runs"} /\ manager'.at = "next"
      /\ manager'.read = manager.read /\ manager'.left = Tail(manager.left)
  BY DEF CandidateDone, VersionsInv, VersionsTypes
<1>2. PICK rest : rest = Tail(manager.left) OBVIOUS
<1>3. IsEnd(rest, manager.read) BY <1>2, CandidateIs
<1>4. VersionsTypes' BY <1>1, <1>2, <1>3 DEF VersionsInv, VersionsTypes
<1>5. OpenFile' /\ OpenComparison' BY <1>1 DEF OpenFile, OpenComparison
<1>6. Progress'
  <2> SUFFICES ASSUME ~moved', NEW i \in 1..Len(manager.read),
                      i <= Len(manager.read) - Len(rest), manager.read[i].report.date # 0
               PROVE  Kept(manager.read[i])'
    BY <1>1, <1>2 DEF Progress
  <2>1. i <= Len(manager.read) - Len(manager.left) \/ manager.read[i] = Candidate BY <1>2, CandidateIs
  <2>2. CASE i <= Len(manager.read) - Len(manager.left)
    <3>1. Kept(manager.read[i]) BY <2>2 DEF VersionsInv, Progress
    <3> QED BY <1>1, <3>1
  <2>3. CASE manager.read[i] = Candidate
    <3>1. Kept(c)' BY <2>3
    <3> QED BY <1>1, <2>3, <3>1
  <2> QED BY <2>1, <2>2, <2>3
<1> QED BY <1>4, <1>5, <1>6 DEF VersionsInv

\* A report without a date is no candidate for long.
LEMMA RejectsKeeps == VersionsInv /\ RejectsCandidate => VersionsInv'
<1> SUFFICES ASSUME VersionsInv, RejectsCandidate PROVE VersionsInv' OBVIOUS
<1>1. UnderWay /\ manager.left # <<>> /\ Candidate.report.date = 0 /\ manager' = CandidateDone
  BY DEF RejectsCandidate, NextIsReady, UnderWay
<1>2. latest' = latest /\ versions' = versions /\ comparisons' = comparisons /\ moved' = moved
  BY DEF RejectsCandidate, WritesNothing
<1>3. moved \in BOOLEAN BY DEF VersionsInv, VersionsTypes
<1>4. FilesAreTrue' /\ ComparedAreKept' BY <1>2, <1>3, FilesStay
<1>5. \A seen : Kept(seen)' = Kept(seen) BY <1>2, ReadableStays
<1>6. PICK c : c = Candidate OBVIOUS
<1> QED BY <1>1, <1>2, <1>3, <1>4, <1>5, <1>6, DoneKeeps

\* A report is kept already, or its file is opened.
LEMMA KeepsKeeps == VersionsInv /\ KeepsCandidate => VersionsInv'
<1> SUFFICES ASSUME VersionsInv, KeepsCandidate PROVE VersionsInv' OBVIOUS
<1>1. PICK c : c = Candidate OBVIOUS
<1>2. PICK date : date = c.report.date OBVIOUS
<1>3. PICK digest : digest = Digest OBVIOUS
<1>4. PICK target : target = TargetFor(date) OBVIOUS
<1>5. /\ manager.at = "next" /\ UnderWay /\ manager.left # <<>> /\ date # 0
      /\ latest' = latest /\ comparisons' = comparisons
  BY <1>1, <1>2 DEF KeepsCandidate, NextIsReady, UnderWay
<1>6. \/ /\ AlreadyFirst(date) \/ target \in DOMAIN versions
         /\ manager' = CandidateDone /\ UNCHANGED versions
      \/ /\ ~AlreadyFirst(date) /\ target \notin DOMAIN versions
         /\ manager' = [manager EXCEPT !.at = "write", !.name = <<target, digest>>]
         /\ versions' = WithFile(versions, target, CutSnapshot)
  BY <1>1, <1>2, <1>3, <1>4 DEF KeepsCandidate
<1>7. moved' = (moved \/ latest[c.file] # c.report) /\ moved \in BOOLEAN
  BY <1>1 DEF KeepsCandidate, VersionsInv, VersionsTypes
<1>8. moved' \in BOOLEAN /\ (moved => moved') BY <1>7
<1>9. ~moved' => ~moved /\ digest = <<c.file, c.report>> BY <1>1, <1>3, <1>7 DEF Digest
<1>10. c.file \in Sources /\ c.report \in EveningReports BY <1>1, <1>5, CandidateIs
<1>11. CASE (AlreadyFirst(date) \/ target \in DOMAIN versions) /\ manager' = CandidateDone /\ UNCHANGED versions
  <2>1. FilesAreTrue' /\ ComparedAreKept' BY <1>5, <1>8, <1>11, FilesStay
  <2>2. \A seen : Kept(seen)' = Kept(seen) BY <1>11, ReadableStays
  <2>3. ASSUME ~moved' PROVE Kept(c)
    <3>1. digest = <<c.file, c.report>> /\ ~moved BY <1>9, <2>3
    <3>2. c.report = [date |-> date, text |-> c.report.text] BY <1>2, <1>10 DEF EveningReports
    <3>3. ASSUME NEW n \in Readable, versions[n].digest = digest, versions[n].date = date PROVE Kept(c)
      <4>1. PICK f : versions[n] = [date |-> versions[n].date, text |-> versions[n].text,
                                    digest |-> <<f, [date |-> versions[n].date, text |-> versions[n].text]>>]
        BY <3>1 DEF VersionsInv, FilesAreTrue
      <4>2. PICK words : words = versions[n].text OBVIOUS
      <4>3. versions[n] = [date |-> date, text |-> words, digest |-> <<f, [date |-> date, text |-> words]>>]
        BY <3>3, <4>1, <4>2
      <4>4. versions[n].digest = <<f, [date |-> date, text |-> words]>> BY <4>3
      <4>5. <<f, [date |-> date, text |-> words]>> = <<c.file, c.report>> BY <3>1, <3>3, <4>4
      <4>6. f = c.file /\ [date |-> date, text |-> words] = c.report BY <4>5
      <4>7. words = c.report.text BY <4>6
      <4>8. versions[n] = [date |-> c.report.date, text |-> c.report.text, digest |-> <<c.file, c.report>>]
        BY <1>2, <4>3, <4>6, <4>7
      <4> QED BY <4>8 DEF Kept
    <3>4. digest # <<>> BY <3>1
    <3>5. CASE AlreadyFirst(date)
      <4>1. <<date>> \in DOMAIN versions /\ versions[<<date>>].digest = digest
        BY <1>3, <3>5 DEF AlreadyFirst, FirstName
      <4>2. PICK n : n = <<date>> OBVIOUS
      <4>3. CutSnapshot.digest = <<>> BY DEF CutSnapshot
      <4>4. n \in Readable BY <3>4, <4>1, <4>2, <4>3 DEF Readable
      <4>5. versions[n].date = n[1] BY <4>4 DEF VersionsInv, FilesAreTrue
      <4>6. versions[n].date = date BY <4>2, <4>5
      <4> QED BY <3>3, <4>1, <4>2, <4>4, <4>6
    <3>6. CASE target \in DOMAIN versions
      <4>1. target = <<date, digest>>
        <5>1. FirstName(date) \in DOMAIN versions BY <1>4, <3>6 DEF TargetFor
        <5> QED BY <1>3, <1>4, <5>1 DEF TargetFor, DigestName
      <4>2. CASE target \in Readable
        <5>1. /\ versions[target].date = target[1]
              /\ Len(target) = 2 => versions[target].digest = target[2]
          BY <4>2 DEF VersionsInv, FilesAreTrue
        <5>2. target[1] = date /\ target[2] = digest /\ Len(target) = 2 BY <4>1
        <5> QED BY <3>3, <4>2, <5>1, <5>2
      <4>3. CASE target \notin Readable
        <5>1. DigestName(c.report.date, <<c.file, c.report>>) = target BY <1>2, <3>1, <4>1 DEF DigestName
        <5> QED BY <3>6, <4>3, <5>1 DEF Kept
      <4> QED BY <4>2, <4>3
    <3> QED BY <1>11, <3>5, <3>6
  <2>4. ~moved' => /\ \A seen : Kept(seen) => Kept(seen)'
                   /\ c.report.date # 0 => Kept(c)'
    BY <2>2, <2>3
  <2> QED BY <1>1, <1>5, <1>8, <1>11, <2>1, <2>4, DoneKeeps
<1>12. CASE /\ target \notin DOMAIN versions
            /\ manager' = [manager EXCEPT !.at = "write", !.name = <<target, digest>>]
            /\ versions' = WithFile(versions, target, CutSnapshot)
  <2>1. /\ DOMAIN versions' = DOMAIN versions \union {target} /\ versions'[target] = CutSnapshot
        /\ \A n \in DOMAIN versions : versions'[n] = versions[n]
    BY <1>12, Put
  <2>2. Readable' = Readable /\ \A n \in Readable : versions'[n] = versions[n] BY <1>12, <2>1 DEF Readable
  <2>3. /\ DOMAIN manager' = {"at", "read", "left", "name", "runs"} /\ manager'.at = "write"
        /\ manager'.read = manager.read /\ manager'.left = manager.left /\ manager'.name = <<target, digest>>
    BY <1>12 DEF VersionsInv, VersionsTypes
  <2>4. VersionsTypes' BY <1>5, <1>8, <2>3 DEF VersionsInv, VersionsTypes, UnderWay
  <2>5. FilesAreTrue'
    <3>1. FilesAreTrue BY DEF VersionsInv
    <3>2. ASSUME NEW n \in Readable
          PROVE  /\ versions'[n].date = n[1] /\ versions'[n].date \in 1..MaxDates
                 /\ Len(n) = 2 => versions'[n].digest = n[2]
                 /\ \E f : ~moved' =>
                      versions'[n] = [date |-> versions'[n].date, text |-> versions'[n].text,
                                      digest |-> <<f, [date |-> versions'[n].date, text |-> versions'[n].text]>>]
      <4>1. PICK v : v = versions[n] /\ v = versions'[n] BY <2>2
      <4>2. /\ v.date = n[1] /\ v.date \in 1..MaxDates
            /\ Len(n) = 2 => v.digest = n[2]
            /\ \E f : ~moved => v = [date |-> v.date, text |-> v.text,
                                    digest |-> <<f, [date |-> v.date, text |-> v.text]>>]
        BY <3>1, <4>1 DEF FilesAreTrue
      <4>3. PICK f : ~moved => v = [date |-> v.date, text |-> v.text,
                                    digest |-> <<f, [date |-> v.date, text |-> v.text]>>]
        BY <4>2
      <4>4. ~moved' => ~moved BY <1>9
      <4>5. ~moved' => v = [date |-> v.date, text |-> v.text, digest |-> <<f, [date |-> v.date, text |-> v.text]>>]
        BY <4>3, <4>4
      <4> QED BY <4>1, <4>2, <4>5
    <3> QED BY <2>2, <3>2 DEF FilesAreTrue
  <2>6. ComparedAreKept'
    <3>1. {versions'[n] : n \in Readable'} = {versions[n] : n \in Readable} BY <2>2
    <3> QED BY <1>5, <3>1 DEF VersionsInv, ComparedAreKept
  <2>7. OpenComparison' BY <2>3 DEF OpenComparison
  <2>8. OpenFile'
    <3>1. Candidate' = c BY <1>1, <2>3 DEF Candidate
    <3>2. target \in {FirstName(date), DigestName(date, digest)} BY <1>3, <1>4 DEF TargetFor
    <3>3. manager'.name[1] = target /\ manager'.name[2] = digest BY <2>3
    <3>4. manager'.left # <<>> /\ c.report.date # 0 BY <1>2, <1>5, <2>3
    <3>5. ~moved' => digest = <<c.file, c.report>> BY <1>9
    <3>6. target \in DOMAIN versions' /\ versions'[target] = CutSnapshot BY <2>1
    <3> QED BY <1>2, <3>1, <3>2, <3>3, <3>4, <3>5, <3>6 DEF OpenFile
  <2>9. ASSUME NEW seen, Kept(seen) PROVE Kept(seen)'
    <3>1. DOMAIN versions \ Readable \subseteq DOMAIN versions' \ Readable' BY <2>1, <2>2
    <3> QED BY <2>2, <2>9, <3>1 DEF Kept
  <2>10. Progress'
    <3> SUFFICES ASSUME ~moved', NEW i \in 1..Len(manager.read),
                        i <= Len(manager.read) - Len(manager.left), manager.read[i].report.date # 0
                 PROVE  Kept(manager.read[i])'
      BY <2>3 DEF Progress
    <3>1. PICK seen : seen = manager.read[i] OBVIOUS
    <3>2. Kept(seen) BY <1>5, <1>9, <3>1 DEF VersionsInv, Progress
    <3>3. Kept(seen)' BY <2>9, <3>2
    <3> QED BY <2>3, <3>1, <3>3
  <2> QED BY <2>4, <2>5, <2>6, <2>7, <2>8, <2>10 DEF VersionsInv
<1> QED BY <1>6, <1>11, <1>12

\* The open file is written.
LEMMA WritesKeeps == VersionsInv /\ WritesVersion => VersionsInv'
<1> SUFFICES ASSUME VersionsInv, WritesVersion PROVE VersionsInv' OBVIOUS
<1>1. PICK c : c = Candidate OBVIOUS
<1>2. PICK name, digest : name = manager.name[1] /\ digest = manager.name[2] OBVIOUS
<1>3. PICK date, words : date = c.report.date /\ words = c.report.text OBVIOUS
<1>4. /\ manager.at = "write" /\ UnderWay /\ manager' = CandidateDone
      /\ latest' = latest /\ comparisons' = comparisons /\ moved' = moved
  BY DEF WritesVersion, ManagerIsAt, UnderWay
<1>5. /\ manager.left # <<>> /\ date # 0 /\ name \in {FirstName(date), DigestName(date, digest)}
      /\ name \in DOMAIN versions /\ versions[name] = CutSnapshot
      /\ ~moved => digest = <<c.file, c.report>>
  BY <1>1, <1>2, <1>3, <1>4 DEF VersionsInv, OpenFile
<1>6. PICK whole : whole = [date |-> date, text |-> words, digest |-> digest] OBVIOUS
<1>7. versions' = WithFile(versions, name, whole) BY <1>1, <1>2, <1>3, <1>6 DEF WritesVersion, KeptSnapshot
<1>8. /\ DOMAIN versions' = DOMAIN versions /\ versions'[name] = whole
      /\ \A n \in DOMAIN versions : n # name => versions'[n] = versions[n]
  <2>1. PICK before : before = versions OBVIOUS
  <2>2. PICK after : after = WithFile(before, name, whole) OBVIOUS
  <2>3. /\ DOMAIN after = DOMAIN before \union {name} /\ after[name] = whole
        /\ \A n \in DOMAIN before : n # name => after[n] = before[n]
    <3>1. WithFile(before, name, whole) =
            [n \in DOMAIN before \union {name} |-> IF n = name THEN whole ELSE before[n]]
      BY DEF WithFile
    <3>2. after = [n \in DOMAIN before \union {name} |-> IF n = name THEN whole ELSE before[n]] BY <2>2, <3>1
    <3> QED BY <3>2
  <2>4. name \in DOMAIN before BY <1>5, <2>1
  <2>5. DOMAIN after = DOMAIN before BY <2>3, <2>4
  <2> QED BY <1>7, <2>1, <2>2, <2>3, <2>5
<1>9. whole # CutSnapshot /\ whole.date = date /\ whole.digest = digest
  <2>1. CutSnapshot.date = 0 BY DEF CutSnapshot
  <2> QED BY <1>5, <1>6, <2>1
<1>10. /\ Readable' = Readable \union {name} /\ name \notin Readable
       /\ \A n \in Readable : versions'[n] = versions[n]
  BY <1>5, <1>8, <1>9 DEF Readable
<1>11. c.file \in Sources /\ c.report \in EveningReports BY <1>1, <1>4, <1>5, CandidateIs
<1>12. c.report = [date |-> date, text |-> words] /\ date \in 0..MaxDates BY <1>3, <1>11 DEF EveningReports
<1>13. name[1] = date /\ (Len(name) = 2 => name[2] = digest) BY <1>5 DEF FirstName, DigestName
<1>14. FilesAreTrue'
  <2>1. date \in 1..MaxDates BY <1>5, <1>12, VersionsAssumption
  <2>2. \E f : ~moved => whole = [date |-> whole.date, text |-> whole.text,
                                  digest |-> <<f, [date |-> whole.date, text |-> whole.text]>>]
    <3>1. whole.text = words BY <1>6
    <3>2. ~moved => whole = [date |-> date, text |-> words, digest |-> <<c.file, [date |-> date, text |-> words]>>]
      BY <1>5, <1>6, <1>12
    <3> QED BY <1>9, <3>1, <3>2
  <2>3. ASSUME NEW n \in Readable'
        PROVE  /\ versions'[n].date = n[1] /\ versions'[n].date \in 1..MaxDates
               /\ Len(n) = 2 => versions'[n].digest = n[2]
               /\ \E f : ~moved' =>
                    versions'[n] = [date |-> versions'[n].date, text |-> versions'[n].text,
                                    digest |-> <<f, [date |-> versions'[n].date, text |-> versions'[n].text]>>]
    <3>1. CASE n = name BY <1>4, <1>8, <1>9, <1>13, <2>1, <2>2, <3>1
    <3>2. CASE n \in Readable BY <1>4, <1>10, <3>2 DEF VersionsInv, FilesAreTrue
    <3> QED BY <1>10, <3>1, <3>2
  <2> QED BY <2>3 DEF FilesAreTrue
<1>15. ComparedAreKept'
  <2>1. {versions[n] : n \in Readable} \subseteq {versions'[n] : n \in Readable'} BY <1>10
  <2> QED BY <1>4, <2>1 DEF VersionsInv, ComparedAreKept
<1>16. ASSUME ~moved' PROVE Kept(c)'
  <2>1. digest = <<c.file, c.report>> BY <1>4, <1>5, <1>16
  <2>2. name \in Readable' BY <1>10
  <2>3. versions'[name] = [date |-> c.report.date, text |-> c.report.text, digest |-> <<c.file, c.report>>]
    BY <1>3, <1>6, <1>8, <2>1
  <2> QED BY <2>2, <2>3 DEF Kept
<1>17. ASSUME ~moved', NEW seen, Kept(seen) PROVE Kept(seen)'
  <2>1. PICK d : d = <<seen.file, seen.report>> OBVIOUS
  <2>2. CASE \E n \in Readable : versions[n] = [date |-> seen.report.date, text |-> seen.report.text, digest |-> d]
    <3>1. PICK n \in Readable : versions[n] = [date |-> seen.report.date, text |-> seen.report.text, digest |-> d]
      BY <2>2
    <3>2. n \in Readable' /\ versions'[n] = versions[n] BY <1>10, <3>1
    <3> QED BY <2>1, <3>1, <3>2 DEF Kept
  <2>3. CASE DigestName(seen.report.date, d) \in DOMAIN versions \ Readable
    <3>1. PICK x : x = DigestName(seen.report.date, d) OBVIOUS
    <3>2. CASE x # name
      <4>1. x \in DOMAIN versions' \ Readable' BY <1>8, <1>10, <2>3, <3>1, <3>2
      <4> QED BY <2>1, <3>1, <4>1 DEF Kept
    <3>3. CASE x = name
      <4>1. x = <<seen.report.date, d>> BY <3>1 DEF DigestName
      <4>2. name = <<date, digest>>
        <5>1. name = <<date>> \/ name = <<date, digest>> BY <1>5 DEF FirstName, DigestName
        <5>2. Len(x) = 2 BY <4>1
        <5>3. name # <<date>> BY <3>3, <5>2
        <5> QED BY <5>1, <5>3
      <4>3. d = digest /\ seen.report.date = date
        <5>1. x[1] = seen.report.date /\ x[2] = d BY <4>1
        <5>2. name[1] = date /\ name[2] = digest BY <4>2
        <5> QED BY <3>3, <5>1, <5>2
      <4>4. digest = <<c.file, c.report>> BY <1>4, <1>5, <1>17
      <4>5. <<seen.file, seen.report>> = <<c.file, c.report>> BY <2>1, <4>3, <4>4
      <4>6. seen.report = c.report BY <4>5
      <4>7. versions'[name] = [date |-> seen.report.date, text |-> seen.report.text, digest |-> d]
        BY <1>3, <1>6, <1>8, <4>3, <4>6
      <4>8. name \in Readable' BY <1>10
      <4> QED BY <2>1, <4>7, <4>8 DEF Kept
    <3> QED BY <3>2, <3>3
  <2> QED BY <1>17, <2>1, <2>2, <2>3 DEF Kept
<1>18. moved \in BOOLEAN BY DEF VersionsInv, VersionsTypes
<1> QED BY <1>1, <1>4, <1>5, <1>14, <1>15, <1>16, <1>17, <1>18, DoneKeeps

\* One file of each of the last two dates is read; the comparison's file is cut off.
LEMMA OpensKeeps == VersionsInv /\ OpensComparison => VersionsInv'
<1> SUFFICES ASSUME VersionsInv, OpensComparison PROVE VersionsInv' OBVIOUS
<1>1. PICK dates : dates = LastDates OBVIOUS
<1>2. PICK n \in FirstOfDate(dates[1]), m \in FirstOfDate(dates[2]) :
        manager.at = "next" /\ manager' = [manager EXCEPT !.at = "compare", !.name = <<versions[n], versions[m]>>]
  BY <1>1 DEF OpensComparison, ManagerIsAt
<1>3. /\ manager.left = <<>> /\ Cardinality(DatesKept) > 1
      /\ comparisons' = WithFile(comparisons, dates, CutComparison)
      /\ latest' = latest /\ versions' = versions /\ moved' = moved
  BY <1>1 DEF OpensComparison
<1>4. PICK older, newer : older = versions[n] /\ newer = versions[m] OBVIOUS
<1>5. /\ DOMAIN manager' = {"at", "read", "left", "name", "runs"} /\ manager'.at = "compare"
      /\ manager'.read = manager.read /\ manager'.left = manager.left /\ manager'.name = <<older, newer>>
  BY <1>2, <1>4 DEF VersionsInv, VersionsTypes
<1>6. UnderWay /\ UnderWay' BY <1>2, <1>5 DEF UnderWay
<1>7. VersionsTypes'
  <2>1. VersionsTypes BY DEF VersionsInv
  <2>2. IsEnd(manager.left, manager.read) BY <1>6, <2>1 DEF VersionsTypes
  <2> QED BY <1>3, <1>5, <2>1, <2>2 DEF VersionsTypes
<1>8. FilesAreTrue' BY <1>3, ReadableStays DEF VersionsInv, FilesAreTrue
<1>9. OpenFile' BY <1>5 DEF OpenFile
<1>10. Progress'
  <2>1. \A seen : Kept(seen)' = Kept(seen) BY <1>3, ReadableStays
  <2>2. Progress BY DEF VersionsInv
  <2>3. ~moved => \A i \in 1..Len(manager.read) :
          i <= Len(manager.read) - Len(manager.left) /\ manager.read[i].report.date # 0 => Kept(manager.read[i])
    BY <1>6, <2>2 DEF Progress
  <2>4. ASSUME ~moved, NEW i \in 1..Len(manager.read),
               i <= Len(manager.read) - Len(manager.left), manager.read[i].report.date # 0
        PROVE  Kept(manager.read[i])'
    <3>1. PICK seen : seen = manager.read[i] OBVIOUS
    <3>2. Kept(seen)' BY <2>1, <2>3, <2>4, <3>1
    <3> QED BY <1>5, <3>1, <3>2
  <2> QED BY <1>3, <1>5, <2>4 DEF Progress
<1>11. n \in Readable /\ m \in Readable /\ older.date = dates[1] /\ newer.date = dates[2]
  BY <1>4 DEF FirstOfDate
<1>12. OpenComparison'
  <2>1. LastDates' = dates /\ Readable' = Readable BY <1>1, <1>3, ReadableStays
  <2>2. dates[1] < dates[2] BY <1>1, <1>3, TwoLastDates DEF VersionsInv
  <2>3. older \in {versions[x] : x \in Readable} /\ newer \in {versions[x] : x \in Readable} BY <1>4, <1>11
  <2>4. manager'.name[1] = older /\ manager'.name[2] = newer BY <1>5
  <2>5. \A i \in 1..2 : manager'.name[i].date = dates[i] /\ manager'.name[i] \in {versions[x] : x \in Readable}
    <3> TAKE i \in 1..2
    <3>1. i = 1 \/ i = 2 OBVIOUS
    <3> QED BY <1>11, <2>3, <2>4, <3>1
  <2> QED BY <1>3, <2>1, <2>2, <2>5 DEF OpenComparison
<1>13. ComparedAreKept'
  <2>1. PICK c : c = comparisons' OBVIOUS
  <2>2. /\ DOMAIN c = DOMAIN comparisons \union {dates} /\ c[dates] = CutComparison
        /\ \A d \in DOMAIN comparisons : d # dates => c[d] = comparisons[d]
    <3>1. PICK before, x : before = comparisons /\ x = CutComparison OBVIOUS
    <3>2. WithFile(before, dates, x) = [d \in DOMAIN before \union {dates} |-> IF d = dates THEN x ELSE before[d]]
      BY DEF WithFile
    <3>3. c = [d \in DOMAIN before \union {dates} |-> IF d = dates THEN x ELSE before[d]]
      <4>1. c = WithFile(comparisons, dates, CutComparison) BY <1>3, <2>1
      <4> QED BY <3>1, <3>2, <4>1
    <3>4. /\ DOMAIN c = DOMAIN before \union {dates} /\ c[dates] = x
          /\ \A d \in DOMAIN before : d # dates => c[d] = before[d]
      BY <3>3
    <3> QED BY <3>1, <3>4
  <2>3. \A d \in DOMAIN c : c[d] # CutComparison => d \in DOMAIN comparisons /\ c[d] = comparisons[d] BY <2>2
  <2>4. Readable' = Readable BY <1>3, ReadableStays
  <2> QED BY <1>3, <2>1, <2>3, <2>4 DEF VersionsInv, ComparedAreKept
<1> QED BY <1>7, <1>8, <1>9, <1>10, <1>12, <1>13 DEF VersionsInv

\* The comparison is written.
LEMMA ComparesKeeps == VersionsInv /\ WritesComparison => VersionsInv'
<1> SUFFICES ASSUME VersionsInv, WritesComparison PROVE VersionsInv' OBVIOUS
<1>1. PICK dates, name : dates = LastDates /\ name = manager.name OBVIOUS
<1>2. /\ manager.at = "compare" /\ manager' = ManagerIdle(manager.runs)
      /\ comparisons' = WithFile(comparisons, dates, name)
      /\ latest' = latest /\ versions' = versions /\ moved' = moved
  BY <1>1 DEF WritesComparison, ManagerIsAt
<1>3. IsReading(<<>>)
  <2>1. IsSeq(<<>>) /\ Len(<<>>) = 0 BY DEF IsSeq
  <2> QED BY <2>1 DEF IsReading
<1>4. /\ DOMAIN manager' = {"at", "read", "left", "name", "runs"} /\ manager'.at = "idle" /\ manager'.read = <<>>
  BY <1>2 DEF ManagerIdle
<1>5. VersionsTypes' BY <1>2, <1>3, <1>4 DEF VersionsInv, VersionsTypes, UnderWay
<1>6. FilesAreTrue' BY <1>2, ReadableStays DEF VersionsInv, FilesAreTrue
<1>7. OpenFile' /\ Progress' /\ OpenComparison' BY <1>4 DEF OpenFile, Progress, OpenComparison, UnderWay
<1>8. /\ dates[1] < dates[2]
      /\ \A i \in 1..2 : name[i].date = dates[i] /\ name[i] \in {versions[n] : n \in Readable}
  BY <1>1, <1>2 DEF VersionsInv, OpenComparison
<1>9. ComparedAreKept'
  <2>1. PICK c : c = comparisons' OBVIOUS
  <2>2. /\ DOMAIN c = DOMAIN comparisons \union {dates} /\ c[dates] = name
        /\ \A d \in DOMAIN comparisons : d # dates => c[d] = comparisons[d]
    <3>1. PICK before, x : before = comparisons /\ x = name OBVIOUS
    <3>2. WithFile(before, dates, x) = [n \in DOMAIN before \union {dates} |-> IF n = dates THEN x ELSE before[n]]
      BY DEF WithFile
    <3>3. c = [n \in DOMAIN before \union {dates} |-> IF n = dates THEN x ELSE before[n]]
      <4>1. c = WithFile(comparisons, dates, name) BY <1>2, <2>1
      <4> QED BY <3>1, <3>2, <4>1
    <3>4. /\ DOMAIN c = DOMAIN before \union {dates} /\ c[dates] = x
          /\ \A d \in DOMAIN before : d # dates => c[d] = before[d]
      BY <3>3
    <3> QED BY <3>1, <3>4
  <2>3. Readable' = Readable BY <1>2, ReadableStays
  <2>4. ASSUME NEW d \in DOMAIN c, c[d] # CutComparison, NEW i \in 1..2
        PROVE  c[d][i].date = d[i] /\ d[1] < d[2] /\ c[d][i] \in {versions[n] : n \in Readable}
    <3>1. CASE d = dates BY <1>8, <2>2, <3>1
    <3>2. CASE d # dates
      <4>1. d \in DOMAIN comparisons /\ c[d] = comparisons[d] BY <2>2, <3>2
      <4> QED BY <2>4, <4>1 DEF VersionsInv, ComparedAreKept
    <3> QED BY <3>1, <3>2
  <2> QED BY <1>2, <2>1, <2>3, <2>4 DEF ComparedAreKept
<1> QED BY <1>5, <1>6, <1>7, <1>9 DEF VersionsInv

\* Every step keeps what the files of the manager are.
THEOREM VersionsStep == VersionsInv /\ [VersionsNext]_versionsVars => VersionsInv'
<1> SUFFICES ASSUME VersionsInv, [VersionsNext]_versionsVars PROVE VersionsInv' OBVIOUS
<1>1. CASE UNCHANGED versionsVars
  <2>1. latest' = latest /\ versions' = versions /\ comparisons' = comparisons /\ manager' = manager /\ moved' = moved
    BY <1>1 DEF versionsVars
  <2>2. moved \in BOOLEAN BY DEF VersionsInv, VersionsTypes
  <2>3. FilesAreTrue' /\ ComparedAreKept' BY <2>1, <2>2, FilesStay
  <2>4. VersionsTypes' BY <2>1 DEF VersionsInv, VersionsTypes, UnderWay
  <2>5. OpenFile' BY <2>1 DEF VersionsInv, OpenFile, Candidate
  <2>6. Progress' BY <2>1, ReadableStays DEF VersionsInv, Progress, UnderWay
  <2>7. OpenComparison' BY <2>1, ReadableStays DEF VersionsInv, OpenComparison
  <2> QED BY <2>3, <2>4, <2>5, <2>6, <2>7 DEF VersionsInv
<1>2. CASE NothingToCompare BY <1>2, IdleManager DEF NothingToCompare, ManagerIsAt, WritesNothing
<1>3. CASE ManagerKilled BY <1>3, IdleManager DEF ManagerKilled
<1> QED BY <1>1, <1>2, <1>3, RewrittenKeeps, BeginsKeeps, SecondKeeps, RejectsKeeps, KeepsKeeps, WritesKeeps,
           OpensKeeps, ComparesKeeps
        DEF VersionsNext

\* The versions and comparisons are of what the manager read in every behaviour of it,
\* whatever the chain rewrites in the middle of a run and wherever a run is killed
\* (scripts/base_share_history_manager.py).
THEOREM VersionsInvariance == VersionsSpec => []VersionsInv
BY VersionsStart, VersionsStep, PTL DEF VersionsSpec

\* What a run read is kept when it has gone through it.
LEMMA ReadsAreKept == VersionsInv => ReadIsKept /\ NamesAreTrue
<1> SUFFICES ASSUME VersionsInv PROVE ReadIsKept /\ NamesAreTrue OBVIOUS
<1>1. NamesAreTrue BY DEF VersionsInv, FilesAreTrue, NamesAreTrue
<1>2. ASSUME manager.at \in {"next", "compare"}, manager.left = <<>>, ~moved,
             NEW i \in DOMAIN manager.read, manager.read[i].report.date # 0
      PROVE  Kept(manager.read[i])
  <2>1. IsReading(manager.read) BY DEF VersionsInv, VersionsTypes
  <2>2. PICK n \in Nat : n = Len(manager.read) /\ DOMAIN manager.read = 1..n BY <2>1 DEF IsReading, IsSeq
  <2>3. Len(manager.left) = 0 BY <1>2
  <2>4. i \in 1..n /\ i <= n - 0 BY <1>2, <2>2
  <2>5. UnderWay BY <1>2 DEF UnderWay
  <2> QED BY <1>2, <2>2, <2>3, <2>4, <2>5 DEF VersionsInv, Progress
<1>3. ReadIsKept BY <1>2 DEF ReadIsKept, Kept
<1> QED BY <1>1, <1>3

\* Whatever is repeated, rewritten or killed, what the files remember of cases, snapshots and
\* reports is what happened to them (case_memory_shadow.py, case_lifecycle_shadow.py,
\* historical_snapshot.py, scripts/base_share_history_manager.py).
THEOREM WhatIsRemembered == MemorySpec /\ VersionsSpec => []MemoryIsTrue
<1>1. MemoryInv /\ VersionsInv => MemoryIsTrue
  <2> SUFFICES ASSUME MemoryInv, VersionsInv PROVE MemoryIsTrue OBVIOUS
  <2>1. ReturnIsRecurring /\ SeenStands /\ StoredOnce /\ AgainIsTheSame BY DEF MemoryInv
  <2>2. ComparedAreKept BY DEF VersionsInv
  <2> QED BY <2>1, <2>2, GoneIsGone, ReadsAreKept DEF MemoryIsTrue
<1> QED BY <1>1, MemoryInvariance, VersionsInvariance, PTL
================================================================================
