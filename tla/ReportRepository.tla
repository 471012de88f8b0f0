---------------------------- MODULE ReportRepository ----------------------------
(***************************************************************************)
(* The repository of reports, output/reports/<type>/: BaseReport.run       *)
(* (reporting/report_engine.py) writes latest.json, latest.xlsx and        *)
(* latest.md one after the other, scripts/fetch_tsetmc_live.py reads the   *)
(* JSON, corrects its prices from the network and writes it back, and      *)
(* load (reporting/repository.py) reads it and judges how fresh it is.     *)
(* Nobody locks anything and nothing is replaced atomically.  An envelope  *)
(* of the runner has a timestamp but no generated_at, so that its age is   *)
(* that of the file.                                                       *)
(* A definition named Slip... is a mistake that a change of the code could *)
(* make in the definition after it; each breaks a property stated below.   *)
(***************************************************************************)
EXTENDS Naturals, FiniteSets, FiniteSetsExt

CONSTANTS
  TradingDays,  \* the days with a session: neither Thursday, Friday nor a holiday
  Moments,      \* the minutes from midnight of day 0 at which something may happen
  MaxRuns,      \* bound: runs of the report
  MaxBreaks     \* bound: kills, and workbooks that cannot be written

ASSUME RepositoryAssumption ==
  /\ MaxRuns \in Nat /\ MaxBreaks \in Nat
  /\ TradingDays \subseteq Nat /\ Moments \subseteq Nat /\ Moments # {} /\ IsFiniteSet(Moments)

VARIABLES
  now,       \* the minute, counted from midnight of day 0
  json,      \* latest.json: its run, when that began, the file's mtime
  excel, markdown,  \* the run of the other two
  runner,    \* where the runner is and the envelope it has
  fetch,     \* the same of the correction
  reader,    \* the same of the reader
  verdict,   \* what load says at this moment
  runs, breaks,
  crossed    \* a correction was under way while a run wrote, or a file was written while read

reportVars == <<now, json, excel, markdown, runner, fetch, reader, verdict, runs, breaks, crossed>>
reportFiles == <<json, excel, markdown>>

MarketOpens == 9 * 60
MarketCloses == 12 * 60 + 30
MaxAge == 20

Day(t) == t \div 1440
MinuteOf(t) == t % 1440

NoEnvelope == [run |-> 0, made |-> 0]
File(env, torn) == [run |-> env.run, made |-> env.made, mtime |-> now, torn |-> torn]
NoReportFile == [run |-> 0, made |-> 0, mtime |-> 0, torn |-> FALSE]
NoVerdict == [run |-> 0, made |-> 0, fresh |-> FALSE]
Has(where, env) == [at |-> where, env |-> env]

ReportInit ==
  /\ now = Min(Moments)
  /\ json = NoReportFile /\ excel = 0 /\ markdown = 0
  /\ runner = Has("idle", NoEnvelope) /\ fetch = runner /\ reader = runner
  /\ verdict = NoVerdict
  /\ runs = 0 /\ breaks = 0 /\ crossed = FALSE

-------------------------------------------------------------------------------
is_market_hours(t) == Day(t) \in TradingDays /\ MinuteOf(t) \in MarketOpens..MarketCloses

SlipNoStepBack(t) == Max({d \in TradingDays : d <= Day(t)}) * 1440 + MarketOpens

\* The last day of a session that has opened by then.
last_session_start(t) ==
  LET open == IF MinuteOf(t) < MarketOpens THEN 1 ELSE 0
      sessions == {d \in TradingDays : d + open <= Day(t)}
  IN IF sessions = {} THEN 0 ELSE Max(sessions) * 1440 + MarketOpens

\* In the market's hours twenty minutes, else since the last session opened.
StillFresh(gen, t) == IF is_market_hours(t) THEN t - gen <= MaxAge ELSE gen >= last_session_start(t)

\* A verdict is about the moment it is given at.
TimePasses ==
  /\ \E t \in Moments : t > now
  /\ now' = Min({t \in Moments : t > now})
  /\ verdict' = NoVerdict
  /\ UNCHANGED <<reportFiles, runner, fetch, reader, runs, breaks, crossed>>

-------------------------------------------------------------------------------
\* The rest of the state, for a step of the runner.
RunnerGoes(where) ==
  /\ runner' = [runner EXCEPT !.at = where]
  /\ UNCHANGED <<now, fetch, reader, verdict, runs>>

\* build_rows and to_json.
RunnerBuilds ==
  /\ runner.at = "idle" /\ runs < MaxRuns /\ runs' = runs + 1
  /\ runner' = Has("built", [run |-> runs + 1, made |-> now])
  /\ UNCHANGED <<now, reportFiles, fetch, reader, verdict, breaks, crossed>>

RunnerOpens ==
  /\ runner.at = "built" /\ RunnerGoes("opened")
  /\ json' = File(runner.env, TRUE)
  /\ crossed' = (crossed \/ fetch.at # "idle" \/ reader.at # "idle")
  /\ UNCHANGED <<excel, markdown, breaks>>

RunnerWrites ==
  /\ runner.at = "opened" /\ RunnerGoes("written")
  /\ json' = File(runner.env, FALSE)
  /\ crossed' = (crossed \/ fetch.at # "idle" \/ reader.at # "idle")
  /\ UNCHANGED <<excel, markdown, breaks>>

RunnerSaves ==
  /\ runner.at = "written" /\ RunnerGoes("saved")
  /\ excel' = runner.env.run
  /\ UNCHANGED <<json, markdown, breaks, crossed>>

RunnerSaveFails ==
  /\ runner.at = "written" /\ breaks < MaxBreaks /\ breaks' = breaks + 1
  /\ RunnerGoes("idle")
  /\ UNCHANGED <<reportFiles, crossed>>

RunnerEnds ==
  /\ runner.at = "saved" /\ RunnerGoes("idle")
  /\ markdown' = runner.env.run
  /\ UNCHANGED <<json, excel, breaks, crossed>>

RunnerKilled ==
  /\ runner.at # "idle" /\ breaks < MaxBreaks /\ breaks' = breaks + 1
  /\ RunnerGoes("idle")
  /\ UNCHANGED <<reportFiles, crossed>>

-------------------------------------------------------------------------------
\* fetch_tsetmc_live.py reads a whole report and asks for the price of every share.
FetchReads ==
  /\ fetch.at = "idle" /\ json.run # 0 /\ ~json.torn
  /\ fetch' = Has("asking", [run |-> json.run, made |-> json.made])
  /\ crossed' = (crossed \/ runner.at \in {"opened", "built"})
  /\ UNCHANGED <<now, reportFiles, runner, reader, verdict, runs, breaks>>

\* It writes back the report it read, whatever the file is of by then.
FetchWrites ==
  /\ fetch.at = "asking"
  /\ fetch' = Has("idle", NoEnvelope)
  /\ json' = File(fetch.env, FALSE)
  /\ crossed' = (crossed \/ runner.at = "opened" \/ reader.at # "idle")
  /\ UNCHANGED <<now, excel, markdown, runner, reader, verdict, runs, breaks>>

-------------------------------------------------------------------------------
\* load: the file is there and it is JSON.
LoadReads ==
  /\ reader.at = "idle" /\ json.run # 0 /\ ~json.torn
  /\ reader' = Has("read", [run |-> json.run, made |-> json.made])
  /\ UNCHANGED <<now, reportFiles, runner, fetch, verdict, runs, breaks, crossed>>

SlipNoTimestamp ==
  /\ reader.at = "read"
  /\ verdict' = [run |-> reader.env.run, made |-> reader.env.made, fresh |-> TRUE]
  /\ reader' = Has("idle", NoEnvelope)
  /\ UNCHANGED <<now, reportFiles, runner, fetch, runs, breaks, crossed>>

\* No generated_at: the time is that of the file, as it is by now.
LoadJudges ==
  /\ reader.at = "read"
  /\ verdict' = [run |-> reader.env.run, made |-> reader.env.made,
                 fresh |-> StillFresh(json.mtime, now)]
  /\ reader' = Has("idle", NoEnvelope)
  /\ UNCHANGED <<now, reportFiles, runner, fetch, runs, breaks, crossed>>

ReportNext ==
  \/ TimePasses
  \/ RunnerBuilds \/ RunnerOpens \/ RunnerWrites \/ RunnerSaves \/ RunnerSaveFails \/ RunnerEnds
  \/ RunnerKilled \/ FetchReads \/ FetchWrites \/ LoadReads \/ LoadJudges

ReportSpec == ReportInit /\ [][ReportNext]_reportVars

-------------------------------------------------------------------------------
\* The three files are written in an order, and a failed workbook ends the run: the text
\* never tells of a run the workbook does not have, nor the workbook of one the JSON does
\* not have, after any kill, unless a correction crossed a run.
FilesInOrder == markdown <= excel /\ (~crossed => excel <= json.run)

\* The file never goes back to an earlier run, unless a correction was under way while a
\* run wrote: then it does.
RunsGoForward == ~crossed' => json'.run >= json.run

\* What load calls fresh was made at most forty minutes ago, or no session opened since its
\* file was written; unless that was long after its run began, as a correction does.
FreshIsOfThisSession ==
  verdict.fresh /\ json.mtime - json.made <= MaxAge /\ json.run = verdict.run =>
      \/ now - verdict.made <= 2 * MaxAge
      \/ ~\E d \in TradingDays : d * 1440 + MarketOpens \in (json.mtime + 1)..now

\* Outside the market's hours what is fresh stays fresh until the next session opens, over
\* nights, Thursdays, Fridays and holidays.
FreshUntilOpening ==
  \A g \in {t \in Moments : t <= now} :
    StillFresh(g, now) /\ ~is_market_hours(now) /\ ~is_market_hours(now') => StillFresh(g, now')

\* What is stale becomes fresh again at one moment only, the close of its own session: a
\* report of 9:00 is stale from 9:21 to 12:30 and fresh all evening.
FreshAgainAtClose ==
  \A g \in {t \in Moments : t <= now} :
    ~StillFresh(g, now) /\ StillFresh(g, now') =>
      Day(now) \in TradingDays /\ Day(g) = Day(now) /\ is_market_hours(now) /\ ~is_market_hours(now')

\* A report that is there is whole, and called fresh only when it is.
ReportIsWhole == FilesInOrder /\ FreshIsOfThisSession

\* How the file and the freshness of its reports may change.
FreshnessTurns == [][RunsGoForward /\ FreshUntilOpening /\ FreshAgainAtClose]_reportVars
===============================================================================
