# Verification of the option-report system

TLA+ models of the programs in this repository, TLC configurations that check
them on small instances, and TLAPS proofs of the theorems that matter most.
Paths below are relative to the repository's root.

## 1. The system

A phone under Termux fetches the Iranian option market from TSETMC, scores it,
and answers the users of a Bale chat with reports.  The phone is operated
through two branches of a GitHub repository.

| component | code | state | operations | interacts with | status |
|---|---|---|---|---|---|
| Command bridge agent | `scripts/termux_command_bridge_agent.py` | local mirror of branch `bridge-commands` | list and fetch the queue, run a command, publish its receipt on `bridge-results`, delete the queue file | GitHub, the operator, every script run as a command | modelled |
| Singleton and watchdog | same file, `acquire_singleton`; `scripts/install_termux_bridge_watchdog.sh` | flock on `bridge_agent.lock`, the process id in it | launch, lock, write the id, look at the id | the kernel, the agent | modelled |
| Bridge upgrade | `scripts/bridge_upgrade.py` | a finalizer process, the code on disk | pull, wait for the receipt, delete the command, kill and restart the agent | the agent, GitHub | modelled |
| Bale listener | `bale_listener.py`, `scripts/crond_watchdog.sh` | offset in `output/bale_listener_state.json` | poll, select a branch, answer, commit the offset, tell the sender of a failure | Bale's API, the report makers | partly |
| Bale transport | `bale_transport.py`, `dispatch_bale_reports.py`, two card senders | none | split a message, send the parts | Bale's API | modelled |
| TSETMC first source | `tsetmc_first_source.py` | `latest_snapshot.json`, `closed_snapshot.json` | serve live, serve frozen, capture and freeze, fall back | adapter; listener, cron jobs, report processes | modelled |
| TSETMC adapter | `tsetmc_adapter.py`, `audit_integrity.py` | none | ask the flows, parse, audit | TSETMC | partly |
| Calendar conversions | eight files | none | Gregorian to Jalali and back | message headers, reports, expiry and listing dates | modelled |
| Report engine | `report_engine.py`, `option_model.py` | latest text, snapshot, archive, audit | gates, ranking, histories, the files of a report | first source, engines | partly |
| Scoring and eligibility engines | `economic_scoring_engine.py`, `tsetmc_scoring_engine.py`, `last_minute_profit_engine.py`, `underlying_*_engine.py`, `bull_call_spread_engine.py`, ... | none | gates, scores, rankings | report engine, listener | partly |
| Shadow engines | `opportunity_engine.py`, `*_shadow.py` | case memory and lifecycle files | cases beside the reports | history | partly |
| History and archives | `historical_snapshot.py`, `tsetmc_history.py`, `scripts/base_share_history_manager.py`, ... | append-only files, versions of a date | append, deduplicate, compare, replay | report engine, base-share pipeline | partly |
| Report repository and runner | `reporting/`, `scripts/fetch_tsetmc_live.py` | `output/reports/<type>/latest.*` | write an envelope, correct it, judge its freshness | cron jobs write, the listener reads | partly |
| Cards and menus | `bale_market_share_cards.py`, `bale_base_share_option_cards.py`, `live_market_overlay.py`, ... | two lists, one overlay of prices | build, page, lay prices over | listener | partly |
| Base-share pipeline | `base_share_*.py`, `scripts/daily_base_share_report.sh`, `scripts/wait_for_today_eod.sh` | `latest_*.json`, `daily_history/<date>.json` | scan, rank, archive the day, compare with the day before | TSETMC, cron | partly |
| Backfill and collectors | `scripts/run_tsetmc_history_job.sh`, `scripts/run_tsetmc_market_collector.sh`, backfills | a lock directory, checkpoints | wait for a half hour, collect | TSETMC, cron | partly |
| Evidence gates | `gate6_runtime_verification.py`, `live_bestlimits_evidence_runner.py`, `bestlimits_evidence_gate.py`, ... | evidence files | compare hashes, look at the best limits twice | report engine, TSETMC | modelled |
| GitHub runtime evidence | `github_runtime_evidence.py` | bundles, retry markers | name, copy, push | report engine, GitHub | partly |
| Project finisher | `scripts/project_finisher_agent.py` | `PROJECT_FINISHER_STATE.json`, a process id file | run checks in a cycle, record in git, notify on change | git, Bale | modelled |
| LLM recovery and repair | `scripts/llm_recovery_async.py`, `scripts/termux_repair_agent.py` | process id, status and log files | spawn a worker, report its state | local LLM, bridge | partly |
| Data policy | `scripts/data_source_policy.py`, `scripts/freshness_gate.py` | none | market hours, age of a snapshot | not called by the above | not modelled |
| One-shot diagnostics | `scripts/tsetmc_full_market_discovery.py`, `codal_export_engine.py`, ... | none | run by hand | nothing | not modelled |
| Android wrapper | `build_android_app.py`, `offline_server.sh` | none | packaging, a static page | nothing | not modelled |

What is hard about it: processes that share files and branches without a lock
(listener, cron jobs, reports; agent, finalizer, operator; engine, gate,
bundle), a phone that kills any process at any time, calls that take effect
although their answer is lost, retries, offsets and receipts that must be written
in the right order, process ids that are reused, a market that opens between two
statements, files that are judged by their age, two calendars, columns with gaps,
thresholds that several engines put at different places.

What makes the components correct:

- *bridge*: no command is lost, none is acknowledged without its receipt, a
  receipt is true, an acknowledged command is not run again, a command whose receipt
  cannot be stored does not hold up the others (a file that cannot be decoded does);
- *singleton*: one agent works, the watchdog looks at that one, a dead agent is
  replaced;
- *upgrade*: the agent is killed only after its command has a receipt, and the
  new code is then the one that runs;
- *listener and transport*: no update is passed over unseen, a committed one is
  not worked on again, a failing one does not hold up the others; what is settled
  was answered or the chat was told; a report called sent is in the chat, whole, in
  order, once;
- *first source and adapter*: what is called live is live, what is frozen is the
  state in which the session ended, and it stays; a part of the market is told;
- *report engine and evidence*: the best of the eligible contracts in their order;
  what is delivered, concluded, archived and published is of one run;
- *engines*: dominance is ranked, a missing value is no zero, verdicts rest on
  evidence, nothing looks ahead in time, a pair pays what it is said to pay;
- *report repository, cards*: fresh means fresh, pages are of one list, prices
  called today's are today's;
- *base-share pipeline, histories*: a file of the archive holds the day it is named
  after and is kept, a comparison is with the last day before, a new day is
  compared; the memory of the cases is what happened to them;
- *finisher and workers*: one worker, known by its file; the operator is told what
  the file says; a released milestone stays released;
- *collectors*: every half hour of a session once;
- *calendars*: a date is the same day in both, wherever it is shown or compared.

## 2. Modules

| module | role |
|---|---|
| `CommandLedger` | what the bridge promises to the operator: a command's life without files, network or crashes |
| `CommandBridge` | the agent, its queue mirror, GitHub's two branches, the operator; refines `CommandLedger` |
| `BridgeUpgrade` | `CommandBridge` with the finalizer of an upgrade beside the agent |
| `BridgeSupervisor` | lock, process id file, watchdog |
| `BaleListener` | listeners over one state file |
| `BaleDelivery`, `ListenerRequests` | the four ways a report is sent; the branches of a request and their calls, on top of it |
| `MessageParts` | how a text is cut |
| `TsetmcFirstSource` | snapshots, cache and frozen file |
| `UniverseAudit` | flows, the universe made of them, the audit of a report |
| `BaseShareArchives` | the evening chain of scan, ranking and comparison, and the archive of days |
| `CaseMemory`, `HistoryVersions` | memory and life of the cases, store of snapshots; versions of the evening reports |
| `ReportRepository` | the files of a report beside their correction and their reader |
| `ReportEvidence` | the files of the TSETMC report, gate 6 and the published bundle |
| `BestLimitsEvidence` | the two looks at the best limits, and the verdict |
| `MarketPages` | the two lists of shares, page by page |
| `WorkerFiles`, `ProjectFinisher` | three kinds of workers behind a process id file; the finisher's cycle |
| `CollectorSchedule`, `JalaliCalendar` | clocks and calendars, which are walked |
| `EngineCases` | one call of an engine, and what the engines share |
| `OptionGates`, `EconomicRanking`, `OpportunityReport` | gates, rankings and the report made of them |
| `LastMinuteRanking`, `UnderlyingTrend`, `BullCallSpread` | the other reports of the listener |
| `ShadowCases`, `SnapshotHistories` | cases of a snapshot; what is read out of a history |
| `BridgeProofs` | theorems about `CommandBridge`, `BridgeUpgrade`, `BridgeSupervisor` |
| `ListenerAndSourceProofs` | theorems about `BaleListener`, `TsetmcFirstSource` |
| `FinisherProofs` | theorems about `WorkerFiles`, `ProjectFinisher` |
| `ReportProofs` | theorems about `ReportRepository`, `ReportEvidence`, `BestLimitsEvidence`, `CaseMemory`, `HistoryVersions` |
| `ClockProofs` | theorems about what turns with the day: `JalaliCalendar`, `CollectorSchedule`, `BaseShareArchives` |
| `EngineProofs` | theorems about `OptionGates`, `UniverseAudit`, `LastMinuteRanking`, `UnderlyingTrend`, `SnapshotHistories`, `ShadowCases` |
| `RankingProofs` | theorems about `EconomicRanking`, `OpportunityReport`, `BullCallSpread` |
| `StoreProofs` | theorems about `MarketPages`, `BaleDelivery`, `ListenerRequests`, `MessageParts` |
| `MC...` | the instances for TLC |

A definition whose name begins with `Slip` is a mistake a change of the code
could make in the definition that follows it: a dropped guard, a missing reset,
an order swapped.  None is part of a specification.  Each was substituted for
the right definition once, and TLC then found the property it aims at violated;
`PROJECT.json` lists the pairs.

### Bridge

`CommandBridge` has one action per call that can fail.  `SyncList`, `SyncFetch`,
`SyncPrune` are `sync_queue`; a failing call is `SyncRaises`, which keeps the files
read so far and processes nothing, as the code does.  `BeginItem` is the
validation half of `process_file`, `Execute` the run of the command, `PutReceipt`,
`PutAnswerLost`, `PublishFails`, `VerifyReceipt` are `publish_result` with its three
attempts, `AckRead`, `AckDelete`, `AckAnswerLost`, `AckFails` are
`acknowledge_queue`, which reads the sha first and deletes that content.  `Crash`
is a kill anywhere, and what is on disk survives it.  Commands differ only in what
becomes of them (`Kinds`); contents, output and log texts are left out.

`BridgeUpgrade`: `Launch` happens inside `Execute` of the upgrade command, `Find`,
`TakeOff`, `TakeOffFails`, `Restart`, `Timeout` are `finalize`.  An upgrade that runs
twice leaves two finalizers; the second one is not followed.

`BridgeSupervisor`: a process is its id.  `TakeLock`, `AlreadyRunning`,
`TruncateFile`, `WritePid` are `acquire_singleton`; between any two of them the
process may be killed (`Killed`), which frees the flock and leaves the file.
`Alive` is the watchdog's `kill -0`, which any program of that id satisfies.

### Listener, transport and pages

`BaleListener`: `Take` to `Commit` are the body of the loop for one update.  An
update is refused (no chat, a foreign chat), a button (its failure is only logged)
or a message (its failure is reported to the sender and then committed).
`PollAnswerLost` confirms an offset without an answer.  What a handler sends is
here one step that goes well or not; `ListenerRequests` opens that step: `Branch`
is the list of calls of each branch of the handler, `ButtonBranch`, `TextBranch`
and `LabelBranch` select it, and `CallRaises`, `BookFails`, `FileIsDropped`,
`CardsFail`, `Refused` are the ways a call ends otherwise.  `BaleDelivery` opens one
call that sends: `BeginReport`, `PartConfirmed`, and one failure per sender
(`transport` raises at the first part, `cards` note and go on, `narrative` does not
read the answer, `dispatch` prints and goes on); a part whose answer was lost may be
in the chat.  `MessageParts` is `split_message` over texts of which only line ends
and section marks are told apart: `PartsUpTo` is the loop over the sections, as what
it has made of the text up to each character, and `CutToFit` the loop inside it.

`MarketPages`: `PressMarket` and `PressShares` answer one button: judge the file's age
(`ReportIsFresh`, `EnsureMarket`, `BuildShares`), lay the cached or fetched prices
over it, cut the page.  `TimeRuns` and `HistoryLands` move the clock and TSETMC's
history.  `offered` remembers every page button that is in the chat.

### Snapshots and reports

`TsetmcFirstSource`: `Begin` reads the clock; everything after it may happen when the
market has opened or closed meanwhile.  `BuildLive` (`Fetch`, `FetchNone`,
`FetchRaises`) is `_build_live_snapshot`; `OpenCache` and `WriteCache` are the two
halves of a `write_text`, so that a reader, another writer or a kill can come
between (`Torn`, `Written`).  `Capture`, `OpenClosed`, `WriteClosed` freeze, `FallBack`
and `Unavailable` end a request TSETMC gave nothing usable for.  A snapshot is the
state of TSETMC's board it shows, how much of the universe it covers, and its
labels; the rows are left out.  A session's date is its number.  `OpenReport` and
`WriteReport` are the second writer of the cache, `save_tsetmc_report`: what a report showed
of its snapshot, all rows or the best, takes the place of the universe.

`UniverseAudit` is a function of the flows that answer and of what `latest_snapshot.json`
holds: the universe, the snapshot or the one that takes its place, the rows bound to their
quotes, the state of the market, the audit and its verdict.  `Cached` says what was left in
the file: a universe, the rows of a report under the evidence of all, or the options of a
single flow; `CachedIsTaken` when it is used, which is not if it has just been overwritten.

`ReportRepository`: `RunnerBuilds`, `RunnerOpens`, `RunnerWrites`, `RunnerSaves` write the three
files of a run in place (`RunnerSaveFails`, `RunnerKilled` leave them apart), `FetchReads` and
`FetchWrites` are the correction, which writes back what it read, `LoadReads` and
`LoadJudges` the reader.  The minutes of the instance are those at which freshness
turns.  `ReportEvidence`: three engines, of the gate, of a request and of a
collector, write text, snapshot, archive and audit one after the other; `VerifiesAudit`
to `Concludes` are gate 6 in the order of its programs, `BundleBegins`,
`BundleCopies`, `BundlePublished` the publication.  `BestLimitsEvidence`: one step per
request of the runner, with retries that take time while `MarketMoves`; `Filtered`
is a comprehension over a list of the code, `InOrder` the instruments of a round.

### Evenings and memories

`BaseShareArchives`: a chain is one run of a script; what it is at is `stage` (the
program) and `step` (where in it).  `Scan`, `Open`, `Write` are
`base_share_whole_market_first_pass.py`; `Read`, `ReadFails`, `Open`, `Write` are
`base_share_plain_symbol_trend_report.py`; `ReadCurrent` to `WriteCompared` are
`base_share_daily_rank_change_report.py`, in the order of its `main`: the prior report
is read and judged before the current one is archived.  Every file is written in
place, in two steps, and `shutil.copy2` copies the file as it is by then.  A ranking
is its date and one of `Rows`.

`CaseMemory`: `UpdateMemory` rewrites the memory, `AppendEvents` appends the events
(`NewEvents` are the lists a run may append: what `ToTell` names, in the order of its
keys),
`StoreSnapshot` is `store_snapshot` with its look at duplicates; a run is killed
between and within them.  `HistoryVersions`: `ManagerBegins` and `ReadsSecond` read the
two reports, `KeepsCandidate` and `WritesVersion` write the version of a date that is
not there, with the digest of the file as it is by then, `OpensComparison` and
`WritesComparison` compare the last two dates.

`ProjectFinisher`: a cycle is the list of effects it has before it (`Save`,
`RecordInGit`, `NotifyOfChange`), taken one by one, each of which may fail or be the
last before a kill; `Progress`, `Handled`, `StageFails` put them together as `cycle`
and its handler do.  `pushed` says whether git has the state on file: `updated_at` tells two writes of
otherwise equal contents apart.  `WorkerFiles`: each launcher has its own place in the script.
`LaunchWork` looks and finds nobody, `RemoveStale` removes what the file holds by then,
`TellLaunching` writes the status, `Spawn` spawns, `WriteChild` writes the id, in the order of
each script; `AlreadyThere` finds somebody; a worker's end removes the file.  Any launchers may
interleave, so two that both look before either's id is written do start two workers.

### Engines

`EngineCases` gives every engine the same frame: a behaviour is one call, `case` holds
its input, and a property compares the engine's operator with a definition of what
it should be.  Thresholds, signs and ties are kept in integers (hundredths, sixths,
quarters), so that no rounding decides.  `CollectorSchedule` walks a day in seconds;
`JalaliCalendar` keeps the integer arithmetic of each of its sources, the two that give
another day included (loops over month lengths are the choice of the month whose first day
is not later), and its reference is `Next`: tomorrow, in both calendars at once.
`SnapshotHistories` has one order per loader (`ByRetrieval`, `BySha`) and reads the day on which
a contract began as the code does, by the calendar it is written in (`BeginDate`).
`ShadowCases` keeps each engine's own thresholds and its own way to find a row again.

## 3. Runs

Several components that share nothing are put into one run (`MCAgents`,
`MCEvenings`, `MCStores`, `MCEngines`): the initial state chooses whose behaviour it
is (`which`), and only that component moves.  The states of such a run are the sum of
the components' states, not their product.  Where several properties speak of one
hazard, a run checks their conjunction, and the conjuncts have names of their own.
Type invariants that a theorem establishes are not run again.

| run | bounds | what it shows |
|---|---|---|
| `bridge_safety` | 3 commands: accepted, rejected, unreadable; 3 attempts; 1 kill | `ReceiptBeforeAck`, `ReceiptsAreTrue`, `NoRunAfterAck`, refinement of `CommandLedger` (`ImplementsLedger`) |
| `bridge_liveness` | 3 commands: the first can never be receipted, the second runs, the file of the third cannot be decoded; 2 attempts; 1 kill | `EveryCommandIsSettled` |
| `agents` | supervisor: 3 process ids, 4 kills or reuses; listener: 1 process, 3 updates (one of each kind), answers of 3, 2 kills | `OneKnownAgent`, `BridgeComesBack`; `NothingPassedUnseen`, `CommittedIsFinal`, `EveryUpdateIsSeen` |
| `evenings` | archives: 1 chain at a time, 2 trading days, 2 rankings, 1 kill; finisher: 1 diagnostic, 2 faults | `EveningIsSound`, `ArchiveIsKept`, `ComparedWithLast`, `NewDayIsCompared`; `OperatorKnows`, `ReleaseStands` |
| `stores` | below | the files of the phone beside those who write and read them |
| `engines` | below | the calendars, the clocks, and one call of each engine |
| `source_safety` | 2 processes, 1 session, 2 states of the board, reports that are saved | `FrozenIsFinal`; `FrozenStays`: what is frozen is replaced only by a request that was under way when it was written |
| `upgrade_effect` | the upgrade alone, no kill | *violated*: `UpgradeTakesEffect` |
| `listener_skipped` | 1 listener, 2 buttons, no kill | *violated*: `NoneSilentlySkipped` |
| `source_outage_frozen` | 1 process, TSETMC may show nothing, 2 sessions | *violated*: `FrozenIsFinal` |
| `evidence_contradictions` | the engines' instance | *violated*: `ContradictionsRetained` |
| `pages_live` | presses in the evening and the next morning | *violated*: `LiveIsToday` |

The run `stores`:

| property | part | bounds | what it says |
|---|---|---|---|
| `LiveMeansFresh` | first source | 1 process, all answers, late trades, 2 sessions | what is labelled live is no older than the request |
| `WorkerIsKnown` | workers | 2 launchers at a time, 3 starts, 2 ids, 2 kills, each of the three scripts | unless launchers race: one worker, its id in the file, its last word not covered by a launcher's |
| `ReportIsWhole` | repository | 2 runs, 1 break | text, workbook and JSON of a report follow each other; what a load calls fresh, from a file written with its run, is at most forty minutes old or no session opened since |
| `FreshnessTurns` | | the minutes around each threshold over three days | the file never goes back to an earlier run; freshness ends and returns where it should: a report of 9:00 is stale from 9:21 to 12:30 and fresh all evening |
| `EvidenceIsOfOneRun` | evidence | 2 reports, 1 kill | what was delivered was audited; what gate 6 concludes, what is archived and what is published is each of one run |
| `MemoryIsTrue` | memory, versions | 3 shadows of 2 keys, 2 snapshots; 2 dates, 3 rewritten reports, 3 manager runs; 1 kill each | memory and lifecycle of a case agree, over disappearance, return and repetition; a snapshot is stored once; a version holds what its name says, and none that was read is lost |
| `UnlockedByEvidence` | best limits | 3 options, pauses of 0 and 3 seconds, 3 hitches | scoring is unblocked by three options and their shares seen twice, alike in both sources, within five seconds |
| `PagesAreWhole`, `MarketIsCurrent` | pages | 3 presses at 3 times of 2 days, 2 rankings | who turns to the end has read every share of the list that was opened, once and in order; the first page of the market lacks no published day that the code waits for |
| `ChatIsTold` | delivery, requests | 2 posters (a listener that sends by three ways, a job by two), 3 parts, 2 reports, 2 troubles; 3 faults per request | what is called sent is in the chat whole, once and in order; a request that is settled was answered whole or the chat was told; every repetition has a failure behind it |
| `RestartAfterReceipt` | upgrade | the upgrade and another command, 1 kill | neither the agent nor the finalizer takes the command off, or restarts, before its receipt |

The run `engines`:

| property | what it says |
|---|---|
| `DatesAreRead` | every day from 1991 to 2058 is written as the same day by the converters of the reports and of the listener, and an expiry is read as its day; the header of a message is sixteen centuries on, and a Jalali listing date is never read as its day |
| `SlotsAreKept` | a collector collects in a half hour of the session, in each of them, and in none twice, unless the hour turned while it read the clock |
| `VerdictsAreBacked` | the quality gate and eligibility agree on a row; a direction has three families of evidence behind it and at most one against it; the analysis of the mirrored market is the mirrored analysis |
| `RankingIsFair` | a row as good in every factor never scores less; a missing value is no zero; a spread pays what it is said to pay, and the best ones are told first |
| `ReportIsInOrder` | a larger report begins with the smaller one; what is shown is eligible, from the pool of the best, and on one history per share |
| `LastMinuteIsBounded` | never both directions of one share; the ceilings are no quotas; a call is of a share the same report discovered |
| `TrendIsRead` | the analysis does not depend on the order of the sessions; correction and bounce fit the structure; EARLY needs volume before price before momentum |
| `CasesAreSound` | the thresholds of the engine and those of the red team draw one line; a gap is told and routed as one; an expired contract is inactive; the sides of a pair, found again by their symbols, are the call and the put of its strike |
| `HistoryIsOne` | nothing is read from after it; loaders that sort differently see one history, in any order of its files, if each archive has a time of its own; a listing on a Gregorian date is no behaviour, one on a Jalali date always is; a difference is mutual |
| `UniverseIsTold` | an option TSETMC lists and the snapshot misses is of a failed flow, which the evidence names, or the snapshot is the cached one in the place of an answer with too few; an outage does not pass for a market |
| `MessageIsKept` | the parts of a text are the text, within the limit, cut at line ends or marks |

Why the bounds are enough.  *Bridge*: commands interact only through the order
of the pass and through shared names, so three commands with distinct fates
contain every pair; a kill can come at every step, and a second one meets a
state the first could have left; three attempts are the code's, two already have
a first, a last and a retry.  *Supervisor*: the lock race needs two processes
and a stale id a third.  *Listener*: one update of each kind, in a batch that a
failure, a notice and a commit can part; what two listeners do to
`NothingPassedUnseen` is the theorem `NonePassedUnseen`.  *First source*: a torn or
mixed file needs two writers, and so does a capture that replaces another one; one session
has a before, a during and an after;
two sessions are needed for a snapshot that is a session old.  *Archives*: a
report, the one it is compared with, and the days for which there is none or a
rerun; a gap of days needs three and is left to the theorem `ComparesWithLast`.
*Finisher*: a fault between any two of its effects, and a second one in the cycle that
repairs the first.  *Workers*: a race needs two launchers; a third start comes
when it is over, and one of two ids is reused by another program.
*Repository*, *evidence*: a file that is read is of the run before, of this one, or
cut; two runs hold all three.  *Memory*: a case that is confirmed, one that is
rejected, one that comes back; two instruments of one key.  *Pages*: a list, its
successor, and the page in between.  *Delivery*: a first, a middle and a last part.
*Calendar*: 67 years hold two 33-year cycles and the leap year 2000.  *Engines*: the
rows of the instances lie on both sides of each threshold, with a value missing, at
zero, and tied; in the rankings, two rows that are compared and one that is not.  A rank is a whole
number of parts of `Whole`, which the length of every universe divides (six, for one to
three rows), and a score is rounded to parts of `Grain`: 300 of them leave ties between
rows that differ, as the 10^6 of the code do, and 64-bit arithmetic is not needed.

Deadlock is checked except where a configuration says that the system comes to
rest: kills, runs and presses are bounded, a call is answered, a walk ends.

### Fairness

*Bridge*: the agent's process is scheduled (`WF`), and a call that is tried again
and again succeeds some day (`SF` on the calls, not on their failures): the agent
polls for ever and GitHub is not down for ever.  Kills are bounded.
*Supervisor*: the watchdog loops, processes are scheduled, credentials are
accepted at last; and a program that got a bridge's old id ends some day.
*Listener*: `crond_watchdog.sh` starts it again, polling and committing succeed
at last.  Nothing says that the *handling* of an update ever succeeds.
*Archives*: cron starts the daily script again and again, programs are scheduled
(`WF`), and some daily scan reads a row of the newest day (`SF` on `ScanOfToday`).
Kills are bounded.  Programs that the operator starts alone may come between, as
often as he likes.  *Upgrade*: agent and finalizer are scheduled and every call
succeeds some day; the counterexample of `upgrade_effect` is not an idle system.
`MCAgents` and `MCEvenings` restate these for the component whose behaviour it is
(`InTurn`).  The other parts are safety only: what they must bring about depends on
a user's next request.

### What the assumptions carry

Each of these, dropped, makes TLC find a counterexample:

- *the operator never reuses a file name or a command id*
  (`OneFilePerCommand`, `OneReceiptPerCommand`; assumptions of the bridge's
  theorems).  With two commands under one name, `gh_delete_file`
  (`termux_command_bridge_agent.py:113`) deletes the one that is there at the
  acknowledgement, and `ReceiptBeforeAck` fails;
- *programs end* (`ProgramsEnd`): with `ScheduledSpec` alone the watchdog may take
  another program for the bridge for ever and `BridgeComesBack` fails;
- *one listener*: with two, the slower one writes an older offset over a newer
  one, and `CommittedIsFinal` fails;
- *no more failing updates than an answer holds*: with `Limit = 1`, a failing
  button comes back in every answer and `EveryUpdateIsSeen` fails;
- *TSETMC always shows an instrument* (`"none"` not in `Answers`): the adapter
  swallows the failure of every flow, so an outage looks like an empty market;
  the run `source_outage_frozen`;
- *TSETMC's board rests after the close* (`LateTrades` false) for `FrozenIsFinal`:
  otherwise the first request after 12:30 freezes a state that is not the last;
- *one market a second* (`OneObservation`): the archives are put in order by
  `observation_retrieved_at`, which counts seconds (`tsetmc_adapter.py:100`), and a file is
  named by its hash (`tsetmc_history.py:30`).  Two market watches of one second that differ
  would be two files of one time, and one would be what came after the other: `NoLookAhead`
  fails.  An observation saved twice is two files that hold the same amounts, and is allowed;
- *no unreadable file that stays* for `EveryCommandIsSettled`: `sync_queue` raises on a file
  that is not UTF-8 (`termux_command_bridge_agent.py:142`), at every tick and before any
  command is processed, so the property is conditional on its being taken away;
- *requests that do not overlap*, for a frozen snapshot that is never replaced
  (`FrozenStays` names the exception, `older`): two requests find nothing frozen, both capture,
  and the later one replaces the figures the earlier one has shown, although
  `tsetmc_first_source.py:267` says "freeze it, and use it for all later reports";
- *launchers that do not race* for `WorkerIsKnown` (its exception is `raced`): the id is looked
  at before the spawn and written after it (`project_finisher_agent.py:294`,
  `llm_recovery_async.py:173`, `termux_repair_agent.py:105`), without a lock, so two launchers
  that come together start two workers;
- *archives with times of their own* (`Timed`) for one history: `behavior_engine.py:48` leaves
  files of one time as they are found and puts those without one first, the loaders of
  `tsetmc_outcome_engine.py:98` and `signal_replay_engine.py:157` fall back to another time and
  to the hash;
- *one contract under each name* (`OneContractEach`) for the sides of a pair, and *one row of a
  symbol* (`Alone`) for the thresholds: the engines find rows again by symbol alone;
- *one chain at a time* for `ArchiveIsKept` and `EveningIsSound`: with two, both find
  no file of the day, and the second copy replaces the first, although
  `base_share_daily_rank_change_report.py:235` says that "a same-date rerun does not
  replace an existing archived snapshot";
- *no kill inside `copy2`* for `NewDayIsCompared`, whose second disjunct is that
  case: the archive keeps a file that cannot be read, the comparison of every later
  day fails at it before that day is archived, and one kill has ended the
  comparisons for good, although line 253 promises one "once a new data date
  arrives" (in Persian);
- *no finalizer* for `NoRunAfterAck` and `ImplementsLedger`: after a kill the
  finalizer of an upgrade may acknowledge the command while the restarted agent
  runs it again, so the part `upgrade` checks neither.

Some properties name the case in which the code does not keep them, in a history
variable of the model: `raced` (since all was quiet, a launcher looked between another one's
look and its worker's id, or was killed between the spawn and the id: then there may be two),
`older` (the requests that overlapped with the freezing), `crossed` (a correction was under way
while a run wrote, or a file was written while it was read), `mixed` (an engine was
killed, or ran while another one or a reader of its files did), a digest file that a
kill cut, a milestone whose notification a kill or a failure lost, an hour that turned
while the clock was read.  In every other behaviour the property holds.

### Divergences

The five violated runs are disagreements between the code and what it says of
itself; `PROJECT.json` quotes both sides.

- `upgrade_effect`: the agent acknowledges the upgrade command right after its
  receipt, the finalizer looks for the command on the queue, does not find it,
  and the old code goes on running.
- `listener_skipped`: a failed button leaves the offset where it is, and the
  next update of the batch commits one beyond it.
- `source_outage_frozen`: after the close an empty answer is replaced by an older
  snapshot, which is then frozen as the session's last.
- `evidence_contradictions`: the red team writes its results under `cases`, the
  clusters look for `challenges`, and no contradiction reaches a cluster.
- `pages_live`: an overlay of prices is used for twelve hours, and is laid over the
  list of the next morning as today's.

Met on the way, in the model where state is concerned, and not stated as properties
because they are plainly so:

- *dates* (`HeaderIsCenturiesOn`, `ContractDateIsRead` state what the code does):
  `bale_transport.py:82` defines `_gregorian_to_jalali` a second time, and the header of every
  message shows a date like 3005/07/05; `behavior_engine.py:87` tries a Jalali date of eight
  digits as a Gregorian one first, which almost always succeeds, and its own converter
  (`:108`) gives a day years off for the rest.  So the day on which a contract began is never
  left out (`ListingIsNoBehaviour`), and
  `tests/test_behavior_engine.py::test_jalali_begin_date_excludes_creation_day` fails;
- *histories*: the loaders put archives of one time, or without one, in different orders
  (`behavior_engine.py:48`, `tsetmc_outcome_engine.py:98`); an archive without a time and a
  contract without a listing date count as equal at `behavior_engine.py:155`;
- *snapshots*: `tsetmc_first_source.py:294` falls back to the file that line 197 has
  just overwritten with the unusable answer; `report_engine.py:294` says "The canonical/cache
  snapshot must always be the full TSETMC universe", and `:782` puts the rows of the report in
  its place, under the evidence of all, as a sampled request
  (`live_bestlimits_evidence_runner.py:386`) puts its sample; a request for one share archives its part as the market's
  (`report_engine.py:314`, `:787`);
- *bridge*: a command is run again after a kill between receipt and acknowledgement
  without a look at `bridge-results` (`CommandLedger!Run` allows it: execution is at
  least once);
- *evenings*: a version that a kill cut is never rewritten
  (`base_share_history_manager.py:145`), and its digest is taken of the file after it
  was read (`:92`); a marker of `github_runtime_evidence.py:159` is never retried;
- *engines*: `bull_call_spread_engine.py` looks for the volume under a name the rows
  of the report do not have, and takes a short leg whose last price is 0; a strike of
  0 raises in `last_minute_profit_engine.py:547`;
- *listener*: the report of one share always raises at `bale_listener.py:476`; of the
  menu labels typed as text six have no branch; an unknown button is polled again
  until another update commits; a workbook that cannot be sent is dropped without a
  word, and so are the refusals of the narrative posts; only the first page of the
  market's list refreshes it, and the drill-down into a share may be of any age;
- *scripts*: `scripts/lmp_scanner.py` does not parse (line 78); the lock directory of
  `scripts/run_tsetmc_history_job.sh:14` is never freed after a `kill -9`.

## 4. Proofs

All are for every value of the constants, within the named assumptions.

| module | theorem | assumes | shows |
|---|---|---|---|
| `BridgeProofs` | `Invariance`, `TypeCorrect`, `ReceiptFirst`, `TrueReceipts`, `AcknowledgedIsFinal` | no shared names | the safety properties of `bridge_safety` |
| | `Refinement` | no shared names | `CommandBridge` implements `CommandLedger` |
| | `UpgradeKeepsTheOrder` | no shared names | `RestartAfterReceipt`, with the agent and the finalizer beside each other |
| | `SupervisorTypeCorrect`, `AtMostOneAgent`, `FileIsRight`, `AgentStaysKnown` | nothing | `OneKnownAgent` |
| `ListenerAndSourceProofs` | `ListenerTypeCorrect`, `NonePassedUnseen` | nothing | for any number of listeners |
| | `CommittedStaysFinal`, `OffsetNeverMovesBack` | one listener | the action properties |
| | `SourceTypeCorrect`, `FreshIfLive` | nothing | for any number of processes |
| | `FrozenSnapshotIsFinal` | no outage, a board at rest | for any number of processes |
| | `FrozenSnapshotStays` | nothing | for any number of processes, whatever TSETMC answers |
| `FinisherProofs` | `Invariance`, `TypeCorrect`, `AtMostOneWorker`, `FileIsRight`, `LastWordStands`, `WorkerStaysKnown` | nothing | `WorkerIsKnown`, for each script, any number of launchers, starts and kills |
| | `FinisherInvariance`, `WhatTheOperatorKnows`, `TheReleaseStands` | nothing | `OperatorKnows`, `ReleaseStands`, for any number of faults |
| `ReportProofs` | `Invariance`, `TypeCorrect`, `ReportStaysWhole` | nothing | `ReportIsWhole`, for any calendar of sessions |
| | `FreshnessTurnsOnTime` | every opening is among the moments | `FreshnessTurns` |
| | `EvidenceInvariance`, `OneRunBehindTheEvidence` | nothing | `EvidenceIsOfOneRun`, for any number of runs, reports and kills |
| | `LookInvariance`, `ScoringIsUnlockedByEvidence` | nothing | `UnlockedByEvidence`, for any watch lists, pauses and retries |
| | `MemoryInvariance`, `VersionsInvariance`, `WhatIsRemembered` | nothing | `MemoryIsTrue`, for any snapshots, any number of runs and kills |
| `ClockProofs` | `WalkInvariance`, `EveryDateIsRead` | nothing | `DatesAreRead`, on every day the walk reaches, the two converters that give another day included |
| | `ScheduleInvariance`, `NothingIsTakenTwice` | nothing | no slot twice, however long a collection lasts |
| | `SlotsStayKept` | `ShortCollections` | `SlotsAreKept` |
| | `TypeCorrect` | nothing | of the archives, for any number of chains |
| | `ArchiveIsNamed`, `ComparisonStaysBacked`, `ChainLeavesOneRanking`, `EveningsAreSound`, `ArchiveStays`, `ComparesWithLast` | one chain at a time | the archive, for any number of days and kills |
| `EngineProofs` | `VerdictsStayBacked` | nothing | `VerdictsAreBacked`, for any rows and shares |
| | `UniverseStaysTold` | nothing | `UniverseIsTold`, for any flows, board and content of the cache |
| | `LastMinuteStaysBounded` | nothing | `LastMinuteIsBounded`, for any board, evidence and number of contracts |
| | `TrendStaysRead` | nothing | `TrendIsRead`, for any history of a share |
| | `HistoryStaysOne` | one market a second, one file of a hash | `HistoryIsOne`, for any archives and any number of instruments |
| | `CasesStaySound` | nothing | `CasesAreSound`, for any table of scored rows |
| `RankingProofs` | `ReportStaysInOrder` | nothing | `ReportIsInOrder`, for any universe, bounds and answers about its shares |
| | `RankingStaysFair` | nothing | `RankingIsFair`, for any universe, any board and number of pairs |
| `StoreProofs` | `PagesInvariance`, `WalksAreWhole`, `FirstPageIsCurrent` | nothing | `PagesAreWhole`, `MarketIsCurrent`, for lists of any length and any sessions |
| | `DeliveryInvariance`, `RequestInvariance`, `TheChatIsTold` | nothing | `ChatIsTold`, for any posters, any number of parts and troubles |
| | `EveryMessageIsKept` | nothing | `MessageIsKept`, for any text and any limit |

"Nothing" means: nothing beyond the assumptions the modules state about their
constants, which TLC evaluates in every run.

*Bridge.*  None of the properties is inductive.  A queue file is deleted because
the process remembers a receipt it read back; a receipt says SUCCESS because the
process remembers a run; a local copy is run because the last sync listed it.
`IInv` ties each memory to the branches and the history: `ItemInv` for the item at
hand, `FreshInv` for what is left of a sync and of a pass, `ReceiptInv` for what a
receipt names.  `FreshInv` is the heart of `AcknowledgedIsFinal`: a pass is only
ever made of files listed after the last acknowledgement.  The refinement maps a
file on the queue, a copy, a receipt and the history to the stage of a command;
lemmas per kind of step show that it is a step of the ledger or a stutter.

*Upgrade.*  `IInv` is `CoreInv /\ FreshInv`.  With a finalizer beside it, a second
program acknowledges, and `FreshInv` fails; `CoreInv` does not need it, and is
preserved by every step of the agent on its own.  `UpgradeInv` is `CoreInv` with
`FinalizerInv`: a finalizer that looks for its command saw its receipt, and receipts
are not taken back.

*Supervisor.*  The invariant says that who holds the lock is exactly the process
past `TakeLock`, and that past `WritePid` the file holds its id; the latter needs
that losers leave the file alone.

*Workers.*  `WorkerInv` is the same question for a script without a lock: types hold
always; as long as no launchers `raced`, one that is on its way is alone (`LauncherInv`), and
`AtMostOne` and `EndInv` hold.  A race ends when nobody is left of it.

*Repository.*  `NumbersInv` numbers the runs; `FilesInv` says that, as long as no
correction crossed a run, what a correction writes back is what the file has;
`TimesInv` ties a run to the one time it began at, so that a verdict and the file can
be compared; and a file that is written again at the moment of a verdict is still
fresh (`VerdictInv`).  `LastStart` is what `last_session_start` returns, for any set of
trading days: an opening, and none since.  Its `Max` exists because any set of
naturals has a smallest bound (`Smallest`, from the library's `WFMin`).
`EveryOpening` is needed: if nothing happened between a night and the next evening, a
report would become stale although no step was seen in a session.

*Listener.*  `NothingPassedUnseen` needs that whatever lies below the update a
listener is at, has an outcome (`SeenInv`), for its offset, for the file and for
what the API has forgotten, so that the three can be exchanged.  With one
listener, its memory and the file agree outside of the start (`SyncInv`).

*First source.*  A request whose basis is the last session began after its close
and the market has not opened since; so what it holds is the board at rest, and
what it writes is dated with a session that is over (`FinalInv`).  A request that is about to
freeze found nothing frozen, so it looked before the file was written: it is one of `older`
(`LateComers`).

*Archives.*  Once a chain has read the ranking, nobody rewrites it, nor the days
before it in the archive (`RankOK`): so what is copied is what was read, the date
in the name is the date in the file, and the last name before the report's date
(`IsPrior`) is still the right one when the comparison is written.  A chain that has
ended leaves scan, report and comparison of one ranking (`HandedOn`), for what a
program hands on is what the next one reads.  All of it needs that nobody else is
at work; types do not.

*Finisher.*  A cycle has its effects before it as a list, and the invariant
(`FinisherInv`) says what that list may be at each of its points (`Planned` to
`Milestones`), and what the file, the operator and git then know of each other.  From
that follows what a cycle that dies leaves behind: a state git has, or one whose next
save is recorded with it.  The proof attempt showed that "git has it" could not mean
equal contents: with four faults the file may return to contents git once had, and
the older commit passed for the newer; hence `pushed`.

*Evidence.*  `EvidenceInv` follows what each reader has in hand.  As long as not `mixed`,
one engine writes at a time and nobody reads meanwhile (`AloneInv`), so text and audit
are of one report, or the text is of the one under way; gate 6 and the bundle hold what
they read of it.

*Best limits.*  `LookInv` says that what a run has left is the end of its plan (a round,
a pause, the same round), that what it has observed is the beginning of that plan, and
that every observation has a capture of the same level: a package of a whole plan has
seen each instrument of its roles twice.  The lemmas about `Filtered` say that it keeps
the order and loses nothing, for sequences of any length.

*Memory.*  Between `UpdateMemory` and `AppendEvents` the memory is one step ahead of the
events; otherwise the latest event of a case and its memory agree (`GoneSoFar`,
`SeenStands`).  What the new events are is read off the log before the run, for the
events of one run are of distinct keys.  `VersionsInv`: of what the manager read, the
reports it is done with are `Kept`, the file that is open is of the one that is due,
and a comparison that is open is of the last two dates; as long as no report `moved`
under the reader, a version is of the very report its digest names.

*Calendar.*  `JDayNumber` and `GDayNumber` number the days of the two calendars, and
`WalkInv` says that the two dates of a walk have one number.  A converter computes that
number from its argument and divides it by the cycles of 33, 400, 100 and 4 years; that
the date it takes out has that number again, and that no other date does, is
arithmetic with the month tables as case distinctions.  The header's converter computes the
number of another day, and its date is the one that the right converter gives of that day.

*Schedule.*  What the loop has taken is over a minute ago when it looks at the clock again
(`AwayInv`), so no slot is taken twice.  That none is missed needs `ShortCollections`:
a collection, with the minute the loop then moves away, is shorter than half an hour.
The code does not go back to a slot that has passed.

*Gates.*  No invariant is needed: a call begins and ends a behaviour.  `FirstRule` says
which rule of a list decides; with it the two gates agree by the order of their rules.
A direction has two families behind it since the points of one, with those the averages
may have without a side, reach 95 of the 140 quarters a direction takes
(`OneIsNotEnough`), so the rule of conflict leaves one at most against it; a confidence
above LOW then asks for three.  `FamiliesTurned` turns each family around, `ScoreTurned`
their sum.  The sum of the points is a recursive function; that it is what its equations
say is proved for the nine families (`TotalOfNine`).

*Universe.*  The flows of a market are read one after the other, and the options of a
flow are taken one by one (`Taken`, `FlowTaken`, recursive functions).  A flow
keeps what was there and adds what it names (`FlowKeeps`), so an option that the universe
misses is one of a flow that failed (`UniverseIs`), unless the file took its place.  Each flow leaves evidence of whether it
answered (`FlowIsEvident`), and the audit's verdict follows from that alone; that the
market moved is told from the times of two rows that are shown.

*Last minute.*  The order of the candidates is total (`AheadIsOrder`), for it ends with
the contract itself.  The places are handed out in that order: a candidate that is
passed over met, at its turn, as many as were requested or three of its own share, and what is
shown after it is behind it (`PickedIs`, with the invariant `PickedFits` of the recursive
function `Picked`).  Neither direction of a share can be supported with the other, since of
three components two that speak for one leave a single one for the other (`OneDirection`).  A share with
a call in the report is discovered, or the watch is full (`WatchIsFull`): of those that are
left out, one has the fewest stronger ones, so these are all on the watch.

*Trend.*  Reading an answer from its other end changes the place of each session and not
how many are sooner, when no two have one date (`TurnedIs`); so the sessions are the same
and with them the whole analysis.  What a rule's name says is that this rule holds, if no
other has its name (`NamedRule`): the structure and the correction are read off the same
two averages, which are integers (`AveragesAre`), and a share whose move is EARLY has all
three first dates, whose order is that of the events (`EarlyFollows`).

*Histories.*  Archives in the order of their times stay as they are (`NthStays`), so a
shorter history is read like the beginning of the longer one: the next change of an
instrument is the same one, if the shorter history has it (`ForwardStays`).  It is later
than the pattern because files of one time do not differ (`AlikeStays`).  Both orders are the
one order of the times if these are distinct (`ArchivesByIs`), so a flagged change and an outcome are
the records of one transition (`BehaviourIsOutcome`); the replay's loader is that of the
outcomes (`ReplayIsOutcome`).  The candidates of a feature are nested since a percentile rises with
its percent (`PercentileRises`: between two neighbours by the part of the way, and
otherwise because the second neighbour of the lower is no further than the first of the
higher), its values being numbers and finitely many (`ValuesAre`, `ObservationsEnd`).  A
rise is consistent only if every direction of the window is known (`WholeIsKnown`).

*Cases.*  A case of a run is one of a contract or of a chain, with its status changed at
most (`ShadowRunIs`): what is put end to end holds what its parts hold (`FlatHolds`).  The
key of a chain is no contract's symbol (`NoSuchSymbol`), so only a contract is expired, and
the last row of its symbol has the risk that stays visible (`ExpiredCase`).  A status that
is a gap has its gap in the evidence (`Gapped`); a status says on which side of which
threshold the contract is (`StatusIs`), and a challenge too; and the sides of a pair are found in a
chain without duplicates, which has one row of each strike and type (`ChainCaseOf`).

*Lists.*  What the engines need of lists is stated once.  A value that is computed element
by element stays in every set its step stays in (`Folded`); an invariant of it holds
everywhere since there would be a smallest place where it fails (`Smallest`); and in a
finite order each place belongs to exactly one element (`EachIsBefore`, `BeforeIsOne`),
which is why sorting by counting who is ahead loses nothing.

*Pages.*  A walk has read the beginning of its list up to the page on the screen, every
page lies in its list, and no list is of a day that has not landed (`PagesInv`).  The
first page is current since the day a fresh list must have is the last session that
could have been published.

*Delivery and requests.*  `DeliveryInv`: a report at part n has n - 1 parts in the chat,
in order, and perhaps part n, in doubt; no two processes send the same report.
`RequestInv`: a message of a request's branch was sent or is left to be sent, unless a
failure excuses it; and the answers, with the one that is still to come, exceed the
faults by one at most.

*Messages.*  `SentUpTo(text, messages, n)`: the messages are the text up to position n,
each within the limit, and n is where a message may end.  Every turn of both loops
keeps it.  `CutToFit` and `PartsUpTo` are recursive functions: that they satisfy their
equations is proved with a smallest counterexample, since the library's theorems about
recursion take an operator.

*Rankings.*  What is arranged by an order stands in it, each element once (`ArrangedIs`).
Features compare like fractions (`WithinIs`), so what ranks within one ranks within a
larger one too (`PercentRises`), also where the leverage is cut (`RankOfRises`); a weighted
sum keeps that if the same parts are there, of the factors of a block (`BlockRises`) and of
the blocks (`ScoreRises`), and rounding does.  A row that is the best in all it has weighs all
that it can weigh (`ScoreBest`).

*Report.*  What is shown for a limit is a beginning of one list (`FewerAreFirst`).  An
eligible row passed the quality gate, so it has a price and with it a score
(`PricedIsScored`), and the list loses none (`EligibleIsScored`).  An answer about a share is
kept from the first row that asks (`AskedKeeps`).

*Pairs.*  The payoff of a pair is flat, rises, and is flat again (`PayIs`), and crosses zero
once.  The pairs of a board and of the board turned around are one set (`TurnedBoard`); two
lists of one set, both by the same preference, have equals at each place, as there are as
many before (`ListsAgree`).

Model-checked only: the liveness properties, for the prover does not do fairness or
`ENABLED`.  Every safety invariant and action property that a passing run checks is stated
by a theorem above, some under the assumptions the table names.

## 5. What is left out, and why

- *Wording, layout, figures, logs*: no property is about them.  A ranking, a report, a
  snapshot is an identity with the few marks the properties tell apart.
- *HTTP, git, the Bale API*: one step that succeeds, fails, or succeeds
  without its answer.
- *Data policy* (`scripts/data_source_policy.py`, `scripts/freshness_gate.py`): not
  called by the programs above; the hours and ages they do use are modelled where
  they use them.
- *The workbook scorer* (`scoring_engine.py`) is not on the live path; *equity
  shadows*, the *evidence graph* and the *replay reports* repeat the cases of
  `ShadowCases` over other fields.
- *Keyboards, the symbol menu's paging, the option market's cards*: the paging of
  `MarketPages` over a snapshot that does not change.
- *The 7-session window and the management analysis* read the ranking and are read by
  nobody.
- *One-time backfills and reorganisations, one-shot diagnostics, Android*: run by hand
  once, or packaging.
- *The job's lock directory*: two lines whose property would restate them.
- *The single-instrument endpoints of the adapter*: pure input.
- *A second finalizer*: an upgrade that a kill lets run twice leaves two.
- Holidays are weekdays without a session to the code, and are absorbed in the
  sessions of `TsetmcFirstSource`.
