------------------------------- MODULE MCStores --------------------------------
(***************************************************************************)
(* Instance for TLC of the files of the phone and of those who read and    *)
(* write them: one process that asks for snapshots, a worker with its      *)
(* files, the report and its evidence, the memories of the phone, the best *)
(* limits, the pages a user turns, the messages of a report, the requests  *)
(* of the chat, and the upgrade of the bridge.  They share nothing here; a *)
(* behaviour is one of one of them, and "which" says whose.                *)
(***************************************************************************)
EXTENDS MCTsetmcFirstSource, WorkerFiles, ReportRepository, ReportEvidence, HistoryVersions,
        BestLimitsEvidence, MarketPages, ListenerRequests, MCBridgeUpgrade

VARIABLE which

allStores ==
  <<sourceVars, workerVars, reportVars, evidenceVars, memoryVars, versionsVars, lookVars, pagesVars, deliveryVars,
    requestVars, allvars>>

\* ReportRepository: Saturday, a day without a session and the next one, before the opening,
\* in the session, and after the close.
ReportMoments == {540, 561, 751} \cup {1440 + m : m \in {600, 751}} \cup {2880 + m : m \in {535, 540}}

\* CaseMemory: the cases of a snapshot, one of them under two names.
Case(k, name, s) == [key |-> k, name |-> name, status |-> s]
CaseInstance ==
  {<<>>, <<Case(1, 1, "WATCH")>>, <<Case(1, 1, "CONFIRMED"), Case(2, 1, "WATCH")>>,
   <<Case(2, 1, "INSUFFICIENT_DATA"), Case(2, 2, "WATCH")>>, <<Case(2, 2, "WATCH"), Case(2, 1, "REJECTED")>>}

\* BestLimitsEvidence: an option listed twice, one without an instrument, and an underlying
\* that is an option itself.
BookRow(option, underlying) == [option |-> option, underlying |-> underlying]
BookInstance ==
  {<<BookRow("a", "s"), BookRow("a", "s"), BookRow("b", "s"), BookRow("none", "s"), BookRow("c", "s"), BookRow("d", "s")>>,
   <<BookRow("a", "s"), BookRow("b", "s"), BookRow("c", "a")>>}
LiveInstance == {{"a", "b", "c"}, {"a", "b", "c", "d"}, {"a", "b", "d"}}

\* MarketPages: in the session and after it, and in the session of the next day.
PressInstance == {1440 + 560, 1440 + 830, 2880 + 545}
\* For LiveIsToday: the evening before that session, too.
EveningPresses == PressInstance \cup {1440 + 1270}
RankingInstance == {<<"a", "b", "c">>, <<"c", "b">>}
OptionedInstance == {{"a", "b", "c"}}

\* BaleDelivery: the listener sends reports, cards and a narrative; cron the other ways.
TwoPosters == "listener" :> {"transport", "cards", "narrative"} @@ "cron" :> {"dispatch", "transport"}

-------------------------------------------------------------------------------
StoresInit ==
  /\ which \in {"source", "worker", "report", "evidence", "memory", "versions", "look", "pages", "delivery", "request",
            "upgrade"}
  /\ SourceInit /\ ReportInit /\ EvidenceInit /\ MemoryInit /\ VersionsInit /\ LookInit /\ PagesInit
  /\ DeliveryInit /\ RequestInit /\ UpgradeInit
  /\ WorkerInit /\ (which # "worker" => script = "recovery")

\* Everything but one of them stays what it is.
OnlyIn(turn) ==
  /\ which = turn
  /\ turn # "source" => UNCHANGED sourceVars
  /\ turn # "worker" => UNCHANGED workerVars
  /\ turn # "report" => UNCHANGED reportVars
  /\ turn # "evidence" => UNCHANGED evidenceVars
  /\ turn # "memory" => UNCHANGED memoryVars
  /\ turn # "versions" => UNCHANGED versionsVars
  /\ turn # "look" => UNCHANGED lookVars
  /\ turn # "pages" => UNCHANGED pagesVars
  /\ turn # "delivery" => UNCHANGED deliveryVars
  /\ turn # "request" => UNCHANGED requestVars
  /\ turn # "upgrade" => UNCHANGED allvars

StoresNext ==
  /\ UNCHANGED which
  /\ \/ OnlyIn("source") /\ SourceNext
     \/ OnlyIn("worker") /\ WorkerNext
     \/ OnlyIn("report") /\ ReportNext
     \/ OnlyIn("evidence") /\ EvidenceNext
     \/ OnlyIn("memory") /\ MemoryNext
     \/ OnlyIn("versions") /\ VersionsNext
     \/ OnlyIn("look") /\ LookNext
     \/ OnlyIn("pages") /\ PagesNext
     \/ OnlyIn("delivery") /\ DeliveryNext
     \/ OnlyIn("request") /\ RequestNext
     \/ OnlyIn("upgrade") /\ UpgradeNext

StoresSpec == StoresInit /\ [][StoresNext]_<<allStores, which>>
===============================================================================
