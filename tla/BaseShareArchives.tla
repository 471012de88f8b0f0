--------------------------- MODULE BaseShareArchives ---------------------------
(***************************************************************************)
(* The evening chain of the base-share reports, and the archive of one     *)
(* ranking per trading day that it compares each new ranking with.         *)
(* scripts/daily_base_share_report.sh and scripts/wait_for_today_eod.sh    *)
(* run one program after the other: the scan of the whole market, the      *)
(* plain-symbol ranking, the comparison with the day before.  Each reads   *)
(* the latest_*.json of the one before and rewrites its own in place; the  *)
(* operator may run one of them alone.  Nothing keeps two chains apart,    *)
(* and the phone may kill a chain anywhere.  The 7-session window and the  *)
(* management analysis at the end of the second script are left out: they  *)
(* only read the ranking.                                                  *)
(* A definition named Slip... is a mistake that a change of the code could *)
(* make in the definition after it; each breaks a property stated below.   *)
(***************************************************************************)
EXTENDS Integers

CONSTANTS
  Chains,     \* runs of the chain that may be under way at once
  Rows,       \* the rankings a scan may come to
  None,       \* no file
  Torn,       \* a file that is not JSON: truncated, or two texts over each other
  MaxDay,     \* bound: trading days
  MaxKills    \* bound: kills

\* A ranking and the date of its newest history row; 0 when no symbol could be read,
\* which rank_change's data_date finds to be no date.
Report == [date : 0..MaxDay, rows : Rows]
Dated == {r \in Report : r.date # 0}
Comparison == [cur : Dated, prev : Report \cup {None}]

ASSUME BoundAssumption == MaxDay \in Nat /\ MaxKills \in Nat
ASSUME NotReports == None # Torn /\ {None, Torn} \cap (Report \cup Comparison) = {}

VARIABLES
  day,       \* the last trading day whose rows TSETMC has published
  file,      \* latest_<name>.json of each name in Files
  archive,   \* daily_history/<date>.json
  compared,  \* latest_daily_rank_change_report.json
  kind,      \* kind[p]: the script p runs
  stage,     \* stage[p]: the program of the chain p is at
  step,      \* step[p]: and where in it
  hand,      \* hand[p]: the report the program works on
  prior,     \* prior[p]: the archived report it is compared with
  kills

outputs == <<file, archive, compared>>
archivesVars == <<day, outputs, kind, stage, step, hand, prior, kills>>

ScriptKinds == {"daily", "eod", "alone"}
Files == {"whole", "plain"}
Programs == Files \cup {"rank"}
Stages == Programs \cup {"idle", "done"}
Steps == {"read", "prior", "archive", "copy", "open", "write"}

\* The file each program reads; the scan reads TSETMC.
Source == [plain |-> "whole", rank |-> "plain"]

\* The program after the one p is at.
Follows == [whole |-> "plain", plain |-> "rank", rank |-> "done"]
After(p) == IF kind[p] = "alone" THEN "done" ELSE Follows[stage[p]]

ArchivesInit ==
  /\ day = 0
  /\ file = [f \in Files |-> None]
  /\ archive = [d \in 1..MaxDay |-> None]
  /\ compared = None
  /\ kind = [p \in Chains |-> "daily"]
  /\ stage = [p \in Chains |-> "idle"]
  /\ step = [p \in Chains |-> "read"]
  /\ hand = [p \in Chains |-> None]
  /\ prior = [p \in Chains |-> None]
  /\ kills = 0

Publish ==
  /\ day < MaxDay
  /\ day' = day + 1
  /\ UNCHANGED <<outputs, kind, stage, step, hand, prior, kills>>

-------------------------------------------------------------------------------
At(p, s, t) == stage[p] = s /\ step[p] = t

\* p is at stage s, step t next.
Goes(p, s, t) ==
  /\ stage' = [stage EXCEPT ![p] = s]
  /\ step' = [step EXCEPT ![p] = t]
  /\ UNCHANGED <<day, kind, kills>>

\* A program begins with nothing in hand and forgets it all when it ends.
Holds(p, r) == hand' = [hand EXCEPT ![p] = r] /\ UNCHANGED prior
Keeps == UNCHANGED <<hand, prior>>
Forgets(p) == hand' = [hand EXCEPT ![p] = None] /\ prior' = [prior EXCEPT ![p] = None]

\* What a file that p opened holds once p wrote r: r, or, when another chain wrote it
\* since, what is left of that one's text after the end of r.
Written(old, r) == {r} \cup (IF old = Torn THEN {} ELSE {Torn})

Starts(p, k, s) ==
  /\ stage[p] \in {"idle", "done"}
  /\ kind' = [kind EXCEPT ![p] = k]
  /\ stage' = [stage EXCEPT ![p] = s]
  /\ UNCHANGED <<day, outputs, step, hand, prior, kills>>

StartDaily(p) == Starts(p, "daily", "whole")

\* wait_for_today_eod.sh goes ahead once rows of the day are published.
StartEod(p) == day > 0 /\ Starts(p, "eod", "whole")

StartAlone(p) == \E s \in Programs : Starts(p, "alone", s)

\* The scan: a symbol that cannot be read is left out, so that the newest date may be an
\* older one, or none.
Scan(p) ==
  /\ At(p, "whole", "read")
  /\ \E r \in Report : r.date <= day /\ Holds(p, r)
  /\ Goes(p, "whole", "open")
  /\ UNCHANGED outputs

\* git, the market watch or the identity catalog fails.
ScanFails(p) ==
  /\ At(p, "whole", "read")
  /\ Goes(p, "idle", "read") /\ Forgets(p)
  /\ UNCHANGED outputs

Read(p) ==
  /\ stage[p] \in Files \ {"whole"} /\ step[p] = "read"
  /\ file[Source[stage[p]]] \in Report
  /\ Holds(p, file[Source[stage[p]]])
  /\ Goes(p, stage[p], "open")
  /\ UNCHANGED outputs

\* The scripts end with the first program that fails.
ReadFails(p) ==
  /\ stage[p] \in Files \ {"whole"} /\ step[p] = "read"
  /\ file[Source[stage[p]]] \notin Report
  /\ Goes(p, "idle", "read") /\ Forgets(p)
  /\ UNCHANGED outputs

Open(p) ==
  /\ stage[p] \in Files /\ step[p] = "open"
  /\ file' = [file EXCEPT ![stage[p]] = Torn]
  /\ Goes(p, stage[p], "write") /\ Keeps
  /\ UNCHANGED <<archive, compared>>

Write(p) ==
  /\ stage[p] \in Files /\ step[p] = "write"
  /\ \E text \in Written(file[stage[p]], hand[p]) : file' = [file EXCEPT ![stage[p]] = text]
  /\ Goes(p, After(p), "read") /\ Forgets(p)
  /\ UNCHANGED <<archive, compared>>

-------------------------------------------------------------------------------
(***************************************************************************)
(* base_share_daily_rank_change_report.py.                                 *)
(***************************************************************************)
ReadCurrent(p) ==
  /\ At(p, "rank", "read")
  /\ file["plain"] \in Dated
  /\ Holds(p, file["plain"])
  /\ Goes(p, "rank", "prior")
  /\ UNCHANGED outputs

SlipThisDayToo(r) == {d \in 1..MaxDay : d <= r.date /\ archive[d] # None}

\* The dates of the archive before the report's,
Before(r) == {d \in 1..MaxDay : d < r.date /\ archive[d] # None}

SlipUnreadableIsNone(r) ==
  LET days == {d \in Before(r) : archive[d] # Torn}
  IN IF days = {} THEN {None} ELSE {archive[d] : d \in {e \in days : \A f \in days : f <= e}}

\* the archived report of the last of them, None when there is no date,
Priors(r) ==
  IF Before(r) = {} THEN {None}
  ELSE {archive[d] : d \in {e \in Before(r) : \A f \in Before(r) : f <= e}}

\* and whether it can be read and is older.
Comparable(q, r) == q = None \/ (q \in Dated /\ q.date < r.date)

SlipAlwaysArchive(p) ==
  /\ At(p, "rank", "prior")
  /\ \E q \in Priors(hand[p]) : Comparable(q, hand[p]) /\ prior' = [prior EXCEPT ![p] = q]
  /\ Goes(p, "rank", "archive")
  /\ UNCHANGED <<hand, outputs>>

\* The prior report is read and judged before the current one is archived, which it is
\* unless its date has a file.
ReadPrior(p) ==
  /\ At(p, "rank", "prior")
  /\ \E q \in Priors(hand[p]) : Comparable(q, hand[p]) /\ prior' = [prior EXCEPT ![p] = q]
  /\ Goes(p, "rank", IF archive[hand[p].date] = None THEN "archive" ELSE "open")
  /\ UNCHANGED <<hand, outputs>>

\* No report, one without a date, or a prior one that cannot be read or is not older:
\* the daily script ends, the other one goes on.
RankFails(p) ==
  /\ \/ At(p, "rank", "read") /\ file["plain"] \notin Dated
     \/ At(p, "rank", "prior") /\ \E q \in Priors(hand[p]) : ~Comparable(q, hand[p])
  /\ Goes(p, IF kind[p] = "eod" THEN "done" ELSE "idle", "read") /\ Forgets(p)
  /\ UNCHANGED outputs

\* shutil.copy2 opens the archive file
OpenArchive(p) ==
  /\ At(p, "rank", "archive")
  /\ archive' = [archive EXCEPT ![hand[p].date] = Torn]
  /\ Goes(p, "rank", "copy") /\ Keeps
  /\ UNCHANGED <<file, compared>>

SlipCopiesScan(p) ==
  /\ At(p, "rank", "copy")
  /\ \E text \in Written(archive[hand[p].date], file["whole"]) :
       archive' = [archive EXCEPT ![hand[p].date] = text]
  /\ Goes(p, "rank", "open") /\ Keeps
  /\ UNCHANGED <<file, compared>>

\* and copies what the ranking's file holds by now, read or not.
CopyArchive(p) ==
  /\ At(p, "rank", "copy")
  /\ \E text \in Written(archive[hand[p].date], file["plain"]) :
       archive' = [archive EXCEPT ![hand[p].date] = text]
  /\ Goes(p, "rank", "open") /\ Keeps
  /\ UNCHANGED <<file, compared>>

OpenCompared(p) ==
  /\ At(p, "rank", "open")
  /\ compared' = Torn
  /\ Goes(p, "rank", "write") /\ Keeps
  /\ UNCHANGED <<file, archive>>

WriteCompared(p) ==
  /\ At(p, "rank", "write")
  /\ compared' \in Written(compared, [cur |-> hand[p], prev |-> prior[p]])
  /\ Goes(p, After(p), "read") /\ Forgets(p)
  /\ UNCHANGED <<file, archive>>

-------------------------------------------------------------------------------
\* The phone kills the chain.
ChainKilled(p) ==
  /\ stage[p] \notin {"idle", "done"} /\ kills < MaxKills
  /\ kills' = kills + 1
  /\ stage' = [stage EXCEPT ![p] = "idle"]
  /\ step' = [step EXCEPT ![p] = "read"]
  /\ Forgets(p)
  /\ UNCHANGED <<day, outputs, kind>>

Rank(p) ==
  \/ ReadCurrent(p) \/ ReadPrior(p) \/ RankFails(p)
  \/ OpenArchive(p) \/ CopyArchive(p)
  \/ OpenCompared(p) \/ WriteCompared(p)

Run(p) ==
  \/ StartDaily(p) \/ StartEod(p) \/ StartAlone(p)
  \/ Scan(p) \/ ScanFails(p) \/ Read(p) \/ ReadFails(p) \/ Open(p) \/ Write(p)
  \/ Rank(p)

ArchivesNext == Publish \/ \E p \in Chains : Run(p) \/ ChainKilled(p)

ArchivesSpec == ArchivesInit /\ [][ArchivesNext]_archivesVars

\* cron starts the daily script again and again, and some of its scans sees the newest day.
ScanOfToday(p) == kind[p] = "daily" /\ Scan(p) /\ hand'[p].date = day
ArchivesFairSpec ==
  /\ ArchivesSpec
  /\ \A p \in Chains : WF_archivesVars(Run(p)) /\ SF_archivesVars(StartDaily(p)) /\ SF_archivesVars(ScanOfToday(p))

-------------------------------------------------------------------------------
ArchivesTypeOK ==
  /\ day \in 0..MaxDay
  /\ file \in [Files -> Report \cup {None, Torn}]
  /\ archive \in [1..MaxDay -> Report \cup {None, Torn}]
  /\ compared \in Comparison \cup {None, Torn}
  /\ kind \in [Chains -> ScriptKinds]
  /\ stage \in [Chains -> Stages] /\ step \in [Chains -> Steps]
  /\ hand \in [Chains -> Report \cup {None}]
  /\ prior \in [Chains -> Report \cup {None}]
  /\ \A p \in Chains :
       /\ stage[p] \in Files => step[p] \in {"read", "open", "write"}
       /\ stage[p] \in Files /\ step[p] # "read" => hand[p] \in Report
       /\ stage[p] = "rank" /\ step[p] # "read" => hand[p] \in Dated
       /\ stage[p] \in {"idle", "done"} => step[p] = "read"
  /\ kills \in 0..MaxKills

\* The file of a day in the archive holds a ranking of that day, or nothing that can be
\* read: the comparison finds the day before by the name (rank_change's prior_files).
ArchiveNamesItsDay ==
  \A d \in 1..MaxDay : archive[d] \in Report => archive[d].date = d

\* "A same-date rerun does not replace an existing archived snapshot" (rank_change, its
\* limitations): not when a later scan of the day comes to another ranking, and not when
\* the rerun follows a kill.
ArchiveIsKept ==
  [][\A d \in 1..MaxDay : archive[d] \in Report => archive'[d] = archive[d]]_archivesVars

\* Both sides of a comparison that can be read are in the archive: the prior one still
\* is what it was compared with, and the current day has its file.
ComparisonIsBacked ==
  compared \in Comparison =>
    /\ archive[compared.cur.date] # None
    /\ compared.prev # None =>
         /\ compared.prev.date \in 1..(compared.cur.date - 1)
         /\ archive[compared.prev.date] = compared.prev

\* A comparison is with the last archived day before its own, and a baseline only when
\* there is none (rank_change, prior_files[-1]).
ComparedWithLast ==
  [][compared' \in Comparison /\ compared' # compared =>
       \A d \in 1..(compared'.cur.date - 1) :
         archive[d] # None => compared'.prev # None /\ d <= compared'.prev.date]_archivesVars

\* A chain that ran to its end leaves one ranking in every file it writes; the comparison
\* is of that ranking, unless the script goes on without it.
ChainAgrees ==
  \A p \in Chains : stage[p] = "done" /\ kind[p] # "alone" =>
    /\ file["whole"] \in Report /\ file["plain"] = file["whole"]
    /\ kind[p] = "daily" => compared \in Comparison /\ compared.cur = file["plain"]

\* Once the rows of a new day are there it is compared ("after the arrival of a new date
\* the daily comparison is produced", the baseline's message), unless a kill has left the
\* archive with a file that cannot be read.
NewDayIsCompared ==
  day = MaxDay ~>
    \/ compared \in Comparison /\ compared.cur.date = MaxDay
    \/ [](\E d \in 1..(MaxDay - 1) : archive[d] = Torn)

\* After every evening, whatever was killed, the archive, the comparison and the files of
\* the chain tell of the rankings they were made from.
EveningIsSound == ArchiveNamesItsDay /\ ComparisonIsBacked /\ ChainAgrees
===============================================================================
