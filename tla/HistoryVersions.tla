---------------------------- MODULE HistoryVersions ----------------------------
(***************************************************************************)
(* scripts/base_share_history_manager.py: it keeps a version of the two    *)
(* reports of the evening chain for every market date, and compares the    *)
(* last two dates.  A file is written in place and never again once it is  *)
(* there; the script may be killed anywhere, and the chain may rewrite a   *)
(* report between its being read and its being digested.  It is the other  *)
(* memory of the phone, beside that of CaseMemory.                         *)
(* A report is its date, 0 for none, and its text: what rows it has, how   *)
(* they are filtered and ranked, is left out.                              *)
(***************************************************************************)
EXTENDS CaseMemory

CONSTANTS
  ReportTexts,   \* what two reports of one date differ in
  MaxDates,      \* bound: market dates
  MaxRewritten,  \* bound: times the chain rewrites a report
  MaxManaged,    \* bound: runs of the manager
  MaxManagedKills   \* bound: runs that are killed

ASSUME VersionsAssumption ==
  /\ MaxDates \in Nat /\ MaxRewritten \in Nat /\ MaxManaged \in Nat /\ MaxManagedKills \in Nat
  /\ 0 \notin ReportTexts

VARIABLES
  latest,       \* the two reports, as they are on disk
  versions,     \* history_versions: the snapshot in each file, by its name
  comparisons,  \* comparisons: by the two dates
  manager,      \* the run: where it is, what it read, what of that is left, what it writes
  moved,        \* a report was rewritten after it was read and before it was digested
  rewritten, managed

versionsVars == <<latest, versions, comparisons, manager, moved, rewritten, managed>>

\* Files that are no JSON: a report, a snapshot, a comparison.
CutOff == [date |-> 0, text |-> 0]
CutSnapshot == [date |-> 0, text |-> 0, digest |-> <<>>]
CutComparison == <<>>

Sources == {"plain", "whole"}
EveningReports == [date : 0..MaxDates, text : ReportTexts]

\* One file more, or one written again.
WithFile(files, name, content) == [n \in DOMAIN files \cup {name} |-> IF n = name THEN content ELSE files[n]]

\* The first file of a date has its name, the others that of the digest, too.
FirstName(date) == <<date>>
DigestName(date, digest) == <<date, digest>>

ManagerIdle(runs) == [at |-> "idle", read |-> <<>>, left |-> <<>>, name |-> <<>>, runs |-> runs]

VersionsInit ==
  /\ latest = [f \in Sources |-> CutOff]
  /\ versions = <<>> /\ comparisons = <<>>
  /\ manager = ManagerIdle(0) /\ moved = FALSE
  /\ rewritten = 0 /\ managed = 0

\* The chain rewrites a report, or is killed in it.
Rewritten ==
  /\ rewritten < MaxRewritten /\ rewritten' = rewritten + 1
  /\ \E f \in Sources, r \in EveningReports \cup {CutOff} : latest' = [latest EXCEPT ![f] = r]
  /\ UNCHANGED <<versions, comparisons, manager, moved, managed>>

-------------------------------------------------------------------------------
ManagerIsAt(from, to) == manager.at = from /\ manager' = to
WritesNothing == UNCHANGED <<latest, versions, comparisons, moved, rewritten, managed>>

\* A report that cannot be read is no candidate.
WithCandidate(list, f) ==
  IF latest[f] = CutOff THEN list ELSE Append(list, [file |-> f, report |-> latest[f]])

ManagerBegins ==
  /\ manager.runs < MaxManaged
  /\ ManagerIsAt("idle", [ManagerIdle(manager.runs + 1) EXCEPT !.at = "second", !.read = WithCandidate(<<>>, "plain")])
  /\ WritesNothing

ReadsSecond ==
  /\ LET list == WithCandidate(manager.read, "whole")
     IN ManagerIsAt("second", [manager EXCEPT !.at = "next", !.read = list, !.left = list])
  /\ WritesNothing

Candidate == Head(manager.left)
NextIsReady == manager.at = "next" /\ manager.left # <<>>
CandidateDone == [manager EXCEPT !.at = "next", !.left = Tail(manager.left), !.name = <<>>]

\* make_snapshot, whose report has rows when it has a date: the report has been read before, the digest is of the file as it is by now.
Digest == <<Candidate.file, latest[Candidate.file]>>
KeptSnapshot == [date |-> Candidate.report.date, text |-> Candidate.report.text, digest |-> manager.name[2]]

\* NO_MARKET_DATE.
RejectsCandidate ==
  /\ NextIsReady /\ Candidate.report.date = 0
  /\ manager' = CandidateDone
  /\ WritesNothing

\* The first file of the date is of this very report.
AlreadyFirst(date) ==
  FirstName(date) \in DOMAIN versions /\ versions[FirstName(date)].digest = Digest

TargetFor(date) ==
  IF FirstName(date) \in DOMAIN versions THEN DigestName(date, Digest) ELSE FirstName(date)

\* A file that is there is never written again, readable or not.
KeepsCandidate ==
  /\ NextIsReady /\ Candidate.report.date # 0
  /\ LET date == Candidate.report.date
     IN IF AlreadyFirst(date) \/ TargetFor(date) \in DOMAIN versions
        THEN manager' = CandidateDone /\ UNCHANGED versions
        ELSE /\ manager' = [manager EXCEPT !.at = "write", !.name = <<TargetFor(date), Digest>>]
             /\ versions' = WithFile(versions, TargetFor(date), CutSnapshot)
  /\ moved' = (moved \/ latest[Candidate.file] # Candidate.report)
  /\ UNCHANGED <<latest, comparisons, rewritten, managed>>

WritesVersion ==
  /\ ManagerIsAt("write", CandidateDone)
  /\ versions' = WithFile(versions, manager.name[1], KeptSnapshot)
  /\ UNCHANGED <<latest, comparisons, moved, rewritten, managed>>

-------------------------------------------------------------------------------
Readable == {n \in DOMAIN versions : versions[n] # CutSnapshot}
DatesKept == {versions[n].date : n \in Readable}

\* The first readable file of a date in the order of the names: that of the date, else one
\* of those of a digest, whichever that is.
FirstOfDate(date) ==
  LET names == {n \in Readable : versions[n].date = date}
  IN IF FirstName(date) \in names THEN {FirstName(date)} ELSE names

LastDates == <<Max(DatesKept \ {Max(DatesKept)}), Max(DatesKept)>>

OpensComparison ==
  /\ manager.left = <<>> /\ Cardinality(DatesKept) > 1
  /\ \E n \in FirstOfDate(LastDates[1]), m \in FirstOfDate(LastDates[2]) :
       ManagerIsAt("next", [manager EXCEPT !.at = "compare", !.name = <<versions[n], versions[m]>>])
  /\ comparisons' = WithFile(comparisons, LastDates, CutComparison)
  /\ UNCHANGED <<latest, versions, moved, rewritten, managed>>

WritesComparison ==
  /\ ManagerIsAt("compare", ManagerIdle(manager.runs))
  /\ comparisons' = WithFile(comparisons, LastDates, manager.name)
  /\ UNCHANGED <<latest, versions, moved, rewritten, managed>>

NothingToCompare ==
  /\ manager.left = <<>> /\ Cardinality(DatesKept) < 2
  /\ ManagerIsAt("next", ManagerIdle(manager.runs))
  /\ WritesNothing

ManagerKilled ==
  /\ manager.at # "idle" /\ managed < MaxManagedKills /\ managed' = managed + 1
  /\ manager' = ManagerIdle(manager.runs)
  /\ UNCHANGED <<latest, versions, comparisons, moved, rewritten>>

VersionsNext ==
  \/ Rewritten \/ ManagerBegins \/ ReadsSecond \/ RejectsCandidate \/ KeepsCandidate \/ WritesVersion
  \/ OpensComparison \/ WritesComparison \/ NothingToCompare \/ ManagerKilled

VersionsSpec == VersionsInit /\ [][VersionsNext]_versionsVars

-------------------------------------------------------------------------------
\* When a run has gone through its reports, each dated one is in a file of its date, though
\* another report, or an unreadable file, had come first.  Not when a kill cut off the file
\* of its digest: that is there, and "Never overwrite an existing historical snapshot"; and
\* not once a report was rewritten between its being read and its being digested.
ReadIsKept ==
  manager.at \in {"next", "compare"} /\ manager.left = <<>> /\ ~moved =>
    \A i \in DOMAIN manager.read :
      LET seen == manager.read[i]
          digest == <<seen.file, seen.report>>
      IN seen.report.date # 0 =>
           \/ \E n \in Readable : versions[n] = [date |-> seen.report.date, text |-> seen.report.text, digest |-> digest]
           \/ DigestName(seen.report.date, digest) \in DOMAIN versions \ Readable

\* A file holds a snapshot of the date in its name, and of the digest there.
NamesAreTrue ==
  \A n \in Readable : versions[n].date = n[1] /\ (Len(n) = 2 => versions[n].digest = n[2])

\* A comparison is of two snapshots that still are in the files, of the dates in its name,
\* the older one first.
ComparedAreKept ==
  \A d \in DOMAIN comparisons :
    comparisons[d] # CutComparison =>
      \A i \in 1..2 : comparisons[d][i].date = d[i] /\ d[1] < d[2] /\ comparisons[d][i] \in {versions[n] : n \in Readable}

\* What the files remember of cases, snapshots and reports is what happened to them.
MemoryIsTrue ==
  /\ GoneInBoth /\ ReturnIsRecurring /\ SeenStands /\ StoredOnce /\ AgainIsTheSame
  /\ ReadIsKept /\ NamesAreTrue /\ ComparedAreKept
===============================================================================
