-------------------------- MODULE TsetmcFirstSource ---------------------------
(***************************************************************************)
(* The snapshot of the option market every report is built from.           *)
(* tsetmc_first_source.py: while the market is open a request asks TSETMC; *)
(* after the close the first request's answer is frozen in                 *)
(* closed_snapshot.json and serves every later request until the market    *)
(* opens again.  latest_snapshot.json keeps the last answer of TSETMC, to  *)
(* fall back to, until a report is saved: save_tsetmc_report then puts what*)
(* the report shows of its snapshot in the same file.  The listener, the   *)
(* report processes and the cron jobs all come here, with no lock between  *)
(* them, and write both files in place.                                    *)
(* A definition named Slip... is a mistake that a change of the code could *)
(* make in the definition after it; each breaks a property stated below.   *)
(***************************************************************************)
EXTENDS Integers, FiniteSets

CONSTANTS
  Procs,        \* processes that request snapshots
  Requests,     \* the requests they make, a subset of {"universe", "sample"}
  Answers,      \* what TSETMC may answer, a subset of AllAnswers
  LateTrades,   \* whether TSETMC's board may still move after the close
  None,         \* no file, no snapshot
  Torn,         \* a file that is not JSON: truncated, half written or overwritten
  MaxSession,   \* bound: trading sessions
  MaxBoard      \* bound: states of the board

\* How much of the universe an answer holds: all of it, at least 15 instruments of it,
\* fewer, none at all, or the request raises.
AllAnswers == {"full", "part", "few", "none", "error"}
Live == -1      \* the basis of a request made while the market is open

ASSUME Assumptions ==
  /\ Requests \subseteq {"universe", "sample"}
  /\ Answers \subseteq AllAnswers
  /\ LateTrades \in BOOLEAN
  /\ None # Torn
  /\ MaxSession \in Nat /\ MaxBoard \in Nat

Snapshot == [board : 0..MaxBoard, cover : {"full", "part", "few"}, stamped : BOOLEAN,
             captured : BOOLEAN, mode : {"live", "known"}]

ASSUME NotSnapshots == None \notin Snapshot /\ Torn \notin Snapshot

VARIABLES
  open,      \* the market is open
  session,   \* number of the last session that opened; its date is the closed basis
  board,     \* the state of the market that TSETMC shows
  cache,     \* latest_snapshot.json
  closed,    \* closed_snapshot.json: [snap, date]
  doing,     \* doing[p]: the next step of p's request
  request,   \* request[p]: the kind of p's request
  basis,     \* basis[p]: Live, or the session whose final state p wants
  got,       \* got[p]: the snapshot p has in hand, then the one it returned
  began,     \* history: the board at the start of p's request
  older      \* history: the requests under way when closed_snapshot.json was last written

marketVars == <<open, session, board>>
files == <<cache, closed, older>>
sourceVars == <<marketVars, files, doing, request, basis, got, began>>

-------------------------------------------------------------------------------
\* _snapshot_is_usable_as_closed: 15 instruments, and a time of TSETMC's or the mark
\* of a capture on a closed request.
Usable(s) == s \in Snapshot /\ s.cover # "few" /\ (s.stamped \/ s.captured)

\* A snapshot of a file is never presented as live.
LastKnown(s) == [s EXCEPT !.mode = "known"]

\* _load_closed_snapshot_for_date
IsFrozen(date) == closed \notin {None, Torn} /\ closed.date = date /\ Usable(closed.snap)

\* "universe" asks every flow and swallows the failure of each; "sample" asks flow 1,
\* keeps the first instruments only, and lets the failure through.
AnswersTo(r) == Answers \ (IF r = "universe" THEN {"error"} ELSE {"full"})

SourceInit ==
  /\ open = FALSE /\ session = 0 /\ board = 0
  /\ cache = None /\ closed = None
  /\ doing = [p \in Procs |-> "idle"]
  /\ request = [p \in Procs |-> "universe"]
  /\ basis = [p \in Procs |-> Live]
  /\ got = [p \in Procs |-> None]
  /\ began = [p \in Procs |-> 0] /\ older = {}

-------------------------------------------------------------------------------
(***************************************************************************)
(* The market.                                                             *)
(***************************************************************************)
Opens ==
  /\ ~open /\ session < MaxSession
  /\ open' = TRUE
  /\ session' = session + 1
  /\ UNCHANGED <<board, files, doing, request, basis, got, began>>

Closes ==
  /\ open
  /\ open' = FALSE
  /\ UNCHANGED <<session, board, files, doing, request, basis, got, began>>

Trade ==
  /\ open \/ LateTrades
  /\ board < MaxBoard
  /\ board' = board + 1
  /\ UNCHANGED <<open, session, files, doing, request, basis, got, began>>

-------------------------------------------------------------------------------
(***************************************************************************)
(* A request, build_tsetmc_snapshot.  p goes from step "from" to step      *)
(* "to" with snapshot s in hand; a request that raises has none.           *)
(***************************************************************************)
Goes(p, from, to, s) ==
  /\ doing[p] = from
  /\ doing' = [doing EXCEPT ![p] = to]
  /\ got' = [got EXCEPT ![p] = s]
  /\ UNCHANGED <<marketVars, request, basis, began>>

Begin(p) ==
  /\ doing[p] = "idle"
  /\ \E r \in Requests : request' = [request EXCEPT ![p] = r]
  /\ doing' = [doing EXCEPT ![p] = IF open THEN "fetch" ELSE "load"]
  /\ basis' = [basis EXCEPT ![p] = IF open THEN Live ELSE session]
  /\ got' = [got EXCEPT ![p] = None]
  /\ began' = [began EXCEPT ![p] = board]
  /\ older' = older \ {p}
  /\ UNCHANGED <<marketVars, cache, closed>>

SlipFrozenTwice(p) == Goes(p, "load", "fetch", None) /\ UNCHANGED files

UseFrozen(p) ==
  /\ IsFrozen(basis[p])
  /\ Goes(p, "load", "idle", LastKnown(closed.snap))
  /\ UNCHANGED files

NotFrozen(p) ==
  /\ ~IsFrozen(basis[p])
  /\ Goes(p, "load", "fetch", None)
  /\ UNCHANGED files

Fresh(cover, stamped) ==
  [board |-> board, cover |-> cover, stamped |-> stamped, captured |-> FALSE, mode |-> "live"]

\* TSETMC answers with instruments.
Fetch(p) ==
  /\ \E cover \in AnswersTo(request[p]) \cap {"full", "part", "few"}, stamped \in BOOLEAN :
       Goes(p, "fetch", "save", Fresh(cover, stamped))
  /\ UNCHANGED files

SlipEmptyIsLive(p) ==
  /\ "none" \in AnswersTo(request[p])
  /\ IF Usable(cache)
       THEN Goes(p, "fetch", "fetched", cache)
       ELSE Goes(p, "fetch", "save", Fresh("few", FALSE))
  /\ UNCHANGED files

\* TSETMC answers with no instrument, or every flow failed: the last known snapshot
\* takes the answer's place, whether or not the caller allows it; with none to take, the
\* answer is an empty snapshot.
FetchNone(p) ==
  /\ "none" \in AnswersTo(request[p])
  /\ IF Usable(cache)
       THEN Goes(p, "fetch", "fetched", LastKnown(cache))
       ELSE Goes(p, "fetch", "save", Fresh("few", FALSE))
  /\ UNCHANGED files

FetchRaises(p) ==
  /\ "error" \in AnswersTo(request[p])
  /\ Goes(p, "fetch", "idle", None)
  /\ UNCHANGED files

\* _build_live_snapshot, whatever TSETMC does.
BuildLive(p) ==
  /\ doing[p] = "fetch"
  /\ Fetch(p) \/ FetchNone(p) \/ FetchRaises(p)

\* What a file that p opened holds once p wrote s: s, or, when another process wrote it
\* since, what is left of that one's text after the end of s.
Written(file, s) == {s} \cup (IF file = Torn THEN {} ELSE {Torn})

\* _persist_snapshot; its failures are not reported.
OpenCache(p) ==
  /\ Goes(p, "save", "saving", got[p])
  /\ cache' = Torn /\ UNCHANGED <<closed, older>>

WriteCache(p) ==
  /\ Goes(p, "saving", "fetched", got[p])
  /\ cache' \in Written(cache, got[p]) /\ UNCHANGED <<closed, older>>

SaveFails(p) ==
  /\ \E from \in {"save", "saving"} : Goes(p, from, "fetched", got[p])
  /\ UNCHANGED files

\* While the market is open the request ends here.
ReturnLive(p) ==
  /\ basis[p] = Live
  /\ Goes(p, "fetched", "idle", got[p])
  /\ UNCHANGED files

Captured(s) == [s EXCEPT !.captured = TRUE, !.mode = "known"]

\* After the close what was captured is frozen if it is usable,
Capture(p) ==
  /\ doing[p] = "fetched" /\ basis[p] # Live /\ Usable(Captured(got[p]))
  /\ Goes(p, "fetched", "freeze", Captured(got[p]))
  /\ UNCHANGED files

\* and otherwise the last known snapshot is returned,
FallBack(p) ==
  /\ doing[p] = "fetched" /\ basis[p] # Live
  /\ ~Usable(Captured(got[p])) /\ Usable(cache)
  /\ Goes(p, "fetched", "idle", LastKnown(cache))
  /\ UNCHANGED files

\* or there is none: TSETMC_FINAL_STATE_UNAVAILABLE_AND_NO_PREVIOUS_VALID_SNAPSHOT.
Unavailable(p) ==
  /\ doing[p] = "fetched" /\ basis[p] # Live
  /\ ~Usable(Captured(got[p])) /\ ~Usable(cache)
  /\ Goes(p, "fetched", "idle", None)
  /\ UNCHANGED files

\* _persist_closed_snapshot; its failures are the request's.
OpenClosed(p) ==
  /\ Goes(p, "freeze", "freezing", got[p])
  /\ closed' = Torn /\ UNCHANGED <<cache, older>>

UnderWay == {p \in Procs : doing[p] \notin {"idle", "reporting"}}

SlipDateNow(p) ==
  /\ Goes(p, "freezing", "idle", got[p])
  /\ closed' \in Written(closed, [snap |-> got[p], date |-> session])
  /\ older' = UnderWay \ {p} /\ UNCHANGED cache

WriteClosed(p) ==
  /\ Goes(p, "freezing", "idle", got[p])
  /\ closed' \in Written(closed, [snap |-> got[p], date |-> basis[p]])
  /\ older' = UnderWay \ {p} /\ UNCHANGED cache

FreezeFails(p) ==
  /\ \E from \in {"freeze", "freezing"} : Goes(p, from, "idle", None)
  /\ UNCHANGED files

\* What a report shows of a snapshot: all of it, or its best rows.
Reported(s) ==
  {[s EXCEPT !.cover = c] : c \in IF s.cover = "few" THEN {"few"} ELSE {s.cover, "part", "few"}}

\* The request was for a report, which is saved: save_tsetmc_report opens the cache
OpenReport(p) ==
  /\ got[p] # None
  /\ Goes(p, "idle", "reporting", got[p])
  /\ cache' = Torn /\ UNCHANGED <<closed, older>>

\* and writes what the report shows.
WriteReport(p) ==
  /\ Goes(p, "reporting", "idle", None)
  /\ \E s \in Reported(got[p]) : cache' \in Written(cache, s)
  /\ UNCHANGED <<closed, older>>

\* The process is killed, by a time limit or by the phone, or the report's file cannot be
\* written.
SourceKilled(p) ==
  /\ doing[p] # "idle"
  /\ Goes(p, doing[p], "idle", None)
  /\ UNCHANGED files

Step(p) ==
  \/ Begin(p) \/ UseFrozen(p) \/ NotFrozen(p)
  \/ BuildLive(p)
  \/ OpenCache(p) \/ WriteCache(p) \/ SaveFails(p)
  \/ ReturnLive(p) \/ Capture(p) \/ FallBack(p) \/ Unavailable(p)
  \/ OpenClosed(p) \/ WriteClosed(p) \/ FreezeFails(p)
  \/ OpenReport(p) \/ WriteReport(p)
  \/ SourceKilled(p)

SourceNext == Opens \/ Closes \/ Trade \/ \E p \in Procs : Step(p)

SourceSpec == SourceInit /\ [][SourceNext]_sourceVars

-------------------------------------------------------------------------------
Steps == {"idle", "load", "fetch", "save", "saving", "fetched", "freeze", "freezing", "reporting"}

SourceTypeOK ==
  /\ open \in BOOLEAN /\ session \in 0..MaxSession /\ board \in 0..MaxBoard
  /\ cache \in Snapshot \cup {None, Torn}
  /\ closed \in [snap : Snapshot, date : 0..MaxSession] \cup {None, Torn}
  /\ doing \in [Procs -> Steps]
  /\ request \in [Procs -> {"universe", "sample"}]
  /\ basis \in [Procs -> {Live} \cup 0..MaxSession]
  /\ got \in [Procs -> Snapshot \cup {None}]
  /\ \A p \in Procs : doing[p] \in Steps \ {"idle", "load", "fetch"} => got[p] # None
  /\ began \in [Procs -> 0..MaxBoard]
  /\ older \subseteq Procs

\* A snapshot labelled LIVE_TSETMC_REFRESH is never older than the request it answers:
\* nothing that comes from a file keeps that label (_load_last_known_snapshot).
LiveMeansFresh ==
  \A p \in Procs :
    got[p] # None /\ got[p].mode = "live" => got[p].board >= began[p]

\* As long as the market is closed, the snapshot frozen for its last session is the state
\* in which TSETMC's board came to rest (build_tsetmc_snapshot, after the close).
FrozenIsFinal == ~open /\ IsFrozen(session) => closed.snap.board = board

\* Until the market opens, a snapshot frozen for the last session is replaced by requests
\* only that were under way when it was written, never by one that comes later.  The code
\* means to freeze once "and use it for all later reports until the next opening"
\* (build_tsetmc_snapshot); it has no lock, so requests that overlap do replace what
\* another one froze.
FrozenStays ==
  [][~open /\ IsFrozen(session) /\ closed' # closed =>
       \E p \in older : doing[p] \in {"freeze", "freezing"} /\ doing'[p] # doing[p]]_sourceVars
===============================================================================
