----------------------------- MODULE UniverseAudit ------------------------------
(***************************************************************************)
(* From the answers of TSETMC to the verdict on a report.  The universe is *)
(* asked for flow by flow, a flow that fails being passed over             *)
(* (tsetmc_adapter.py); tsetmc_first_source.py makes the snapshot, or takes*)
(* one that an earlier request or report left in latest_snapshot.json;     *)
(* report_engine.py binds the rows it shows to the quotes of TSETMC, names *)
(* the state of the market and writes the audit, and audit_integrity.py    *)
(* judges it.  A pair of options of one record gives a put and a call.     *)
(* A time is a number, a hash or an endpoint is there or not.              *)
(* A definition named Slip... is a mistake that a change of the code could *)
(* make in the definition after it; each breaks a property stated below.   *)
(***************************************************************************)
EXTENDS EngineCases

CONSTANTS
  FlowBoards,    \* what the flows of TSETMC list: for each a sequence of pairs
  FlowsReached,  \* which of the flows answer
  Befores,       \* what latest_snapshot.json was made of, see Cached
  FlowQuotes,    \* the canonical quote of each option: a time, NoTime, or Down
  Enough         \* bound: the rows a closed snapshot needs (15 in the code)

ASSUME UniverseAssumption ==
  /\ Enough \in Nat \ {0}
  /\ FlowBoards \subseteq Seq(Seq([put : STRING, call : STRING, time : Int]))
  /\ \A before \in Befores : before.board \in Seq(Seq([put : STRING, call : STRING, time : Int]))

NoTime == -1   \* a quote without a time
Down == -2     \* the request of a quote fails

-------------------------------------------------------------------------------
\* The options of a flow, each with its place: of a record the put, then the call, which may
\* both be without a name.
OptionPlaces(pairs) == 1..(2 * Len(pairs))
OptionAt(pairs, n) ==
  LET pair == pairs[(n + 1) \div 2]
  IN [id |-> IF n % 2 = 1 THEN pair.put ELSE pair.call, time |-> pair.time]
NamedIn(pairs) == {OptionAt(pairs, n).id : n \in OptionPlaces(pairs)} \ {""}

Ids(rows) == {rows[i].id : i \in DOMAIN rows}

\* An option is added unless it is without a name, or was seen.
Taken(rows, option) == IF option.id \in Ids(rows) \cup {""} THEN rows ELSE Append(rows, option)

\* The rows, after the options of a flow in their order.
FlowTaken(rows, pairs) ==
  LET t[n \in 0..(2 * Len(pairs))] == IF n = 0 THEN rows ELSE Taken(t[n - 1], OptionAt(pairs, n))
  IN t[2 * Len(pairs)]

NoFlows == [rows |-> <<>>, evidence |-> <<>>]

SlipSeenPerFlow(universe, pairs, answers) ==
  IF answers
  THEN [rows |-> universe.rows \o FlowTaken(<<>>, pairs), evidence |-> Append(universe.evidence, "SUCCESS")]
  ELSE [universe EXCEPT !.evidence = Append(@, "FAILED")]

\* One flow more: what the flows before it gave, or the flow itself, is not taken again.
WithFlow(universe, pairs, answers) ==
  IF answers
  THEN [rows |-> FlowTaken(universe.rows, pairs), evidence |-> Append(universe.evidence, "SUCCESS")]
  ELSE [universe EXCEPT !.evidence = Append(@, "FAILED")]

UniverseOf(board, reached) ==
  LET u[k \in 0..Len(board)] ==
        IF k = 0 THEN NoFlows ELSE WithFlow(u[k - 1], board[k], k \in reached)
  IN u[Len(board)]

\* The market watch is dated by the last flow that answered.
RetrievedAt(evidence) == IF "SUCCESS" \in {evidence[k] : k \in DOMAIN evidence} THEN "answer" ELSE ""

-------------------------------------------------------------------------------
\* The snapshot of a universe: its evidence names each option of it once.
IdsIn(rows) == [i \in DOMAIN rows |-> rows[i].id]
LiveSnapshot(universe) ==
  [rows |-> universe.rows, mode |-> "LIVE_TSETMC_REFRESH", flows |-> universe.evidence,
   retrieved |-> RetrievedAt(universe.evidence), identities |-> IdsIn(universe.rows), asked |-> "universe"]

\* What latest_snapshot.json holds: a universe; the rows of one that a report showed, under
\* the evidence of all; or the options of a flow that was asked alone, where nobody looks
\* for doubles; none if there is no file.
Cached(before) ==
  LET whole == [LiveSnapshot(UniverseOf(before.board, before.reached)) EXCEPT !.mode = "LAST_KNOWN_TSETMC_SNAPSHOT"]
      pairs == before.board[before.flow]
      listed == [n \in OptionPlaces(pairs) |-> OptionAt(pairs, n)] \o <<>>
      one == SelectSeq(listed, LAMBDA row : row.id # "")
  IN CASE before.of = "universe" -> whole
       [] before.of = "report" -> [whole EXCEPT !.rows = SelectSeq(@, LAMBDA row : row.id \in before.shown)]
       [] before.of = "flow" -> [whole EXCEPT !.rows = one, !.flows = <<>>, !.retrieved = "answer",
                                              !.identities = IdsIn(one), !.asked = "flow"]
       [] OTHER -> [whole EXCEPT !.rows = <<>>]

\* _snapshot_is_usable_as_closed, of snapshots with a time of TSETMC's or a capture's mark.
UsableAsClosed(snapshot) == Cardinality(Ids(snapshot.rows)) >= Enough

\* The snapshot that is at hand when a report is asked for.  The file takes the place of an
\* answer without any instrument, in the session too; of a closed one with too few only if
\* it was not overwritten with that answer.
CachedIsTaken(in, universe) ==
  /\ UsableAsClosed(Cached(in.before))
  /\ \/ universe.rows = <<>>
     \/ ~in.open /\ Len(universe.rows) < Enough /\ ~in.saved

SnapshotOf(in) ==
  LET universe == UniverseOf(in.board, in.reached)
      live == LiveSnapshot(universe)
  IN IF CachedIsTaken(in, universe) THEN Cached(in.before)
     ELSE IF in.open THEN live
     ELSE [live EXCEPT !.mode = IF Len(universe.rows) < Enough THEN "RAISES" ELSE "LAST_KNOWN_TSETMC_SNAPSHOT"]

\* A row that is shown is dated by its canonical quote, and by nothing else.
Quoted(row, quote) == [row EXCEPT !.time = IF quote \in {NoTime, Down} THEN NoTime ELSE quote]

\* Only a live snapshot asks for quotes; the rows of a closed one keep their own times.
Displayed(in, snapshot) ==
  LET shown == SubSeq(snapshot.rows, 1, IF Len(snapshot.rows) < in.limit THEN Len(snapshot.rows) ELSE in.limit)
  IN IF snapshot.mode = "LIVE_TSETMC_REFRESH" /\ in.ranked
     THEN [i \in DOMAIN shown |-> Quoted(shown[i], in.quotes[shown[i].id])]
     ELSE shown

TimesOf(rows) == {rows[i].time : i \in DOMAIN rows} \ {NoTime}

MarketState(in, snapshot) ==
  LET times == TimesOf(Displayed(in, snapshot))
  IN IF snapshot.mode = "LAST_KNOWN_TSETMC_SNAPSHOT"
     THEN IF in.open THEN "SESSION_OPEN_USING_LAST_KNOWN_TSETMC" ELSE "OFFMARKET_USING_LAST_KNOWN_TSETMC"
     ELSE IF ~in.open THEN "OFFMARKET"
     ELSE IF times = {} THEN "SESSION_OPEN_TIMESTAMP_UNAVAILABLE"
     ELSE IF Cardinality(times) = 1 THEN "SESSION_OPEN_BUT_MOVEMENT_NOT_PROVEN"
     ELSE "SESSION_OPEN_WITH_MULTIPLE_SOURCE_TIMESTAMPS"

\* save_tsetmc_report: the rows that are counted are the shown ones, the evidence is of all.
AuditOf(in, snapshot) ==
  [mode |-> snapshot.mode, rows |-> Len(Displayed(in, snapshot)), retrieved |-> snapshot.retrieved,
   identities |-> snapshot.identities, flows |-> snapshot.flows,
   scoring |-> IF in.ranked THEN "TSETMC_ECONOMIC_SCORING" ELSE "OFF_FIELD_EVIDENCE_GATE_OPEN",
   ranking |-> IF in.ranked THEN "TSETMC_EVIDENCE_RANKING" ELSE "OFF"]

\* verify_audit: the failures it finds in an audit of a TSETMC report.
AuditFailures(audit) ==
  LET Fails(name, when) == IF when THEN {name} ELSE {}
  IN Fails("TSETMC_DATA_MODE_INVALID", audit.mode \notin {"LIVE_TSETMC_REFRESH", "LAST_KNOWN_TSETMC_SNAPSHOT"})
     \cup Fails("SCORING_STATUS_INVALID",
                audit.scoring \notin {"OFF_FIELD_EVIDENCE_GATE_OPEN", "TSETMC_EVIDENCE_RANKING", "TSETMC_ECONOMIC_SCORING"})
     \cup Fails("RANKING_STATUS_INVALID", audit.ranking \notin {"OFF", "TSETMC_EVIDENCE_RANKING"})
     \cup Fails("MARKET_WATCH_EVIDENCE_INCOMPLETE", audit.retrieved = "")
     \cup Fails("BEST_LIMITS_IDENTITY_DUPLICATE_OR_MISSING", ~IsInjective(audit.identities))

\* The universe that is asked for, the snapshot, and what the report and its audit say of it.
UniverseCalled ==
  /\ NotCalled
  /\ \E board \in FlowBoards, reached \in FlowsReached, quotes \in FlowQuotes, before \in Befores,
        open, saved, ranked \in BOOLEAN :
       Given("universe", [board |-> board, reached |-> reached \cap DOMAIN board, quotes |-> quotes, before |-> before,
                          open |-> open, saved |-> saved, ranked |-> ranked, limit |-> 2])

UniverseSpec == CasesInit /\ [][UniverseCalled]_case

-------------------------------------------------------------------------------
InUniverse == case.engine = "universe" /\ SnapshotOf(case.in).mode # "RAISES"

\* An option that TSETMC lists and the snapshot misses is of flows that failed only, and the
\* evidence of the snapshot names each of them.  A part of the market passes for the whole
\* only with a last known snapshot, in the place of an answer that could not serve.
PartIsTold ==
  InUniverse =>
    LET in == case.in
        snapshot == SnapshotOf(in)
    IN \A k \in DOMAIN in.board :
         ~(NamedIn(in.board[k]) \subseteq Ids(snapshot.rows)) =>
           \/ k \in DOMAIN snapshot.flows /\ snapshot.flows[k] = "FAILED"
           \/ /\ snapshot = Cached(in.before) /\ snapshot.mode # "LIVE_TSETMC_REFRESH"
              /\ Len(UniverseOf(in.board, in.reached).rows) < Enough

\* The audit of a universe passes exactly if some flow of it was answered, and that of a
\* flow asked alone if it lists no option twice: what the source and the report engine
\* write never breaks the rest of the contract that is verified, overlapping flows, a file
\* with a report's rows and a full report of few rows included, and an outage never passes
\* for a market.
PassMeansAnswered ==
  InUniverse =>
    LET snapshot == SnapshotOf(case.in)
    IN AuditFailures(AuditOf(case.in, snapshot)) = {} <=>
         \/ snapshot.asked = "universe" /\ "SUCCESS" \in {snapshot.flows[k] : k \in DOMAIN snapshot.flows}
         \/ snapshot.asked = "flow" /\ IsInjective(snapshot.identities)

\* A report tells of several observation times only if the session is open, the data live, and
\* the canonical quotes of two options it shows bear different times.
MovementIsObserved ==
  (InUniverse /\ case.in.ranked /\ MarketState(case.in, SnapshotOf(case.in)) = "SESSION_OPEN_WITH_MULTIPLE_SOURCE_TIMESTAMPS") =>
    LET shown == Displayed(case.in, SnapshotOf(case.in))
    IN /\ case.in.open
       /\ \E i, j \in DOMAIN shown :
            /\ case.in.quotes[shown[i].id] # case.in.quotes[shown[j].id]
            /\ {case.in.quotes[shown[i].id], case.in.quotes[shown[j].id]} \cap {NoTime, Down} = {}

\* The evidence of a snapshot tells what of the market was seen, and when.
UniverseIsTold == PartIsTold /\ PassMeansAnswered /\ MovementIsObserved
===============================================================================
