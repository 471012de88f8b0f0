----------------------------- MODULE ReportEvidence -----------------------------
(***************************************************************************)
(* What is left on disk of a TSETMC report, and who vouches for it.  The   *)
(* report engine writes the text, the snapshot, the archive of the         *)
(* universe and the audit one after the other (save_tsetmc_report); gate 6 *)
(* runs the engine, verifies the audit, sends the text and compares the    *)
(* hashes (gate6_runtime_verification.py, runtime_verification.py,         *)
(* bale_runtime_verification.py); github_runtime_evidence.py copies the    *)
(* files for publication.  Any request may run the engine meanwhile, and   *)
(* nothing is locked.  The hash of a text is the number of its report, the *)
(* hash of a snapshot the number of the report it was asked for.           *)
(* A definition named Slip... is a mistake that a change of the code could *)
(* make in the definition after it; each breaks a property stated below.   *)
(***************************************************************************)
EXTENDS Naturals, Sequences

CONSTANTS
  MaxReports,      \* bound: reports that are built
  MaxEngineKills   \* bound: engines that are killed

ASSUME EvidenceAssumption == MaxReports \in Nat /\ MaxEngineKills \in Nat

VARIABLES
  made,      \* of each report that was built: its snapshot, its rows, whether its audit passes
  text,      \* latest_report.txt: the report it is of
  cached,    \* tsetmc_first/latest_snapshot.json: its snapshot and how many rows of it
  archived,  \* history/tsetmc/<hash>.json of each snapshot: how many rows
  audit,     \* latest_audit.json: the report it is of
  engine,    \* each run of the engine: where it is and its report
  gate,      \* where gate 6 is, the text and the audit it read
  delivery,  \* bale_delivery_verification.json: the text that was sent, the report it names
  passed,    \* gate6_runtime_evidence.json: the report and the snapshot it names
  bundle,    \* what is copied for publication: the report it names, the text it holds
  stops,     \* engines that were killed
  mixed      \* an engine was killed, or ran while another or a reader of the files did

evidenceVars == <<made, text, cached, archived, audit, engine, gate, delivery, passed, bundle, stops, mixed>>
evidenceFiles == <<text, cached, archived, audit>>
gateVars == <<gate, delivery, passed>>

Engines == {"gate", "request", "collector"}
Numbers == 0..MaxReports
TornText == MaxReports + 1   \* a text no audit is of

NoRun == [at |-> "idle", report |-> 0]
NoGate == [at |-> "idle", text |-> 0, audit |-> 0]
NoDelivery == [status |-> "none", sent |-> 0, report |-> 0]
NoPass == [report |-> 0, snap |-> 0]
NoBundle == [at |-> "idle", named |-> 0, text |-> 0]

EvidenceInit ==
  /\ made = <<>> /\ text = 0 /\ audit = 0 /\ stops = 0 /\ mixed = FALSE
  /\ cached = [snap |-> 0, rows |-> "none"] /\ archived = [s \in Numbers |-> "none"]
  /\ engine = [e \in Engines |-> NoRun]
  /\ gate = NoGate /\ delivery = NoDelivery /\ passed = NoPass /\ bundle = NoBundle

Busy(e) == engine[e].at # "idle"
Of(e) == made[engine[e].report]
Sound(r) == r \in DOMAIN made /\ made[r].sound
SnapOf(r) == IF r \in DOMAIN made THEN made[r].snap ELSE 0

\* The files are being read: by gate 6 after its own engine, or for publication.
Reading == bundle.at \in {"named", "copied"} \/ gate.at \notin {"idle", "engine"}

-------------------------------------------------------------------------------
EngineAt(e, from, to) ==
  /\ engine[e].at = from
  /\ engine' = [engine EXCEPT ![e].at = to]
  /\ UNCHANGED <<made, gateVars, bundle, stops, mixed>>

\* _load_last_known_snapshot: the file is whole and has fifteen rows.
UsableRows == {"whole", "top"}

\* TSETMC answers, the snapshot kept since the market closed is served, or the last known one
\* takes its place; a request may be about one share only, whose rows are then the universe
\* that is kept.  The audit of the report will pass its contract, or not (a market watch
\* without its hash).  collect_tsetmc_history.py archives a universe and makes no report.
EngineBuilds(e) ==
  /\ ~Busy(e) /\ Len(made) < MaxReports
  /\ e = "gate" => gate.at = "engine"
  /\ \E of \in {[snap |-> Len(made) + 1, rows |-> "whole"]}
               \cup {[snap |-> made[r].snap, rows |-> "whole"] : r \in {q \in DOMAIN made : made[q].rows = "whole"}}
               \cup {c \in {cached} : c.rows \in UsableRows},
       share \in (IF e = "request" THEN BOOLEAN ELSE {FALSE}), sound \in BOOLEAN :
       /\ cached' = IF of.snap = Len(made) + 1 THEN of ELSE cached
       /\ made' = Append(made, [snap |-> of.snap, rows |-> of.rows, sound |-> sound,
                                universe |-> IF share THEN "share" ELSE of.rows])
  /\ engine' = [engine EXCEPT ![e] = [at |-> IF e = "collector" THEN "top" ELSE "built", report |-> Len(made')]]
  /\ mixed' = (mixed \/ Reading \/ \E o \in Engines : Busy(o))
  /\ UNCHANGED <<text, archived, audit, gateVars, bundle, stops>>

EngineWritesText(e) ==
  /\ EngineAt(e, "built", "text")
  /\ text' = engine[e].report
  /\ UNCHANGED <<cached, archived, audit>>

\* The snapshot of the report has the rows that are shown, fifteen or fewer.
EngineWritesTop(e) ==
  /\ EngineAt(e, "text", "top")
  /\ \E rows \in {"top", "fewer"} : cached' = [snap |-> Of(e).snap, rows |-> rows]
  /\ UNCHANGED <<text, archived, audit>>

Archive(e, rows) ==
  /\ engine[e].at = "top"
  /\ engine' = [engine EXCEPT ![e] = IF e = "collector" THEN NoRun ELSE [@ EXCEPT !.at = "archived"]]
  /\ archived' = [archived EXCEPT ![Of(e).snap] = IF @ = "none" THEN rows ELSE @]
  /\ UNCHANGED <<made, text, cached, audit, gateVars, bundle, stops, mixed>>

\* archive_universe_snapshot: the universe of the report; what is there is left as it is.
EngineArchives(e) == Archive(e, Of(e).universe)

\* The engine that gate 6 waits for is over.
Returns(e) == gate' = IF e = "gate" THEN [gate EXCEPT !.at = "verify"] ELSE gate

SlipOldAuditStands(e) ==
  /\ engine[e].at = "archived" /\ engine' = [engine EXCEPT ![e] = NoRun] /\ Returns(e)
  /\ audit' = IF SnapOf(audit) = Of(e).snap THEN audit ELSE engine[e].report
  /\ UNCHANGED <<made, text, cached, archived, delivery, passed, bundle, stops, mixed>>

EngineWritesAudit(e) ==
  /\ engine[e].at = "archived" /\ engine' = [engine EXCEPT ![e] = NoRun] /\ Returns(e)
  /\ audit' = engine[e].report
  /\ UNCHANGED <<made, text, cached, archived, delivery, passed, bundle, stops, mixed>>

\* The file it was about to write keeps what it held, or is cut off.
EngineKilled(e) ==
  /\ Busy(e) /\ stops < MaxEngineKills /\ stops' = stops + 1
  /\ \/ UNCHANGED evidenceFiles
     \/ engine[e].at = "built" /\ text' = TornText /\ UNCHANGED <<cached, archived, audit>>
     \/ engine[e].at = "text" /\ cached' = [snap |-> 0, rows |-> "torn"] /\ UNCHANGED <<text, archived, audit>>
     \/ /\ engine[e].at = "top" /\ archived[Of(e).snap] = "none"
        /\ archived' = [archived EXCEPT ![Of(e).snap] = "torn"] /\ UNCHANGED <<text, cached, audit>>
     \/ engine[e].at = "archived" /\ audit' = 0 /\ UNCHANGED <<text, cached, archived>>
  /\ engine' = [engine EXCEPT ![e] = NoRun]
  /\ gate' = IF e = "gate" THEN NoGate ELSE gate
  /\ mixed' = TRUE
  /\ UNCHANGED <<made, delivery, passed, bundle>>

-------------------------------------------------------------------------------
GateStands == UNCHANGED <<made, evidenceFiles, engine, bundle, stops>>

GateBegins ==
  /\ gate.at = "idle"
  /\ gate' = [NoGate EXCEPT !.at = "engine"]
  /\ UNCHANGED <<delivery, passed, mixed>> /\ GateStands

\* A step whose exit code is not zero ends the gate.
GateFails ==
  /\ gate.at \in {"verify", "read", "audit", "hash"}
  /\ gate' = NoGate
  /\ UNCHANGED <<delivery, passed, mixed>> /\ GateStands

GateGoes(from, to) ==
  /\ gate.at = from /\ gate'.at = to
  /\ mixed' = (mixed \/ \E e \in Engines : Busy(e))
  /\ UNCHANGED <<delivery, passed>> /\ GateStands

\* runtime_verification.py: the contract of the audit that is there.
VerifiesAudit == gate' = [gate EXCEPT !.at = "read"] /\ Sound(audit) /\ GateGoes("verify", "read")

\* bale_runtime_verification.py reads the text, the audit, and the text again for its hash.
ReadsText == text # 0 /\ gate' = [gate EXCEPT !.at = "audit", !.text = text] /\ GateGoes("read", "audit")

ReadsAudit == audit # 0 /\ gate' = [gate EXCEPT !.at = "hash", !.audit = audit] /\ GateGoes("audit", "hash")

ComparesHash ==
  /\ text = gate.audit /\ Sound(gate.audit)
  /\ gate' = [gate EXCEPT !.at = "send"] /\ GateGoes("hash", "send")

Sends ==
  /\ gate.at = "send"
  /\ \/ /\ delivery' = [status |-> "SUCCESS", sent |-> gate.text, report |-> gate.audit]
        /\ gate' = [NoGate EXCEPT !.at = "conclude"]
     \/ delivery' = [NoDelivery EXCEPT !.status = "FAIL"] /\ gate' = NoGate
  /\ UNCHANGED <<passed, mixed>> /\ GateStands

\* gate6: everything is read once more, and the evidence names the text and the snapshot.
Concludes ==
  /\ gate.at = "conclude" /\ gate' = NoGate
  /\ passed' = IF Sound(audit) /\ delivery.report = text /\ SnapOf(delivery.report) = SnapOf(audit)
               THEN [report |-> text, snap |-> SnapOf(audit)] ELSE passed
  /\ UNCHANGED <<delivery, mixed>> /\ GateStands

-------------------------------------------------------------------------------
BundleStands == UNCHANGED <<made, evidenceFiles, engine, gateVars, stops>>

\* build_evidence names what the audit names and copies the text.
BundleBegins ==
  /\ bundle.at \in {"idle", "queued"} /\ audit # 0 /\ text # 0
  /\ bundle' = [at |-> "named", named |-> audit, text |-> 0]
  /\ mixed' = (mixed \/ \E e \in Engines : Busy(e)) /\ BundleStands

BundleCopies ==
  /\ bundle.at = "named"
  /\ bundle' = [bundle EXCEPT !.at = "copied", !.text = text]
  /\ UNCHANGED mixed /\ BundleStands

\* publish; what could not be pushed is left with a marker, and nothing takes it up.
BundlePublished ==
  /\ bundle.at = "copied" /\ bundle' \in {NoBundle, [bundle EXCEPT !.at = "queued"]}
  /\ UNCHANGED mixed /\ BundleStands

EvidenceNext ==
  \/ \E e \in Engines :
       \/ EngineBuilds(e) \/ EngineWritesText(e) \/ EngineWritesTop(e) \/ EngineArchives(e)
       \/ EngineWritesAudit(e) \/ EngineKilled(e)
  \/ GateBegins \/ GateFails \/ VerifiesAudit \/ ReadsText \/ ReadsAudit \/ ComparesHash \/ Sends \/ Concludes
  \/ BundleBegins \/ BundleCopies \/ BundlePublished

EvidenceSpec == EvidenceInit /\ [][EvidenceNext]_evidenceVars

-------------------------------------------------------------------------------
\* A delivery is recorded as one of a report whose audit passed, whatever an engine that ran
\* meanwhile or was killed left in the files; and the text that was sent is the one of the
\* record unless one did: the text is read before it is hashed.
DeliveredWasAudited ==
  delivery.status = "SUCCESS" =>
    /\ Sound(delivery.report)
    /\ ~mixed => delivery.sent = delivery.report

\* The evidence of gate 6 names a report that was delivered and its own snapshot, whatever
\* was written over the text and the audit since.
PassIsOfOneRun == passed.report # 0 => Sound(passed.report) /\ passed.snap = SnapOf(passed.report)

\* Unless an engine was killed or two ran at once, the archive of a snapshot has the universe
\* it was archived from, never the rows that were shown.
ArchiveIsUncut ==
  ~mixed => \A s \in Numbers : archived[s] # "none" =>
              \E r \in DOMAIN made : made[r].snap = s /\ made[r].universe = archived[s]

\* What is published names its text, unless an engine was killed or ran meanwhile.
BundleIsOfOneRun == bundle.at \in {"copied", "queued"} /\ ~mixed => bundle.text = bundle.named

\* What was delivered, what was concluded, what is archived and what is published is each of
\* one run of the engine.
EvidenceIsOfOneRun == DeliveredWasAudited /\ PassIsOfOneRun /\ ArchiveIsUncut /\ BundleIsOfOneRun
===============================================================================
