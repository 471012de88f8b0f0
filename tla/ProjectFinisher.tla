---------------------------- MODULE ProjectFinisher ----------------------------
(***************************************************************************)
(* scripts/project_finisher_agent.py: a worker that runs the report and    *)
(* its two checks in cycles, keeps what it found in a state file under     *)
(* git, and tells the operator about it over Bale.  The file is replaced   *)
(* atomically, but git and Bale fail and the phone kills the worker        *)
(* between any two of its effects; whoever starts it next reads the file.  *)
(* One worker at a time is assumed here (WorkerFiles looks at that).       *)
(* A definition named Slip... is a mistake that a change of the code could *)
(* make in the definition after it; each breaks a property stated below.   *)
(***************************************************************************)
EXTENDS Naturals, Sequences

CONSTANTS
  Diagnostics,   \* what the diagnostics may say while G7-5 is open
  MaxFaults   \* bound: kills, and calls of git and Bale that fail

ASSUME FaultAssumption == MaxFaults \in Nat

VARIABLES
  state,    \* PROJECT_FINISHER_STATE.json
  origin,  \* the same file on origin/main
  pushed,  \* origin/main has the file as it stands: updated_at tells every write from the others
  worker,  \* "dead", "sleep" after a cycle, or the stretch of one the worker is in
  todo,    \* the effects the cycle still has before it
  process,  \* the process the worker runs in: Python salts hash() in each anew
  heard,    \* the kinds of message Bale took
  faults

finisherVars == <<state, origin, pushed, worker, todo, process, heard, faults>>

Key(kind, what, salt) == [kind |-> kind, what |-> what, salt |-> salt]
NoKey == Key("none", "none", 0)
MilestoneKey == Key("MILESTONE", "TRACK_A_SCREENING", 0)
RuntimeKey == Key("FINISHER_RUNTIME", "none", 0)
FinisherStages == {"REPORT_RUNTIME", "RUNTIME_VERIFICATION", "PROJECT_COMPLETION_AUDIT"}

FinisherInit ==
  /\ state = [status |-> "NEW", gate |-> "NEW", about |-> NoKey, released |-> FALSE,
             full |-> "NONE", g7 |-> "NONE", key |-> NoKey, notified |-> FALSE, receipt |-> "NONE"]
  /\ origin = state /\ pushed = TRUE
  /\ worker = "dead" /\ todo = <<>> /\ process = 0
  /\ heard = {} /\ faults = 0

-------------------------------------------------------------------------------
\* The effects of a cycle: write_state(**new), git_record, notify_on_change(key), and the
\* git_record of the verified commit, whose failure is passed over.
Save(new) == [op |-> "save", new |-> new, key |-> NoKey]
RecordInGit == [op |-> "record", new |-> <<>>, key |-> NoKey]
NotifyOfChange(key) == [op |-> "notify", new |-> <<>>, key |-> key]
RecordVerified == [op |-> "verified", new |-> <<>>, key |-> NoKey]

\* write_state: the file with the fields of new replaced.
Updated(new) == [f \in DOMAIN state |-> IF f \in DOMAIN new THEN new[f] ELSE state[f]]

FinisherStarts ==
  /\ worker = "dead"
  /\ worker' = "begin" /\ todo' = <<>> /\ process' = process + 1
  /\ UNCHANGED <<state, origin, pushed, heard, faults>>

\* What a cycle finds reached, whatever gate the last one ended at.
Reached ==
  CASE state.released /\ state.g7 = "VERIFIED" -> "TRACK_CDE_RELEASE"
    [] state.released /\ state.g7 # "VERIFIED" -> "TRACK_B_VALIDATION"
    [] OTHER -> "TRACK_A_RUNTIME"

SlipBeginAgain ==
  /\ worker \in {"begin", "sleep"}
  /\ state' = Updated([status |-> "RUNNING", gate |-> "TRACK_A_RUNTIME", about |-> NoKey])
  /\ worker' = "stages" /\ pushed' = FALSE
  /\ UNCHANGED <<origin, todo, process, heard, faults>>

CycleBegins ==
  /\ worker \in {"begin", "sleep"}
  /\ state' = Updated([status |-> "RUNNING", gate |-> Reached, about |-> NoKey])
  /\ worker' = "stages" /\ pushed' = FALSE
  /\ UNCHANGED <<origin, todo, process, heard, faults>>

CycleGoes(effects) ==
  /\ worker = "stages" /\ worker' = "cycle" /\ todo' = effects
  /\ UNCHANGED <<state, origin, pushed, process, heard, faults>>

\* A stage fails: the key of the message is salted.
StageFails ==
  \E stage \in FinisherStages :
    LET key == Key("FAIL", stage, process)
    IN CycleGoes(<<Save([status |-> "BLOCKED", gate |-> stage, about |-> key]), RecordInGit,
              NotifyOfChange(key), RecordInGit>>)

\* project_completion_audit.py: a receipt that is not the text of a failure.
Delivered == state.receipt \notin {"NONE", "FAILED", "MISSING"}

SlipReadAfterRelease == TRUE

\* Read before the release is written.
AlreadyReleased == state.released

Release(g7) ==
  Save([status |-> "MILESTONE_COMPLETE", released |-> TRUE, full |-> "IN_PROGRESS", g7 |-> g7,
        gate |-> IF g7 = "VERIFIED" THEN "TRACK_CDE_RELEASE" ELSE "TRACK_B_VALIDATION"])

\* All three stages pass and so does the verification: the milestone, told once.  The
\* audit is complete when the report is, and the receipt of an earlier message is there.
AllPass ==
  \E g7 \in {"OPEN", "VERIFIED"}, reported \in BOOLEAN :
    CycleGoes(<<Release(g7)>>
         \o (IF reported /\ Delivered
             THEN <<Save([full |-> "COMPLETE", gate |-> "PROJECT_COMPLETE"])>> ELSE <<>>)
         \o <<RecordInGit>>
         \o (IF g7 = "VERIFIED" THEN <<RecordVerified>> ELSE <<>>)
         \o (IF AlreadyReleased THEN <<>> ELSE <<NotifyOfChange(MilestoneKey), RecordInGit>>))

\* Somebody ran the verification again and its file says FAIL by now.
Progress ==
  \E e \in Diagnostics :
    LET key == Key("G7-5-STATE", e, 0)
    IN CycleGoes(<<Save([status |-> "IN_PROGRESS", gate |-> "G7-5", about |-> key]), RecordInGit,
              NotifyOfChange(key), RecordInGit>>)

\* The evidence is not JSON, a stage runs out of time: what worker does about an exception.
Handled ==
  <<Save([status |-> "BLOCKED", gate |-> "FINISHER_RUNTIME", about |-> RuntimeKey]), RecordInGit,
    NotifyOfChange(RuntimeKey), RecordInGit>>

StagesRaise ==
  /\ faults < MaxFaults /\ faults' = faults + 1
  /\ worker = "stages" /\ worker' = "handler" /\ todo' = Handled
  /\ UNCHANGED <<state, origin, pushed, process, heard>>

InCycle == worker \in {"cycle", "handler"}
NextEffect(op) == InCycle /\ todo # <<>> /\ Head(todo).op = op
EffectDone == todo' = Tail(todo) /\ UNCHANGED <<worker, process>>

DoSave ==
  /\ NextEffect("save") /\ EffectDone
  /\ state' = Updated(Head(todo).new) /\ pushed' = FALSE
  /\ UNCHANGED <<origin, heard, faults>>

\* add, commit, fetch, rebase, push; the last one twice when somebody else pushed.
DoRecord ==
  /\ InCycle /\ todo # <<>> /\ Head(todo).op \in {"record", "verified"} /\ EffectDone
  /\ origin' = state /\ pushed' = TRUE
  /\ UNCHANGED <<state, heard, faults>>

CycleRaises ==
  /\ worker' = IF worker = "cycle" THEN "handler" ELSE "sleep"
  /\ todo' = IF worker = "cycle" THEN Handled ELSE <<>>
  /\ UNCHANGED process

RecordFails ==
  /\ NextEffect("record") /\ faults < MaxFaults /\ faults' = faults + 1
  /\ CycleRaises
  /\ UNCHANGED <<state, origin, pushed, heard>>

VerifiedFails ==
  /\ NextEffect("verified") /\ faults < MaxFaults /\ faults' = faults + 1 /\ EffectDone
  /\ UNCHANGED <<state, origin, pushed, heard>>

\* notify_on_change: nothing to tell that was not told last.
AlreadyTold(key) == state.key = key /\ state.notified

TellNothing ==
  /\ NextEffect("notify") /\ AlreadyTold(Head(todo).key) /\ EffectDone
  /\ UNCHANGED <<state, origin, pushed, heard, faults>>

\* Bale takes the message; the file learns of it afterwards.
TellBale ==
  /\ NextEffect("notify") /\ ~AlreadyTold(Head(todo).key)
  /\ heard' = heard \cup {Head(todo).key.kind}
  /\ todo' = <<Save([notified |-> TRUE, receipt |-> "RECEIPT", key |-> Head(todo).key])>> \o Tail(todo)
  /\ UNCHANGED <<state, origin, pushed, worker, process, faults>>

\* Bale fails or there are no credentials; the key of the file stays.
TellFails ==
  /\ NextEffect("notify") /\ ~AlreadyTold(Head(todo).key)
  /\ faults < MaxFaults /\ faults' = faults + 1
  /\ \E why \in {"FAILED", "MISSING"} :
       todo' = <<Save([notified |-> FALSE, receipt |-> why])>> \o Tail(todo)
  /\ UNCHANGED <<state, origin, pushed, worker, process, heard>>

EndCycle ==
  /\ InCycle /\ todo = <<>>
  /\ worker' = "sleep"
  /\ UNCHANGED <<state, origin, pushed, todo, process, heard, faults>>

FinisherKilled ==
  /\ worker # "dead" /\ faults < MaxFaults /\ faults' = faults + 1
  /\ worker' = "dead" /\ todo' = <<>>
  /\ UNCHANGED <<state, origin, pushed, process, heard>>

FinisherWorks ==
  \/ CycleBegins \/ StageFails \/ AllPass \/ Progress \/ StagesRaise
  \/ DoSave \/ DoRecord \/ RecordFails \/ VerifiedFails
  \/ TellNothing \/ TellBale \/ TellFails \/ EndCycle

FinisherNext == FinisherStarts \/ FinisherWorks \/ FinisherKilled

FinisherSpec == FinisherInit /\ [][FinisherNext]_finisherVars

-------------------------------------------------------------------------------
Keys == {NoKey, MilestoneKey, RuntimeKey}
        \cup {Key("FAIL", s, r) : s \in FinisherStages, r \in 1..(MaxFaults + 1)}
        \cup {Key("G7-5-STATE", e, 0) : e \in Diagnostics}

FinisherTypeOK ==
  /\ {state, origin} \subseteq
       [status : {"NEW", "RUNNING", "BLOCKED", "MILESTONE_COMPLETE", "IN_PROGRESS"},
        gate : FinisherStages \cup {"NEW", "TRACK_A_RUNTIME", "TRACK_B_VALIDATION", "TRACK_CDE_RELEASE",
                            "PROJECT_COMPLETE", "G7-5", "FINISHER_RUNTIME"},
        about : Keys, released : BOOLEAN, full : {"NONE", "IN_PROGRESS", "COMPLETE"},
        g7 : {"NONE", "OPEN", "VERIFIED"}, key : Keys, notified : BOOLEAN,
        receipt : {"NONE", "RECEIPT", "FAILED", "MISSING"}]
  /\ pushed \in BOOLEAN
  /\ worker \in {"dead", "begin", "sleep", "stages", "cycle", "handler"}
  /\ \A i \in DOMAIN todo : todo[i].op \in {"save", "record", "verified", "notify"}
  /\ process \in 0..(MaxFaults + 1)
  /\ heard \subseteq {k.kind : k \in Keys}
  /\ faults \in 0..MaxFaults

\* "A new cycle must not regress the canonical state back to Track A" (the comment of
\* cycle): not after a failed stage, an exception or a kill, here or on origin.
ReleaseStands ==
  [][(state.released => state'.released /\ state'.gate # "TRACK_A_RUNTIME")
     /\ (origin.released => origin'.released)]_finisherVars

\* The operator is told of the milestone, once it is pushed and the worker rests, unless
\* something failed: nothing tries again.
MilestoneIsTold ==
  worker = "sleep" /\ state.released /\ faults = 0 => MilestoneKey.kind \in heard /\ pushed

\* When the worker rests in a state it tells of, and the file says so and git has it, the
\* operator was told of that very state, not of the one before (a kill between Bale's answer
\* and the file may have put another message after it).
ToldOfThisState ==
  worker = "sleep" /\ state.status \in {"BLOCKED", "IN_PROGRESS"} /\ state.notified /\ pushed
    => state.key = state.about /\ state.about.kind \in heard

\* The project is not called complete before a message reached the operator.
CompleteAfterDelivery == state.full = "COMPLETE" => heard # {}


\* What the operator is told of, what the file says of it and what git has agree.
OperatorKnows == FinisherTypeOK /\ MilestoneIsTold /\ ToldOfThisState /\ CompleteAfterDelivery
===============================================================================
