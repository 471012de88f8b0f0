----------------------------- MODULE FinisherProofs ----------------------------
(***************************************************************************)
(* Proofs about the workers of the scripts (WorkerFiles), for any number   *)
(* of process ids, of launchers that act at the same time and of kills,    *)
(* and about the project finisher (ProjectFinisher), for any number of     *)
(* calls of git and Bale that fail and whatever the diagnostics may say.   *)
(***************************************************************************)
EXTENDS WorkerFiles, ProjectFinisher, SequenceTheorems, TLAPS

AtMostOne == \A p, q \in Workers : p = q

\* One launcher is under way at most; as long as it has not spawned nobody is at work, and
\* then the only worker is the one it spawned; when none is under way the file names the
\* worker.
LauncherInv ==
  /\ \A l, m \in OnTheWay : l = m
  /\ \A l \in OnTheWay : launcher[l] # "write" => Workers = {}
  /\ \A l \in OnTheWay : launcher[l] = "write" => script # "finisher" /\ \A p \in Workers : p = child[l]
  /\ OnTheWay = {} =>
       \A p \in Workers : idFile = p \/ (script = "finisher" /\ program[p] = "born")

\* Who came to its end with no launcher about told how, and nobody has told anything since.
EndInv ==
  \A p \in WorkerIds : program[p] = "ending" /\ ~early =>
    NoLauncher /\ (script # "finisher" => statusFile \in Final)

Kept == AtMostOne /\ LauncherInv /\ EndInv

WorkerInv == WorkerTypeOK /\ (~raced => Kept)

-------------------------------------------------------------------------------
\* The variables keep their types.
LEMMA TypeStep ==
  ASSUME WorkerTypeOK, [WorkerNext]_workerVars
  PROVE  WorkerTypeOK'
<1> USE NoIdAssumption, StartAssumption
    DEF WorkerTypeOK, Scripts, Tools, Working, Final, Turns, Stays, Moves, Looks, bounds
<1>1. ASSUME NEW l \in Launchers, LaunchWork(l) PROVE WorkerTypeOK'
  <2>1. raced' \in BOOLEAN
    <3> HIDE DEF WorkerTypeOK, Working
    <3>1. raced' = (IF NoLauncher /\ Workers = {} THEN FALSE ELSE raced \/ Unnamed \/ OnTheWay # {})
      BY <1>1 DEF LaunchWork
    <3> QED BY <3>1
  <2>2. launcher' \in [Launchers -> {"none", "stale", "announce", "spawn", "write", "tell"}]
    BY <1>1 DEF LaunchWork
  <2>3. starts' \in 0..MaxStarts BY <1>1 DEF LaunchWork
  <2> QED BY <1>1, <2>1, <2>2, <2>3 DEF LaunchWork
<1>2. ASSUME NEW l \in Launchers, Spawn(l) PROVE WorkerTypeOK'
  <2>1. PICK p \in WorkerIds : program' = [program EXCEPT ![p] = "born"]
          /\ child' = [child EXCEPT ![l] = IF script = "finisher" THEN NoId ELSE p]
    BY <1>2 DEF Spawn
  <2>2. program' \in [WorkerIds -> Working \cup {"free", "other"}] BY <2>1
  <2>3. child' \in [Launchers -> WorkerIds \cup {NoId}] BY <2>1
  <2>4. launcher' \in [Launchers -> {"none", "stale", "announce", "spawn", "write", "tell"}]
    BY <1>2 DEF Spawn
  <2> QED BY <1>2, <2>2, <2>3, <2>4 DEF Spawn
<1>3. ASSUME NEW l \in Launchers, WriteChild(l) PROVE WorkerTypeOK' BY <1>3 DEF WriteChild
<1>4. ASSUME NEW l \in Launchers, RemoveStale(l) \/ TellLaunching(l) \/ TellLaunched(l) PROVE WorkerTypeOK'
  BY <1>4 DEF RemoveStale, TellLaunching, TellLaunched
<1>5. ASSUME NEW l \in Launchers, AlreadyThere(l) PROVE WorkerTypeOK' BY <1>5 DEF AlreadyThere
<1>6. ASSUME NEW l \in Launchers, LauncherKilled(l) PROVE WorkerTypeOK' BY <1>6 DEF LauncherKilled
<1>7. ASSUME NEW p \in WorkerIds, StartWork(p) PROVE WorkerTypeOK' BY <1>7 DEF StartWork
<1>8. ASSUME NEW p \in WorkerIds, ServerUp(p) PROVE WorkerTypeOK' BY <1>8 DEF ServerUp
<1>9. ASSUME NEW p \in WorkerIds, ModelAnswers(p) PROVE WorkerTypeOK' BY <1>9 DEF ModelAnswers
<1>10. ASSUME NEW p \in WorkerIds, AgentRuns(p) PROVE WorkerTypeOK' BY <1>10 DEF AgentRuns, ToolsCalled
<1>11. ASSUME NEW p \in WorkerIds, WorkEnds(p) PROVE WorkerTypeOK' BY <1>11 DEF WorkEnds
<1>12. ASSUME NEW p \in WorkerIds, RemoveFile(p) PROVE WorkerTypeOK' BY <1>12 DEF RemoveFile
<1>13. ASSUME NEW p \in WorkerIds, WorkerKilled(p) PROVE WorkerTypeOK' BY <1>13 DEF WorkerKilled
<1>14. ASSUME NEW p \in WorkerIds, IdTaken(p) PROVE WorkerTypeOK' BY <1>14 DEF IdTaken
<1>15. ASSUME NEW p \in WorkerIds, OtherEnds(p) PROVE WorkerTypeOK' BY <1>15 DEF OtherEnds
<1>16. CASE UNCHANGED workerVars BY <1>16 DEF workerVars
<1> QED
  BY <1>1, <1>2, <1>3, <1>4, <1>5, <1>6, <1>7, <1>8, <1>9, <1>10, <1>11, <1>12, <1>13, <1>14, <1>15, <1>16
  DEF WorkerNext, Launcher, Worker

-------------------------------------------------------------------------------
\* A launcher that goes on, without a race, found nobody at work and nobody under way.
LEMMA FoundNobody ==
  ASSUME WorkerTypeOK, NEW l \in Launchers, LaunchWork(l), ~raced'
  PROVE  Workers = {} /\ OnTheWay = {}
<1>1. CASE NoLauncher /\ Workers = {} BY <1>1 DEF NoLauncher, OnTheWay
<1>2. CASE ~(NoLauncher /\ Workers = {})
  <2>1. ~Unnamed /\ OnTheWay = {} BY <1>2 DEF LaunchWork
  <2>2. idFile \notin Workers BY DEF LaunchWork, MayBeDead
  <2> QED BY <2>1, <2>2 DEF Unnamed
<1> QED BY <1>1, <1>2

\* The steps of a launcher, by where they lead.
LEMMA LauncherStep ==
  ASSUME WorkerInv, NEW l \in Launchers, Launcher(l) \/ AlreadyThere(l) \/ LauncherKilled(l), ~raced'
  PROVE  Kept'
<1>0. WorkerTypeOK /\ (~raced => Kept) BY DEF WorkerInv
<1>t. launcher \in [Launchers -> {"none", "stale", "announce", "spawn", "write", "tell"}]
      /\ child \in [Launchers -> WorkerIds \cup {NoId}] /\ program \in [WorkerIds -> Working \cup {"free", "other"}]
  BY <1>0 DEF WorkerTypeOK
<1>1. CASE LaunchWork(l)
  <2>1. Workers = {} /\ OnTheWay = {} /\ Workers' = {} BY <1>0, <1>1, FoundNobody DEF LaunchWork, Workers
  <2>2. launcher'[l] \in {"stale", "announce", "spawn"} /\ \A m \in Launchers \ {l} : launcher'[m] = launcher[m]
    BY <1>t, <1>1 DEF LaunchWork, Moves
  <2>3. OnTheWay' = {l} BY <2>1, <2>2 DEF OnTheWay
  <2>4. \A p \in WorkerIds : program'[p] # "ending" BY <2>1 DEF Workers, Working
  <2> QED BY <2>1, <2>2, <2>3, <2>4 DEF Kept, AtMostOne, LauncherInv, EndInv
<1>2. CASE RemoveStale(l) \/ TellLaunching(l)
  <2>1. ~raced /\ Kept /\ Workers' = Workers /\ l \in OnTheWay /\ launcher[l] # "write"
    BY <1>0, <1>2 DEF RemoveStale, TellLaunching, Moves, Workers, OnTheWay
  <2>2. launcher'[l] \in {"announce", "spawn"} /\ \A m \in Launchers \ {l} : launcher'[m] = launcher[m]
    BY <1>t, <1>2 DEF RemoveStale, TellLaunching, Moves
  <2>3. Workers = {} /\ OnTheWay = {l} BY <2>1 DEF Kept, LauncherInv
  <2>4. OnTheWay' = {l} BY <2>2, <2>3 DEF OnTheWay
  <2>5. \A p \in WorkerIds : program'[p] # "ending" BY <2>1, <2>3 DEF Workers, Working
  <2> QED BY <2>1, <2>2, <2>3, <2>4, <2>5 DEF Kept, AtMostOne, LauncherInv, EndInv
<1>3. CASE Spawn(l)
  <2>1. ~raced /\ Kept /\ l \in OnTheWay /\ launcher[l] # "write" BY <1>0, <1>3 DEF Spawn, Moves, OnTheWay
  <2>2. Workers = {} /\ OnTheWay = {l} BY <2>1 DEF Kept, LauncherInv
  <2>3. PICK p \in WorkerIds : program' = [program EXCEPT ![p] = "born"]
          /\ child' = [child EXCEPT ![l] = IF script = "finisher" THEN NoId ELSE p]
    BY <1>3 DEF Spawn, Turns
  <2>4. Workers' = {p} /\ program'[p] = "born" BY <1>t, <2>2, <2>3 DEF Workers, Working
  <2>5. launcher'[l] = (IF script = "finisher" THEN "none" ELSE "write")
        /\ \A m \in Launchers \ {l} : launcher'[m] = launcher[m]
    BY <1>t, <1>3 DEF Spawn, Moves
  <2>6. OnTheWay' = IF script = "finisher" THEN {} ELSE {l} BY <2>2, <2>5 DEF OnTheWay
  <2>7. script' = script /\ (script # "finisher" => child'[l] = p) BY <1>t, <1>3, <2>3 DEF Spawn
  <2>8. \A q \in WorkerIds : program'[q] # "ending" BY <2>4 DEF Workers, Working
  <2> QED BY <2>4, <2>5, <2>6, <2>7, <2>8 DEF Kept, AtMostOne, LauncherInv, EndInv
<1>4. CASE WriteChild(l)
  <2>1. ~raced /\ Kept /\ l \in OnTheWay /\ launcher[l] = "write" /\ Workers' = Workers
    BY <1>0, <1>4 DEF WriteChild, Moves, Workers, OnTheWay
  <2>2. OnTheWay = {l} /\ \A p \in Workers : p = child[l] BY <2>1 DEF Kept, LauncherInv
  <2>3. OnTheWay' = {} BY <1>t, <1>4, <2>2 DEF WriteChild, Moves, OnTheWay
  <2>4. \A p \in Workers : idFile' = p BY <1>4, <2>2 DEF WriteChild
  <2>5. ~NoLauncher BY <2>1 DEF NoLauncher, OnTheWay
  <2>6. EndInv' BY <1>4, <2>1, <2>5 DEF WriteChild, Kept, EndInv
  <2> QED BY <2>1, <2>3, <2>4, <2>6 DEF Kept, AtMostOne, LauncherInv
<1>5. CASE TellLaunched(l)
  <2>1. ~raced /\ Kept /\ Workers' = Workers /\ launcher[l] = "tell"
    BY <1>0, <1>5 DEF TellLaunched, Moves, Workers
  <2>2. OnTheWay' = OnTheWay /\ \A m \in OnTheWay : launcher'[m] = launcher[m]
    BY <1>t, <1>5 DEF TellLaunched, Moves, OnTheWay
  <2>3. ~NoLauncher BY <2>1 DEF NoLauncher
  <2>4. EndInv' BY <1>5, <2>1, <2>3 DEF TellLaunched, Kept, EndInv
  <2> QED BY <1>5, <2>1, <2>2, <2>4 DEF TellLaunched, Kept, AtMostOne, LauncherInv
<1>6. CASE AlreadyThere(l)
  <2>1. ~raced /\ Kept /\ Workers' = Workers /\ OnTheWay' = OnTheWay /\ NoLauncher' = NoLauncher
    BY <1>0, <1>6 DEF AlreadyThere, Workers, OnTheWay, NoLauncher
  <2> QED BY <1>6, <2>1 DEF AlreadyThere, Kept, AtMostOne, LauncherInv, EndInv
<1>7. CASE LauncherKilled(l)
  <2>1. ~raced /\ Kept /\ launcher[l] # "write" /\ Workers' = Workers /\ ~NoLauncher
    BY <1>0, <1>7 DEF LauncherKilled, Workers, NoLauncher
  <2>2. OnTheWay' = OnTheWay \ {l} /\ \A m \in Launchers \ {l} : launcher'[m] = launcher[m] /\ child'[m] = child[m]
    BY <1>t, <1>7 DEF LauncherKilled, Moves, OnTheWay
  <2>3. LauncherInv'
    <3>1. CASE l \in OnTheWay
      <4>1. OnTheWay = {l} /\ Workers = {} BY <2>1, <3>1 DEF Kept, LauncherInv
      <4> QED BY <2>1, <2>2, <4>1 DEF LauncherInv
    <3>2. CASE l \notin OnTheWay
      <4>1. OnTheWay' = OnTheWay /\ OnTheWay \subseteq Launchers \ {l} BY <2>2, <3>2 DEF OnTheWay
      <4> QED BY <1>7, <2>1, <2>2, <4>1 DEF LauncherKilled, Kept, LauncherInv
    <3> QED BY <3>1, <3>2
  <2>4. EndInv' BY <1>7, <2>1 DEF LauncherKilled, Kept, EndInv
  <2> QED BY <2>1, <2>3, <2>4 DEF Kept, AtMostOne
<1> QED BY <1>1, <1>2, <1>3, <1>4, <1>5, <1>6, <1>7 DEF Launcher

-------------------------------------------------------------------------------
\* A step of the only worker that leaves it at work: no launcher moves.
LEMMA WorkStep ==
  ASSUME WorkerInv, NEW p \in WorkerIds,
         StartWork(p) \/ ServerUp(p) \/ ModelAnswers(p) \/ AgentRuns(p) \/ WorkEnds(p), ~raced'
  PROVE  Kept'
<1>0. WorkerTypeOK /\ program \in [WorkerIds -> Working \cup {"free", "other"}] BY DEF WorkerInv, WorkerTypeOK
<1>1. ~raced /\ Kept /\ p \in Workers /\ UNCHANGED <<script, launcher, child>>
  BY DEF WorkerInv, StartWork, ServerUp, ModelAnswers, AgentRuns, WorkEnds, Stays, Workers, Working
<1>2. Workers = {p} /\ OnTheWay' = OnTheWay /\ NoLauncher' = NoLauncher
  BY <1>1 DEF Kept, AtMostOne, OnTheWay, NoLauncher
<1>3. Workers' = {p} /\ program'[p] # "born"
  BY <1>0, <1>1, <1>2 DEF StartWork, ServerUp, ModelAnswers, AgentRuns, WorkEnds, Turns, Workers, Working
<1>4. idFile' = IF StartWork(p) /\ script = "finisher" THEN p ELSE idFile
  BY DEF StartWork, ServerUp, ModelAnswers, AgentRuns, WorkEnds
<1>5. \A q \in WorkerIds : program'[q] = "ending" => q = p BY <1>3 DEF Workers, Working
<1>6. LauncherInv'
  <2>1. \A l \in OnTheWay : launcher[l] = "write" BY <1>1, <1>2 DEF Kept, LauncherInv
  <2>2. ASSUME OnTheWay = {} PROVE idFile' = p
    BY <1>0, <1>1, <1>2, <1>4, <2>2 DEF Kept, LauncherInv, ServerUp, ModelAnswers, AgentRuns, WorkEnds
  <2> QED BY <1>1, <1>2, <1>3, <2>1, <2>2 DEF Kept, LauncherInv
<1>7. ASSUME program'[p] = "ending", ~early' PROVE NoLauncher /\ (script # "finisher" => statusFile' \in Final)
  <2>1. AgentRuns(p) \/ WorkEnds(p)
    BY <1>0, <1>7 DEF StartWork, ServerUp, ModelAnswers, Turns
  <2>2. NoLauncher BY <1>7, <2>1 DEF AgentRuns, WorkEnds
  <2>3. CASE AgentRuns(p)
    <3>1. program[p] = "tools" BY <2>3 DEF AgentRuns
    <3>2. statusFile' = "VERIFIED" BY <1>7, <2>3, <3>1 DEF AgentRuns, Turns
    <3> QED BY <2>2, <3>2 DEF Final
  <2>4. CASE WorkEnds(p) BY <2>2, <2>4, <1>0 DEF WorkEnds, WorkerTypeOK, Scripts
  <2> QED BY <2>1, <2>3, <2>4
<1> QED BY <1>1, <1>2, <1>3, <1>5, <1>6, <1>7 DEF Kept, AtMostOne, EndInv

\* A worker, or another program, leaves, or another program takes a free id.
LEMMA LeaveStep ==
  ASSUME WorkerInv, NEW p \in WorkerIds,
         RemoveFile(p) \/ WorkerKilled(p) \/ IdTaken(p) \/ OtherEnds(p), ~raced'
  PROVE  Kept'
<1>0. program \in [WorkerIds -> Working \cup {"free", "other"}] BY DEF WorkerInv, WorkerTypeOK
<1>1. ~raced /\ Kept /\ UNCHANGED <<script, launcher, child, statusFile, early>>
  BY DEF WorkerInv, RemoveFile, WorkerKilled, IdTaken, OtherEnds, Stays
<1>u. OnTheWay' = OnTheWay /\ NoLauncher' = NoLauncher BY <1>1 DEF OnTheWay, NoLauncher
<1>2. Workers' = Workers \ {p} /\ \A q \in WorkerIds \ {p} : program'[q] = program[q]
  BY <1>0 DEF RemoveFile, WorkerKilled, IdTaken, OtherEnds, Turns, Workers, Working
<1>3. program'[p] # "ending" BY <1>0 DEF RemoveFile, WorkerKilled, IdTaken, OtherEnds, Turns
<1>4. \A q \in Workers' : idFile' = idFile
  <2>1. CASE RemoveFile(p)
    <3>1. p \in Workers BY <2>1 DEF RemoveFile, Workers, Working
    <3> QED BY <1>1, <1>2, <3>1 DEF Kept, AtMostOne
  <2>2. CASE ~RemoveFile(p) BY <2>2 DEF WorkerKilled, IdTaken, OtherEnds
  <2> QED BY <2>1, <2>2
<1>5. Workers \subseteq WorkerIds BY DEF Workers
<1>6. LauncherInv' BY <1>1, <1>u, <1>2, <1>4, <1>5 DEF Kept, LauncherInv
<1>7. EndInv' BY <1>1, <1>u, <1>2, <1>3 DEF Kept, EndInv
<1>8. AtMostOne' BY <1>1, <1>2 DEF Kept, AtMostOne
<1> QED BY <1>6, <1>7, <1>8 DEF Kept

-------------------------------------------------------------------------------
\* The invariant: types, and what a launch and an end rely on as long as no launchers race.
THEOREM Invariance == WorkerSpec => []WorkerInv
<1>1. WorkerInit => WorkerInv
  <2> SUFFICES ASSUME WorkerInit PROVE WorkerInv OBVIOUS
  <2>1. WorkerTypeOK
    <3>1. script \in Scripts /\ program \in [WorkerIds -> Working \cup {"free", "other"}]
      BY DEF WorkerInit
    <3>2. /\ idFile \in WorkerIds \cup {NoId}
          /\ launcher \in [Launchers -> {"none", "stale", "announce", "spawn", "write", "tell"}]
          /\ child \in [Launchers -> WorkerIds \cup {NoId}]
      BY DEF WorkerInit
    <3>3. log \subseteq Tools /\ {raced, early} \subseteq BOOLEAN
      BY DEF WorkerInit
    <3>4. starts \in 0..MaxStarts /\ stopped \in 0..MaxStopped
      BY StartAssumption DEF WorkerInit
    <3> QED
      BY <3>1, <3>2, <3>3, <3>4 DEF WorkerInit, WorkerTypeOK
  <2>2. Workers = {} /\ OnTheWay = {} BY DEF WorkerInit, Workers, Working, OnTheWay
  <2>3. Kept BY <2>2 DEF WorkerInit, Kept, AtMostOne, LauncherInv, EndInv
  <2> QED BY <2>1, <2>3 DEF WorkerInv
<1>2. WorkerInv /\ [WorkerNext]_workerVars => WorkerInv'
  <2> SUFFICES ASSUME WorkerInv, [WorkerNext]_workerVars PROVE WorkerInv' OBVIOUS
  <2>1. WorkerTypeOK' BY TypeStep DEF WorkerInv
  <2>2. ASSUME ~raced' PROVE Kept'
    <3>1. CASE UNCHANGED workerVars
      BY <2>2, <3>1 DEF WorkerInv, Kept, AtMostOne, LauncherInv, EndInv, OnTheWay, NoLauncher, Workers, workerVars
    <3>2. CASE WorkerNext
      BY <2>2, <3>2, LauncherStep, WorkStep, LeaveStep DEF WorkerNext, Worker
    <3> QED BY <3>1, <3>2
  <2> QED BY <2>1, <2>2 DEF WorkerInv
<1> QED BY <1>1, <1>2, PTL DEF WorkerSpec

\* The scripts' variables and files keep their types.
THEOREM TypeCorrect == WorkerSpec => []WorkerTypeOK
<1>1. WorkerInv => WorkerTypeOK BY DEF WorkerInv
<1> QED BY <1>1, Invariance, PTL

\* Launchers may act at the same time.  Kills of workers, reused ids, stale files and a
\* launcher that comes while a known worker runs never lead to two workers: only a look
\* between another launcher's look and its id, or a kill before the id, does.
THEOREM AtMostOneWorker == WorkerSpec => []OneWorker
<1>1. WorkerInv => OneWorker BY DEF WorkerInv, Kept, AtMostOne, OneWorker
<1> QED BY <1>1, Invariance, PTL

\* Without such a race the file names the worker, so that whoever wants to stop it can.
THEOREM FileIsRight == WorkerSpec => []FileNamesWorker
<1>1. WorkerInv => FileNamesWorker BY DEF WorkerInv, Kept, LauncherInv, FileNamesWorker
<1> QED BY <1>1, Invariance, PTL

\* Without such a race the status of a worker that came to its end is its own last word.
THEOREM LastWordStands == WorkerSpec => []StatusIsFinal
<1>1. WorkerInv => StatusIsFinal BY DEF WorkerInv, Kept, EndInv, StatusIsFinal
<1> QED BY <1>1, Invariance, PTL

\* The three together: as long as launchers do not race, the worker is known, whatever is
\* killed and whoever gets its id.
THEOREM WorkerStaysKnown == WorkerSpec => []WorkerIsKnown
<1>1. OneWorker /\ FileNamesWorker /\ StatusIsFinal => WorkerIsKnown BY DEF WorkerIsKnown
<1> QED BY <1>1, AtMostOneWorker, FileIsRight, LastWordStands, PTL

-------------------------------------------------------------------------------
(***************************************************************************)
(* ProjectFinisher. The invariant says what each stretch of a cycle may    *)
(* still have before it, together with what the file, main and Bale know by*)
(* then: a message is planned only when the milestone is told or about to  *)
(* be, a write of the file that calls it told follows the telling, and git *)
(* has the file when nothing is left to do. None of the properties is      *)
(* inductive without that.                                                 *)
(***************************************************************************)
StateFile ==
  [status : {"NEW", "RUNNING", "BLOCKED", "MILESTONE_COMPLETE", "IN_PROGRESS"},
   gate : FinisherStages \cup {"NEW", "TRACK_A_RUNTIME", "TRACK_B_VALIDATION", "TRACK_CDE_RELEASE",
                       "PROJECT_COMPLETE", "G7-5", "FINISHER_RUNTIME"},
   about : Keys, released : BOOLEAN, full : {"NONE", "IN_PROGRESS", "COMPLETE"},
   g7 : {"NONE", "OPEN", "VERIFIED"}, key : Keys, notified : BOOLEAN,
   receipt : {"NONE", "RECEIPT", "FAILED", "MISSING"}]

\* Whoever is up was started once more than something was killed at most.
CountInv == (worker # "dead" => process # 0) /\ process <= faults + (IF worker = "dead" THEN 0 ELSE 1)

\* What the file says of the past: no way back from the release, on main neither; what it
\* calls told was told.
FileInv ==
  /\ state.released => state.gate # "TRACK_A_RUNTIME"
  /\ origin.released => state.released
  /\ state.receipt = "RECEIPT" \/ state.full = "COMPLETE" => heard # {}
  /\ state.key # NoKey => state.key.kind \in heard
  /\ state.notified => state.key # NoKey

\* The milestone was told, or something failed.
MilestoneHeard == faults = 0 => MilestoneKey.kind \in heard
NothingOwed == state.released => MilestoneHeard

Telling == state.status \in {"BLOCKED", "IN_PROGRESS"}

\* What a cycle may still have before it: of a state that is told of ...
Planned ==
  \E k \in Keys, status \in {"BLOCKED", "IN_PROGRESS"},
     gate \in FinisherStages \cup {"G7-5", "FINISHER_RUNTIME"} :
    todo = <<Save([status |-> status, gate |-> gate, about |-> k]), RecordInGit, NotifyOfChange(k), RecordInGit>>
    /\ k # NoKey /\ NothingOwed
Saved ==
  \E k \in Keys : todo = <<RecordInGit, NotifyOfChange(k), RecordInGit>> /\ k # NoKey
                  /\ NothingOwed /\ ~pushed /\ state.about = k
ToTell ==
  \E k \in Keys : todo = <<NotifyOfChange(k), RecordInGit>> /\ k # NoKey
                  /\ (k = MilestoneKey \/ NothingOwed) /\ (Telling => state.about = k)
Told ==
  /\ NothingOwed
  /\ \E k \in Keys : todo = <<Save([notified |-> TRUE, receipt |-> "RECEIPT", key |-> k]), RecordInGit>>
                     /\ k # NoKey /\ k.kind \in heard /\ (Telling => state.about = k)
NotTold ==
  /\ NothingOwed
  /\ \E why \in {"FAILED", "MISSING"} : todo = <<Save([notified |-> FALSE, receipt |-> why]), RecordInGit>>
Noted ==
  /\ todo = <<RecordInGit>> \/ (todo = <<>> /\ (faults = 0 => pushed))
  /\ NothingOwed /\ (Telling /\ state.notified => state.key = state.about)

\* ... and of the milestone: the two writes of the file, what follows them, and the record
\* of the verified commit.
IfTrue(condition, effects) == IF condition THEN effects ELSE <<>>
CompleteSave == Save([full |-> "COMPLETE", gate |-> "PROJECT_COMPLETE"])
After(verified, told) ==
  IfTrue(verified, <<RecordVerified>>) \o IfTrue(~told, <<NotifyOfChange(MilestoneKey), RecordInGit>>)
Recorded(verified, told) == <<RecordInGit>> \o After(verified, told)
Completed(complete, verified, told) == IfTrue(complete, <<CompleteSave>>) \o Recorded(verified, told)

Milestones ==
  \E verified, told \in BOOLEAN :
    /\ told => MilestoneHeard
    /\ \/ \E g7 \in {"OPEN", "VERIFIED"}, complete \in BOOLEAN :
            /\ todo = <<Release(g7)>> \o Completed(complete, verified, told)
            /\ complete => heard # {}
       \/ /\ \/ todo = Completed(TRUE, verified, told) /\ heard # {}
             \/ todo = Recorded(verified, told)
             \/ todo = After(TRUE, told)
          /\ state.released /\ ~Telling

PlanInv ==
  /\ worker \notin {"cycle", "handler"} => todo = <<>> /\ NothingOwed
  /\ worker = "sleep" => /\ (faults = 0 => pushed)
                         /\ (pushed /\ Telling /\ state.notified => state.key = state.about)
  /\ worker = "handler" => faults # 0
  /\ InCycle => Planned \/ Saved \/ ToTell \/ Told \/ NotTold \/ Noted \/ Milestones

ValuesOK ==
  /\ state \in StateFile /\ origin \in StateFile /\ pushed \in BOOLEAN
  /\ worker \in {"dead", "begin", "sleep", "stages", "cycle", "handler"}
  /\ process \in Nat /\ heard \subseteq {k.kind : k \in Keys} /\ faults \in 0..MaxFaults

FinisherInv == ValuesOK /\ CountInv /\ FileInv /\ PlanInv

-------------------------------------------------------------------------------
\* Taking the first of a few effects.
LEMMA Firsts ==
  ASSUME NEW a, NEW b, NEW c, NEW d
  PROVE  /\ Head(<<a, b, c, d>>) = a /\ Tail(<<a, b, c, d>>) = <<b, c, d>> /\ <<a, b, c, d>> # <<>>
         /\ Head(<<a, b, c>>) = a /\ Tail(<<a, b, c>>) = <<b, c>> /\ <<a, b, c>> # <<>>
         /\ Head(<<a, b>>) = a /\ Tail(<<a, b>>) = <<b>> /\ <<a, b>> # <<>>
         /\ Head(<<a>>) = a /\ Tail(<<a>>) = <<>> /\ <<a>> # <<>>
OBVIOUS

LEMMA TwoEffects ==
  ASSUME NEW a, NEW b
  PROVE  <<a>> \o <<b>> = <<a, b>>
<1> DEFINE S == {a, b}
<1>1. <<a>> \in Seq(S) /\ <<b>> \in Seq(S) /\ <<a, b>> \in Seq(S) OBVIOUS
<1>2. /\ <<a>> \o <<b>> \in Seq(S) /\ Len(<<a>> \o <<b>>) = 2
      /\ \A i \in 1..2 : (<<a>> \o <<b>>)[i] = IF i <= 1 THEN <<a>>[i] ELSE <<b>>[i - 1]
  BY <1>1, ConcatProperties
<1> DEFINE t == <<a>> \o <<b>>
<1>3. t \in Seq(S) /\ Len(t) = 2 /\ t[1] = a /\ t[2] = b BY <1>2
<1> HIDE DEF t
<1>4. Len(<<a, b>>) = 2 /\ \A i \in 1..2 : t[i] = <<a, b>>[i] BY <1>3
<1>5. t = <<a, b>> BY <1>1, <1>3, <1>4, SeqEqual
<1> QED BY <1>5 DEF t

LEMMA FirstOfConcat ==
  ASSUME NEW S, NEW a \in S, NEW w \in Seq(S)
  PROVE  /\ Head(<<a>> \o w) = a /\ Tail(<<a>> \o w) = w
         /\ <<a>> \o w # <<>> /\ <<a>> \o w \in Seq(S)
<1>1. <<a>> \in Seq(S) OBVIOUS
<1>2. /\ <<a>> \o w \in Seq(S) /\ Len(<<a>> \o w) = 1 + Len(w)
      /\ \A i \in 1 .. 1 + Len(w) : (<<a>> \o w)[i] = IF i <= 1 THEN <<a>>[i] ELSE w[i - 1]
  BY <1>1, ConcatProperties
<1> DEFINE t == <<a>> \o w
<1>3. t \in Seq(S) /\ Len(t) = 1 + Len(w) /\ t[1] = a /\ \A i \in 1..Len(w) : t[i + 1] = w[i]
  BY <1>2
<1> HIDE DEF t
<1>4. t # <<>> BY <1>3
<1>5. Tail(t) \in Seq(S) /\ Len(Tail(t)) = Len(w) /\ \A i \in 1..Len(w) : Tail(t)[i] = w[i]
  BY <1>3, <1>4, HeadTailProperties
<1>6. Tail(t) = w BY <1>5, SeqEqual
<1>7. Head(t) = a BY <1>3
<1> QED BY <1>2, <1>4, <1>6, <1>7 DEF t

MilestoneEffects ==
  {CompleteSave, RecordInGit, RecordVerified, NotifyOfChange(MilestoneKey)} \cup {Release(g7) : g7 \in {"OPEN", "VERIFIED"}}

LEMMA Concats ==
  ASSUME NEW verified \in BOOLEAN, NEW told \in BOOLEAN, NEW complete \in BOOLEAN, NEW g7 \in {"OPEN", "VERIFIED"}
  PROVE  /\ After(verified, told) \in Seq(MilestoneEffects)
         /\ Recorded(verified, told) \in Seq(MilestoneEffects)
         /\ Completed(complete, verified, told) \in Seq(MilestoneEffects)
         /\ <<Release(g7)>> \o Completed(complete, verified, told) \in Seq(MilestoneEffects)
<1> DEFINE S == MilestoneEffects
<1>1. /\ \A e \in S : <<e>> \in Seq(S)
      /\ <<>> \in Seq(S) /\ <<NotifyOfChange(MilestoneKey), RecordInGit>> \in Seq(S)
      /\ {CompleteSave, RecordInGit, RecordVerified, Release(g7)} \subseteq S
  BY DEF MilestoneEffects
<1> HIDE DEF S
<1>2. After(verified, told) \in Seq(S) BY <1>1, ConcatProperties DEF After, IfTrue
<1>3. Recorded(verified, told) \in Seq(S) BY <1>1, <1>2, ConcatProperties DEF Recorded
<1>4. Completed(complete, verified, told) \in Seq(S) BY <1>1, <1>3, ConcatProperties DEF Completed, IfTrue
<1>5. <<Release(g7)>> \o Completed(complete, verified, told) \in Seq(S) BY <1>1, <1>4, ConcatProperties
<1> QED BY <1>2, <1>3, <1>4, <1>5 DEF S

\* The effects of the milestone, one after the other.
LEMMA MilestoneFirsts ==
  ASSUME NEW verified \in BOOLEAN, NEW told \in BOOLEAN, NEW complete \in BOOLEAN, NEW g7 \in {"OPEN", "VERIFIED"}
  PROVE  /\ LET t == <<Release(g7)>> \o Completed(complete, verified, told) IN
              t # <<>> /\ Head(t) = Release(g7) /\ Tail(t) = Completed(complete, verified, told)
         /\ LET t == Completed(TRUE, verified, told) IN
              t # <<>> /\ Head(t) = CompleteSave /\ Tail(t) = Recorded(verified, told)
         /\ Completed(FALSE, verified, told) = Recorded(verified, told)
         /\ LET t == Recorded(verified, told) IN
              t # <<>> /\ Head(t) = RecordInGit /\ Tail(t) = After(verified, told)
         /\ LET t == After(TRUE, told) IN
              t # <<>> /\ Head(t) = RecordVerified /\ Tail(t) = After(FALSE, told)
         /\ After(FALSE, told) = IF told THEN <<>> ELSE <<NotifyOfChange(MilestoneKey), RecordInGit>>
<1> DEFINE S == MilestoneEffects
<1>1. {CompleteSave, RecordInGit, RecordVerified, Release(g7)} \subseteq S BY DEF MilestoneEffects
<1>2. After(verified, told) \in Seq(S) /\ Recorded(verified, told) \in Seq(S)
      /\ Completed(complete, verified, told) \in Seq(S) /\ After(FALSE, told) \in Seq(S)
  BY Concats DEF S
<1>3. After(FALSE, told) = IF told THEN <<>> ELSE <<NotifyOfChange(MilestoneKey), RecordInGit>>
  <2>1. <<>> \in Seq(S) /\ <<NotifyOfChange(MilestoneKey), RecordInGit>> \in Seq(S) BY DEF MilestoneEffects
  <2> HIDE DEF S
  <2> QED BY <2>1, ConcatEmptySeq DEF After, IfTrue
<1>4. After(TRUE, told) = <<RecordVerified>> \o After(FALSE, told)
  <2>1. After(TRUE, told) = <<RecordVerified>> \o IfTrue(~told, <<NotifyOfChange(MilestoneKey), RecordInGit>>)
    BY DEF After, IfTrue
  <2> QED BY <1>3, <2>1 DEF IfTrue
<1>5. Completed(FALSE, verified, told) = Recorded(verified, told)
  BY <1>2, ConcatEmptySeq DEF Completed, IfTrue
<1> HIDE DEF S
<1>6. Completed(TRUE, verified, told) = <<CompleteSave>> \o Recorded(verified, told) BY DEF Completed, IfTrue
<1>7. Recorded(verified, told) = <<RecordInGit>> \o After(verified, told) BY DEF Recorded
<1>8. \A a \in S, w \in Seq(S) : <<a>> \o w # <<>> /\ Head(<<a>> \o w) = a /\ Tail(<<a>> \o w) = w
  BY FirstOfConcat
<1>9. LET t == <<Release(g7)>> \o Completed(complete, verified, told) IN
        t # <<>> /\ Head(t) = Release(g7) /\ Tail(t) = Completed(complete, verified, told)
  BY <1>1, <1>2, <1>8
<1>10. LET t == Completed(TRUE, verified, told) IN
         t # <<>> /\ Head(t) = CompleteSave /\ Tail(t) = Recorded(verified, told)
  BY <1>1, <1>2, <1>6, <1>8
<1>11. LET t == Recorded(verified, told) IN
         t # <<>> /\ Head(t) = RecordInGit /\ Tail(t) = After(verified, told)
  BY <1>1, <1>2, <1>7, <1>8
<1>12. LET t == After(TRUE, told) IN
         t # <<>> /\ Head(t) = RecordVerified /\ Tail(t) = After(FALSE, told)
  BY <1>1, <1>2, <1>4, <1>8
<1> QED BY <1>3, <1>5, <1>9, <1>10, <1>11, <1>12

-------------------------------------------------------------------------------
\* write_state replaces the fields it is given, and no others.
Fields == {"status", "gate", "about", "released", "full", "g7", "key", "notified", "receipt"}

LEMMA UpdatedFields ==
  ASSUME state \in StateFile, NEW new
  PROVE  /\ Updated(new) = [f \in Fields |-> IF f \in DOMAIN new THEN new[f] ELSE state[f]]
         /\ DOMAIN Updated(new) = Fields
         /\ \A f \in Fields : Updated(new)[f] = IF f \in DOMAIN new THEN new[f] ELSE state[f]
<1>1. DOMAIN state = Fields BY DEF StateFile, Fields
<1> QED BY <1>1 DEF Updated

LEMMA IsStateFile ==
  ASSUME NEW s, s = [f \in Fields |-> s[f]],
         s.status \in {"NEW", "RUNNING", "BLOCKED", "MILESTONE_COMPLETE", "IN_PROGRESS"},
         s.gate \in FinisherStages \cup {"NEW", "TRACK_A_RUNTIME", "TRACK_B_VALIDATION", "TRACK_CDE_RELEASE",
                                 "PROJECT_COMPLETE", "G7-5", "FINISHER_RUNTIME"},
         s.about \in Keys, s.released \in BOOLEAN, s.full \in {"NONE", "IN_PROGRESS", "COMPLETE"},
         s.g7 \in {"NONE", "OPEN", "VERIFIED"}, s.key \in Keys, s.notified \in BOOLEAN,
         s.receipt \in {"NONE", "RECEIPT", "FAILED", "MISSING"}
  PROVE  s \in StateFile
BY DEF StateFile, Fields

\* The file after it was told of a state, of the release, of its completion, of a message.
LEMMA StatusUpdated ==
  ASSUME state \in StateFile, NEW new,
         NEW status \in {"RUNNING", "BLOCKED", "IN_PROGRESS"},
         NEW gate \in FinisherStages \cup {"TRACK_A_RUNTIME", "TRACK_B_VALIDATION", "TRACK_CDE_RELEASE", "G7-5",
                                   "FINISHER_RUNTIME"},
         NEW k \in Keys,
         new = [status |-> status, gate |-> gate, about |-> k]
  PROVE  LET s == Updated(new) IN
         /\ s \in StateFile /\ s.status = status /\ s.gate = gate /\ s.about = k
         /\ s.released = state.released /\ s.full = state.full /\ s.g7 = state.g7
         /\ s.key = state.key /\ s.notified = state.notified /\ s.receipt = state.receipt
<1> DEFINE s == Updated(new)
<1>1. s = [f \in Fields |-> s[f]] /\ \A f \in Fields : s[f] = IF f \in DOMAIN new THEN new[f] ELSE state[f]
  BY UpdatedFields
<1>2. DOMAIN new = {"status", "gate", "about"} OBVIOUS
<1> HIDE DEF s
<1>3. /\ s.status = status /\ s.gate = gate /\ s.about = k
      /\ s.released = state.released /\ s.full = state.full /\ s.g7 = state.g7
      /\ s.key = state.key /\ s.notified = state.notified /\ s.receipt = state.receipt
  BY <1>1, <1>2 DEF Fields
<1>4. s \in StateFile BY <1>1, <1>3, IsStateFile DEF StateFile
<1> QED BY <1>3, <1>4 DEF s

LEMMA ReleaseUpdated ==
  ASSUME state \in StateFile, NEW g7 \in {"OPEN", "VERIFIED"}
  PROVE  LET s == Updated(Release(g7).new) IN
         /\ s \in StateFile /\ s.status = "MILESTONE_COMPLETE" /\ s.gate \in {"TRACK_CDE_RELEASE", "TRACK_B_VALIDATION"}
         /\ s.released = TRUE /\ s.full = "IN_PROGRESS" /\ s.g7 = g7 /\ s.about = state.about
         /\ s.key = state.key /\ s.notified = state.notified /\ s.receipt = state.receipt
<1> DEFINE new == Release(g7).new
           s == Updated(new)
<1>1. s = [f \in Fields |-> s[f]] /\ \A f \in Fields : s[f] = IF f \in DOMAIN new THEN new[f] ELSE state[f]
  BY UpdatedFields
<1>2. /\ DOMAIN new = {"status", "gate", "released", "full", "g7"} /\ new.status = "MILESTONE_COMPLETE"
      /\ new.gate \in {"TRACK_CDE_RELEASE", "TRACK_B_VALIDATION"} /\ new.released = TRUE
      /\ new.full = "IN_PROGRESS" /\ new.g7 = g7
  BY DEF Release, Save
<1> HIDE DEF s, new
<1>3. /\ s.status = "MILESTONE_COMPLETE" /\ s.gate \in {"TRACK_CDE_RELEASE", "TRACK_B_VALIDATION"}
      /\ s.released = TRUE /\ s.full = "IN_PROGRESS" /\ s.g7 = g7 /\ s.about = state.about
      /\ s.key = state.key /\ s.notified = state.notified /\ s.receipt = state.receipt
  BY <1>1, <1>2 DEF Fields
<1>4. s \in StateFile BY <1>1, <1>3, IsStateFile DEF StateFile
<1> QED BY <1>3, <1>4 DEF s, new

LEMMA CompleteUpdated ==
  ASSUME state \in StateFile
  PROVE  LET s == Updated(CompleteSave.new) IN
         /\ s \in StateFile /\ s.full = "COMPLETE" /\ s.gate = "PROJECT_COMPLETE" /\ s.status = state.status
         /\ s.about = state.about /\ s.released = state.released /\ s.g7 = state.g7
         /\ s.key = state.key /\ s.notified = state.notified /\ s.receipt = state.receipt
<1> DEFINE new == CompleteSave.new
           s == Updated(new)
<1>1. s = [f \in Fields |-> s[f]] /\ \A f \in Fields : s[f] = IF f \in DOMAIN new THEN new[f] ELSE state[f]
  BY UpdatedFields
<1>2. DOMAIN new = {"full", "gate"} /\ new.full = "COMPLETE" /\ new.gate = "PROJECT_COMPLETE"
  BY DEF CompleteSave, Save
<1> HIDE DEF s, new
<1>3. /\ s.full = "COMPLETE" /\ s.gate = "PROJECT_COMPLETE" /\ s.status = state.status
      /\ s.about = state.about /\ s.released = state.released /\ s.g7 = state.g7
      /\ s.key = state.key /\ s.notified = state.notified /\ s.receipt = state.receipt
  BY <1>1, <1>2 DEF Fields
<1>4. s \in StateFile BY <1>1, <1>3, IsStateFile DEF StateFile
<1> QED BY <1>3, <1>4 DEF s, new

LEMMA ReceiptUpdated ==
  ASSUME state \in StateFile, NEW k \in Keys, NEW why \in {"FAILED", "MISSING"}
  PROVE  /\ LET s == Updated([notified |-> TRUE, receipt |-> "RECEIPT", key |-> k]) IN
              /\ s \in StateFile /\ s.notified = TRUE /\ s.receipt = "RECEIPT" /\ s.key = k
              /\ s.status = state.status /\ s.gate = state.gate /\ s.about = state.about
              /\ s.released = state.released /\ s.full = state.full
         /\ LET s == Updated([notified |-> FALSE, receipt |-> why]) IN
              /\ s \in StateFile /\ s.notified = FALSE /\ s.receipt = why /\ s.key = state.key
              /\ s.status = state.status /\ s.gate = state.gate /\ s.about = state.about
              /\ s.released = state.released /\ s.full = state.full
<1>a. SUFFICES ASSUME NEW new, new = [notified |-> TRUE, receipt |-> "RECEIPT", key |-> k]
                                \/ new = [notified |-> FALSE, receipt |-> why]
               PROVE  LET s == Updated(new) IN
                      /\ s \in StateFile /\ s.notified = new.notified /\ s.receipt = new.receipt
                      /\ s.key = IF "key" \in DOMAIN new THEN new.key ELSE state.key
                      /\ s.status = state.status /\ s.gate = state.gate /\ s.about = state.about
                      /\ s.released = state.released /\ s.full = state.full
  OBVIOUS
<1> DEFINE s == Updated(new)
<1>1. s = [f \in Fields |-> s[f]] /\ \A f \in Fields : s[f] = IF f \in DOMAIN new THEN new[f] ELSE state[f]
  BY UpdatedFields
<1>2. /\ DOMAIN new = {"notified", "receipt", "key"} \/ DOMAIN new = {"notified", "receipt"}
      /\ "key" \in DOMAIN new => new.key = k
      /\ new.notified \in BOOLEAN /\ new.receipt \in {"RECEIPT", "FAILED", "MISSING"}
  <2>1. CASE new = [notified |-> TRUE, receipt |-> "RECEIPT", key |-> k] BY <2>1
  <2>2. CASE new = [notified |-> FALSE, receipt |-> why] BY <2>2
  <2> QED BY <1>a, <2>1, <2>2
<1> HIDE DEF s
<1>3. /\ s.notified = new.notified /\ s.receipt = new.receipt
      /\ s.key = IF "key" \in DOMAIN new THEN new.key ELSE state.key
      /\ s.status = state.status /\ s.gate = state.gate /\ s.about = state.about
      /\ s.released = state.released /\ s.full = state.full /\ s.g7 = state.g7
  BY <1>1, <1>2 DEF Fields
<1>4. s \in StateFile BY <1>1, <1>2, <1>3, IsStateFile DEF StateFile
<1> QED BY <1>3, <1>4 DEF s

-------------------------------------------------------------------------------
LEMMA KeyFacts ==
  /\ NoKey \in Keys /\ MilestoneKey \in Keys /\ RuntimeKey \in Keys
  /\ MilestoneKey # NoKey /\ RuntimeKey # NoKey
  /\ \A stage \in FinisherStages, r \in 1..(MaxFaults + 1) :
       Key("FAIL", stage, r) \in Keys /\ Key("FAIL", stage, r) # NoKey
  /\ \A e \in Diagnostics : Key("G7-5-STATE", e, 0) \in Keys /\ Key("G7-5-STATE", e, 0) # NoKey
<1>1. NoKey \in Keys /\ MilestoneKey \in Keys /\ RuntimeKey \in Keys BY DEF Keys
<1>2. MilestoneKey # NoKey /\ RuntimeKey # NoKey BY DEF NoKey, MilestoneKey, RuntimeKey, Key
<1>3. \A stage \in FinisherStages, r \in 1..(MaxFaults + 1) : Key("FAIL", stage, r) \in Keys BY DEF Keys
<1>4. \A stage, r : Key("FAIL", stage, r) # NoKey BY DEF NoKey, Key
<1>5. \A e \in Diagnostics : Key("G7-5-STATE", e, 0) \in Keys BY DEF Keys
<1>6. \A e : Key("G7-5-STATE", e, 0) # NoKey BY DEF NoKey, Key
<1> QED BY <1>1, <1>2, <1>3, <1>4, <1>5, <1>6

LEMMA SaveStep ==
  ASSUME FinisherInv, DoSave
  PROVE  FinisherInv'
<1> USE DEF FinisherInv, ValuesOK
<1>0. /\ InCycle /\ InCycle' /\ todo # <<>> /\ Head(todo).op = "save" /\ todo' = Tail(todo) /\ pushed' = FALSE
      /\ state' = Updated(Head(todo).new) /\ UNCHANGED <<worker, process, origin, heard, faults>>
  BY DEF DoSave, NextEffect, EffectDone, InCycle
<1>p. Planned \/ Saved \/ ToTell \/ Told \/ NotTold \/ Noted \/ Milestones BY <1>0 DEF PlanInv
<1>o. RecordInGit.op = "record" /\ RecordVerified.op = "verified" /\ \A k : NotifyOfChange(k).op = "notify"
  BY DEF RecordInGit, RecordVerified, NotifyOfChange
<1>n. \A n : Save(n).new = n BY DEF Save
<1>c. CountInv' BY <1>0 DEF CountInv
<1> SUFFICES ASSUME TRUE
             PROVE  state' \in StateFile /\ FileInv' /\ (Planned \/ Saved \/ ToTell \/ Told \/ NotTold \/ Noted \/ Milestones)'
  BY <1>0, <1>c DEF PlanInv, InCycle
<1>1. CASE Planned
  <2>1. PICK k \in Keys, status \in {"BLOCKED", "IN_PROGRESS"},
             gate \in FinisherStages \cup {"G7-5", "FINISHER_RUNTIME"} :
          /\ todo = <<Save([status |-> status, gate |-> gate, about |-> k]), RecordInGit, NotifyOfChange(k), RecordInGit>>
          /\ k # NoKey /\ NothingOwed
    BY <1>1 DEF Planned
  <2>2. /\ todo' = <<RecordInGit, NotifyOfChange(k), RecordInGit>>
        /\ state' = Updated([status |-> status, gate |-> gate, about |-> k])
    BY <1>0, <1>n, <2>1, Firsts
  <2>3. /\ state' \in StateFile /\ state'.gate = gate /\ state'.about = k
        /\ state'.released = state.released /\ state'.full = state.full
        /\ state'.key = state.key /\ state'.notified = state.notified /\ state'.receipt = state.receipt
    BY <2>2, StatusUpdated
  <2>4. FileInv' BY <1>0, <2>3 DEF FileInv, FinisherStages
  <2>5. Saved' BY <1>0, <2>1, <2>2, <2>3 DEF Saved, NothingOwed, MilestoneHeard
  <2> QED BY <2>3, <2>4, <2>5
<1>2. CASE Told
  <2>1. PICK k \in Keys :
          /\ todo = <<Save([notified |-> TRUE, receipt |-> "RECEIPT", key |-> k]), RecordInGit>>
          /\ k # NoKey /\ k.kind \in heard /\ (Telling => state.about = k)
    BY <1>2 DEF Told
  <2>2. todo' = <<RecordInGit>> /\ state' = Updated([notified |-> TRUE, receipt |-> "RECEIPT", key |-> k])
    BY <1>0, <1>n, <2>1, Firsts
  <2>3. /\ state' \in StateFile /\ state'.key = k /\ state'.status = state.status /\ state'.gate = state.gate
        /\ state'.about = state.about /\ state'.released = state.released /\ state'.full = state.full
    BY <2>2, ReceiptUpdated
  <2>4. FileInv' BY <1>0, <2>1, <2>3 DEF FileInv
  <2>5. Noted' BY <1>0, <1>2, <2>1, <2>2, <2>3 DEF Noted, Told, NothingOwed, MilestoneHeard, Telling
  <2> QED BY <2>3, <2>4, <2>5
<1>3. CASE NotTold
  <2>1. PICK why \in {"FAILED", "MISSING"} : todo = <<Save([notified |-> FALSE, receipt |-> why]), RecordInGit>>
    BY <1>3 DEF NotTold
  <2>2. todo' = <<RecordInGit>> /\ state' = Updated([notified |-> FALSE, receipt |-> why])
    BY <1>0, <1>n, <2>1, Firsts
  <2>3. /\ state' \in StateFile /\ ~state'.notified /\ state'.key = state.key /\ state'.gate = state.gate
        /\ state'.released = state.released /\ state'.full = state.full /\ state'.receipt # "RECEIPT"
    <3>1. \E k : k \in Keys BY DEF Keys
    <3>2. /\ state' \in StateFile /\ state'.notified = FALSE /\ state'.key = state.key /\ state'.gate = state.gate
          /\ state'.released = state.released /\ state'.full = state.full /\ state'.receipt = why
      BY <2>2, <3>1, ReceiptUpdated
    <3> QED BY <3>2
  <2>4. FileInv' BY <1>0, <2>1, <2>3 DEF FileInv
  <2>5. Noted' BY <1>0, <1>3, <2>1, <2>2, <2>3 DEF Noted, NotTold, NothingOwed, MilestoneHeard, Telling
  <2> QED BY <2>3, <2>4, <2>5
<1>4. CASE Milestones
  <2>1. PICK verified \in BOOLEAN, told \in BOOLEAN :
          /\ told => MilestoneHeard
          /\ \/ \E g7 \in {"OPEN", "VERIFIED"}, complete \in BOOLEAN :
                  /\ todo = <<Release(g7)>> \o Completed(complete, verified, told)
                  /\ complete => heard # {}
             \/ /\ \/ todo = Completed(TRUE, verified, told) /\ heard # {}
                   \/ todo = Recorded(verified, told)
                   \/ todo = After(TRUE, told)
                /\ state.released /\ ~Telling
    BY <1>4 DEF Milestones
  <2>h. told => MilestoneHeard' BY <1>0, <2>1 DEF MilestoneHeard
  <2>2. ASSUME NEW g7 \in {"OPEN", "VERIFIED"}, NEW complete \in BOOLEAN,
               todo = <<Release(g7)>> \o Completed(complete, verified, told), complete => heard # {}
        PROVE  state' \in StateFile /\ FileInv' /\ Milestones'
    <3>1. todo' = Completed(complete, verified, told) /\ state' = Updated(Release(g7).new)
      BY <1>0, <2>2, MilestoneFirsts
    <3>2. /\ state' \in StateFile /\ state'.status = "MILESTONE_COMPLETE"
          /\ state'.gate \in {"TRACK_CDE_RELEASE", "TRACK_B_VALIDATION"}
          /\ state'.released = TRUE /\ state'.full = "IN_PROGRESS"
          /\ state'.key = state.key /\ state'.notified = state.notified /\ state'.receipt = state.receipt
      BY <3>1, ReleaseUpdated
    <3>3. FileInv' BY <1>0, <3>2 DEF FileInv
    <3>4. (todo' = Completed(TRUE, verified, told) /\ heard' # {}) \/ todo' = Recorded(verified, told)
      BY <1>0, <2>2, <3>1, MilestoneFirsts
    <3>5. state'.released /\ ~Telling' BY <3>2 DEF Telling
    <3>6. Milestones' BY <2>h, <3>4, <3>5 DEF Milestones
    <3> QED BY <3>2, <3>3, <3>6
  <2>3. ASSUME todo = Completed(TRUE, verified, told), heard # {}, state.released, ~Telling
        PROVE  state' \in StateFile /\ FileInv' /\ Milestones'
    <3>1. todo' = Recorded(verified, told) /\ state' = Updated(CompleteSave.new)
      BY <1>0, <2>3, MilestoneFirsts
    <3>2. /\ state' \in StateFile /\ state'.gate = "PROJECT_COMPLETE" /\ state'.status = state.status
          /\ state'.released = state.released
          /\ state'.key = state.key /\ state'.notified = state.notified /\ state'.receipt = state.receipt
      BY <3>1, CompleteUpdated
    <3>3. FileInv' BY <1>0, <2>3, <3>2 DEF FileInv
    <3>4. Milestones' BY <2>3, <2>h, <3>1, <3>2 DEF Milestones, Telling
    <3> QED BY <3>2, <3>3, <3>4
  <2>4. todo # Recorded(verified, told) /\ todo # After(TRUE, told)
    <3>1. "OPEN" \in {"OPEN", "VERIFIED"} OBVIOUS
    <3>2. Head(Recorded(verified, told)) = RecordInGit /\ Head(After(TRUE, told)) = RecordVerified
      BY <3>1, MilestoneFirsts
    <3> QED BY <1>0, <1>o, <3>2
  <2> QED BY <2>1, <2>2, <2>3, <2>4
<1>5. ~Saved /\ ~ToTell /\ ~Noted BY <1>0, <1>o, Firsts DEF Saved, ToTell, Noted
<1> QED BY <1>p, <1>1, <1>2, <1>3, <1>4, <1>5

-------------------------------------------------------------------------------
\* What comes next tells which of the plans it is.
LEMMA ReleaseHead ==
  ASSUME NEW verified \in BOOLEAN, NEW told \in BOOLEAN, NEW complete \in BOOLEAN, NEW g7 \in {"OPEN", "VERIFIED"}
  PROVE  Head(<<Release(g7)>> \o Completed(complete, verified, told)).op = "save"
<1>1. Head(<<Release(g7)>> \o Completed(complete, verified, told)) = Release(g7) BY MilestoneFirsts
<1> QED BY <1>1 DEF Release, Save

LEMMA MilestoneHeads ==
  \A verified, told \in BOOLEAN :
         /\ Head(Completed(TRUE, verified, told)).op = "save"
         /\ Head(Recorded(verified, told)).op = "record"
         /\ Head(After(TRUE, told)).op = "verified"
<1> SUFFICES ASSUME NEW verified \in BOOLEAN, NEW told \in BOOLEAN
             PROVE  /\ Head(Completed(TRUE, verified, told)).op = "save"
                    /\ Head(Recorded(verified, told)).op = "record"
                    /\ Head(After(TRUE, told)).op = "verified"
  OBVIOUS
<1>1. CompleteSave.op = "save" /\ RecordInGit.op = "record" /\ RecordVerified.op = "verified"
  BY DEF CompleteSave, Save, RecordInGit, RecordVerified
<1>2. "OPEN" \in {"OPEN", "VERIFIED"} OBVIOUS
<1>3. /\ Head(Completed(TRUE, verified, told)) = CompleteSave
      /\ Head(Recorded(verified, told)) = RecordInGit
      /\ Head(After(TRUE, told)) = RecordVerified
  BY <1>2, MilestoneFirsts
<1> QED BY <1>1, <1>3

LEMMA NextTold ==
  ASSUME PlanInv, NextEffect("notify")
  PROVE  ToTell
<1>0. InCycle /\ todo # <<>> /\ Head(todo).op = "notify" BY DEF NextEffect
<1>1. ~Planned /\ ~Saved /\ ~Told /\ ~NotTold /\ ~Noted
  BY <1>0, Firsts DEF Planned, Saved, Told, NotTold, Noted, Save, RecordInGit
<1>2. ~Milestones
  <2> SUFFICES ASSUME Milestones PROVE FALSE OBVIOUS
  <2>1. Head(todo).op \in {"save", "record", "verified"}
    <3>1. PICK verified \in BOOLEAN, told \in BOOLEAN :
            \/ \E g7 \in {"OPEN", "VERIFIED"}, complete \in BOOLEAN :
                 todo = <<Release(g7)>> \o Completed(complete, verified, told)
            \/ todo = Completed(TRUE, verified, told) \/ todo = Recorded(verified, told)
            \/ todo = After(TRUE, told)
      BY DEF Milestones
    <3>2. ASSUME NEW g7 \in {"OPEN", "VERIFIED"}, NEW complete \in BOOLEAN,
                 todo = <<Release(g7)>> \o Completed(complete, verified, told)
          PROVE  Head(todo).op = "save"
      <4>1. Head(<<Release(g7)>> \o Completed(complete, verified, told)).op = "save" BY ReleaseHead
      <4> QED BY <3>2, <4>1
    <3>3. Head(Completed(TRUE, verified, told)).op = "save" /\ Head(Recorded(verified, told)).op = "record"
          /\ Head(After(TRUE, told)).op = "verified"
      BY MilestoneHeads
    <3> QED BY <3>1, <3>2, <3>3
  <2> QED BY <1>0, <2>1
<1> QED BY <1>0, <1>1, <1>2 DEF PlanInv

LEMMA NextRecorded ==
  ASSUME PlanInv, NextEffect("record")
  PROVE  \/ Saved
         \/ Noted /\ todo = <<RecordInGit>>
         \/ \E verified, told \in BOOLEAN :
              /\ told => MilestoneHeard
              /\ todo = Recorded(verified, told) /\ state.released /\ ~Telling
<1>0. InCycle /\ todo # <<>> /\ Head(todo).op = "record" BY DEF NextEffect
<1>1. ~Planned /\ ~ToTell /\ ~Told /\ ~NotTold
  BY <1>0, Firsts DEF Planned, ToTell, Told, NotTold, Save, NotifyOfChange
<1>2. ASSUME Milestones
      PROVE  \E verified, told \in BOOLEAN :
               /\ told => MilestoneHeard
               /\ todo = Recorded(verified, told) /\ state.released /\ ~Telling
  <2>1. PICK verified \in BOOLEAN, told \in BOOLEAN :
          /\ told => MilestoneHeard
          /\ \/ \E g7 \in {"OPEN", "VERIFIED"}, complete \in BOOLEAN :
                  todo = <<Release(g7)>> \o Completed(complete, verified, told)
             \/ /\ \/ todo = Completed(TRUE, verified, told) \/ todo = Recorded(verified, told)
                   \/ todo = After(TRUE, told)
                /\ state.released /\ ~Telling
    BY <1>2 DEF Milestones
  <2>2. ASSUME NEW g7 \in {"OPEN", "VERIFIED"}, NEW complete \in BOOLEAN,
               todo = <<Release(g7)>> \o Completed(complete, verified, told)
        PROVE  FALSE
    <3>1. Head(<<Release(g7)>> \o Completed(complete, verified, told)).op = "save" BY ReleaseHead
    <3> QED BY <1>0, <2>2, <3>1
  <2>3. Head(Completed(TRUE, verified, told)).op = "save" /\ Head(Recorded(verified, told)).op = "record"
        /\ Head(After(TRUE, told)).op = "verified"
    BY MilestoneHeads
  <2> QED BY <1>0, <2>1, <2>2, <2>3
<1> QED BY <1>0, <1>1, <1>2 DEF PlanInv, Noted

LEMMA NextVerified ==
  ASSUME PlanInv, NextEffect("verified")
  PROVE  \E told \in BOOLEAN : (told => MilestoneHeard) /\ todo = After(TRUE, told) /\ state.released /\ ~Telling
<1>0. InCycle /\ todo # <<>> /\ Head(todo).op = "verified" BY DEF NextEffect
<1>1. ~Planned /\ ~Saved /\ ~ToTell /\ ~Told /\ ~NotTold /\ ~Noted
  BY <1>0, Firsts DEF Planned, Saved, ToTell, Told, NotTold, Noted, Save, NotifyOfChange, RecordInGit
<1>2. ASSUME Milestones
      PROVE  \E told \in BOOLEAN : (told => MilestoneHeard) /\ todo = After(TRUE, told) /\ state.released /\ ~Telling
  <2>1. PICK verified \in BOOLEAN, told \in BOOLEAN :
          /\ told => MilestoneHeard
          /\ \/ \E g7 \in {"OPEN", "VERIFIED"}, complete \in BOOLEAN :
                  todo = <<Release(g7)>> \o Completed(complete, verified, told)
             \/ /\ \/ todo = Completed(TRUE, verified, told) \/ todo = Recorded(verified, told)
                   \/ todo = After(TRUE, told)
                /\ state.released /\ ~Telling
    BY <1>2 DEF Milestones
  <2>2. ASSUME NEW g7 \in {"OPEN", "VERIFIED"}, NEW complete \in BOOLEAN,
               todo = <<Release(g7)>> \o Completed(complete, verified, told)
        PROVE  FALSE
    <3>1. Head(<<Release(g7)>> \o Completed(complete, verified, told)).op = "save" BY ReleaseHead
    <3> QED BY <1>0, <2>2, <3>1
  <2>3. Head(Completed(TRUE, verified, told)).op = "save" /\ Head(Recorded(verified, told)).op = "record"
        /\ Head(After(TRUE, told)).op = "verified"
    BY MilestoneHeads
  <2> QED BY <1>0, <2>1, <2>2, <2>3
<1> QED BY <1>0, <1>1, <1>2 DEF PlanInv

-------------------------------------------------------------------------------
\* Bale takes a message or not, or has it already.
LEMMA MoreFaults ==
  ASSUME NEW p \in Nat, NEW f \in Nat, NEW g \in Nat, p <= f + 1, f <= g
  PROVE  p <= g + 1
OBVIOUS

LEMMA TellStep ==
  ASSUME FinisherInv, TellNothing \/ TellBale \/ TellFails
  PROVE  FinisherInv'
<1> USE DEF FinisherInv, ValuesOK
<1>0. /\ InCycle /\ InCycle' /\ todo # <<>> /\ UNCHANGED <<worker, process, state, origin, pushed>> /\ NextEffect("notify")
      /\ heard \subseteq heard' /\ faults' \in Nat /\ faults <= faults'
  BY DEF TellNothing, TellBale, TellFails, NextEffect, EffectDone, InCycle
<1>1. PICK k \in Keys : /\ todo = <<NotifyOfChange(k), RecordInGit>> /\ k # NoKey
                        /\ (k = MilestoneKey \/ NothingOwed) /\ (Telling => state.about = k)
  BY <1>0, NextTold DEF ToTell
<1>2. Head(todo).key = k /\ Tail(todo) = <<RecordInGit>> BY <1>1, Firsts DEF NotifyOfChange
<1>3. CountInv'
  <2>1. worker # "dead" /\ worker' # "dead" BY <1>0 DEF InCycle
  <2>2. process # 0 /\ process <= faults + 1 /\ faults \in Nat /\ process \in Nat BY <2>1, FaultAssumption DEF CountInv
  <2>3. process' = process /\ faults' \in Nat /\ faults <= faults' BY <1>0
  <2>4. process' # 0 /\ process' <= faults' + 1
    <3>1. process' # 0 BY <2>2, <2>3
    <3>2. process <= faults' + 1 BY <2>2, <2>3, MoreFaults
    <3> QED BY <2>3, <3>1, <3>2
  <2> QED BY <2>1, <2>4 DEF CountInv
<1>4. FileInv' BY <1>0 DEF FileInv
<1>5. faults # 0 => faults' # 0 BY <1>0
<1>6. CASE TellNothing
  <2>1. state.key = k /\ state.notified /\ todo' = <<RecordInGit>> /\ heard' = heard /\ faults' = faults
    BY <1>2, <1>6 DEF TellNothing, AlreadyTold, EffectDone
  <2>2. NothingOwed' BY <1>0, <1>1, <2>1, KeyFacts DEF NothingOwed, MilestoneHeard, FileInv
  <2>3. Noted' BY <1>0, <1>1, <2>1, <2>2 DEF Noted, Telling
  <2> QED BY <1>0, <1>3, <1>4, <2>1, <2>3 DEF PlanInv, InCycle
<1>7. CASE TellBale
  <2>1. /\ heard' = heard \cup {k.kind} /\ faults' = faults
        /\ todo' = <<Save([notified |-> TRUE, receipt |-> "RECEIPT", key |-> k])>> \o <<RecordInGit>>
    BY <1>2, <1>7 DEF TellBale
  <2>2. todo' = <<Save([notified |-> TRUE, receipt |-> "RECEIPT", key |-> k]), RecordInGit>> BY <2>1, TwoEffects
  <2>3. k # NoKey BY <1>1
  <2>4. NothingOwed' BY <1>0, <1>1, <2>1 DEF NothingOwed, MilestoneHeard
  <2>5. Told' BY <1>0, <1>1, <2>1, <2>2, <2>3, <2>4 DEF Told, Telling
  <2> QED BY <1>0, <1>3, <1>4, <2>1, <2>5 DEF PlanInv, InCycle
<1>8. CASE TellFails
  <2>1. PICK why \in {"FAILED", "MISSING"} :
          todo' = <<Save([notified |-> FALSE, receipt |-> why])>> \o <<RecordInGit>>
    BY <1>2, <1>8 DEF TellFails
  <2>2. todo' = <<Save([notified |-> FALSE, receipt |-> why]), RecordInGit>> BY <2>1, TwoEffects
  <2>3. heard' = heard /\ faults' = faults + 1 /\ faults < MaxFaults BY <1>8 DEF TellFails
  <2>4. faults' # 0 /\ faults' \in 0..MaxFaults BY <2>3, FaultAssumption
  <2>5. NotTold' BY <2>2, <2>4 DEF NotTold, NothingOwed, MilestoneHeard
  <2> QED BY <1>0, <1>3, <1>4, <2>3, <2>4, <2>5 DEF PlanInv, InCycle
<1> QED BY <1>6, <1>7, <1>8

-------------------------------------------------------------------------------
\* git takes the file; what was owed before is owed still.
LEMMA RecordStep ==
  ASSUME FinisherInv, DoRecord
  PROVE  FinisherInv'
<1> USE DEF FinisherInv, ValuesOK
<1>0. /\ InCycle /\ InCycle' /\ todo # <<>> /\ todo' = Tail(todo) /\ pushed' = TRUE /\ origin' = state
      /\ UNCHANGED <<worker, process, state, heard, faults>>
      /\ NextEffect("record") \/ NextEffect("verified")
  BY DEF DoRecord, NextEffect, EffectDone, InCycle
<1>1. CountInv' BY <1>0 DEF CountInv
<1>2. FileInv' BY <1>0 DEF FileInv
<1>3. MilestoneHeard' = MilestoneHeard /\ NothingOwed' = NothingOwed /\ Telling' = Telling
  BY <1>0 DEF MilestoneHeard, NothingOwed, Telling
<1> SUFFICES ASSUME TRUE PROVE (Planned \/ Saved \/ ToTell \/ Told \/ NotTold \/ Noted \/ Milestones)'
  BY <1>0, <1>1, <1>2 DEF PlanInv, InCycle
<1>4. CASE Saved
  <2>1. PICK k \in Keys : /\ todo = <<RecordInGit, NotifyOfChange(k), RecordInGit>> /\ k # NoKey
                          /\ NothingOwed /\ state.about = k
    BY <1>4 DEF Saved
  <2>2. todo' = <<NotifyOfChange(k), RecordInGit>> BY <1>0, <2>1, Firsts
  <2>3. ToTell' BY <1>0, <1>3, <2>1, <2>2 DEF ToTell
  <2> QED BY <2>3
<1>5. CASE Noted /\ todo = <<RecordInGit>>
  <2>1. todo' = <<>> BY <1>0, <1>5, Firsts
  <2>2. Noted' BY <1>0, <1>3, <1>5, <2>1 DEF Noted
  <2> QED BY <2>2
<1>6. ASSUME NEW verified \in BOOLEAN, NEW told \in BOOLEAN, told => MilestoneHeard,
             todo = Recorded(verified, told) \/ (verified /\ todo = After(TRUE, told)), state.released, ~Telling
      PROVE  (Planned \/ Saved \/ ToTell \/ Told \/ NotTold \/ Noted \/ Milestones)'
  <2>0. "OPEN" \in {"OPEN", "VERIFIED"} OBVIOUS
  <2>1. todo' = After(TRUE, told) \/ todo' = After(FALSE, told)
    <3>1. CASE todo = Recorded(verified, told)
      <4>1. todo' = After(verified, told) BY <1>0, <2>0, <3>1, MilestoneFirsts
      <4>2. CASE verified = TRUE BY <4>1, <4>2
      <4>3. CASE verified = FALSE BY <4>1, <4>3
      <4> QED BY <4>2, <4>3
    <3>2. CASE todo = After(TRUE, told) BY <1>0, <2>0, <3>2, MilestoneFirsts
    <3> QED BY <1>6, <3>1, <3>2
  <2>2. CASE todo' = After(TRUE, told)
    <3>1. Milestones' BY <1>0, <1>3, <1>6, <2>2 DEF Milestones
    <3> QED BY <3>1
  <2>3. CASE todo' = After(FALSE, told)
    <3>1. todo' = IF told THEN <<>> ELSE <<NotifyOfChange(MilestoneKey), RecordInGit>>
      BY <2>0, <2>3, MilestoneFirsts
    <3>2. CASE told = TRUE
      <4>1. Noted' BY <1>0, <1>3, <1>6, <3>1, <3>2 DEF Noted, NothingOwed
      <4> QED BY <4>1
    <3>3. CASE told = FALSE
      <4>1. ToTell' BY <1>0, <1>3, <1>6, <3>1, <3>3, KeyFacts DEF ToTell
      <4> QED BY <4>1
    <3> QED BY <3>2, <3>3
  <2> QED BY <2>1, <2>2, <2>3
<1>7. CASE NextEffect("record") BY <1>4, <1>5, <1>6, <1>7, NextRecorded
<1>8. CASE NextEffect("verified")
  <2>1. PICK told \in BOOLEAN : (told => MilestoneHeard) /\ todo = After(TRUE, told) /\ state.released /\ ~Telling
    BY <1>8, NextVerified
  <2>2. TRUE \in BOOLEAN OBVIOUS
  <2> QED BY <1>6, <2>1, <2>2
<1> QED BY <1>0, <1>7, <1>8

-------------------------------------------------------------------------------
\* git fails, a stage raises: the handler has its own plan, or the worker rests in a file
\* that git does not have, or that was told of before.
LEMMA FaultStep ==
  ASSUME FinisherInv, RecordFails \/ VerifiedFails \/ StagesRaise
  PROVE  FinisherInv'
<1> USE DEF FinisherInv, ValuesOK
<1>0. /\ UNCHANGED <<state, origin, pushed, heard, process>> /\ faults' = faults + 1 /\ faults < MaxFaults
      /\ worker \in {"stages", "cycle", "handler"}
  BY DEF RecordFails, VerifiedFails, StagesRaise, CycleRaises, EffectDone, NextEffect, InCycle
<1>1. faults' # 0 /\ faults' \in 0..MaxFaults /\ faults <= faults' /\ faults \in Nat /\ faults' \in Nat
  BY <1>0, FaultAssumption
<1>2. FileInv' BY <1>0 DEF FileInv
<1>3. NothingOwed' /\ MilestoneHeard' BY <1>1 DEF NothingOwed, MilestoneHeard
<1>4. worker' \in {"cycle", "handler", "sleep"}
  BY <1>0 DEF RecordFails, VerifiedFails, StagesRaise, CycleRaises, EffectDone, NextEffect, InCycle
<1>5. CountInv'
  <2>1. process # 0 /\ process <= faults + 1 BY <1>0 DEF CountInv
  <2>2. process <= faults' + 1 BY <1>1, <2>1, MoreFaults
  <2> QED BY <1>0, <1>4, <2>1, <2>2 DEF CountInv
<1>6. ASSUME todo' = Handled, worker' = "handler" PROVE PlanInv'
  <2>1. todo' = <<Save([status |-> "BLOCKED", gate |-> "FINISHER_RUNTIME", about |-> RuntimeKey]), RecordInGit,
                  NotifyOfChange(RuntimeKey), RecordInGit>>
    BY <1>6 DEF Handled
  <2>2. Planned' BY <1>3, <2>1, KeyFacts DEF Planned
  <2> QED BY <1>1, <1>6, <2>2 DEF PlanInv, InCycle
<1>7. CASE StagesRaise
  <2>1. PlanInv' BY <1>6, <1>7 DEF StagesRaise
  <2> QED BY <1>0, <1>1, <1>2, <1>4, <1>5, <2>1
<1>8. CASE RecordFails
  <2>0. NextEffect("record") BY <1>8 DEF RecordFails
  <2>1. CASE worker = "cycle"
    <3>1. PlanInv' BY <1>6, <1>8, <2>1 DEF RecordFails, CycleRaises
    <3> QED BY <1>0, <1>1, <1>2, <1>4, <1>5, <3>1
  <2>2. CASE worker # "cycle"
    <3>1. worker' = "sleep" /\ todo' = <<>> BY <1>8, <2>2 DEF RecordFails, CycleRaises
    <3>2. pushed /\ Telling /\ state.notified => state.key = state.about
      BY <2>0, NextRecorded DEF Saved, Noted
    <3>3. PlanInv' BY <1>0, <1>1, <1>3, <3>1, <3>2 DEF PlanInv, InCycle, Telling
    <3> QED BY <1>0, <1>1, <1>2, <1>4, <1>5, <3>3
  <2> QED BY <2>1, <2>2
<1>9. CASE VerifiedFails
  <2>0. NextEffect("verified") /\ todo' = Tail(todo) /\ worker' = worker BY <1>9 DEF VerifiedFails, EffectDone
  <2>1. PICK told \in BOOLEAN : todo = After(TRUE, told) /\ state.released /\ ~Telling
    BY <2>0, NextVerified
  <2>2. todo' = IF told THEN <<>> ELSE <<NotifyOfChange(MilestoneKey), RecordInGit>>
    <3>1. "OPEN" \in {"OPEN", "VERIFIED"} OBVIOUS
    <3> QED BY <2>0, <2>1, <3>1, MilestoneFirsts
  <2>3. Noted' \/ ToTell'
    <3>1. CASE told = TRUE BY <1>0, <1>1, <1>3, <2>1, <2>2, <3>1 DEF Noted, Telling
    <3>2. CASE told = FALSE BY <1>0, <2>1, <2>2, <3>2, KeyFacts DEF ToTell, Telling
    <3> QED BY <3>1, <3>2
  <2>4. InCycle' /\ worker' # "sleep" BY <2>0 DEF NextEffect, InCycle
  <2>5. PlanInv' BY <1>1, <2>3, <2>4 DEF PlanInv, InCycle
  <2> QED BY <1>0, <1>1, <1>2, <1>4, <1>5, <2>5
<1> QED BY <1>7, <1>8, <1>9

-------------------------------------------------------------------------------
\* A worker starts, begins a cycle, rests after one, or is killed.
LEMMA RestStep ==
  ASSUME FinisherInv, FinisherStarts \/ CycleBegins \/ EndCycle \/ FinisherKilled
  PROVE  FinisherInv'
<1> USE DEF FinisherInv, ValuesOK
<1>1. CASE FinisherStarts
  <2>1. /\ worker = "dead" /\ worker' = "begin" /\ todo' = <<>> /\ process' = process + 1
        /\ UNCHANGED <<state, origin, pushed, heard, faults>>
    BY <1>1 DEF FinisherStarts
  <2>2. process <= faults /\ process \in Nat /\ faults \in Nat BY <2>1, FaultAssumption DEF CountInv
  <2>3. process + 1 # 0 /\ process + 1 <= faults + 1 BY <2>2
  <2>4. CountInv' BY <2>1, <2>3 DEF CountInv
  <2>5. FileInv' /\ NothingOwed' BY <2>1 DEF FileInv, PlanInv, NothingOwed, MilestoneHeard
  <2>6. PlanInv' BY <2>1, <2>5 DEF PlanInv, InCycle
  <2> QED BY <2>1, <2>2, <2>4, <2>5, <2>6
<1>2. CASE CycleBegins
  <2>1. /\ worker \in {"begin", "sleep"} /\ worker' = "stages"
        /\ state' = Updated([status |-> "RUNNING", gate |-> Reached, about |-> NoKey])
        /\ UNCHANGED <<origin, todo, process, heard, faults>> /\ pushed' = FALSE
    BY <1>2 DEF CycleBegins
  <2>2. /\ Reached \in {"TRACK_CDE_RELEASE", "TRACK_B_VALIDATION", "TRACK_A_RUNTIME"}
        /\ state.released => Reached # "TRACK_A_RUNTIME"
    <3>1. CASE state.released /\ state.g7 = "VERIFIED" BY <3>1 DEF Reached
    <3>2. CASE state.released /\ state.g7 # "VERIFIED" BY <3>2 DEF Reached
    <3>3. CASE ~state.released
      <4>1. Reached = "TRACK_A_RUNTIME" BY <3>3 DEF Reached
      <4> QED BY <3>3, <4>1
    <3> QED BY <3>1, <3>2, <3>3
  <2>3. /\ state' \in StateFile /\ state'.status = "RUNNING" /\ state'.gate = Reached
        /\ state'.released = state.released /\ state'.full = state.full
        /\ state'.key = state.key /\ state'.notified = state.notified /\ state'.receipt = state.receipt
    BY <2>1, <2>2, KeyFacts, StatusUpdated
  <2>4. CountInv' BY <2>1 DEF CountInv
  <2>5. FileInv' BY <2>1, <2>2, <2>3 DEF FileInv
  <2>6. NothingOwed' BY <2>1, <2>3 DEF PlanInv, NothingOwed, MilestoneHeard
  <2>7. PlanInv' BY <2>1, <2>6 DEF PlanInv, InCycle
  <2> QED BY <2>1, <2>3, <2>4, <2>5, <2>7
<1>3. CASE EndCycle
  <2>1. /\ InCycle /\ todo = <<>> /\ worker' = "sleep"
        /\ UNCHANGED <<state, origin, pushed, todo, process, heard, faults>>
    BY <1>3 DEF EndCycle
  <2>2. Noted
    <3>1. ~Planned /\ ~Saved /\ ~ToTell /\ ~Told /\ ~NotTold
      BY <2>1, Firsts DEF Planned, Saved, ToTell, Told, NotTold
    <3>2. ~Milestones
      <4> SUFFICES ASSUME Milestones PROVE FALSE OBVIOUS
      <4>1. PICK verified \in BOOLEAN, told \in BOOLEAN :
              \/ \E g7 \in {"OPEN", "VERIFIED"}, complete \in BOOLEAN :
                   todo = <<Release(g7)>> \o Completed(complete, verified, told)
              \/ todo = Completed(TRUE, verified, told) \/ todo = Recorded(verified, told)
              \/ todo = After(TRUE, told)
        BY DEF Milestones
      <4>2. ASSUME NEW g7 \in {"OPEN", "VERIFIED"}, NEW complete \in BOOLEAN
            PROVE  /\ <<Release(g7)>> \o Completed(complete, verified, told) # <<>>
                   /\ Completed(TRUE, verified, told) # <<>> /\ Recorded(verified, told) # <<>>
                   /\ After(TRUE, told) # <<>>
        BY MilestoneFirsts
      <4>3. "OPEN" \in {"OPEN", "VERIFIED"} OBVIOUS
      <4> QED BY <2>1, <4>1, <4>2, <4>3
    <3> QED BY <2>1, <3>1, <3>2 DEF PlanInv
  <2>3. CountInv' BY <2>1 DEF CountInv, InCycle
  <2>4. FileInv' /\ NothingOwed' BY <2>1, <2>2 DEF FileInv, Noted, NothingOwed, MilestoneHeard
  <2>5. faults = 0 => pushed BY <2>1, <2>2, Firsts DEF Noted
  <2>6. PlanInv' BY <2>1, <2>2, <2>4, <2>5 DEF PlanInv, InCycle, Noted, Telling
  <2> QED BY <2>1, <2>3, <2>4, <2>6
<1>4. CASE FinisherKilled
  <2>1. /\ worker # "dead" /\ worker' = "dead" /\ todo' = <<>> /\ faults < MaxFaults /\ faults' = faults + 1
        /\ UNCHANGED <<state, origin, pushed, process, heard>>
    BY <1>4 DEF FinisherKilled
  <2>2. faults' # 0 /\ faults' \in 0..MaxFaults BY <2>1, FaultAssumption
  <2>3. process <= faults' BY <2>1 DEF CountInv
  <2>4. CountInv' BY <2>1, <2>3 DEF CountInv
  <2>5. FileInv' /\ NothingOwed' BY <2>1, <2>2 DEF FileInv, NothingOwed, MilestoneHeard
  <2>6. PlanInv' BY <2>1, <2>5 DEF PlanInv, InCycle
  <2> QED BY <2>1, <2>2, <2>4, <2>5, <2>6
<1> QED BY <1>1, <1>2, <1>3, <1>4

\* Concatenation under a name of its own, which the provers leave whole.
Joined(s, t) == s \o t

LEMMA JoinedTwice ==
  ASSUME NEW S, NEW s \in Seq(S), NEW t \in Seq(S), NEW u \in Seq(S)
  PROVE  Joined(Joined(s, t), u) = Joined(s, Joined(t, u))
<1>1. (s \o t) \o u = s \o (t \o u) OBVIOUS
<1> QED BY <1>1 DEF Joined

LEMMA JoinedFive ==
  ASSUME NEW S, NEW a \in Seq(S), NEW b \in Seq(S), NEW c \in Seq(S), NEW d \in Seq(S), NEW e \in Seq(S)
  PROVE  Joined(Joined(Joined(Joined(a, b), c), d), e) = Joined(a, Joined(b, Joined(c, Joined(d, e))))
<1>1. \A x, y \in Seq(S) : Joined(x, y) \in Seq(S) BY ConcatProperties DEF Joined
<1>2. \A x, y, z \in Seq(S) : Joined(Joined(x, y), z) = Joined(x, Joined(y, z)) BY JoinedTwice
<1>3. Joined(a, b) \in Seq(S) /\ Joined(Joined(a, b), c) \in Seq(S) BY <1>1
<1>4. Joined(d, e) \in Seq(S) /\ Joined(c, Joined(d, e)) \in Seq(S) BY <1>1
<1>5. Joined(Joined(Joined(Joined(a, b), c), d), e) = Joined(Joined(Joined(a, b), c), Joined(d, e)) BY <1>2, <1>3
<1>6. Joined(Joined(Joined(a, b), c), Joined(d, e)) = Joined(Joined(a, b), Joined(c, Joined(d, e))) BY <1>2, <1>3, <1>4
<1>7. Joined(Joined(a, b), Joined(c, Joined(d, e))) = Joined(a, Joined(b, Joined(c, Joined(d, e)))) BY <1>2, <1>4
<1> QED BY <1>5, <1>6, <1>7

\* The stages come to an end: what a cycle writes and tells is one of the plans.
LEMMA GoesStep ==
  ASSUME FinisherInv, StageFails \/ AllPass \/ Progress
  PROVE  FinisherInv'
<1> USE DEF FinisherInv, ValuesOK
<1>0. /\ worker = "stages" /\ worker' = "cycle" /\ UNCHANGED <<state, origin, pushed, process, heard, faults>>
  BY DEF StageFails, AllPass, Progress, CycleGoes
<1>1. CountInv' /\ FileInv' BY <1>0 DEF CountInv, FileInv
<1>2. NothingOwed /\ NothingOwed' BY <1>0 DEF PlanInv, NothingOwed, MilestoneHeard
<1>3. MilestoneHeard' = MilestoneHeard BY <1>0 DEF MilestoneHeard
<1> SUFFICES ASSUME TRUE PROVE Planned' \/ Milestones'
  BY <1>0, <1>1 DEF PlanInv, InCycle
<1>4. CASE StageFails
  <2>1. PICK stage \in FinisherStages :
          LET key == Key("FAIL", stage, process)
          IN CycleGoes(<<Save([status |-> "BLOCKED", gate |-> stage, about |-> key]), RecordInGit,
                         NotifyOfChange(key), RecordInGit>>)
    BY <1>4 DEF StageFails
  <2> DEFINE key == Key("FAIL", stage, process)
  <2>2. process \in 1..(MaxFaults + 1)
    <3>1. process # 0 /\ process <= faults + 1 BY <1>0 DEF CountInv
    <3> QED BY <3>1, FaultAssumption
  <2>3. key \in Keys /\ key # NoKey BY <2>2, KeyFacts
  <2> HIDE DEF key
  <2>4. todo' = <<Save([status |-> "BLOCKED", gate |-> stage, about |-> key]), RecordInGit, NotifyOfChange(key), RecordInGit>>
    BY <2>1 DEF CycleGoes, key
  <2> QED BY <1>2, <2>3, <2>4 DEF Planned
<1>5. CASE Progress
  <2>1. PICK e \in Diagnostics :
          LET key == Key("G7-5-STATE", e, 0)
          IN CycleGoes(<<Save([status |-> "IN_PROGRESS", gate |-> "G7-5", about |-> key]), RecordInGit,
                         NotifyOfChange(key), RecordInGit>>)
    BY <1>5 DEF Progress
  <2> DEFINE key == Key("G7-5-STATE", e, 0)
  <2>2. key \in Keys /\ key # NoKey BY KeyFacts
  <2> HIDE DEF key
  <2>3. todo' = <<Save([status |-> "IN_PROGRESS", gate |-> "G7-5", about |-> key]), RecordInGit, NotifyOfChange(key), RecordInGit>>
    BY <2>1 DEF CycleGoes, key
  <2> QED BY <1>2, <2>2, <2>3 DEF Planned
<1>6. CASE AllPass
  <2>1. PICK g7 \in {"OPEN", "VERIFIED"}, reported \in BOOLEAN :
          todo' = <<Release(g7)>>
             \o (IF reported /\ Delivered
                 THEN <<Save([full |-> "COMPLETE", gate |-> "PROJECT_COMPLETE"])>> ELSE <<>>)
             \o <<RecordInGit>>
             \o (IF g7 = "VERIFIED" THEN <<RecordVerified>> ELSE <<>>)
             \o (IF AlreadyReleased THEN <<>> ELSE <<NotifyOfChange(MilestoneKey), RecordInGit>>)
    BY <1>6 DEF AllPass, CycleGoes
  <2>2. PICK complete \in BOOLEAN, verified \in BOOLEAN, told \in BOOLEAN :
          (complete <=> reported /\ Delivered) /\ (verified <=> g7 = "VERIFIED") /\ (told <=> AlreadyReleased)
    OBVIOUS
  <2>3. todo' = <<Release(g7)>> \o IfTrue(complete, <<CompleteSave>>) \o <<RecordInGit>>
                  \o IfTrue(verified, <<RecordVerified>>)
                  \o IfTrue(~told, <<NotifyOfChange(MilestoneKey), RecordInGit>>)
    BY <2>1, <2>2 DEF IfTrue, CompleteSave
  <2>4. todo' = <<Release(g7)>> \o Completed(complete, verified, told)
    <3> DEFINE S == MilestoneEffects
               a == <<Release(g7)>>
               b == IfTrue(complete, <<CompleteSave>>)
               c == <<RecordInGit>>
               d == IfTrue(verified, <<RecordVerified>>)
               e == IfTrue(~told, <<NotifyOfChange(MilestoneKey), RecordInGit>>)
    <3>1. a \in Seq(S) /\ c \in Seq(S) BY DEF MilestoneEffects
    <3>n. <<>> \in Seq(S) /\ <<CompleteSave>> \in Seq(S) /\ <<RecordVerified>> \in Seq(S)
          /\ <<NotifyOfChange(MilestoneKey), RecordInGit>> \in Seq(S)
      BY DEF MilestoneEffects
    <3>2. b \in Seq(S) /\ d \in Seq(S)
      <4> HIDE DEF S
      <4> QED BY <3>n DEF IfTrue
    <3>3. e \in Seq(S)
      <4> HIDE DEF S
      <4> QED BY <3>n DEF IfTrue
    <3>4. Completed(complete, verified, told) = Joined(b, Joined(c, Joined(d, e)))
      BY DEF Completed, Recorded, After, Joined
    <3>5. todo' = Joined(Joined(Joined(Joined(a, b), c), d), e) BY <2>3 DEF Joined
    <3> HIDE DEF S, a, b, c, d, e
    <3>6. Joined(Joined(Joined(Joined(a, b), c), d), e) = Joined(a, Joined(b, Joined(c, Joined(d, e))))
      BY <3>1, <3>2, <3>3, JoinedFive
    <3> QED BY <3>4, <3>5, <3>6 DEF a, Joined
  <2>5. complete => heard' # {}
    <3>1. Delivered => state.receipt = "RECEIPT" BY DEF Delivered, StateFile
    <3> QED BY <1>0, <2>2, <3>1 DEF FileInv
  <2>6. told => MilestoneHeard' BY <1>2, <1>3, <2>2 DEF AlreadyReleased, NothingOwed
  <2> QED BY <2>4, <2>5, <2>6 DEF Milestones
<1> QED BY <1>4, <1>5, <1>6

-------------------------------------------------------------------------------
\* The inductive invariant, of every run of the worker.
THEOREM FinisherInvariance == FinisherSpec => []FinisherInv
<1>1. FinisherInit => FinisherInv
  <2> SUFFICES ASSUME FinisherInit PROVE FinisherInv OBVIOUS
  <2>1. NoKey \in Keys BY KeyFacts
  <2>2. state \in StateFile BY <2>1 DEF FinisherInit, StateFile
  <2>3. ValuesOK BY <2>2, FaultAssumption DEF FinisherInit, ValuesOK
  <2>4. CountInv BY DEF FinisherInit, CountInv
  <2>5. FileInv BY DEF FinisherInit, FileInv
  <2>6. PlanInv BY DEF FinisherInit, PlanInv, NothingOwed, InCycle
  <2> QED BY <2>3, <2>4, <2>5, <2>6 DEF FinisherInv
<1>2. FinisherInv /\ [FinisherNext]_finisherVars => FinisherInv'
  <2> SUFFICES ASSUME FinisherInv, [FinisherNext]_finisherVars PROVE FinisherInv' OBVIOUS
  <2>1. CASE UNCHANGED finisherVars
    <3>1. UNCHANGED <<state, origin, pushed, worker, todo, process, heard, faults>> BY <2>1 DEF finisherVars
    <3>2. (ValuesOK /\ CountInv /\ FileInv)' BY <3>1 DEF FinisherInv, ValuesOK, CountInv, FileInv
    <3>3. NothingOwed' = NothingOwed /\ MilestoneHeard' = MilestoneHeard /\ Telling' = Telling /\ InCycle' = InCycle
      BY <3>1 DEF NothingOwed, MilestoneHeard, Telling, InCycle
    <3>4. (Planned => Planned') /\ (Saved => Saved') BY <3>1, <3>3 DEF Planned, Saved
    <3>5. (ToTell => ToTell') /\ (Told => Told') BY <3>1, <3>3 DEF ToTell, Told
    <3>6. (NotTold => NotTold') /\ (Noted => Noted') BY <3>1, <3>3 DEF NotTold, Noted
    <3>7. Milestones => Milestones' BY <3>1, <3>3 DEF Milestones
    <3>8. PlanInv' BY <3>1, <3>3, <3>4, <3>5, <3>6, <3>7 DEF FinisherInv, PlanInv
    <3> QED BY <3>2, <3>8 DEF FinisherInv
  <2>2. CASE DoSave BY <2>2, SaveStep
  <2>3. CASE TellNothing \/ TellBale \/ TellFails BY <2>3, TellStep
  <2>4. CASE DoRecord BY <2>4, RecordStep
  <2>5. CASE RecordFails \/ VerifiedFails \/ StagesRaise BY <2>5, FaultStep
  <2>6. CASE FinisherStarts \/ CycleBegins \/ EndCycle \/ FinisherKilled BY <2>6, RestStep
  <2>7. CASE StageFails \/ AllPass \/ Progress BY <2>7, GoesStep
  <2> QED BY <2>1, <2>2, <2>3, <2>4, <2>5, <2>6, <2>7 DEF FinisherNext, FinisherWorks
<1> QED BY <1>1, <1>2, PTL DEF FinisherSpec

\* Whatever is still before the cycle is an effect of the code, and none of its writes takes
\* the release back.
IsEffect(e) ==
  /\ e.op \in {"save", "record", "verified", "notify"}
  /\ "released" \in DOMAIN e.new => e.new.released = TRUE

LEMMA EffectLists ==
  ASSUME NEW S, NEW a \in S, NEW b \in S, NEW c \in S, NEW d \in S
  PROVE  {<<>>, <<a>>, <<a, b>>, <<a, b, c>>, <<a, b, c, d>>} \subseteq Seq(S)
OBVIOUS

LEMMA Effects ==
  ASSUME FinisherInv
  PROVE  \E S : todo \in Seq(S) /\ \A e \in S : IsEffect(e)
<1>1. /\ IsEffect(RecordInGit) /\ IsEffect(RecordVerified) /\ \A k \in Keys : IsEffect(NotifyOfChange(k))
      /\ IsEffect(CompleteSave) /\ \A g7 \in {"OPEN", "VERIFIED"} : IsEffect(Release(g7))
  BY DEF IsEffect, RecordInGit, RecordVerified, NotifyOfChange, CompleteSave, Release, Save
<1>2. \A status, gate, k : IsEffect(Save([status |-> status, gate |-> gate, about |-> k]))
  BY DEF IsEffect, Save
<1>3. \A k : IsEffect(Save([notified |-> TRUE, receipt |-> "RECEIPT", key |-> k])) BY DEF IsEffect, Save
<1>4. \A why : IsEffect(Save([notified |-> FALSE, receipt |-> why])) BY DEF IsEffect, Save
<1>5. \A a, b, c : IsEffect(a) /\ IsEffect(b) /\ IsEffect(c)
        /\ todo \in {<<>>, <<a>>, <<a, b>>, <<a, b, c>>, <<a, b, c, b>>}
        => \E S : todo \in Seq(S) /\ \A e \in S : IsEffect(e)
  <2> SUFFICES ASSUME NEW a, NEW b, NEW c, IsEffect(a), IsEffect(b), IsEffect(c),
                      todo \in {<<>>, <<a>>, <<a, b>>, <<a, b, c>>, <<a, b, c, b>>}
               PROVE  \E S : todo \in Seq(S) /\ \A e \in S : IsEffect(e)
    OBVIOUS
  <2> DEFINE S == {a, b, c}
  <2>1. a \in S /\ b \in S /\ c \in S /\ \A e \in S : IsEffect(e) OBVIOUS
  <2> HIDE DEF S
  <2>2. todo \in Seq(S) BY <2>1, EffectLists
  <2> QED BY <2>1, <2>2
<1> HIDE DEF IsEffect
<1>6. CASE ~InCycle
  <2>1. todo = <<>> BY <1>6 DEF FinisherInv, PlanInv, InCycle
  <2> QED BY <1>1, <1>5, <2>1
<1>7. CASE Planned
  <2>1. PICK k \in Keys, status \in {"BLOCKED", "IN_PROGRESS"},
          gate \in FinisherStages \cup {"G7-5", "FINISHER_RUNTIME"} :
          todo = <<Save([status |-> status, gate |-> gate, about |-> k]), RecordInGit, NotifyOfChange(k), RecordInGit>>
    BY <1>7 DEF Planned
  <2> DEFINE a == Save([status |-> status, gate |-> gate, about |-> k])
  <2>2. IsEffect(a) /\ IsEffect(NotifyOfChange(k)) BY <1>1, <1>2
  <2>3. todo = <<a, RecordInGit, NotifyOfChange(k), RecordInGit>> BY <2>1
  <2> HIDE DEF a
  <2> QED BY <1>1, <1>5, <2>2, <2>3
<1>8. CASE Saved \/ ToTell
  <2>1. PICK k \in Keys : todo = <<RecordInGit, NotifyOfChange(k), RecordInGit>> \/ todo = <<NotifyOfChange(k), RecordInGit>>
    BY <1>8 DEF Saved, ToTell
  <2>2. IsEffect(NotifyOfChange(k)) BY <1>1
  <2> QED BY <1>1, <1>5, <2>1, <2>2
<1>9. CASE Told \/ NotTold \/ Noted
  <2>1. PICK e : IsEffect(e) /\ todo \in {<<e, RecordInGit>>, <<RecordInGit>>, <<>>}
    BY <1>1, <1>3, <1>4, <1>9 DEF Told, NotTold, Noted
  <2> QED BY <1>1, <1>5, <2>1
<1>10. CASE Milestones
  <2>1. \A e \in MilestoneEffects : IsEffect(e) BY <1>1, KeyFacts DEF MilestoneEffects
  <2>2. todo \in Seq(MilestoneEffects)
    <3>1. TRUE \in BOOLEAN /\ FALSE \in BOOLEAN /\ "OPEN" \in {"OPEN", "VERIFIED"} OBVIOUS
    <3>2. PICK verified \in BOOLEAN, told \in BOOLEAN :
            \/ \E g7 \in {"OPEN", "VERIFIED"}, complete \in BOOLEAN :
                 todo = <<Release(g7)>> \o Completed(complete, verified, told)
            \/ todo = Completed(TRUE, verified, told)
            \/ todo = Recorded(verified, told)
            \/ todo = After(TRUE, told)
      BY <1>10 DEF Milestones
    <3>3. /\ Completed(TRUE, verified, told) \in Seq(MilestoneEffects)
          /\ Recorded(verified, told) \in Seq(MilestoneEffects)
      BY <3>1, Concats
    <3>4. After(TRUE, told) \in Seq(MilestoneEffects) BY <3>1, Concats
    <3>5. \A g7 \in {"OPEN", "VERIFIED"}, complete \in BOOLEAN :
            <<Release(g7)>> \o Completed(complete, verified, told) \in Seq(MilestoneEffects)
      BY Concats
    <3> QED BY <3>2, <3>3, <3>4, <3>5
  <2> QED BY <2>1, <2>2
<1> QED BY <1>6, <1>7, <1>8, <1>9, <1>10 DEF FinisherInv, PlanInv

LEMMA FinisherTypes == FinisherInv => FinisherTypeOK
<1> SUFFICES ASSUME FinisherInv PROVE FinisherTypeOK OBVIOUS
<1>1. \A i \in DOMAIN todo : todo[i].op \in {"save", "record", "verified", "notify"}
  <2>1. PICK S : todo \in Seq(S) /\ \A e \in S : IsEffect(e) BY Effects
  <2>2. \A i \in DOMAIN todo : todo[i] \in S BY <2>1
  <2> QED BY <2>1, <2>2 DEF IsEffect
<1>2. ValuesOK /\ CountInv BY DEF FinisherInv
<1>3. process \in 0..(MaxFaults + 1) BY <1>2, FaultAssumption DEF ValuesOK, CountInv
<1>4. {state, origin} \subseteq StateFile BY <1>2 DEF ValuesOK
<1> QED BY <1>1, <1>2, <1>3, <1>4 DEF FinisherTypeOK, ValuesOK, StateFile

\* What the operator is told of, what the file says of it and what git has agree, however
\* often git, Bale and the phone fail, and whatever the diagnostics may say.
THEOREM WhatTheOperatorKnows == FinisherSpec => []OperatorKnows
<1>1. FinisherInv => OperatorKnows
  <2> SUFFICES ASSUME FinisherInv PROVE OperatorKnows OBVIOUS
  <2> USE DEF FinisherInv
  <2>1. FinisherTypeOK BY FinisherTypes
  <2>2. MilestoneIsTold BY DEF MilestoneIsTold, PlanInv, NothingOwed, MilestoneHeard
  <2>3. ToldOfThisState
    BY DEF ToldOfThisState, PlanInv, Telling, FileInv
  <2>4. CompleteAfterDelivery BY DEF CompleteAfterDelivery, FileInv
  <2> QED BY <2>1, <2>2, <2>3, <2>4 DEF OperatorKnows
<1> QED BY <1>1, FinisherInvariance, PTL

\* No cycle takes the release back, in the file or on main.
THEOREM TheReleaseStands == FinisherSpec => ReleaseStands
<1>1. FinisherInv /\ FinisherInv' /\ [FinisherNext]_finisherVars =>
        [(state.released => state'.released /\ state'.gate # "TRACK_A_RUNTIME")
         /\ (origin.released => origin'.released)]_finisherVars
  <2> SUFFICES ASSUME FinisherInv, FinisherInv', FinisherNext
               PROVE  /\ state.released => state'.released /\ state'.gate # "TRACK_A_RUNTIME"
                      /\ origin.released => origin'.released
    OBVIOUS
  <2>1. state.released => state'.released
    <3>1. CASE DoSave
      <4>0. PICK S : todo \in Seq(S) /\ \A f \in S : IsEffect(f) BY Effects
      <4>1. PICK e : e = Head(todo) /\ state' = Updated(e.new) BY <3>1 DEF DoSave
      <4>2. e \in S BY <3>1, <4>0, <4>1, HeadTailProperties DEF DoSave, NextEffect
      <4>3. state'.released = IF "released" \in DOMAIN e.new THEN e.new.released ELSE state.released
        BY <4>1, UpdatedFields DEF Fields, FinisherInv, ValuesOK
      <4> QED BY <4>0, <4>2, <4>3 DEF IsEffect
    <3>2. CASE CycleBegins
      BY <3>2, UpdatedFields DEF CycleBegins, Fields, FinisherInv, ValuesOK
    <3> QED BY <3>1, <3>2 DEF FinisherNext, FinisherWorks, FinisherStarts, StageFails, AllPass, Progress, CycleGoes,
          StagesRaise, DoRecord, RecordFails, VerifiedFails, TellNothing, TellBale, TellFails, EndCycle, FinisherKilled
  <2>2. state'.released => state'.gate # "TRACK_A_RUNTIME" BY DEF FinisherInv, FileInv
  <2>3. origin' \in {origin, state}
    BY DEF FinisherNext, FinisherWorks, FinisherStarts, CycleBegins, DoSave, StageFails, AllPass, Progress, CycleGoes,
       StagesRaise, DoRecord, RecordFails, VerifiedFails, TellNothing, TellBale, TellFails, EndCycle, FinisherKilled
  <2>4. origin.released => state.released BY DEF FinisherInv, FileInv
  <2> QED BY <2>1, <2>2, <2>3, <2>4
<1> QED BY <1>1, FinisherInvariance, PTL DEF FinisherSpec, ReleaseStands
================================================================================
