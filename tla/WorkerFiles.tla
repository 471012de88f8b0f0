------------------------------ MODULE WorkerFiles ------------------------------
(***************************************************************************)
(* How three scripts start their worker in the background and keep to one: *)
(* a launcher reads the process id in a file, looks whether that process   *)
(* lives, and spawns a worker when it does not.  scripts/                  *)
(* llm_recovery_async.py and termux_repair_agent.py write the id in the    *)
(* launcher, project_finisher_agent.py in the worker; all three remove the *)
(* file when the worker ends.  Nothing locks the file, the system gives a  *)
(* free id to any program, and launchers may be under way at the same time:*)
(* two that both look before either spawns start two workers.              *)
(* The recovery worker goes on until the local model is up, answers and    *)
(* calls the agent's tools; what the agent prints goes to a log that is    *)
(* appended to.                                                            *)
(* A definition named Slip... is a mistake that a change of the code could *)
(* make in the definition after it; each breaks a property stated below.   *)
(***************************************************************************)
EXTENDS Naturals

CONSTANTS
  WorkerIds,  \* process ids
  Launchers,  \* who may be launching at the same time
  NoId,       \* no file, nobody
  MaxStarts,  \* bound: launches
  MaxStopped  \* bound: kills

ASSUME NoIdAssumption == NoId \notin WorkerIds
ASSUME StartAssumption == MaxStarts \in Nat /\ MaxStopped \in Nat

VARIABLES
  script,    \* which of the three
  program,   \* what runs under each process id
  idFile,    \* the id in the file
  launcher,  \* launcher[l]: the next step of launcher l
  child,     \* child[l]: the worker that l spawned
  statusFile,  \* the status file
  log,       \* the tool calls in the log
  starts, stopped,
  raced,     \* history: since all was quiet, a launcher looked between another one's look
             \* and the id of its worker, or was killed between the spawn and the id
  early      \* history: the last worker that came to its end was faster than a launcher

workerVars == <<script, program, idFile, launcher, child, statusFile, log, starts, stopped,
                raced, early>>
bounds == <<starts, stopped>>

Scripts == {"recovery", "repair", "finisher"}
Tools == {"git_status", "read_file"}
Working == {"born", "bootstrap", "inference", "tools", "ending"}
Final == {"VERIFIED", "FINISHED", "BLOCKED", "TIMEOUT", "ERROR"}
Workers == {p \in WorkerIds : program[p] \in Working}

WorkerInit ==
  /\ script \in Scripts
  /\ program = [p \in WorkerIds |-> "free"]
  /\ idFile = NoId
  /\ launcher = [l \in Launchers |-> "none"] /\ child = [l \in Launchers |-> NoId]
  /\ statusFile = "NONE" /\ log = {}
  /\ starts = 0 /\ stopped = 0 /\ raced = FALSE /\ early = FALSE

Turns(p, what) == program' = [program EXCEPT ![p] = what]

-------------------------------------------------------------------------------
\* Launchers on their way from the look to the id.
OnTheWay == {l \in Launchers : launcher[l] \in {"stale", "announce", "spawn", "write"}}
NoLauncher == \A l \in Launchers : launcher[l] = "none"

\* A worker is there that the file does not tell of.
Unnamed == \E p \in Workers : idFile # p

\* os.kill(id, 0): any program under that id will do, if it is one of this user's.
MayLive(p) == p \in WorkerIds /\ program[p] # "free"
MayBeDead(p) == p \notin Workers

Moves(l, from, to) == launcher[l] = from /\ launcher' = [launcher EXCEPT ![l] = to]

Looks(l) == launcher[l] = "none" /\ starts < MaxStarts /\ starts' = starts + 1

SlipRemovesAnyway(l) ==
  /\ Looks(l) /\ MayLive(idFile)
  /\ idFile' = NoId
  /\ UNCHANGED <<script, program, launcher, child, statusFile, log, stopped, raced, early>>

AlreadyThere(l) ==
  /\ Looks(l) /\ MayLive(idFile)
  /\ UNCHANGED <<script, program, idFile, launcher, child, statusFile, log, stopped, raced, early>>

\* Nobody lives under the id, or there is no file; the finisher lets a stale file be.
LaunchWork(l) ==
  /\ Looks(l) /\ MayBeDead(idFile)
  /\ Moves(l, "none",
          IF script = "finisher" THEN "spawn"
          ELSE IF idFile # NoId THEN "stale"
          ELSE IF script = "recovery" THEN "announce" ELSE "spawn")
  /\ raced' = IF NoLauncher /\ Workers = {} THEN FALSE ELSE raced \/ Unnamed \/ OnTheWay # {}
  /\ UNCHANGED <<script, program, idFile, child, statusFile, log, stopped, early>>

\* Whatever id the file holds by now, it goes.
RemoveStale(l) ==
  /\ Moves(l, "stale", IF script = "recovery" THEN "announce" ELSE "spawn")
  /\ idFile' = NoId
  /\ UNCHANGED <<script, program, child, statusFile, log, bounds, raced, early>>

\* The recovery tells that it launches.
TellLaunching(l) ==
  /\ Moves(l, "announce", "spawn")
  /\ statusFile' = "LAUNCHING"
  /\ UNCHANGED <<script, program, idFile, child, log, bounds, raced, early>>

\* Popen; the finisher's launcher is done with that.
Spawn(l) ==
  /\ Moves(l, "spawn", IF script = "finisher" THEN "none" ELSE "write")
  /\ \E p \in WorkerIds :
       /\ program[p] = "free" /\ Turns(p, "born")
       /\ child' = [child EXCEPT ![l] = IF script = "finisher" THEN NoId ELSE p]
  /\ early' = FALSE
  /\ UNCHANGED <<script, idFile, statusFile, log, bounds, raced>>

WriteChild(l) ==
  /\ Moves(l, "write", IF script = "repair" THEN "tell" ELSE "none")
  /\ idFile' = child[l] /\ child' = [child EXCEPT ![l] = NoId]
  /\ UNCHANGED <<script, program, statusFile, log, bounds, raced, early>>

TellLaunched(l) ==
  /\ Moves(l, "tell", "none")
  /\ statusFile' = "LAUNCHED"
  /\ UNCHANGED <<script, program, idFile, child, log, bounds, raced, early>>

LauncherKilled(l) ==
  /\ launcher[l] # "none" /\ stopped < MaxStopped /\ stopped' = stopped + 1
  /\ Moves(l, launcher[l], "none") /\ child' = [child EXCEPT ![l] = NoId]
  /\ raced' = (raced \/ launcher[l] = "write")
  /\ UNCHANGED <<script, program, idFile, statusFile, log, starts, early>>

-------------------------------------------------------------------------------
Stays == UNCHANGED <<script, launcher, child, bounds, raced>>

\* The finisher writes its own id; the repair tells that it runs.
StartWork(p) ==
  /\ program[p] = "born" /\ Turns(p, "bootstrap")
  /\ idFile' = IF script = "finisher" THEN p ELSE idFile
  /\ \/ script = "repair" /\ statusFile' = "RUNNING"
     \/ script = "recovery" /\ statusFile' = "BOOTSTRAPPING"
     \/ script = "finisher" /\ UNCHANGED statusFile
  /\ Stays /\ UNCHANGED <<log, early>>

\* The recovery: the server comes up, the model answers, each after any number of tries.
ServerUp(p) ==
  /\ script = "recovery" /\ program[p] = "bootstrap" /\ Turns(p, "inference")
  /\ statusFile' = "SERVER_READY"
  /\ Stays /\ UNCHANGED <<idFile, log, early>>

ModelAnswers(p) ==
  /\ script = "recovery" /\ program[p] = "inference" /\ Turns(p, "tools")
  /\ statusFile' = "TESTING_TOOLS"
  /\ Stays /\ UNCHANGED <<idFile, log, early>>

\* The agent ended well and the log's tail shows both calls.
ToolsCalled(exit) == exit = 0 /\ log' = Tools

\* One run of the agent: it logs the tools it calls, and it ends well when the model does
\* not answer in time (agent/project_manager.py).
AgentRuns(p) ==
  /\ script = "recovery" /\ program[p] = "tools"
  /\ \E exit \in {0, 1}, c \in SUBSET Tools :
       /\ log' = log \cup c
       /\ IF ToolsCalled(exit)
          THEN Turns(p, "ending") /\ statusFile' = "VERIFIED"
          ELSE UNCHANGED program /\ statusFile' = "RETRY_WAIT"
  /\ early' = ~NoLauncher
  /\ Stays /\ UNCHANGED idFile

\* The repair makes one attempt and tells how it went; the finisher's time is up, if it was
\* given any.
WorkEnds(p) ==
  /\ script # "recovery" /\ program[p] = "bootstrap" /\ Turns(p, "ending")
  /\ IF script = "repair" THEN statusFile' \in Final \ {"VERIFIED"} ELSE UNCHANGED statusFile
  /\ early' = ~NoLauncher
  /\ Stays /\ UNCHANGED <<idFile, log>>

\* Whatever id the file holds, it goes.
RemoveFile(p) ==
  /\ program[p] = "ending" /\ Turns(p, "free")
  /\ idFile' = NoId
  /\ Stays /\ UNCHANGED <<statusFile, log, early>>

WorkerKilled(p) ==
  /\ program[p] \in Working /\ stopped < MaxStopped /\ stopped' = stopped + 1
  /\ Turns(p, "free")
  /\ UNCHANGED <<script, idFile, launcher, child, statusFile, log, starts, raced, early>>

\* Another program is given a free id, and ends.
IdTaken(p) ==
  /\ program[p] = "free" /\ stopped < MaxStopped /\ stopped' = stopped + 1
  /\ Turns(p, "other")
  /\ UNCHANGED <<script, idFile, launcher, child, statusFile, log, starts, raced, early>>

OtherEnds(p) ==
  /\ program[p] = "other" /\ Turns(p, "free")
  /\ Stays /\ UNCHANGED <<idFile, statusFile, log, early>>

Worker(p) ==
  \/ StartWork(p) \/ ServerUp(p) \/ ModelAnswers(p) \/ AgentRuns(p) \/ WorkEnds(p) \/ RemoveFile(p)

Launcher(l) ==
  \/ LaunchWork(l) \/ RemoveStale(l) \/ TellLaunching(l) \/ Spawn(l) \/ WriteChild(l) \/ TellLaunched(l)

WorkerNext ==
  \/ \E l \in Launchers : Launcher(l) \/ AlreadyThere(l) \/ LauncherKilled(l)
  \/ \E p \in WorkerIds : Worker(p) \/ WorkerKilled(p) \/ IdTaken(p) \/ OtherEnds(p)

WorkerSpec == WorkerInit /\ [][WorkerNext]_workerVars

-------------------------------------------------------------------------------
WorkerTypeOK ==
  /\ script \in Scripts
  /\ program \in [WorkerIds -> Working \cup {"free", "other"}]
  /\ idFile \in WorkerIds \cup {NoId}
  /\ launcher \in [Launchers -> {"none", "stale", "announce", "spawn", "write", "tell"}]
  /\ child \in [Launchers -> WorkerIds \cup {NoId}]
  /\ statusFile \in Final \cup {"NONE", "LAUNCHING", "LAUNCHED", "RUNNING", "BOOTSTRAPPING",
                              "SERVER_READY", "TESTING_TOOLS", "RETRY_WAIT"}
  /\ log \subseteq Tools
  /\ starts \in 0..MaxStarts /\ stopped \in 0..MaxStopped
  /\ {raced, early} \subseteq BOOLEAN

\* Two workers at once only after a race: a launcher looked while another one was between
\* its own look and the id in the file, or one was killed before it wrote the id.  Nothing
\* else leads there: not a killed worker, its id in the hands of another program, a stale
\* file, a launcher that comes while another one's worker is known; and a race is over once
\* no worker and no launcher is left.
OneWorker == ~raced => \A p, q \in Workers : p = q

\* The file then names the worker, once its launcher, or it itself, had the time to write.
FileNamesWorker ==
  ~raced /\ OnTheWay = {} =>
    \A p \in Workers : idFile = p \/ (script = "finisher" /\ program[p] = "born")

\* When the worker came to its end, its status says how, and is not covered by that of a
\* launcher, unless the worker was faster than one.
StatusIsFinal ==
  \A p \in WorkerIds : program[p] = "ending" /\ script # "finisher" /\ NoLauncher /\ ~raced /\ ~early
    => statusFile \in Final

\* Without a race between launchers there is one worker, the file names it, and its status
\* is its last word.
WorkerIsKnown == OneWorker /\ FileNamesWorker /\ StatusIsFinal
===============================================================================
