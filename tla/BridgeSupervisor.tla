---------------------------- MODULE BridgeSupervisor ----------------------------
(***************************************************************************)
(* Why there is one bridge agent: the flock of acquire_singleton in        *)
(* scripts/termux_command_bridge_agent.py, the process id written into the *)
(* locked file, and the boot watchdog of install_termux_bridge_watchdog.sh *)
(* that reads it.  Agents are started by the watchdog, and at any time by  *)
(* hand or by the upgrade and recovery scripts.  A process is named by its *)
(* process id, and the system gives a free id to any program.              *)
(* A definition named Slip... is a mistake that a change of the code could *)
(* make in the definition after it; each breaks a property stated below.   *)
(***************************************************************************)
EXTENDS Naturals

CONSTANTS
  Pids,      \* process ids
  NoPid,     \* the lock is free, the file is missing or empty
  MaxStops   \* bound: how often a process is killed or an id goes to another program

ASSUME PidAssumption == NoPid \notin Pids /\ MaxStops \in Nat

VARIABLES
  proc,      \* process id -> what runs under it
  lock,      \* the holder of the flock on bridge_agent.lock
  pidFile,   \* the content of bridge_agent.lock
  stops

supervisorVars == <<proc, lock, pidFile, stops>>

(***************************************************************************)
(* "free": no process; "other": a program that is not the bridge; the rest *)
(* is main of the agent's daemon child: before flock, before truncate,     *)
(* before write, in ensure_git_auth, in the polling loop.                  *)
(***************************************************************************)
Holding == {"locked", "emptied", "auth", "serving"}
States == {"free", "other", "launched"} \union Holding

SupervisorInit ==
  /\ proc = [p \in Pids |-> "free"]
  /\ lock = NoPid
  /\ pidFile = NoPid
  /\ stops = 0

Becomes(p, from, to) ==
  /\ proc[p] = from
  /\ proc' = [proc EXCEPT ![p] = to]

\* kill -0 succeeds on any process of that id, the bridge or not.
Alive(p) == p # NoPid /\ proc[p] # "free"

WatchdogLaunch(p) ==
  /\ ~Alive(pidFile)
  /\ Becomes(p, "free", "launched")
  /\ UNCHANGED <<lock, pidFile, stops>>

\* By hand, or the Popen of bridge_upgrade.py and bridge_singleton_recover.py.
OtherLaunch(p) ==
  /\ stops < MaxStops /\ stops' = stops + 1
  /\ Becomes(p, "free", "launched")
  /\ UNCHANGED <<lock, pidFile>>

\* The file is opened for appending: a process that loses the race leaves it as it is.
TakeLock(p) ==
  /\ lock = NoPid
  /\ Becomes(p, "launched", "locked")
  /\ lock' = p
  /\ UNCHANGED <<pidFile, stops>>

SlipLoserEmptiesFile(p) ==
  /\ lock # NoPid
  /\ Becomes(p, "launched", "free")
  /\ pidFile' = NoPid
  /\ UNCHANGED <<lock, stops>>

AlreadyRunning(p) ==
  /\ lock # NoPid
  /\ Becomes(p, "launched", "free")
  /\ UNCHANGED <<lock, pidFile, stops>>

TruncateFile(p) ==
  /\ Becomes(p, "locked", "emptied")
  /\ pidFile' = NoPid
  /\ UNCHANGED <<lock, stops>>

WritePid(p) ==
  /\ Becomes(p, "emptied", "auth")
  /\ pidFile' = p
  /\ UNCHANGED <<lock, stops>>

AuthOK(p) == Becomes(p, "auth", "serving") /\ UNCHANGED <<lock, pidFile, stops>>

SlipLockFileStays(p) ==
  /\ proc' = [proc EXCEPT ![p] = "free"]
  /\ UNCHANGED <<lock, pidFile>>

\* The kernel drops the flock of a process that ends; the file keeps its id.
Ends(p) ==
  /\ proc' = [proc EXCEPT ![p] = "free"]
  /\ lock' = IF lock = p THEN NoPid ELSE lock
  /\ UNCHANGED pidFile

AuthFails(p) == proc[p] = "auth" /\ Ends(p) /\ UNCHANGED stops

Killed(p) ==
  /\ proc[p] \in Holding \union {"launched"}
  /\ stops < MaxStops /\ stops' = stops + 1
  /\ Ends(p)

IdReused(p) ==
  /\ stops < MaxStops /\ stops' = stops + 1
  /\ Becomes(p, "free", "other")
  /\ UNCHANGED <<lock, pidFile>>

OtherExits(p) == Becomes(p, "other", "free") /\ UNCHANGED <<lock, pidFile, stops>>

AgentStep(p) ==
  \/ TakeLock(p) \/ AlreadyRunning(p) \/ TruncateFile(p) \/ WritePid(p)
  \/ AuthOK(p) \/ AuthFails(p)

SupervisorNext ==
  \E p \in Pids :
    \/ WatchdogLaunch(p) \/ OtherLaunch(p) \/ AgentStep(p)
    \/ Killed(p) \/ IdReused(p) \/ OtherExits(p)

SupervisorSpec == SupervisorInit /\ [][SupervisorNext]_supervisorVars

(***************************************************************************)
(* The watchdog loops for ever, processes are scheduled, and GitHub        *)
(* accepts the credentials at last.  ProgramsEnd adds that a program that  *)
(* was given a bridge's old process id ends some day.                      *)
(***************************************************************************)
Scheduled ==
  /\ WF_supervisorVars(\E p \in Pids : WatchdogLaunch(p))
  /\ \A p \in Pids : WF_supervisorVars(AgentStep(p)) /\ SF_supervisorVars(AuthOK(p))

ProgramsEnd == \A p \in Pids : WF_supervisorVars(OtherExits(p))

SupervisorFairSpec == SupervisorSpec /\ Scheduled /\ ProgramsEnd

-------------------------------------------------------------------------------
SupervisorTypeOK ==
  /\ proc \in [Pids -> States]
  /\ lock \in Pids \union {NoPid}
  /\ pidFile \in Pids \union {NoPid}
  /\ stops \in 0..MaxStops

\* Two agents never work on the queue at the same time, however they were started:
\* acquire_singleton guards the loop of main.
OneAgent == \A p, q \in Pids : proc[p] = "serving" /\ proc[q] = "serving" => p = q

\* The watchdog looks at the process that serves: a loser of the race for the lock, or
\* the death of an earlier holder, never hides it behind another id or an empty file.
FileNamesServer == \A p \in Pids : proc[p] = "serving" => pidFile = p

\* A bridge that is not running comes back: the relay "must be a permanently active
\* process" (docs/TERMUX_RELAY_ARCHITECTURE.md).
BridgeComesBack ==
  (\E p \in Pids : proc[p] # "free") \/ stops > 0 ~> \E p \in Pids : proc[p] = "serving"

\* The queue has one agent, and it is the one that the watchdog looks at.
OneKnownAgent == OneAgent /\ FileNamesServer
===============================================================================
