----------------------------- MODULE BridgeUpgrade -----------------------------
(***************************************************************************)
(* scripts/bridge_upgrade.py, a command that the bridge runs to replace    *)
(* its own code: main pulls the new code and leaves a finalizer behind,    *)
(* which is to wait for the command's receipt, take the command off the    *)
(* queue in the agent's place, kill the agent and start the new one.  The  *)
(* agent meanwhile goes on as CommandBridge says.                          *)
(* A definition named Slip... is a mistake that a change of the code could *)
(* make in the definition after it; each breaks a property stated below.   *)
(***************************************************************************)
EXTENDS CommandBridge

CONSTANT Upgrade   \* the payload whose argv is scripts/bridge_upgrade.py

ASSUME UpgradeAssumption == Upgrade \in Payloads /\ Kind[Upgrade] = "run"

VARIABLES
  fin,      \* where the finalizer is
  parent,   \* the life of the agent that launched it, by the crashes before it
  disk,     \* the agent's code in the working tree
  running   \* the code the agent was started from

finalizer == <<fin, parent>>
code == <<disk, running>>
allvars == <<vars, finalizer, code>>

FinStates == {"off", "waiting", "found", "acked", "restarted", "timeout"}
Codes == {"old", "new"}

UpgradeInit ==
  /\ Init
  /\ fin = "off" /\ parent = 0
  /\ disk = "old" /\ running = "old"

-------------------------------------------------------------------------------
\* main: it succeeds when git pull does, and then the finalizer is there.  A second
\* finalizer, of an upgrade that is run again, is not followed.
Pulls == pc = "exec" /\ pc' = "put" /\ cur = Upgrade /\ status' = "SUCCESS"

Launch ==
  IF Pulls
    THEN /\ disk' = "new"
         /\ IF fin = "off"
              THEN fin' = "waiting" /\ parent' = crashes
              ELSE UNCHANGED finalizer
    ELSE UNCHANGED <<disk, finalizer>>

\* A started agent runs what is on disk.
Load == running' = IF pc = "down" /\ pc' # "down" THEN disk ELSE running

AgentGoesOn == Agent /\ Launch /\ Load

-------------------------------------------------------------------------------
(***************************************************************************)
(* finalize.                                                               *)
(***************************************************************************)
SlipFindUnpublished ==
  /\ fin = "waiting"
  /\ queue[NameOf[Upgrade]] = Upgrade
  /\ fin' = "found"
  /\ UNCHANGED <<vars, parent, code>>

\* One round: the command is still on the queue and its receipt has a terminal status.
Find ==
  /\ fin = "waiting"
  /\ queue[NameOf[Upgrade]] = Upgrade
  /\ results[Rid(Upgrade)] # NoReceipt
  /\ results[Rid(Upgrade)].status \in ExitStatuses
  /\ fin' = "found"
  /\ UNCHANGED <<vars, parent, code>>

\* Deletes the content that was read, as the agent's own acknowledgement does.
TakeOff ==
  /\ fin = "found"
  /\ queue[NameOf[Upgrade]] = Upgrade
  /\ queue' = [queue EXCEPT ![NameOf[Upgrade]] = NoCmd]
  /\ acked' = acked \union {Upgrade}
  /\ fin' \in {"acked", "waiting"}   \* the answer arrives, or is lost
  /\ UNCHANGED <<results, submitted, local, pc, names, todo, item, crashes, ran, parent, code>>

TakeOffFails ==
  /\ fin = "found"
  /\ fin' = "waiting"
  /\ UNCHANGED <<vars, parent, code>>

\* kill and Popen: the kill finds the agent unless that agent has ended already.
Restart ==
  /\ fin = "acked"
  /\ fin' = "restarted"
  /\ IF parent = crashes /\ pc # "down"
       THEN /\ pc' = "list" /\ running' = disk
            /\ names' = {} /\ todo' = {}
            /\ cur' = NoCmd /\ status' = NoStatus /\ attempt' = 1 /\ sha' = NoCmd
       ELSE UNCHANGED <<pc, running, names, todo, item>>
  /\ UNCHANGED <<remote, local, crashes, history, parent, disk>>

Timeout ==
  /\ fin = "waiting"
  /\ fin' = "timeout"
  /\ UNCHANGED <<vars, parent, code>>

FinalizerWorks == Find \/ TakeOff \/ TakeOffFails \/ Restart
Finalizer == FinalizerWorks \/ Timeout

UpgradeNext ==
  \/ (\E c \in Payloads : Submit(c)) /\ UNCHANGED <<finalizer, code>>
  \/ AgentGoesOn
  \/ Crash /\ UNCHANGED <<finalizer, code>>
  \/ Finalizer

UpgradeSpec == UpgradeInit /\ [][UpgradeNext]_allvars

\* Both processes are scheduled, and a call that is tried again and again succeeds.
FairUpgradeSpec ==
  /\ UpgradeSpec
  /\ WF_allvars(AgentGoesOn) /\ WF_allvars(Finalizer)
  /\ SF_allvars(SyncList /\ AgentGoesOn)
  /\ \A n \in Names : SF_allvars(SyncFetch(n) /\ AgentGoesOn)
  /\ SF_allvars(PutReceipt /\ AgentGoesOn) /\ SF_allvars(VerifyReceipt /\ AgentGoesOn)
  /\ SF_allvars(AckRead /\ AgentGoesOn) /\ SF_allvars(AckDelete /\ AgentGoesOn)

-------------------------------------------------------------------------------
\* The finalizer, too, takes a command off the queue, and kills the agent, only when
\* the command has its receipt: "Wait until this command has a published receipt, then
\* remove it and restart" (finalize).
RestartAfterReceipt ==
  /\ \A c \in acked : Receipted(c)
  /\ fin \in {"acked", "restarted"} => Receipted(Upgrade)

\* The code that was pulled is the code that runs in the end: "Safely update and restart
\* the local Termux bridge" (bridge_upgrade.py).
UpgradeTakesEffect == disk = "new" ~> running = "new"
===============================================================================
