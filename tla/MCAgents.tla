------------------------------- MODULE MCAgents --------------------------------
(***************************************************************************)
(* Instance for TLC of the programs that must go on: the supervisor of the *)
(* bridge, and one Bale listener.  Their states are disjoint; a behaviour  *)
(* is one of one of them, and "which" says whose.                          *)
(***************************************************************************)
EXTENDS BridgeSupervisor, MCBaleListener

VARIABLE which

agentVars == <<supervisorVars, listenerVars, which>>

AgentsInit ==
  /\ which \in {"supervisor", "listener"}
  /\ SupervisorInit /\ ListenerInit

AgentsNext ==
  /\ UNCHANGED which
  /\ \/ which = "supervisor" /\ SupervisorNext /\ UNCHANGED listenerVars
     \/ which = "listener" /\ ListenerNext /\ UNCHANGED supervisorVars

\* The fairness of the two FairSpecs, each in the turn of its module.
InTurn(turn, Action) == which = turn /\ Action

AgentsSpec ==
  /\ AgentsInit /\ [][AgentsNext]_agentVars
  /\ WF_supervisorVars(InTurn("supervisor", \E p \in Pids : WatchdogLaunch(p)))
  /\ \A p \in Pids :
       /\ WF_supervisorVars(InTurn("supervisor", AgentStep(p)))
       /\ SF_supervisorVars(InTurn("supervisor", AuthOK(p)))
       /\ WF_supervisorVars(InTurn("supervisor", OtherExits(p)))
  /\ \A l \in Listeners :
       /\ WF_listenerVars(InTurn("listener", Listener(l)))
       /\ SF_listenerVars(InTurn("listener", MenuSent(l))) /\ SF_listenerVars(InTurn("listener", Poll(l)))
       /\ \A u \in Updates : SF_listenerVars(InTurn("listener", at[l] = u /\ Commit(l)))
===============================================================================
