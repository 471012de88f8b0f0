------------------------------- MODULE MCEvenings ------------------------------
(***************************************************************************)
(* Instance for TLC of two programs that are started again and again and   *)
(* killed anywhere: the evening chain of the archives and the project      *)
(* finisher.  Their states are disjoint; a behaviour is one of one of      *)
(* them, and "which" says whose.                                           *)
(***************************************************************************)
EXTENDS BaseShareArchives, ProjectFinisher

VARIABLE which

eveningVars == <<archivesVars, finisherVars, which>>

EveningsInit == which \in {"archives", "finisher"} /\ ArchivesInit /\ FinisherInit

EveningsNext ==
  /\ UNCHANGED which
  /\ \/ which = "archives" /\ ArchivesNext /\ UNCHANGED finisherVars
     \/ which = "finisher" /\ FinisherNext /\ UNCHANGED archivesVars

\* The fairness of ArchivesFairSpec, in the turn of the archives.
InTurn(Action) == which = "archives" /\ Action

EveningsSpec ==
  /\ EveningsInit /\ [][EveningsNext]_eveningVars
  /\ \A p \in Chains :
       /\ WF_archivesVars(InTurn(Run(p))) /\ SF_archivesVars(InTurn(StartDaily(p)))
       /\ SF_archivesVars(InTurn(ScanOfToday(p)))
===============================================================================
