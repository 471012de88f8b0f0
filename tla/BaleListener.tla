----------------------------- MODULE BaleListener ------------------------------
(***************************************************************************)
(* The main loop of bale_listener.py: poll the Bale bot API for updates,   *)
(* answer each one, and keep in output/bale_listener_state.json the offset *)
(* from which to go on.  The API forgets the updates below an offset it is *)
(* asked for.  Every call may fail, writing the state file too, and a      *)
(* listener may be killed anywhere; scripts/crond_watchdog.sh starts it    *)
(* again.  Nothing but a pgrep keeps a second listener from being started, *)
(* so the model has a set of them.                                         *)
(* A definition named Slip... is a mistake that a change of the code could *)
(* make in the definition after it; each breaks a property stated below.   *)
(***************************************************************************)
EXTENDS Naturals

CONSTANTS
  Listeners,   \* the listener processes
  MaxUpdate,   \* bound: the last update_id that is posted
  Limit,       \* the API: updates in one answer
  Kind,        \* update_id -> "callback", "message" or "refused"
  MaxCrashes   \* bound: how often a listener is killed

Updates == 1..MaxUpdate
Kinds == {"callback", "message", "refused"}

ASSUME UpdateAssumption ==
  /\ MaxUpdate \in Nat /\ MaxCrashes \in Nat
  /\ Limit \in Nat \ {0}
  /\ Kind \in [Updates -> Kinds]

VARIABLES
  posted,     \* the API: the last update_id so far
  confirmed,  \* the API: updates below this one are forgotten
  saved,      \* next_offset in the state file, 0 when there is no file
  pc,         \* where a listener is
  offset,     \* the local variable offset, 0 for None
  at, until,  \* the update of the batch it is at, and the last of the batch
  crashes,
  outcome     \* history: what became of each update so far

api == <<posted, confirmed>>
batch == <<at, until>>
listenerVars == <<api, saved, pc, offset, batch, crashes, outcome>>

Outcomes == {"refused", "answered", "failed", "noticed"}
PCs == {"down", "menu", "poll", "next", "refuse", "handle", "commit",
        "notice", "commit_notice"}

ListenerInit ==
  /\ posted = 0 /\ confirmed = 0
  /\ saved = 0
  /\ pc = [l \in Listeners |-> "down"]
  /\ offset = [l \in Listeners |-> 0]
  /\ at = [l \in Listeners |-> 1]
  /\ until = [l \in Listeners |-> 0]
  /\ crashes = 0
  /\ outcome = [u \in Updates |-> {}]

Goto(l, from, to) ==
  /\ pc[l] \in from
  /\ pc' = [pc EXCEPT ![l] = to]

Record(l, what) == outcome' = [outcome EXCEPT ![at[l]] = @ \union {what}]

\* The next update of the batch, whatever became of this one.
Advance(l) == at' = [at EXCEPT ![l] = @ + 1]

-------------------------------------------------------------------------------
Post ==
  /\ posted < MaxUpdate
  /\ posted' = posted + 1
  /\ UNCHANGED <<confirmed, saved, pc, offset, batch, crashes, outcome>>

\* By crond_watchdog.sh or by hand; main first sends the report menu.
Start(l) ==
  /\ Goto(l, {"down"}, "menu")
  /\ UNCHANGED <<api, saved, offset, batch, crashes, outcome>>

SlipForgetState(l) ==
  /\ Goto(l, {"menu"}, "poll")
  /\ offset' = [offset EXCEPT ![l] = 0]
  /\ UNCHANGED <<api, saved, batch, crashes, outcome>>

MenuSent(l) ==
  /\ Goto(l, {"menu"}, "poll")
  /\ offset' = [offset EXCEPT ![l] = saved]
  /\ UNCHANGED <<api, saved, batch, crashes, outcome>>

\* send_report_menu is outside the loop's try: the listener ends.
MenuFails(l) ==
  /\ Goto(l, {"menu"}, "down")
  /\ UNCHANGED <<api, saved, offset, batch, crashes, outcome>>

Crash(l) ==
  /\ crashes < MaxCrashes /\ crashes' = crashes + 1
  /\ Goto(l, PCs \ {"down"}, "down")
  /\ UNCHANGED <<api, saved, offset, batch, outcome>>

-------------------------------------------------------------------------------
(***************************************************************************)
(* get_updates: the API forgets what is below the offset and answers with  *)
(* the first updates from there on, at most Limit of them.                 *)
(***************************************************************************)
Later(m, n) == IF m > n THEN m ELSE n
Confirm(l) == confirmed' = Later(confirmed, offset[l])

Poll(l) ==
  /\ Goto(l, {"poll"}, "next")
  /\ Confirm(l)
  /\ at' = [at EXCEPT ![l] = Later(confirmed', 1)]
  /\ until' = [until EXCEPT ![l] =
                 IF at'[l] + Limit <= posted THEN at'[l] + Limit - 1 ELSE posted]
  /\ UNCHANGED <<posted, saved, offset, crashes, outcome>>

\* The request arrives, its answer does not: the loop sleeps and polls again.
PollAnswerLost(l) ==
  /\ pc[l] = "poll"
  /\ Confirm(l)
  /\ UNCHANGED <<posted, saved, pc, offset, batch, crashes, outcome>>

-------------------------------------------------------------------------------
(***************************************************************************)
(* An update of the batch.  "refused": it has no chat or no text, or comes *)
(* from another chat.  The other kinds differ in what an error leads to.   *)
(***************************************************************************)
Take(l) ==
  /\ at[l] <= until[l]
  /\ Goto(l, {"next"}, IF Kind[at[l]] = "refused" THEN "refuse" ELSE "handle")
  /\ UNCHANGED <<api, saved, offset, batch, crashes, outcome>>

EndBatch(l) ==
  /\ at[l] > until[l]
  /\ Goto(l, {"next"}, "poll")
  /\ UNCHANGED <<api, saved, offset, batch, crashes, outcome>>

\* Every send of the update's branch went well.
HandleOK(l) ==
  /\ Goto(l, {"handle"}, "commit")
  /\ Record(l, "answered")
  /\ UNCHANGED <<api, saved, offset, batch, crashes>>

\* The report could not be made, sent or committed.  A callback is given up in silence;
\* the sender of a message is told.
HandleFails(l) ==
  /\ pc[l] \in {"handle", "commit"}
  /\ IF Kind[at[l]] = "callback"
       THEN pc' = [pc EXCEPT ![l] = "next"] /\ Advance(l)
       ELSE pc' = [pc EXCEPT ![l] = "notice"] /\ UNCHANGED at
  /\ Record(l, "failed")
  /\ UNCHANGED <<api, saved, offset, until, crashes>>

NoticeSent(l) ==
  /\ Goto(l, {"notice"}, "commit_notice")
  /\ Record(l, "noticed")
  /\ UNCHANGED <<api, saved, offset, batch, crashes>>

SlipAbandonOnNotice(l) ==
  /\ Goto(l, {"notice"}, "poll")
  /\ UNCHANGED <<api, saved, offset, batch, crashes, outcome>>

NoticeFails(l) ==
  /\ Goto(l, {"notice"}, "next")
  /\ Advance(l)
  /\ UNCHANGED <<api, saved, offset, until, crashes, outcome>>

(***************************************************************************)
(* save_offset writes a temporary file and renames it: all or nothing.     *)
(***************************************************************************)
SlipCommitBatch(l) ==
  /\ Goto(l, {"refuse", "commit", "commit_notice"}, "next")
  /\ saved' = until[l] + 1
  /\ offset' = [offset EXCEPT ![l] = saved']
  /\ IF pc[l] = "refuse" THEN Record(l, "refused") ELSE UNCHANGED outcome
  /\ Advance(l)
  /\ UNCHANGED <<api, until, crashes>>

Commit(l) ==
  /\ Goto(l, {"refuse", "commit", "commit_notice"}, "next")
  /\ saved' = at[l] + 1
  /\ offset' = [offset EXCEPT ![l] = saved']
  /\ IF pc[l] = "refuse" THEN Record(l, "refused") ELSE UNCHANGED outcome
  /\ Advance(l)
  /\ UNCHANGED <<api, until, crashes>>

\* Outside the handler's try the error reaches the loop's own: the batch is dropped.
CommitFails(l) ==
  /\ Goto(l, {"refuse", "commit_notice"}, "poll")
  /\ UNCHANGED <<api, saved, offset, batch, crashes, outcome>>

-------------------------------------------------------------------------------
Listener(l) ==
  \/ Start(l) \/ MenuSent(l) \/ MenuFails(l)
  \/ Poll(l) \/ PollAnswerLost(l)
  \/ Take(l) \/ EndBatch(l)
  \/ HandleOK(l) \/ HandleFails(l)
  \/ NoticeSent(l) \/ NoticeFails(l)
  \/ Commit(l) \/ CommitFails(l)

ListenerNext == Post \/ \E l \in Listeners : Listener(l) \/ Crash(l)

ListenerSpec == ListenerInit /\ [][ListenerNext]_listenerVars

(***************************************************************************)
(* The watchdog starts a listener again, its process is scheduled, and no  *)
(* call fails for ever.  Handling an update may fail for ever.             *)
(***************************************************************************)
ListenerFairSpec ==
  /\ ListenerSpec
  /\ \A l \in Listeners :
       /\ WF_listenerVars(Listener(l))
       /\ SF_listenerVars(MenuSent(l)) /\ SF_listenerVars(Poll(l))
       /\ \A u \in Updates : SF_listenerVars(at[l] = u /\ Commit(l))

-------------------------------------------------------------------------------
ListenerTypeOK ==
  /\ posted \in 0..MaxUpdate
  /\ confirmed \in 0..(MaxUpdate + 1)
  /\ saved \in 0..(MaxUpdate + 1)
  /\ pc \in [Listeners -> PCs]
  /\ offset \in [Listeners -> 0..(MaxUpdate + 1)]
  /\ at \in [Listeners -> 1..(MaxUpdate + 1)]
  /\ until \in [Listeners -> 0..MaxUpdate]
  /\ \A l \in Listeners : pc[l] \in PCs \ {"down", "menu", "poll", "next"} => at[l] <= until[l]
  /\ crashes \in 0..MaxCrashes
  /\ outcome \in [Updates -> SUBSET Outcomes]

SeenBelow(n) == \A u \in Updates : u < n => outcome[u] # {}

\* No update is passed over without having been looked at: what the API has forgotten,
\* or the state file lies beyond, was refused, answered, or at least tried once; crashes,
\* lost answers and a second listener do not change that.
NothingPassedUnseen == SeenBelow(confirmed) /\ SeenBelow(saved)

\* With one listener, an update behind the saved offset is never worked on again.
CommittedIsFinal ==
  [][\A u \in Updates : u < saved => outcome'[u] = outcome[u]]_listenerVars

\* With one listener, the saved offset never moves back.
OffsetMovesOn == [][saved' >= saved]_listenerVars

\* Every update is looked at in the end, although an earlier one may fail every time.
EveryUpdateIsSeen == \A u \in Updates : u <= posted ~> outcome[u] # {}

\* An update behind the saved offset was refused, answered, or its sender was told:
\* "prevents an uncommitted update from being silently skipped" (AUD-06 of
\* docs/AUDIT_REMEDIATION.md).
NoneSilentlySkipped ==
  \A u \in Updates : u < saved => outcome[u] \intersect {"refused", "answered", "noticed"} # {}
===============================================================================
