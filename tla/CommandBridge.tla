----------------------------- MODULE CommandBridge -----------------------------
(***************************************************************************)
(* The Termux command bridge agent, scripts/termux_command_bridge_agent.py.*)
(*                                                                         *)
(* An operator puts JSON files on the GitHub branch bridge-commands.  The  *)
(* agent mirrors that branch into local files, runs every command it finds,*)
(* publishes a receipt on the branch bridge-results and then deletes the   *)
(* queue file.  Every GitHub call may fail, and may take effect although   *)
(* its answer is lost; the agent may be killed between any two calls.      *)
(* This module has one agent: BridgeSupervisor is about why there is one.  *)
(* A definition named Slip... is a mistake that a change of the code could *)
(* make in the definition after it; each breaks a property stated below.   *)
(***************************************************************************)
EXTENDS Naturals, FiniteSets

CONSTANTS
  Payloads,      \* the contents of queue files, one value per content
  NameOf,        \* the stem of the file a payload is put under
  IdOf,          \* the "command_id" field inside the payload
  Kind,          \* what becomes of the payload, see Kinds
  MaxAttempts,   \* range(1, 4): tries of a publication or of a deletion
  MaxCrashes,    \* bound: how often the agent is killed
  NoCmd,         \* no file, no command
  NoReceipt      \* no file on bridge-results

(***************************************************************************)
(* "run": accepted by process_file; "invalid": rejected by it; "badid":    *)
(* accepted, but its command_id is no path the results branch can store;   *)
(* "blank": GitHub returns no content; "undecodable": not UTF-8.           *)
(***************************************************************************)
Kinds == {"run", "invalid", "badid", "blank", "undecodable"}
Runnable == {c \in Payloads : Kind[c] \in {"run", "badid"}}
Names == {NameOf[c] : c \in Payloads}
Ids == Names \union {IdOf[c] : c \in Payloads}
ExitStatuses == {"SUCCESS", "FAILED", "TIMEOUT", "ERROR"}
Receipt == [of : Payloads, status : ExitStatuses \union {"INVALID_COMMAND"}]

ASSUME PayloadAssumption ==
  /\ NameOf \in [Payloads -> Nat]
  /\ IdOf \in [Payloads -> Nat]
  /\ Kind \in [Payloads -> Kinds]
  /\ NoCmd \notin Payloads
  /\ NoReceipt \notin Receipt

ASSUME BoundAssumption ==
  /\ MaxAttempts \in Nat \ {0}
  /\ MaxCrashes \in Nat

VARIABLES
  queue,      \* bridge-commands: file name -> payload
  results,    \* bridge-results: file name -> receipt
  submitted,  \* history: payloads the operator has put on the queue
  local,      \* the mirror of the queue on the phone's file system
  pc,         \* where the agent is
  names,      \* remote_names of sync_queue
  todo,       \* names still to fetch, then to process
  cur,        \* the payload process_file works on
  status,     \* the status its receipt will carry
  attempt,    \* the attempt loop of publish_result and acknowledge_queue
  sha,        \* the content whose sha gh_delete_file has read
  crashes,
  ran,        \* history: payloads handed to the operating system
  acked       \* history: payloads the agent deleted from the queue

remote == <<queue, results, submitted>>
item == <<cur, status, attempt, sha>>
history == <<ran, acked>>
vars == <<remote, local, pc, names, todo, item, crashes, history>>

NoStatus == "none"
WorkPCs == {"exec", "put", "verify", "ackget", "ackdel"}
PCs == {"down", "list", "fetch", "work", "sleep"} \union WorkPCs

\* A receipt is named by the command_id, by the file's stem when the payload was rejected.
Rid(c) == IF Kind[c] = "invalid" THEN NameOf[c] ELSE IdOf[c]
Receipted(c) == results[Rid(c)] # NoReceipt /\ results[Rid(c)].of = c
IsNext(n) == n \in todo /\ \A m \in todo : n <= m

Init ==
  /\ queue = [n \in Names |-> NoCmd]
  /\ results = [i \in Ids |-> NoReceipt]
  /\ submitted = {}
  /\ local = [n \in Names |-> NoCmd]
  /\ pc = "down"
  /\ names = {} /\ todo = {}
  /\ cur = NoCmd /\ status = NoStatus /\ attempt = 1 /\ sha = NoCmd
  /\ crashes = 0
  /\ ran = {} /\ acked = {}

-------------------------------------------------------------------------------
(***************************************************************************)
(* The operator.  A payload is put on the queue once; the file it is put   *)
(* under may hold an older payload, which is then replaced.  Anybody with  *)
(* access to the branch may remove a file.                                 *)
(***************************************************************************)
Submit(c) ==
  /\ c \notin submitted
  /\ submitted' = submitted \union {c}
  /\ queue' = [queue EXCEPT ![NameOf[c]] = c]
  /\ UNCHANGED <<results, local, pc, names, todo, item, crashes, history>>

Withdraw(n) ==
  /\ queue[n] # NoCmd
  /\ queue' = [queue EXCEPT ![n] = NoCmd]
  /\ UNCHANGED <<results, submitted, local, pc, names, todo, item, crashes, history>>

-------------------------------------------------------------------------------
(***************************************************************************)
(* sync_queue: list the branch, read every file of the list, then remove   *)
(* the local files that are not in the list.  An exception leaves the      *)
(* files read so far and ends the tick without processing anything.        *)
(***************************************************************************)
SyncList ==
  /\ pc = "list"
  /\ names' = {n \in Names : queue[n] # NoCmd}
  /\ todo' = names'
  /\ pc' = "fetch"
  /\ UNCHANGED <<remote, local, item, crashes, history>>

SyncFetch(n) ==
  /\ pc = "fetch" /\ IsNext(n)
  /\ queue[n] # NoCmd
  /\ Kind[queue[n]] # "undecodable"
  /\ local' = IF Kind[queue[n]] = "blank" THEN local ELSE [local EXCEPT ![n] = queue[n]]
  /\ todo' = todo \ {n}
  /\ UNCHANGED <<remote, pc, names, item, crashes, history>>

\* The network fails, the file has gone since the listing, or it is not UTF-8.
SyncRaises ==
  /\ \/ pc = "list"
     \/ pc = "fetch" /\ todo # {}
  /\ pc' = "sleep"
  /\ names' = {} /\ todo' = {}
  /\ UNCHANGED <<remote, local, item, crashes, history>>

SlipSyncPrune ==
  /\ pc = "fetch" /\ todo = {}
  /\ UNCHANGED local
  /\ todo' = {n \in Names : local[n] # NoCmd}
  /\ names' = {}
  /\ pc' = "work"
  /\ UNCHANGED <<remote, item, crashes, history>>

SyncPrune ==
  /\ pc = "fetch" /\ todo = {}
  /\ local' = [n \in Names |-> IF n \in names THEN local[n] ELSE NoCmd]
  /\ todo' = {n \in Names : local'[n] # NoCmd}
  /\ names' = {}
  /\ pc' = "work"
  /\ UNCHANGED <<remote, item, crashes, history>>

-------------------------------------------------------------------------------
(***************************************************************************)
(* The pass over the local files, in name order, and process_file.         *)
(***************************************************************************)
SlipRunRejected(n) ==
  /\ pc = "work" /\ IsNext(n)
  /\ todo' = todo \ {n}
  /\ cur' = local[n]
  /\ pc' = "exec"
  /\ UNCHANGED <<remote, local, names, status, attempt, sha, crashes, history>>

SlipDropRejected(n) ==
  /\ pc = "work" /\ IsNext(n)
  /\ todo' = todo \ {n}
  /\ cur' = local[n]
  /\ pc' = IF Kind[local[n]] = "invalid" THEN "ackget" ELSE "exec"
  /\ UNCHANGED <<remote, local, names, status, attempt, sha, crashes, history>>

BeginItem(n) ==
  /\ pc = "work" /\ IsNext(n)
  /\ todo' = todo \ {n}
  /\ cur' = local[n]
  /\ IF Kind[local[n]] = "invalid"
       THEN pc' = "put" /\ status' = "INVALID_COMMAND"
       ELSE pc' = "exec" /\ UNCHANGED status
  /\ UNCHANGED <<remote, local, names, attempt, sha, crashes, history>>

Execute ==
  /\ pc = "exec"
  /\ status' \in ExitStatuses
  /\ ran' = ran \union {cur}
  /\ pc' = "put"
  /\ UNCHANGED <<remote, local, names, todo, cur, attempt, sha, crashes, acked>>

\* process_file returns, or raises and the pass goes on with the next file.
LeaveItem ==
  /\ pc' = "work"
  /\ cur' = NoCmd /\ status' = NoStatus /\ attempt' = 1 /\ sha' = NoCmd

SlipGiveUpPass(from) ==
  IF attempt < MaxAttempts
    THEN /\ pc' = from /\ attempt' = attempt + 1 /\ sha' = NoCmd
         /\ UNCHANGED <<cur, status>>
    ELSE /\ pc' = "sleep"
         /\ cur' = NoCmd /\ status' = NoStatus /\ attempt' = 1 /\ sha' = NoCmd

\* The end of an attempt that failed: another one, or give the item up.
Retry(from) ==
  IF attempt < MaxAttempts
    THEN /\ pc' = from /\ attempt' = attempt + 1 /\ sha' = NoCmd
         /\ UNCHANGED <<cur, status>>
    ELSE LeaveItem

EndPass ==
  /\ pc = "work" /\ todo = {}
  /\ pc' = "sleep"
  /\ UNCHANGED <<remote, local, names, todo, item, crashes, history>>

Wake ==
  /\ pc = "sleep"
  /\ pc' = "list"
  /\ UNCHANGED <<remote, local, names, todo, item, crashes, history>>

(***************************************************************************)
(* publish_result: put the receipt, then read it back.                     *)
(***************************************************************************)
StoreReceipt ==
  /\ Kind[cur] # "badid"
  /\ results' = [results EXCEPT ![Rid(cur)] = [of |-> cur, status |-> status]]

PutReceipt ==
  /\ pc = "put"
  /\ StoreReceipt
  /\ pc' = "verify"
  /\ UNCHANGED <<queue, submitted, local, names, todo, item, crashes, history>>

PutAnswerLost ==
  /\ pc = "put"
  /\ StoreReceipt
  /\ Retry("put")
  /\ UNCHANGED <<queue, submitted, local, names, todo, crashes, history>>

SlipAckUnpublished ==
  /\ pc \in {"put", "verify"}
  /\ IF attempt < MaxAttempts
       THEN pc' = "put" /\ attempt' = attempt + 1
       ELSE pc' = "ackget" /\ attempt' = 1
  /\ UNCHANGED <<remote, local, names, todo, cur, status, sha, crashes, history>>

PublishFails ==
  /\ pc \in {"put", "verify"}
  /\ Retry("put")
  /\ UNCHANGED <<remote, local, names, todo, crashes, history>>

VerifyReceipt ==
  /\ pc = "verify"
  /\ results[Rid(cur)] # NoReceipt
  /\ pc' = "ackget" /\ attempt' = 1
  /\ UNCHANGED <<remote, local, names, todo, cur, status, sha, crashes, history>>

(***************************************************************************)
(* acknowledge_queue: gh_delete_file reads the sha of the file as it is now*)
(* and deletes the file if it still has that sha.                          *)
(***************************************************************************)
AckRead ==
  /\ pc = "ackget"
  /\ queue[NameOf[cur]] # NoCmd
  /\ sha' = queue[NameOf[cur]]
  /\ pc' = "ackdel"
  /\ UNCHANGED <<remote, local, names, todo, cur, status, attempt, crashes, history>>

RemoveFromQueue ==
  /\ queue[NameOf[cur]] = sha
  /\ queue' = [queue EXCEPT ![NameOf[cur]] = NoCmd]
  /\ acked' = acked \union {sha}

AckDelete ==
  /\ pc = "ackdel"
  /\ RemoveFromQueue
  /\ LeaveItem
  /\ UNCHANGED <<results, submitted, local, names, todo, crashes, ran>>

AckAnswerLost ==
  /\ pc = "ackdel"
  /\ RemoveFromQueue
  /\ Retry("ackget")
  /\ UNCHANGED <<results, submitted, local, names, todo, crashes, ran>>

AckFails ==
  /\ pc \in {"ackget", "ackdel"}
  /\ Retry("ackget")
  /\ UNCHANGED <<remote, local, names, todo, crashes, history>>

-------------------------------------------------------------------------------
Crash ==
  /\ pc # "down" /\ crashes < MaxCrashes
  /\ crashes' = crashes + 1
  /\ pc' = "down"
  /\ names' = {} /\ todo' = {}
  /\ cur' = NoCmd /\ status' = NoStatus /\ attempt' = 1 /\ sha' = NoCmd
  /\ UNCHANGED <<remote, local, history>>

\* main after acquire_singleton and ensure_git_auth.
Start ==
  /\ pc = "down"
  /\ pc' = "list"
  /\ UNCHANGED <<remote, local, names, todo, item, crashes, history>>

Environment ==
  \/ \E c \in Payloads : Submit(c)
  \/ \E n \in Names : Withdraw(n)

Agent ==
  \/ Start \/ Wake
  \/ SyncList \/ SyncRaises \/ SyncPrune
  \/ \E n \in Names : SyncFetch(n) \/ BeginItem(n)
  \/ Execute \/ EndPass
  \/ PutReceipt \/ PutAnswerLost \/ PublishFails \/ VerifyReceipt
  \/ AckRead \/ AckDelete \/ AckAnswerLost \/ AckFails

Next == Environment \/ Agent \/ Crash

Spec == Init /\ [][Next]_vars

(***************************************************************************)
(* The agent's process is scheduled, and no GitHub call for a command that *)
(* can be answered fails for ever: tried again and again, it succeeds at   *)
(* some time.                                                              *)
(***************************************************************************)
Answerable == {c \in Payloads : Kind[c] \in {"run", "invalid"}}

CallsSucceed ==
  /\ SF_vars(SyncList)
  /\ \A n \in Names : SF_vars(SyncFetch(n))
  /\ \A c \in Answerable :
       /\ SF_vars(cur = c /\ PutReceipt)
       /\ SF_vars(cur = c /\ VerifyReceipt)
       /\ SF_vars(cur = c /\ AckRead)
       /\ SF_vars(cur = c /\ AckDelete)

FairSpec == Spec /\ WF_vars(Agent) /\ CallsSucceed
-------------------------------------------------------------------------------
(***************************************************************************)
(* Properties.                                                             *)
(***************************************************************************)
TypeOK ==
  /\ queue \in [Names -> Payloads \union {NoCmd}]
  /\ results \in [Ids -> Receipt \union {NoReceipt}]
  /\ submitted \subseteq Payloads
  /\ local \in [Names -> Payloads \union {NoCmd}]
  /\ pc \in PCs
  /\ names \subseteq Names /\ todo \subseteq Names
  /\ cur \in Payloads \union {NoCmd}
  /\ status \in ExitStatuses \union {"INVALID_COMMAND", NoStatus}
  /\ attempt \in 1..MaxAttempts
  /\ sha \in Payloads \union {NoCmd}
  /\ crashes \in 0..MaxCrashes
  /\ ran \subseteq Payloads /\ acked \subseteq Payloads

\* The operator's side of the contract: one file name and one command_id per
\* command ("command_id unique", docs/TERMUX_RELAY_ARCHITECTURE.md), so that two
\* commands share neither a queue file nor a receipt.
OneFilePerCommand == \A c, d \in Payloads : NameOf[c] = NameOf[d] => c = d
OneReceiptPerCommand == \A c, d \in Payloads : Rid(c) = Rid(d) => c = d

\* A command the agent removed from the queue has its own receipt on the results
\* branch, whatever failed, was retried or crashed on the way: "Result MUST be
\* visible on GitHub before queue acknowledgement" (process_file).
ReceiptBeforeAck == \A c \in acked : Receipted(c)

\* A receipt never lies about the command it is for: a command with an exit status
\* was run, a rejected one never was and says INVALID_COMMAND.
ReceiptsAreTrue ==
  \A c \in Payloads :
    /\ Receipted(c) => (c \in ran <=> results[Rid(c)].status # "INVALID_COMMAND")
    /\ c \in ran => c \in Runnable

\* A command that was acknowledged is never run again, although its local copy
\* outlives the acknowledgement and the agent may be killed before the next sync.
NoRunAfterAck == [][\A c \in acked : c = cur => ~(pc = "exec" /\ pc' = "put")]_vars

\* A file of the queue that is not UTF-8: sync_queue raises on it at every tick, and no
\* command of any file is processed.
Unreadable == \E n \in Names : queue[n] # NoCmd /\ Kind[queue[n]] = "undecodable"

\* Every command the agent can answer leaves the queue in the end, unless an unreadable
\* file stays there for ever: a command that can never be answered (its receipt cannot be
\* stored) does not hold up the others, nor does a file that somebody took away.
EveryCommandIsSettled ==
  []<>~Unreadable =>
    \A c \in Answerable : c \in submitted ~> queue[NameOf[c]] # c

\* The bridge implements the ledger.
stage ==
  [c \in Payloads |->
     CASE c \in acked -> "done"
       [] c \notin acked /\ queue[NameOf[c]] = c -> "queued"
       [] c \notin acked /\ queue[NameOf[c]] # c /\ c \in submitted -> "gone"
       [] OTHER -> "new"]

Ledger ==
  INSTANCE CommandLedger
    WITH Rejected <- Payloads \ Runnable,
         receipted <- {c \in Payloads : Receipted(c)}

ImplementsLedger == Ledger!Spec
===============================================================================
