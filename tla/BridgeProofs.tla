------------------------------ MODULE BridgeProofs -----------------------------
(***************************************************************************)
(* Proofs about the command bridge: CommandBridge, for every set of        *)
(* payloads, every number of attempts and every number of crashes;         *)
(* BridgeUpgrade, where the finalizer is a second process that takes a     *)
(* command off the queue; and BridgeSupervisor, however many processes are *)
(* started.                                                                *)
(***************************************************************************)
EXTENDS BridgeUpgrade, BridgeSupervisor, TLAPS

(***************************************************************************)
(* The inductive invariant.  A receipt is written when the process's memory*)
(* says that the command ran, a queue file is deleted when that memory says*)
(* that a receipt was read back, and a local copy is run when the last sync*)
(* found it on the branch: each conjunct ties one such memory to the       *)
(* branches and to the history.                                            *)
(***************************************************************************)
QueueInv ==
  \A n \in Names :
    queue[n] # NoCmd =>
      NameOf[queue[n]] = n /\ queue[n] \in submitted /\ queue[n] \notin acked

LocalInv ==
  \A n \in Names :
    local[n] # NoCmd =>
      /\ NameOf[local[n]] = n /\ local[n] \in submitted
      /\ Kind[local[n]] \in {"run", "invalid", "badid"}

\* What is left of a pass has a local copy.
PassInv ==
  /\ pc = "fetch" => todo \subseteq names
  /\ pc \in {"work"} \union WorkPCs => \A n \in todo : local[n] # NoCmd

ItemInv ==
  /\ pc \in WorkPCs =>
       /\ cur \in submitted /\ NameOf[cur] \notin todo
       /\ Kind[cur] \in {"run", "invalid", "badid"}
  /\ pc \in {"down", "list", "fetch", "work", "sleep"} => cur = NoCmd
  /\ pc = "exec" => Kind[cur] # "invalid"
  /\ pc \in {"put", "verify", "ackget", "ackdel"} =>
       /\ status # NoStatus
       /\ status = "INVALID_COMMAND" <=> Kind[cur] = "invalid"
       /\ Kind[cur] # "invalid" => cur \in ran
  /\ pc \in {"verify", "ackget", "ackdel"} => Receipted(cur)
  /\ pc = "ackdel" => sha # NoCmd /\ NameOf[sha] = NameOf[cur]

ReceiptInv ==
  \A i \in Ids :
    results[i] # NoReceipt =>
      /\ Rid(results[i].of) = i
      /\ results[i].of \in submitted
      /\ results[i].status = "INVALID_COMMAND" <=> Kind[results[i].of] = "invalid"
      /\ Kind[results[i].of] # "invalid" => results[i].of \in ran

HistoryInv ==
  /\ ran \subseteq Runnable /\ ran \subseteq submitted
  /\ acked \subseteq submitted
  /\ ReceiptBeforeAck

CoreInv ==
  TypeOK /\ QueueInv /\ LocalInv /\ PassInv /\ ItemInv /\ ReceiptInv /\ HistoryInv

\* What was read in this sync has not been acknowledged, nor what is left of the pass: true
\* as long as only the agent acknowledges (BridgeUpgrade's finalizer does, too).
FreshInv ==
  /\ pc = "fetch" => \A n \in names \ todo : local[n] \notin acked
  /\ pc \in {"work"} \union WorkPCs => \A n \in todo : local[n] \notin acked
  /\ pc = "exec" => cur \notin acked

IInv == CoreInv /\ FreshInv

-------------------------------------------------------------------------------
\* Every payload has a file name and a receipt name (Rid).
LEMMA NamesAndIds ==
  ASSUME NEW c \in Payloads
  PROVE  NameOf[c] \in Names /\ Rid(c) \in Ids
  BY PayloadAssumption DEF Names, Ids, Rid

\* The type invariant is inductive by itself but for the agent's own memory: the
\* item it works on is a payload, which PassInv and ItemInv provide.
LEMMA TypeStep ==
  ASSUME TypeOK, PassInv, ItemInv, [Next]_vars
  PROVE  TypeOK'
<1> USE PayloadAssumption, BoundAssumption, NamesAndIds
        DEF TypeOK, PCs, WorkPCs, NoStatus, LeaveItem, remote, item, history
<1>1. ASSUME NEW c \in Payloads, Submit(c) PROVE TypeOK'
  BY <1>1 DEF Submit
<1>2. ASSUME NEW n \in Names, Withdraw(n) PROVE TypeOK'
  BY <1>2 DEF Withdraw
<1>3. CASE Start
  BY <1>3 DEF Start
<1>4. CASE Wake
  BY <1>4 DEF Wake
<1>5. CASE SyncList
  BY <1>5 DEF SyncList
<1>6. CASE SyncRaises
  BY <1>6 DEF SyncRaises
<1>7. CASE SyncPrune
  BY <1>7 DEF SyncPrune
<1>8. ASSUME NEW n \in Names, SyncFetch(n) PROVE TypeOK'
  BY <1>8 DEF SyncFetch
<1>9. ASSUME NEW n \in Names, BeginItem(n) PROVE TypeOK'
  BY <1>9 DEF BeginItem
<1>10. CASE Execute
  BY <1>10 DEF Execute, ItemInv
<1>11. CASE EndPass
  BY <1>11 DEF EndPass
<1>12. CASE PutReceipt
  <2>1. cur \in Payloads /\ status \in ExitStatuses \union {"INVALID_COMMAND"}
    BY <1>12 DEF PutReceipt, ItemInv
  <2>2. [of |-> cur, status |-> status] \in Receipt
    BY <2>1 DEF Receipt
  <2>3. results' \in [Ids -> Receipt \union {NoReceipt}]
    BY <1>12, <2>1, <2>2 DEF PutReceipt, StoreReceipt
  <2> QED
    BY <1>12, <2>3 DEF PutReceipt
<1>13. CASE PutAnswerLost
  <2>1. cur \in Payloads /\ status \in ExitStatuses \union {"INVALID_COMMAND"}
    BY <1>13 DEF PutAnswerLost, ItemInv
  <2>2. [of |-> cur, status |-> status] \in Receipt
    BY <2>1 DEF Receipt
  <2>3. results' \in [Ids -> Receipt \union {NoReceipt}]
    BY <1>13, <2>1, <2>2 DEF PutAnswerLost, StoreReceipt
  <2> QED
    BY <1>13, <2>3 DEF PutAnswerLost, Retry
<1>14. CASE PublishFails
  BY <1>14 DEF PublishFails, Retry
<1>15. CASE VerifyReceipt
  BY <1>15 DEF VerifyReceipt
<1>16. CASE AckRead
  BY <1>16 DEF AckRead, ItemInv
<1>17. CASE AckDelete
  BY <1>17 DEF AckDelete, RemoveFromQueue, ItemInv
<1>18. CASE AckAnswerLost
  BY <1>18 DEF AckAnswerLost, RemoveFromQueue, Retry, ItemInv
<1>19. CASE AckFails
  BY <1>19 DEF AckFails, Retry
<1>20. CASE Crash
  BY <1>20 DEF Crash
<1>21. CASE UNCHANGED vars
  BY <1>21 DEF vars
<1> QED
  BY <1>1, <1>2, <1>3, <1>4, <1>5, <1>6, <1>7, <1>8, <1>9, <1>10, <1>11, <1>12, <1>13,
     <1>14, <1>15, <1>16, <1>17, <1>18, <1>19, <1>20, <1>21
     DEF Next, Environment, Agent
-------------------------------------------------------------------------------
\* What stands on the queue was submitted under that name and is not acknowledged.
LEMMA QueueStep ==
  ASSUME CoreInv, [Next]_vars, OneFilePerCommand
  PROVE  QueueInv'
<1> USE PayloadAssumption, NamesAndIds DEF CoreInv, TypeOK
<1>1. CASE UNCHANGED <<queue, submitted, acked>>
  BY <1>1 DEF QueueInv
<1>2. ASSUME NEW c \in Payloads, Submit(c) PROVE QueueInv'
  BY <1>2 DEF Submit, QueueInv, HistoryInv, history
<1>3. ASSUME NEW n \in Names, Withdraw(n) PROVE QueueInv'
  BY <1>3 DEF Withdraw, QueueInv, history
<1>4. ASSUME RemoveFromQueue, pc = "ackdel", UNCHANGED submitted PROVE QueueInv'
  BY <1>4 DEF RemoveFromQueue, QueueInv, ItemInv, WorkPCs
<1> QED
  BY <1>1, <1>2, <1>3, <1>4
     DEF Next, Environment, Agent, vars, remote, history, Start, Wake, SyncList, SyncRaises,
         SyncPrune, SyncFetch, BeginItem, Execute, EndPass, PutReceipt, PutAnswerLost,
         PublishFails, VerifyReceipt, AckRead, AckDelete, AckAnswerLost, AckFails, Crash

\* A local copy is what the queue held under that name when it was read.
LEMMA LocalStep ==
  ASSUME CoreInv, [Next]_vars
  PROVE  LocalInv'
<1> USE PayloadAssumption DEF CoreInv, TypeOK
<1>1. CASE UNCHANGED local /\ submitted \subseteq submitted'
  BY <1>1 DEF LocalInv
<1>2. ASSUME NEW n \in Names, SyncFetch(n) PROVE LocalInv'
  BY <1>2 DEF SyncFetch, LocalInv, QueueInv, Kinds, remote
<1>3. CASE SyncPrune
  BY <1>3 DEF SyncPrune, LocalInv, remote
<1> QED
  BY <1>1, <1>2, <1>3
     DEF Next, Environment, Agent, vars, remote, Submit, Withdraw, Start, Wake, SyncList,
         SyncRaises, BeginItem, Execute, EndPass, PutReceipt, PutAnswerLost, PublishFails,
         VerifyReceipt, AckRead, AckDelete, AckAnswerLost, AckFails, Crash

\* A pass is over local copies that the sync has left.
LEMMA PassStep ==
  ASSUME CoreInv, [Next]_vars
  PROVE  PassInv'
<1> USE DEF CoreInv, TypeOK, WorkPCs
<1>1. CASE UNCHANGED <<local, pc, names, todo>>
  BY <1>1 DEF PassInv
<1>2. ASSUME pc' \in {"down", "list", "sleep"} PROVE PassInv'
  BY <1>2 DEF PassInv
<1>3. CASE SyncList
  BY <1>3 DEF SyncList, PassInv
<1>4. ASSUME NEW n \in Names, SyncFetch(n) PROVE PassInv'
  BY <1>4 DEF SyncFetch, PassInv
<1>5. CASE SyncPrune
  BY <1>5 DEF SyncPrune, PassInv
<1>6. ASSUME pc \in {"work"} \union WorkPCs, pc' \in {"work"} \union WorkPCs,
             todo' \subseteq todo, UNCHANGED local
      PROVE  PassInv'
  BY <1>6 DEF PassInv
<1> QED
  BY <1>1, <1>2, <1>3, <1>4, <1>5, <1>6
     DEF Next, Environment, Agent, vars, Submit, Withdraw, Start, Wake, SyncRaises,
         BeginItem, Execute, EndPass, PutReceipt, PutAnswerLost, PublishFails, VerifyReceipt,
         AckRead, AckDelete, AckAnswerLost, AckFails, Crash, Retry, LeaveItem

\* An acknowledged command is in none of the local copies that are still to be run.
LEMMA FreshStep ==
  ASSUME IInv, [Next]_vars, OneFilePerCommand
  PROVE  FreshInv'
<1> USE PayloadAssumption DEF IInv, CoreInv, TypeOK, WorkPCs
<1>1. CASE UNCHANGED <<local, pc, names, todo, cur, acked>>
  BY <1>1 DEF FreshInv
<1>2. ASSUME pc' \in {"down", "list", "sleep"} PROVE FreshInv'
  BY <1>2 DEF FreshInv
<1>3. CASE SyncList
  BY <1>3 DEF SyncList, FreshInv
<1>4. ASSUME NEW n \in Names, SyncFetch(n) PROVE FreshInv'
  <2>1. local'[n] \notin acked
    <3>1. queue[n] \in Payloads \ acked /\ NameOf[queue[n]] = n
      BY <1>4 DEF SyncFetch, QueueInv
    <3>2. CASE Kind[queue[n]] = "blank"
      BY <1>4, <3>1, <3>2 DEF SyncFetch, LocalInv, OneFilePerCommand
    <3>3. CASE Kind[queue[n]] # "blank"
      BY <1>4, <3>1, <3>3 DEF SyncFetch
    <3> QED
      BY <3>2, <3>3
  <2>2. \A m \in Names \ {n} : local'[m] = local[m]
    BY <1>4 DEF SyncFetch
  <2> QED
    BY <1>4, <2>1, <2>2 DEF SyncFetch, FreshInv, history
<1>5. CASE SyncPrune
  BY <1>5 DEF SyncPrune, FreshInv, history
<1>6. ASSUME pc \in {"work"} \union WorkPCs, pc' \in {"work"} \union WorkPCs,
             pc' # "exec", todo' \subseteq todo, UNCHANGED <<local, acked>>
      PROVE  FreshInv'
  BY <1>6 DEF FreshInv
<1>7. ASSUME RemoveFromQueue, pc = "ackdel", pc' \in {"work"} \union WorkPCs,
             pc' # "exec", UNCHANGED <<local, todo>>
      PROVE  FreshInv'
  BY <1>7 DEF RemoveFromQueue, FreshInv, ItemInv, LocalInv
<1>8. ASSUME NEW n \in Names, BeginItem(n) PROVE FreshInv'
  BY <1>8 DEF BeginItem, IsNext, FreshInv, history
<1> QED
  BY <1>1, <1>2, <1>3, <1>4, <1>5, <1>6, <1>7, <1>8
     DEF Next, Environment, Agent, vars, history, item, Submit, Withdraw, Start, Wake, SyncRaises,
         Execute, EndPass, PutReceipt, PutAnswerLost, PublishFails, VerifyReceipt,
         AckRead, AckDelete, AckAnswerLost, AckFails, Crash, Retry, LeaveItem

\* The agent's memory of the item it works on agrees with the branches.
LEMMA ItemStep ==
  ASSUME CoreInv, [Next]_vars, OneFilePerCommand
  PROVE  ItemInv'
<1> USE PayloadAssumption, NamesAndIds DEF CoreInv, TypeOK, WorkPCs, item
<1>1. ASSUME UNCHANGED <<pc, todo, cur, status, sha, results>>, ran \subseteq ran',
             submitted \subseteq submitted', UNCHANGED acked
      PROVE  ItemInv'
  BY <1>1 DEF ItemInv, Receipted, Rid
<1>2. ASSUME pc' \in {"down", "list", "fetch", "work", "sleep"}, cur' = NoCmd
      PROVE  ItemInv'
  BY <1>2 DEF ItemInv
<1>3. ASSUME NEW n \in Names, BeginItem(n) PROVE ItemInv'
  <2>1. local[n] \in submitted /\ NameOf[local[n]] = n
        /\ Kind[local[n]] \in {"run", "invalid", "badid"}
    BY <1>3 DEF BeginItem, IsNext, PassInv, LocalInv
  <2> QED
    BY <1>3, <2>1 DEF BeginItem, ItemInv, remote, history, NoStatus
<1>4. CASE Execute
  BY <1>4 DEF Execute, ItemInv, ExitStatuses, remote, NoStatus
<1>5. ASSUME StoreReceipt, pc = "put", pc' = "verify",
             UNCHANGED <<submitted, todo, item, ran>>
      PROVE  ItemInv'
  <2>1. [of |-> cur, status |-> status] \in Receipt
    BY <1>5 DEF ItemInv, Receipt
  <2>2. results'[Rid(cur)] = [of |-> cur, status |-> status]
    BY <1>5 DEF ItemInv, StoreReceipt
  <2>3. Receipted(cur)'
    BY <1>5, <2>1, <2>2 DEF Receipted, Rid
  <2> QED
    BY <1>5, <2>3 DEF ItemInv
<1>6. ASSUME pc \in {"put", "verify"}, Retry("put"), UNCHANGED <<submitted, todo, ran>>
      PROVE  ItemInv'
  BY <1>6 DEF Retry, LeaveItem, ItemInv
<1>7. CASE VerifyReceipt
  BY <1>7 DEF VerifyReceipt, ItemInv, remote, history, Receipted, Rid
<1>8. CASE AckRead
  BY <1>8 DEF AckRead, ItemInv, QueueInv, remote, history, Receipted, Rid
<1>9. ASSUME pc \in {"ackget", "ackdel"}, Retry("ackget"),
             UNCHANGED <<submitted, todo, ran, results>>
      PROVE  ItemInv'
  BY <1>9 DEF Retry, LeaveItem, ItemInv, Receipted, Rid
<1> QED
  BY <1>1, <1>2, <1>3, <1>4, <1>5, <1>6, <1>7, <1>8, <1>9
     DEF Next, Environment, Agent, vars, remote, history, Submit, Withdraw, Start, Wake,
         SyncList, SyncRaises, SyncPrune, SyncFetch, EndPass, PutReceipt, PutAnswerLost,
         PublishFails, AckDelete, AckAnswerLost, AckFails, Crash, LeaveItem, ItemInv
\* A receipt is stored for the command that the process has in its memory.
LEMMA StoreKeepsReceipts ==
  ASSUME CoreInv, pc = "put", StoreReceipt, UNCHANGED <<submitted, ran>>,
         OneReceiptPerCommand
  PROVE  /\ ReceiptInv'
         /\ \A c \in Payloads : Receipted(c) => Receipted(c)'
<1> USE PayloadAssumption, NamesAndIds DEF CoreInv, TypeOK, WorkPCs
<1>1. cur \in Payloads /\ status \in ExitStatuses \union {"INVALID_COMMAND"}
  BY DEF ItemInv
<1>2. results' = [results EXCEPT ![Rid(cur)] = [of |-> cur, status |-> status]]
  BY DEF StoreReceipt
<1>3. \A i \in Ids : i # Rid(cur) => results'[i] = results[i]
  BY <1>2
<1>4. results'[Rid(cur)] = [of |-> cur, status |-> status]
  BY <1>1, <1>2
<1>5. ReceiptInv'
  BY <1>1, <1>3, <1>4 DEF ReceiptInv, ItemInv, Rid
<1>6. ASSUME NEW c \in Payloads, Receipted(c) PROVE Receipted(c)'
  <2>1. CASE c = cur
    <3>1. [of |-> cur, status |-> status] \in Receipt
      BY <1>1 DEF Receipt
    <3> QED
      BY <1>4, <2>1, <3>1 DEF Receipted, Rid
  <2>2. CASE c # cur
    BY <1>1, <1>3, <1>6, <2>2 DEF Receipted, OneReceiptPerCommand, Rid
  <2> QED
    BY <2>1, <2>2
<1> QED
  BY <1>5, <1>6

\* Receipts tell the truth, and what is acknowledged keeps its receipt.
LEMMA ReceiptStep ==
  ASSUME CoreInv, [Next]_vars, OneFilePerCommand, OneReceiptPerCommand
  PROVE  ReceiptInv' /\ HistoryInv'
<1> USE PayloadAssumption, NamesAndIds DEF CoreInv, TypeOK, WorkPCs, history, remote
<1>1. CASE UNCHANGED <<results, ran, acked>> /\ submitted \subseteq submitted'
  BY <1>1 DEF ReceiptInv, HistoryInv, ReceiptBeforeAck, Receipted, Rid
<1>2. CASE Execute
  BY <1>2 DEF Execute, ReceiptInv, HistoryInv, ReceiptBeforeAck, Receipted, Rid, ItemInv,
              Runnable
<1>3. ASSUME pc = "put", StoreReceipt, UNCHANGED <<submitted, history>>
      PROVE  ReceiptInv' /\ HistoryInv'
  BY <1>3, StoreKeepsReceipts DEF HistoryInv, ReceiptBeforeAck
<1>4. ASSUME pc = "ackdel", RemoveFromQueue, UNCHANGED <<results, submitted, ran>>
      PROVE  ReceiptInv' /\ HistoryInv'
  <2>1. sha = cur
    BY <1>4 DEF ItemInv, OneFilePerCommand
  <2> QED
    BY <1>4, <2>1 DEF RemoveFromQueue, ReceiptInv, HistoryInv, ReceiptBeforeAck, Receipted,
                      Rid, ItemInv
<1> QED
  BY <1>1, <1>2, <1>3, <1>4
     DEF Next, Environment, Agent, vars, Submit, Withdraw, Start, Wake, SyncList, SyncRaises,
         SyncPrune, SyncFetch, BeginItem, EndPass, PutReceipt, PutAnswerLost, PublishFails,
         VerifyReceipt, AckRead, AckDelete, AckAnswerLost, AckFails, Crash

\* Everything but what is fresh is kept by a step alone.
LEMMA CoreStep ==
  ASSUME CoreInv, [Next]_vars, OneFilePerCommand, OneReceiptPerCommand
  PROVE  CoreInv'
<1>1. TypeOK'
  BY TypeStep DEF CoreInv
<1> QED
  BY <1>1, QueueStep, LocalStep, PassStep, ItemStep, ReceiptStep DEF CoreInv

\* A receipt, once stored, is there for good.
LEMMA ReceiptStays ==
  ASSUME CoreInv, [Next]_vars, OneReceiptPerCommand, NEW c \in Payloads, Receipted(c)
  PROVE  Receipted(c)'
<1>1. CASE UNCHANGED results
  BY <1>1 DEF Receipted, Rid
<1>2. CASE PutReceipt \/ PutAnswerLost
  BY <1>2, StoreKeepsReceipts DEF PutReceipt, PutAnswerLost, history
<1> QED
  BY <1>1, <1>2
     DEF Next, Environment, Agent, vars, remote, Submit, Withdraw, Start, Wake, SyncList, SyncRaises,
         SyncPrune, SyncFetch, BeginItem, Execute, EndPass, PublishFails, VerifyReceipt, AckRead,
         AckDelete, AckAnswerLost, AckFails, Crash

-------------------------------------------------------------------------------
\* The invariant holds of every reachable state, when the operator gives each command
\* a file and a receipt name of its own.
THEOREM Invariance ==
  ASSUME OneFilePerCommand, OneReceiptPerCommand
  PROVE  Spec => []IInv
<1>1. Init => IInv
  BY PayloadAssumption, BoundAssumption
     DEF Init, IInv, CoreInv, TypeOK, QueueInv, LocalInv, PassInv, FreshInv, ItemInv, ReceiptInv, HistoryInv,
         ReceiptBeforeAck, PCs, WorkPCs, NoStatus
<1>2. IInv /\ [Next]_vars => IInv'
  BY CoreStep, FreshStep DEF IInv
<1> QED
  BY <1>1, <1>2, PTL DEF Spec

\* The variables keep their types: a local copy, the item at hand and the sha to delete
\* are always submitted payloads or nothing.
THEOREM TypeCorrect ==
  ASSUME OneFilePerCommand, OneReceiptPerCommand
  PROVE  Spec => []TypeOK
<1>1. IInv => TypeOK
  BY DEF IInv, CoreInv
<1> QED
  BY <1>1, Invariance, PTL

\* A command that was acknowledged has its receipt on the results branch.
THEOREM ReceiptFirst ==
  ASSUME OneFilePerCommand, OneReceiptPerCommand
  PROVE  Spec => []ReceiptBeforeAck
<1>1. IInv => ReceiptBeforeAck
  BY DEF IInv, CoreInv, HistoryInv
<1> QED
  BY <1>1, Invariance, PTL

\* A receipt says "run" of the commands that were run, and of no other.
THEOREM TrueReceipts ==
  ASSUME OneFilePerCommand, OneReceiptPerCommand
  PROVE  Spec => []ReceiptsAreTrue
<1>1. IInv => ReceiptsAreTrue
  BY PayloadAssumption, NamesAndIds
     DEF IInv, CoreInv, HistoryInv, ReceiptInv, ReceiptsAreTrue, Receipted, Runnable
<1> QED
  BY <1>1, Invariance, PTL

\* An acknowledged command is not run again.
THEOREM AcknowledgedIsFinal ==
  ASSUME OneFilePerCommand, OneReceiptPerCommand
  PROVE  Spec => NoRunAfterAck
<1>1. IInv /\ [Next]_vars
        => [\A c \in acked : c = cur => ~(pc = "exec" /\ pc' = "put")]_vars
  BY DEF IInv, FreshInv
<1> QED
  BY <1>1, Invariance, PTL DEF Spec, NoRunAfterAck
-------------------------------------------------------------------------------
(***************************************************************************)
(* Refinement of CommandLedger.                                            *)
(***************************************************************************)
Receipts == {c \in Payloads : Receipted(c)}

\* Steps that leave the branches alone but for an execution stutter or run a command.
LEMMA LocalStepsRefine ==
  ASSUME IInv, UNCHANGED <<queue, results, submitted, acked>>,
         UNCHANGED ran \/ Execute
  PROVE  [Ledger!Next]_(Ledger!vars)
<1> USE PayloadAssumption DEF IInv, CoreInv, TypeOK, WorkPCs
<1>1. stage' = stage /\ Receipts' = Receipts
  BY DEF stage, Receipts, Receipted, Rid
<1>2. CASE UNCHANGED ran
  BY <1>1, <1>2 DEF Ledger!vars, Receipts
<1>3. CASE Execute
  <2>1. cur \in Runnable /\ cur \in submitted /\ cur \notin acked
    BY <1>3 DEF Execute, ItemInv, FreshInv, Runnable
  <2>2. stage[cur] \in {"queued", "gone"}
    BY <2>1 DEF stage
  <2>3. Ledger!Run(cur)
    BY <1>1, <1>3, <2>1, <2>2 DEF Execute, Ledger!Run, Receipts, Runnable
  <2> QED
    BY <2>1, <2>3 DEF Ledger!Next, Runnable
<1> QED
  BY <1>2, <1>3

\* Putting a command on the queue and taking it off by hand.
LEMMA OperatorRefines ==
  ASSUME CoreInv, OneFilePerCommand, Environment
  PROVE  [Ledger!Next]_(Ledger!vars)
<1> USE PayloadAssumption, NamesAndIds DEF CoreInv, TypeOK, history
<1>1. Receipts' = Receipts /\ UNCHANGED <<ran, acked>>
  BY DEF Environment, Submit, Withdraw, Receipts, Receipted, Rid
<1>2. ASSUME NEW c \in Payloads, Submit(c) PROVE Ledger!Submit(c)
  <2>1. queue[NameOf[c]] = NoCmd /\ c \notin acked
    BY <1>2 DEF Submit, QueueInv, HistoryInv, OneFilePerCommand
  <2>2. \A d \in Payloads \ {c} : NameOf[d] # NameOf[c]
    BY DEF OneFilePerCommand
  <2>3. stage[c] = "new" /\ stage' = [stage EXCEPT ![c] = "queued"]
    <3>1. stage[c] = "new" /\ stage'[c] = "queued"
      BY <1>1, <1>2, <2>1 DEF Submit, stage
    <3>2. \A d \in Payloads \ {c} : stage'[d] = stage[d]
      BY <1>1, <1>2, <2>2 DEF Submit, stage
    <3>3. stage = [d \in Payloads |-> stage[d]] /\ stage' = [d \in Payloads |-> stage'[d]]
      BY DEF stage
    <3> QED
      BY <3>1, <3>2, <3>3
  <2> QED
    BY <1>1, <2>3 DEF Ledger!Submit, Ledger!Move, Receipts
<1>3. ASSUME NEW n \in Names, Withdraw(n)
      PROVE  \E c \in Payloads : Ledger!Withdraw(c)
  <2> DEFINE c == queue[n]
  <2>1. c \in Payloads \ acked /\ NameOf[c] = n /\ c \in submitted
    BY <1>3 DEF Withdraw, QueueInv
  <2>2. \A d \in Payloads \ {c} : NameOf[d] # n
    BY <2>1 DEF OneFilePerCommand
  <2>3. stage[c] = "queued" /\ stage' = [stage EXCEPT ![c] = "gone"]
    <3>1. stage[c] = "queued" /\ stage'[c] = "gone"
      BY <1>1, <1>3, <2>1 DEF Withdraw, stage
    <3>2. \A d \in Payloads \ {c} : stage'[d] = stage[d]
      BY <1>1, <1>3, <2>2 DEF Withdraw, stage
    <3>3. stage = [d \in Payloads |-> stage[d]] /\ stage' = [d \in Payloads |-> stage'[d]]
      BY DEF stage
    <3> QED
      BY <3>1, <3>2, <3>3
  <2>4. Ledger!Withdraw(c)
    BY <1>1, <2>3 DEF Ledger!Withdraw, Ledger!Move, Receipts
  <2> QED
    BY <2>1, <2>4
<1> QED
  BY <1>2, <1>3 DEF Environment, Ledger!Next

\* Storing a receipt reports the command.
LEMMA StoreRefines ==
  ASSUME CoreInv, OneReceiptPerCommand, pc = "put", StoreReceipt,
         UNCHANGED <<queue, submitted, history>>
  PROVE  [Ledger!Next]_(Ledger!vars)
<1> USE PayloadAssumption, NamesAndIds DEF CoreInv, TypeOK, WorkPCs, history
<1>1. cur \in Payloads /\ cur \in submitted /\ cur \in ran \union (Payloads \ Runnable)
  BY DEF ItemInv, Runnable
<1>2. stage' = stage
  BY DEF stage
<1>3. Receipts' = Receipts \union {cur}
  <2>1. [of |-> cur, status |-> status] \in Receipt
    BY <1>1 DEF ItemInv, Receipt
  <2>2. results' = [results EXCEPT ![Rid(cur)] = [of |-> cur, status |-> status]]
    BY DEF StoreReceipt
  <2>3. results'[Rid(cur)] = [of |-> cur, status |-> status]
    BY <1>1, <2>2
  <2>4. results'[Rid(cur)] # NoReceipt /\ results'[Rid(cur)].of = cur
    BY <2>1, <2>3
  <2>5. \A c \in Payloads \ {cur} : results'[Rid(c)] = results[Rid(c)]
    BY <1>1, <2>2 DEF OneReceiptPerCommand
  <2> QED
    BY <1>1, <2>4, <2>5 DEF Receipts, Receipted, Rid
<1>4. CASE cur \in acked
  BY <1>1, <1>2, <1>3, <1>4 DEF HistoryInv, ReceiptBeforeAck, Receipts, Ledger!vars
<1>5. CASE cur \notin acked
  <2>1. stage[cur] \in {"queued", "gone"}
    BY <1>1, <1>5 DEF stage
  <2>2. Ledger!Report(cur)
    BY <1>1, <1>2, <1>3, <2>1 DEF Ledger!Report, Receipts
  <2> QED
    BY <1>1, <2>2 DEF Ledger!Next
<1> QED
  BY <1>4, <1>5

\* Deleting the queue file acknowledges the command.
LEMMA RemoveRefines ==
  ASSUME CoreInv, OneFilePerCommand, pc = "ackdel", RemoveFromQueue,
         UNCHANGED <<results, submitted, ran>>
  PROVE  [Ledger!Next]_(Ledger!vars)
<1> USE PayloadAssumption, NamesAndIds DEF CoreInv, TypeOK, WorkPCs
<1>1. sha = cur /\ cur \in Payloads /\ cur \in submitted /\ Receipted(cur)
  BY DEF ItemInv, OneFilePerCommand
<1>2. Receipts' = Receipts
  BY DEF Receipts, Receipted, Rid
<1>3. queue[NameOf[cur]] = cur /\ cur \notin acked
  BY <1>1 DEF RemoveFromQueue, QueueInv
<1>4. \A d \in Payloads \ {cur} : NameOf[d] # NameOf[cur]
  BY <1>1 DEF OneFilePerCommand
<1>5. stage[cur] = "queued" /\ stage' = [stage EXCEPT ![cur] = "done"]
  BY <1>1, <1>3, <1>4 DEF RemoveFromQueue, stage
<1>6. Ledger!Acknowledge(cur)
  BY <1>1, <1>2, <1>5 DEF Ledger!Acknowledge, Ledger!Move, Receipts
<1> QED
  BY <1>1, <1>6 DEF Ledger!Next

\* The bridge implements the ledger: files, retries, lost answers and crashes are
\* invisible to an operator who looks at the queue, the receipts and what was run.
THEOREM Refinement ==
  ASSUME OneFilePerCommand, OneReceiptPerCommand
  PROVE  Spec => ImplementsLedger
<1>1. Init => Ledger!Init
  BY PayloadAssumption, NamesAndIds DEF Init, Ledger!Init, stage, Receipted
<1>2. IInv /\ [Next]_vars => [Ledger!Next]_(Ledger!vars)
  <2> SUFFICES ASSUME IInv, [Next]_vars PROVE [Ledger!Next]_(Ledger!vars)
    OBVIOUS
  <2> USE DEF remote, history
  <2>1. CASE Environment
    BY <2>1, OperatorRefines DEF IInv
  <2>2. CASE Execute
    BY <2>2, LocalStepsRefine DEF Execute
  <2>3. CASE PutReceipt \/ PutAnswerLost
    BY <2>3, StoreRefines DEF IInv, PutReceipt, PutAnswerLost
  <2>4. CASE AckDelete \/ AckAnswerLost
    BY <2>4, RemoveRefines DEF IInv, AckDelete, AckAnswerLost
  <2>5. CASE UNCHANGED <<remote, history>>
    BY <2>5, LocalStepsRefine
  <2> QED
    BY <2>1, <2>2, <2>3, <2>4, <2>5
       DEF Next, Agent, vars, Start, Wake, SyncList, SyncRaises, SyncPrune, SyncFetch,
           BeginItem, EndPass, PublishFails, VerifyReceipt, AckRead, AckFails, Crash
<1> QED
  BY <1>1, <1>2, Invariance, PTL DEF Spec, ImplementsLedger, Ledger!Spec

-------------------------------------------------------------------------------
(***************************************************************************)
(* BridgeUpgrade: what the agent's own proof says of receipts still holds. *)
(* CoreInv is the part of the bridge's invariant that needs no single      *)
(* acknowledger; FreshInv is not used, since it fails here: the finalizer  *)
(* may take off a command that the agent is about to run again.            *)
(***************************************************************************)
\* Once the receipt was found it is there, wherever the finalizer goes from there.
FinalizerInv ==
  /\ fin \in FinStates
  /\ disk \in Codes /\ running \in Codes
  /\ fin \in {"found", "acked", "restarted"} => Receipted(Upgrade)

UpgradeInv == CoreInv /\ FinalizerInv

-------------------------------------------------------------------------------
\* A step of the bridge is one of CommandBridge, during which the finalizer at most
\* starts to wait.
LEMMA BridgeKeepsInv ==
  ASSUME UpgradeInv, [Next]_vars, OneFilePerCommand, OneReceiptPerCommand,
         fin' = fin \/ fin' = "waiting", disk' \in Codes, running' \in Codes
  PROVE  UpgradeInv'
<1>1. CoreInv'
  BY CoreStep DEF UpgradeInv
<1>2. Receipted(Upgrade) => Receipted(Upgrade)'
  BY ReceiptStays, UpgradeAssumption DEF UpgradeInv
<1> QED
  BY <1>1, <1>2 DEF UpgradeInv, FinalizerInv, FinStates

\* What the finalizer deletes is the command itself, which stands on the queue and
\* whose receipt it has found.
LEMMA TakeOffKeepsInv ==
  ASSUME UpgradeInv, TakeOff, OneFilePerCommand
  PROVE  UpgradeInv'
<1> USE PayloadAssumption, UpgradeAssumption, NamesAndIds DEF UpgradeInv, CoreInv, TypeOK, WorkPCs
<1>1. Upgrade \in submitted /\ Receipted(Upgrade) /\ Receipted(Upgrade)'
  BY DEF TakeOff, QueueInv, FinalizerInv, Receipted, Rid
<1>2. TypeOK'
  BY DEF TakeOff, item
<1>3. QueueInv'
  <2>1. \A n \in Names : queue'[n] # NoCmd => queue'[n] = queue[n] /\ queue[n] # Upgrade
    BY DEF TakeOff, QueueInv
  <2> QED
    BY <2>1 DEF TakeOff, QueueInv
<1>4. HistoryInv'
  BY <1>1 DEF TakeOff, HistoryInv, ReceiptBeforeAck, Receipted, Rid
<1>5. LocalInv' /\ PassInv' /\ ItemInv' /\ ReceiptInv'
  BY DEF TakeOff, LocalInv, PassInv, ItemInv, ReceiptInv, Receipted, Rid, item
<1>6. FinalizerInv'
  BY <1>1 DEF TakeOff, FinalizerInv, FinStates, code
<1> QED
  BY <1>2, <1>3, <1>4, <1>5, <1>6

\* The agent that the finalizer starts begins with nothing in its memory.
LEMMA RestartKeepsInv ==
  ASSUME UpgradeInv, Restart
  PROVE  UpgradeInv'
<1> USE PayloadAssumption, UpgradeAssumption, BoundAssumption
        DEF UpgradeInv, CoreInv, TypeOK, WorkPCs, PCs, NoStatus, remote, item, history
<1>1. TypeOK'
  BY DEF Restart
<1>2. QueueInv' /\ LocalInv' /\ ReceiptInv' /\ HistoryInv'
  BY DEF Restart, QueueInv, LocalInv, ReceiptInv, HistoryInv, ReceiptBeforeAck, Receipted, Rid
<1>3. PassInv' /\ ItemInv'
  <2>1. CASE UNCHANGED <<pc, names, todo, item>>
    BY <2>1 DEF Restart, PassInv, ItemInv, Receipted, Rid
  <2>2. CASE pc' = "list" /\ cur' = NoCmd
    BY <2>2 DEF PassInv, ItemInv
  <2> QED
    BY <2>1, <2>2 DEF Restart
<1>4. FinalizerInv'
  BY DEF Restart, FinalizerInv, FinStates, Receipted, Rid
<1> QED
  BY <1>1, <1>2, <1>3, <1>4

\* Rounds that change nothing but where the finalizer is.
LEMMA WaitKeepsInv ==
  ASSUME UpgradeInv, OneReceiptPerCommand, UNCHANGED <<vars, code>>,
         \/ Find
         \/ fin' \in {"waiting", "timeout"}
         \/ fin' = fin
  PROVE  UpgradeInv'
<1>1. CoreInv'
  BY DEF UpgradeInv, CoreInv, TypeOK, QueueInv, LocalInv, PassInv, ItemInv, ReceiptInv, HistoryInv,
         ReceiptBeforeAck, Receipted, Rid, vars, remote, item, history
<1>2. Find => Receipted(Upgrade)
  <2> SUFFICES ASSUME Find PROVE Receipted(Upgrade)
    OBVIOUS
  <2>1. Rid(Upgrade) = IdOf[Upgrade] /\ Rid(Upgrade) \in Ids
    BY UpgradeAssumption, NamesAndIds DEF Rid
  <2>2. results[Rid(Upgrade)].of \in Payloads /\ Rid(results[Rid(Upgrade)].of) = Rid(Upgrade)
    BY <2>1 DEF Find, UpgradeInv, CoreInv, TypeOK, ReceiptInv, Receipt
  <2> QED
    BY <2>2, UpgradeAssumption DEF Find, Receipted, OneReceiptPerCommand
<1>3. Receipted(Upgrade)' <=> Receipted(Upgrade)
  BY DEF Receipted, Rid, vars, remote
<1>4. fin' \in {"found", "acked", "restarted"} => Receipted(Upgrade)
  BY <1>2 DEF UpgradeInv, FinalizerInv, Find
<1>5. fin' \in FinStates /\ disk' \in Codes /\ running' \in Codes
  BY DEF UpgradeInv, FinalizerInv, FinStates, Find, code
<1> QED
  BY <1>1, <1>3, <1>4, <1>5 DEF UpgradeInv, FinalizerInv

-------------------------------------------------------------------------------
\* The finalizer acknowledges, and restarts the agent, after the receipt; and so every
\* command that is off the queue, whoever took it off, has its receipt.
THEOREM UpgradeKeepsTheOrder ==
  ASSUME OneFilePerCommand, OneReceiptPerCommand
  PROVE  UpgradeSpec => []RestartAfterReceipt
<1>1. UpgradeInit => UpgradeInv
  BY PayloadAssumption, BoundAssumption
     DEF UpgradeInit, UpgradeInv, FinalizerInv, FinStates, Codes, Init, CoreInv, TypeOK, QueueInv,
         LocalInv, PassInv, ItemInv, ReceiptInv, HistoryInv, ReceiptBeforeAck, PCs, WorkPCs, NoStatus
<1>2. UpgradeInv /\ [UpgradeNext]_allvars => UpgradeInv'
  <2> SUFFICES ASSUME UpgradeInv, [UpgradeNext]_allvars PROVE UpgradeInv'
    OBVIOUS
  <2>1. CASE ((\E c \in Payloads : Submit(c)) \/ Crash) /\ UNCHANGED <<finalizer, code>>
    BY <2>1, BridgeKeepsInv DEF Next, Environment, UpgradeInv, FinalizerInv, finalizer, code
  <2>2. CASE AgentGoesOn
    <3>1. [Next]_vars
      BY <2>2 DEF AgentGoesOn, Next
    <3>2. disk' \in Codes /\ running' \in Codes
      BY <2>2 DEF AgentGoesOn, Launch, Load, UpgradeInv, FinalizerInv, Codes, finalizer
    <3>3. fin' = fin \/ fin' = "waiting"
      BY <2>2 DEF AgentGoesOn, Launch, finalizer
    <3> QED
      BY <3>1, <3>2, <3>3, BridgeKeepsInv
  <2>3. CASE Find \/ TakeOffFails \/ Timeout \/ UNCHANGED allvars
    BY <2>3, WaitKeepsInv DEF Find, TakeOffFails, Timeout, allvars, finalizer, code
  <2> QED
    BY <2>1, <2>2, <2>3, TakeOffKeepsInv, RestartKeepsInv
       DEF UpgradeNext, Finalizer, FinalizerWorks
<1>3. UpgradeInv => RestartAfterReceipt
  BY DEF UpgradeInv, FinalizerInv, CoreInv, HistoryInv, ReceiptBeforeAck, RestartAfterReceipt
<1> QED
  BY <1>1, <1>2, <1>3, PTL DEF UpgradeSpec

-------------------------------------------------------------------------------
(***************************************************************************)
(* BridgeSupervisor: whatever is killed or gets an old process id, at most *)
(* one agent serves, and bridge_agent.lock holds the id of that one.       *)
(***************************************************************************)
(***************************************************************************)
(* A process is past acquire_singleton exactly while it holds the flock,   *)
(* and nobody writes the file between its own write and its end.           *)
(***************************************************************************)
LockInv == \A p \in Pids : proc[p] \in Holding <=> lock = p
FileInv == \A p \in Pids : proc[p] \in {"auth", "serving"} => pidFile = p

SupervisorInv == SupervisorTypeOK /\ LockInv /\ FileInv

LEMMA InitSupervisorInv == SupervisorInit => SupervisorInv
  BY PidAssumption DEF SupervisorInit, SupervisorInv, SupervisorTypeOK, LockInv, FileInv, States, Holding

\* A process that is not past acquire_singleton, before or after, may change its state,
\* with the lock and the file as they are.
LEMMA OutsiderStep ==
  ASSUME SupervisorInv, NEW p \in Pids, NEW s \in States \ Holding,
         proc[p] \notin Holding, proc' = [proc EXCEPT ![p] = s],
         lock' = lock, pidFile' = pidFile, stops' \in 0..MaxStops
  PROVE  SupervisorInv'
<1>1. SupervisorTypeOK'
  BY DEF SupervisorInv, SupervisorTypeOK, States
<1>2. LockInv'
  BY DEF SupervisorInv, SupervisorTypeOK, LockInv
<1>3. FileInv'
  BY DEF SupervisorInv, SupervisorTypeOK, FileInv, Holding
<1> QED BY <1>1, <1>2, <1>3 DEF SupervisorInv

\* The holder of the lock may move on, and write its own id or nothing into the file,
\* as long as its id is there once it is past the write.
LEMMA HolderStep ==
  ASSUME SupervisorInv, NEW p \in Pids, NEW s \in Holding,
         proc[p] \in Holding, proc' = [proc EXCEPT ![p] = s],
         lock' = lock, pidFile' \in Pids \union {NoPid}, stops' = stops,
         s \in {"auth", "serving"} => pidFile' = p
  PROVE  SupervisorInv'
<1>1. SupervisorTypeOK'
  BY DEF SupervisorInv, SupervisorTypeOK, States
<1>2. lock = p
  BY DEF SupervisorInv, LockInv
<1>3. LockInv'
  BY DEF SupervisorInv, SupervisorTypeOK, LockInv
<1>4. \A q \in Pids : q # p => proc'[q] \notin Holding
  BY <1>2, <1>3 DEF LockInv
<1>5. FileInv'
  BY <1>4 DEF SupervisorInv, SupervisorTypeOK, FileInv, Holding
<1> QED BY <1>1, <1>3, <1>5 DEF SupervisorInv

\* A process that ends, or is killed, leaves the lock to whoever comes next.
LEMMA EndStep ==
  ASSUME SupervisorInv, NEW p \in Pids, Ends(p), stops' \in 0..MaxStops
  PROVE  SupervisorInv'
<1>1. SupervisorTypeOK'
  BY DEF SupervisorInv, SupervisorTypeOK, States, Ends
<1>2. LockInv'
  <2> SUFFICES ASSUME NEW q \in Pids PROVE (proc[q] \in Holding <=> lock = q)'
    BY DEF LockInv
  <2>1. CASE q = p
    BY <2>1, PidAssumption DEF SupervisorInv, SupervisorTypeOK, LockInv, Ends, Holding
  <2>2. CASE q # p
    BY <2>2, PidAssumption DEF SupervisorInv, SupervisorTypeOK, LockInv, Ends
  <2> QED BY <2>1, <2>2
<1>3. FileInv'
  BY DEF SupervisorInv, SupervisorTypeOK, FileInv, Ends
<1> QED BY <1>1, <1>2, <1>3 DEF SupervisorInv

\* Every action keeps the invariant.
LEMMA NextIInv == SupervisorInv /\ [SupervisorNext]_supervisorVars => SupervisorInv'
<1> SUFFICES ASSUME SupervisorInv, [SupervisorNext]_supervisorVars PROVE SupervisorInv'
  OBVIOUS
<1>1. ASSUME NEW p \in Pids, WatchdogLaunch(p) PROVE SupervisorInv'
  BY <1>1, OutsiderStep DEF WatchdogLaunch, Becomes, States, Holding, SupervisorInv, SupervisorTypeOK
<1>2. ASSUME NEW p \in Pids, OtherLaunch(p) PROVE SupervisorInv'
  <2>1. stops' \in 0..MaxStops
    BY <1>2, PidAssumption DEF OtherLaunch, SupervisorInv, SupervisorTypeOK
  <2> QED BY <1>2, <2>1, OutsiderStep DEF OtherLaunch, Becomes, States, Holding
<1>3. ASSUME NEW p \in Pids, TakeLock(p) PROVE SupervisorInv'
  <2> USE <1>3 DEF TakeLock, Becomes
  <2>1. SupervisorTypeOK'
    BY DEF SupervisorInv, SupervisorTypeOK, States, Holding
  <2>2. LockInv'
    BY PidAssumption DEF SupervisorInv, SupervisorTypeOK, LockInv, Holding
  <2>3. FileInv'
    BY DEF SupervisorInv, SupervisorTypeOK, FileInv
  <2> QED BY <2>1, <2>2, <2>3 DEF SupervisorInv
<1>4. ASSUME NEW p \in Pids, AlreadyRunning(p) PROVE SupervisorInv'
  BY <1>4, OutsiderStep DEF AlreadyRunning, Becomes, States, Holding, SupervisorInv, SupervisorTypeOK
<1>5. ASSUME NEW p \in Pids, TruncateFile(p) PROVE SupervisorInv'
  BY <1>5, HolderStep DEF TruncateFile, Becomes, Holding
<1>6. ASSUME NEW p \in Pids, WritePid(p) PROVE SupervisorInv'
  BY <1>6, HolderStep DEF WritePid, Becomes, Holding
<1>7. ASSUME NEW p \in Pids, AuthOK(p) PROVE SupervisorInv'
  BY <1>7, HolderStep DEF AuthOK, Becomes, Holding, SupervisorInv, SupervisorTypeOK, FileInv
<1>8. ASSUME NEW p \in Pids, AuthFails(p) PROVE SupervisorInv'
  BY <1>8, EndStep DEF AuthFails, SupervisorInv, SupervisorTypeOK
<1>9. ASSUME NEW p \in Pids, Killed(p) PROVE SupervisorInv'
  <2>1. stops' \in 0..MaxStops
    BY <1>9, PidAssumption DEF Killed, SupervisorInv, SupervisorTypeOK
  <2> QED BY <1>9, <2>1, EndStep DEF Killed
<1>10. ASSUME NEW p \in Pids, IdReused(p) PROVE SupervisorInv'
  <2>1. stops' \in 0..MaxStops
    BY <1>10, PidAssumption DEF IdReused, SupervisorInv, SupervisorTypeOK
  <2> QED BY <1>10, <2>1, OutsiderStep DEF IdReused, Becomes, States, Holding
<1>11. ASSUME NEW p \in Pids, OtherExits(p) PROVE SupervisorInv'
  BY <1>11, OutsiderStep DEF OtherExits, Becomes, States, Holding, SupervisorInv, SupervisorTypeOK
<1>12. ASSUME UNCHANGED supervisorVars PROVE SupervisorInv'
  BY <1>12 DEF supervisorVars, SupervisorInv, SupervisorTypeOK, LockInv, FileInv
<1> QED BY <1>1, <1>2, <1>3, <1>4, <1>5, <1>6, <1>7, <1>8, <1>9, <1>10, <1>11, <1>12
        DEF SupervisorNext, AgentStep

THEOREM SupervisorInvariance == SupervisorSpec => []SupervisorInv
  BY InitSupervisorInv, NextIInv, PTL DEF SupervisorSpec

-------------------------------------------------------------------------------
\* The supervisor's state always has its type.
THEOREM SupervisorTypeCorrect == SupervisorSpec => []SupervisorTypeOK
<1>1. SupervisorInv => SupervisorTypeOK
  BY DEF SupervisorInv
<1> QED BY <1>1, SupervisorInvariance, PTL

\* Two agents never serve at the same time (acquire_singleton).
THEOREM AtMostOneAgent == SupervisorSpec => []OneAgent
<1>1. SupervisorInv => OneAgent
  BY DEF SupervisorInv, LockInv, OneAgent, Holding
<1> QED BY <1>1, SupervisorInvariance, PTL

\* bridge_agent.lock names the process that serves: the watchdog looks at that one.
THEOREM FileIsRight == SupervisorSpec => []FileNamesServer
<1>1. SupervisorInv => FileNamesServer
  BY DEF SupervisorInv, FileInv, FileNamesServer
<1> QED BY <1>1, SupervisorInvariance, PTL

\* Both: the one agent that serves is the one the watchdog looks at, for any number of
\* process ids, launches, kills and reuses.
THEOREM AgentStaysKnown == SupervisorSpec => []OneKnownAgent
<1>1. OneAgent /\ FileNamesServer => OneKnownAgent
  BY DEF OneKnownAgent
<1> QED BY <1>1, AtMostOneAgent, FileIsRight, PTL
================================================================================
