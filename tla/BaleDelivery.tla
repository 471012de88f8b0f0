------------------------------ MODULE BaleDelivery -------------------------------
(***************************************************************************)
(* How the parts of a report reach the Bale chat.  There are four senders: *)
(*   transport  send_message of bale_transport.py, by the listener, the    *)
(*              one-shot sender and the agents: stops at the first part    *)
(*              that was not confirmed and raises;                         *)
(*   cards      send_lmp_cards of scripts/lmp_report_module.py: tells the  *)
(*              chat that a card failed and goes on;                       *)
(*   narrative  send_mgmt_card of scripts/management_report_module.py:     *)
(*              never looks at the answer, a broken connection raises;     *)
(*   dispatch   dispatch_bale_reports.py: four reports, prints what failed *)
(*              and goes on.                                               *)
(* The API may take a part and its answer be lost.  The processes that     *)
(* send do not know of each other.                                         *)
(* A definition named Slip... is a mistake that a change of the code could *)
(* make in the definition after it; each breaks a property stated below.   *)
(***************************************************************************)
EXTENDS Naturals, FiniteSets, SequencesExt

CONSTANTS
  Posters,      \* process -> the senders it uses
  MaxParts,     \* bound: the messages of a report
  MaxSent,   \* bound: reports that are sent
  MaxTroubles   \* bound: calls that fail

SenderKinds == {"transport", "cards", "narrative", "dispatch"}

ASSUME DeliveryAssumption ==
  /\ DOMAIN Posters # {} /\ \A p \in DOMAIN Posters : Posters[p] \subseteq SenderKinds
  /\ {MaxParts, MaxSent} \subseteq Nat \ {0} /\ MaxTroubles \in Nat

VARIABLES
  chat,      \* the messages in the chat: the report, its part, or 0 for a note of failure
  sending,   \* what each process is sending
  receipts,  \* the parts of each report that were confirmed
  verdicts,  \* what the caller of each report was told
  troubles

deliveryVars == <<chat, sending, receipts, verdicts, troubles>>

Idle == [kind |-> "none", report |-> 0, part |-> 0, parts |-> 0, noting |-> FALSE]
Verdict(how, kind, parts) == [how |-> how, kind |-> kind, parts |-> parts]

DeliveryInit ==
  /\ chat = <<>>
  /\ sending = [p \in DOMAIN Posters |-> Idle]
  /\ receipts = <<>> /\ verdicts = <<>>
  /\ troubles = 0

\* The parts are known before the first is sent.
BeginReport(p) ==
  /\ sending[p] = Idle /\ Len(verdicts) < MaxSent
  /\ \E kind \in Posters[p], n \in 1..MaxParts :
       /\ sending' = [sending EXCEPT ![p] = [kind |-> kind, report |-> Len(verdicts) + 1,
                                             part |-> 1, parts |-> n, noting |-> FALSE]]
       /\ verdicts' = Append(verdicts, Verdict("none", kind, n))
  /\ receipts' = Append(receipts, {})
  /\ UNCHANGED <<chat, troubles>>

\* The caller is told, and the process is free for another report.
Tells(p, how) ==
  /\ verdicts' = [verdicts EXCEPT ![sending[p].report].how = how]
  /\ sending' = [sending EXCEPT ![p] = Idle]

GoesOn(p) ==
  IF sending[p].part = sending[p].parts THEN Tells(p, "sent")
    ELSE sending' = [sending EXCEPT ![p].part = @ + 1, ![p].noting = FALSE] /\ UNCHANGED verdicts

InChat(p) == <<[report |-> sending[p].report, part |-> sending[p].part]>>
Note(p) == <<[report |-> sending[p].report, part |-> 0]>>

PartConfirmed(p) ==
  /\ sending[p] # Idle /\ ~sending[p].noting
  /\ chat' = chat \o InChat(p)
  /\ receipts' = [receipts EXCEPT ![sending[p].report] = @ \union {sending[p].part}]
  /\ GoesOn(p)
  /\ UNCHANGED troubles

-------------------------------------------------------------------------------
\* A call that ends in an error, whether the message arrived or not.
Trouble(p, kinds) ==
  /\ sending[p].kind \in kinds /\ ~sending[p].noting
  /\ troubles < MaxTroubles /\ troubles' = troubles + 1
  /\ UNCHANGED receipts

Arrives(messages) == \E arrived \in {<<>>, messages} : chat' = chat \o arrived

SlipTimeoutIsSent(p) ==
  /\ Trouble(p, {"transport"})
  /\ \/ chat' = chat \o InChat(p) /\ GoesOn(p)
     \/ UNCHANGED chat /\ Tells(p, "failed")

\* The rest of the report is not sent.
TransportFails(p) == Trouble(p, {"transport"}) /\ Arrives(InChat(p)) /\ Tells(p, "failed")

CardFails(p) ==
  /\ Trouble(p, {"cards"})
  /\ Arrives(InChat(p))
  /\ sending' = [sending EXCEPT ![p].noting = TRUE]
  /\ UNCHANGED verdicts

\* The note of the failure is tried once.
CardNoted(p) ==
  /\ sending[p].noting
  /\ \/ chat' = chat \o Note(p) /\ UNCHANGED troubles
     \/ troubles < MaxTroubles /\ troubles' = troubles + 1 /\ Arrives(Note(p))
  /\ GoesOn(p)
  /\ UNCHANGED receipts

\* An answer that says no goes unread; no answer raises.
NarrativeRefused(p) == Trouble(p, {"narrative"}) /\ UNCHANGED chat /\ GoesOn(p)
NarrativeFails(p) == Trouble(p, {"narrative"}) /\ Arrives(InChat(p)) /\ Tells(p, "failed")

DispatchFails(p) == Trouble(p, {"dispatch"}) /\ Arrives(InChat(p)) /\ GoesOn(p)

DeliveryNext ==
  \E p \in DOMAIN Posters :
    \/ BeginReport(p) \/ PartConfirmed(p)
    \/ TransportFails(p) \/ CardFails(p) \/ CardNoted(p)
    \/ NarrativeRefused(p) \/ NarrativeFails(p) \/ DispatchFails(p)

DeliverySpec == DeliveryInit /\ [][DeliveryNext]_deliveryVars

-------------------------------------------------------------------------------
\* Where the parts of a report are in the chat.
PartsInChat(report) == {i \in DOMAIN chat : chat[i].report = report /\ chat[i].part # 0}

\* A report that the transport calls sent is in the chat, every part of it once and in
\* order, whatever the other process sent in between; one that it calls failed is there
\* without a gap: its parts up to some part.
TransportTellsTruth ==
  \A r \in DOMAIN verdicts :
    verdicts[r].kind = "transport" =>
      /\ \A i \in PartsInChat(r) : chat[i].part = Cardinality({j \in PartsInChat(r) : j <= i})
      /\ verdicts[r].how = "sent" => Cardinality(PartsInChat(r)) = verdicts[r].parts

\* The transport is in doubt about one part at most: a report has no more parts in the chat
\* than it has receipts and one.
OneInDoubt ==
  \A r \in DOMAIN verdicts :
    verdicts[r].kind = "transport" =>
      LET unconfirmed == {chat[i].part : i \in PartsInChat(r)} \ receipts[r]
      IN Cardinality(unconfirmed) <= (IF verdicts[r].how = "failed" THEN 1 ELSE 0)

\* A card that never reached the chat is told of in the chat, if the chat could be reached at
\* once for the note.
MissingCardIsNoted ==
  \A r \in DOMAIN verdicts :
    verdicts[r].kind = "cards" /\ verdicts[r].how = "sent" /\ troubles < 2
      /\ Cardinality(PartsInChat(r)) < verdicts[r].parts =>
         [report |-> r, part |-> 0] \in ToSet(chat)
===============================================================================
