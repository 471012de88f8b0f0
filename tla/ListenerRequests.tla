---------------------------- MODULE ListenerRequests -----------------------------
(***************************************************************************)
(* What bale_listener.py does for one update of its own chat: the branch a *)
(* button or a text selects, the calls of that branch in their order, and  *)
(* what becomes of the update when one of them fails.  BaleListener has    *)
(* this as one step that goes well or does not; here are the calls, and    *)
(* what the chat has seen when the update is behind the saved offset.      *)
(* An update that is not settled is handed out again by the next poll,     *)
(* until a later one settles.  BaleDelivery says how a message is sent.    *)
(***************************************************************************)
EXTENDS BaleDelivery

CONSTANT MaxFaults   \* bound: calls that fail

ASSUME FaultAssumption == MaxFaults \in Nat

VARIABLES
  update,  \* who is answered: a button or a text, and what it asks for
  calls,   \* the calls that are left of its branch
  reached, \* the messages the chat has got for it, over all the times it was handled
  phase,   \* where its handling is
  faults

requestVars == <<update, calls, reached, phase, faults>>

NoUpdate == [by |-> "none", what |-> "none"]

(***************************************************************************)
(* The branches.  "compute" makes a report, "book" the workbook; "answer", *)
(* "menu", "file", "cards" and "narrative" are sent; "reject" is a call    *)
(* that always raises.                                                     *)
(***************************************************************************)
Branch ==
  [menu |-> <<"menu">>, symbols |-> <<"compute", "menu">>, strategies |-> <<"menu">>,
   page |-> <<"compute", "answer">>, review |-> <<"compute", "answer", "menu">>,
   strategy |-> <<"compute", "answer", "menu", "menu">>,
   report |-> <<"compute", "answer", "menu">>, status |-> <<"answer", "menu">>,
   excel |-> <<"book", "file", "menu">>, lmp |-> <<"cards">>, mgmt |-> <<"narrative">>,
   stamp |-> <<>>, none |-> <<"reject">>]

\* A report of one share raises, since no snapshot says of which share it is.
OfOneShare == "none"

\* The buttons of today's menus and pages, and those of an older one (UNKNOWN_CALLBACK).
ButtonBranch ==
  [b \in {"menu", "symbols", "page", "review", "strategy", "excel", "lmp", "mgmt", "stamp", "old"} |->
     IF b = "old" THEN "none" ELSE b]

\* The texts; whatever is no command asks for the report of a share of that name.
TextBranch ==
  [t \in {"menu", "symbols", "strategies", "page", "review", "report", "status", "excel", "lmp", "share"} |->
     IF t = "share" THEN OfOneShare ELSE t]

(***************************************************************************)
(* The labels of the menu may be typed.  normalize_command takes the joiner*)
(* out of a text and not out of the label it is compared with; and two     *)
(* labels have no branch for texts.  Two of the eight find their way.      *)
(***************************************************************************)
Joined == {"market_shares", "option_shares", "option_excel", "lmp_opportunities"}
ButtonOnly == {"trend_review", "mgmt_analysis"}
LabelBranch ==
  [l \in Joined \union ButtonOnly \union {"option_market", "symbols"} |->
     IF l \in Joined \union ButtonOnly THEN OfOneShare ELSE IF l = "symbols" THEN "symbols" ELSE "page"]

BranchOf(u) ==
  Branch[CASE u.by = "button" -> ButtonBranch[u.what]
           [] u.by = "text" -> TextBranch[u.what]
           [] u.by = "label" -> LabelBranch[u.what]]

Asked ==
  [by : {"button"}, what : DOMAIN ButtonBranch] \union [by : {"text"}, what : DOMAIN TextBranch]
    \union [by : {"label"}, what : DOMAIN LabelBranch]

Sent == {"answer", "menu", "file", "cards", "narrative", "sorry", "raw"}
Call == Head(calls)
Arrived(message) == IF message \in Sent THEN Append(reached, message) ELSE reached

RequestInit ==
  /\ update = NoUpdate
  /\ calls = <<>> /\ reached = <<>>
  /\ phase = "poll" /\ faults = 0

\* The update is handed out, or handed out again.
Handed ==
  /\ \/ phase = "poll" /\ update' \in Asked
     \/ phase = "open" /\ UNCHANGED update
  /\ calls' = BranchOf(update')
  /\ phase' = "work"
  /\ UNCHANGED <<reached, faults>>

CallWorks ==
  /\ phase = "work" /\ calls # <<>> /\ Call # "reject"
  /\ reached' = Arrived(Call)
  /\ calls' = Tail(calls)
  /\ UNCHANGED <<update, phase, faults>>

-------------------------------------------------------------------------------
\* A call of this kind fails; a message may arrive although its call does not return.
Fails(kinds) ==
  /\ phase = "work" /\ calls # <<>> /\ Call \in kinds
  /\ faults < MaxFaults /\ faults' = faults + 1
  /\ reached' \in {reached, Arrived(Call)}

\* The exception reaches the handler of the update: a button is left as it is, the sender
\* of a text is to be told.
GivenUp ==
  /\ phase' = IF update.by = "button" THEN "open" ELSE "apologise"
  /\ calls' = <<>>
  /\ UNCHANGED update

CallRaises ==
  /\ \/ Fails({"compute", "answer", "menu", "sorry", "raw", "narrative"})
     \/ phase = "work" /\ calls # <<>> /\ Call = "reject" /\ UNCHANGED <<reached, faults>>
  /\ GivenUp

\* The workbook of a text is made and sent in one try; that of a button in two, and
\* nothing is said of one that was made and not sent.
BookFails ==
  /\ Fails({"book"} \union IF update.by = "button" THEN {} ELSE {"file"})
  /\ calls' = <<"sorry", "menu">>
  /\ UNCHANGED <<update, phase>>

FileIsDropped ==
  /\ update.by = "button"
  /\ Fails({"file"})
  /\ calls' = Tail(calls)
  /\ UNCHANGED <<update, phase>>

\* LMP_SEND_FAIL: the cards could not be made.
CardsFail ==
  /\ Fails({"cards"})
  /\ reached' = reached
  /\ calls' = <<"raw">>
  /\ UNCHANGED <<update, phase>>

\* Messages posted without transport: an answer that says no goes unread.  The cards
\* are among them: a card and its note may both be refused.
Refused ==
  /\ Fails({"raw", "narrative", "cards"})
  /\ reached' = reached
  /\ calls' = Tail(calls)
  /\ UNCHANGED <<update, phase>>

-------------------------------------------------------------------------------
\* save_offset, after the last call of the branch or after the apology.
Settle ==
  /\ \/ phase = "work" /\ calls = <<>>
     \/ phase = "told"
  /\ phase' = "saved"
  /\ UNCHANGED <<update, calls, reached, faults>>

SettleFails ==
  /\ faults < MaxFaults /\ faults' = faults + 1
  /\ \/ phase = "work" /\ calls = <<>> /\ GivenUp
     \/ phase = "told" /\ phase' = "open" /\ UNCHANGED <<update, calls>>
  /\ UNCHANGED reached

Apologises ==
  /\ phase = "apologise"
  /\ \/ phase' = "told" /\ reached' = Append(reached, "apology") /\ UNCHANGED faults
     \/ /\ phase' = "open" /\ reached' \in {reached, Append(reached, "apology")}
        /\ faults < MaxFaults /\ faults' = faults + 1
  /\ UNCHANGED <<update, calls>>

RequestNext ==
  \/ Handed \/ CallWorks
  \/ CallRaises \/ BookFails \/ FileIsDropped \/ CardsFail \/ Refused
  \/ Settle \/ SettleFails \/ Apologises

RequestSpec == RequestInit /\ [][RequestNext]_requestVars

-------------------------------------------------------------------------------
Messages(s) == {m \in ToSet(s) : m \in Sent}
Times(m) == Cardinality({i \in DOMAIN reached : reached[i] = m})

\* A request that is settled was answered whole, or the chat was told that it was not; only
\* what is posted past the transport, and the workbook of a button, may be missing unsaid.
SettledIsTold ==
  phase = "saved" =>
    \/ Messages(BranchOf(update)) \subseteq ToSet(reached)
    \/ \E m \in {"apology", "sorry", "raw"} : m \in ToSet(reached)
    \/ update.what \in {"lmp", "mgmt"}
    \/ update = [by |-> "button", what |-> "excel"] /\ "menu" \in ToSet(reached)

\* Nothing is sent twice, and nothing is excused, without a failure before: every further
\* answer and every apology to a request that can be answered has a failed call of its own.
RepeatsHaveReasons ==
  phase # "poll" /\ BranchOf(update) # Branch["none"] =>
    Times("answer") + Times("apology") + Times("sorry") <= 1 + faults

\* What a process was told of a delivery is what the chat shows of it, and what the listener
\* is done with the chat was told of.
ChatIsTold ==
  /\ TransportTellsTruth /\ OneInDoubt /\ MissingCardIsNoted
  /\ SettledIsTold /\ RepeatsHaveReasons
===============================================================================
