------------------------ MODULE ListenerAndSourceProofs ------------------------
(***************************************************************************)
(* Proofs about the two parts that a user sees live.                       *)
(*                                                                         *)
(* BaleListener, for any number of updates, of any kinds, in answers of    *)
(* any size, and any number of crashes.                                    *)
(*                                                                         *)
(* TsetmcFirstSource, for any number of processes, sessions and states of  *)
(* the board: types; a live label means fresh data; with a TSETMC that     *)
(* always shows instruments and rests after the close, what is frozen is   *)
(* the final state; and only requests that were under way replace it.      *)
(***************************************************************************)
EXTENDS BaleListener, TsetmcFirstSource, TLAPS

-------------------------------------------------------------------------------
(***************************************************************************)
(* Everything below a position that the API, the file or a listener is at  *)
(* has been seen; so has the update whose commit or notice is due.         *)
(***************************************************************************)
SeenInv ==
  /\ SeenBelow(confirmed) /\ SeenBelow(saved)
  /\ \A l \in Listeners : SeenBelow(offset[l]) /\ SeenBelow(at[l])
DueInv ==
  \A l \in Listeners : pc[l] \in {"commit", "notice", "commit_notice"} => outcome[at[l]] # {}

ListenerInv == ListenerTypeOK /\ SeenInv /\ DueInv

LEMMA InitListenerInv == ListenerInit => ListenerInv
  BY UpdateAssumption
     DEF ListenerInit, ListenerInv, ListenerTypeOK, SeenInv, DueInv, SeenBelow, PCs, Updates, Outcomes

\* A listener in the middle of an update is at one that was posted.
LEMMA AtUpdate ==
  ASSUME ListenerTypeOK, NEW l \in Listeners, pc[l] \in PCs \ {"down", "menu", "poll", "next"}
  PROVE  at[l] \in Updates /\ at[l] <= until[l] /\ Kind[at[l]] \in Kinds
  BY UpdateAssumption DEF ListenerTypeOK, Updates

\* What an action does to the history keeps its type.
LEMMA RecordType ==
  ASSUME ListenerTypeOK, NEW l \in Listeners, NEW what \in Outcomes, Record(l, what)
  PROVE  outcome' \in [Updates -> SUBSET Outcomes]
  BY DEF ListenerTypeOK, Record

\* So does a change of a listener's place in the code, and of its place in the batch.
LEMMA PlaceType ==
  ASSUME ListenerTypeOK, NEW l \in Listeners, NEW to \in PCs, pc' = [pc EXCEPT ![l] = to],
         at' = at \/ (Advance(l) /\ at[l] \in Updates /\ to = "next"), until' = until,
         to \in {"down", "menu", "poll", "next"} \/ at[l] <= until[l]
  PROVE  /\ pc' \in [Listeners -> PCs]
         /\ at' \in [Listeners -> 1..(MaxUpdate + 1)]
         /\ until' \in [Listeners -> 0..MaxUpdate]
         /\ \A m \in Listeners :
              pc'[m] \in PCs \ {"down", "menu", "poll", "next"} => at'[m] <= until'[m]
<1>1. at' \in [Listeners -> 1..(MaxUpdate + 1)]
  <2>1. CASE at' = at
    BY <2>1 DEF ListenerTypeOK
  <2>2. CASE Advance(l) /\ at[l] \in Updates
    <3>1. at[l] + 1 \in 1..(MaxUpdate + 1)
      BY <2>2, UpdateAssumption DEF Updates
    <3> QED BY <2>2, <3>1 DEF ListenerTypeOK, Advance
  <2> QED BY <2>1, <2>2
<1>2. \A m \in Listeners : m # l => pc'[m] = pc[m] /\ at'[m] = at[m]
  BY DEF ListenerTypeOK, Advance
<1>3. pc'[l] = to /\ (at'[l] = at[l] \/ to = "next")
  BY DEF ListenerTypeOK
<1>4. \A m \in Listeners :
         pc'[m] \in PCs \ {"down", "menu", "poll", "next"} => at'[m] <= until'[m]
  BY <1>2, <1>3 DEF ListenerTypeOK
<1> QED BY <1>1, <1>4 DEF ListenerTypeOK

LEMMA TypeStep == ListenerTypeOK /\ [ListenerNext]_listenerVars => ListenerTypeOK'
<1> SUFFICES ASSUME ListenerTypeOK, [ListenerNext]_listenerVars PROVE ListenerTypeOK'
  OBVIOUS
<1> USE DEF Goto, api, batch
<1>1. CASE Post
  BY <1>1, UpdateAssumption DEF Post, ListenerTypeOK
<1>2. ASSUME NEW l \in Listeners, Start(l) \/ MenuFails(l) PROVE ListenerTypeOK'
  BY <1>2 DEF Start, MenuFails, ListenerTypeOK, PCs
<1>3. ASSUME NEW l \in Listeners, MenuSent(l) PROVE ListenerTypeOK'
  BY <1>3 DEF MenuSent, ListenerTypeOK, PCs
<1>4. ASSUME NEW l \in Listeners, Crash(l) PROVE ListenerTypeOK'
  BY <1>4, UpdateAssumption DEF Crash, ListenerTypeOK, PCs
<1>5. ASSUME NEW l \in Listeners, PollAnswerLost(l) PROVE ListenerTypeOK'
  BY <1>5 DEF PollAnswerLost, Confirm, Later, ListenerTypeOK
<1>6. ASSUME NEW l \in Listeners, Poll(l) PROVE ListenerTypeOK'
  <2>1. confirmed' \in 0..(MaxUpdate + 1)
    BY <1>6 DEF Poll, Confirm, Later, ListenerTypeOK
  <2>2. at' \in [Listeners -> 1..(MaxUpdate + 1)]
    BY <1>6, <2>1, UpdateAssumption DEF Poll, Later, ListenerTypeOK
  <2>3. until' \in [Listeners -> 0..MaxUpdate]
    BY <1>6, <2>2, UpdateAssumption DEF Poll, ListenerTypeOK
  <2>4. \A m \in Listeners : m # l => pc'[m] = pc[m] /\ at'[m] = at[m] /\ until'[m] = until[m]
    BY <1>6 DEF Poll, ListenerTypeOK
  <2>5. pc' \in [Listeners -> PCs] /\ pc'[l] = "next"
    BY <1>6 DEF Poll, ListenerTypeOK, PCs
  <2> QED BY <1>6, <2>1, <2>2, <2>3, <2>4, <2>5 DEF Poll, ListenerTypeOK
<1>7. ASSUME NEW l \in Listeners, Take(l) \/ EndBatch(l) PROVE ListenerTypeOK'
  <2>1. PICK to \in PCs : /\ pc' = [pc EXCEPT ![l] = to]
                          /\ to \in {"down", "menu", "poll", "next"} \/ at[l] <= until[l]
    BY <1>7 DEF Take, EndBatch, PCs
  <2> QED BY <1>7, <2>1, PlaceType DEF Take, EndBatch, ListenerTypeOK
<1>8. ASSUME NEW l \in Listeners, HandleOK(l) PROVE ListenerTypeOK'
  BY <1>8, AtUpdate, PlaceType, RecordType DEF HandleOK, ListenerTypeOK, PCs, Outcomes
<1>9. ASSUME NEW l \in Listeners, NoticeSent(l) PROVE ListenerTypeOK'
  BY <1>9, AtUpdate, PlaceType, RecordType DEF NoticeSent, ListenerTypeOK, PCs, Outcomes
<1>10. ASSUME NEW l \in Listeners, NoticeFails(l) PROVE ListenerTypeOK'
  BY <1>10, AtUpdate, PlaceType DEF NoticeFails, ListenerTypeOK, PCs
<1>11. ASSUME NEW l \in Listeners, CommitFails(l) PROVE ListenerTypeOK'
  BY <1>11, AtUpdate, PlaceType DEF CommitFails, ListenerTypeOK, PCs
<1>12. ASSUME NEW l \in Listeners, HandleFails(l) PROVE ListenerTypeOK'
  <2>1. at[l] \in Updates /\ at[l] <= until[l]
    BY <1>12, AtUpdate DEF HandleFails, PCs
  <2>2. PICK to \in {"next", "notice"} :
          /\ pc' = [pc EXCEPT ![l] = to]
          /\ at' = at \/ (Advance(l) /\ to = "next")
    <3>1. CASE Kind[at[l]] = "callback"
      BY <1>12, <3>1 DEF HandleFails
    <3>2. CASE Kind[at[l]] # "callback"
      BY <1>12, <3>2 DEF HandleFails
    <3> QED BY <3>1, <3>2
  <2>3. outcome' \in [Updates -> SUBSET Outcomes]
    BY <1>12, RecordType DEF HandleFails, Outcomes
  <2> QED BY <1>12, <2>1, <2>2, <2>3, PlaceType DEF HandleFails, ListenerTypeOK, PCs
<1>13. ASSUME NEW l \in Listeners, Commit(l) PROVE ListenerTypeOK'
  <2>1. at[l] \in Updates /\ at[l] <= until[l]
    BY <1>13, AtUpdate DEF Commit, PCs
  <2>2. outcome' \in [Updates -> SUBSET Outcomes]
    BY <1>13, RecordType DEF Commit, Outcomes, ListenerTypeOK
  <2>3. saved' \in 0..(MaxUpdate + 1)
    BY <1>13, <2>1, UpdateAssumption DEF Commit, Updates
  <2>4. offset' \in [Listeners -> 0..(MaxUpdate + 1)]
    BY <1>13, <2>3 DEF Commit, ListenerTypeOK
  <2> QED BY <1>13, <2>1, <2>2, <2>3, <2>4, PlaceType DEF Commit, ListenerTypeOK, PCs
<1>14. CASE UNCHANGED listenerVars
  BY <1>14 DEF listenerVars, ListenerTypeOK
<1> QED BY <1>1, <1>2, <1>3, <1>4, <1>5, <1>6, <1>7, <1>8, <1>9, <1>10, <1>11, <1>12,
           <1>13, <1>14 DEF ListenerNext, Listener

\* What was seen stays seen.
LEMMA SeenStays ==
  ASSUME ListenerTypeOK, [ListenerNext]_listenerVars
  PROVE  \A u \in Updates : outcome[u] # {} => outcome'[u] # {}
  BY DEF ListenerTypeOK, ListenerNext, listenerVars, api, batch, Post, Listener, Crash, Start, MenuSent, MenuFails, Poll,
         PollAnswerLost, Take, EndBatch, HandleOK, HandleFails, NoticeSent, NoticeFails,
         Commit, CommitFails, Record

LEMMA DueStep == ListenerInv /\ [ListenerNext]_listenerVars => DueInv'
<1> SUFFICES ASSUME ListenerInv, [ListenerNext]_listenerVars, NEW m \in Listeners,
                    pc'[m] \in {"commit", "notice", "commit_notice"}
             PROVE  outcome'[at'[m]] # {}
  BY DEF DueInv
<1> USE DEF ListenerInv, ListenerTypeOK, PCs, Goto, Record, Advance, api, batch
<1>1. ASSUME pc'[m] = pc[m], at'[m] = at[m] PROVE outcome'[at'[m]] # {}
  BY <1>1, AtUpdate, SeenStays DEF DueInv
<1>2. CASE Post
  BY <1>1, <1>2 DEF Post
<1>3. ASSUME NEW l \in Listeners,
             \/ Start(l) \/ MenuFails(l) \/ MenuSent(l) \/ Crash(l) \/ PollAnswerLost(l)
             \/ Poll(l) \/ Take(l) \/ EndBatch(l) \/ NoticeFails(l) \/ CommitFails(l) \/ Commit(l)
      PROVE  outcome'[at'[m]] # {}
  <2>1. m # l
    BY <1>3 DEF Start, MenuFails, MenuSent, Crash, PollAnswerLost, Poll, Take, EndBatch,
                NoticeFails, CommitFails, Commit
  <2> QED BY <1>1, <1>3, <2>1 DEF Start, MenuFails, MenuSent, Crash, PollAnswerLost, Poll,
                Take, EndBatch, NoticeFails, CommitFails, Commit
<1>4. ASSUME NEW l \in Listeners, HandleOK(l) \/ HandleFails(l) \/ NoticeSent(l)
      PROVE  outcome'[at'[m]] # {}
  <2>1. CASE m = l
    BY <1>4, <2>1, AtUpdate DEF HandleOK, HandleFails, NoticeSent
  <2>2. CASE m # l
    BY <1>1, <1>4, <2>2 DEF HandleOK, HandleFails, NoticeSent
  <2> QED BY <2>1, <2>2
<1>5. CASE UNCHANGED listenerVars
  BY <1>1, <1>5 DEF listenerVars
<1> QED BY <1>2, <1>3, <1>4, <1>5 DEF ListenerNext, Listener

LEMMA SeenStep == ListenerInv /\ [ListenerNext]_listenerVars => SeenInv'
<1> SUFFICES ASSUME ListenerInv, [ListenerNext]_listenerVars PROVE SeenInv'
  OBVIOUS
<1> USE DEF ListenerInv, ListenerTypeOK, PCs, Goto, Advance, api, batch
<1>0. ListenerTypeOK'
  BY TypeStep
\* It is enough that every position is an old one, or follows an update now seen.
<1>2. SUFFICES
        ASSUME NEW n \in Nat,
               \/ n \in {confirmed', saved'}
               \/ \E l \in Listeners : n \in {offset'[l], at'[l]}
        PROVE  \A u \in Updates : u < n => outcome'[u] # {}
  BY <1>0 DEF SeenInv, SeenBelow
<1> DEFINE Old(k) == k \in {confirmed, saved, 0, 1} \/ \E l \in Listeners : k \in {offset[l], at[l]}
<1>3. ASSUME Old(n) PROVE \A u \in Updates : u < n => outcome'[u] # {}
  <2>1. CASE n \in {0, 1}
    BY <2>1, UpdateAssumption DEF Updates
  <2>2. CASE n \notin {0, 1}
    BY <2>2, <1>3, SeenStays DEF SeenInv, SeenBelow
  <2> QED BY <2>1, <2>2
<1>4. ASSUME NEW l \in Listeners, n = at[l] + 1, at[l] \in Updates, outcome'[at[l]] # {}
      PROVE  \A u \in Updates : u < n => outcome'[u] # {}
  <2>1. \A u \in Updates : u < at[l] => outcome'[u] # {}
    BY SeenStays DEF SeenInv, SeenBelow
  <2>2. \A u \in Updates : u < n => u < at[l] \/ u = at[l]
    BY <1>4, UpdateAssumption DEF Updates
  <2> QED BY <1>4, <2>1, <2>2
<1>5. CASE Post
  BY <1>2, <1>3, <1>5 DEF Post
<1>6. ASSUME NEW l \in Listeners,
             \/ Start(l) \/ MenuFails(l) \/ MenuSent(l) \/ Crash(l)
             \/ PollAnswerLost(l) \/ Poll(l)
             \/ Take(l) \/ EndBatch(l) \/ CommitFails(l) \/ HandleOK(l) \/ NoticeSent(l)
      PROVE  Old(n)
  BY <1>2, <1>6 DEF Start, MenuFails, MenuSent, Crash, PollAnswerLost, Poll, Confirm, Later,
                    Take, EndBatch, CommitFails, HandleOK, NoticeSent
<1>7. ASSUME NEW l \in Listeners, NoticeFails(l)
      PROVE  \A u \in Updates : u < n => outcome'[u] # {}
  <2>1. at[l] \in Updates /\ outcome'[at[l]] # {}
    BY <1>7, AtUpdate DEF NoticeFails, DueInv
  <2>2. Old(n) \/ n = at[l] + 1
    BY <1>2, <1>7 DEF NoticeFails
  <2> QED BY <1>3, <1>4, <2>1, <2>2
<1>8. ASSUME NEW l \in Listeners, HandleFails(l)
      PROVE  \A u \in Updates : u < n => outcome'[u] # {}
  <2>1. at[l] \in Updates /\ outcome'[at[l]] # {}
    BY <1>8, AtUpdate DEF HandleFails, Record
  <2>2. Old(n) \/ n = at[l] + 1
    BY <1>2, <1>8 DEF HandleFails
  <2> QED BY <1>3, <1>4, <2>1, <2>2
<1>9. ASSUME NEW l \in Listeners, Commit(l)
      PROVE  \A u \in Updates : u < n => outcome'[u] # {}
  <2>1. at[l] \in Updates /\ outcome'[at[l]] # {}
    BY <1>9, AtUpdate DEF Commit, Record, DueInv
  <2>2. Old(n) \/ n = at[l] + 1
    BY <1>2, <1>9 DEF Commit
  <2> QED BY <1>3, <1>4, <2>1, <2>2
<1>10. CASE UNCHANGED listenerVars
  BY <1>2, <1>3, <1>10 DEF listenerVars
<1> QED BY <1>3, <1>5, <1>6, <1>7, <1>8, <1>9, <1>10 DEF ListenerNext, Listener

LEMMA ListenerInvariance == ListenerSpec => []ListenerInv
<1>1. ListenerInv /\ [ListenerNext]_listenerVars => ListenerInv'
  BY TypeStep, SeenStep, DueStep DEF ListenerInv
<1> QED BY InitListenerInv, <1>1, PTL DEF ListenerSpec

\* The listener's state always has its type; an update in work is one of its batch.
THEOREM ListenerTypeCorrect == ListenerSpec => []ListenerTypeOK
<1>1. ListenerInv => ListenerTypeOK
  BY DEF ListenerInv
<1> QED BY <1>1, ListenerInvariance, PTL

\* No update is passed over unseen, however many listeners run.
THEOREM NonePassedUnseen == ListenerSpec => []NothingPassedUnseen
<1>1. ListenerInv => NothingPassedUnseen
  BY DEF ListenerInv, SeenInv, NothingPassedUnseen
<1> QED BY <1>1, ListenerInvariance, PTL

-------------------------------------------------------------------------------
(***************************************************************************)
(* One listener: what it remembers is what is in the file, and it works at *)
(* or beyond it.                                                           *)
(***************************************************************************)
OneListener == \A l, m \in Listeners : l = m

SyncInv ==
  \A l \in Listeners :
    pc[l] \notin {"down", "menu"} =>
      /\ offset[l] = saved
      /\ pc[l] # "poll" => at[l] >= saved

LEMMA SyncStep ==
  ASSUME OneListener, ListenerTypeOK, ListenerTypeOK', SyncInv, [ListenerNext]_listenerVars
  PROVE  SyncInv'
<1> SUFFICES ASSUME NEW l \in Listeners, pc'[l] \notin {"down", "menu"}
             PROVE  offset'[l] = saved' /\ (pc'[l] # "poll" => at'[l] >= saved')
  BY DEF SyncInv
<1> USE DEF ListenerTypeOK, PCs, Goto, Advance, api, batch
<1>1. CASE Post \/ UNCHANGED listenerVars
  BY <1>1 DEF Post, listenerVars, SyncInv
<1>2. CASE Start(l) \/ MenuFails(l) \/ MenuSent(l) \/ Crash(l) \/ PollAnswerLost(l)
  BY <1>2 DEF Start, MenuFails, MenuSent, Crash, PollAnswerLost, SyncInv
<1>3. CASE Poll(l)
  BY <1>3 DEF Poll, Confirm, Later, SyncInv
<1>4. CASE Take(l) \/ EndBatch(l) \/ CommitFails(l) \/ HandleOK(l) \/ NoticeSent(l)
  BY <1>4 DEF Take, EndBatch, CommitFails, HandleOK, NoticeSent, SyncInv
<1>5. CASE HandleFails(l) \/ NoticeFails(l)
  BY <1>5 DEF HandleFails, NoticeFails, SyncInv
<1>6. CASE Commit(l)
  BY <1>6 DEF Commit, SyncInv
<1> QED BY <1>1, <1>2, <1>3, <1>4, <1>5, <1>6 DEF OneListener, ListenerNext, Listener

LEMMA OneListenerInvariance ==
  ASSUME OneListener
  PROVE  ListenerSpec => [](ListenerTypeOK /\ SyncInv)
<1>1. ListenerInit => ListenerTypeOK /\ SyncInv
  BY InitListenerInv DEF ListenerInit, ListenerInv, SyncInv
<1>2. ListenerTypeOK /\ SyncInv /\ [ListenerNext]_listenerVars => (ListenerTypeOK /\ SyncInv)'
  BY TypeStep, SyncStep
<1> QED BY <1>1, <1>2, PTL DEF ListenerSpec

\* A step that changes what became of an update belongs to the listener that is at it.
LEMMA WorksAt ==
  ASSUME ListenerTypeOK, SyncInv, [ListenerNext]_listenerVars, NEW u \in Updates, outcome'[u] # outcome[u]
  PROVE  u >= saved
<1> USE DEF ListenerTypeOK, Goto, Record
<1>1. PICK l \in Listeners :
        /\ u = at[l]
        /\ pc[l] \in {"handle", "commit", "notice", "refuse", "commit_notice"}
  BY DEF ListenerNext, listenerVars, api, batch, Post, Listener, Crash, Start, MenuSent, MenuFails, Poll,
         PollAnswerLost, Take, EndBatch, HandleOK, HandleFails, NoticeSent, NoticeFails,
         Commit, CommitFails
<1> QED BY <1>1 DEF SyncInv

\* What the one listener has committed it never works on again.
THEOREM CommittedStaysFinal ==
  ASSUME OneListener
  PROVE  ListenerSpec => CommittedIsFinal
<1>1. ASSUME ListenerTypeOK, SyncInv, [ListenerNext]_listenerVars
      PROVE  [\A u \in Updates : u < saved => outcome'[u] = outcome[u]]_listenerVars
  <2>1. ASSUME NEW u \in Updates, u < saved, outcome'[u] # outcome[u] PROVE FALSE
    <3>1. u >= saved /\ u \in Int /\ saved \in Int
      BY <1>1, <2>1, WorksAt, UpdateAssumption DEF ListenerTypeOK, Updates
    <3> QED BY <2>1, <3>1
  <2> QED BY <2>1
<1> QED BY <1>1, OneListenerInvariance, PTL DEF ListenerSpec, CommittedIsFinal

\* The state file of the one listener never moves back.
THEOREM OffsetNeverMovesBack ==
  ASSUME OneListener
  PROVE  ListenerSpec => OffsetMovesOn
<1>1. ASSUME ListenerTypeOK, SyncInv, [ListenerNext]_listenerVars PROVE saved' >= saved
  <2>1. CASE saved' = saved
    BY <1>1, <2>1 DEF ListenerTypeOK
  <2>2. ASSUME NEW l \in Listeners, Commit(l) PROVE saved' >= saved
    <3>1. pc[l] \in {"refuse", "commit", "commit_notice"} /\ saved' = at[l] + 1
      BY <2>2 DEF Commit, Goto
    <3>2. at[l] \in Updates /\ at[l] >= saved
      BY <1>1, <3>1, AtUpdate DEF SyncInv, PCs
    <3> QED BY <1>1, <3>1, <3>2, UpdateAssumption DEF Updates, ListenerTypeOK
  <2> QED BY <1>1, <2>1, <2>2
          DEF ListenerNext, listenerVars, api, batch, Post, Listener, Crash, Start, MenuSent, MenuFails, Poll,
              PollAnswerLost, Take, EndBatch, HandleOK, HandleFails, NoticeSent, NoticeFails,
              CommitFails
<1>2. ListenerTypeOK /\ SyncInv /\ [ListenerNext]_listenerVars => [saved' >= saved]_listenerVars
  BY <1>1
<1> QED BY <1>2, OneListenerInvariance, PTL DEF ListenerSpec, OffsetMovesOn

-------------------------------------------------------------------------------
Writing == {"save", "saving", "fetched", "freeze", "freezing"}

\* Only a request made after a close reads or writes the frozen snapshot.
BasisOfClosed ==
  \A p \in Procs : doing[p] \in {"load", "freeze", "freezing"} => basis[p] # Live

\* No request began with a later board, nor wants a later session, than today's.
NoFuture ==
  \A p \in Procs : began[p] <= board /\ basis[p] <= session

SourceInv == SourceTypeOK /\ BasisOfClosed /\ NoFuture /\ LiveMeansFresh

-------------------------------------------------------------------------------
\* What the steps of a request put in hand is a snapshot.
LEMMA Snapshots ==
  /\ \A s \in Snapshot : Reported(s) \subseteq Snapshot
  /\ \A s \in Snapshot : LastKnown(s) \in Snapshot /\ Captured(s) \in Snapshot
  /\ \A s \in Snapshot : LastKnown(s).mode = "known" /\ Captured(s).mode = "known"
  /\ \A s \in Snapshot : LastKnown(s).board = s.board /\ Captured(s).board = s.board
  /\ board \in 0..MaxBoard =>
       \A c \in {"full", "part", "few"}, b \in BOOLEAN :
         Fresh(c, b) \in Snapshot /\ Fresh(c, b).board = board
BY DEF Snapshot, LastKnown, Captured, Fresh, Reported

\* A step of a request that leaves the files well-typed preserves the invariant, if the
\* snapshot it puts in hand is well-typed and not older than its label says.
LEMMA GoesKeeps ==
  ASSUME SourceInv, NEW p \in Procs, NEW from, NEW to \in Steps, NEW s \in Snapshot \cup {None},
         Goes(p, from, to, s),
         to \in {"idle", "load", "fetch"} \/ s # None,
         s # None /\ s.mode = "live" => s.board >= began[p],
         to \in {"load", "freeze", "freezing"} => basis[p] # Live,
         cache' \in Snapshot \cup {None, Torn},
         closed' \in [snap : Snapshot, date : 0..MaxSession] \cup {None, Torn},
         older' \subseteq Procs
  PROVE  SourceInv'
<1>1. SourceTypeOK'
  BY DEF SourceInv, SourceTypeOK, Goes, marketVars, Steps
<1>2. BasisOfClosed' /\ NoFuture' /\ LiveMeansFresh'
  BY DEF SourceInv, SourceTypeOK, Goes, marketVars, BasisOfClosed, NoFuture, LiveMeansFresh
<1> QED
  BY <1>1, <1>2 DEF SourceInv

LEMMA InitSourceInv == SourceInit => SourceInv
<1> SUFFICES ASSUME SourceInit PROVE SourceInv
  OBVIOUS
<1>b. open \in BOOLEAN
  BY DEF SourceInit
<1>1. session \in 0..MaxSession /\ board \in 0..MaxBoard
  BY Assumptions DEF Assumptions, SourceInit
<1>2. SourceTypeOK
  BY <1>b, <1>1 DEF SourceInit, SourceTypeOK, Steps, Live
<1>3. BasisOfClosed /\ NoFuture /\ LiveMeansFresh
  BY DEF SourceInit, BasisOfClosed, NoFuture, LiveMeansFresh, Live
<1> QED
  BY <1>2, <1>3 DEF SourceInv

\* The invariant is inductive, whatever TSETMC answers.
LEMMA NextSourceInv == SourceInv /\ [SourceNext]_sourceVars => SourceInv'
<1> SUFFICES ASSUME SourceInv, [SourceNext]_sourceVars PROVE SourceInv'
  OBVIOUS
<1> USE Assumptions, NotSnapshots DEF Assumptions, NotSnapshots
<1>t. SourceTypeOK
  BY DEF SourceInv
<1>1. CASE Opens \/ Closes \/ Trade
  <2>b. open' \in BOOLEAN
    BY <1>1, <1>t DEF SourceTypeOK, Opens, Closes, Trade
  <2>1. /\ session' \in 0..MaxSession /\ session' >= session
        /\ board' \in 0..MaxBoard /\ board' >= board
        /\ UNCHANGED <<cache, closed, older, doing, request, basis, got, began>>
    BY <1>1 DEF SourceInv, SourceTypeOK, Opens, Closes, Trade, files
  <2>2. SourceTypeOK'
    BY <2>b, <2>1 DEF SourceInv, SourceTypeOK
  <2>3. BasisOfClosed' /\ LiveMeansFresh'
    BY <2>1 DEF SourceInv, BasisOfClosed, LiveMeansFresh
  <2>4. NoFuture'
    BY <2>1, <2>2 DEF SourceInv, SourceTypeOK, NoFuture, Live
  <2> QED
    BY <2>2, <2>3, <2>4 DEF SourceInv
<1>2. ASSUME NEW p \in Procs, Begin(p) PROVE SourceInv'
  <2>1. SourceTypeOK'
    BY <1>2 DEF SourceInv, SourceTypeOK, Begin, marketVars, files, Steps, Live, Usable
  <2>2. BasisOfClosed' /\ NoFuture' /\ LiveMeansFresh'
    BY <1>2 DEF SourceInv, SourceTypeOK, Begin, marketVars, files, Live, BasisOfClosed, NoFuture,
       LiveMeansFresh
  <2> QED
    BY <2>1, <2>2 DEF SourceInv
<1>3. ASSUME NEW p \in Procs, Step(p), ~Begin(p) PROVE SourceInv'
  <2>f. /\ UNCHANGED cache => cache' \in Snapshot \cup {None, Torn}
        /\ UNCHANGED closed =>
             closed' \in [snap : Snapshot, date : 0..MaxSession] \cup {None, Torn}
        /\ UNCHANGED older \/ older' = UnderWay \ {p} => older' \subseteq Procs
    BY <1>t DEF SourceTypeOK, UnderWay
  <2>g. /\ got[p] \in Snapshot \cup {None}
        /\ doing[p] \in Writing => got[p] \in Snapshot
        /\ got[p] # None /\ got[p].mode = "live" => got[p].board >= began[p]
    BY <1>t DEF SourceTypeOK, SourceInv, LiveMeansFresh, Writing, Steps
  <2>b. doing[p] \in {"load", "freeze", "freezing"} => basis[p] # Live
    BY DEF SourceInv, BasisOfClosed
  <2>1. CASE UseFrozen(p)
    <3>1. closed.snap \in Snapshot
      BY <2>1 DEF UseFrozen, IsFrozen, Usable
    <3> QED
      BY <2>1, <2>f, <3>1, Snapshots, GoesKeeps DEF UseFrozen, files, Steps
  <2>2. CASE NotFrozen(p)
    BY <2>2, <2>f, GoesKeeps DEF NotFrozen, files, Steps
  <2>3. CASE Fetch(p)
    <3>1. PICK cover \in {"full", "part", "few"}, stamped \in BOOLEAN :
            Goes(p, "fetch", "save", Fresh(cover, stamped))
      BY <2>3 DEF Fetch
    <3>2. /\ Fresh(cover, stamped) \in Snapshot
          /\ Fresh(cover, stamped).board >= began[p]
      BY <1>t, Snapshots DEF SourceTypeOK, SourceInv, NoFuture
    <3> QED
      BY <2>3, <2>f, <3>1, <3>2, GoesKeeps DEF Fetch, files, Steps
  <2>4. CASE FetchNone(p)
    <3>1. CASE Usable(cache)
      <4>1. LastKnown(cache) \in Snapshot /\ LastKnown(cache).mode = "known"
        BY <3>1, Snapshots DEF Usable
      <4> QED
        BY <2>4, <2>f, <3>1, <4>1, GoesKeeps DEF FetchNone, files, Steps
    <3>2. CASE ~Usable(cache)
      <4>1. Fresh("few", FALSE) \in Snapshot /\ Fresh("few", FALSE).board >= began[p]
        BY <1>t, Snapshots DEF SourceTypeOK, SourceInv, NoFuture
      <4> QED
        BY <2>4, <2>f, <3>2, <4>1, GoesKeeps DEF FetchNone, files, Steps
    <3> QED
      BY <3>1, <3>2
  <2>5. CASE FetchRaises(p) \/ Unavailable(p) \/ SourceKilled(p)
    <3>1. \E from : Goes(p, from, "idle", None) /\ UNCHANGED files
      BY <2>5 DEF FetchRaises, Unavailable, SourceKilled
    <3> QED
      BY <2>f, <3>1, GoesKeeps DEF files, Steps
  <2>6. CASE FreezeFails(p)
    <3>1. \E from : Goes(p, from, "idle", None) /\ UNCHANGED files
      BY <2>6 DEF FreezeFails
    <3> QED
      BY <2>f, <3>1, GoesKeeps DEF files, Steps
  <2>7. CASE OpenCache(p)
    BY <2>7, <2>f, <2>g, GoesKeeps DEF OpenCache, Goes, Steps, Writing
  <2>8. CASE WriteCache(p)
    <3>1. /\ Goes(p, "saving", "fetched", got[p]) /\ cache' \in {got[p], Torn}
          /\ UNCHANGED <<closed, older>>
      BY <2>8 DEF WriteCache, Written
    <3>2. got[p] \in Snapshot
      BY <2>g, <3>1 DEF Goes, Writing
    <3> QED
      BY <2>f, <2>g, <3>1, <3>2, GoesKeeps DEF Steps
  <2>9. CASE SaveFails(p)
    <3>1. PICK from \in {"save", "saving"} : Goes(p, from, "fetched", got[p])
      BY <2>9 DEF SaveFails
    <3>2. got[p] \in Snapshot
      BY <2>g, <3>1 DEF Goes, Writing
    <3> QED
      BY <2>9, <2>f, <2>g, <3>1, <3>2, GoesKeeps DEF SaveFails, files, Steps
  <2>10. CASE ReturnLive(p)
    BY <2>10, <2>f, <2>g, GoesKeeps DEF ReturnLive, files, Steps
  <2>11. CASE Capture(p)
    <3>1. got[p] \in Snapshot
      BY <2>11, <2>g DEF Capture, Writing
    <3>2. Captured(got[p]) \in Snapshot /\ Captured(got[p]).mode = "known"
      BY <3>1, Snapshots
    <3> QED
      BY <2>11, <2>f, <3>2, GoesKeeps DEF Capture, files, Steps
  <2>12. CASE FallBack(p)
    <3>1. LastKnown(cache) \in Snapshot /\ LastKnown(cache).mode = "known"
      BY <2>12, Snapshots DEF FallBack, Usable
    <3> QED
      BY <2>12, <2>f, <3>1, GoesKeeps DEF FallBack, files, Steps
  <2>13. CASE OpenClosed(p)
    <3>1. got[p] \in Snapshot /\ basis[p] # Live
      BY <2>13, <2>g, <2>b DEF OpenClosed, Goes, Writing
    <3> QED
      BY <2>13, <2>f, <2>g, <3>1, GoesKeeps DEF OpenClosed, Steps
  <2>14. CASE WriteClosed(p)
    <3>1. /\ Goes(p, "freezing", "idle", got[p])
          /\ closed' \in {[snap |-> got[p], date |-> basis[p]], Torn}
          /\ UNCHANGED cache /\ older' = UnderWay \ {p}
      BY <2>14 DEF WriteClosed, Written
    <3>2. got[p] \in Snapshot /\ basis[p] \in 0..MaxSession
      BY <1>t, <2>g, <2>b, <3>1 DEF Goes, Writing, SourceTypeOK
    <3> QED
      BY <2>f, <2>g, <3>1, <3>2, GoesKeeps DEF Steps
  <2>15. CASE OpenReport(p)
    <3>1. /\ Goes(p, "idle", "reporting", got[p]) /\ got[p] \in Snapshot
          /\ cache' = Torn /\ UNCHANGED <<closed, older>>
      BY <2>15, <2>g DEF OpenReport
    <3> QED
      BY <2>f, <2>g, <3>1, GoesKeeps DEF Steps
  <2>16. CASE WriteReport(p)
    <3>1. PICK s \in Reported(got[p]) :
            /\ Goes(p, "reporting", "idle", None)
            /\ cache' \in {s, Torn} /\ UNCHANGED <<closed, older>>
      BY <2>16 DEF WriteReport, Written
    <3>2. got[p] # None
      BY <1>t, <3>1 DEF Goes, SourceTypeOK, Steps
    <3>3. s \in Snapshot
      BY <2>g, <3>2, Snapshots
    <3> QED
      BY <2>f, <3>1, <3>3, GoesKeeps DEF Steps
  <2> QED
    BY <1>3, <2>1, <2>2, <2>3, <2>4, <2>5, <2>6, <2>7, <2>8, <2>9, <2>10, <2>11, <2>12, <2>13,
       <2>14, <2>15, <2>16 DEF Step, BuildLive
<1>4. CASE UNCHANGED sourceVars
  BY <1>4 DEF SourceInv, SourceTypeOK, BasisOfClosed, NoFuture, LiveMeansFresh, sourceVars, marketVars, files
<1> QED
  BY <1>1, <1>2, <1>3, <1>4 DEF SourceNext

LEMMA SourceInvariance == SourceSpec => []SourceInv
BY InitSourceInv, NextSourceInv, PTL DEF SourceSpec

\* Every variable keeps its type, the files included, for every number of processes.
THEOREM SourceTypeCorrect == SourceSpec => []SourceTypeOK
<1>1. SourceInv => SourceTypeOK
  BY DEF SourceInv
<1> QED
  BY <1>1, SourceInvariance, PTL

\* Whatever TSETMC answers and however the processes interleave, a snapshot labelled live
\* is not older than the request it answers (_load_last_known_snapshot).
THEOREM FreshIfLive == SourceSpec => []LiveMeansFresh
<1>1. SourceInv => LiveMeansFresh
  BY DEF SourceInv
<1> QED
  BY <1>1, SourceInvariance, PTL

-------------------------------------------------------------------------------
(***************************************************************************)
(* The frozen snapshot is the final state.  A request whose basis is the   *)
(* last session was made after its close, and the market has not opened    *)
(* since, so what it holds is the board at rest.                           *)
(***************************************************************************)
BasisIsPast == open => \A p \in Procs : basis[p] < session

HeldIsFinal ==
  \A p \in Procs : ~open /\ basis[p] = session /\ doing[p] \in Writing => got[p].board = board

DatesArePast ==
  closed \notin {None, Torn} =>
    /\ closed.date <= session
    /\ open => closed.date < session
    /\ ~open /\ closed.date = session => closed.snap.board = board

FinalInv == BasisIsPast /\ HeldIsFinal /\ DatesArePast

\* A step of a request preserves it, if the request goes on with the state of the board
\* and leaves the frozen snapshot, spoils it, or writes what it holds.
LEMMA GoesFinal ==
  ASSUME SourceInv, FinalInv, NEW p \in Procs, NEW from, NEW to, NEW s,
         Goes(p, from, to, s),
         ~open /\ basis[p] = session /\ to \in Writing => s.board = board,
         \/ closed' \in {closed, Torn}
         \/ from \in Writing /\ basis[p] # Live
              /\ closed' \in {[snap |-> got[p], date |-> basis[p]], Torn}
  PROVE  FinalInv'
<1>t. doing[p] = from /\ doing \in [Procs -> Steps] /\ got \in [Procs -> Snapshot \cup {None}]
  BY DEF SourceInv, SourceTypeOK, Goes
<1>1. BasisIsPast' /\ HeldIsFinal'
  BY <1>t DEF FinalInv, BasisIsPast, HeldIsFinal, Goes, marketVars
<1>2. DatesArePast'
  <2>1. CASE closed' \in {closed, Torn}
    BY <2>1 DEF FinalInv, DatesArePast, Goes, marketVars
  <2>2. CASE from \in Writing /\ closed' = [snap |-> got[p], date |-> basis[p]]
    <3>1. closed'.date = basis[p] /\ closed'.snap = got[p]
      BY <2>2
    <3>2. basis[p] <= session /\ (open => basis[p] < session)
      BY DEF SourceInv, NoFuture, FinalInv, BasisIsPast
    <3>3. ~open /\ basis[p] = session => got[p].board = board
      BY <1>t, <2>2 DEF FinalInv, HeldIsFinal
    <3> QED
      BY <3>1, <3>2, <3>3 DEF DatesArePast, Goes, marketVars
  <2> QED
    BY <2>1, <2>2
<1> QED
  BY <1>1, <1>2 DEF FinalInv

LEMMA NextFinal ==
  ASSUME "none" \notin Answers, ~LateTrades, SourceInv, FinalInv, [SourceNext]_sourceVars
  PROVE  FinalInv'
<1>t. SourceTypeOK /\ NoFuture
  BY DEF SourceInv
<1>s. session \in Nat /\ basis \in [Procs -> {-1} \cup 0..MaxSession]
  BY <1>t, Assumptions DEF SourceTypeOK, Live, Assumptions
<1>1. CASE Opens
  <2>1. /\ open' /\ session' = session + 1
        /\ UNCHANGED <<cache, closed, basis>>
    BY <1>1 DEF Opens, files
  <2>2. \A p \in Procs : basis'[p] < session'
    BY <1>t, <1>s, <2>1 DEF NoFuture
  <2>3. closed \notin {None, Torn} => closed.date <= session' /\ closed.date < session'
    BY <1>t, <1>s, <2>1, Assumptions DEF SourceTypeOK, FinalInv, DatesArePast, Assumptions
  <2>4. BasisIsPast' /\ HeldIsFinal'
    BY <2>1, <2>2 DEF BasisIsPast, HeldIsFinal
  <2>5. DatesArePast'
    BY <2>1, <2>3 DEF DatesArePast
  <2> QED
    BY <2>4, <2>5 DEF FinalInv
<1>2. CASE Closes
  <2>1. /\ open /\ ~open' /\ session' = session /\ board' = board
        /\ UNCHANGED <<cache, closed, doing, basis, got>>
    BY <1>2 DEF Closes, files
  <2>2. \A p \in Procs : basis'[p] < session' /\ basis'[p] # session'
    BY <1>s, <2>1 DEF FinalInv, BasisIsPast
  <2>3. closed \notin {None, Torn} => closed.date \in Nat /\ closed.date < session'
    BY <1>t, <2>1, Assumptions DEF SourceTypeOK, FinalInv, DatesArePast, Assumptions
  <2> QED
    BY <1>s, <2>1, <2>2, <2>3 DEF FinalInv, BasisIsPast, HeldIsFinal, DatesArePast
<1>3. CASE Trade
  <2>1. open /\ open' /\ UNCHANGED <<session, closed, basis>>
    BY <1>3 DEF Trade, files
  <2> QED
    BY <2>1 DEF FinalInv, BasisIsPast, HeldIsFinal, DatesArePast
<1>4. ASSUME NEW p \in Procs, Begin(p) PROVE FinalInv'
  <2>1. /\ UNCHANGED <<open, session, board, closed>>
        /\ basis' = [basis EXCEPT ![p] = IF open THEN Live ELSE session]
        /\ doing' = [doing EXCEPT ![p] = IF open THEN "fetch" ELSE "load"]
        /\ got' = [got EXCEPT ![p] = None]
    BY <1>4 DEF Begin, marketVars, files
  <2>2. BasisIsPast'
    BY <1>s, <2>1 DEF FinalInv, BasisIsPast, Live
  <2>3. HeldIsFinal'
    BY <1>t, <2>1 DEF FinalInv, HeldIsFinal, SourceTypeOK, Writing
  <2>4. DatesArePast'
    BY <2>1 DEF FinalInv, DatesArePast
  <2> QED
    BY <2>2, <2>3, <2>4 DEF FinalInv
<1>5. ASSUME NEW p \in Procs, Step(p), ~Begin(p) PROVE FinalInv'
  <2>h. ~open /\ basis[p] = session /\ doing[p] \in Writing => got[p].board = board
    BY DEF FinalInv, HeldIsFinal
  <2>g. doing[p] \in Writing => got[p] \in Snapshot
    BY <1>t DEF SourceTypeOK, Writing, Steps
  <2>1. CASE UseFrozen(p) \/ FetchRaises(p) \/ FallBack(p) \/ Unavailable(p) \/ FreezeFails(p)
             \/ SourceKilled(p) \/ WriteReport(p)
    <3>1. \E from, s : Goes(p, from, "idle", s) /\ UNCHANGED closed
      BY <2>1 DEF UseFrozen, FetchRaises, FallBack, Unavailable, FreezeFails, SourceKilled,
         WriteReport, files
    <3> QED
      BY <3>1, GoesFinal DEF Writing
  <2>2. CASE NotFrozen(p)
    BY <2>2, GoesFinal DEF NotFrozen, files, Writing
  <2>8. CASE OpenReport(p)
    BY <2>8, GoesFinal DEF OpenReport, files, Writing
  <2>3. CASE Fetch(p)
    <3>1. PICK c \in {"full", "part", "few"}, b \in BOOLEAN :
            Goes(p, "fetch", "save", Fresh(c, b)) /\ UNCHANGED closed
      BY <2>3 DEF Fetch, files
    <3>2. Fresh(c, b).board = board
      BY <1>t, Snapshots DEF SourceTypeOK
    <3> QED
      BY <3>1, <3>2, GoesFinal
  <2>4. CASE FetchNone(p)
    BY <2>4 DEF FetchNone, AnswersTo
  <2>5. CASE OpenCache(p) \/ WriteCache(p) \/ SaveFails(p) \/ ReturnLive(p) \/ OpenClosed(p)
    <3>1. PICK from \in Writing, to \in Steps : Goes(p, from, to, got[p]) /\ closed' \in {closed, Torn}
      BY <2>5 DEF OpenCache, WriteCache, SaveFails, ReturnLive, OpenClosed, files, Writing, Steps
    <3>2. doing[p] = from
      BY <3>1 DEF Goes
    <3> QED
      BY <2>h, <3>1, <3>2, GoesFinal
  <2>6. CASE Capture(p)
    <3>1. Goes(p, "fetched", "freeze", Captured(got[p])) /\ UNCHANGED closed
      BY <2>6 DEF Capture, files
    <3>2. doing[p] \in Writing
      BY <3>1 DEF Goes, Writing
    <3>3. Captured(got[p]).board = got[p].board
      BY <2>g, <3>2, Snapshots
    <3> QED
      BY <2>h, <3>1, <3>2, <3>3, GoesFinal
  <2>7. CASE WriteClosed(p)
    <3>1. /\ Goes(p, "freezing", "idle", got[p])
          /\ closed' \in {[snap |-> got[p], date |-> basis[p]], Torn}
      BY <2>7 DEF WriteClosed, Written
    <3>2. basis[p] # Live
      BY <3>1 DEF Goes, SourceInv, BasisOfClosed
    <3> QED
      BY <3>1, <3>2, GoesFinal DEF Writing
  <2> QED
    BY <1>5, <2>1, <2>2, <2>3, <2>4, <2>5, <2>6, <2>7, <2>8 DEF Step, BuildLive
<1>6. CASE UNCHANGED sourceVars
  BY <1>6 DEF FinalInv, BasisIsPast, HeldIsFinal, DatesArePast, sourceVars, marketVars, files
<1> QED
  BY <1>1, <1>2, <1>3, <1>4, <1>5, <1>6 DEF SourceNext

\* When TSETMC always shows instruments and its board rests after the close, the frozen
\* snapshot of the last session is the board's final state: no interleaving of requests,
\* openings, kills and torn files freezes an earlier or a later one (build_tsetmc_snapshot).
THEOREM FrozenSnapshotIsFinal ==
  ASSUME "none" \notin Answers, ~LateTrades
  PROVE  SourceSpec => []FrozenIsFinal
<1>1. SourceInit => FinalInv
  BY DEF SourceInit, FinalInv, BasisIsPast, HeldIsFinal, DatesArePast, Writing
<1>2. SourceInv /\ FinalInv /\ [SourceNext]_sourceVars => FinalInv'
  BY NextFinal
<1>3. FinalInv => FrozenIsFinal
  BY DEF FinalInv, DatesArePast, FrozenIsFinal, IsFrozen
<1> QED
  BY <1>1, <1>2, <1>3, SourceInvariance, PTL DEF SourceSpec

-------------------------------------------------------------------------------
(***************************************************************************)
(* What is frozen for the last session is safe from those who come later.  *)
(* A request on its way to freeze passed NotFrozen, so it found nothing    *)
(* frozen for its session: if there is something now, it was written while *)
(* the request was under way.  A request of an earlier session has been    *)
(* under way since before the last one.                                    *)
(***************************************************************************)
LateComers ==
  /\ closed \notin {None, Torn} => closed.date <= session
  /\ IsFrozen(session) =>
       \A p \in Procs :
         /\ basis[p] # Live
         /\ \/ doing[p] \in Writing \cup {"fetch"}
            \/ doing[p] = "load" /\ basis[p] # session
         => p \in older

\* A step of a request preserves it, if it leaves the frozen snapshot, does not begin the
\* request, and goes on from "load" only when nothing is frozen for its session.
LEMMA GoesLate ==
  ASSUME SourceInv, LateComers, NEW p \in Procs, NEW from, NEW to, NEW s,
         Goes(p, from, to, s), UNCHANGED <<closed, older>>,
         \/ to \in {"idle", "reporting"}
         \/ from = "load" /\ to = "fetch" /\ ~IsFrozen(basis[p])
         \/ from \in Writing \cup {"fetch"} /\ to \in Writing
  PROVE  LateComers'
<1>1. /\ doing[p] = from /\ doing' = [doing EXCEPT ![p] = to] /\ doing \in [Procs -> Steps]
      /\ UNCHANGED <<session, basis, closed, older>>
  BY DEF SourceInv, SourceTypeOK, Goes, marketVars
<1>2. IsFrozen(session)' <=> IsFrozen(session)
  BY <1>1 DEF IsFrozen
<1> QED
  BY <1>1, <1>2 DEF LateComers, Writing

LEMMA NextLate == SourceInv /\ LateComers /\ [SourceNext]_sourceVars => LateComers'
<1> SUFFICES ASSUME SourceInv, LateComers, [SourceNext]_sourceVars PROVE LateComers'
  OBVIOUS
<1>t. SourceTypeOK /\ NoFuture /\ BasisOfClosed
  BY DEF SourceInv
<1>n. session \in Nat /\ (closed \notin {None, Torn} => closed.date \in Nat)
  BY <1>t, Assumptions DEF SourceTypeOK, Assumptions
<1>1. CASE Opens
  <2>1. session' = session + 1 /\ closed' = closed
    BY <1>1 DEF Opens, files
  <2>2. ~IsFrozen(session)'
    BY <1>n, <2>1 DEF LateComers, IsFrozen
  <2> QED
    BY <1>n, <2>1, <2>2 DEF LateComers
<1>2. CASE Closes \/ Trade
  <2>1. UNCHANGED <<session, closed, older, doing, basis>>
    BY <1>2 DEF Closes, Trade, files
  <2> QED
    BY <2>1 DEF LateComers, IsFrozen
<1>3. ASSUME NEW p \in Procs, Begin(p) PROVE LateComers'
  <2>1. /\ UNCHANGED <<session, closed>> /\ older' = older \ {p}
        /\ basis' = [basis EXCEPT ![p] = IF open THEN Live ELSE session]
        /\ doing' = [doing EXCEPT ![p] = IF open THEN "fetch" ELSE "load"]
    BY <1>3 DEF Begin, marketVars
  <2>2. IsFrozen(session)' <=> IsFrozen(session)
    BY <2>1 DEF IsFrozen
  <2>3. basis'[p] = Live \/ (doing'[p] = "load" /\ basis'[p] = session')
    BY <1>t, <2>1 DEF SourceTypeOK
  <2>4. ASSUME NEW q \in Procs, q # p, q \in older
        PROVE  q \in older'
    BY <2>1, <2>4
  <2>5. \A q \in Procs : q # p => doing'[q] = doing[q] /\ basis'[q] = basis[q]
    BY <1>t, <2>1 DEF SourceTypeOK
  <2> QED
    BY <2>1, <2>2, <2>3, <2>4, <2>5 DEF LateComers, Writing
<1>4. ASSUME NEW p \in Procs, Step(p), ~Begin(p) PROVE LateComers'
  <2>1. CASE UseFrozen(p) \/ NotFrozen(p)
    <3>1. \E to, s : /\ Goes(p, "load", to, s) /\ UNCHANGED <<closed, older>>
                     /\ to = "idle" \/ (to = "fetch" /\ ~IsFrozen(basis[p]))
      BY <2>1 DEF UseFrozen, NotFrozen, files
    <3> QED
      BY <3>1, GoesLate
  <2>2. CASE Fetch(p) \/ FetchNone(p)
    <3>1. \E to \in Writing : \E s : Goes(p, "fetch", to, s) /\ UNCHANGED <<closed, older>>
      <4>1. Fetch(p) => \E s : Goes(p, "fetch", "save", s) /\ UNCHANGED files
        BY DEF Fetch
      <4>2. FetchNone(p) => \/ Goes(p, "fetch", "fetched", LastKnown(cache)) /\ UNCHANGED files
                            \/ Goes(p, "fetch", "save", Fresh("few", FALSE)) /\ UNCHANGED files
        BY DEF FetchNone
      <4> QED
        BY <2>2, <4>1, <4>2 DEF Writing, files
    <3> QED
      BY <3>1, GoesLate
  <2>3. CASE OpenCache(p) \/ WriteCache(p) \/ SaveFails(p) \/ Capture(p)
    <3>1. \E from, to \in Writing : \E s : Goes(p, from, to, s) /\ UNCHANGED <<closed, older>>
      BY <2>3 DEF OpenCache, WriteCache, SaveFails, Capture, files, Writing
    <3> QED
      BY <3>1, GoesLate
  <2>4. CASE FetchRaises(p) \/ ReturnLive(p) \/ FallBack(p) \/ Unavailable(p) \/ FreezeFails(p)
             \/ SourceKilled(p) \/ OpenReport(p) \/ WriteReport(p)
    <3>1. \E to \in {"idle", "reporting"} : \E from, s :
            Goes(p, from, to, s) /\ UNCHANGED <<closed, older>>
      BY <2>4 DEF FetchRaises, ReturnLive, FallBack, Unavailable, FreezeFails, SourceKilled,
         OpenReport, WriteReport, files
    <3> QED
      BY <3>1, GoesLate
  <2>5. CASE OpenClosed(p)
    <3>1. closed' = Torn /\ UNCHANGED session
      BY <2>5 DEF OpenClosed, Goes, marketVars
    <3> QED
      BY <3>1 DEF LateComers, IsFrozen
  <2>6. CASE WriteClosed(p)
    <3>1. /\ closed' \in {[snap |-> got[p], date |-> basis[p]], Torn}
          /\ older' = UnderWay \ {p}
          /\ doing' = [doing EXCEPT ![p] = "idle"] /\ UNCHANGED <<session, basis>>
      BY <2>6 DEF WriteClosed, Written, Goes, marketVars
    <3>2. closed' \notin {None, Torn} => closed'.date <= session'
      BY <1>t, <3>1 DEF NoFuture
    <3>3. \A q \in Procs : doing'[q] \notin {"idle", "reporting"} => q \in older'
      BY <1>t, <3>1 DEF SourceTypeOK, UnderWay
    <3> QED
      BY <3>2, <3>3 DEF LateComers, Writing
  <2> QED
    BY <1>4, <2>1, <2>2, <2>3, <2>4, <2>5, <2>6 DEF Step, BuildLive
<1>5. CASE UNCHANGED sourceVars
  BY <1>5 DEF sourceVars, marketVars, files, LateComers, IsFrozen
<1> QED
  BY <1>1, <1>2, <1>3, <1>4, <1>5 DEF SourceNext

\* Only a request that freezes changes what is frozen.
LEMMA OnlyFreezers ==
  ASSUME SourceTypeOK, [SourceNext]_sourceVars, closed' # closed
  PROVE  \E p \in Procs : doing[p] \in {"freeze", "freezing"} /\ doing'[p] # doing[p]
<1>1. ASSUME NEW p \in Procs, OpenClosed(p) \/ WriteClosed(p)
      PROVE  doing[p] \in {"freeze", "freezing"} /\ doing'[p] # doing[p]
  <2>1. \/ doing[p] = "freeze" /\ doing' = [doing EXCEPT ![p] = "freezing"]
        \/ doing[p] = "freezing" /\ doing' = [doing EXCEPT ![p] = "idle"]
    BY <1>1 DEF OpenClosed, WriteClosed, Goes
  <2> QED
    BY <2>1 DEF SourceTypeOK
<1>2. ASSUME NEW p \in Procs, Step(p) PROVE OpenClosed(p) \/ WriteClosed(p)
  BY <1>2 DEF Step, Begin, UseFrozen, NotFrozen, BuildLive, Fetch, FetchNone, FetchRaises, OpenCache,
     WriteCache, SaveFails, ReturnLive, Capture, FallBack, Unavailable, FreezeFails, OpenReport,
     WriteReport, SourceKilled, files
<1>3. \E p \in Procs : Step(p)
  BY DEF SourceNext, Opens, Closes, Trade, sourceVars, files
<1> QED
  BY <1>1, <1>2, <1>3

\* For any number of processes, and whatever TSETMC answers: until the market opens, what
\* is frozen for the last session is replaced only by requests that were under way when it
\* was written, even if processes are killed at any moment, files are torn and the board
\* still moves after the close (build_tsetmc_snapshot).
THEOREM FrozenSnapshotStays == SourceSpec => FrozenStays
<1>1. SourceInit => LateComers
  BY DEF SourceInit, LateComers, IsFrozen
<1>2. SourceInv /\ LateComers /\ [SourceNext]_sourceVars => LateComers'
  BY NextLate
<1>3. SourceInv /\ LateComers /\ [SourceNext]_sourceVars =>
        [~open /\ IsFrozen(session) /\ closed' # closed =>
           \E p \in older : doing[p] \in {"freeze", "freezing"} /\ doing'[p] # doing[p]]_sourceVars
  <2> SUFFICES ASSUME SourceInv, LateComers, [SourceNext]_sourceVars, IsFrozen(session),
                      closed' # closed
               PROVE  \E p \in older : doing[p] \in {"freeze", "freezing"} /\ doing'[p] # doing[p]
    OBVIOUS
  <2>1. PICK p \in Procs : doing[p] \in {"freeze", "freezing"} /\ doing'[p] # doing[p]
    BY OnlyFreezers DEF SourceInv
  <2>2. basis[p] # Live
    BY <2>1 DEF SourceInv, BasisOfClosed
  <2>3. p \in older
    BY <2>1, <2>2 DEF LateComers, Writing
  <2> QED
    BY <2>1, <2>3
<1> QED
  BY <1>1, <1>2, <1>3, SourceInvariance, PTL DEF SourceSpec, FrozenStays
===============================================================================
