------------------------------ MODULE CaseMemory ------------------------------
(***************************************************************************)
(* What the opportunity shadow remembers from one snapshot to the next     *)
(* (run_shadow with its paths): case_memory_shadow.py rewrites a file with *)
(* the last state of every case, then case_lifecycle_shadow.py appends an  *)
(* event of every case to another; historical_snapshot.py appends the      *)
(* snapshots themselves to a third.  A run can be repeated for the same    *)
(* snapshot and can be killed between and within the writes.               *)
(* A definition named Slip... is a mistake that a change of the code could *)
(* make in the definition after it; each breaks a property stated below.   *)
(***************************************************************************)
EXTENDS Naturals, Sequences, FiniteSets, FiniteSetsExt

CONSTANTS
  CaseKeys,     \* type::symbol of the cases, in their order
  CaseLists,    \* what a snapshot's cases can be: sequences of a key, a name and a status
  MaxShadows,   \* bound: runs of the shadow
  MaxShots,     \* bound: snapshots that are stored
  MaxShadowKills   \* bound: runs that are killed

ASSUME MemoryAssumption ==
  /\ MaxShadows \in Nat /\ MaxShots \in Nat /\ MaxShadowKills \in Nat
  /\ \A l \in CaseLists : Len(l) \in Nat /\ DOMAIN l = 1..Len(l) /\ \A i \in DOMAIN l :
       l[i].key \in CaseKeys /\ l[i].status \in {"REJECTED", "INSUFFICIENT_DATA", "WATCH", "CONFIRMED"}

VARIABLES
  memory,     \* the memory file: the last state of each case
  remembers,  \* the memory file is whole
  lifecycle,  \* the events file
  readable,   \* the events file has no line that was cut off
  shadow,     \* the run: where it is, its snapshot, its cases, how many there were
  store,      \* the snapshots file: the identity and the hash of each
  answer,     \* the last answer of append_snapshot
  cuts        \* runs that were killed

memoryVars == <<memory, remembers, lifecycle, readable, shadow, store, answer, cuts>>
shadowFiles == <<memory, remembers, lifecycle, readable>>
storeVars == <<store, answer>>

Strength(status) ==
  CASE status = "CONFIRMED" -> 3 [] status = "WATCH" -> 2 [] status = "REJECTED" -> 0 [] OTHER -> 1

Unseen == [state |-> "UNSEEN", strength |-> 0, snap |-> 0]
NoAnswer == [status |-> "NONE", id |-> 0, previous |-> 0]

MemoryInit ==
  /\ memory = [k \in CaseKeys |-> Unseen] /\ remembers = TRUE
  /\ lifecycle = <<>> /\ readable = TRUE
  /\ shadow = [at |-> "idle", snap |-> 0, cases |-> <<>>, runs |-> 0]
  /\ store = <<>> /\ answer = NoAnswer /\ cuts = 0

KeysOf(cases) == {cases[i].key : i \in DOMAIN cases}

-------------------------------------------------------------------------------
ShadowAt(from, to) == shadow.at = from /\ shadow' = [shadow EXCEPT !.at = to]

\* run_shadow for the next snapshot, or once more for the last.
ShadowBegins ==
  /\ shadow.at = "idle" /\ shadow.runs < MaxShadows
  /\ \/ \E l \in CaseLists :
          shadow' = [at |-> "memory", snap |-> shadow.snap + 1, cases |-> l, runs |-> shadow.runs + 1]
     \/ /\ shadow.snap > 0
        /\ shadow' = [shadow EXCEPT !.at = "memory", !.runs = @ + 1]
  /\ UNCHANGED <<shadowFiles, storeVars, cuts>>

\* The state of a case in the memory: its strength is compared first.
MemoryState(old, strength, snap) ==
  IF old.state = "UNSEEN" THEN "NEW"
  ELSE IF strength > old.strength THEN "STRENGTHENING"
  ELSE IF strength < old.strength THEN "WEAKENING"
  ELSE IF old.state = "RESOLVED" /\ old.snap # snap THEN "RECURRING" ELSE "PERSISTENT"

\* The last of several cases with one key stands.
Remembered(k) ==
  LET last == Max({i \in DOMAIN shadow.cases : shadow.cases[i].key = k})
      now == Strength(shadow.cases[last].status)
  IN [state |-> MemoryState(memory[k], now, shadow.snap), strength |-> now, snap |-> shadow.snap]

NextMemory(k) ==
  IF k \in KeysOf(shadow.cases) THEN Remembered(k)
  ELSE IF memory[k] = Unseen THEN Unseen ELSE [memory[k] EXCEPT !.state = "RESOLVED"]

UpdateMemory ==
  /\ remembers /\ ShadowAt("memory", "lifecycle")
  /\ memory' = [k \in CaseKeys |-> NextMemory(k)]
  /\ UNCHANGED <<remembers, lifecycle, readable, storeVars, cuts>>

\* load_memory, load_events: a file that is cut off makes this run and every later one raise.
ShadowRaises ==
  /\ \/ shadow.at = "memory" /\ ~remembers
     \/ shadow.at = "lifecycle" /\ ~readable
  /\ shadow' = [shadow EXCEPT !.at = "idle"]
  /\ UNCHANGED <<shadowFiles, storeVars, cuts>>

-------------------------------------------------------------------------------
EventsOfKey(k) == {i \in DOMAIN lifecycle : lifecycle[i].key = k}
Latest(k) == lifecycle[Max(EventsOfKey(k))]
Told(k) == EventsOfKey(k) # {}

Event(k, name, state, strength, first, count) ==
  [key |-> k, name |-> name, state |-> state, strength |-> strength, first |-> first, count |-> count, run |-> shadow.runs]

SlipStrengthFirst(old, strength) ==
  IF strength > old.strength THEN "STRENGTHENING" ELSE IF strength < old.strength THEN "WEAKENING"
  ELSE IF old.state = "RESOLVED" THEN "RECURRING" ELSE "PERSISTENT"

\* The state of a case in its lifecycle: a return is looked at first.
LifecycleState(old, strength) ==
  IF old.state = "RESOLVED" THEN "RECURRING"
  ELSE IF strength > old.strength THEN "STRENGTHENING"
  ELSE IF strength < old.strength THEN "WEAKENING" ELSE "PERSISTENT"

EventOf(c) ==
  LET now == Strength(c.status)
  IN IF ~Told(c.key) THEN Event(c.key, c.name, "NEW", now, shadow.snap, 1)
     ELSE Event(c.key, c.name, LifecycleState(Latest(c.key), now), now, Latest(c.key).first, Latest(c.key).count + 1)

Resolved(k) == Event(k, Latest(k).name, "RESOLVED", 0, Latest(k).first, Latest(k).count)

Gone == {k \in CaseKeys \ KeysOf(shadow.cases) : Told(k) /\ Latest(k).state # "RESOLVED"}

\* The events of a run are sorted by key, then by the name of their state and the case's name.
StateNames == <<"NEW", "PERSISTENT", "RECURRING", "RESOLVED", "STRENGTHENING", "WEAKENING">>
StateRank(e) == CHOOSE i \in DOMAIN StateNames : StateNames[i] = e.state
Before3(a, b) ==
  \/ a.key < b.key
  \/ a.key = b.key /\ StateRank(a) < StateRank(b)
  \/ a.key = b.key /\ StateRank(a) = StateRank(b) /\ a.name < b.name

\* Each of its cases has an event, and each case that is gone.
ToTell == {<<"case", i>> : i \in DOMAIN shadow.cases} \cup {<<"gone", k>> : k \in Gone}
EventFrom(x) == IF x[1] = "case" THEN EventOf(shadow.cases[x[2]]) ELSE Resolved(x[2])

\* A sort keeps what is equal in its order.
Ahead(x, y) ==
  \/ Before3(EventFrom(x), EventFrom(y))
  \/ ~Before3(EventFrom(y), EventFrom(x)) /\ x[2] < y[2]

Sorted ==
  {order \in [1..Cardinality(ToTell) -> ToTell] :
     /\ \A x \in ToTell : \E n \in DOMAIN order : order[n] = x
     /\ \A m, n \in DOMAIN order : m < n => Ahead(order[m], order[n])}

NewEvents == {[n \in DOMAIN order |-> EventFrom(order[n])] : order \in Sorted}

AppendEvents ==
  /\ readable /\ ShadowAt("lifecycle", "idle")
  /\ \E events \in NewEvents : lifecycle' = lifecycle \o events
  /\ UNCHANGED <<memory, remembers, readable, storeVars, cuts>>

\* A rewritten file keeps what it held or is cut off; of the events that are appended some
\* are written, and the last of them perhaps in part.
ShadowKilled ==
  /\ cuts < MaxShadowKills /\ cuts' = cuts + 1
  /\ shadow.at # "idle" /\ shadow' = [shadow EXCEPT !.at = "idle"]
  /\ \/ UNCHANGED shadowFiles
     \/ shadow.at = "memory" /\ remembers' = FALSE /\ UNCHANGED <<memory, lifecycle, readable>>
     \/ /\ shadow.at = "lifecycle" /\ readable
        /\ \E events \in NewEvents : \E n \in 0..Len(events) : lifecycle' = lifecycle \o SubSeq(events, 1, n)
        /\ readable' \in BOOLEAN /\ UNCHANGED <<memory, remembers>>
  /\ UNCHANGED storeVars

-------------------------------------------------------------------------------
StoredAt(id) == {i \in DOMAIN store : store[i].id = id}

\* The snapshot before one that is there already: the last but one of the file.
PreviousOfDuplicate(id) == IF Len(store) > 1 THEN store[Len(store) - 1].id ELSE 0

IsStored(id, hash) == StoredAt(id) # {}

\* append_snapshot: a snapshot is stored once; one with a stored identity and other rows raises.
Store(id, hash) ==
  IF IsStored(id, hash)
  THEN /\ \A i \in StoredAt(id) : store[i].hash = hash
       /\ answer' = [status |-> "DUPLICATE", id |-> id, previous |-> PreviousOfDuplicate(id)]
       /\ UNCHANGED store
  ELSE /\ Len(store) < MaxShots
       /\ answer' = [status |-> "APPENDED", id |-> id, previous |-> IF store = <<>> THEN 0 ELSE store[Len(store)].id]
       /\ store' = Append(store, [id |-> id, hash |-> hash])

StoreSnapshot ==
  /\ \E id \in 1..MaxShots, hash \in {"h1", "h2"} : Store(id, hash)
  /\ UNCHANGED <<shadowFiles, shadow, cuts>>

MemoryNext ==
  \/ ShadowBegins \/ UpdateMemory \/ AppendEvents \/ ShadowRaises \/ ShadowKilled
  \/ StoreSnapshot

MemorySpec == MemoryInit /\ [][MemoryNext]_memoryVars

-------------------------------------------------------------------------------
\* The memory and the lifecycle agree on which cases are gone, as long as no run is killed
\* between the two and whatever is repeated.
GoneInBoth ==
  shadow.at = "idle" /\ cuts = 0 =>
    \A k \in CaseKeys :
      /\ (memory[k] = Unseen) = ~Told(k)
      /\ Told(k) => (memory[k].state = "RESOLVED") = (Latest(k).state = "RESOLVED")

\* An event of a case and the next one of it.
FollowsOn(i, j) ==
  /\ i < j /\ lifecycle[i].key = lifecycle[j].key
  /\ \A m \in i + 1..j - 1 : lifecycle[m].key # lifecycle[j].key

\* A case is recurring in its lifecycle exactly when the event before, of another run, was
\* its disappearance; and it disappears once.  A run that was killed changes nothing of it.
ReturnIsRecurring ==
  \A i, j \in DOMAIN lifecycle :
    FollowsOn(i, j) /\ lifecycle[i].run # lifecycle[j].run =>
      /\ (lifecycle[i].state = "RESOLVED") = (lifecycle[j].state = "RECURRING")
      /\ lifecycle[j].state # "NEW"

\* When a case was first seen never changes and how often it was seen never falls, through
\* disappearances, repeated runs and runs that are killed.
SeenStands ==
  \A i, j \in DOMAIN lifecycle :
    i < j /\ lifecycle[i].key = lifecycle[j].key =>
      lifecycle[i].first = lifecycle[j].first /\ lifecycle[i].count <= lifecycle[j].count

\* A snapshot is stored once, with one hash.
StoredOnce == \A i, j \in DOMAIN store : store[i].id = store[j].id => i = j

\* The newest snapshot, stored again, has the previous one it had the first time.  An older
\* one has not: it is answered with the last but one of the file, which may be itself.
AgainIsTheSame ==
  answer.status # "NONE" /\ store # <<>> /\ answer.id = store[Len(store)].id =>
    answer.previous = IF Len(store) > 1 THEN store[Len(store) - 1].id ELSE 0
===============================================================================
