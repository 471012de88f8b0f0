--------------------------- MODULE BestLimitsEvidence ---------------------------
(***************************************************************************)
(* The evidence that unlocks production scoring                            *)
(* (live_bestlimits_evidence_runner.py, live_capture_harness.py,           *)
(* bestlimits_evidence_gate.py).  For every instrument of a small          *)
(* selection, in two rounds, the runner fetches the market watch, then the *)
(* best limits of the same instrument, and compares the first level of     *)
(* both; the market moves and requests are retried in between.  The gate   *)
(* judges the package.  Times are quarters of a second of the run.  The    *)
(* six field pairs of a first level are one value, equal or not.           *)
(* A definition named Slip... is a mistake that a change of the code could *)
(* make in the definition after it; each breaks a property stated below.   *)
(***************************************************************************)
EXTENDS Integers, FiniteSets, Sequences

CONSTANTS
  BookBoards,   \* snapshots: sequences of rows [option, underlying]
  LiveBooks,    \* the instruments a live market watch may list
  OptionCount,  \* --option-count, at least 3 in the code
  Pauses,       \* --pause-seconds, in quarters
  MaxHitches    \* bound: moves of the market and retries

\* An instrument that the snapshot does not name; the pause between the rounds.
NoInstrument == "none"
Pause == "pause"

ASSUME LookAssumption ==
  /\ OptionCount \in Nat /\ MaxHitches \in Nat /\ Pauses \subseteq Nat
  /\ \A b \in BookBoards : \A k \in DOMAIN b : Pause \notin {b[k].option, b[k].underlying}
  /\ \A b \in BookBoards : Len(b) \in Nat /\ DOMAIN b = 1..Len(b)

VARIABLES
  quotes,   \* the first level of each instrument in the market
  looking,  \* the run: where it is, the pair it works on, what it has gathered
  package,  \* the file the runner leaves
  hitches   \* the moves and retries so far

lookVars == <<quotes, looking, package, hitches>>

OptionsOf(selected) == {selected[k].option : k \in DOMAIN selected}
UnderlyingsOf(selected) == {selected[k].underlying : k \in DOMAIN selected}

Instruments == UNION {OptionsOf(b) \cup UnderlyingsOf(b) : b \in BookBoards}

NoLook == [stage |-> "idle", clock |-> 0, tries |-> 0, selected |-> <<>>, todo |-> <<>>,
           watched |-> -1, level |-> 0, captures |-> <<>>, observed |-> <<>>]
NoPackage == [status |-> "none", captures |-> <<>>, observed |-> <<>>, selected |-> <<>>]

LookInit == quotes = [i \in Instruments |-> 0] /\ looking = NoLook /\ package = NoPackage /\ hitches = 0

-------------------------------------------------------------------------------
\* The elements of a sequence at these places, in their order.
Filtered(s, places) ==
  [n \in 1..Cardinality(places) |-> s[CHOOSE p \in places : Cardinality({q \in places : q <= p}) = n]]

\* The identities of the snapshot that the live market watch lists, each option once: the
\* first ones.
Picked(rows, live) ==
  LET Named(k) == rows[k].option # NoInstrument /\ rows[k].underlying # NoInstrument /\ rows[k].option \in live
      new == {k \in DOMAIN rows : Named(k) /\ \A j \in 1..k - 1 : Named(j) => rows[j].option # rows[k].option}
  IN Filtered(rows, {k \in new : Cardinality({j \in new : j <= k}) <= OptionCount})

\* instrument_roles: the instruments in the order in which they are first named.
InOrder(selected) ==
  LET named == [n \in 1..2 * Len(selected) |->
                  IF n % 2 = 1 THEN selected[(n + 1) \div 2].option ELSE selected[n \div 2].underlying]
  IN Filtered(named, {n \in DOMAIN named : \A j \in 1..n - 1 : named[j] # named[n]})

Seen(captures) == {captures[k].id : k \in DOMAIN captures}
TimesOf(captures, i) == {captures[k].at : k \in {k \in DOMAIN captures : captures[k].id = i}}
Near(a, b) == a - b <= 8 /\ b - a <= 8

SlipRolesUnread(p) == p.captures # <<>> /\ \A i \in Seen(p.captures) : Cardinality(TimesOf(p.captures, i)) >= 2

\* validate_package: roles that do not overlap, captures at two times of each instrument, and
\* for every capture an observation of that instrument within two seconds.
Ready(p) ==
  /\ p.captures # <<>> /\ p.observed # <<>>
  /\ OptionsOf(p.selected) \cap UnderlyingsOf(p.selected) = {}
  /\ Cardinality(OptionsOf(p.selected)) >= 3 /\ UnderlyingsOf(p.selected) # {}
  /\ OptionsOf(p.selected) \cup UnderlyingsOf(p.selected) \subseteq Seen(p.captures)
  /\ \A i \in Seen(p.captures) : Cardinality(TimesOf(p.captures, i)) >= 2
  /\ \A k \in DOMAIN p.observed : \E t \in TimesOf(p.captures, p.observed[k].id) : Near(t, p.observed[k].at)
  /\ \A k \in DOMAIN p.captures :
       \E m \in DOMAIN p.observed : p.observed[m].id = p.captures[k].id /\ Near(p.observed[m].at, p.captures[k].at)

-------------------------------------------------------------------------------
\* main: whatever went wrong, a package is left that says so.
RunFails ==
  /\ looking' = NoLook
  /\ package' = [NoPackage EXCEPT !.status = "FAILED"]
  /\ UNCHANGED <<quotes, hitches>>

\* Only the level of the pair that is being compared is told apart.
MarketMoves(i) ==
  /\ hitches < MaxHitches /\ hitches' = hitches + 1
  /\ looking.stage = "limits" /\ Head(looking.todo) = i
  /\ quotes' = [quotes EXCEPT ![i] = 1 - @] /\ UNCHANGED <<looking, package>>

\* build_package: the snapshot, a live market watch, the selection; two rounds.  (Bound: no
\* run follows one whose package was judged.)
RunSelects ==
  /\ looking.stage = "idle" /\ package.status \in {"none", "FAILED"}
  /\ \E board \in BookBoards, live \in LiveBooks :
       LET selected == Picked(board, live)
           round == InOrder(selected)
       IN IF Len(selected) < OptionCount THEN RunFails
          ELSE /\ looking' = [NoLook EXCEPT !.stage = "watch", !.selected = selected,
                              !.todo = round \o <<Pause>> \o round]
               /\ UNCHANGED <<quotes, package, hitches>>

Pausing == looking.stage = "watch" /\ looking.todo # <<>> /\ Head(looking.todo) = Pause

RunPauses ==
  /\ Pausing
  /\ \E pause \in Pauses : looking' = [looking EXCEPT !.clock = @ + pause, !.todo = Tail(@)]
  /\ UNCHANGED <<quotes, package, hitches>>

\* A request is answered, at once or so late that the pair is stale.
Durations == {1, 21}

\* fetch_market_watch_rows and capture: 502, 503 and 504 are asked again, twice at most.
RequestRetried ==
  /\ looking.stage \in {"watch", "limits"} /\ ~Pausing /\ looking.tries < 2
  /\ hitches < MaxHitches /\ hitches' = hitches + 1
  /\ looking' = [looking EXCEPT !.tries = @ + 1, !.clock = @ + 3 * (looking.tries + 1)]
  /\ UNCHANGED <<quotes, package>>

\* Another status, a payload without its list, an instrument that is not in it.
RequestFails == looking.stage \in {"watch", "limits"} /\ ~Pausing /\ RunFails

\* capture_pairwise_evidence: the level of the market watch of now, and when it was retrieved.
WatchFetched ==
  /\ looking.stage = "watch" /\ looking.todo # <<>> /\ ~Pausing
  /\ looking' = [looking EXCEPT !.stage = "limits", !.clock = @ + 1, !.tries = 0,
                 !.watched = looking.clock + 1, !.level = quotes[Head(looking.todo)]]
  /\ UNCHANGED <<quotes, package, hitches>>

\* MAX_SEMANTIC_DELTA_SECONDS, between the two retrievals.
InTime(watched, captured) == captured - watched <= 20

\* verify_semantic_correspondence
Agrees(level, i) == level = quotes[i]

LimitsFetched ==
  /\ looking.stage = "limits"
  /\ \E d \in Durations :
       LET i == Head(looking.todo)
           at == looking.clock + d
       IN IF ~Agrees(looking.level, i) \/ ~InTime(looking.watched, at) THEN RunFails
          ELSE /\ looking' = [looking EXCEPT !.stage = "watch", !.clock = at, !.tries = 0, !.todo = Tail(@),
                              !.captures = Append(@, [id |-> i, at |-> at, level |-> quotes[i]]),
                              !.observed = Append(@, [id |-> i, at |-> at, watched |-> looking.watched,
                                                      level |-> looking.level])]
               /\ UNCHANGED <<quotes, package, hitches>>

\* The gate's verdict becomes the status of the package and unblocks scoring.
RunEnds ==
  /\ looking.stage = "watch" /\ looking.todo = <<>>
  /\ LET gathered == [status |-> "INCOMPLETE", captures |-> looking.captures, observed |-> looking.observed,
                      selected |-> looking.selected]
     IN package' = [gathered EXCEPT !.status = IF Ready(gathered) THEN "READY" ELSE "INCOMPLETE"]
  /\ looking' = NoLook /\ UNCHANGED <<quotes, hitches>>

LookNext ==
  \/ RunSelects \/ RunPauses \/ RequestRetried \/ RequestFails \/ WatchFetched \/ LimitsFetched \/ RunEnds
  \/ \E i \in Instruments : MarketMoves(i)

LookSpec == LookInit /\ [][LookNext]_lookVars

-------------------------------------------------------------------------------
\* Scoring is unblocked by levels that were the same in both sources and were both retrieved
\* within five seconds, however the market moved and requests were retried in between.
UnlockedBySameTime ==
  package.status = "READY" =>
    \A k \in DOMAIN package.captures :
      \E m \in DOMAIN package.observed :
        LET taken == package.captures[k]
            o == package.observed[m]
        IN o.id = taken.id /\ o.at = taken.at /\ o.level = taken.level /\ o.at - o.watched \in 0..20

\* ... and by two looks at each of three options and at their underlyings, none of which
\* stands for both.
UnlockedByTwoLooks ==
  package.status = "READY" =>
    LET options == OptionsOf(package.selected)
        shares == UnderlyingsOf(package.selected)
    IN /\ Cardinality(options) >= 3 /\ options \cap shares = {}
       /\ \A i \in options \cup shares :
            Cardinality({k \in DOMAIN package.observed : package.observed[k].id = i}) = 2

\* What unblocks scoring was looked at twice, each time in both sources at once.
UnlockedByEvidence == UnlockedBySameTime /\ UnlockedByTwoLooks
===============================================================================
