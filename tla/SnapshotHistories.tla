--------------------------- MODULE SnapshotHistories ---------------------------
(***************************************************************************)
(* What is read out of the archived snapshots of the market: the change of *)
(* behaviour between two of them (behavior_engine.py), what came after a   *)
(* pattern (historical_pattern_forward_engine.py), the observed outcomes   *)
(* (tsetmc_outcome_engine.py), the candidates of rules                     *)
(* (signal_replay_engine.py), the patterns of a window                     *)
(* (historical_pattern_shadow.py) and the difference of two snapshots      *)
(* (historical_snapshot.py).  A snapshot holds a row of each instrument    *)
(* that is there; only the sign of a change matters, but for the features. *)
(* A definition named Slip... is a mistake that a change of the code could *)
(* make in the definition after it; each breaks a property stated below.   *)
(***************************************************************************)
EXTENDS EngineCases

CONSTANTS
  MarketHistories,   \* the archives of a run: sequences of snapshots, in the order of their files
  Instruments,       \* the instruments of those snapshots
  PatternWindow      \* historical_pattern_window

MarketAmount == Nat \cup {NA}
\* The day a contract began, in the calendar in which the market watch writes it.
ListedOn == [calendar : {"gregorian", "jalali", "none"}, day : Nat]
MarketRow == [there : BOOLEAN, last : MarketAmount, volume : MarketAmount, oi : MarketAmount, under : MarketAmount,
              begin : ListedOn, type : STRING, strike : Nat]

\* When the market watch was retrieved (missing in the archives before version 1.1) and the
\* snapshot made of it, and the hash that names the file.
MarketSnapshot ==
  [observed : MarketAmount, generated : Nat, sha : Nat, rows : [Instruments -> MarketRow]]

\* No archive is written without a hash, nor two of one.
ASSUME HistoryAssumption ==
  /\ IsFiniteSet(Instruments) /\ PatternWindow \in Nat
  /\ MarketHistories \subseteq Seq(MarketSnapshot)
  /\ \A h \in MarketHistories : \A i, j \in DOMAIN h : h[i].sha = h[j].sha => i = j

Present(snap) == {k \in Instruments : snap.rows[k].there}
InBoth(a, b) == Present(a) \cap Present(b)

\* behavior_engine.py, for the patterns too: by the time of retrieval, those without one
\* first, and those of one time as the files are found.
ByRetrieval(h) == SortedBy(h, LAMBDA snap : snap.observed)

\* tsetmc_outcome_engine.py and signal_replay_engine.py: by the time of retrieval, or else
\* that of the snapshot; those of one time by their hashes.
TimeOf(snap) == IF snap.observed # NA THEN snap.observed ELSE snap.generated
BySha(h) == SortedBy(SortedBy(h, LAMBDA snap : snap.sha), LAMBDA snap : TimeOf(snap))

\* _pct and its kin: the sign of a change, unknown from zero.
Moved(a, b) == IF a = NA \/ b = NA \/ a = 0 THEN NA ELSE Sign(b - a)

-------------------------------------------------------------------------------
Joint(p, v, names) ==
  IF p = NA \/ v = NA THEN {} ELSE {n[1] : n \in {x \in names : x[2] = p /\ x[3] = v}}

Flags(a, b) ==
  LET p == Moved(a.last, b.last)
  IN Joint(p, Moved(a.volume, b.volume), {<<"PRICE_UP_VOLUME_UP", 1, 1>>, <<"PRICE_DOWN_VOLUME_UP", -1, 1>>})
     \cup Joint(p, Moved(a.oi, b.oi), {<<"PRICE_UP_OI_UP", 1, 1>>, <<"PRICE_DOWN_OI_UP", -1, 1>>,
                                       <<"PRICE_UP_OI_DOWN", 1, -1>>, <<"PRICE_DOWN_OI_DOWN", -1, -1>>})
     \cup Joint(p, Moved(a.under, b.under),
            {<<"OPTION_UP_UNDERLYING_DOWN", 1, -1>>, <<"OPTION_DOWN_UNDERLYING_UP", -1, 1>>,
             <<"OPTION_UP_UNDERLYING_UP", 1, 1>>, <<"OPTION_DOWN_UNDERLYING_DOWN", -1, -1>>})

\* _observation_date, of ten moments each, and _contract_date: a Gregorian date is read as it
\* is, a Jalali one as a day of another century or of years to come, on which no archive is
\* (ContractDateIsRead in JalaliCalendar).
DayOf(snap) == IF snap.observed = NA THEN NA ELSE snap.observed \div 10
OtherDay == -1
BeginDate(row) ==
  CASE row.begin.calendar = "gregorian" -> row.begin.day
    [] row.begin.calendar = "jalali" -> OtherDay
    [] OTHER -> NA

\* The transition from the day that is read as the contract's first is left out; so is that of
\* a contract without a date from an archive without one.
ListingDay(a, b, k) == BeginDate(a.rows[k]) = DayOf(a)

PairEvents(a, b) ==
  {e \in {[instrument |-> k, flags |-> Flags(a.rows[k], b.rows[k])] :
            k \in {x \in InBoth(a, b) : ~ListingDay(a, b, x)}} : e.flags # {}}

\* build_behavior_report: the last two of the archives.
BehaviorReport(h) ==
  LET s == ByRetrieval(h) IN IF Len(s) < 2 THEN {} ELSE PairEvents(s[Len(s) - 1], s[Len(s)])

-------------------------------------------------------------------------------
Meaningful(a, b) == <<a.last, a.volume, a.oi, a.under>> # <<b.last, b.volume, b.oi, b.under>>

\* Every amount of a row is read from one market watch, and that is timed by the second
\* (retrieved_at): two files of one time hold the same of an instrument they both have.
ASSUME OneObservation ==
  \A h \in MarketHistories : \A i, j \in DOMAIN h : h[i].observed # NA /\ h[i].observed = h[j].observed =>
    \A k \in InBoth(h[i], h[j]) : ~Meaningful(h[i].rows[k], h[j].rows[k])

ChangedAfter(s, i, k) ==
  {j \in i + 1..Len(s) : k \in Present(s[j]) /\ Meaningful(s[i].rows[k], s[j].rows[k])}

SlipLatestChange(s, i, k) == Max(ChangedAfter(s, i, k))

\* The first later snapshot in which the instrument is there and differs.
NextMeaningful(s, i, k) == Min(ChangedAfter(s, i, k))

\* The patterns observed before the last transition, and the price that came after each.
Occurrences(s) ==
  UNION {{[flags |-> e.flags, instrument |-> e.instrument, seen |-> s[i].observed,
           forward |-> s[NextMeaningful(s, i, e.instrument)].observed,
           change |-> Moved(s[i].rows[e.instrument].last,
                            s[NextMeaningful(s, i, e.instrument)].rows[e.instrument].last)] :
            e \in {x \in PairEvents(s[i - 1], s[i]) : ChangedAfter(s, i, x.instrument) # {}}} :
         i \in 2..Len(s) - 1}

ForwardReport(h) == LET s == ByRetrieval(h) IN IF Len(s) < 3 THEN {} ELSE Occurrences(s)

\* tsetmc_outcome_engine.py: the changes of every instrument of two neighbours.
OutcomeTransitions(h) ==
  LET s == BySha(h)
  IN UNION {{[instrument |-> k, entry |-> TimeOf(s[i]), forward |-> TimeOf(s[i + 1]),
              option |-> Moved(s[i].rows[k].last, s[i + 1].rows[k].last),
              under |-> Moved(s[i].rows[k].under, s[i + 1].rows[k].under)] :
               k \in InBoth(s[i], s[i + 1])} : i \in 1..Len(s) - 1}

-------------------------------------------------------------------------------
\* signal_replay_engine.py: _features of the entry, in percent.
Ratio100(a, b) == IF a = NA \/ b = NA \/ b = 0 THEN NA ELSE (100 * a) \div b

IntrinsicOf(r) ==
  IF r.under = NA THEN NA
  ELSE IF r.type = "CALL" THEN Max({r.under - r.strike, 0}) ELSE Max({r.strike - r.under, 0})

Features(r) ==
  [time_value_ratio |-> IF r.last = NA \/ IntrinsicOf(r) = NA THEN NA
                        ELSE Ratio100(Max({r.last - IntrinsicOf(r), 0}), r.under),
   breakeven_distance |-> IF r.last = NA \/ r.under = NA THEN NA
                          ELSE Ratio100(Size((IF r.type = "CALL" THEN r.strike + r.last ELSE r.strike - r.last) - r.under), r.under),
   leverage |-> IF r.last = NA \/ r.last <= 0 THEN NA ELSE Ratio100(r.under, r.last),
   volume |-> r.volume]

Observations(h) ==
  LET s == BySha(h)
  IN UNION {{[instrument |-> k, entry |-> TimeOf(s[i]), forward |-> TimeOf(s[i + 1]), features |-> Features(s[i].rows[k]),
              option |-> Moved(s[i].rows[k].last, s[i + 1].rows[k].last),
              under |-> Moved(s[i].rows[k].under, s[i + 1].rows[k].under)] :
               k \in {x \in InBoth(s[i], s[i + 1]) : s[i].rows[x].type \in {"CALL", "PUT"}}} : i \in 1..Len(s) - 1}

\* _percentile, times 100: the values in their order, between two neighbours.
PercentileOf(bag, p) ==
  LET v == SortedBy(bag, LAMBDA x : x)
      at == (Len(v) - 1) * p
      lo == (at \div 100) + 1
      hi == Min({lo + 1, Len(v)})
  IN 100 * v[lo] + (v[hi] - v[lo]) * (at % 100)

FeatureNames == {"time_value_ratio", "breakeven_distance", "leverage", "volume"}

\* The observations of a history as a sequence, in the order of time and instrument.
FeatureValues(obs, f) ==
  KnownOf(Each(SetToSeq(obs), LAMBDA o : o.features[f]))

Threshold(obs, f, p) == PercentileOf(FeatureValues(obs, f), p)

\* _rule_rows: the observations with a return on one side of the threshold.
Returned(obs, f) == {o \in obs : o.option # NA /\ o.features[f] # NA}
RuleRows(obs, f, p, op) ==
  {o \in Returned(obs, f) :
     IF op = "LE" THEN 100 * o.features[f] <= Threshold(obs, f, p) ELSE 100 * o.features[f] >= Threshold(obs, f, p)}

-------------------------------------------------------------------------------
\* historical_pattern_shadow.py: the directions of a field over the window.
Direction(a, b) == IF a = NA \/ b = NA THEN NA ELSE Sign(b - a)

FieldIn(snap, k, f) == IF snap.rows[k].there THEN snap.rows[k][f] ELSE NA
WindowOf(h) == SubSeq(h, Max({1, Len(h) - PatternWindow}), Len(h))
Directions(w, k, f) == [i \in 1..Len(w) - 1 |-> Direction(FieldIn(w[i], k, f), FieldIn(w[i + 1], k, f))] \o <<>>

SequenceState(d) ==
  LET seen == KnownOf(d)
  IN FirstOf(<<<<"INSUFFICIENT_DATA", seen = <<>>>>,
               <<"STABLE", ToSet(seen) = {0}>>,
               <<"UP", Len(seen) = Len(d) /\ ToSet(seen) = {1}>>,
               <<"DOWN", Len(seen) = Len(d) /\ ToSet(seen) = {-1}>>,
               <<"MIXED_ENDING", seen # <<>> /\ seen[Len(seen)] # 0>>>>, "MIXED")

PairPattern(p, v) ==
  LET pairs == {<<p[i], v[i]>> : i \in {j \in DOMAIN p : p[j] # NA /\ v[j] # NA}}
  IN FirstOf(<<<<"INSUFFICIENT_DATA", pairs = {}>>,
               <<"CONCORDANT", pairs \subseteq {<<1, 1>>, <<-1, -1>>}>>,
               <<"DIVERGENT", pairs \subseteq {<<1, -1>>, <<-1, 1>>}>>,
               <<"MIXED_WITH_STABLE", \E x \in pairs : 0 \in {x[1], x[2]}>>>>, "MIXED")

\* The patterns of an instrument, once the window is full: of its fields and of price and volume.
PatternsOf(h, k) ==
  LET w == WindowOf(h)
      d(f) == Directions(w, k, f)
  IN IF Len(w) < PatternWindow + 1 THEN {}
     ELSE {<<f, SequenceState(d(f))>> : f \in {x \in {"last", "volume"} : SequenceState(d(x)) # "INSUFFICIENT_DATA"}}
          \cup (IF PairPattern(d("last"), d("volume")) = "INSUFFICIENT_DATA" THEN {}
                ELSE {<<"pair", PairPattern(d("last"), d("volume"))>>})

-------------------------------------------------------------------------------
\* historical_snapshot.py: diff_snapshots, with the direction of the price.
FieldDelta(a, b) ==
  IF a # NA /\ b # NA THEN (IF b > a THEN "UP" ELSE IF b < a THEN "DOWN" ELSE "UNCHANGED")
  ELSE IF a # b THEN "CHANGED" ELSE "UNCHANGED"

Difference(a, b) ==
  {<<k, IF k \notin Present(a) THEN "ADDED" ELSE IF k \notin Present(b) THEN "REMOVED"
        ELSE IF a.rows[k] = b.rows[k] THEN "UNCHANGED" ELSE FieldDelta(a.rows[k].last, b.rows[k].last)>> :
     k \in Present(a) \cup Present(b)}

HistoryCalled == NotCalled /\ \E h \in MarketHistories : Given("history", h)

HistorySpec == CasesInit /\ [][HistoryCalled]_case

OfHistory(P(_)) == case.engine = "history" => P(case.in)

-------------------------------------------------------------------------------
\* What came after a pattern, where its time is known, is later than it; and it stays what it
\* is when the market is observed further: the report of a shorter history is a part of the
\* longer one's.
NoLookAhead ==
  OfHistory(LAMBDA h :
    LET s == ByRetrieval(h)
    IN /\ \A o \in ForwardReport(h) : o.seen # NA => o.forward > o.seen
       /\ Len(s) > 3 => ForwardReport(SubSeq(s, 1, Len(s) - 1)) \subseteq ForwardReport(h))

\* Each archive has a time of its own.
Timed(h) ==
  /\ \A i \in DOMAIN h : h[i].observed # NA
  /\ \A i, j \in DOMAIN h : h[i].observed = h[j].observed => i = j

\* The engines that read the archives in two ways see one history, whatever the order of the
\* files, when each archive has a time of its own: a change that is flagged is an outcome of
\* the same two snapshots.  Every observation of the replay is an outcome in any case.
OneHistoryForAll ==
  OfHistory(LAMBDA h :
    /\ Timed(h) => \A e \in BehaviorReport(h) :
         \E t \in OutcomeTransitions(h) :
           /\ t.instrument = e.instrument /\ t.forward = Last(ByRetrieval(h)).observed /\ t.option # NA
           /\ "OPTION_UP_UNDERLYING_UP" \in e.flags => t.option = 1 /\ t.under = 1
           /\ "OPTION_DOWN_UNDERLYING_UP" \in e.flags => t.option = -1 /\ t.under = 1
    /\ \A o \in Observations(h) :
         [instrument |-> o.instrument, entry |-> o.entry, forward |-> o.forward, option |-> o.option, under |-> o.under]
           \in OutcomeTransitions(h))

\* No change from the day on which a contract was listed is behaviour, if that day is given as
\* a Gregorian date.  If it is a Jalali one, every change is: the exclusion that
\* test_jalali_begin_date_excludes_creation_day (tests/test_behavior_engine.py) asks for is
\* never made.
ListingIsNoBehaviour ==
  OfHistory(LAMBDA h :
    LET s == ByRetrieval(h)
    IN \A i \in 1..Len(s) - 1 : \A k \in InBoth(s[i], s[i + 1]) :
         LET begin == s[i].rows[k].begin
             flags == Flags(s[i].rows[k], s[i + 1].rows[k])
             flagged == [instrument |-> k, flags |-> flags] \in PairEvents(s[i], s[i + 1])
         IN /\ begin.calendar = "gregorian" /\ begin.day = DayOf(s[i]) => ~flagged
            /\ begin.calendar = "jalali" /\ flags # {} => flagged)

\* The candidates of a feature are nested: what is below its lower quartile is below its
\* median, and every observation with a return is on a side of each.
RulesAreNested ==
  OfHistory(LAMBDA h :
    LET obs == Observations(h)
    IN \A f \in {x \in FeatureNames : FeatureValues(obs, x) # <<>>} :
         /\ RuleRows(obs, f, 25, "LE") \subseteq RuleRows(obs, f, 50, "LE")
         /\ RuleRows(obs, f, 75, "GE") \subseteq RuleRows(obs, f, 50, "GE")
         /\ RuleRows(obs, f, 50, "LE") \cup RuleRows(obs, f, 50, "GE") = Returned(obs, f))

\* A consistent sequence is of an instrument that is there throughout the window, and its
\* price rises in each of its steps.
SequenceIsWhole ==
  OfHistory(LAMBDA h :
    \A k \in Instruments : <<"last", "UP">> \in PatternsOf(h, k) =>
      LET w == WindowOf(h)
      IN \A i \in 1..Len(w) - 1 :
           /\ k \in Present(w[i]) /\ k \in Present(w[i + 1])
           /\ w[i].rows[k].last < w[i + 1].rows[k].last)

\* Two snapshots differ alike in both directions: what one way was added, the other way was
\* removed, and a price that rose one way fell the other.
DifferenceIsMutual ==
  LET turned(x) == CASE x = "ADDED" -> "REMOVED" [] x = "REMOVED" -> "ADDED"
                     [] x = "UP" -> "DOWN" [] x = "DOWN" -> "UP" [] OTHER -> x
  IN OfHistory(LAMBDA h :
       Len(h) >= 2 => Difference(h[2], h[1]) = {<<d[1], turned(d[2])>> : d \in Difference(h[1], h[2])})

\* The engines that look back read one history and nothing from after it.
HistoryIsOne ==
  /\ NoLookAhead /\ OneHistoryForAll /\ ListingIsNoBehaviour
  /\ RulesAreNested /\ SequenceIsWhole /\ DifferenceIsMutual
===============================================================================
