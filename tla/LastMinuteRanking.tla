--------------------------- MODULE LastMinuteRanking ---------------------------
(***************************************************************************)
(* The last-minute ranking (last_minute_profit_engine.py): the evidence of *)
(* an underlying becomes three core components, which a PUT takes          *)
(* inverted; an option joins on its own liquidity and sensitivity; two of  *)
(* the three must support it; at most three contracts of one underlying    *)
(* are shown.  Percentages and points are whole, ratios are in hundredths, *)
(* averages are rounded down, and the total is a hundred times the score.  *)
(* A definition named Slip... is a mistake that a change of the code could *)
(* make in the definition after it; each breaks a property stated below.   *)
(***************************************************************************)
EXTENDS EngineCases

CONSTANTS
  LastMinuteNames,    \* the underlying shares
  LastMinuteBoards,   \* sequences of option rows
  LastMinuteShares,   \* the evidence an underlying may have
  LastMinuteTops      \* top_count

\* The share has no context, or one that is UNAVAILABLE.
NoContext == [status |-> "NONE"]
Unavailable == [status |-> "UNAVAILABLE"]

ShareEvidence ==
  [status : {"PASS"}, r5 : Int, r20 : Int, averages : [1..5 -> Int], rsi : Int, macd : Int, imbalance : Int,
   bid_ask : Int, power : Int, legal : Int, volumes : [1..3 -> Int], touched : BOOLEAN, headroom : Int]
OptionRow ==
  [type : {"CALL", "PUT", ""}, spot : Int, strike : Int, price : Int, close : Int, days : Int, volume : Int,
   count : Int, value : Int, bid : Int, ask : Int, delta : Int, share : LastMinuteNames]

ASSUME LastMinuteAssumption ==
  /\ IsFiniteSet(LastMinuteNames)
  /\ LastMinuteBoards \subseteq Seq(OptionRow)
  /\ LastMinuteShares \subseteq {NoContext, Unavailable} \cup ShareEvidence
  /\ LastMinuteTops \subseteq Int

Average(s) == IF s = <<>> THEN 0 ELSE Total(s) \div Len(s)
Points(x) == Clip(x, 0, 100)

\* What a known value gives; nothing for one that is missing.
If(x, points) == IF Known(x) THEN <<points>> ELSE <<>>
Either(x, above, below) == If(x, IF x > 0 THEN above ELSE below)

\* averages: the side of the price to the means of 5, 10, 20 and 50 sessions, and of 20 to 50.
Momentum(c) ==
  If(c.r5, Points(50 + 8 * c.r5)) \o If(c.r20, Points(50 + 3 * c.r20))
  \o Either(c.averages[1], 70, 30) \o Either(c.averages[2], 70, 30) \o Either(c.averages[3], 75, 25)
  \o Either(c.averages[4], 80, 20) \o Either(c.averages[5], 80, 20)
  \o If(c.rsi, IF c.rsi \in 55..72 THEN 80 ELSE IF c.rsi > 80 THEN 35 ELSE IF c.rsi >= 50 THEN 65 ELSE 25)
  \o Either(c.macd, 75, 25)

Board(c) ==
  If(c.imbalance, Points(50 + (c.imbalance \div 2)))
  \o If(c.bid_ask, Points(50 + (((c.bid_ask - 100) * 35) \div 100)))
  \o If(c.power, Points(50 + (((c.power - 100) * 30) \div 100)))
  \o If(c.legal, Points(50 + (((c.legal - 100) * 20) \div 100)))
  \o (IF c.touched THEN <<90>> ELSE IF c.headroom \in 0..2 THEN <<85>>
      ELSE IF Known(c.headroom) /\ c.headroom <= 5 THEN <<70>> ELSE <<>>)

Volume(c) ==
  LET Part(x) == If(x, Points(50 + (((x - 100) * 45) \div 100)))
  IN Part(c.volumes[1]) \o Part(c.volumes[2]) \o Part(c.volumes[3])

Headroom(c) ==
  IF c.touched THEN 95
  ELSE FirstOf(<< <<0, ~Known(c.headroom) \/ c.headroom < 0>>, <<95, c.headroom <= 1>>, <<90, c.headroom <= 2>>,
                  <<75, c.headroom <= 5>>, <<55, c.headroom <= 10>>, <<35, c.headroom <= 20>> >>, 20)

\* The core components of a CALL: momentum, board, volume.
Core(c) == << Average(Momentum(c)), Average(Board(c)), Average(Volume(c)) >>

\* A PUT takes each component inverted, whether there was evidence for it or not.
Directed(type, c) == IF type = "PUT" THEN << 100 - Core(c)[1], 100 - Core(c)[2], 100 - Core(c)[3] >> ELSE Core(c)

Apart(row) == (100 * (IF row.spot > row.strike THEN row.spot - row.strike ELSE row.strike - row.spot)) \div row.strike

\* _option_liquidity_score; no trade of any kind, and the row is no candidate.
Active3(row) == \E x \in {row.volume, row.count, row.value} : x \notin {NA, 0}

Liquidity(row) ==
  LET Some(x, points) == IF Known(x) /\ x > 0 THEN points ELSE 0
      gap == (100 * (IF row.price > row.close THEN row.price - row.close ELSE row.close - row.price)) \div row.close
      spread == (200 * (row.ask - row.bid)) \div (row.ask + row.bid)
      quoted == Known(row.bid) /\ Known(row.ask) /\ row.bid > 0 /\ row.ask >= row.bid
  IN Points(40 + Some(row.volume, 20) + Some(row.count, 10) + Some(row.value, 10)
            + (IF ~Known(row.close) \/ row.close <= 0 THEN 0 ELSE IF gap <= 2 THEN 5 ELSE IF gap <= 5 THEN 2 ELSE 0)
            + (IF ~quoted THEN 0 ELSE IF spread <= 2 THEN 15 ELSE IF spread <= 5 THEN 8 ELSE IF spread <= 10 THEN 3 ELSE 0))

\* Leverage counts up to fifteen; without its delta an option counts half.
Sensitivity(row) ==
  LET leverage == Points(35 + 4 * Min({row.spot \div row.price, 15}))
      delta == IF Known(row.delta) THEN Points(50 + (row.delta \div 2)) ELSE 50
  IN (leverage + delta) \div 2

MoneyTime(row) ==
  LET near == IF Apart(row) <= 5 THEN 90 ELSE IF Apart(row) <= 10 THEN 80 ELSE IF Apart(row) <= 20 THEN 65 ELSE 45
      time == IF row.days < 5 THEN 35 ELSE IF row.days <= 30 THEN 80 ELSE IF row.days <= 90 THEN 65 ELSE 45
  IN (near + time) \div 2

\* A row of which _candidate makes an item.
Usable(row, c) ==
  /\ row.type \in {"CALL", "PUT"}
  /\ \A x \in {row.spot, row.strike, row.price, row.days} : Known(x)
  /\ row.spot > 0 /\ row.strike > 0 /\ row.price > 0
  /\ Apart(row) <= 30 /\ Active3(row) /\ c.status # "UNAVAILABLE"

TotalScore(row, c) ==
  LET core == Directed(row.type, c)
  IN 25 * core[1] + 20 * core[2] + 15 * core[3] + 10 * Headroom(c) + 15 * Liquidity(row)
     + 10 * Sensitivity(row) + 5 * MoneyTime(row)

\* Two of the three core components support the direction.
Supported(row, c) == Cardinality({k \in 1..3 : Directed(row.type, c)[k] >= 60}) >= 2

Candidate(row, shares) ==
  /\ shares[row.share] # NoContext
  /\ Usable(row, shares[row.share]) /\ Supported(row, shares[row.share])

\* The strike of an excluded row divides its price again, to name the reason: zero raises.
Raises(rows, shares) ==
  \E i \in DOMAIN rows : /\ shares[rows[i].share] # NoContext /\ rows[i].strike = 0
                         /\ rows[i].type \in {"CALL", "PUT"} /\ Known(rows[i].spot) /\ Known(rows[i].price)

\* A candidate: where it is on the board, and its keys: score, liquidity, nearness, id.
Item(row, place, shares) ==
  [place |-> place, share |-> row.share, type |-> row.type,
   keys |-> <<TotalScore(row, shares[row.share]), Liquidity(row), -Apart(row), place>>]

Items(rows, shares) == {Item(rows[i], i, shares) : i \in {i \in DOMAIN rows : Candidate(rows[i], shares)}}

Ahead(a, b) == \E n \in 1..4 : a.keys[n] > b.keys[n] /\ \A m \in 1..(n - 1) : a.keys[m] = b.keys[m]

SortedItems(items) ==
  [n \in 1..Cardinality(items) |-> CHOOSE a \in items : Cardinality({b \in items : Ahead(b, a)}) = n - 1]

Requested(top) == IF top > 1 THEN top ELSE 1
OfShare(got, share) == Cardinality({k \in DOMAIN got : got[k].share = share})

\* One candidate more: no more than three of one underlying, until the display is full.
Picked(got, a, top) == IF Len(got) < top /\ OfShare(got, a.share) < 3 THEN Append(got, a) ELSE got

\* What the display has, after the best so many.
PickedOf(items, top, last) ==
  LET t[n \in 0..last] == IF n = 0 THEN <<>> ELSE Picked(t[n - 1], SortedItems(items)[n], top) IN t[last]

SlipCutThenCap(items, top) == PickedOf(items, Requested(top), Min({Requested(top), Cardinality(items)}))

LastMinuteRanked(items, top) == PickedOf(items, Requested(top), Cardinality(items))

(***************************************************************************)
(* The report of the listener opens with the ten strongest shares, whatever*)
(* the direction (_base_discovery_report); a tie in all three keys, which  *)
(* the symbol breaks, is left open.                                        *)
(***************************************************************************)
Strength(c) ==
  LET available == {k \in 1..3 : Core(c)[k] > 0}
      Value(k) == IF k \in available THEN Core(c)[k] ELSE 0
  IN IF available = {} THEN 0 ELSE (Value(1) + Value(2) + Value(3)) \div Cardinality(available)
Discovered(shares) ==
  {s \in DOMAIN shares : shares[s] \notin {NoContext, Unavailable} /\ Strength(shares[s]) > 0}
Stronger(c, d) ==
  LET keys(x) == << Strength(x), Core(x)[1], Core(x)[3] >>
  IN \E n \in 1..3 : keys(c)[n] > keys(d)[n] /\ \A m \in 1..(n - 1) : keys(c)[m] = keys(d)[m]
BaseWatch(shares) ==
  {s \in Discovered(shares) : Cardinality({t \in Discovered(shares) : Stronger(shares[t], shares[s])}) < 10}

LastMinuteCalled ==
  /\ NotCalled
  /\ \E rows \in LastMinuteBoards, shares \in [LastMinuteNames -> LastMinuteShares], top \in LastMinuteTops :
       Given("last_minute", [rows |-> rows, shares |-> shares, top |-> top])

LastMinuteSpec == CasesInit /\ [][LastMinuteCalled]_case

LastMinuteCase == case.engine = "last_minute" /\ ~Raises(case.in.rows, case.in.shares)

-------------------------------------------------------------------------------
\* Of one underlying the report never shows both directions: what supports a CALL on two of
\* three components cannot support a PUT on two of them.
NeverBothDirections ==
  LastMinuteCase =>
    LET shown == LastMinuteRanked(Items(case.in.rows, case.in.shares), case.in.top)
    IN \A k, n \in DOMAIN shown : shown[k].share = shown[n].share => shown[k].type = shown[n].type

\* The ceiling of three is no quota: a candidate is left out only when its underlying has
\* three better ones in the report or the report is full of better ones.
CeilingIsNoQuota ==
  LastMinuteCase =>
    LET items == Items(case.in.rows, case.in.shares)
        ranked == LastMinuteRanked(items, case.in.top)
        shown == {ranked[k] : k \in DOMAIN ranked}
        Better(a) == {b \in shown : Ahead(b, a)}
    IN \A a \in items \ shown :
         \/ Cardinality({b \in Better(a) : b.share = a.share}) = 3
         \/ Cardinality(Better(a)) = Requested(case.in.top)

\* The report says that it discovers strong shares first and then looks at the chains of those
\* (generate_report): a CALL in it is of a share that the same report discovered, unless ten
\* shares were stronger; a PUT need not be.
CallsAreDiscovered ==
  LastMinuteCase =>
    LET shown == LastMinuteRanked(Items(case.in.rows, case.in.shares), case.in.top)
        found == BaseWatch(case.in.shares)
    IN \A k \in DOMAIN shown :
         shown[k].type = "CALL" /\ Cardinality(found) < 10 => shown[k].share \in found

\* The last-minute report is bounded by its ceilings and by nothing else, and its two lists
\* do not contradict each other.
LastMinuteIsBounded == NeverBothDirections /\ CeilingIsNoQuota /\ CallsAreDiscovered
===============================================================================
