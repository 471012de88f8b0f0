------------------------------- MODULE MCEngines -------------------------------
(***************************************************************************)
(* Instance for TLC of everything that keeps no state between two calls:   *)
(* the calendar, the schedule of the collectors, and the engines.  They    *)
(* share nothing, so a behaviour is one group's; "which" says whose.       *)
(* The rows of the instances are few and extreme: every gate, threshold    *)
(* and tie of the code lies between two of them.                           *)
(***************************************************************************)
EXTENDS JalaliCalendar, CollectorSchedule, OpportunityReport, LastMinuteRanking, UnderlyingTrend,
        ShadowCases, SnapshotHistories, UniverseAudit, MessageParts, BullCallSpread

VARIABLE which

engineVars == <<calendarVars, scheduleVars, case, which>>

-------------------------------------------------------------------------------
\* The seconds around a half hour, some of the minutes before and after it, and the second
\* before three of the hours.
StartSeconds ==
  (9 * 3600 + 29 * 60 + 30)..(9 * 3600 + 31 * 60) \cup {9 * 3600 + 37 * m : m \in 47..78}
  \cup {9 * 3600 - 1, 10 * 3600 - 1, 13 * 3600 - 1}

\* OptionGates.
GateInstance ==
  [type : {"CALL", "PUT"}, expiry : {NoText, BadText, 0, 1}, end_date : {NoText, 1},
   underlying : {NA, 200, 201, 30000}, premium : {0, 9, 10}, strike : {150, 300},
   volume : {NA, 0, 1}, value : {0, 1}, count : {NA, 0, 1}, bid : {0, 1}, ask : {1}]
ContextInstance ==
  [trend : {"", "UP", "DOWN"}, averages : {<<>>, <<-1, -1>>, <<1, 1, -1>>, <<1, 0, 0, 0>>}, rsi : {NA, 45, 55},
   macd : {NA, -1, 1}, returns : {<<NA, NA>>, <<-20, 4>>, <<5, 3>>}, volumes : {<<106, NA>>, <<94, 96>>, <<90, NA>>},
   imbalance : {NA, -11, 11}, power : {NA, 110}, touched : {FALSE}, headroom : {NA, 2}, early : {NA, -1, 1}]

\* EconomicRanking and OpportunityReport: the same option with less known of it, or sooner gone.
Listed(t, s, k, p, close, high, low, days, v, vol, share) ==
  [type |-> t, underlying |-> s, strike |-> k, premium |-> p, close |-> close, high |-> high, low |-> low,
   days |-> days, value |-> v, volume |-> vol, count |-> NA, expiry |-> IF days = NA THEN 9 ELSE days,
   share |-> share]
RankedRows ==
  {Listed("CALL", 200, 150, 60, 58, 62, 58, 10, 5, 5, "a"), Listed("CALL", 200, 180, 25, NA, NA, 25, 20, 6, 4, "a"),
   Listed("PUT", 200, 240, 45, 45, 50, 40, 5, NA, 3, "a"), Listed("CALL", 200, 150, 60, 58, 62, 58, 20, 4, 5, "a"),
   Listed("PUT", 200, 210, 15, 16, 17, 14, 30, 9, NA, "a"), Listed("CALL", 200, 150, 60, NA, NA, NA, 10, 5, 5, "a"),
   Listed("CALL", 200, 150, 55, NA, NA, NA, 10, 5, 5, "a"), Listed("CALL", NA, 150, 60, 58, 62, 58, NA, NA, NA, "a"),
   Listed("CALL", 200, 150, 50, 50, 50, 50, 1, 9, 9, "a"), Listed("PUT", 200, 150, NA, NA, NA, NA, NA, NA, NA, "a")}
ThreeRanked == RankedRows \X RankedRows \X RankedRows
ReportRows ==
  {Listed("CALL", 200, 150, 60, 58, 62, 58, 10, 5, 5, "a"), Listed("CALL", 200, 180, 25, NA, NA, 25, 20, 6, 4, "a"),
   Listed("PUT", 200, 240, 45, 45, 50, 40, 5, NA, 3, "b"), Listed("PUT", 200, 210, 15, 16, 17, 14, 30, 9, NA, "a"),
   Listed("", 200, 150, 60, NA, NA, NA, NA, NA, 5, "a"), Listed("CALL", 200, 150, 55, 50, 50, 50, 1, 9, 9, "b"),
   Listed("CALL", 200, 150, 9, NA, NA, NA, NA, NA, NA, "a"), Listed("CALL", 200, 150, 52, 51, 53, 50, NA, 8, 2, "b")}
ThreeListed ==
  {b \in ReportRows \X ReportRows \X ReportRows :
     b[1].premium < b[2].premium /\ b[2].premium # b[3].premium /\ b[1].premium < b[3].premium}
Biases ==
  {[bias |-> "BULLISH", confidence |-> "HIGH"], [bias |-> "BEARISH", confidence |-> "MEDIUM"],
   [bias |-> "BULLISH", confidence |-> "LOW"]}

\* BullCallSpread: up to four rows of one share, which trade, or cost, more or less or nothing.
Leg(id, t, k, last, value, interest, expiry) ==
  [id |-> id, type |-> t, share |-> "a", expiry |-> expiry, strike |-> k, last |-> last, value |-> value, interest |-> interest]
LowLegs == {Leg("p", "CALL", 10, x, v, 1, 7) : x \in {3, 8}, v \in {NA, 2}}
HighLegs == {Leg("q", "CALL", k, x, 2, i, 7) : k \in {10, 12, 16}, x \in {0, 2, 4}, i \in {NA, 3}}
OtherLegs ==
  {Leg("r", "CALL", 14, 1, NA, NA, 7), Leg("r", "CALL", 14, 2, -1, 5, 7), Leg("r", "PUT", 14, 2, 2, 5, 7),
   Leg("r", "CALL", 13, 1, 2, 5, NA), Leg("r", "CALL", 13, 1, 2, 5, 8), [Leg("r", "CALL", 13, 1, 2, 5, 7) EXCEPT !.share = ""],
   Leg("r", "CALL", 22, 0, 0, 0, 7), Leg("r", "CALL", NA, 1, 2, 5, 7), Leg("r", "CALL", 8, 9, 2, 5, 7), [Leg("q", "CALL", 16, 2, 2, 5, 7) EXCEPT !.id = "r"]}
LastLegs == {Leg("s", "CALL", 18, 1, 2, 3, 7), Leg("s", "CALL", 13, NA, 2, 3, 7)}
SpreadInstance ==
  {<<a, b, c>> : a \in LowLegs, b \in HighLegs, c \in OtherLegs} \cup {<<b, d, a, c>> : a \in {Leg("p", "CALL", 10, 8, 2, 1, 7)}, b \in HighLegs, c \in OtherLegs, d \in LastLegs}

\* LastMinuteRanking: four contracts of a share and two of another, two of both directions, one that is worth nothing.
Late(t, k, p, v, bid, ask, d, share) ==
  [type |-> t, spot |-> 200, strike |-> k, price |-> p, close |-> p, days |-> d, volume |-> v, count |-> NA,
   value |-> 0, bid |-> bid, ask |-> ask, delta |-> NA, share |-> share]
LateBoards ==
  {<<Late("CALL", 190, 20, 5, 19, 20, 10, "u"), Late("CALL", 200, 10, 5, NA, NA, 3, "u"),
     Late("CALL", 180, 30, 5, 29, 31, 40, "u"), Late("CALL", 210, 5, 5, 5, 5, 100, "u"),
     Late("PUT", 190, 20, 5, 19, 20, 10, "w"), Late("CALL", 190, 15, 5, 19, 20, 10, "w")>>,
   <<Late("CALL", 190, 20, 5, 19, 20, 10, "u"), Late("PUT", 190, 20, 5, 19, 20, 10, "u"),
     Late("PUT", 300, 20, 5, 1, 2, 3, "w"), Late("", 200, 20, 5, 1, 2, 3, "w"), Late("PUT", 150, 20, 0, 1, 2, 3, "w")>>,
   <<Late("PUT", 0, 20, 5, 1, 2, 3, "u")>>}
Seen(r5, r20, averages, rsi, macd, imbalance, bidAsk, power, volumes, touched, headroom) ==
  [status |-> "PASS", r5 |-> r5, r20 |-> r20, averages |-> averages, rsi |-> rsi, macd |-> macd,
   imbalance |-> imbalance, bid_ask |-> bidAsk, power |-> power, legal |-> NA, volumes |-> volumes,
   touched |-> touched, headroom |-> headroom]
LateShares ==
  {NoContext, Unavailable}
  \cup {Seen(x[1], NA, <<x[2], x[2], NA, NA, NA>>, 60, NA, x[3], NA, NA, x[4], FALSE, 2) :
          x \in {NA, -5, 5} \X {1} \X {-40, 60} \X {<<NA, NA, NA>>, <<150, NA, 130>>, <<50, 60, NA>>}}
  \cup {Seen(NA, 20, <<NA, NA, -1, -1, 1>>, x[1], 1, NA, 150, 120, <<NA, 90, 90>>, x[2], 3) : x \in {NA, 90} \X BOOLEAN}

\* UnderlyingTrend: a long flat, rising or falling history with a tail of its own.
Session(date, close, high, volume) ==
  [date |-> date, close |-> close, last |-> close, high |-> high, volume |-> volume, value |-> NA]
Straight(n, step) == [i \in 1..n |-> [Session(i, 1000 + step * i, 1002 + step * i, 100) EXCEPT !.value = 100]]
Tails ==
  {<<100, 100, 100, 100, 100, 100, 100>>, <<0, 0, 5, 9, 14, 20, 30>>, <<30, 25, 20, 14, 9, 5, 0>>,
   <<0, 10, 20, 30, 25, 20, 15>>, <<0, -10, -20, -10, 20, 30, 40>>, <<0, 20, 0, 20, 0, 20, 0>>}
TailVolumes ==
  {<<100, 100, 150, 200, 90, 90, 90>>, <<100, 100, NA, 90, 90, 100, 300>>, <<300, 100, 90, 90, 90, 90, 90>>}
Tailed(n, step, tail, volumes, k) ==
  Straight(n, step) \o [i \in 1..k |-> Session(n + i, 1000 + n * step + tail[i], 1001 + n * step + tail[i], volumes[i])]
TrendInstance ==
  {Tailed(b[1], b[2], tail, volumes, k) :
     b \in {<<0, 0>>, <<20, 0>>, <<46, 4>>, <<46, -4>>}, tail \in Tails, volumes \in TailVolumes, k \in {3, 7}}
OneToday == {[today |-> 53, limit |-> 1200]}

\* ShadowCases: one contract at each threshold, with one thing odd about it, beside another of its chain.
Fine ==
  [name |-> "a", written |-> "plain", underlying |-> "u", expiry |-> "e", strike |-> 100, type |-> "CALL",
   last |-> 10, base |-> 100, days |-> 11, score |-> 80, leverage |-> 5, valuation |-> 85, diff |-> 3,
   liquidity |-> 15, breakeven |-> 80, distance |-> -2, penalty |-> 10, confidence |-> 90, ulast |-> NA,
   uclose |-> NA, flagged |-> FALSE]
OddRows ==
  {Fine, [Fine EXCEPT !.written = "arabic"], [Fine EXCEPT !.days = 0],
   [Fine EXCEPT !.days = 10, !.ulast = 90, !.uclose = 100], [Fine EXCEPT !.confidence = 89, !.valuation = NA],
   [Fine EXCEPT !.liquidity = NA, !.breakeven = NA, !.strike = NaNStrike],
   [Fine EXCEPT !.penalty = 11, !.score = NA, !.last = 0],
   [Fine EXCEPT !.liquidity = 14, !.valuation = 84, !.flagged = TRUE, !.leverage = 3],
   [Fine EXCEPT !.days = NA, !.confidence = NA, !.name = ""], [Fine EXCEPT !.days = 30, !.leverage = NA, !.diff = NA]}
OtherRows ==
  {[r EXCEPT !.name = n, !.type = t, !.score = s, !.strike = k] :
     r \in {Fine, [Fine EXCEPT !.days = -1],
            [Fine EXCEPT !.liquidity = NA, !.distance = NA, !.confidence = NA, !.diff = NA]},
     n \in {"a", "b"}, t \in {"CALL", "PUT"}, s \in {40, 70}, k \in {100, 110}}
TableInstance ==
  {<<r>> : r \in OddRows} \cup {<<r, q>> : r \in OddRows, q \in OtherRows}
  \cup {<<q, [Fine EXCEPT !.type = "PUT"], [q EXCEPT !.name = "c", !.type = t, !.expiry = x]>> :
          q \in OtherRows, t \in {"CALL", "PUT"}, x \in {"", "e"}}

\* SnapshotHistories: up to four snapshots of two instruments, in the order the files are
\* found; some without the time of their retrieval, two of one time.
On(calendar, day) == [calendar |-> calendar, day |-> day]
Watched(last, volume, interest, under) ==
  [there |-> TRUE, last |-> last, volume |-> volume, oi |-> interest, under |-> under,
   begin |-> On("gregorian", 9), type |-> "CALL", strike |-> 4]
NotThere == [Watched(0, 0, 0, 0) EXCEPT !.there = FALSE]
FirstRows ==
  {Watched(3, 5, 2, 6), Watched(4, 6, 2, 7), [Watched(5, 6, 2, 8) EXCEPT !.begin = On("jalali", 2)],
   [Watched(2, 7, 3, 7) EXCEPT !.begin = On("gregorian", 2)],
   [Watched(0, NA, 1, 6) EXCEPT !.begin = On("none", 0)], NotThere}
SecondRows ==
  {[Watched(5, 5, 1, 5) EXCEPT !.type = "PUT", !.begin = On("gregorian", 1)],
   [Watched(7, 4, NA, 5) EXCEPT !.type = "", !.begin = On("none", 0)], NotThere}
Shot(time, sha, x, y) ==
  [observed |-> time, generated |-> IF time = NA THEN 24 ELSE time, sha |-> sha,
   rows |-> [k \in {"x", "y"} |-> IF k = "x" THEN x ELSE y]]
HistoryInstance ==
  {<<Shot(25, 3, b, e), Shot(12, 2, a, e), Shot(31, 1, c, e)>> : a, b, c \in FirstRows, e \in SecondRows}
  \cup {<<Shot(11, 1, a, NotThere), Shot(12, 2, b, NotThere), Shot(22, 3, c, NotThere), Shot(35, 4, d, NotThere)>> :
          a, b, c, d \in FirstRows}
  \cup {<<Shot(25, 1, a, e)>> : a \in FirstRows, e \in SecondRows}
  \cup {<<Shot(25, 1, a, e), Shot(t, 2, b, f)>> : a, b \in FirstRows, e, f \in SecondRows, t \in {36, NA}}
  \cup {<<Shot(25, 2, a, e), Shot(36, 1, b, e), Shot(25, 3, a, NotThere), Shot(12, 4, c, e)>> :
          a, b, c \in FirstRows, e \in SecondRows}
  \cup {<<Shot(NA, 2, a, NotThere), Shot(25, 1, b, NotThere), Shot(36, 3, c, NotThere)>> : a, b, c \in FirstRows}

\* UniverseAudit: up to three flows, which of them answer, and what their contracts do.
Pair(put, call, time) == [put |-> put, call |-> call, time |-> time]
FlowInstance ==
  {<< <<Pair("a", "b", 1), Pair("c", "", 2)>>, <<Pair("a", "b", 1)>>, <<Pair("", "d", -1)>> >>,
   << <<>>, <<Pair("a", "", 3), Pair("", "b", 4)>> >>,
   << <<Pair("a", "a", 1)>>, <<Pair("c", "b", 2)>>, <<>> >>, << <<>>, <<>> >>}
AnyFlows == SUBSET (1..3)
Before(of, board, reached, shown, flow) ==
  [of |-> of, board |-> board, reached |-> reached, shown |-> shown, flow |-> flow]
BeforeInstance ==
  LET day == << <<Pair("a", "b", 1), Pair("c", "", 2)>>, <<Pair("a", "a", 1), Pair("b", "", 3)>> >>
  IN {Before("nothing", day, {}, {}, 1), Before("universe", day, {2}, {}, 1),
      Before("universe", day, {1, 2}, {}, 1), Before("report", day, {1, 2}, {"a", "c"}, 1),
      Before("report", day, {1, 2}, {"a"}, 1), Before("flow", day, {}, {}, 1), Before("flow", day, {}, {}, 2)}
FlowQuoteInstance == {q \in [{"a", "b", "c", "d"} -> {-2, -1, 5, 6}] : q["d"] = 5 /\ q["c"] \in {-1, 6}}

\* MessageParts: every text of up to seven characters, with parts of three.
TextInstance == UNION {[1..n -> {"x", "end", "mark"}] : n \in 0..7}

-------------------------------------------------------------------------------
EnginesInit ==
  /\ which \in {"calendar", "schedule", "options", "histories"}
  /\ CalendarInit /\ ScheduleInit /\ CasesInit
  /\ which # "schedule" => ~loops /\ ~trading /\ begun = Min(Begins)

OptionsCalled == UniverseCalled \/ GateCalled \/ BiasCalled \/ RankingCalled \/ ReportCalled \/ LastMinuteCalled

HistoriesCalled == HistoryCalled \/ ShadowCalled \/ TrendCalled \/ TextCalled \/ SpreadCalled

EnginesNext ==
  /\ UNCHANGED which
  /\ \/ which = "calendar" /\ CalendarNext /\ UNCHANGED <<scheduleVars, case>>
     \/ which = "schedule" /\ ScheduleNext /\ UNCHANGED <<calendarVars, case>>
     \/ which = "options" /\ OptionsCalled /\ UNCHANGED <<calendarVars, scheduleVars>>
     \/ which = "histories" /\ HistoriesCalled /\ UNCHANGED <<calendarVars, scheduleVars>>

EnginesSpec == EnginesInit /\ [][EnginesNext]_engineVars
===============================================================================
