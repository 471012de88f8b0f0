----------------------------- MODULE UnderlyingTrend -----------------------------
(***************************************************************************)
(* What the daily history of a share says of it (underlying_trend_engine): *)
(* its structure, a correction in it, the early move, and the order in     *)
(* which volume, price and momentum set in.  A session is a record of its  *)
(* date, close, high, low, volume and value; prices and volumes are whole, *)
(* percentages and ratios are in hundredths, averages in thousandths, all  *)
(* rounded down.  A definition named Slip... is a mistake that a change of *)
(* the code could make in the definition after it; each breaks a property  *)
(* stated below.                                                           *)
(***************************************************************************)
EXTENDS EngineCases

CONSTANTS
  SessionHistories,  \* the answers of the daily history: sequences of sessions, as they came
  TradingDates       \* today, and the upper limit of the share

SessionRow == [date : Nat, close : Int, last : Int, high : Int, volume : Int, value : Int]

ASSUME TrendAssumption == SessionHistories \subseteq Seq(SessionRow)

LastN(s, n) == SubSeq(s, IF Len(s) > n THEN Len(s) - n + 1 ELSE 1, Len(s))
Earlier(s, n) == SubSeq(s, 1, IF Len(s) > n THEN Len(s) - n ELSE 0)
Column(rows, name) == LET Of(r) == r[name] IN KnownOf(Each(rows, Of))

\* Both are known and the second is not zero: the first over the second, less one.
Change(a, b) == IF ~Known(a) \/ ~Known(b) \/ b = 0 THEN NA ELSE ((a - b) * 10000) \div b
Over(a, b) == IF ~Known(a) \/ ~Known(b) \/ b = 0 THEN NA ELSE (a * 100) \div b
Back(s, n) == IF Len(s) > n THEN s[Len(s) - n] ELSE NA

SMA(s, n) == IF Len(s) < n THEN NA ELSE (1000 * Total(LastN(s, n))) \div n

EMA(s, n) ==
  IF Len(s) < n THEN NA
  ELSE LET f[i \in n..Len(s)] == IF i = n THEN SMA(SubSeq(s, 1, n), n)
                                 ELSE (2000 * s[i] + (n - 1) * f[i - 1]) \div (n + 1)
       IN f[Len(s)]

MACD(s) == IF Len(s) < 26 THEN NA ELSE EMA(s, 12) - EMA(s, 26)

\* _rsi with a period of fourteen (Wilder's averages of the gains and the losses).
RSI(s) ==
  IF Len(s) <= 14 THEN NA
  ELSE LET Gain(i) == IF s[i + 1] > s[i] THEN 1000 * (s[i + 1] - s[i]) ELSE 0
           Loss(i) == IF s[i + 1] < s[i] THEN 1000 * (s[i] - s[i + 1]) ELSE 0
           Wilder(Of(_)) == LET f[i \in 14..(Len(s) - 1)] ==
                                  IF i = 14 THEN Total(Each([k \in 1..14 |-> k], Of)) \div 14
                                  ELSE (13 * f[i - 1] + Of(i)) \div 14
                            IN f[Len(s) - 1]
           gain == Wilder(Gain)
           loss == Wilder(Loss)
       IN IF loss = 0 THEN (IF gain > 0 THEN 10000 ELSE 5000) ELSE 10000 - (10000 * loss) \div (gain + loss)

-------------------------------------------------------------------------------
\* The sessions that have a close, by date; what came first goes first on one date.
Priced(answer) == {i \in DOMAIN answer : Known(answer[i].close) /\ answer[i].close > 0}
Sooner(answer, k, i) == answer[k].date < answer[i].date \/ (answer[k].date = answer[i].date /\ k < i)

Sessions(answer) ==
  LET Nth(n) == CHOOSE i \in Priced(answer) : Cardinality({k \in Priced(answer) : Sooner(answer, k, i)}) = n - 1
  IN [n \in 1..Cardinality(Priced(answer)) |-> answer[Nth(n)]] \o <<>>

Closes(rows) == Column(rows, "close")

\* trend_state
Structure(closes) ==
  LET last == IF closes = <<>> THEN NA ELSE 1000 * Last(closes)
      s20 == SMA(closes, 20)
      s50 == SMA(closes, 50)
  IN FirstOf(<< <<"INSUFFICIENT", ~Known(s20)>>,
                <<"SHORT", ~Known(s50)>>,
                <<"UP", last > s20 /\ s20 > s50>>,
                <<"DOWN", last < s20 /\ s20 < s50>> >>, "MIXED")

\* correction_state: the last close against the peak of the ten before it and three sessions ago.
Correction(closes) ==
  LET peak == IF Len(closes) < 3 THEN NA ELSE Max({Earlier(LastN(closes, 11), 1)[i] : i \in 1..(Len(LastN(closes, 11)) - 1)})
      from == IF closes = <<>> THEN NA ELSE Change(Last(closes), peak)
      three == IF closes = <<>> THEN NA ELSE Change(Last(closes), Back(closes, 3))
      s20 == SMA(closes, 20)
      s50 == SMA(closes, 50)
      both == Known(s20) /\ Known(s50)
  IN FirstOf(<< <<"NONE", ~Known(from) \/ ~Known(three)>>,
                <<"CORRECTION_IN_UPTREND", from <= -100 /\ three <= -50 /\ both /\ s20 > s50>>,
                <<"CORRECTION", from <= -100 /\ three <= -50>>,
                <<"BOUNCE_IN_DOWNTREND", from >= 100 /\ three >= 50 /\ both /\ s20 < s50>>,
                <<"RECOVERY_BOUNCE", from >= 100 /\ three >= 50>> >>, "NONE")

\* The components of the early move, each up, down or flat, those that can be told.
EarlyMove(rows) ==
  LET closes == Closes(rows)
      before == Earlier(closes, 1)
      volumes == Column(rows, "volume")
      highs == Column(Earlier(LastN(rows, 21), 1), "high")
      VolumeRatio(v) == Over(SMA(v, 5), SMA(v, 20))
      Moved(now, then, by) == IF Known(now) /\ Known(then) THEN Side(now - then, -by, by) ELSE NA
  IN IF closes = <<>> THEN <<>>
     ELSE KnownOf(<< Moved(Last(closes), Back(closes, 1), 0),
                     Moved(Last(closes), Back(closes, 3), 0),
                     Moved(Change(SMA(closes, 20), SMA(Earlier(closes, 5), 20)), 0, 50),
                     Moved(RSI(closes), RSI(before), 100),
                     Moved(MACD(closes), MACD(before), 0),
                     Moved(VolumeRatio(volumes), VolumeRatio(Earlier(volumes, 1)), 10),
                     IF highs = <<>> THEN NA ELSE IF Last(closes) > Max({highs[i] : i \in DOMAIN highs}) THEN 1 ELSE 0 >>)

EarlyState(rows) ==
  LET signs == EarlyMove(rows)
      up == Len(SelectSeq(signs, LAMBDA x : x > 0))
      down == Len(SelectSeq(signs, LAMBDA x : x < 0))
  IN FirstOf(<< <<"INSUFFICIENT", signs = <<>> >>, <<"EARLY_UP", up >= 4 /\ up > down>>,
                <<"EARLY_DOWN", down >= 4 /\ down > up>>, <<"BUILDING_UP", up > down>>,
                <<"BUILDING_DOWN", down > up>> >>, "MIXED")

-------------------------------------------------------------------------------
\* An event of the i-th of the last seven sessions: what it shows against those before it.
\* Values grow against the average of up to five, prices and momentum against the day before.
GrownOver(value, known) ==
  Known(value) /\ known # <<>> /\ Over(100 * value, (100 * Total(known)) \div Len(known)) >= 120

Grows(seven, column, i) == GrownOver(seven[i][column], LastN(Column(SubSeq(seven, 1, i - 1), column), 5))

Return(seven, i) == IF i = 1 THEN NA ELSE Change(seven[i].close, seven[i - 1].close)
Larger(now, before) == Known(now) /\ Size(now) > 50 /\ (~Known(before) \/ Size(now) > Size(before))

GoesUp(a, b, by) == Known(a) /\ Known(b) /\ a > b + by
Quickens(now, before) == GoesUp(MACD(now), MACD(before), 0) \/ GoesUp(RSI(now), RSI(before), 50)
Upto(rows, day) == Closes(SelectSeq(rows, LAMBDA r : r.date <= day))

Shows(rows, seven, name, i) ==
  CASE name = "VOLUME" -> Grows(seven, "volume", i)
    [] name = "VALUE" -> Grows(seven, "value", i)
    [] name = "PRICE" -> Larger(Return(seven, i), IF i <= 2 THEN NA ELSE Return(seven, i - 1))
    [] OTHER -> i > 1 /\ Quickens(Upto(rows, seven[i].date), Upto(rows, seven[i - 1].date))

EventsIn(rows, seven, name) ==
  IF Len(seven) < 4 THEN {} ELSE {seven[i].date : i \in {i \in DOMAIN seven : Shows(rows, seven, name, i)}}
EventsOf(rows, name) == EventsIn(rows, LastN(rows, 7), name)

Chain == <<"VOLUME", "PRICE", "MOMENTUM">>

SlipFirstAndLast(first) == first[1] <= first[3]

\* event_first of the chain is in order, as far as it is there; two of it at least.
InSequence(first) ==
  LET known == KnownOf(first) IN Len(known) >= 2 /\ \A i \in 2..Len(known) : known[i - 1] <= known[i]

Earliest(dates) == IF dates = {} THEN NA ELSE Min(dates)
FirstDates(rows) == Each(Chain, LAMBDA name : Earliest(EventsOf(rows, name)))

Lock(first, ordered, valued) ==
  LET all == \A i \in 1..3 : Known(first[i])
  IN FirstOf(<< <<"EARLY", all /\ ordered>>,
                <<"DEVELOPING", Len(KnownOf(first)) >= 2 /\ ordered>>,
                <<"DEVELOPING", Known(first[2]) /\ Known(first[3])>>,
                <<"WATCH", Known(first[1]) \/ valued>> >>, "NO_SEQUENCE")

PrelockOf(first, valued) == Lock(first, InSequence(first), valued)
Prelock(rows) == PrelockOf(FirstDates(rows), EventsOf(rows, "VALUE") # {})

\* The room to the upper limit, of the day's own session only.
LimitRoom(rows, today, limit) ==
  IF rows = <<>> \/ Last(rows).date # today THEN NA ELSE Change(limit, Last(rows).last)

TrendCalled ==
  /\ NotCalled
  /\ \E answer \in SessionHistories, day \in TradingDates : Given("trend", [answer |-> answer, day |-> day])

TrendSpec == CasesInit /\ [][TrendCalled]_case

TrendCase == case.engine = "trend"
TrendRows == Sessions(case.in.answer)

\* What a report takes from the analysis.
Analysis(answer, day) ==
  LET rows == Sessions(answer)
      closes == Closes(rows)
  IN << Structure(closes), Correction(closes), EarlyState(rows), Prelock(rows), LimitRoom(rows, day.today, day.limit) >>

-------------------------------------------------------------------------------
\* The analysis depends on the sessions and not on the order in which they came.
OrderIsIrrelevant ==
  TrendCase =>
    LET answer == case.in.answer
        turned == [i \in DOMAIN answer |-> answer[Len(answer) + 1 - i]]
    IN (\A i, k \in DOMAIN answer : answer[i].date = answer[k].date => i = k) =>
         Analysis(answer, case.in.day) = Analysis(turned, case.in.day)

\* A correction in an uptrend is told of no share whose structure is down, nor a bounce in a
\* downtrend of one whose structure is up, though both are read from other sessions.
CorrectionFitsTrend ==
  TrendCase =>
    LET closes == Closes(TrendRows)
    IN /\ Correction(closes) = "CORRECTION_IN_UPTREND" => Structure(closes) \notin {"DOWN", "SHORT", "INSUFFICIENT"}
       /\ Correction(closes) = "BOUNCE_IN_DOWNTREND" => Structure(closes) \notin {"UP", "SHORT", "INSUFFICIENT"}

\* EARLY is told only when volume set in no later than price and price no later than momentum.
EarlyIsOrdered ==
  TrendCase /\ Prelock(TrendRows) = "EARLY" =>
    LET volume == EventsOf(TrendRows, "VOLUME")
        price == EventsOf(TrendRows, "PRICE")
        momentum == EventsOf(TrendRows, "MOMENTUM")
    IN (\A p \in price : \E v \in volume : v <= p) /\ (\A m \in momentum : \E p \in price : p <= m)

\* The analysis reads the trend of the sessions it was given.
TrendIsRead == OrderIsIrrelevant /\ CorrectionFitsTrend /\ EarlyIsOrdered
===============================================================================
