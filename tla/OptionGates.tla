------------------------------ MODULE OptionGates ------------------------------
(***************************************************************************)
(* What a contract passes before it is ranked: its eligibility             *)
(* (tsetmc_eligibility.py), the quality gate and the gate of direction     *)
(* (report_engine.py), and the bias of the underlying share that the       *)
(* latter asks for (underlying_intelligence_engine.py).                    *)
(* Ratios are in hundredths and the score of a bias in quarters, so that   *)
(* all is integer; a day is counted from today.                            *)
(* A definition named Slip... is a mistake that a change of the code could *)
(* make in the definition after it; each breaks a property stated below.   *)
(***************************************************************************)
EXTENDS EngineCases

CONSTANTS
  GateRows,    \* rows of the universe: type, expiry, end_date, underlying, premium, strike, ...
  Contexts     \* what is known of an underlying share

\* A date field that is empty, and one that is no date.
NoText == -90000
BadText == -90001

\* The mark of what is missing is no figure, nor what a figure is the opposite of.
Figure == {x \in Int : NA \notin {-x, 100 - x, 200 - x}}

\* The price is compared with four averages at most: it is above (1), below (-1) or at each.
\* Returns and volumes are of two lengths.
Context ==
  [trend : {"", "UP", "DOWN", "MIXED"}, averages : UNION {[1..n -> -1..1] : n \in 0..4},
   rsi : Figure, macd : Figure, returns : Figure \X Figure, volumes : Figure \X Figure,
   imbalance : Figure, power : Figure, touched : BOOLEAN, headroom : Int, early : Figure]

ASSUME GatesAssumption ==
  /\ \A r \in GateRows : r.type \in {"CALL", "PUT", ""} /\ {r.expiry, r.end_date, r.premium} \subseteq Int
  /\ Contexts \subseteq Context

-------------------------------------------------------------------------------
\* The canonical expiry, else the one of the identity; what is no date is none.
ExpiryDate(row) ==
  LET raw == IF row.expiry # NoText THEN row.expiry ELSE row.end_date
  IN IF raw \in {NoText, BadText} THEN NA ELSE raw

Positive(x) == Known(x) /\ x > 0
Traded(row) == Positive(row.volume) /\ Positive(row.count)
TwoSided(row) == Positive(row.bid) /\ Positive(row.ask)

Eligibility(row) ==
  FirstOf(<< <<"EXPIRY_UNAVAILABLE", ExpiryDate(row) = NA>>,
             <<"EXPIRED_CONTRACT", ExpiryDate(row) <= 0>>,
             <<"OPPORTUNITY_CANDIDATE", Traded(row) \/ TwoSided(row)>>,
             <<"INSUFFICIENT_ACTIVITY_EVIDENCE", 0 \in {row.volume, row.count}>>,
             <<"INSUFFICIENT_ACTIVITY_EVIDENCE", {row.volume, row.count} = {NA}>> >>, "RANKABLE")

-------------------------------------------------------------------------------
Tradability(row) ==
  LET price == {row.underlying, row.premium, row.strike}
  IN FirstOf(<< <<"EXPIRY_UNAVAILABLE_OR_INVALID", row.expiry \in {NoText, BadText}>>,
                <<"EXPIRY_TODAY_OR_EXPIRED", row.expiry <= 0>>,
                <<"MISSING_PRICE_EVIDENCE", NA \in price>>,
                <<"INVALID_PRICE_EVIDENCE", \E p \in price : p <= 0>>,
                <<"NO_TRADE_ACTIVITY_EVIDENCE",
                  ~\E a \in {row.volume, row.value, row.count} : Positive(a)>>,
                <<"OTM_CONTRACT", row.type = "CALL" /\ row.underlying < row.strike>>,
                <<"OTM_CONTRACT", row.type = "PUT" /\ row.underlying > row.strike>>,
                <<"LAST_PRICE_LT_10_IRR", row.premium < 10>>,
                <<"LEVERAGE_GT_20X", row.underlying > 20 * row.premium>>,
                <<"EXTREME_PREMIUM_TO_UNDERLYING", 10000 * row.premium < 5 * row.underlying>> >>, "PASS")

-------------------------------------------------------------------------------
\* The evidence families of an underlying share: each has a direction, and points for the score.
Family(name, direction, points) == [name |-> name, direction |-> direction, points |-> points]

Amount(x) == IF Known(x) THEN x ELSE 0
SumOf(pair) == Amount(pair[1]) + Amount(pair[2])
KnownIn(pair) == (IF Known(pair[1]) THEN 1 ELSE 0) + (IF Known(pair[2]) THEN 1 ELSE 0)

Evidence(c) ==
  LET trend == IF c.trend = "UP" THEN 1 ELSE IF c.trend = "DOWN" THEN -1 ELSE 0
      Sides(sign) == Cardinality({i \in DOMAIN c.averages : c.averages[i] = sign})
      above == Sides(1) - Sides(-1)   \* of the averages the price is compared with
      pairs == Len(c.averages)
      rsi == IF Known(c.rsi) THEN Side(c.rsi, 46, 54) ELSE 0
      macd == IF Known(c.macd) THEN Sign(c.macd) ELSE 0
      moved == SumOf(c.returns)
      volume == Side(SumOf(c.volumes), 95 * KnownIn(c.volumes), 105 * KnownIn(c.volumes))
      board == Sign((IF Known(c.imbalance) THEN Side(c.imbalance, -10, 10) ELSE 0)
                    + IF Known(c.power) THEN Side(c.power, 90, 110) ELSE 0)
      limit == IF c.touched THEN 20 ELSE IF Known(c.headroom) /\ c.headroom <= 2 THEN 12 ELSE 0
  IN <<Family("EARLY_MOVE", IF Known(c.early) THEN Sign(c.early) ELSE 0, 0),
       Family("TREND", trend, 80 * trend),
       Family("MA", Side(4 * above, -pairs, pairs), IF pairs > 0 THEN (60 * above) \div pairs ELSE 0),
       Family("RSI", rsi, 40 * rsi),
       Family("MACD", macd, 48 * macd),
       Family("PRICE_MOMENTUM", Sign(moved), 4 * Clip(moved, -10, 10)),
       Family("VOLUME_VALUE", volume, 32 * volume),
       Family("BOARD", board, 60 * board),
       Family("LIMIT_STATE", Sign(limit), limit)>>

\* The early move and the daily limits alone are no evidence.
Available(c) ==
  \/ c.trend # "" \/ Len(c.averages) > 0
  \/ \E x \in {c.rsi, c.macd, c.imbalance, c.power} : Known(x)
  \/ KnownIn(c.returns) + KnownIn(c.volumes) > 0

Pointing(evidence, sign) == Cardinality({i \in DOMAIN evidence : evidence[i].direction = sign})
BiasScore(evidence) == Clip(Total([i \in DOMAIN evidence |-> evidence[i].points]), -400, 400)

SlipNoConflict(available, up, down, score) ==
  FirstOf(<< <<"INSUFFICIENT_DATA", ~available>>,
             <<"BULLISH", score >= 140>>, <<"BEARISH", score <= -140>> >>, "NEUTRAL")

Bias(available, up, down, score) ==
  FirstOf(<< <<"INSUFFICIENT_DATA", ~available>>,
             <<"CONFLICTED", up >= 2 /\ down >= 2>>,
             <<"BULLISH", score >= 140>>,
             <<"BEARISH", score <= -140>> >>, "NEUTRAL")

Confidence(most, far) ==
  FirstOf(<< <<"HIGH", far >= 220 /\ most >= 4>>, <<"MEDIUM", far >= 120 /\ most >= 3>> >>, "LOW")

Analyzed(c) ==
  LET e == Evidence(c)
      score == BiasScore(e)
      up == Pointing(e, 1)
      down == Pointing(e, -1)
  IN [bias |-> Bias(Available(c), up, down, score), up |-> up, down |-> down,
      confidence |-> Confidence(IF up > down THEN up ELSE down, Size(score))]

Directional(type, share) ==
  /\ share.confidence \in {"HIGH", "MEDIUM"}
  /\ \/ share.bias = "BULLISH" /\ type = "CALL"
     \/ share.bias = "BEARISH" /\ type = "PUT"

-------------------------------------------------------------------------------
GateCalled == NotCalled /\ \E row \in GateRows : Given("gate", row)
BiasCalled == NotCalled /\ \E c \in Contexts : Given("bias", c)

GatesSpec == CasesInit /\ [][GateCalled \/ BiasCalled]_case

-------------------------------------------------------------------------------
\* Two modules judge the same row: what the quality gate lets pass is in eligibility neither
\* expired nor of unknown expiry, although only the gate reads the canonical date alone.
GatesAgree ==
  case.engine = "gate" /\ Tradability(case.in) = "PASS" =>
    Eligibility(case.in) \notin {"EXPIRY_UNAVAILABLE", "EXPIRED_CONTRACT"}

\* The contract of a share that passes has three families of evidence behind it and at most
\* one against it, the families without a point included.
DirectionIsBacked ==
  case.engine = "bias" =>
    LET share == Analyzed(case.in)
    IN /\ Directional("CALL", share) => share.up >= 3 /\ share.down <= 1
       /\ Directional("PUT", share) => share.down >= 3 /\ share.up <= 1

\* The engine has no preference: of a share whose evidence is the opposite in everything,
\* it says the opposite, with the same confidence (the daily limits, that only have an upper
\* side, aside).
Opposite(c) ==
  LET Neg(x) == IF Known(x) THEN -x ELSE x
      Of(x, sum) == IF Known(x) THEN sum - x ELSE x
  IN [c EXCEPT !.trend = CASE @ = "UP" -> "DOWN" [] @ = "DOWN" -> "UP" [] OTHER -> @,
               !.averages = [i \in DOMAIN @ |-> -@[i]], !.rsi = Of(@, 100), !.macd = Neg(@),
               !.returns = <<Neg(@[1]), Neg(@[2])>>, !.volumes = <<Of(@[1], 200), Of(@[2], 200)>>,
               !.imbalance = Neg(@), !.power = Of(@, 200), !.early = Neg(@)]

NoPreference ==
  case.engine = "bias" /\ ~case.in.touched /\ case.in.headroom = NA =>
    LET share == Analyzed(case.in)
        other == Analyzed(Opposite(case.in))
        Turned(b) == CASE b = "BULLISH" -> "BEARISH" [] b = "BEARISH" -> "BULLISH" [] OTHER -> b
    IN other.bias = Turned(share.bias) /\ other.confidence = share.confidence

\* What the gates and the analysis say of a contract is backed by its evidence.
VerdictsAreBacked == GatesAgree /\ DirectionIsBacked /\ NoPreference
===============================================================================
