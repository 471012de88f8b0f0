---------------------------- MODULE EconomicRanking ----------------------------
(***************************************************************************)
(* The two engines that rank contracts by blocks of factors:               *)
(* economic_scoring_engine.py and tsetmc_scoring_engine.py.  A factor is   *)
(* ranked among the rows that have it, a block is the weighted mean of the *)
(* factors a row has, the score that of the blocks it has, rounded.        *)
(* A feature is a ratio <<numerator, denominator>>: only how two of them   *)
(* compare matters, so that log1p leaves no trace.                         *)
(* A row is named by its place in the universe, and a ranking is one of    *)
(* the rows at some of the places.                                         *)
(* A definition named Slip... is a mistake that a change of the code could *)
(* make in the definition after it; each breaks a property stated below.   *)
(***************************************************************************)
EXTENDS EngineCases

CONSTANTS
  Universes,   \* sequences of rows
  Whole,       \* the best rank of a factor: any number of rows divides it
  Grain        \* the best score, and the number of parts it is rounded to (10^6 in the code)

ListedRow ==
  [type : STRING, underlying : Int, strike : Int, premium : Int, close : Int, high : Int, low : Int,
   days : Int, value : Int, volume : Int, count : Int, expiry : Int, share : STRING]

IsUniverse(rows) == rows \in Seq(ListedRow) /\ \A n \in 1..Len(rows) : (Whole \div n) * n = Whole

ASSUME UniversesAssumption ==
  Whole \in Nat \ {0} /\ Grain \in Nat \ {0} /\ \A rows \in Universes : IsUniverse(rows)

NoFeature == <<NA, 1>>
Ratio(a, b) == IF b = 0 THEN NoFeature ELSE <<a, Size(b)>>
Within(a, b) == a[1] * b[2] <= b[1] * a[2]
Distance(a, b) == IF a > b THEN a - b ELSE b - a
AtLeast0(x) == IF x > 0 THEN x ELSE 0

Intrinsic(row) == AtLeast0(IF row.type = "CALL" THEN row.underlying - row.strike ELSE row.strike - row.underlying)
TimeValue(row) == AtLeast0(row.premium - Intrinsic(row))
BreakEven(row) == IF row.type = "CALL" THEN row.strike + row.premium ELSE row.strike - row.premium

LastVsClose(row) ==
  IF NA \in {row.premium, row.close} THEN NoFeature ELSE Ratio(Distance(row.premium, row.close), row.close)
IntradayRange(row) ==
  IF NA \in {row.premium, row.high, row.low} THEN NoFeature ELSE Ratio(Distance(row.high, row.low), row.premium)
BreakEvenDistance(row) == Ratio(Distance(BreakEven(row), row.underlying), row.underlying)

\* Nothing of the contract is valued unless its three prices are positive.
EconomicFeatures(row) ==
  LET priced == row.type \in {"CALL", "PUT"} /\ \A p \in {row.underlying, row.strike, row.premium} : p > 0
      Priced(feature) == IF priced THEN feature ELSE NoFeature
  IN [trade_value |-> Ratio(row.value, 1), volume |-> Ratio(row.volume, 1),
      premium_burden |-> Priced(Ratio(TimeValue(row), row.underlying)),
      intrinsic_coverage |-> Priced(Ratio(Intrinsic(row), row.premium)),
      breakeven_distance |-> Priced(BreakEvenDistance(row)),
      leverage_efficiency |-> Priced(Ratio(row.underlying, row.premium)),
      calendar_days |-> Ratio(row.days, 1),
      last_vs_close |-> LastVsClose(row), intraday_range |-> IntradayRange(row)]

\* The leverage of a negative price has no logarithm and is not ranked.
EvidenceFeatures(row) ==
  LET priced == row.type \in {"CALL", "PUT"} /\ NA \notin {row.underlying, row.strike, row.premium}
  IN [trade_value |-> Ratio(row.value, 1), volume |-> Ratio(row.volume, 1),
      time_value_ratio |-> IF priced THEN Ratio(TimeValue(row), row.underlying) ELSE NoFeature,
      breakeven_distance |-> IF priced THEN BreakEvenDistance(row) ELSE NoFeature,
      leverage |-> IF priced /\ row.premium > 0 /\ row.underlying >= 0
                   THEN Ratio(row.underlying, row.premium) ELSE NoFeature,
      moneyness |-> IF priced /\ row.strike > 0 THEN Ratio(Distance(row.underlying, row.strike), row.strike)
                    ELSE NoFeature,
      calendar_days |-> Ratio(row.days, 1),
      last_vs_close |-> LastVsClose(row), intraday_range |-> IntradayRange(row)]

-------------------------------------------------------------------------------
\* The rank of a value among the valid ones; a single one has the best.
SlipStrictRank(values, valid, i, higher) ==
  LET below == Cardinality({j \in valid : ~Within(values[i], values[j])})
      n == Cardinality(valid)
  IN (Whole \div n) * (IF higher THEN below ELSE n - below)

PercentRank(values, valid, i, higher) ==
  LET within == Cardinality({j \in valid : Within(values[j], values[i])})
      n == Cardinality(valid)
  IN (Whole \div n) * (IF higher THEN within ELSE n - within + 1)

\* The leverage is cut at its 95th percentile, so that the ones above it share the best rank.
AtTop(values, valid, i) ==
  20 * Cardinality({j \in valid : ~Within(values[j], values[i])}) <= Cardinality(valid) - 1

Factor(name, weight, higher) == [name |-> name, weight |-> weight, higher |-> higher]
Block(weight, factors) == [weight |-> weight, factors |-> factors]

\* The rank of the row at a place among those at the places of S, if it has the factor.
RankOf(factor, features, S, i) ==
  LET values == [j \in S |-> features[j][factor.name]]
      valid == {j \in S : values[j] # NoFeature}
  IN IF i \notin valid THEN NA
     ELSE IF factor.name = "leverage" /\ AtTop(values, valid, i) THEN Whole
     ELSE PercentRank(values, valid, i, factor.higher)

EconomicBlocks ==
  << Block(20, <<Factor("trade_value", 7, TRUE), Factor("volume", 5, TRUE)>>),
     Block(25, <<Factor("premium_burden", 15, FALSE), Factor("intrinsic_coverage", 10, TRUE)>>),
     Block(18, <<Factor("breakeven_distance", 13, FALSE), Factor("leverage_efficiency", 5, TRUE)>>),
     Block(15, <<Factor("calendar_days", 15, FALSE)>>),
     Block(10, <<Factor("last_vs_close", 4, FALSE), Factor("intraday_range", 3, FALSE)>>) >>

EvidenceBlocks ==
  << Block(20, <<Factor("trade_value", 7, TRUE), Factor("volume", 5, TRUE)>>),
     Block(25, <<Factor("time_value_ratio", 5, FALSE)>>),
     Block(18, <<Factor("breakeven_distance", 10, FALSE), Factor("leverage", 5, TRUE),
                 Factor("moneyness", 3, FALSE)>>),
     Block(15, <<Factor("calendar_days", 2, FALSE)>>),
     Block(10, <<Factor("last_vs_close", 4, FALSE), Factor("intraday_range", 3, FALSE)>>) >>

\* Times any weight of a block, a multiple of what any of its factors weigh together.
Scale == 5460

\* What is there, times its weight; what is missing has none.
Weighed(ranks, weights) == Total([k \in DOMAIN ranks |-> IF ranks[k] = NA THEN 0 ELSE ranks[k] * weights[k]])
WeightOf(ranks, weights) == Total([k \in DOMAIN ranks |-> IF ranks[k] = NA THEN 0 ELSE weights[k]])

\* What one block gives a row: points, or nothing where it has no factor.
BlockPoints(block, features, S, i) ==
  LET ranks == Each(block.factors, LAMBDA f : RankOf(f, features, S, i))
      weights == Each(block.factors, LAMBDA f : f.weight)
      weight == WeightOf(ranks, weights)
  IN IF weight = 0 THEN NA ELSE (Scale * block.weight * Weighed(ranks, weights)) \div weight

\* The points of the blocks it has out of all that they weigh, to the nearest of the parts.
Score(blocks, features, S, i) ==
  LET points == Each(blocks, LAMBDA b : BlockPoints(b, features, S, i))
      best == WeightOf(points, Each(blocks, LAMBDA b : b.weight)) * Scale * Whole
  IN IF best = 0 THEN NA
     ELSE (2 * Grain * Weighed(points, Each(blocks, LAMBDA b : 1)) + best) \div (2 * best)

\* The score of each row of S.
Scores(blocks, features, S) ==
  [i \in DOMAIN features |-> IF i \in S THEN Score(blocks, features, S, i) ELSE NA] \o <<>>

EconomicScores(rows, S) == Scores(EconomicBlocks, Each(rows, EconomicFeatures), S)
EvidenceScores(rows, S) == Scores(EvidenceBlocks, Each(rows, EvidenceFeatures), S)

\* No score is below all scores.
Beats(a, b) == a > b

\* The rows that have a score, by a stable sort.
RankOrder(scores) ==
  Arranged({i \in DOMAIN scores : Known(scores[i])},
           {p \in (DOMAIN scores) \X (DOMAIN scores) :
              \/ Beats(scores[p[1]], scores[p[2]])
              \/ scores[p[1]] = scores[p[2]] /\ p[1] < p[2]})

-------------------------------------------------------------------------------
RankingCalled == NotCalled /\ \E rows \in Universes : Given("ranking", rows)

HigherIsBetter == {"trade_value", "volume", "intrinsic_coverage", "leverage_efficiency", "leverage"}
AsGood(a, b, factor) == IF factor \in HigherIsBetter THEN Within(b, a) ELSE Within(a, b)

NotWorse(f, g) ==
  \A c \in DOMAIN f : (f[c] = NoFeature) = (g[c] = NoFeature) /\ AsGood(f[c], g[c], c)

\* A row that is as good as another in every factor, and has the same factors, never has
\* the lower score: the directions of the factors, the weights and the missing values
\* agree, whatever the third row is.
DominanceIsRanked ==
  case.engine = "ranking" =>
    LET all == DOMAIN case.in
        economic == Each(case.in, EconomicFeatures)
        evidence == Each(case.in, EvidenceFeatures)
        first == EconomicScores(case.in, all)
        second == EvidenceScores(case.in, all)
    IN \A i, j \in all :
         /\ NotWorse(economic[i], economic[j]) => ~Beats(first[j], first[i])
         /\ NotWorse(evidence[i], evidence[j]) => ~Beats(second[j], second[i])

\* A score is a percentage, and a row that is the best in all it has, alone in it or not,
\* has all of it: what is missing is left out of the score and counts as no zero.
MissingIsNoZero ==
  case.engine = "ranking" =>
    LET all == DOMAIN case.in
        scores == EconomicScores(case.in, all)
        features == Each(case.in, EconomicFeatures)
        There(c) == {j \in all : features[j][c] # NoFeature}
        Best(i) == \A c \in DOMAIN features[i] :
          i \in There(c) => \A j \in There(c) \ {i} :
            AsGood(features[i][c], features[j][c], c)
            /\ (c \notin HigherIsBetter => ~AsGood(features[j][c], features[i][c], c))
    IN \A i \in all :
         /\ Known(scores[i]) => scores[i] \in 0..Grain
         /\ Known(scores[i]) /\ Best(i) => scores[i] = Grain
===============================================================================
