------------------------------ MODULE ShadowCases ------------------------------
(***************************************************************************)
(* The opportunity shadow (opportunity_engine.py and the engines run_shadow *)
(* calls): cases of each scored contract and of each chain of contracts,   *)
(* their eligibility, the challenges of the red team, what explains them,  *)
(* where they are routed and how they cluster.  Each engine finds the row  *)
(* of a case again by its symbol.  Percentages and ranks are integers.     *)
(* A definition named Slip... is a mistake that a change of the code could *)
(* make in the definition after it; each breaks a property stated below.   *)
(***************************************************************************)
EXTENDS EngineCases

CONSTANT ScoredTables   \* the scored tables: sequences of rows

ScoredRow ==
  [name : STRING, written : STRING, underlying : STRING, expiry : STRING, strike : Int, type : STRING, flagged : BOOLEAN,
   last : Int, base : Int, days : Int, score : Int, leverage : Int, valuation : Int, diff : Int, liquidity : Int,
   breakeven : Int, distance : Int, penalty : Int, confidence : Int, ulast : Int, uclose : Int]

ASSUME TableAssumption == ScoredTables \subseteq Seq(ScoredRow)

NaNStrike == 0   \* an empty cell of the strike's column: a number to the code

\* A symbol is its name and how it is written; a chain's key takes the place of a symbol.
CleanText(symbol) == <<symbol[1], "plain">>
CaseSymbol(r) == <<r.name, r.written>>

\* The last row with that symbol, where an engine builds a dictionary of the rows.
RowOf(rows, symbol) ==
  LET S == {i \in DOMAIN rows : CaseSymbol(rows[i]) = symbol}
  IN IF S = {} THEN <<>> ELSE <<rows[Max(S)]>>

-------------------------------------------------------------------------------
\* eligibility_shadow.py: classify_row (production_min_leverage_reference is 3.5).
ClassifyRow(r) ==
  FirstOf(<<<<"INVALID_MARKET_DATA", r.last <= 0 \/ r.base <= 0>>,
            <<"MISSING_REMAINING_DAYS", r.days = NA>>,
            <<"EXPIRED", r.days <= 0>>,
            <<"UNSCORABLE", r.score = NA>>,
            <<"LEVERAGE_UNAVAILABLE", r.leverage = NA>>,
            <<"LEVERAGE_LOW", 10 * r.leverage < 35>>>>, "ACTIVE_ELIGIBLE")

EligibilityOf(rows, symbol) ==
  LET r == RowOf(rows, symbol) IN IF r = <<>> THEN "CHAIN_LEVEL" ELSE ClassifyRow(r[1])

\* What is known and what is missing of a case's evidence; what of it is derived, or
\* is a difference that no rule explains.
EvidenceSplit(S) == [known |-> {e[1] : e \in {x \in S : Known(x[2])}},
                 missing |-> {e[1] : e \in {x \in S : ~Known(x[2])}}]

ShadowCase(type, symbol, status, evidence, key) ==
  [type |-> type, symbol |-> symbol, status |-> status, evidence |-> EvidenceSplit(evidence), key |-> key]

Graded(confirmed, watch) ==
  IF confirmed THEN "CONFIRMED" ELSE IF watch THEN "WATCH" ELSE "REJECTED"

Confident(r) == Known(r.confidence) /\ r.confidence >= 90
LiquidEnough(r) == Known(r.liquidity) /\ 100 * r.liquidity >= 75 * 20

RelativeValueCase(r) ==
  ShadowCase("RELATIVE_VALUE_ANOMALY", CaseSymbol(r),
    IF r.valuation = NA THEN "INSUFFICIENT_DATA"
    ELSE Graded(r.valuation >= 85 /\ Confident(r) /\ LiquidEnough(r), r.valuation >= 85),
    {<<"black_scholes_difference_score", r.valuation>>}
      \cup (IF r.valuation = NA THEN {} ELSE {<<"raw_black_scholes_difference", r.diff>>})
      \cup (IF r.valuation # NA /\ r.liquidity # NA THEN {<<"liquidity_block_score", r.liquidity>>} ELSE {}),
    0)

BreakevenCase(r) ==
  ShadowCase("BREAKEVEN_COMPRESSION", CaseSymbol(r),
    IF r.breakeven = NA \/ r.distance = NA THEN "INSUFFICIENT_DATA"
    ELSE Graded(r.breakeven >= 80 /\ Confident(r), r.breakeven >= 80),
    {<<"breakeven_score", r.breakeven>>, <<"breakeven_distance_pct", r.distance>>}, 0)

ContextCases(r) ==
  IF Known(r.ulast) /\ r.uclose \notin {NA, 0} /\ Known(r.distance)
  THEN <<ShadowCase("BASE_BREAKEVEN_CONTEXT", CaseSymbol(r), "WATCH",
           {<<"underlying_last_price", r.ulast>>, <<"breakeven_distance_pct", r.distance>>}, 0)>>
  ELSE <<>>

LiquidityCase(r) ==
  ShadowCase("LIQUIDITY_CONFIRMED", CaseSymbol(r),
    IF r.liquidity = NA \/ r.penalty = NA THEN "INSUFFICIENT_DATA"
    ELSE Graded(LiquidEnough(r) /\ r.penalty <= 10, LiquidEnough(r)),
    {<<"liquidity_block_score", r.liquidity>>, <<"execution_penalty", r.penalty>>}, 0)

RiskCase(r) ==
  ShadowCase("NEAR_EXPIRY_RISK", CaseSymbol(r),
    IF r.days = NA THEN "INSUFFICIENT_DATA" ELSE Graded(r.days <= 10, FALSE),
    {<<"remaining_days", r.days>>}, 0)

ContractCases(r) ==
  IF r.name = "" THEN <<>>
  ELSE <<RelativeValueCase(r)>> \o ContextCases(r) \o <<BreakevenCase(r), LiquidityCase(r), RiskCase(r)>>

-------------------------------------------------------------------------------
\* build_chain_identity: the rows whose underlying, expiry and strike are given.
ValidIdentity(r) == r.underlying # "" /\ r.expiry # ""
ChainKey(r) == <<r.underlying, r.expiry, "chain">>
ChainRows(rows, key) == {i \in DOMAIN rows : ValidIdentity(rows[i]) /\ ChainKey(rows[i]) = key}
ChainKeys(rows) == {ChainKey(rows[i]) : i \in {j \in DOMAIN rows : ValidIdentity(rows[j])}}

SlipNeighboursOnly(rows, chain) ==
  \E i, j \in chain :
    j = i + 1 /\ rows[i].strike # NaNStrike /\ rows[i].strike = rows[j].strike /\ rows[i].type = rows[j].type

\* Two rows of the chain with one strike and one type; an empty cell equals nothing.
DuplicateIdentities(rows, chain) ==
  \E i, j \in chain :
    i < j /\ rows[i].strike # NaNStrike /\ rows[i].strike = rows[j].strike /\ rows[i].type = rows[j].type

\* The scored row that a chain's member is found at again, by its cleaned symbol, and its
\* identity; what has no symbol is not found.
MemberRow(rows, i) == IF rows[i].name = "" THEN <<>> ELSE RowOf(rows, CleanText(CaseSymbol(rows[i])))
FoundMembers(rows, chain) == {i \in chain : MemberRow(rows, i) # <<>>}
IdentitiesOf(rows, i) ==
  {j \in DOMAIN rows : ValidIdentity(rows[j]) /\ CleanText(CaseSymbol(rows[j])) = CleanText(CaseSymbol(rows[i]))}

\* _chain_cases takes the first identity of a symbol, analyze_chain the last.
IdentityOf(rows, i, which) ==
  rows[IF which = "first" THEN Min(IdentitiesOf(rows, i)) ELSE Max(IdentitiesOf(rows, i))]

MembersAs(rows, chain, type, which) ==
  {i \in FoundMembers(rows, chain) : IdentityOf(rows, i, which).type = type}
StrikesOf(rows, chain, type, which) ==
  {IdentityOf(rows, i, which).strike : i \in MembersAs(rows, chain, type, which)} \ {NaNStrike}

CommonStrikes(rows, chain, which) ==
  StrikesOf(rows, chain, "CALL", which) \cap StrikesOf(rows, chain, "PUT", which)

ScoredMembers(rows, chain) == {i \in FoundMembers(rows, chain) : Known(MemberRow(rows, i)[1].score)}

Dispersed(rows, chain) ==
  LET scores == {MemberRow(rows, i)[1].score : i \in ScoredMembers(rows, chain)}
  IN Cardinality(ScoredMembers(rows, chain)) >= 2 /\ Max(scores) - Min(scores) >= 20

ChainCasesOf(rows, key) ==
  LET chain == ChainRows(rows, key)
      of(type, name) == ShadowCase(type, key, "WATCH", {<<name, 1>>}, 0)
  IN IF ~Dispersed(rows, chain) THEN <<>>
     ELSE <<of("CHAIN_STRUCTURE_ANOMALY", "score_dispersion")>>
          \o (IF ~DuplicateIdentities(rows, chain) /\ CommonStrikes(rows, chain, "first") # {}
              THEN <<of("CALL_PUT_STRUCTURE_AVAILABLE", "common_strikes")>> ELSE <<>>)

\* relative_value_shadow.py: a case of each strike with a call and a put, from the fields
\* that both sides have.
SideAt(rows, chain, type, strike) ==
  MemberRow(rows, Max({i \in MembersAs(rows, chain, type, "last") : IdentityOf(rows, i, "last").strike = strike}))[1]

PairFields(r) == <<r.last, r.distance, r.diff, r.liquidity, r.confidence>>

PairCase(rows, key, strike) ==
  LET chain == ChainRows(rows, key)
      c == PairFields(SideAt(rows, chain, "CALL", strike))
      p == PairFields(SideAt(rows, chain, "PUT", strike))
      both == {i \in 1..5 : Known(c[i]) /\ Known(p[i])}
  IN ShadowCase("RELATIVE_PAIR_STRUCTURE", key,
       IF Cardinality(both) < 2 THEN "INSUFFICIENT_DATA" ELSE "WATCH",
       {<<"strike", strike>>} \cup {<<"absolute_difference_", 1>> : i \in both}
         \cup {<<"call_or_put_", NA>> : i \in 1..5 \ both}, strike)

PairCases(rows, key) ==
  LET chain == ChainRows(rows, key)
  IN IF DuplicateIdentities(rows, chain) THEN <<>>
     ELSE Each(SortedBy(SetToSeq(CommonStrikes(rows, chain, "last")), LAMBDA k : k), LAMBDA k : PairCase(rows, key, k))

-------------------------------------------------------------------------------
IsRisk(c) == c.type = "NEAR_EXPIRY_RISK"

\* An expired contract remains visible; its cases, except the risk, are rejected.
Barred(rows, c) ==
  IF EligibilityOf(rows, c.symbol) = "EXPIRED" /\ ~IsRisk(c) THEN [c EXCEPT !.status = "REJECTED"] ELSE c

ChainCases(rows) ==
  FlattenSeq(Each(SetToSeq(ChainKeys(rows)), LAMBDA k : ChainCasesOf(rows, k)))
    \o FlattenSeq(Each(SetToSeq(ChainKeys(rows)), LAMBDA k : PairCases(rows, k)))

ShadowRun(rows) ==
  Each(FlattenSeq(Each(rows, ContractCases)) \o ChainCases(rows), LAMBDA c : Barred(rows, c))

\* red_team_shadow.py: the challenges of a case, by the row with its symbol.
ChallengesOf(rows, c) ==
  IF RowOf(rows, c.symbol) = <<>> THEN {"ROW_NOT_FOUND"}
  ELSE LET r == RowOf(rows, c.symbol)[1]
       IN {n \in {"FLAG", "LOW_CONFIDENCE", "LIQUIDITY", "EXECUTION", "EXPIRY"} :
             \/ n = "FLAG" /\ r.flagged
             \/ n = "LOW_CONFIDENCE" /\ Known(r.confidence) /\ r.confidence < 90
             \/ n = "LIQUIDITY" /\ Known(r.liquidity) /\ r.liquidity < 15
             \/ n = "EXECUTION" /\ Known(r.penalty) /\ r.penalty > 10
             \/ n = "EXPIRY" /\ Known(r.days) /\ r.days <= 10 /\ ~IsRisk(c)}

\* attention_allocation_shadow.py, for a history without patterns.
RouteOf(rows, c) ==
  FirstOf(<<<<"RED_TEAM_REVIEW", ChallengesOf(rows, c) # {}>>,
            <<"DATA_COMPLETION", c.status = "INSUFFICIENT_DATA">>,
            <<"EVIDENCE_REVIEW", c.status = "CONFIRMED">>,
            <<"FOLLOW_UP", c.status = "WATCH">>>>, "CONTEXT_ONLY")

\* case_explanation_shadow.py.
Unexplained == {"black_scholes_difference_score", "raw_black_scholes_difference", "breakeven_distance_pct"}

ExplanationOf(rows, c) ==
  FirstOf(<<<<"RED_TEAM_CHALLENGED", ChallengesOf(rows, c) # {}>>,
            <<"DATA_GAPS_PRESENT", c.evidence.missing # {}>>,
            <<"UNEXPLAINED_EVIDENCE", c.evidence.known \cap Unexplained # {}>>>>, "STRUCTURALLY_EXPLAINED")

-------------------------------------------------------------------------------
\* opportunity_evidence_cluster.py: the families of a symbol's active cases.
CaseFamily(c) ==
  CASE c.type \in {"RELATIVE_VALUE_ANOMALY", "CALL_PUT_STRUCTURE_AVAILABLE"} -> "RELATIVE_VALUE"
    [] c.type = "BREAKEVEN_COMPRESSION" -> "BREAKEVEN"
    [] c.type = "BASE_BREAKEVEN_CONTEXT" -> "BASE_CONTEXT"
    [] c.type = "LIQUIDITY_CONFIRMED" -> "LIQUIDITY_EXECUTION"
    [] c.type = "CHAIN_STRUCTURE_ANOMALY" -> "CHAIN_STRUCTURE"
    [] c.type = "NEAR_EXPIRY_RISK" -> "TIME_RISK"
    [] OTHER -> "OTHER"

ActiveCase(rows, c) ==
  IF EligibilityOf(rows, c.symbol) = "EXPIRED" THEN IsRisk(c) ELSE c.status \in {"CONFIRMED", "WATCH"}

MembersOf(rows, cases, symbol) ==
  {i \in DOMAIN cases : cases[i].symbol = symbol /\ ActiveCase(rows, cases[i])}
FamiliesOf(rows, cases, symbol) == {CaseFamily(cases[i]) : i \in MembersOf(rows, cases, symbol)}
ClusterSymbols(rows, cases) ==
  {s \in {cases[i].symbol : i \in DOMAIN cases} : Cardinality(FamiliesOf(rows, cases, s)) >= 2}

\* The red team's answer has its cases under "cases", the cluster asks it for "challenges".
RedTeamChallenges(rows, cases) == {}
Contradictions(rows, cases, symbol) ==
  MembersOf(rows, cases, symbol) \cap RedTeamChallenges(rows, cases)

ShadowCalled == NotCalled /\ \E rows \in ScoredTables : Given("shadow", rows)

ShadowSpec == CasesInit /\ [][ShadowCalled]_case

Answered(P(_, _)) == case.engine = "shadow" => P(case.in, ShadowRun(case.in))

-------------------------------------------------------------------------------
\* There is one row with that symbol, or none.
Alone(rows, symbol) ==
  \A i, j \in DOMAIN rows : CaseSymbol(rows[i]) = symbol /\ CaseSymbol(rows[j]) = symbol => i = j

\* What the red team can say against the grounds on which a case is confirmed.
AgainstGrounds(type) ==
  CASE type = "RELATIVE_VALUE_ANOMALY" -> {"LIQUIDITY", "LOW_CONFIDENCE"}
    [] type = "BREAKEVEN_COMPRESSION" -> {"LOW_CONFIDENCE"}
    [] type = "LIQUIDITY_CONFIRMED" -> {"LIQUIDITY", "EXECUTION"}
    [] OTHER -> {}

\* The engine takes its thresholds from opportunity_config.py (a share of the block's weight,
\* a rank), the red team has figures of its own, and both draw one line: a contract's case is
\* not challenged on the grounds that confirmed it, one that is not liquid or not cheap enough
\* to trade is, and the others are told to be near their expiry if the risk is confirmed.
LinesAgree ==
  Answered(LAMBDA rows, cases :
    \A i \in DOMAIN cases : Alone(rows, cases[i].symbol) =>
      LET c == cases[i]
          against == ChallengesOf(rows, c)
      IN /\ c.status = "CONFIRMED" => against \cap AgainstGrounds(c.type) = {}
         /\ c.type = "LIQUIDITY_CONFIRMED" /\ c.status \in {"WATCH", "REJECTED"} =>
              against \cap {"LIQUIDITY", "EXECUTION", "EXPIRY"} # {}
         /\ IsRisk(c) => \A j \in DOMAIN cases : cases[j].symbol = c.symbol /\ ~IsRisk(cases[j]) =>
              ("EXPIRY" \in ChallengesOf(rows, cases[j]) <=> c.status = "CONFIRMED"))

\* A case whose data is insufficient is never said to be explained, and none that is a
\* gap is routed as one that was reviewed.
GapsAreTold ==
  Answered(LAMBDA rows, cases :
    \A i \in DOMAIN cases : cases[i].status = "INSUFFICIENT_DATA" =>
      /\ ExplanationOf(rows, cases[i]) \in {"RED_TEAM_CHALLENGED", "DATA_GAPS_PRESENT"}
      /\ RouteOf(rows, cases[i]) \in {"RED_TEAM_REVIEW", "DATA_COMPLETION"})

\* An expired contract has no active case and no cluster, whichever rows share its symbol;
\* its risk remains observable.
ExpiredIsInactive ==
  Answered(LAMBDA rows, cases :
    \A i \in DOMAIN cases : EligibilityOf(rows, cases[i].symbol) = "EXPIRED" =>
      /\ ~IsRisk(cases[i]) => cases[i].status = "REJECTED"
      /\ \E j \in DOMAIN cases : cases[j].symbol = cases[i].symbol /\ IsRisk(cases[j]) /\ cases[j].status = "CONFIRMED"
      /\ cases[i].symbol \notin ClusterSymbols(rows, cases))

\* A name is of one contract, however it is written.
OneContractEach(rows) ==
  \A i, j \in DOMAIN rows : rows[i].name = rows[j].name =>
    /\ rows[i].underlying = rows[j].underlying /\ rows[i].expiry = rows[j].expiry
    /\ rows[i].strike = rows[j].strike /\ rows[i].type = rows[j].type

\* Where a name is of one contract, the rows that a pair is found at again by their symbols
\* are the call and the put of its strike in its chain, and the chain has no other; what one
\* engine says has both sides, the other compares, though the one takes the first identity of
\* a symbol and the other the last.
PairsAreTrue ==
  Answered(LAMBDA rows, cases : OneContractEach(rows) =>
    \A i \in DOMAIN cases :
      LET c == cases[i]
          chain == ChainRows(rows, c.symbol)
      IN /\ c.type = "RELATIVE_PAIR_STRUCTURE" => \A type \in {"CALL", "PUT"} :
              LET side == SideAt(rows, chain, type, c.key)
              IN /\ ValidIdentity(side) /\ ChainKey(side) = c.symbol /\ side.type = type /\ side.strike = c.key
                 /\ \A a, b \in chain : (/\ rows[a].type = type /\ rows[a].strike = c.key
                                          /\ rows[b].type = type /\ rows[b].strike = c.key) => a = b
         /\ c.type = "CALL_PUT_STRUCTURE_AVAILABLE" =>
              \E j \in DOMAIN cases : cases[j].symbol = c.symbol /\ cases[j].type = "RELATIVE_PAIR_STRUCTURE")

\* What the red team has against a case is retained in the cluster of its symbol
\* (test_contradictory_red_team_evidence_is_retained of tests/test_opportunity_evidence_cluster.py).
ContradictionsRetained ==
  Answered(LAMBDA rows, cases :
    \A s \in ClusterSymbols(rows, cases) :
      (\E i \in MembersOf(rows, cases, s) : ChallengesOf(rows, cases[i]) # {}) => Contradictions(rows, cases, s) # {})

\* A case is told of, routed and clustered by what is known of its contract.
CasesAreSound == LinesAgree /\ GapsAreTold /\ ExpiredIsInactive /\ PairsAreTrue
===============================================================================
