----------------------------- MODULE EngineProofs -----------------------------
(***************************************************************************)
(* Proofs about the engines that rank, gate and audit a report: each for   *)
(* any input, and not only for the few rows that TLC is given.             *)
(*                                                                         *)
(* What they need of data is stated once.  A function that is computed     *)
(* from element to element has a value wherever its steps stay in a set    *)
(* (Folded); an invariant of it holds at each element because there is no  *)
(* smallest one where it fails (Smallest).  In a finite set with an order  *)
(* each place is one element's (EachIsBefore, BeforeIsOne), so that what   *)
(* sorts by counting who is ahead gives each element once.                 *)
(*                                                                         *)
(* OptionGates: the verdicts on a contract and on its share.  The two      *)
(* gates agree by the order of their rules.  That a direction has three    *)
(* families behind it is a matter of their points: those of one family     *)
(* alone do not reach the score of a direction (OneIsNotEnough).  That     *)
(* the engine has no preference is one fact of each family                 *)
(* (FamiliesTurned).                                                       *)
(*                                                                         *)
(* UniverseAudit: what was seen of the market.  The rows of a flow are     *)
(* taken one by one and those of a flow after those of the one before      *)
(* (FlowKeeps, UniverseIs); the evidence of each flow says whether it was  *)
(* reached (Evident), and the audit follows from that alone.               *)
(*                                                                         *)
(* LastMinuteRanking: the last-minute report.  A candidate that is not     *)
(* shown met, at its place in the order, a full display or three of its    *)
(* underlying, and what was shown then is what is better than it           *)
(* (PickedIs).  Two of three components cannot be above sixty in both      *)
(* directions (OneDirection).  A share that is not on the watch has ten    *)
(* stronger ones there (WatchIsFull).                                      *)
(*                                                                         *)
(* UnderlyingTrend: what the history of a share says of it.  Sessions are  *)
(* put in order by counting the sooner ones, and an answer that is turned  *)
(* has as many before each of them (TurnedIs).  A rule's name is told only *)
(* where that rule holds (NamedRule), so the structure and the correction  *)
(* compare the same two averages, and an early move has its three dates.   *)
(*                                                                         *)
(* SnapshotHistories: what the archived snapshots say.  Put in order by    *)
(* counting, archives in order stay as they are (NthStays), so a shorter   *)
(* history is read like the longer one's beginning (ForwardStays).  The    *)
(* engines' records are all of one transition (TransitionIs).  Candidates  *)
(* are nested because a percentile rises with its percent                  *)
(* (PercentileRises).                                                      *)
(*                                                                         *)
(* ShadowCases: the cases of the scored contracts and chains.  A case of a *)
(* run is one of a contract or of a chain (ShadowRunIs, by FlatHolds for   *)
(* the sequences that are put end to end); the key of a chain is no        *)
(* contract's symbol (NoSuchSymbol), and a gap in a case's status is one   *)
(* in its evidence (Gapped).                                               *)
(***************************************************************************)
EXTENDS OptionGates, LastMinuteRanking, UniverseAudit, UnderlyingTrend, SnapshotHistories, ShadowCases,
        WellFoundedInduction, FiniteSetTheorems, TLAPS


-------------------------------------------------------------------------------
\* A set of natural numbers has a smallest.
LEMMA Smallest ==
  ASSUME NEW T \in SUBSET Nat, T # {}
  PROVE  \E x \in T : \A y \in T : x <= y
<1>1. \E x \in T : \A y \in T : <<y, x>> \notin OpToRel(<, Nat)
  BY NatLessThanWellFounded, WFMin
<1>2. \A x, y \in Nat : <<y, x>> \notin OpToRel(<, Nat) => x <= y
  BY DEF OpToRel
<1> QED BY <1>1, <1>2

-------------------------------------------------------------------------------
\* A step is a function of an element's place and of what was computed before it.
StaysIn(S, step, last) == \A n \in 1..last, y \in S : step[n][y] \in S
Computes(f, x, step, last) == f[0] = x /\ \A n \in 1..last : f[n] = step[n][f[n - 1]]

\* What is computed from element to element, by a step that stays in a set, has its
\* recursive function.
LEMMA Folded ==
  ASSUME NEW S, NEW x \in S, NEW last \in Nat, NEW step, StaysIn(S, step, last)
  PROVE  \E f \in [0..last -> S] : Computes(f, x, step, last)
<1> DEFINE Turn(f, n) == [i \in 0..n |-> IF i = 0 THEN x ELSE step[i][f[i - 1]]]
           Missing == {n \in 0..last : ~\E f : f = Turn(f, n)}
<1>1. \E f : f = Turn(f, last)
  <2>0. (Missing = {}) => \E f : f = Turn(f, last)
    <3>1. last \in 0..last OBVIOUS
    <3> QED BY <3>1
  <2>1. SUFFICES ASSUME Missing # {} PROVE FALSE BY <2>0
  <2>2. Missing \in SUBSET Nat OBVIOUS
  <2> HIDE DEF Missing
  <2>3. PICK n \in Missing : \A m \in Missing : n <= m BY <2>1, <2>2, Smallest
  <2>4. n \in 0..last /\ ~\E f : f = Turn(f, n) BY DEF Missing
  <2>5. CASE n = 0
    <3>1. PICK f : f = [i \in 0..0 |-> x] OBVIOUS
    <3>2. f = Turn(f, 0) BY <3>1
    <3> QED BY <2>4, <2>5, <3>2
  <2>6. CASE n # 0
    <3>1. n - 1 \in 0..last /\ ~(n <= n - 1) BY <2>4, <2>6
    <3>2. PICK f : f = Turn(f, n - 1) BY <2>3, <3>1 DEF Missing
    <3>3. PICK h : h = Turn(f, n) OBVIOUS
    <3>4. \A i \in 0..n - 1 : h[i] = f[i]
      <4>1. \A i \in 0..n - 1 : f[i] = IF i = 0 THEN x ELSE step[i][f[i - 1]] BY <3>2
      <4>2. \A i \in 0..n - 1 : h[i] = IF i = 0 THEN x ELSE step[i][f[i - 1]] BY <2>4, <3>3
      <4> QED BY <4>1, <4>2
    <3>5. h = Turn(h, n)
      <4>1. \A i \in 0..n : (IF i = 0 THEN x ELSE step[i][f[i - 1]]) = IF i = 0 THEN x ELSE step[i][h[i - 1]]
        <5> TAKE i \in 0..n
        <5>1. CASE i # 0
          <6>1. i - 1 \in 0..n - 1 BY <2>4, <5>1
          <6> QED BY <3>4, <6>1
        <5> QED BY <5>1
      <4> QED BY <3>3, <4>1
    <3> QED BY <2>4, <3>5
  <2> QED BY <2>5, <2>6
<1>2. PICK f : f = Turn(f, last) BY <1>1
<1>3. f[0] = x /\ \A n \in 1..last : f[n] = step[n][f[n - 1]]
  <2>1. \A n \in 0..last : f[n] = IF n = 0 THEN x ELSE step[n][f[n - 1]] BY <1>2
  <2>2. f[0] = x
    <3>1. 0 \in 0..last OBVIOUS
    <3> QED BY <2>1, <3>1
  <2>3. ASSUME NEW n \in 1..last PROVE f[n] = step[n][f[n - 1]]
    <3>1. n \in 0..last /\ n # 0 OBVIOUS
    <3> QED BY <2>1, <3>1
  <2> QED BY <2>2, <2>3
<1> DEFINE Out == {n \in 0..last : f[n] \notin S}
<1>4. Out = {}
  <2> SUFFICES ASSUME Out # {} PROVE FALSE OBVIOUS
  <2>1. Out \in SUBSET Nat OBVIOUS
  <2> HIDE DEF Out
  <2>2. PICK n \in Out : \A m \in Out : n <= m BY <2>1, Smallest
  <2>3. n \in 0..last /\ f[n] \notin S BY DEF Out
  <2>4. n # 0 BY <1>3, <2>3
  <2>5. n - 1 \in 0..last /\ n \in 1..last /\ ~(n <= n - 1) BY <2>3, <2>4
  <2>6. f[n - 1] \in S BY <2>2, <2>5 DEF Out
  <2> QED BY <1>3, <2>3, <2>5, <2>6 DEF StaysIn
<1>5. f \in [0..last -> S] BY <1>2, <1>4
<1> QED BY <1>3, <1>5 DEF Computes

-------------------------------------------------------------------------------
\* An order of a finite set, as a set of pairs, and what is before an element in it.
IsOrder(S, R) ==
  /\ \A a \in S : <<a, a>> \notin R
  /\ \A a, b, c \in S : <<a, b>> \in R /\ <<b, c>> \in R => <<a, c>> \in R
  /\ \A a, b \in S : a = b \/ <<a, b>> \in R \/ <<b, a>> \in R

Before(S, R, a) == {b \in S : <<b, a>> \in R}

LEMMA BeforeIsFinite ==
  ASSUME NEW S, IsFiniteSet(S), NEW R, IsOrder(S, R), NEW a \in S
  PROVE  /\ IsFiniteSet(Before(S, R, a)) /\ Cardinality(S) \in Nat
         /\ Cardinality(Before(S, R, a)) \in 0..Cardinality(S) - 1
<1>1. PICK B : B = Before(S, R, a) OBVIOUS
<1>2. B \subseteq S /\ a \notin B BY <1>1 DEF Before, IsOrder
<1>3. IsFiniteSet(B) /\ Cardinality(B) <= Cardinality(S) /\ (Cardinality(S) = Cardinality(B) => S = B) BY <1>2, FS_Subset
<1>4. Cardinality(S) \in Nat /\ Cardinality(B) \in Nat BY <1>3, FS_CardinalityType
<1> QED BY <1>1, <1>2, <1>3, <1>4

LEMMA BeforeRises ==
  ASSUME NEW S, IsFiniteSet(S), NEW R, IsOrder(S, R), NEW a \in S, NEW b \in S, <<b, a>> \in R
  PROVE  Cardinality(Before(S, R, b)) < Cardinality(Before(S, R, a))
<1>1. PICK A, B : A = Before(S, R, a) /\ B = Before(S, R, b) OBVIOUS
<1>2. B \subseteq A /\ b \in A /\ b \notin B BY <1>1 DEF Before, IsOrder
<1>3. IsFiniteSet(A) BY <1>1, BeforeIsFinite
<1>4. IsFiniteSet(B) /\ Cardinality(B) <= Cardinality(A) /\ (Cardinality(A) = Cardinality(B) => A = B) BY <1>2, <1>3, FS_Subset
<1>5. Cardinality(A) \in Nat /\ Cardinality(B) \in Nat BY <1>3, <1>4, FS_CardinalityType
<1> QED BY <1>1, <1>2, <1>4, <1>5

\* As many are before an element as before no other, and for each number below that of the
\* set there is the element with so many before it.
LEMMA BeforeIsOne ==
  ASSUME NEW S, IsFiniteSet(S), NEW R, IsOrder(S, R), NEW a \in S, NEW b \in S,
         Cardinality(Before(S, R, b)) = Cardinality(Before(S, R, a))
  PROVE  a = b
<1>1. PICK m : m = Cardinality(Before(S, R, a)) OBVIOUS
<1>2. PICK n : n = Cardinality(Before(S, R, b)) OBVIOUS
<1>3. m \in Nat /\ n \in Nat /\ m = n BY <1>1, <1>2, BeforeIsFinite
<1>4. <<b, a>> \in R => n < m BY <1>1, <1>2, BeforeRises
<1>5. <<a, b>> \in R => m < n BY <1>1, <1>2, BeforeRises
<1> QED BY <1>3, <1>4, <1>5 DEF IsOrder

LEMMA EachIsBefore ==
  ASSUME NEW S, IsFiniteSet(S), NEW R, IsOrder(S, R), NEW n \in 1..Cardinality(S)
  PROVE  \E a \in S : Cardinality(Before(S, R, a)) = n - 1
<1>1. PICK size \in Nat : size = Cardinality(S) BY FS_CardinalityType
<1>2. PICK rank : rank = [a \in S |-> Cardinality(Before(S, R, a)) + 1] OBVIOUS
<1>3. \A a \in S : Cardinality(Before(S, R, a)) \in Nat /\ rank[a] = Cardinality(Before(S, R, a)) + 1 /\ rank[a] \in 1..size
  <2> TAKE a \in S
  <2>1. PICK m : m = Cardinality(Before(S, R, a)) OBVIOUS
  <2>2. m \in 0..size - 1 BY <1>1, <2>1, BeforeIsFinite
  <2>3. rank[a] = m + 1 BY <1>2, <2>1
  <2> QED BY <2>1, <2>2, <2>3
<1>4. \A a, b \in S : rank[a] = rank[b] => a = b
  <2> SUFFICES ASSUME NEW a \in S, NEW b \in S, rank[a] = rank[b] PROVE a = b OBVIOUS
  <2>1. Cardinality(Before(S, R, b)) = Cardinality(Before(S, R, a)) BY <1>3
  <2> QED BY <2>1, BeforeIsOne
<1>5. PICK T : T = 1..size OBVIOUS
<1>6. rank \in Injection(S, T) BY <1>2, <1>3, <1>4, <1>5 DEF Injection, IsInjective
<1>7. IsFiniteSet(T) /\ Cardinality(T) = size
  <2>1. PICK one, many \in Int : one = 1 /\ many = size OBVIOUS
  <2>2. IsFiniteSet(one..many) /\ Cardinality(one..many) = IF one > many THEN 0 ELSE many - one + 1 BY FS_Interval
  <2> QED BY <1>5, <2>1, <2>2
<1>8. rank \in Surjection(S, T) BY <1>1, <1>6, <1>7, FS_Injection
<1>9. n \in T BY <1>1, <1>5
<1>10. PICK a \in S : rank[a] = n BY <1>8, <1>9 DEF Surjection
<1> QED BY <1>1, <1>3, <1>10

-------------------------------------------------------------------------------
\* FirstOf gives the name of the first rule that holds, for any list of rules.
LEMMA FirstRule ==
  ASSUME NEW rules, NEW last \in Nat, DOMAIN rules = 1..last, NEW otherwise
  PROVE  \/ (\A i \in 1..last : ~rules[i][2]) /\ FirstOf(rules, otherwise) = otherwise
         \/ \E i \in 1..last : /\ rules[i][2] /\ \A k \in 1..i - 1 : ~rules[k][2]
                               /\ FirstOf(rules, otherwise) = rules[i][1]
<1> DEFINE Hits == {i \in DOMAIN rules : rules[i][2]}
<1>1. FirstOf(rules, otherwise) = IF Hits = {} THEN otherwise ELSE rules[Min(Hits)][1] BY DEF FirstOf
<1>2. CASE Hits = {}
  <2>1. \A i \in 1..last : ~rules[i][2] BY <1>2
  <2> QED BY <1>1, <1>2, <2>1
<1>3. CASE Hits # {}
  <2>1. Hits \in SUBSET Nat OBVIOUS
  <2>2. \A i \in 1..last : i \in Hits <=> rules[i][2] OBVIOUS
  <2>3. \A i \in Hits : i \in 1..last OBVIOUS
  <2> HIDE DEF Hits
  <2>4. \E i \in Hits : \A k \in Hits : i <= k BY <1>3, <2>1, Smallest
  <2>5. PICK i : i = Min(Hits) OBVIOUS
  <2>6. i \in Hits /\ \A k \in Hits : i <= k BY <2>4, <2>5 DEF Min
  <2>7. i \in 1..last /\ rules[i][2] BY <2>2, <2>3, <2>6
  <2>8. \A k \in 1..i - 1 : ~rules[k][2]
    <3> TAKE k \in 1..i - 1
    <3>1. k \in 1..last /\ ~(i <= k) BY <2>7
    <3> QED BY <2>2, <2>6, <3>1
  <2>9. FirstOf(rules, otherwise) = rules[i][1] BY <1>1, <1>3, <2>5
  <2> QED BY <2>7, <2>8, <2>9
<1> QED BY <1>2, <1>3

\* What the quality gate lets pass has an expiry, and not today or before, and its three prices.
LEMMA PassIsDated ==
  ASSUME NEW row, Tradability(row) = "PASS"
  PROVE  /\ row.expiry \notin {NoText, BadText} /\ ~(row.expiry <= 0)
         /\ \A p \in {row.underlying, row.premium, row.strike} : ~(p <= 0)
<1> DEFINE price == {row.underlying, row.premium, row.strike}
           rules == << <<"EXPIRY_UNAVAILABLE_OR_INVALID", row.expiry \in {NoText, BadText}>>,
                <<"EXPIRY_TODAY_OR_EXPIRED", row.expiry <= 0>>,
                <<"MISSING_PRICE_EVIDENCE", NA \in price>>,
                <<"INVALID_PRICE_EVIDENCE", \E p \in price : p <= 0>>,
                <<"NO_TRADE_ACTIVITY_EVIDENCE",
                  ~\E a \in {row.volume, row.value, row.count} : Positive(a)>>,
                <<"OTM_CONTRACT", row.type = "CALL" /\ row.underlying < row.strike>>,
                <<"OTM_CONTRACT", row.type = "PUT" /\ row.underlying > row.strike>>,
                <<"LAST_PRICE_LT_10_IRR", row.premium < 10>>,
                <<"LEVERAGE_GT_20X", row.underlying > 20 * row.premium>>,
                <<"EXTREME_PREMIUM_TO_UNDERLYING", 10000 * row.premium < 5 * row.underlying>> >>
<1>1. FirstOf(rules, "PASS") = "PASS" BY DEF Tradability
<1>2. DOMAIN rules = 1..10 OBVIOUS
<1>3. \A i \in 1..10 : rules[i][1] # "PASS" OBVIOUS
<1>4. rules[1][2] <=> row.expiry \in {NoText, BadText} OBVIOUS
<1>5. rules[2][2] <=> row.expiry <= 0 OBVIOUS
<1>9. rules[4][2] <=> \E p \in {row.underlying, row.premium, row.strike} : p <= 0 OBVIOUS
<1> HIDE DEF rules
<1>6. PICK r : r = rules OBVIOUS
<1>7. FirstOf(r, "PASS") = "PASS" /\ DOMAIN r = 1..10 /\ \A i \in 1..10 : r[i][1] # "PASS"
  BY <1>1, <1>2, <1>3, <1>6
<1>8. ~r[1][2] /\ ~r[2][2] /\ ~r[4][2]
  <2>1. CASE \A i \in 1..10 : ~r[i][2] BY <2>1
  <2>2. CASE \E i \in 1..10 : FirstOf(r, "PASS") = r[i][1] BY <1>7, <2>2
  <2>3. (\A i \in 1..10 : ~r[i][2]) \/ \E i \in 1..10 : FirstOf(r, "PASS") = r[i][1]
    <3>1. PICK n \in Nat : n = 10 OBVIOUS
    <3>2. PICK o : o = "PASS" OBVIOUS
    <3>3. DOMAIN r = 1..n BY <1>7, <3>1
    <3>4. (\A i \in 1..n : ~r[i][2]) \/ \E i \in 1..n : FirstOf(r, o) = r[i][1] BY <3>3, FirstRule
    <3> QED BY <3>1, <3>2, <3>4
  <2> QED BY <2>1, <2>2, <2>3
<1> QED BY <1>4, <1>5, <1>6, <1>8, <1>9

\* What eligibility says is expired or undated has no expiry after today.
LEMMA DatedIsEligible ==
  ASSUME NEW row, row.expiry \notin {NoText, BadText}, ~(row.expiry <= 0)
  PROVE  Eligibility(row) \notin {"EXPIRY_UNAVAILABLE", "EXPIRED_CONTRACT"}
<1> DEFINE rules == << <<"EXPIRY_UNAVAILABLE", ExpiryDate(row) = NA>>,
             <<"EXPIRED_CONTRACT", ExpiryDate(row) <= 0>>,
             <<"OPPORTUNITY_CANDIDATE", Traded(row) \/ TwoSided(row)>>,
             <<"INSUFFICIENT_ACTIVITY_EVIDENCE", 0 \in {row.volume, row.count}>>,
             <<"INSUFFICIENT_ACTIVITY_EVIDENCE", {row.volume, row.count} = {NA}>> >>
<1>1. ExpiryDate(row) = row.expiry BY DEF ExpiryDate
<1>2. row.expiry # NA BY DEF NA
<1>3. Eligibility(row) = FirstOf(rules, "RANKABLE") BY DEF Eligibility
<1>4. DOMAIN rules = 1..5 OBVIOUS
<1>5. ~rules[1][2] /\ ~rules[2][2] BY <1>1, <1>2
<1>6. \A i \in 3..5 : rules[i][1] \notin {"EXPIRY_UNAVAILABLE", "EXPIRED_CONTRACT"} OBVIOUS
<1> HIDE DEF rules
<1>7. PICK r : r = rules OBVIOUS
<1>8. DOMAIN r = 1..5 /\ ~r[1][2] /\ ~r[2][2] BY <1>4, <1>5, <1>7
<1>9. \A i \in 3..5 : r[i][1] \notin {"EXPIRY_UNAVAILABLE", "EXPIRED_CONTRACT"} BY <1>6, <1>7
<1>10. FirstOf(r, "RANKABLE") \notin {"EXPIRY_UNAVAILABLE", "EXPIRED_CONTRACT"}
  <2>1. CASE FirstOf(r, "RANKABLE") = "RANKABLE" BY <2>1
  <2>2. ASSUME NEW i \in 1..5, r[i][2], FirstOf(r, "RANKABLE") = r[i][1]
        PROVE  FirstOf(r, "RANKABLE") \notin {"EXPIRY_UNAVAILABLE", "EXPIRED_CONTRACT"}
    <3>1. i # 1 /\ i # 2 BY <1>8, <2>2
    <3>2. i \in 3..5 BY <3>1
    <3> QED BY <1>9, <2>2, <3>2
  <2> QED BY <1>8, <2>1, <2>2, FirstRule
<1> QED BY <1>3, <1>7, <1>10

-------------------------------------------------------------------------------
\* The families of a context by their names.
Trend(c) == IF c.trend = "UP" THEN 1 ELSE IF c.trend = "DOWN" THEN -1 ELSE 0
AveragesAt(c, sign) == {i \in DOMAIN c.averages : c.averages[i] = sign}
Above(c) == Cardinality(AveragesAt(c, 1)) - Cardinality(AveragesAt(c, -1))
Pairs(c) == Len(c.averages)
Rsi(c) == IF Known(c.rsi) THEN Side(c.rsi, 46, 54) ELSE 0
Macd(c) == IF Known(c.macd) THEN Sign(c.macd) ELSE 0
VolumeSide(c) == Side(SumOf(c.volumes), 95 * KnownIn(c.volumes), 105 * KnownIn(c.volumes))
BoardSide(c) == Sign((IF Known(c.imbalance) THEN Side(c.imbalance, -10, 10) ELSE 0)
                 + IF Known(c.power) THEN Side(c.power, 90, 110) ELSE 0)
Limit(c) == IF c.touched THEN 20 ELSE IF Known(c.headroom) /\ c.headroom <= 2 THEN 12 ELSE 0
Early(c) == IF Known(c.early) THEN Sign(c.early) ELSE 0

\* What Evidence gives, family by family.
LEMMA Families ==
  ASSUME NEW c, NEW e, e = Evidence(c)
  PROVE  /\ DOMAIN e = 1..9 /\ Len(e) = 9
         /\ e[1].direction = Early(c) /\ e[1].points = 0
         /\ e[2].direction = Trend(c) /\ e[2].points = 80 * Trend(c)
         /\ e[3].direction = Side(4 * Above(c), -Pairs(c), Pairs(c))
         /\ e[3].points = IF Pairs(c) > 0 THEN (60 * Above(c)) \div Pairs(c) ELSE 0
         /\ e[4].direction = Rsi(c) /\ e[4].points = 40 * Rsi(c)
         /\ e[5].direction = Macd(c) /\ e[5].points = 48 * Macd(c)
         /\ e[6].direction = Sign(SumOf(c.returns)) /\ e[6].points = 4 * Clip(SumOf(c.returns), -10, 10)
         /\ e[7].direction = VolumeSide(c) /\ e[7].points = 32 * VolumeSide(c)
         /\ e[8].direction = BoardSide(c) /\ e[8].points = 60 * BoardSide(c)
         /\ e[9].direction = Sign(Limit(c)) /\ e[9].points = Limit(c)
<1>1. e = <<Family("EARLY_MOVE", Early(c), 0),
            Family("TREND", Trend(c), 80 * Trend(c)),
            Family("MA", Side(4 * Above(c), -Pairs(c), Pairs(c)),
                   IF Pairs(c) > 0 THEN (60 * Above(c)) \div Pairs(c) ELSE 0),
            Family("RSI", Rsi(c), 40 * Rsi(c)),
            Family("MACD", Macd(c), 48 * Macd(c)),
            Family("PRICE_MOMENTUM", Sign(SumOf(c.returns)), 4 * Clip(SumOf(c.returns), -10, 10)),
            Family("VOLUME_VALUE", VolumeSide(c), 32 * VolumeSide(c)),
            Family("BOARD", BoardSide(c), 60 * BoardSide(c)),
            Family("LIMIT_STATE", Sign(Limit(c)), Limit(c))>>
  BY DEF Evidence, Early, Trend, Above, AveragesAt, Pairs, Rsi, Macd, VolumeSide, BoardSide, Limit
<1>2. DOMAIN e = 1..9 /\ Len(e) = 9 BY <1>1
<1>3. e[1].direction = Early(c) /\ e[1].points = 0 BY <1>1 DEF Family
<1>4. e[2].direction = Trend(c) /\ e[2].points = 80 * Trend(c) BY <1>1 DEF Family
<1>5. /\ e[3].direction = Side(4 * Above(c), -Pairs(c), Pairs(c))
      /\ e[3].points = IF Pairs(c) > 0 THEN (60 * Above(c)) \div Pairs(c) ELSE 0
  BY <1>1 DEF Family
<1>6. e[4].direction = Rsi(c) /\ e[4].points = 40 * Rsi(c) BY <1>1 DEF Family
<1>7. e[5].direction = Macd(c) /\ e[5].points = 48 * Macd(c) BY <1>1 DEF Family
<1>8. e[6].direction = Sign(SumOf(c.returns)) /\ e[6].points = 4 * Clip(SumOf(c.returns), -10, 10) BY <1>1 DEF Family
<1>9. e[7].direction = VolumeSide(c) /\ e[7].points = 32 * VolumeSide(c) BY <1>1 DEF Family
<1>10. e[8].direction = BoardSide(c) /\ e[8].points = 60 * BoardSide(c) BY <1>1 DEF Family
<1>11. e[9].direction = Sign(Limit(c)) /\ e[9].points = Limit(c) BY <1>1 DEF Family
<1> QED BY <1>2, <1>3, <1>4, <1>5, <1>6, <1>7, <1>8, <1>9, <1>10, <1>11

\* The averages the price is above or below are some of those there are.
LEMMA AboveIsBounded ==
  ASSUME NEW c \in Context
  PROVE  Pairs(c) \in 0..4 /\ Above(c) \in -Pairs(c)..Pairs(c)
<1>1. PICK n \in 0..4 : c.averages \in [1..n -> -1..1] BY DEF Context
<1>2. Pairs(c) = n /\ DOMAIN c.averages = 1..n BY <1>1 DEF Pairs
<1>3. IsFiniteSet(1..n) /\ Cardinality(1..n) = n
  <2>1. n \in Int /\ 1 \in Int /\ (1 > n => n = 0) OBVIOUS
  <2> QED BY <2>1, FS_Interval
<1>4. \A sign : AveragesAt(c, sign) \in SUBSET (1..n) BY <1>2 DEF AveragesAt
<1>5. \A sign : Cardinality(AveragesAt(c, sign)) \in 0..n
  <2> TAKE sign
  <2>1. IsFiniteSet(AveragesAt(c, sign)) /\ Cardinality(AveragesAt(c, sign)) <= n BY <1>3, <1>4, FS_Subset
  <2> QED BY <2>1, FS_CardinalityType
<1>6. PICK a \in 0..n, b \in 0..n : a = Cardinality(AveragesAt(c, 1)) /\ b = Cardinality(AveragesAt(c, -1)) BY <1>5
<1> QED BY <1>2, <1>6 DEF Above

\* What a family adds to the score and the side it is on: points of its side only, but for the
\* averages, whose side begins at a quarter of them.
LEMMA PointsOfSide ==
  ASSUME NEW c \in Context, NEW e, e = Evidence(c), NEW i \in 1..9
  PROVE  /\ e[i].direction \in -1..1 /\ e[i].points \in -80..80
         /\ e[i].direction # 1 => e[i].points <= IF i = 3 THEN 15 ELSE 0
         /\ e[i].direction # -1 => e[i].points >= IF i = 3 THEN -15 ELSE 0
<1> DEFINE Fits(f, slack) == /\ f.direction \in -1..1 /\ f.points \in -80..80
                             /\ f.direction # 1 => f.points <= slack
                             /\ f.direction # -1 => f.points >= -slack
<1>0. /\ c.trend \in {"", "UP", "DOWN", "MIXED"} /\ c.rsi \in Int /\ c.macd \in Int
      /\ c.returns \in Int \X Int /\ c.volumes \in Int \X Int
      /\ c.imbalance \in Int /\ c.power \in Int /\ c.headroom \in Int /\ c.early \in Int
  BY DEF Context, Figure
<1>1. Fits(e[1], 0)
  <2>1. e[1].direction = Early(c) /\ e[1].points = 0 BY Families
  <2>2. Early(c) \in -1..1 BY DEF Early, Sign
  <2> QED BY <2>1, <2>2
<1>2. Fits(e[2], 0)
  <2>1. e[2].direction = Trend(c) /\ e[2].points = 80 * Trend(c) BY Families
  <2>2. Trend(c) \in -1..1 BY DEF Trend
  <2> QED BY <2>1, <2>2
<1>3. Fits(e[3], 15)
  <2>1. PICK n \in 0..4, a \in Int : n = Pairs(c) /\ a = Above(c) /\ -n <= a /\ a <= n BY AboveIsBounded
  <2>2. e[3].direction = Side(4 * a, -n, n) /\ e[3].points = IF n > 0 THEN (60 * a) \div n ELSE 0 BY <2>1, Families
  <2>3. n \in {0, 1, 2, 3, 4} OBVIOUS
  <2> QED BY <2>1, <2>2, <2>3 DEF Side
<1>4. Fits(e[4], 0)
  <2>1. e[4].direction = Rsi(c) /\ e[4].points = 40 * Rsi(c) BY Families
  <2>2. Rsi(c) \in -1..1 BY DEF Rsi, Side
  <2> QED BY <2>1, <2>2
<1>5. Fits(e[5], 0)
  <2>1. e[5].direction = Macd(c) /\ e[5].points = 48 * Macd(c) BY Families
  <2>2. Macd(c) \in -1..1 BY DEF Macd, Sign
  <2> QED BY <2>1, <2>2
<1>6. Fits(e[6], 0)
  <2>1. PICK m \in Int : m = SumOf(c.returns)
    <3>1. c.returns[1] \in Int /\ c.returns[2] \in Int BY <1>0
    <3> QED BY <3>1 DEF SumOf, Amount, Known
  <2>2. e[6].direction = Sign(m) /\ e[6].points = 4 * Clip(m, -10, 10) BY <2>1, Families
  <2> QED BY <2>2 DEF Sign, Clip
<1>7. Fits(e[7], 0)
  <2>1. e[7].direction = VolumeSide(c) /\ e[7].points = 32 * VolumeSide(c) BY Families
  <2>2. VolumeSide(c) \in -1..1 BY DEF VolumeSide, Side
  <2> QED BY <2>1, <2>2
<1>8. Fits(e[8], 0)
  <2>1. e[8].direction = BoardSide(c) /\ e[8].points = 60 * BoardSide(c) BY Families
  <2>2. BoardSide(c) \in -1..1 BY DEF BoardSide, Sign
  <2> QED BY <2>1, <2>2
<1>9. Fits(e[9], 0)
  <2>1. e[9].direction = Sign(Limit(c)) /\ e[9].points = Limit(c) BY Families
  <2>2. Limit(c) \in {0, 12, 20} BY DEF Limit
  <2> QED BY <2>1, <2>2 DEF Sign
<1> QED BY <1>1, <1>2, <1>3, <1>4, <1>5, <1>6, <1>7, <1>8, <1>9

-------------------------------------------------------------------------------
\* Total of nine numbers is their sum: its recursive function satisfies its equations.
LEMMA TotalOfNine ==
  ASSUME NEW s, Len(s) = 9, \A i \in 1..9 : s[i] \in Int
  PROVE  Total(s) = s[1] + s[2] + s[3] + s[4] + s[5] + s[6] + s[7] + s[8] + s[9]
<1> DEFINE Turn(f, n) == [i \in 0..n |-> IF i = 0 THEN 0 ELSE f[i - 1] + s[i]]
           Missing == {n \in 0..9 : ~\E f : f = Turn(f, n)}
<1>1. \E f : f = Turn(f, 9)
  <2>0. (Missing = {}) => \E f : f = Turn(f, 9)
    <3>1. 9 \in 0..9 OBVIOUS
    <3> QED BY <3>1
  <2>1. SUFFICES ASSUME Missing # {} PROVE FALSE BY <2>0
  <2>2. Missing \in SUBSET Nat OBVIOUS
  <2> HIDE DEF Missing
  <2>3. PICK n \in Missing : \A m \in Missing : n <= m BY <2>1, <2>2, Smallest
  <2>4. n \in 0..9 /\ ~\E f : f = Turn(f, n) BY DEF Missing
  <2>5. CASE n = 0
    <3>1. PICK f : f = [i \in 0..0 |-> 0] OBVIOUS
    <3>2. f = Turn(f, 0) BY <3>1
    <3> QED BY <2>4, <2>5, <3>2
  <2>6. CASE n # 0
    <3>1. n - 1 \in 0..9 /\ ~(n <= n - 1) BY <2>4, <2>6
    <3>2. PICK f : f = Turn(f, n - 1) BY <2>3, <3>1 DEF Missing
    <3>3. PICK h : h = Turn(f, n) OBVIOUS
    <3>4. \A i \in 0..n - 1 : h[i] = f[i]
      <4>1. \A i \in 0..n - 1 : f[i] = IF i = 0 THEN 0 ELSE f[i - 1] + s[i] BY <3>2
      <4>2. \A i \in 0..n - 1 : h[i] = IF i = 0 THEN 0 ELSE f[i - 1] + s[i] BY <2>4, <3>3
      <4> QED BY <4>1, <4>2
    <3>5. h = Turn(h, n)
      <4>1. \A i \in 0..n : (IF i = 0 THEN 0 ELSE f[i - 1] + s[i]) = IF i = 0 THEN 0 ELSE h[i - 1] + s[i]
        <5> TAKE i \in 0..n
        <5>1. CASE i # 0
          <6>1. i - 1 \in 0..n - 1 BY <2>4, <5>1
          <6> QED BY <3>4, <6>1
        <5> QED BY <5>1
      <4> QED BY <3>3, <4>1
    <3> QED BY <2>4, <3>5
  <2> QED BY <2>5, <2>6
<1>2. PICK t : t = (CHOOSE f : f = Turn(f, 9)) OBVIOUS
<1>3. t = Turn(t, 9) BY <1>1, <1>2
<1>4. Total(s) = t[9] BY <1>2 DEF Total
<1>5. t[0] = 0 /\ \A i \in 1..9 : t[i] = t[i - 1] + s[i] BY <1>3
<1>6. /\ t[1] = 0 + s[1] /\ t[2] = t[1] + s[2] /\ t[3] = t[2] + s[3] /\ t[4] = t[3] + s[4] /\ t[5] = t[4] + s[5]
      /\ t[6] = t[5] + s[6] /\ t[7] = t[6] + s[7] /\ t[8] = t[7] + s[8] /\ t[9] = t[8] + s[9]
  <2>1. \A i \in {1, 2, 3, 4, 5, 6, 7, 8, 9} : t[i] = t[i - 1] + s[i] BY <1>5
  <2> QED BY <1>5, <2>1
<1>7. s[1] \in Int /\ s[2] \in Int /\ s[3] \in Int /\ s[4] \in Int /\ s[5] \in Int
      /\ s[6] \in Int /\ s[7] \in Int /\ s[8] \in Int /\ s[9] \in Int
  OBVIOUS
<1> QED BY <1>4, <1>6, <1>7

\* The score of a share is the sum of its points, if that is within the bounds.
LEMMA ScoreIs ==
  ASSUME NEW e, DOMAIN e = 1..9, \A i \in 1..9 : e[i].points \in Int
  PROVE  BiasScore(e) = Clip(e[1].points + e[2].points + e[3].points + e[4].points + e[5].points + e[6].points
                             + e[7].points + e[8].points + e[9].points, -400, 400)
<1>1. PICK s : s = [i \in DOMAIN e |-> e[i].points] OBVIOUS
<1>2. Len(s) = 9 /\ \A i \in 1..9 : s[i] = e[i].points BY <1>1
<1>3. Total(s) = s[1] + s[2] + s[3] + s[4] + s[5] + s[6] + s[7] + s[8] + s[9] BY <1>2, TotalOfNine
<1>4. s[1] = e[1].points /\ s[2] = e[2].points /\ s[3] = e[3].points /\ s[4] = e[4].points /\ s[5] = e[5].points
      /\ s[6] = e[6].points /\ s[7] = e[7].points /\ s[8] = e[8].points /\ s[9] = e[9].points
  BY <1>2
<1> QED BY <1>1, <1>3, <1>4 DEF BiasScore

\* How many families point to a side; if one at most, no two do.
LEMMA PointingIs ==
  ASSUME NEW e, DOMAIN e = 1..9, NEW sign
  PROVE  /\ Pointing(e, sign) \in Nat
         /\ Pointing(e, sign) <= 1 =>
              \A i, k \in 1..9 : e[i].direction = sign /\ e[k].direction = sign => i = k
<1>1. PICK S : S = {i \in DOMAIN e : e[i].direction = sign} OBVIOUS
<1>2. IsFiniteSet(S)
  <2>1. PICK n \in Int, m \in Int : m = 1 /\ n = 9 OBVIOUS
  <2>2. IsFiniteSet(m..n) BY FS_Interval
  <2>3. S \in SUBSET (m..n) BY <1>1, <2>1
  <2> QED BY <2>2, <2>3, FS_Subset
<1>3. Pointing(e, sign) = Cardinality(S) /\ Cardinality(S) \in Nat BY <1>1, <1>2, FS_CardinalityType DEF Pointing
<1>4. ASSUME Cardinality(S) <= 1, NEW i \in S, NEW k \in S PROVE i = k
  <2>1. Cardinality(S) = 1 BY <1>2, <1>3, <1>4, FS_EmptySet
  <2>2. PICK x : S = {x} BY <1>2, <2>1, FS_Singleton
  <2> QED BY <2>2
<1> QED BY <1>1, <1>3, <1>4

\* With one family at most for a side, the score does not reach it.
LEMMA OneIsNotEnough ==
  ASSUME NEW c \in Context, NEW e, e = Evidence(c)
  PROVE  /\ BiasScore(e) \in -400..400
         /\ Pointing(e, 1) <= 1 => BiasScore(e) < 140
         /\ Pointing(e, -1) <= 1 => BiasScore(e) > -140
<1>1. DOMAIN e = 1..9 BY Families
<1>2. \A i \in 1..9 : /\ e[i].points \in -80..80
                      /\ e[i].direction # 1 => e[i].points <= IF i = 3 THEN 15 ELSE 0
                      /\ e[i].direction # -1 => e[i].points >= IF i = 3 THEN -15 ELSE 0
  BY PointsOfSide
<1>31. PICK p1 : p1 = e[1].points OBVIOUS
<1>32. PICK p2 : p2 = e[2].points OBVIOUS
<1>33. PICK p3 : p3 = e[3].points OBVIOUS
<1>34. PICK p4 : p4 = e[4].points OBVIOUS
<1>35. PICK p5 : p5 = e[5].points OBVIOUS
<1>36. PICK p6 : p6 = e[6].points OBVIOUS
<1>37. PICK p7 : p7 = e[7].points OBVIOUS
<1>38. PICK p8 : p8 = e[8].points OBVIOUS
<1>39. PICK p9 : p9 = e[9].points OBVIOUS
<1>3. /\ p1 \in -80..80 /\ p2 \in -80..80 /\ p3 \in -80..80 /\ p4 \in -80..80 /\ p5 \in -80..80
      /\ p6 \in -80..80 /\ p7 \in -80..80 /\ p8 \in -80..80 /\ p9 \in -80..80
  <2>1. \A i \in {1, 2, 3, 4, 5, 6, 7, 8, 9} : e[i].points \in -80..80 BY <1>2
  <2> QED BY <2>1, <1>31, <1>32, <1>33, <1>34, <1>35, <1>36, <1>37, <1>38, <1>39
<1>4. PICK t \in Int : t = p1 + p2 + p3 + p4 + p5 + p6 + p7 + p8 + p9 BY <1>3
<1>5. BiasScore(e) = Clip(t, -400, 400)
  <2>1. \A i \in 1..9 : e[i].points \in Int
    <3> TAKE i \in 1..9
    <3>1. e[i].points \in -80..80 BY <1>2
    <3> QED BY <3>1
  <2>3. BiasScore(e) = Clip(e[1].points + e[2].points + e[3].points + e[4].points + e[5].points + e[6].points
                             + e[7].points + e[8].points + e[9].points, -400, 400)
    BY <1>1, <2>1, ScoreIs
  <2> QED BY <1>4, <2>3, <1>31, <1>32, <1>33, <1>34, <1>35, <1>36, <1>37, <1>38, <1>39
<1>6. ASSUME Pointing(e, 1) <= 1 PROVE t <= 95
  <2>1. \A i, k \in 1..9 : e[i].direction = 1 /\ e[k].direction = 1 => i = k
    <3>1. PICK sign : sign = 1 OBVIOUS
    <3>2. Pointing(e, sign) <= 1 BY <1>6, <3>1
    <3>3. \A i, k \in 1..9 : e[i].direction = sign /\ e[k].direction = sign => i = k BY <1>1, <3>2, PointingIs
    <3> QED BY <3>1, <3>3
  <2>2. \E k \in 1..9 : \A i \in 1..9 : i # k => e[i].direction # 1
    <3>1. CASE \A i \in 1..9 : e[i].direction # 1 BY <3>1
    <3>2. CASE \E k \in 1..9 : e[k].direction = 1 BY <2>1, <3>2
    <3> QED BY <3>1, <3>2
  <2>3. PICK k \in 1..9 : \A i \in 1..9 : i # k => e[i].points <= IF i = 3 THEN 15 ELSE 0 BY <1>2, <2>2
  <2>4. /\ (k # 1 => p1 <= 0) /\ (k # 2 => p2 <= 0) /\ (k # 4 => p4 <= 0) /\ (k # 5 => p5 <= 0) /\ (k # 6 => p6 <= 0)
        /\ (k # 7 => p7 <= 0) /\ (k # 8 => p8 <= 0) /\ (k # 9 => p9 <= 0) /\ (k # 3 => p3 <= 15)
    BY <2>3, <1>31, <1>32, <1>33, <1>34, <1>35, <1>36, <1>37, <1>38, <1>39
  <2> QED BY <1>3, <1>4, <2>4
<1>7. ASSUME Pointing(e, -1) <= 1 PROVE t >= -95
  <2>1. \A i, k \in 1..9 : e[i].direction = -1 /\ e[k].direction = -1 => i = k
    <3>1. PICK sign : sign = -1 OBVIOUS
    <3>2. Pointing(e, sign) <= 1 BY <1>7, <3>1
    <3>3. \A i, k \in 1..9 : e[i].direction = sign /\ e[k].direction = sign => i = k BY <1>1, <3>2, PointingIs
    <3> QED BY <3>1, <3>3
  <2>2. \E k \in 1..9 : \A i \in 1..9 : i # k => e[i].direction # -1
    <3>1. CASE \A i \in 1..9 : e[i].direction # -1 BY <3>1
    <3>2. CASE \E k \in 1..9 : e[k].direction = -1 BY <2>1, <3>2
    <3> QED BY <3>1, <3>2
  <2>3. PICK k \in 1..9 : \A i \in 1..9 : i # k => e[i].points >= IF i = 3 THEN -15 ELSE 0 BY <1>2, <2>2
  <2>4. /\ (k # 1 => p1 >= 0) /\ (k # 2 => p2 >= 0) /\ (k # 4 => p4 >= 0) /\ (k # 5 => p5 >= 0) /\ (k # 6 => p6 >= 0)
        /\ (k # 7 => p7 >= 0) /\ (k # 8 => p8 >= 0) /\ (k # 9 => p9 >= 0) /\ (k # 3 => p3 >= -15)
    BY <2>3, <1>31, <1>32, <1>33, <1>34, <1>35, <1>36, <1>37, <1>38, <1>39
  <2> QED BY <1>3, <1>4, <2>4
<1> QED BY <1>5, <1>6, <1>7 DEF Clip

-------------------------------------------------------------------------------
\* Of four rules, the first that holds names the outcome.
LEMMA FourRules ==
  ASSUME NEW r, DOMAIN r = 1..4, NEW o
  PROVE  /\ r[1][2] => FirstOf(r, o) = r[1][1]
         /\ ~r[1][2] /\ r[2][2] => FirstOf(r, o) = r[2][1]
         /\ ~r[1][2] /\ ~r[2][2] /\ r[3][2] => FirstOf(r, o) = r[3][1]
         /\ ~r[1][2] /\ ~r[2][2] /\ ~r[3][2] /\ r[4][2] => FirstOf(r, o) = r[4][1]
         /\ ~r[1][2] /\ ~r[2][2] /\ ~r[3][2] /\ ~r[4][2] => FirstOf(r, o) = o
<1>1. PICK n \in Nat : n = 4 OBVIOUS
<1>2. DOMAIN r = 1..n BY <1>1
<1>3. \/ (\A i \in 1..n : ~r[i][2]) /\ FirstOf(r, o) = o
      \/ \E i \in 1..n : r[i][2] /\ (\A k \in 1..i - 1 : ~r[k][2]) /\ FirstOf(r, o) = r[i][1]
  BY <1>2, FirstRule
<1>4. CASE (\A i \in 1..n : ~r[i][2]) /\ FirstOf(r, o) = o
  <2>1. 1 \in 1..n /\ 2 \in 1..n /\ 3 \in 1..n /\ 4 \in 1..n BY <1>1
  <2>2. ~r[1][2] /\ ~r[2][2] /\ ~r[3][2] /\ ~r[4][2] BY <1>4, <2>1
  <2> QED BY <1>4, <2>2
<1>5. ASSUME NEW i \in 1..n, r[i][2], \A k \in 1..i - 1 : ~r[k][2], FirstOf(r, o) = r[i][1]
      PROVE  /\ r[1][2] => FirstOf(r, o) = r[1][1]
             /\ ~r[1][2] /\ r[2][2] => FirstOf(r, o) = r[2][1]
             /\ ~r[1][2] /\ ~r[2][2] /\ r[3][2] => FirstOf(r, o) = r[3][1]
             /\ ~r[1][2] /\ ~r[2][2] /\ ~r[3][2] /\ r[4][2] => FirstOf(r, o) = r[4][1]
             /\ ~r[1][2] /\ ~r[2][2] /\ ~r[3][2] /\ ~r[4][2] => FirstOf(r, o) = o
  <2>1. i = 1 \/ i = 2 \/ i = 3 \/ i = 4 BY <1>1
  <2>2. CASE i = 1 BY <1>5, <2>2
  <2>3. CASE i = 2
    <3>1. 1 \in 1..i - 1 BY <2>3
    <3>2. ~r[1][2] BY <1>5, <3>1
    <3> QED BY <1>5, <2>3, <3>2
  <2>4. CASE i = 3
    <3>1. 1 \in 1..i - 1 /\ 2 \in 1..i - 1 BY <2>4
    <3>2. ~r[1][2] /\ ~r[2][2] BY <1>5, <3>1
    <3> QED BY <1>5, <2>4, <3>2
  <2>5. CASE i = 4
    <3>1. 1 \in 1..i - 1 /\ 2 \in 1..i - 1 /\ 3 \in 1..i - 1 BY <2>5
    <3>2. ~r[1][2] /\ ~r[2][2] /\ ~r[3][2] BY <1>5, <3>1
    <3> QED BY <1>5, <2>5, <3>2
  <2> QED BY <2>1, <2>2, <2>3, <2>4, <2>5
<1> QED BY <1>3, <1>4, <1>5

\* The bias, case by case.
LEMMA BiasIs ==
  ASSUME NEW known, NEW up, NEW down, NEW score
  PROVE  /\ ~known => Bias(known, up, down, score) = "INSUFFICIENT_DATA"
         /\ known /\ up >= 2 /\ down >= 2 => Bias(known, up, down, score) = "CONFLICTED"
         /\ known /\ ~(up >= 2 /\ down >= 2) /\ score >= 140 => Bias(known, up, down, score) = "BULLISH"
         /\ known /\ ~(up >= 2 /\ down >= 2) /\ ~(score >= 140) /\ score <= -140 =>
              Bias(known, up, down, score) = "BEARISH"
         /\ known /\ ~(up >= 2 /\ down >= 2) /\ ~(score >= 140) /\ ~(score <= -140) =>
              Bias(known, up, down, score) = "NEUTRAL"
<1> DEFINE rules == << <<"INSUFFICIENT_DATA", ~known>>,
             <<"CONFLICTED", up >= 2 /\ down >= 2>>,
             <<"BULLISH", score >= 140>>,
             <<"BEARISH", score <= -140>> >>
<1>1. Bias(known, up, down, score) = FirstOf(rules, "NEUTRAL") BY DEF Bias
<1>2. DOMAIN rules = 1..4 OBVIOUS
<1>3. /\ rules[1][1] = "INSUFFICIENT_DATA" /\ rules[2][1] = "CONFLICTED"
      /\ rules[3][1] = "BULLISH" /\ rules[4][1] = "BEARISH"
  OBVIOUS
<1>4. (rules[1][2] <=> ~known) OBVIOUS
<1>5. (rules[2][2] <=> up >= 2 /\ down >= 2) OBVIOUS
<1>6. (rules[3][2] <=> score >= 140) OBVIOUS
<1>7. (rules[4][2] <=> score <= -140) OBVIOUS
<1> HIDE DEF rules
<1>8. /\ rules[1][2] => FirstOf(rules, "NEUTRAL") = rules[1][1]
      /\ ~rules[1][2] /\ rules[2][2] => FirstOf(rules, "NEUTRAL") = rules[2][1]
      /\ ~rules[1][2] /\ ~rules[2][2] /\ rules[3][2] => FirstOf(rules, "NEUTRAL") = rules[3][1]
      /\ ~rules[1][2] /\ ~rules[2][2] /\ ~rules[3][2] /\ rules[4][2] => FirstOf(rules, "NEUTRAL") = rules[4][1]
      /\ ~rules[1][2] /\ ~rules[2][2] /\ ~rules[3][2] /\ ~rules[4][2] => FirstOf(rules, "NEUTRAL") = "NEUTRAL"
  <2>1. PICK r, o : r = rules /\ o = "NEUTRAL" OBVIOUS
  <2>2. DOMAIN r = 1..4 BY <1>2, <2>1
  <2>3. /\ r[1][2] => FirstOf(r, o) = r[1][1]
        /\ ~r[1][2] /\ r[2][2] => FirstOf(r, o) = r[2][1]
        /\ ~r[1][2] /\ ~r[2][2] /\ r[3][2] => FirstOf(r, o) = r[3][1]
        /\ ~r[1][2] /\ ~r[2][2] /\ ~r[3][2] /\ r[4][2] => FirstOf(r, o) = r[4][1]
        /\ ~r[1][2] /\ ~r[2][2] /\ ~r[3][2] /\ ~r[4][2] => FirstOf(r, o) = o
    BY <2>2, FourRules
  <2> QED BY <2>1, <2>3
<1> QED BY <1>1, <1>3, <1>4, <1>5, <1>6, <1>7, <1>8

\* A confidence above LOW has three families behind it.
LEMMA ConfidenceIs ==
  ASSUME NEW most \in Nat, NEW far \in Int, Confidence(most, far) \in {"HIGH", "MEDIUM"}
  PROVE  most >= 3
<1> DEFINE rules == << <<"HIGH", far >= 220 /\ most >= 4>>, <<"MEDIUM", far >= 120 /\ most >= 3>> >>
<1>1. Confidence(most, far) = FirstOf(rules, "LOW") BY DEF Confidence
<1>2. DOMAIN rules = 1..2 OBVIOUS
<1>3. (rules[1][2] <=> far >= 220 /\ most >= 4) OBVIOUS
<1>4. (rules[2][2] <=> far >= 120 /\ most >= 3) OBVIOUS
<1> HIDE DEF rules
<1>5. PICK r, o : r = rules /\ o = "LOW" OBVIOUS
<1>55. PICK n \in Nat : n = 2 OBVIOUS
<1>6. DOMAIN r = 1..n BY <1>2, <1>5, <1>55
<1>7. \/ (\A i \in 1..n : ~r[i][2]) /\ FirstOf(r, o) = o
      \/ \E i \in 1..n : r[i][2] /\ (\A k \in 1..i - 1 : ~r[k][2]) /\ FirstOf(r, o) = r[i][1]
  BY <1>6, FirstRule
<1>8. FirstOf(r, o) # o BY <1>1, <1>5
<1>9. PICK i \in 1..n : r[i][2] BY <1>7, <1>8
<1>10. CASE i = 1 BY <1>3, <1>5, <1>9, <1>10
<1>11. CASE i = 2 BY <1>4, <1>5, <1>9, <1>11
<1>12. i = 1 \/ i = 2 BY <1>55
<1> QED BY <1>10, <1>11, <1>12

-------------------------------------------------------------------------------
\* DirectionIsBacked of the bias case: a share that passes has three families behind it and at
\* most one against it.
LEMMA PassIsBacked ==
  ASSUME NEW c \in Context
  PROVE  /\ Directional("CALL", Analyzed(c)) => Analyzed(c).up >= 3 /\ Analyzed(c).down <= 1
         /\ Directional("PUT", Analyzed(c)) => Analyzed(c).down >= 3 /\ Analyzed(c).up <= 1
<1>1. PICK e : e = Evidence(c) OBVIOUS
<1>2. PICK up \in Nat, down \in Nat : up = Pointing(e, 1) /\ down = Pointing(e, -1)
  <2>1. DOMAIN e = 1..9 BY <1>1, Families
  <2>2. \A sign : Pointing(e, sign) \in Nat BY <2>1, PointingIs
  <2> QED BY <2>2
<1>3. PICK score \in -400..400 : score = BiasScore(e) BY <1>1, OneIsNotEnough
<1>4. (up <= 1 => score < 140) /\ (down <= 1 => score > -140) BY <1>1, <1>2, <1>3, OneIsNotEnough
<1>5. PICK b, f : /\ b = Bias(Available(c), up, down, score)
                  /\ f = Confidence(IF up > down THEN up ELSE down, Size(score))
  OBVIOUS
<1>6. /\ Analyzed(c).bias = b /\ Analyzed(c).confidence = f
      /\ Analyzed(c).up = up /\ Analyzed(c).down = down
  BY <1>1, <1>2, <1>3, <1>5 DEF Analyzed
<1>7. f \in {"HIGH", "MEDIUM"} => up >= 3 \/ down >= 3
  <2>1. PICK most \in Nat : most = IF up > down THEN up ELSE down OBVIOUS
  <2>2. PICK far \in Int : far = Size(score) BY DEF Size
  <2>3. f = Confidence(most, far) BY <1>5, <2>1, <2>2
  <2>4. f \in {"HIGH", "MEDIUM"} => most >= 3 BY <2>3, ConfidenceIs
  <2> QED BY <2>1, <2>4
<1>8. b = "BULLISH" => ~(up >= 2 /\ down >= 2) /\ score >= 140
  <2>1. PICK known : known = Available(c) OBVIOUS
  <2>2. b = Bias(known, up, down, score) BY <1>5, <2>1
  <2> QED BY <2>2, BiasIs
<1>9. b = "BEARISH" => ~(up >= 2 /\ down >= 2) /\ score <= -140
  <2>1. PICK known : known = Available(c) OBVIOUS
  <2>2. b = Bias(known, up, down, score) BY <1>5, <2>1
  <2> QED BY <2>2, BiasIs
<1>10. ASSUME Directional("CALL", Analyzed(c)) PROVE up >= 3 /\ down <= 1
  <2>1. b = "BULLISH" /\ f \in {"HIGH", "MEDIUM"} BY <1>6, <1>10 DEF Directional
  <2> QED BY <1>4, <1>7, <1>8, <2>1
<1>11. ASSUME Directional("PUT", Analyzed(c)) PROVE down >= 3 /\ up <= 1
  <2>1. b = "BEARISH" /\ f \in {"HIGH", "MEDIUM"} BY <1>6, <1>11 DEF Directional
  <2> QED BY <1>4, <1>7, <1>9, <2>1
<1> QED BY <1>6, <1>10, <1>11

-------------------------------------------------------------------------------
\* The opposite of a share, figure by figure: what is missing stays missing.
NegOf(x) == IF Known(x) THEN -x ELSE x
Around(x, sum) == IF Known(x) THEN sum - x ELSE x

\* The opposite of a share has the opposite figures.
LEMMA OppositeIs ==
  ASSUME NEW c \in Context, NEW o, o = Opposite(c)
  PROVE  /\ o.trend = IF c.trend = "UP" THEN "DOWN" ELSE IF c.trend = "DOWN" THEN "UP" ELSE c.trend
         /\ o.rsi = Around(c.rsi, 100) /\ o.macd = NegOf(c.macd)
         /\ o.returns = <<NegOf(c.returns[1]), NegOf(c.returns[2])>>
         /\ o.volumes = <<Around(c.volumes[1], 200), Around(c.volumes[2], 200)>>
         /\ o.imbalance = NegOf(c.imbalance) /\ o.power = Around(c.power, 200)
         /\ o.headroom = c.headroom /\ o.early = NegOf(c.early)
BY DEF Context, Opposite, NegOf, Around

\* And the opposite averages.
LEMMA OppositeAverages ==
  ASSUME NEW c \in Context, NEW o, o = Opposite(c)
  PROVE  o.averages = [i \in DOMAIN c.averages |-> -c.averages[i]]
BY DEF Context, Opposite

\* A figure stays one, or stays missing, in the opposite.
LEMMA FigureIs ==
  ASSUME NEW x \in Figure
  PROVE  /\ x \in Int /\ NegOf(x) \in Int /\ Around(x, 100) \in Int /\ Around(x, 200) \in Int
         /\ (Known(NegOf(x)) <=> Known(x)) /\ (Known(Around(x, 100)) <=> Known(x))
         /\ (Known(Around(x, 200)) <=> Known(x))
BY DEF Figure, NegOf, Around, Known

\* The averages of the opposite are as many, and their sides swapped.
LEMMA AveragesTurned ==
  ASSUME NEW c \in Context, NEW o, o = Opposite(c)
  PROVE  Pairs(o) = Pairs(c) /\ Above(o) = -Above(c)
<1>1. PICK n \in 0..4 : c.averages \in [1..n -> -1..1] BY DEF Context
<1>2. PICK a : a = c.averages OBVIOUS
<1>3. PICK d : d = o.averages OBVIOUS
<1>4. d = [i \in 1..n |-> -a[i]] /\ DOMAIN a = 1..n /\ \A i \in 1..n : a[i] \in -1..1
  BY <1>1, <1>2, <1>3, OppositeAverages
<1>5. Len(a) = n /\ Len(d) = n BY <1>4
<1>6. {i \in DOMAIN d : d[i] = 1} = {i \in DOMAIN a : a[i] = -1} BY <1>4
<1>7. {i \in DOMAIN d : d[i] = -1} = {i \in DOMAIN a : a[i] = 1} BY <1>4
<1>8. AveragesAt(o, 1) = AveragesAt(c, -1) /\ AveragesAt(o, -1) = AveragesAt(c, 1)
  BY <1>2, <1>3, <1>6, <1>7 DEF AveragesAt
<1>9. Pairs(o) = Pairs(c) BY <1>2, <1>3, <1>5 DEF Pairs
<1>10. \A sign \in {1, -1} : Cardinality(AveragesAt(c, sign)) \in Nat
  <2> TAKE sign \in {1, -1}
  <2>1. IsFiniteSet(1..n)
    <3>1. n \in Int /\ 1 \in Int OBVIOUS
    <3> QED BY <3>1, FS_Interval
  <2>2. AveragesAt(c, sign) \in SUBSET (1..n) BY <1>2, <1>4 DEF AveragesAt
  <2> QED BY <2>1, <2>2, FS_Subset, FS_CardinalityType
<1>11. PICK x \in Nat, y \in Nat : x = Cardinality(AveragesAt(c, 1)) /\ y = Cardinality(AveragesAt(c, -1)) BY <1>10
<1>12. Above(c) = x - y /\ Above(o) = y - x BY <1>8, <1>11 DEF Above
<1> QED BY <1>9, <1>12

\* Each family of the opposite is the opposite family, the daily limits aside.
LEMMA FamiliesTurned ==
  ASSUME NEW c \in Context, NEW o, o = Opposite(c), NEW e, e = Evidence(c), NEW f, f = Evidence(o),
         ~c.touched, c.headroom = NA
  PROVE  /\ DOMAIN e = 1..9 /\ DOMAIN f = 1..9
         /\ \A i \in 1..9 : /\ e[i].direction \in -1..1 /\ f[i].direction = -e[i].direction
                            /\ e[i].points \in Int /\ f[i].points = -e[i].points
<1>0. \A x, y : x = 0 /\ y = 0 => y = -x
  <2>1. PICK p \in Int : p + p = 0
    <3>1. 0 \in Int /\ 0 + 0 = 0 OBVIOUS
    <3> QED BY <3>1
  <2>2. p = -p /\ p = 0 BY <2>1
  <2> QED BY <2>2, Zenon
<1> DEFINE Swapped(i) == f[i].direction = -e[i].direction /\ f[i].points = -e[i].points
<1>1. DOMAIN e = 1..9 /\ DOMAIN f = 1..9 BY Families
<1>2. \A i \in 1..9 : e[i].direction \in -1..1 /\ e[i].points \in Int
  <2> TAKE i \in 1..9
  <2>1. e[i].direction \in -1..1 /\ e[i].points \in -80..80 BY PointsOfSide
  <2> QED BY <2>1
<1>3. Swapped(1)
  <2>1. c.early \in Figure BY DEF Context
  <2>2. o.early = NegOf(c.early) BY OppositeIs
  <2>3. PICK x \in Figure : x = c.early BY <2>1
  <2>4. Early(o) = -Early(c) /\ Early(c) \in -1..1 BY <2>2, <2>3, FigureIs DEF Early, Sign, NegOf
  <2>5. e[1].direction = Early(c) /\ e[1].points = 0 BY Families
  <2>6. f[1].direction = Early(o) /\ f[1].points = 0 BY Families
  <2>7. f[1].points = -e[1].points BY <1>0, <2>5, <2>6
  <2>8. f[1].direction = -e[1].direction BY <2>4, <2>5, <2>6
  <2> QED BY <2>7, <2>8
<1>4. Swapped(2)
  <2>1. o.trend = IF c.trend = "UP" THEN "DOWN" ELSE IF c.trend = "DOWN" THEN "UP" ELSE c.trend BY OppositeIs
  <2>2. Trend(o) = -Trend(c) /\ Trend(c) \in -1..1 BY <2>1 DEF Trend
  <2>3. e[2].direction = Trend(c) /\ e[2].points = 80 * Trend(c) BY Families
  <2>4. f[2].direction = Trend(o) /\ f[2].points = 80 * Trend(o) BY Families
  <2> QED BY <2>2, <2>3, <2>4
<1>5. Swapped(3)
  <2>1. PICK n \in 0..4, a \in Int : n = Pairs(c) /\ a = Above(c) /\ -n <= a /\ a <= n BY AboveIsBounded
  <2>2. Pairs(o) = n /\ Above(o) = -a BY <2>1, AveragesTurned
  <2>3. e[3].direction = Side(4 * a, -n, n) /\ e[3].points = IF n > 0 THEN (60 * a) \div n ELSE 0 BY <2>1, Families
  <2>4. PICK p, q : p = Pairs(o) /\ q = Above(o) OBVIOUS
  <2>5. f[3].direction = Side(4 * q, -p, p) /\ f[3].points = IF p > 0 THEN (60 * q) \div p ELSE 0 BY <2>4, Families
  <2>6. p = n /\ q = -a BY <2>2, <2>4
  <2>7. f[3].direction = Side(4 * (-a), -n, n) /\ f[3].points = IF n > 0 THEN (60 * (-a)) \div n ELSE 0
    BY <2>5, <2>6
  <2>8. n \in {0, 1, 2, 3, 4} OBVIOUS
  <2>9. f[3].direction = -e[3].direction BY <2>1, <2>3, <2>7, <2>8 DEF Side
  <2>10. f[3].points = -e[3].points BY <2>1, <2>3, <2>7, <2>8
  <2> QED BY <2>9, <2>10
<1>6. Swapped(4)
  <2>1. PICK x \in Figure : x = c.rsi BY DEF Context
  <2>2. o.rsi = Around(x, 100) BY <2>1, OppositeIs
  <2>3. Rsi(o) = -Rsi(c) /\ Rsi(c) \in -1..1 BY <2>1, <2>2, FigureIs DEF Rsi, Side, Around
  <2>4. e[4].direction = Rsi(c) /\ e[4].points = 40 * Rsi(c) BY Families
  <2>5. f[4].direction = Rsi(o) /\ f[4].points = 40 * Rsi(o) BY Families
  <2> QED BY <2>3, <2>4, <2>5
<1>7. Swapped(5)
  <2>1. PICK x \in Figure : x = c.macd BY DEF Context
  <2>2. o.macd = NegOf(x) BY <2>1, OppositeIs
  <2>3. Macd(o) = -Macd(c) /\ Macd(c) \in -1..1 BY <2>1, <2>2, FigureIs DEF Macd, Sign, NegOf
  <2>4. e[5].direction = Macd(c) /\ e[5].points = 48 * Macd(c) BY Families
  <2>5. f[5].direction = Macd(o) /\ f[5].points = 48 * Macd(o) BY Families
  <2> QED BY <2>3, <2>4, <2>5
<1>8. Swapped(6)
  <2>1. PICK x \in Figure, y \in Figure : x = c.returns[1] /\ y = c.returns[2] BY DEF Context
  <2>2. o.returns = <<NegOf(x), NegOf(y)>> BY <2>1, OppositeIs
  <2>3. PICK m \in Int : m = SumOf(c.returns) BY <2>1, FigureIs DEF SumOf, Amount
  <2>4. SumOf(o.returns) = -m BY <2>1, <2>2, <2>3, FigureIs DEF SumOf, Amount, NegOf
  <2>5. e[6].direction = Sign(m) /\ e[6].points = 4 * Clip(m, -10, 10) BY <2>3, Families
  <2>6. PICK k \in Int : k = -m OBVIOUS
  <2>7. k = SumOf(o.returns) BY <2>4, <2>6
  <2>8. f[6].direction = Sign(k) /\ f[6].points = 4 * Clip(k, -10, 10) BY <2>7, Families
  <2> QED BY <2>5, <2>6, <2>8 DEF Sign, Clip
<1>9. Swapped(7)
  <2>1. PICK x \in Figure, y \in Figure : x = c.volumes[1] /\ y = c.volumes[2] BY DEF Context
  <2>2. o.volumes = <<Around(x, 200), Around(y, 200)>> BY <2>1, OppositeIs
  <2>3. VolumeSide(o) = -VolumeSide(c) /\ VolumeSide(c) \in -1..1
    BY <2>1, <2>2, FigureIs DEF VolumeSide, SumOf, Amount, KnownIn, Side, Around
  <2>4. e[7].direction = VolumeSide(c) /\ e[7].points = 32 * VolumeSide(c) BY Families
  <2>5. f[7].direction = VolumeSide(o) /\ f[7].points = 32 * VolumeSide(o) BY Families
  <2> QED BY <2>3, <2>4, <2>5
<1>10. Swapped(8)
  <2>1. PICK x \in Figure, y \in Figure : x = c.imbalance /\ y = c.power BY DEF Context
  <2>2. o.imbalance = NegOf(x) /\ o.power = Around(y, 200) BY <2>1, OppositeIs
  <2>3. BoardSide(o) = -BoardSide(c) /\ BoardSide(c) \in -1..1
    BY <2>1, <2>2, FigureIs DEF BoardSide, Sign, Side, Around, NegOf
  <2>4. e[8].direction = BoardSide(c) /\ e[8].points = 60 * BoardSide(c) BY Families
  <2>5. f[8].direction = BoardSide(o) /\ f[8].points = 60 * BoardSide(o) BY Families
  <2> QED BY <2>3, <2>4, <2>5
<1>11. Swapped(9)
  <2>1. ~o.touched /\ o.headroom = NA
    <3>1. c.touched \in BOOLEAN BY DEF Context
    <3>2. c.touched = FALSE BY <3>1
    <3>3. o.touched = FALSE BY <3>2 DEF Context, Opposite
    <3>4. o.headroom = NA BY OppositeIs
    <3> QED BY <3>3, <3>4
  <2>2. Limit(c) = 0 /\ Limit(o) = 0 BY <2>1 DEF Limit, Known
  <2>3. e[9].direction = Sign(Limit(c)) /\ e[9].points = Limit(c) BY Families
  <2>4. f[9].direction = Sign(Limit(o)) /\ f[9].points = Limit(o) BY Families
  <2>5. Sign(0) = 0 BY DEF Sign
  <2>6. e[9].direction = 0 /\ e[9].points = 0 BY <2>2, <2>3, <2>5
  <2>7. f[9].direction = 0 /\ f[9].points = 0 BY <2>2, <2>4, <2>5
  <2> QED BY <1>0, <2>6, <2>7
<1>12. \A i \in 1..9 : Swapped(i)
  <2>1. \A i \in 1..9 : i \in {1, 2, 3, 4, 5, 6, 7, 8, 9} OBVIOUS
  <2> QED BY <1>3, <1>4, <1>5, <1>6, <1>7, <1>8, <1>9, <1>10, <1>11, <2>1
<1> QED BY <1>1, <1>2, <1>12

\* What is known of the opposite is as much: it has evidence when the share has.
LEMMA AvailableTurned ==
  ASSUME NEW c \in Context, NEW o, o = Opposite(c)
  PROVE  Available(o) <=> Available(c)
<1>0. /\ o.trend = IF c.trend = "UP" THEN "DOWN" ELSE IF c.trend = "DOWN" THEN "UP" ELSE c.trend
      /\ o.rsi = Around(c.rsi, 100) /\ o.macd = NegOf(c.macd)
      /\ o.returns = <<NegOf(c.returns[1]), NegOf(c.returns[2])>>
      /\ o.volumes = <<Around(c.volumes[1], 200), Around(c.volumes[2], 200)>>
      /\ o.imbalance = NegOf(c.imbalance) /\ o.power = Around(c.power, 200)
  BY OppositeIs
<1>1. (o.trend # "") <=> (c.trend # "") BY <1>0
<1>2. Len(o.averages) = Len(c.averages) BY AveragesTurned DEF Pairs
<1>3. (Known(o.rsi) <=> Known(c.rsi)) /\ (Known(o.macd) <=> Known(c.macd))
  <2>1. c.rsi \in Figure /\ c.macd \in Figure BY DEF Context
  <2> QED BY <2>1, <1>0, FigureIs
<1>4. (Known(o.imbalance) <=> Known(c.imbalance)) /\ (Known(o.power) <=> Known(c.power))
  <2>1. c.imbalance \in Figure /\ c.power \in Figure BY DEF Context
  <2> QED BY <2>1, <1>0, FigureIs
<1>5. KnownIn(o.returns) = KnownIn(c.returns)
  <2>1. PICK x \in Figure, y \in Figure : x = c.returns[1] /\ y = c.returns[2] BY DEF Context
  <2>2. o.returns = <<NegOf(x), NegOf(y)>> BY <1>0, <2>1
  <2> QED BY <2>1, <2>2, FigureIs DEF KnownIn
<1>6. KnownIn(o.volumes) = KnownIn(c.volumes)
  <2>1. PICK x \in Figure, y \in Figure : x = c.volumes[1] /\ y = c.volumes[2] BY DEF Context
  <2>2. o.volumes = <<Around(x, 200), Around(y, 200)>> BY <1>0, <2>1
  <2> QED BY <2>1, <2>2, FigureIs DEF KnownIn
<1>7. (\E x \in {o.rsi, o.macd, o.imbalance, o.power} : Known(x)) <=>
        (\E x \in {c.rsi, c.macd, c.imbalance, c.power} : Known(x))
  BY <1>3, <1>4
<1> QED BY <1>1, <1>2, <1>5, <1>6, <1>7 DEF Available

\* The score of the opposite is the opposite score, and its sides are swapped.
LEMMA ScoreTurned ==
  ASSUME NEW c \in Context, NEW o, o = Opposite(c), NEW e, e = Evidence(c), NEW f, f = Evidence(o),
         ~c.touched, c.headroom = NA
  PROVE  /\ BiasScore(e) \in Int /\ BiasScore(f) = -BiasScore(e)
         /\ Pointing(f, 1) = Pointing(e, -1) /\ Pointing(f, -1) = Pointing(e, 1)
<1>1. /\ DOMAIN e = 1..9 /\ DOMAIN f = 1..9
      /\ \A i \in 1..9 : /\ e[i].direction \in -1..1 /\ f[i].direction = -e[i].direction
                         /\ e[i].points \in Int /\ f[i].points = -e[i].points
  BY FamiliesTurned
<1>2. \A i \in 1..9 : f[i].points \in Int
  <2> TAKE i \in 1..9
  <2>1. e[i].points \in Int /\ f[i].points = -e[i].points BY <1>1
  <2> QED BY <2>1
<1>3. \A i \in 1..9 : (f[i].direction = 1 <=> e[i].direction = -1) /\ (f[i].direction = -1 <=> e[i].direction = 1)
  <2> TAKE i \in 1..9
  <2>1. e[i].direction \in -1..1 /\ f[i].direction = -e[i].direction BY <1>1
  <2> QED BY <2>1
<1>4. Pointing(f, 1) = Pointing(e, -1) /\ Pointing(f, -1) = Pointing(e, 1)
  <2>1. {i \in DOMAIN f : f[i].direction = 1} = {i \in DOMAIN e : e[i].direction = -1} BY <1>1, <1>3
  <2>2. {i \in DOMAIN f : f[i].direction = -1} = {i \in DOMAIN e : e[i].direction = 1} BY <1>1, <1>3
  <2> QED BY <2>1, <2>2 DEF Pointing
<1>5. PICK t \in Int : t = e[1].points + e[2].points + e[3].points + e[4].points + e[5].points + e[6].points
                           + e[7].points + e[8].points + e[9].points
  <2>1. \A i \in {1, 2, 3, 4, 5, 6, 7, 8, 9} : e[i].points \in Int BY <1>1
  <2> QED BY <2>1
<1>6. f[1].points + f[2].points + f[3].points + f[4].points + f[5].points + f[6].points
        + f[7].points + f[8].points + f[9].points = -t
  <2>1. \A i \in {1, 2, 3, 4, 5, 6, 7, 8, 9} : e[i].points \in Int /\ f[i].points = -e[i].points BY <1>1
  <2> QED BY <1>5, <2>1
<1>7. BiasScore(e) = Clip(t, -400, 400) BY <1>1, <1>5, ScoreIs
<1>8. PICK d \in Int : d = -t OBVIOUS
<1>9. BiasScore(f) = Clip(d, -400, 400)
  <2>1. BiasScore(f) = Clip(f[1].points + f[2].points + f[3].points + f[4].points + f[5].points + f[6].points
                              + f[7].points + f[8].points + f[9].points, -400, 400)
    BY <1>1, <1>2, ScoreIs
  <2> QED BY <1>6, <1>8, <2>1
<1>10. BiasScore(e) \in Int /\ BiasScore(f) = -BiasScore(e) BY <1>7, <1>8, <1>9 DEF Clip
<1> QED BY <1>4, <1>10

\* NoPreference of the bias case: of the opposite share the engine says the opposite.
LEMMA OppositeIsTurned ==
  ASSUME NEW c \in Context, ~c.touched, c.headroom = NA
  PROVE  /\ Analyzed(Opposite(c)).confidence = Analyzed(c).confidence
         /\ Analyzed(Opposite(c)).bias = CASE Analyzed(c).bias = "BULLISH" -> "BEARISH"
                                           [] Analyzed(c).bias = "BEARISH" -> "BULLISH"
                                           [] OTHER -> Analyzed(c).bias
<1>1. PICK o : o = Opposite(c) OBVIOUS
<1>2. PICK e : e = Evidence(c) OBVIOUS
<1>3. PICK f : f = Evidence(o) OBVIOUS
<1>4. PICK s \in Int : s = BiasScore(e) BY <1>1, <1>2, <1>3, ScoreTurned
<1>5. PICK z \in Int : z = -s OBVIOUS
<1>6. BiasScore(f) = z BY <1>1, <1>2, <1>3, <1>4, <1>5, ScoreTurned
<1>7. PICK u \in Nat, d \in Nat : u = Pointing(e, 1) /\ d = Pointing(e, -1)
  <2>1. DOMAIN e = 1..9 BY <1>2, Families
  <2>2. \A sign : Pointing(e, sign) \in Nat BY <2>1, PointingIs
  <2> QED BY <2>2
<1>8. Pointing(f, 1) = d /\ Pointing(f, -1) = u BY <1>1, <1>2, <1>3, <1>7, ScoreTurned
<1>9. PICK known : known = Available(c) OBVIOUS
<1>10. Available(o) = known
  <2>1. Available(o) <=> Available(c) BY <1>1, AvailableTurned
  <2>2. Available(o) \in BOOLEAN /\ Available(c) \in BOOLEAN BY DEF Available
  <2> QED BY <1>9, <2>1, <2>2
<1>11. PICK most, far : most = (IF u > d THEN u ELSE d) /\ far = Size(s) OBVIOUS
<1>12. (IF d > u THEN d ELSE u) = most BY <1>11
<1>13. Size(z) = far BY <1>5, <1>11 DEF Size
<1>14. PICK b, w : b = Bias(known, u, d, s) /\ w = Bias(known, d, u, z) OBVIOUS
<1>15. Analyzed(c).bias = b /\ Analyzed(c).confidence = Confidence(most, far)
  BY <1>2, <1>4, <1>7, <1>9, <1>11, <1>14 DEF Analyzed
<1>16. Analyzed(o).bias = w /\ Analyzed(o).confidence = Confidence(most, far)
  BY <1>3, <1>6, <1>8, <1>10, <1>12, <1>13, <1>14 DEF Analyzed
<1>17. /\ ~known => b = "INSUFFICIENT_DATA"
       /\ known /\ u >= 2 /\ d >= 2 => b = "CONFLICTED"
       /\ known /\ ~(u >= 2 /\ d >= 2) /\ s >= 140 => b = "BULLISH"
       /\ known /\ ~(u >= 2 /\ d >= 2) /\ ~(s >= 140) /\ s <= -140 => b = "BEARISH"
       /\ known /\ ~(u >= 2 /\ d >= 2) /\ ~(s >= 140) /\ ~(s <= -140) => b = "NEUTRAL"
  BY <1>14, BiasIs
<1>18. /\ ~known => w = "INSUFFICIENT_DATA"
       /\ known /\ d >= 2 /\ u >= 2 => w = "CONFLICTED"
       /\ known /\ ~(d >= 2 /\ u >= 2) /\ z >= 140 => w = "BULLISH"
       /\ known /\ ~(d >= 2 /\ u >= 2) /\ ~(z >= 140) /\ z <= -140 => w = "BEARISH"
       /\ known /\ ~(d >= 2 /\ u >= 2) /\ ~(z >= 140) /\ ~(z <= -140) => w = "NEUTRAL"
  BY <1>14, BiasIs
<1>19. w = CASE b = "BULLISH" -> "BEARISH" [] b = "BEARISH" -> "BULLISH" [] OTHER -> b
  <2>1. CASE ~known
    <3>1. b = "INSUFFICIENT_DATA" /\ w = "INSUFFICIENT_DATA" BY <1>17, <1>18, <2>1
    <3> QED BY <3>1
  <2>2. CASE known /\ u >= 2 /\ d >= 2
    <3>1. b = "CONFLICTED" /\ w = "CONFLICTED" BY <1>17, <1>18, <2>2
    <3> QED BY <3>1
  <2>3. CASE known /\ ~(u >= 2 /\ d >= 2) /\ s >= 140
    <3>1. b = "BULLISH" BY <1>17, <1>18, <2>3
    <3>2. ~(d >= 2 /\ u >= 2) /\ ~(z >= 140) /\ z <= -140 BY <1>5, <2>3
    <3>3. w = "BEARISH" BY <1>17, <1>18, <2>3, <3>2
    <3> QED BY <3>1, <3>3
  <2>4. CASE known /\ ~(u >= 2 /\ d >= 2) /\ ~(s >= 140) /\ s <= -140
    <3>1. b = "BEARISH" BY <1>17, <1>18, <2>4
    <3>2. ~(d >= 2 /\ u >= 2) /\ z >= 140 BY <1>5, <2>4
    <3>3. w = "BULLISH" BY <1>17, <1>18, <2>4, <3>2
    <3> QED BY <3>1, <3>3
  <2>5. CASE known /\ ~(u >= 2 /\ d >= 2) /\ ~(s >= 140) /\ ~(s <= -140)
    <3>1. b = "NEUTRAL" BY <1>17, <1>18, <2>5
    <3>2. ~(d >= 2 /\ u >= 2) /\ ~(z >= 140) /\ ~(z <= -140) BY <1>5, <2>5
    <3>3. w = "NEUTRAL" BY <1>17, <1>18, <2>5, <3>2
    <3> QED BY <3>1, <3>3
  <2> QED BY <2>1, <2>2, <2>3, <2>4, <2>5
<1> QED BY <1>1, <1>15, <1>16, <1>19

\* For every set of rows and shares: what the quality gate lets pass is not expired in the
\* eligibility, a direction is backed by three families and contradicted by one at most, and
\* the bias has no preference (report_engine.py, tsetmc_eligibility.py,
\* underlying_intelligence_engine.py).
THEOREM VerdictsStayBacked == GatesSpec => []VerdictsAreBacked
<1> DEFINE Called == \/ case = NoCase
                     \/ \E row \in GateRows : case = [engine |-> "gate", in |-> row]
                     \/ \E c \in Contexts : case = [engine |-> "bias", in |-> c]
<1>1. CasesInit => Called BY DEF CasesInit
<1>2. Called /\ [GateCalled \/ BiasCalled]_case => Called'
  BY DEF GateCalled, BiasCalled, Given
<1>3. Called => VerdictsAreBacked
  <2>1. SUFFICES ASSUME Called PROVE VerdictsAreBacked OBVIOUS
  <2>2. GatesAgree
    <3>1. SUFFICES ASSUME Tradability(case.in) = "PASS"
                   PROVE  Eligibility(case.in) \notin {"EXPIRY_UNAVAILABLE", "EXPIRED_CONTRACT"}
      BY DEF GatesAgree
    <3>2. PICK row : row = case.in OBVIOUS
    <3>3. row.expiry \notin {NoText, BadText} /\ ~(row.expiry <= 0) BY <3>1, <3>2, PassIsDated
    <3> QED BY <3>2, <3>3, DatedIsEligible
  <2>3. ASSUME case.engine = "bias" PROVE case.in \in Context
    <3>1. PICK c \in Contexts : case = [engine |-> "bias", in |-> c] BY <2>1, <2>3 DEF NoCase
    <3> QED BY <3>1, GatesAssumption
  <2>4. DirectionIsBacked
    <3>1. SUFFICES ASSUME case.engine = "bias"
                   PROVE  /\ Directional("CALL", Analyzed(case.in)) =>
                               Analyzed(case.in).up >= 3 /\ Analyzed(case.in).down <= 1
                          /\ Directional("PUT", Analyzed(case.in)) =>
                               Analyzed(case.in).down >= 3 /\ Analyzed(case.in).up <= 1
      BY DEF DirectionIsBacked
    <3> QED BY <2>3, <3>1, PassIsBacked
  <2>5. NoPreference
    <3>1. SUFFICES ASSUME case.engine = "bias", ~case.in.touched, case.in.headroom = NA
                   PROVE  /\ Analyzed(Opposite(case.in)).confidence = Analyzed(case.in).confidence
                          /\ Analyzed(Opposite(case.in)).bias =
                               CASE Analyzed(case.in).bias = "BULLISH" -> "BEARISH"
                                 [] Analyzed(case.in).bias = "BEARISH" -> "BULLISH"
                                 [] OTHER -> Analyzed(case.in).bias
      BY DEF NoPreference
    <3> QED BY <2>3, <3>1, OppositeIsTurned
  <2> QED BY <2>2, <2>4, <2>5 DEF VerdictsAreBacked
<1> QED BY <1>1, <1>2, <1>3, PTL DEF GatesSpec

-------------------------------------------------------------------------------
\* No two rows of a universe are of one option.
Distinct(rows) == \A a, b \in DOMAIN rows : rows[a].id = rows[b].id => a = b

\* An option that is taken leaves the others, and is there if it has a name.
LEMMA TakenKeeps ==
  ASSUME NEW X, NEW rows \in Seq(X), NEW option \in X
  PROVE  /\ Taken(rows, option) \in Seq(X)
         /\ Ids(rows) \subseteq Ids(Taken(rows, option))
         /\ option.id \in Ids(Taken(rows, option)) \cup {""}
         /\ Distinct(rows) => Distinct(Taken(rows, option))
<1>1. CASE option.id \in Ids(rows) \cup {""}
  BY <1>1 DEF Taken
<1>2. CASE option.id \notin Ids(rows) \cup {""}
  <2>1. PICK new : new = Append(rows, option) OBVIOUS
  <2>2. Taken(rows, option) = new BY <1>2, <2>1 DEF Taken
  <2>3. PICK n \in Nat : n = Len(rows) OBVIOUS
  <2>4. /\ new \in Seq(X) /\ DOMAIN new = 1..n + 1 /\ DOMAIN rows = 1..n
        /\ new[n + 1] = option /\ \A i \in 1..n : new[i] = rows[i]
    BY <2>1, <2>3
  <2>5. Ids(rows) \subseteq Ids(new)
    <3>1. ASSUME NEW i \in DOMAIN rows PROVE rows[i].id \in Ids(new)
      <4>1. i \in DOMAIN new /\ new[i] = rows[i] BY <2>3, <2>4
      <4> QED BY <4>1 DEF Ids
    <3> QED BY <3>1 DEF Ids
  <2>6. option.id \in Ids(new)
    <3>1. n + 1 \in DOMAIN new BY <2>3, <2>4
    <3> QED BY <2>4, <3>1 DEF Ids
  <2>7. ASSUME Distinct(rows) PROVE Distinct(new)
    <3> SUFFICES ASSUME NEW a \in 1..n + 1, NEW b \in 1..n + 1, new[a].id = new[b].id PROVE a = b
      BY <2>4 DEF Distinct
    <3>1. \A i \in 1..n : new[i].id # option.id
      <4>1. \A i \in 1..n : rows[i].id \in Ids(rows) BY <2>4 DEF Ids
      <4> QED BY <1>2, <2>4, <4>1
    <3>2. CASE a \in 1..n /\ b \in 1..n BY <2>4, <2>7, <3>2 DEF Distinct
    <3>3. CASE a = n + 1 /\ b \in 1..n BY <2>4, <3>1, <3>3
    <3>4. CASE b = n + 1 /\ a \in 1..n BY <2>4, <3>1, <3>4
    <3>5. a \in 1..n \/ a = n + 1 BY <2>3
    <3>6. b \in 1..n \/ b = n + 1 BY <2>3
    <3> QED BY <3>2, <3>3, <3>4, <3>5, <3>6
  <2> QED BY <2>2, <2>4, <2>5, <2>6, <2>7
<1> QED BY <1>1, <1>2

\* A flow that answers leaves what was taken before it, and all it names is there after it.
LEMMA FlowKeeps ==
  ASSUME NEW X, NEW rows \in Seq(X), NEW pairs, Len(pairs) \in Nat,
         \A n \in OptionPlaces(pairs) : OptionAt(pairs, n) \in X
  PROVE  /\ FlowTaken(rows, pairs) \in Seq(X)
         /\ Ids(rows) \subseteq Ids(FlowTaken(rows, pairs))
         /\ NamedIn(pairs) \subseteq Ids(FlowTaken(rows, pairs))
         /\ Distinct(rows) => Distinct(FlowTaken(rows, pairs))
<1> DEFINE Turn(f, n) == [i \in 0..n |-> IF i = 0 THEN rows ELSE Taken(f[i - 1], OptionAt(pairs, i))]
<1>1. PICK last \in Nat : last = 2 * Len(pairs) OBVIOUS
<1>2. PICK step : step = [n \in 1..last |-> [y \in Seq(X) |-> Taken(y, OptionAt(pairs, n))]] OBVIOUS
<1>3. \A n \in 1..last, y \in Seq(X) : step[n][y] = Taken(y, OptionAt(pairs, n)) BY <1>2
<1>4. \A n \in 1..last : OptionAt(pairs, n) \in X BY <1>1 DEF OptionPlaces
<1>5. \A n \in 1..last, y \in Seq(X) : step[n][y] \in Seq(X) BY <1>3, <1>4, TakenKeeps
<1>6. PICK f : f = Turn(f, last)
  <2>1. PICK S : S = Seq(X) OBVIOUS
  <2>2. rows \in S /\ StaysIn(S, step, last) BY <1>5, <2>1 DEF StaysIn
  <2>3. PICK f \in [0..last -> S] : Computes(f, rows, step, last) BY <2>2, Folded
  <2>4. \A n \in 1..last : f[n] = Taken(f[n - 1], OptionAt(pairs, n))
    <3> TAKE n \in 1..last
    <3>1. n - 1 \in 0..last /\ f[n - 1] \in Seq(X) BY <2>1
    <3> QED BY <1>3, <2>3, <3>1 DEF Computes
  <2>5. \A n \in 0..last : f[n] = IF n = 0 THEN rows ELSE Taken(f[n - 1], OptionAt(pairs, n))
    <3>1. \A n \in 0..last : n # 0 => n \in 1..last OBVIOUS
    <3> QED BY <2>3, <2>4, <3>1 DEF Computes
  <2>6. f = [n \in 0..last |-> f[n]] OBVIOUS
  <2>7. f = Turn(f, last) BY <2>5, <2>6
  <2> QED BY <2>7
<1>8. PICK t : t = (CHOOSE h : h = Turn(h, last)) OBVIOUS
<1>9. t = Turn(t, last) BY <1>6, <1>8
<1>10. FlowTaken(rows, pairs) = t[last] BY <1>1, <1>8 DEF FlowTaken
<1>11. t[0] = rows /\ \A n \in 1..last : t[n] = Taken(t[n - 1], OptionAt(pairs, n))
  <2>1. \A n \in 0..last : t[n] = IF n = 0 THEN rows ELSE Taken(t[n - 1], OptionAt(pairs, n)) BY <1>9
  <2>2. t[0] = rows
    <3>1. 0 \in 0..last OBVIOUS
    <3> QED BY <2>1, <3>1
  <2>3. ASSUME NEW n \in 1..last PROVE t[n] = Taken(t[n - 1], OptionAt(pairs, n))
    <3>1. n \in 0..last /\ n # 0 OBVIOUS
    <3> QED BY <2>1, <3>1
  <2> QED BY <2>2, <2>3
<1> DEFINE Kept(n) == /\ t[n] \in Seq(X) /\ Ids(rows) \subseteq Ids(t[n])
                      /\ \A m \in 1..n : OptionAt(pairs, m).id \in Ids(t[n]) \cup {""}
                      /\ Distinct(rows) => Distinct(t[n])
           Lost == {n \in 0..last : ~Kept(n)}
<1>12. Lost = {}
  <2> SUFFICES ASSUME Lost # {} PROVE FALSE OBVIOUS
  <2> HIDE DEF Kept
  <2>1. Lost \in SUBSET Nat OBVIOUS
  <2>2. \A n \in Lost : n \in 0..last /\ ~Kept(n) OBVIOUS
  <2>3. \A n \in 0..last : n \notin Lost => Kept(n) OBVIOUS
  <2>4. Kept(0)
    <3>1. \A m \in 1..0 : FALSE OBVIOUS
    <3> QED BY <1>11, <3>1 DEF Kept
  <2>5. \A n \in 1..last : Kept(n - 1) => Kept(n)
    <3> SUFFICES ASSUME NEW n \in 1..last, Kept(n - 1) PROVE Kept(n) OBVIOUS
    <3>1. PICK before : before = t[n - 1] OBVIOUS
    <3>2. PICK option : option = OptionAt(pairs, n) OBVIOUS
    <3>3. t[n] = Taken(before, option) BY <1>11, <3>1, <3>2
    <3>0. before \in Seq(X) /\ option \in X BY <1>4, <3>1, <3>2 DEF Kept
    <3>4. /\ Taken(before, option) \in Seq(X)
          /\ Ids(before) \subseteq Ids(Taken(before, option))
          /\ option.id \in Ids(Taken(before, option)) \cup {""}
          /\ Distinct(before) => Distinct(Taken(before, option))
      BY <3>0, TakenKeeps
    <3>5. \A m \in 1..n : m \in 1..n - 1 \/ m = n BY <1>1
    <3>6. \A m \in 1..n : OptionAt(pairs, m).id \in Ids(t[n]) \cup {""}
      <4>1. \A m \in 1..n - 1 : OptionAt(pairs, m).id \in Ids(before) \cup {""} BY <3>1 DEF Kept
      <4> QED BY <3>2, <3>3, <3>4, <3>5, <4>1
    <3> QED BY <3>1, <3>3, <3>4, <3>6 DEF Kept
  <2> HIDE DEF Lost
  <2>6. PICK n \in Lost : \A m \in Lost : n <= m BY <2>1, Smallest
  <2>7. n \in 0..last /\ n # 0 BY <2>2, <2>4
  <2>8. n \in 1..last /\ n - 1 \in 0..last /\ ~(n <= n - 1) BY <2>7
  <2> QED BY <2>2, <2>3, <2>5, <2>6, <2>8
<1>13. Kept(last)
  <2>1. last \in 0..last OBVIOUS
  <2> QED BY <1>12, <2>1
<1>14. NamedIn(pairs) \subseteq Ids(t[last])
  <2>1. \A n \in 1..last : OptionAt(pairs, n).id \in Ids(t[last]) \cup {""} BY <1>13
  <2> QED BY <1>1, <2>1 DEF NamedIn, OptionPlaces
<1> QED BY <1>10, <1>13, <1>14

-------------------------------------------------------------------------------
PairOfOptions == [put : STRING, call : STRING, time : Int]
AnOption == [id : STRING, time : Int]

LEMMA OptionsAre ==
  ASSUME NEW pairs \in Seq(PairOfOptions), NEW n \in OptionPlaces(pairs)
  PROVE  OptionAt(pairs, n) \in AnOption
<1>1. PICK length \in Nat : length = Len(pairs) OBVIOUS
<1>2. n \in 1..(2 * length) BY <1>1 DEF OptionPlaces
<1>3. (n + 1) \div 2 \in 1..length BY <1>1, <1>2
<1>4. PICK pair : pair = pairs[(n + 1) \div 2] OBVIOUS
<1>5. pair \in PairOfOptions BY <1>1, <1>3, <1>4
<1>6. pair.put \in STRING /\ pair.call \in STRING /\ pair.time \in Int BY <1>5 DEF PairOfOptions
<1>7. PICK id : id = IF n % 2 = 1 THEN pair.put ELSE pair.call OBVIOUS
<1>8. OptionAt(pairs, n) = [id |-> id, time |-> pair.time] BY <1>4, <1>7 DEF OptionAt
<1> QED BY <1>6, <1>7, <1>8 DEF AnOption

\* A universe and its evidence, after the first n flows.
AUniverse == [rows : Seq(AnOption), evidence : Seq({"SUCCESS", "FAILED"})]

Evident(u, board, reached, n) ==
  /\ Distinct(u.rows) /\ Len(u.evidence) = n
  /\ \A k \in 1..n : u.evidence[k] = IF k \in reached THEN "SUCCESS" ELSE "FAILED"
  /\ \A k \in 1..n : k \in reached => NamedIn(board[k]) \subseteq Ids(u.rows)

LEMMA FlowIsEvident ==
  ASSUME NEW board \in Seq(Seq(PairOfOptions)), NEW reached, NEW n \in 1..Len(board),
         NEW u \in AUniverse
  PROVE  /\ WithFlow(u, board[n], n \in reached) \in AUniverse
         /\ Evident(u, board, reached, n - 1) => Evident(WithFlow(u, board[n], n \in reached), board, reached, n)
<1>1. PICK pairs : pairs = board[n] OBVIOUS
<1>2. pairs \in Seq(PairOfOptions) BY <1>1
<1>3. PICK rows, evidence : rows = u.rows /\ evidence = u.evidence OBVIOUS
<1>4. rows \in Seq(AnOption) /\ evidence \in Seq({"SUCCESS", "FAILED"}) BY <1>3 DEF AUniverse
<1>5. PICK v : v = WithFlow(u, board[n], n \in reached) OBVIOUS
<1>6. Len(pairs) \in Nat /\ \A m \in OptionPlaces(pairs) : OptionAt(pairs, m) \in AnOption BY <1>2, OptionsAre
<1>7. /\ FlowTaken(rows, pairs) \in Seq(AnOption) /\ Ids(rows) \subseteq Ids(FlowTaken(rows, pairs))
      /\ NamedIn(pairs) \subseteq Ids(FlowTaken(rows, pairs))
      /\ Distinct(rows) => Distinct(FlowTaken(rows, pairs))
  BY <1>4, <1>6, FlowKeeps
<1>8. PICK word : word = IF n \in reached THEN "SUCCESS" ELSE "FAILED" OBVIOUS
<1>9. v.rows = (IF n \in reached THEN FlowTaken(rows, pairs) ELSE rows) /\ v.evidence = Append(evidence, word)
  BY <1>1, <1>3, <1>5, <1>8 DEF WithFlow, AUniverse
<1>10. v = [rows |-> v.rows, evidence |-> v.evidence] BY <1>5 DEF WithFlow, AUniverse
<1>11. v.rows \in Seq(AnOption) /\ v.evidence \in Seq({"SUCCESS", "FAILED"}) BY <1>4, <1>7, <1>8, <1>9
<1>12. v \in AUniverse BY <1>10, <1>11 DEF AUniverse
<1>13. Ids(rows) \subseteq Ids(v.rows) BY <1>7, <1>9
<1>14. ASSUME Evident(u, board, reached, n - 1) PROVE Evident(v, board, reached, n)
  <2>1. /\ Distinct(rows) /\ Len(evidence) = n - 1
        /\ \A k \in 1..n - 1 : evidence[k] = IF k \in reached THEN "SUCCESS" ELSE "FAILED"
        /\ \A k \in 1..n - 1 : k \in reached => NamedIn(board[k]) \subseteq Ids(rows)
    BY <1>3, <1>14 DEF Evident
  <2>2. Distinct(v.rows) BY <1>7, <1>9, <2>1
  <2>3. PICK said : said = Append(evidence, word) OBVIOUS
  <2>4. Len(said) = n /\ said[n] = word /\ \A k \in 1..n - 1 : said[k] = evidence[k] BY <1>4, <1>8, <2>1, <2>3
  <2>5. \A k \in 1..n : k \in 1..n - 1 \/ k = n OBVIOUS
  <2>6. \A k \in 1..n : said[k] = IF k \in reached THEN "SUCCESS" ELSE "FAILED" BY <1>8, <2>1, <2>4, <2>5
  <2>7. \A k \in 1..n : k \in reached => NamedIn(board[k]) \subseteq Ids(v.rows)
    <3>1. n \in reached => NamedIn(board[n]) \subseteq Ids(v.rows) BY <1>1, <1>7, <1>9
    <3> QED BY <1>13, <2>1, <2>5, <3>1
  <2> QED BY <1>9, <2>2, <2>3, <2>4, <2>6, <2>7 DEF Evident
<1> QED BY <1>5, <1>12, <1>14

LEMMA UniverseIs ==
  ASSUME NEW board \in Seq(Seq(PairOfOptions)), NEW reached
  PROVE  /\ UniverseOf(board, reached) \in AUniverse
         /\ Evident(UniverseOf(board, reached), board, reached, Len(board))
<1> DEFINE Turn(f, n) == [k \in 0..n |-> IF k = 0 THEN NoFlows ELSE WithFlow(f[k - 1], board[k], k \in reached)]
<1>1. PICK last \in Nat : last = Len(board) OBVIOUS
<1>2. PICK step : step = [n \in 1..last |-> [y \in AUniverse |-> WithFlow(y, board[n], n \in reached)]] OBVIOUS
<1>3. \A n \in 1..last, y \in AUniverse : step[n][y] = WithFlow(y, board[n], n \in reached) BY <1>2
<1>4. StaysIn(AUniverse, step, last) BY <1>1, <1>3, FlowIsEvident DEF StaysIn
<1>5. NoFlows \in AUniverse BY DEF NoFlows, AUniverse
<1>6. PICK f \in [0..last -> AUniverse] : Computes(f, NoFlows, step, last) BY <1>4, <1>5, Folded
<1>7. \A n \in 1..last : f[n] = WithFlow(f[n - 1], board[n], n \in reached)
  <2> TAKE n \in 1..last
  <2>1. n - 1 \in 0..last /\ f[n - 1] \in AUniverse OBVIOUS
  <2> QED BY <1>3, <1>6, <2>1 DEF Computes
<1>8. f = Turn(f, last)
  <2>1. \A n \in 0..last : n # 0 => n \in 1..last OBVIOUS
  <2>2. \A n \in 0..last : f[n] = IF n = 0 THEN NoFlows ELSE WithFlow(f[n - 1], board[n], n \in reached)
    BY <1>6, <1>7, <2>1 DEF Computes
  <2>3. f = [n \in 0..last |-> f[n]] OBVIOUS
  <2> QED BY <2>2, <2>3
<1>9. PICK u : u = (CHOOSE h : h = Turn(h, last)) OBVIOUS
<1>10. u = Turn(u, last) BY <1>8, <1>9
<1>11. UniverseOf(board, reached) = u[last] BY <1>1, <1>9 DEF UniverseOf
<1>12. u[0] = NoFlows /\ \A n \in 1..last : u[n] = WithFlow(u[n - 1], board[n], n \in reached)
  <2>1. \A n \in 0..last : u[n] = IF n = 0 THEN NoFlows ELSE WithFlow(u[n - 1], board[n], n \in reached) BY <1>10
  <2>2. u[0] = NoFlows
    <3>1. 0 \in 0..last OBVIOUS
    <3> QED BY <2>1, <3>1
  <2>3. ASSUME NEW n \in 1..last PROVE u[n] = WithFlow(u[n - 1], board[n], n \in reached)
    <3>1. n \in 0..last /\ n # 0 OBVIOUS
    <3> QED BY <2>1, <3>1
  <2> QED BY <2>2, <2>3
<1> DEFINE Kept(n) == u[n] \in AUniverse /\ Evident(u[n], board, reached, n)
           Lost == {n \in 0..last : ~Kept(n)}
<1>13. Lost = {}
  <2> SUFFICES ASSUME Lost # {} PROVE FALSE OBVIOUS
  <2> HIDE DEF Kept
  <2>1. Lost \in SUBSET Nat OBVIOUS
  <2>2. \A n \in Lost : n \in 0..last /\ ~Kept(n) OBVIOUS
  <2>3. \A n \in 0..last : n \notin Lost => Kept(n) OBVIOUS
  <2>4. Kept(0)
    <3>1. \A m \in 1..0 : FALSE OBVIOUS
    <3>2. Evident(NoFlows, board, reached, 0) BY <3>1 DEF Evident, NoFlows, Distinct
    <3> QED BY <1>5, <1>12, <3>2 DEF Kept
  <2>5. \A n \in 1..last : Kept(n - 1) => Kept(n)
    <3> SUFFICES ASSUME NEW n \in 1..last, Kept(n - 1) PROVE Kept(n) OBVIOUS
    <3>1. PICK before : before = u[n - 1] OBVIOUS
    <3>2. before \in AUniverse /\ Evident(before, board, reached, n - 1) BY <3>1 DEF Kept
    <3>3. n \in 1..Len(board) BY <1>1
    <3>4. u[n] = WithFlow(before, board[n], n \in reached) BY <1>12, <3>1
    <3> QED BY <3>2, <3>3, <3>4, FlowIsEvident DEF Kept
  <2> HIDE DEF Lost
  <2>6. PICK n \in Lost : \A m \in Lost : n <= m BY <2>1, Smallest
  <2>7. n \in 0..last /\ n # 0 BY <2>2, <2>4
  <2>8. n \in 1..last /\ n - 1 \in 0..last /\ ~(n <= n - 1) BY <2>7
  <2> QED BY <2>2, <2>3, <2>5, <2>6, <2>8
<1>14. Kept(last)
  <2>1. last \in 0..last OBVIOUS
  <2> QED BY <1>13, <2>1
<1> QED BY <1>1, <1>11, <1>14

-------------------------------------------------------------------------------
\* The snapshot at hand is the file's or of a universe whose flows were asked; a live one is
\* of an open session.
LEMMA SnapshotIs ==
  ASSUME NEW in, in.board \in Seq(Seq(PairOfOptions)), SnapshotOf(in).mode # "RAISES"
  PROVE  \/ /\ SnapshotOf(in) = Cached(in.before)
            /\ CachedIsTaken(in, UniverseOf(in.board, in.reached))
         \/ \E u \in AUniverse :
              /\ Evident(u, in.board, in.reached, Len(in.board))
              /\ SnapshotOf(in).rows = u.rows /\ SnapshotOf(in).flows = u.evidence
              /\ SnapshotOf(in).retrieved = RetrievedAt(u.evidence)
              /\ SnapshotOf(in).identities = IdsIn(u.rows) /\ SnapshotOf(in).asked = "universe"
              /\ \/ SnapshotOf(in).mode = "LAST_KNOWN_TSETMC_SNAPSHOT"
                 \/ SnapshotOf(in).mode = "LIVE_TSETMC_REFRESH" /\ in.open
<1>1. PICK got : got = UniverseOf(in.board, in.reached) OBVIOUS
<1>2. got \in AUniverse /\ Evident(got, in.board, in.reached, Len(in.board)) BY <1>1, UniverseIs
<1>3. PICK live : live = LiveSnapshot(got) OBVIOUS
<1>4. /\ live.rows = got.rows /\ live.flows = got.evidence /\ live.retrieved = RetrievedAt(got.evidence)
      /\ live.identities = IdsIn(got.rows) /\ live.asked = "universe"
      /\ live.mode = "LIVE_TSETMC_REFRESH"
  BY <1>3 DEF LiveSnapshot
<1>5. PICK closed : closed = [live EXCEPT !.mode = IF Len(got.rows) < Enough THEN "RAISES" ELSE "LAST_KNOWN_TSETMC_SNAPSHOT"] OBVIOUS
<1>6. /\ closed.rows = got.rows /\ closed.flows = got.evidence /\ closed.retrieved = RetrievedAt(got.evidence)
      /\ closed.identities = IdsIn(got.rows) /\ closed.asked = "universe"
      /\ closed.mode \in {"RAISES", "LAST_KNOWN_TSETMC_SNAPSHOT"}
  BY <1>3, <1>4, <1>5 DEF LiveSnapshot
<1>7. PICK s : s = SnapshotOf(in) OBVIOUS
<1>8. \/ s = Cached(in.before) /\ CachedIsTaken(in, got)
      \/ s = live /\ in.open
      \/ s = closed
  BY <1>1, <1>3, <1>5, <1>7 DEF SnapshotOf
<1>9. CASE s = Cached(in.before) /\ CachedIsTaken(in, got) BY <1>1, <1>7, <1>9
<1>10. CASE s = live /\ in.open BY <1>2, <1>4, <1>7, <1>10
<1>11. CASE s = closed BY <1>2, <1>6, <1>7, <1>11
<1> QED BY <1>8, <1>9, <1>10, <1>11

\* What the file holds: a universe's, dated as its flows were and with each option named once
\* in the evidence; or of one flow, which was answered.
LEMMA CachedIs ==
  ASSUME NEW before, before.board \in Seq(Seq(PairOfOptions))
  PROVE  /\ Cached(before).mode = "LAST_KNOWN_TSETMC_SNAPSHOT"
         /\ \/ /\ Cached(before).asked = "universe"
               /\ IsInjective(Cached(before).identities)
               /\ Cached(before).retrieved = RetrievedAt(Cached(before).flows)
            \/ Cached(before).asked = "flow" /\ Cached(before).retrieved = "answer"
<1>1. PICK u \in AUniverse : u = UniverseOf(before.board, before.reached) /\ Distinct(u.rows)
  BY UniverseIs DEF Evident
<1>2. PICK whole : whole = [LiveSnapshot(u) EXCEPT !.mode = "LAST_KNOWN_TSETMC_SNAPSHOT"] OBVIOUS
<1>3. /\ whole.mode = "LAST_KNOWN_TSETMC_SNAPSHOT" /\ whole.asked = "universe"
      /\ whole.identities = IdsIn(u.rows) /\ whole.flows = u.evidence
      /\ whole.retrieved = RetrievedAt(u.evidence)
      /\ whole = [rows |-> whole.rows, mode |-> whole.mode, flows |-> whole.flows,
                  retrieved |-> whole.retrieved, identities |-> whole.identities, asked |-> whole.asked]
  BY <1>2 DEF LiveSnapshot
<1>4. IsInjective(whole.identities) BY <1>1, <1>3 DEF IsInjective, IdsIn, Distinct
<1>5. PICK held : held = Cached(before) OBVIOUS
<1>6. \/ held = whole
      \/ \E rows : held = [whole EXCEPT !.rows = rows]
      \/ \E rows, ids : held = [whole EXCEPT !.rows = rows, !.flows = <<>>, !.retrieved = "answer",
                                             !.identities = ids, !.asked = "flow"]
  <2>1. PICK ofUniverse, ofReport, ofFlow \in BOOLEAN :
          /\ (ofUniverse <=> before.of = "universe") /\ (ofReport <=> before.of = "report")
          /\ (ofFlow <=> before.of = "flow")
    OBVIOUS
  <2> QED BY <1>1, <1>2, <1>5 DEF Cached
<1>7. CASE \/ held = whole
           \/ \E rows : held = [whole EXCEPT !.rows = rows]
  <2>1. /\ held.mode = whole.mode /\ held.asked = whole.asked /\ held.identities = whole.identities
        /\ held.flows = whole.flows /\ held.retrieved = whole.retrieved
    BY <1>3, <1>7
  <2> QED BY <1>3, <1>4, <1>5, <2>1
<1>8. CASE \E rows, ids : held = [whole EXCEPT !.rows = rows, !.flows = <<>>, !.retrieved = "answer",
                                               !.identities = ids, !.asked = "flow"]
  <2>1. held.mode = whole.mode /\ held.asked = "flow" /\ held.retrieved = "answer"
    BY <1>3, <1>8
  <2> QED BY <1>3, <1>5, <2>1
<1> QED BY <1>6, <1>7, <1>8

LEMMA PartStaysTold ==
  ASSUME NEW in, in.board \in Seq(Seq(PairOfOptions)), in.before.board \in Seq(Seq(PairOfOptions)),
         SnapshotOf(in).mode # "RAISES",
         NEW k \in DOMAIN in.board, ~(NamedIn(in.board[k]) \subseteq Ids(SnapshotOf(in).rows))
  PROVE  \/ k \in DOMAIN SnapshotOf(in).flows /\ SnapshotOf(in).flows[k] = "FAILED"
         \/ /\ SnapshotOf(in) = Cached(in.before) /\ SnapshotOf(in).mode # "LIVE_TSETMC_REFRESH"
            /\ Len(UniverseOf(in.board, in.reached).rows) < Enough
<1>1. CASE SnapshotOf(in) = Cached(in.before) /\ CachedIsTaken(in, UniverseOf(in.board, in.reached))
  <2>1. PICK u : u = UniverseOf(in.board, in.reached) OBVIOUS
  <2>2. u.rows = <<>> \/ Len(u.rows) < Enough BY <1>1, <2>1 DEF CachedIsTaken
  <2>3. Len(u.rows) < Enough BY <2>2, UniverseAssumption
  <2> QED BY <1>1, <2>1, <2>3, CachedIs
<1>2. ASSUME NEW u \in AUniverse, Evident(u, in.board, in.reached, Len(in.board)),
             SnapshotOf(in).rows = u.rows, SnapshotOf(in).flows = u.evidence
      PROVE  k \in DOMAIN SnapshotOf(in).flows /\ SnapshotOf(in).flows[k] = "FAILED"
  <2>1. PICK n \in Nat : n = Len(in.board) OBVIOUS
  <2>2. k \in 1..n BY <2>1
  <2>3. /\ u.evidence[k] = IF k \in in.reached THEN "SUCCESS" ELSE "FAILED"
        /\ k \in in.reached => NamedIn(in.board[k]) \subseteq Ids(u.rows)
        /\ Len(u.evidence) = n
    BY <1>2, <2>1, <2>2 DEF Evident
  <2>4. k \in DOMAIN u.evidence BY <2>2, <2>3 DEF AUniverse
  <2> QED BY <1>2, <2>3, <2>4
<1> QED BY <1>1, <1>2, SnapshotIs

Dated(word) == word # ""
ModeIsKnown(s) == s.mode \in {"LAST_KNOWN_TSETMC_SNAPSHOT", "LIVE_TSETMC_REFRESH"}
AuditPasses(in, s) == AuditFailures(AuditOf(in, s)) = {}
Passes(s) == Dated(s.retrieved) /\ IsInjective(s.identities)

\* An audit fails exactly if its market watch is undated or it names an option twice.
LEMMA FailuresAre ==
  ASSUME NEW in, NEW s, ModeIsKnown(s)
  PROVE  AuditPasses(in, s) <=> Passes(s)
<1>1. PICK audit : audit = AuditOf(in, s) OBVIOUS
<1>2. audit.mode = s.mode /\ audit.retrieved = s.retrieved /\ audit.identities = s.identities
  BY <1>1 DEF AuditOf
<1>3. audit.scoring \in {"TSETMC_ECONOMIC_SCORING", "OFF_FIELD_EVIDENCE_GATE_OPEN"}
      /\ audit.ranking \in {"TSETMC_EVIDENCE_RANKING", "OFF"}
  BY <1>1 DEF AuditOf
<1>4. PICK injective : injective <=> IsInjective(audit.identities) OBVIOUS
<1>5. PICK dated : dated <=> Dated(audit.retrieved) OBVIOUS
<1>6. audit.retrieved = "" <=> ~dated BY <1>5 DEF Dated
<1>7. AuditFailures(audit) = {} <=> audit.retrieved # "" /\ IsInjective(audit.identities)
  BY <1>2, <1>3 DEF AuditFailures, ModeIsKnown
<1> QED BY <1>1, <1>2, <1>5, <1>6, <1>7 DEF Passes, AuditPasses

LEMMA PassStaysAnswered ==
  ASSUME NEW in, in.board \in Seq(Seq(PairOfOptions)), in.before.board \in Seq(Seq(PairOfOptions)),
         SnapshotOf(in).mode # "RAISES"
  PROVE  AuditFailures(AuditOf(in, SnapshotOf(in))) = {} <=>
           \/ /\ SnapshotOf(in).asked = "universe"
              /\ "SUCCESS" \in {SnapshotOf(in).flows[k] : k \in DOMAIN SnapshotOf(in).flows}
           \/ SnapshotOf(in).asked = "flow" /\ IsInjective(SnapshotOf(in).identities)
<1>1. PICK s : s = SnapshotOf(in) OBVIOUS
<1>2. /\ s.mode \in {"LAST_KNOWN_TSETMC_SNAPSHOT", "LIVE_TSETMC_REFRESH"}
      /\ \/ s.asked = "universe" /\ IsInjective(s.identities) /\ s.retrieved = RetrievedAt(s.flows)
         \/ s.asked = "flow" /\ s.retrieved = "answer"
  <2>1. CASE s = Cached(in.before) BY <2>1, CachedIs
  <2>2. ASSUME NEW u \in AUniverse, Evident(u, in.board, in.reached, Len(in.board)),
               s.retrieved = RetrievedAt(u.evidence), s.flows = u.evidence, s.identities = IdsIn(u.rows)
        PROVE  IsInjective(s.identities) /\ s.retrieved = RetrievedAt(s.flows)
    BY <2>2 DEF Evident, IsInjective, IdsIn, Distinct
  <2> QED BY <1>1, <2>1, <2>2, SnapshotIs
<1>3. AuditPasses(in, s) <=> Passes(s)
  <2>1. ModeIsKnown(s) BY <1>2 DEF ModeIsKnown
  <2> QED BY <2>1, FailuresAre
<1>5. Dated("answer") BY DEF Dated
<1>4. Dated(RetrievedAt(s.flows)) <=> "SUCCESS" \in {s.flows[k] : k \in DOMAIN s.flows} BY DEF RetrievedAt, Dated
<1> QED BY <1>1, <1>2, <1>3, <1>4, <1>5 DEF Passes, AuditPasses

LEMMA MovementStaysObserved ==
  ASSUME NEW in, in.board \in Seq(Seq(PairOfOptions)), in.before.board \in Seq(Seq(PairOfOptions)),
         in.limit \in Nat, SnapshotOf(in).mode # "RAISES",
         in.ranked, MarketState(in, SnapshotOf(in)) = "SESSION_OPEN_WITH_MULTIPLE_SOURCE_TIMESTAMPS"
  PROVE  /\ in.open
         /\ \E i, k \in DOMAIN Displayed(in, SnapshotOf(in)) :
              LET shown == Displayed(in, SnapshotOf(in))
              IN /\ in.quotes[shown[i].id] # in.quotes[shown[k].id]
                 /\ {in.quotes[shown[i].id], in.quotes[shown[k].id]} \cap {NoTime, Down} = {}
<1>1. PICK s : s = SnapshotOf(in) OBVIOUS
<1>0. s.mode # "LAST_KNOWN_TSETMC_SNAPSHOT" BY <1>1 DEF MarketState
<1>2. PICK u \in AUniverse :
           /\ s.rows = u.rows
           /\ s.mode = "LAST_KNOWN_TSETMC_SNAPSHOT" \/ (s.mode = "LIVE_TSETMC_REFRESH" /\ in.open)
  BY <1>0, <1>1, SnapshotIs, CachedIs
<1>3. PICK shown : shown = Displayed(in, s) OBVIOUS
<1>4. PICK times : times = TimesOf(shown) OBVIOUS
<1>5. in.open /\ s.mode # "LAST_KNOWN_TSETMC_SNAPSHOT" /\ times # {} /\ Cardinality(times) # 1
  BY <1>1, <1>3, <1>4 DEF MarketState
<1>6. s.mode = "LIVE_TSETMC_REFRESH" BY <1>2, <1>5
<1>7. PICK all : all = SubSeq(s.rows, 1, IF Len(s.rows) < in.limit THEN Len(s.rows) ELSE in.limit) OBVIOUS
<1>8. shown = [i \in DOMAIN all |-> Quoted(all[i], in.quotes[all[i].id])] BY <1>3, <1>6, <1>7 DEF Displayed
<1>9. \A i \in DOMAIN shown : all[i] \in AnOption
  <2>1. s.rows \in Seq(AnOption) BY <1>2 DEF AUniverse
  <2>2. PICK n \in Nat : n = (IF Len(s.rows) < in.limit THEN Len(s.rows) ELSE in.limit) BY <2>1
  <2>3. n <= Len(s.rows) BY <2>1, <2>2
  <2>4. all \in Seq(AnOption) BY <1>7, <2>1, <2>2, <2>3
  <2> QED BY <1>8, <2>4
<1>10. \A i \in DOMAIN shown :
         /\ shown[i].id = all[i].id
         /\ shown[i].time = IF in.quotes[all[i].id] \in {NoTime, Down} THEN NoTime ELSE in.quotes[all[i].id]
  <2> TAKE i \in DOMAIN shown
  <2>1. PICK row \in AnOption : row = all[i] BY <1>9
  <2>2. PICK quote : quote = in.quotes[all[i].id] OBVIOUS
  <2>3. shown[i] = Quoted(row, quote) BY <1>8, <2>1, <2>2
  <2>4. shown[i].id = row.id /\ shown[i].time = IF quote \in {NoTime, Down} THEN NoTime ELSE quote
    BY <2>3 DEF Quoted, AnOption
  <2> QED BY <2>1, <2>2, <2>4
<1>11. PICK x \in times : TRUE BY <1>5
<1>12. times # {x} BY <1>5, FS_Singleton
<1>13. PICK y \in times : y # x BY <1>12
<1>14. \A t \in times : \E i \in DOMAIN shown : shown[i].time = t /\ t # NoTime BY <1>4 DEF TimesOf
<1>15. PICK i \in DOMAIN shown : shown[i].time = x /\ x # NoTime BY <1>14
<1>16. PICK k \in DOMAIN shown : shown[k].time = y /\ y # NoTime BY <1>13, <1>14
<1>17. in.quotes[shown[i].id] = x /\ in.quotes[shown[i].id] \notin {NoTime, Down} BY <1>10, <1>15
<1>18. in.quotes[shown[k].id] = y /\ in.quotes[shown[k].id] \notin {NoTime, Down} BY <1>10, <1>16
<1>19. /\ in.quotes[shown[i].id] # in.quotes[shown[k].id]
       /\ {in.quotes[shown[i].id], in.quotes[shown[k].id]} \cap {NoTime, Down} = {}
  BY <1>13, <1>17, <1>18
<1> QED BY <1>1, <1>3, <1>5, <1>19

\* What the snapshot and the audit of a report say of the market is what was seen of it, for
\* any flows, any outages and any quotes: option_market_watch_universe, build_tsetmc_snapshot,
\* save_tsetmc_report and verify_audit.
THEOREM UniverseStaysTold == UniverseSpec => []UniverseIsTold
<1>1. CasesInit => UniverseIsTold
  BY DEF CasesInit, NoCase, UniverseIsTold, PartIsTold, PassMeansAnswered, MovementIsObserved, InUniverse
<1>2. UniverseIsTold /\ UNCHANGED case => UniverseIsTold'
  BY DEF UniverseIsTold, PartIsTold, PassMeansAnswered, MovementIsObserved, InUniverse
<1>3. UniverseCalled => UniverseIsTold'
  <2> SUFFICES ASSUME UniverseCalled PROVE UniverseIsTold' OBVIOUS
  <2>1. PICK called : called = case' OBVIOUS
  <2>2. PICK board \in FlowBoards, before \in Befores : \E in :
          /\ called = [engine |-> "universe", in |-> in]
          /\ in.board = board /\ in.before = before /\ in.limit = 2
    BY <2>1 DEF UniverseCalled, Given
  <2>3. PICK in : /\ called = [engine |-> "universe", in |-> in]
                  /\ in.board = board /\ in.before = before /\ in.limit = 2
    BY <2>2
  <2>9. in = called.in BY <2>3
  <2>4. in.board = board /\ in.limit \in Nat BY <2>3
  <2>5. in.board \in Seq(Seq(PairOfOptions)) /\ in.before.board \in Seq(Seq(PairOfOptions))
    BY <2>3, UniverseAssumption DEF PairOfOptions
  <2>6. InUniverse' <=> SnapshotOf(in).mode # "RAISES" BY <2>1, <2>3 DEF InUniverse
  <2>7. PartIsTold' BY <2>1, <2>9, <2>5, <2>6, PartStaysTold DEF PartIsTold
  <2>8. PassMeansAnswered' BY <2>1, <2>9, <2>5, <2>6, PassStaysAnswered DEF PassMeansAnswered
  <2>10. MovementIsObserved'
    BY <2>1, <2>9, <2>4, <2>5, <2>6, MovementStaysObserved DEF MovementIsObserved
  <2> QED BY <2>7, <2>8, <2>10 DEF UniverseIsTold
<1> QED BY <1>1, <1>2, <1>3, PTL DEF UniverseSpec

-------------------------------------------------------------------------------
\* The sum of integers is one.
LEMMA TotalIs ==
  ASSUME NEW s \in Seq(Int)
  PROVE  Total(s) \in Int
<1> DEFINE Turn(f, n) == [i \in 0..n |-> IF i = 0 THEN 0 ELSE f[i - 1] + s[i]]
<1>1. PICK last \in Nat : last = Len(s) OBVIOUS
<1>0. \A n \in 1..last : s[n] \in Int BY <1>1
<1>2. PICK step : step = [n \in 1..last |-> [y \in Int |-> y + s[n]]] OBVIOUS
<1>3. \A n \in 1..last, y \in Int : step[n][y] = y + s[n] BY <1>2
<1>4. StaysIn(Int, step, last)
  <2> SUFFICES ASSUME NEW n \in 1..last, NEW y \in Int PROVE step[n][y] \in Int BY DEF StaysIn
  <2>1. PICK x \in Int : x = s[n] BY <1>0
  <2>2. step[n][y] = y + x BY <1>3, <2>1
  <2> QED BY <2>2
<1>5. PICK zero \in Int : zero = 0 OBVIOUS
<1>6. PICK f \in [0..last -> Int] : Computes(f, zero, step, last) BY <1>4, <1>5, Folded
<1>7. \A n \in 1..last : f[n] = f[n - 1] + s[n]
  <2> TAKE n \in 1..last
  <2>1. n - 1 \in 0..last /\ f[n - 1] \in Int OBVIOUS
  <2> QED BY <1>3, <1>6, <2>1 DEF Computes
<1>8. f = Turn(f, last)
  <2>1. \A n \in 0..last : n # 0 => n \in 1..last OBVIOUS
  <2>2. \A n \in 0..last : f[n] = IF n = 0 THEN 0 ELSE f[n - 1] + s[n]
    BY <1>5, <1>6, <1>7, <2>1 DEF Computes
  <2>3. f = [n \in 0..last |-> f[n]] OBVIOUS
  <2> QED BY <2>2, <2>3
<1>9. PICK u : u = (CHOOSE h : h = Turn(h, last)) OBVIOUS
<1>10. u = Turn(u, last) BY <1>8, <1>9
<1>11. Total(s) = u[last] BY <1>1, <1>9 DEF Total
<1>12. u[0] = 0 /\ \A n \in 1..last : u[n] = u[n - 1] + s[n]
  <2>1. \A n \in 0..last : u[n] = IF n = 0 THEN 0 ELSE u[n - 1] + s[n] BY <1>10
  <2>2. u[0] = 0
    <3>1. 0 \in 0..last OBVIOUS
    <3> QED BY <2>1, <3>1
  <2>3. ASSUME NEW n \in 1..last PROVE u[n] = u[n - 1] + s[n]
    <3>1. n \in 0..last /\ n # 0 OBVIOUS
    <3> QED BY <2>1, <3>1
  <2> QED BY <2>2, <2>3
<1> DEFINE Lost == {n \in 0..last : u[n] \notin Int}
<1>13. Lost = {}
  <2> SUFFICES ASSUME Lost # {} PROVE FALSE OBVIOUS
  <2>1. Lost \in SUBSET Nat OBVIOUS
  <2>2. \A n \in Lost : n \in 0..last /\ u[n] \notin Int OBVIOUS
  <2>3. \A n \in 0..last : n \notin Lost => u[n] \in Int OBVIOUS
  <2> HIDE DEF Lost
  <2>6. PICK n \in Lost : \A m \in Lost : n <= m BY <2>1, Smallest
  <2>7. n \in 0..last /\ n # 0 BY <1>12, <2>2
  <2>8. n \in 1..last /\ n - 1 \in 0..last /\ ~(n <= n - 1) BY <2>7
  <2>9. u[n - 1] \in Int BY <2>3, <2>6, <2>8
  <2>10. PICK x, y \in Int : x = u[n - 1] /\ y = s[n] BY <1>0, <2>8, <2>9
  <2>11. u[n] = x + y BY <1>12, <2>8, <2>10
  <2>12. x + y \in Int BY <2>10
  <2>13. u[n] \in Int BY <2>11, <2>12
  <2> QED BY <2>2, <2>6, <2>13
<1>14. u[last] \in Int
  <2>1. last \in 0..last OBVIOUS
  <2> QED BY <1>13, <2>1
<1> QED BY <1>11, <1>14

LEMMA AverageIs ==
  ASSUME NEW s \in Seq(Int)
  PROVE  Average(s) \in Int
<1>1. CASE s = <<>> BY <1>1 DEF Average
<1>2. CASE s # <<>>
  <2>1. PICK n \in Nat : n = Len(s) /\ n > 0 BY <1>2
  <2>2. PICK x \in Int : x = Total(s) BY TotalIs
  <2>3. x \div n \in Int BY <2>1, <2>2
  <2> QED BY <1>2, <2>1, <2>2, <2>3 DEF Average
<1> QED BY <1>1, <1>2

LEMMA PointsAre ==
  ASSUME NEW x \in Int
  PROVE  Points(x) \in Int
BY DEF Points, Clip

LEMMA IfIs ==
  ASSUME NEW x, NEW points \in Int
  PROVE  If(x, points) \in Seq(Int)
BY DEF If

\* The fields of what is known of a share are integers.
LEMMA EvidenceIs ==
  ASSUME NEW c \in ShareEvidence
  PROVE  /\ c.r5 \in Int /\ c.r20 \in Int /\ c.rsi \in Int /\ c.macd \in Int /\ c.imbalance \in Int
         /\ c.bid_ask \in Int /\ c.power \in Int /\ c.legal \in Int /\ c.headroom \in Int
         /\ \A i \in 1..5 : c.averages[i] \in Int
         /\ \A i \in 1..3 : c.volumes[i] \in Int
         /\ c.status = "PASS"
BY DEF ShareEvidence

LEMMA MomentumIs ==
  ASSUME NEW c \in ShareEvidence
  PROVE  Momentum(c) \in Seq(Int)
<1>1. PICK a \in Seq(Int) : a = If(c.r5, Points(50 + 8 * c.r5))
  <2>1. 50 + 8 * c.r5 \in Int BY EvidenceIs
  <2> QED BY <2>1, PointsAre, IfIs
<1>2. PICK b \in Seq(Int) : b = If(c.r20, Points(50 + 3 * c.r20))
  <2>1. 50 + 3 * c.r20 \in Int BY EvidenceIs
  <2> QED BY <2>1, PointsAre, IfIs
<1>3. \A x \in Int : \A m, n \in Int : Either(x, m, n) \in Seq(Int) BY IfIs DEF Either
<1>4. /\ Either(c.averages[1], 70, 30) \in Seq(Int) /\ Either(c.averages[2], 70, 30) \in Seq(Int)
      /\ Either(c.averages[3], 75, 25) \in Seq(Int) /\ Either(c.averages[4], 80, 20) \in Seq(Int)
      /\ Either(c.averages[5], 80, 20) \in Seq(Int) /\ Either(c.macd, 75, 25) \in Seq(Int)
  <2>1. 1 \in 1..5 /\ 2 \in 1..5 /\ 3 \in 1..5 /\ 4 \in 1..5 /\ 5 \in 1..5 OBVIOUS
  <2>2. PICK x1, x2, x3, x4, x5, x6 \in Int :
          /\ x1 = c.averages[1] /\ x2 = c.averages[2] /\ x3 = c.averages[3]
          /\ x4 = c.averages[4] /\ x5 = c.averages[5] /\ x6 = c.macd
    BY <2>1, EvidenceIs
  <2>3. PICK n70, n30, n75, n25, n80, n20 \in Int :
          n70 = 70 /\ n30 = 30 /\ n75 = 75 /\ n25 = 25 /\ n80 = 80 /\ n20 = 20
    OBVIOUS
  <2>4. /\ Either(x1, n70, n30) \in Seq(Int) /\ Either(x2, n70, n30) \in Seq(Int)
        /\ Either(x3, n75, n25) \in Seq(Int) /\ Either(x4, n80, n20) \in Seq(Int)
        /\ Either(x5, n80, n20) \in Seq(Int) /\ Either(x6, n75, n25) \in Seq(Int)
    BY <1>3
  <2> QED BY <2>2, <2>3, <2>4
<1>5. PICK d, e, f, g, h, k \in Seq(Int) :
        /\ d = Either(c.averages[1], 70, 30) /\ e = Either(c.averages[2], 70, 30)
        /\ f = Either(c.averages[3], 75, 25) /\ g = Either(c.averages[4], 80, 20)
        /\ h = Either(c.averages[5], 80, 20) /\ k = Either(c.macd, 75, 25)
  BY <1>4
<1>6. PICK r \in Seq(Int) :
        r = If(c.rsi, IF c.rsi \in 55..72 THEN 80 ELSE IF c.rsi > 80 THEN 35 ELSE IF c.rsi >= 50 THEN 65 ELSE 25)
  BY IfIs
<1>7. Momentum(c) = a \o b \o d \o e \o f \o g \o h \o r \o k BY <1>1, <1>2, <1>5, <1>6 DEF Momentum
<1>8. a \o b \o d \o e \o f \o g \o h \o r \o k \in Seq(Int) OBVIOUS
<1> QED BY <1>7, <1>8

LEMMA BoardIs ==
  ASSUME NEW c \in ShareEvidence
  PROVE  Board(c) \in Seq(Int)
<1>0. c.imbalance \in Int /\ c.bid_ask \in Int /\ c.power \in Int /\ c.legal \in Int BY EvidenceIs
<1>1. PICK a \in Seq(Int) : a = If(c.imbalance, Points(50 + (c.imbalance \div 2)))
  <2>1. 50 + (c.imbalance \div 2) \in Int BY <1>0
  <2> QED BY <2>1, PointsAre, IfIs
<1>2. PICK b \in Seq(Int) : b = If(c.bid_ask, Points(50 + (((c.bid_ask - 100) * 35) \div 100)))
  <2>1. 50 + (((c.bid_ask - 100) * 35) \div 100) \in Int BY <1>0
  <2> QED BY <2>1, PointsAre, IfIs
<1>3. PICK d \in Seq(Int) : d = If(c.power, Points(50 + (((c.power - 100) * 30) \div 100)))
  <2>1. 50 + (((c.power - 100) * 30) \div 100) \in Int BY <1>0
  <2> QED BY <2>1, PointsAre, IfIs
<1>4. PICK e \in Seq(Int) : e = If(c.legal, Points(50 + (((c.legal - 100) * 20) \div 100)))
  <2>1. 50 + (((c.legal - 100) * 20) \div 100) \in Int BY <1>0
  <2> QED BY <2>1, PointsAre, IfIs
<1>5. PICK f \in Seq(Int) : f = (IF c.touched THEN <<90>> ELSE IF c.headroom \in 0..2 THEN <<85>>
                                ELSE IF Known(c.headroom) /\ c.headroom <= 5 THEN <<70>> ELSE <<>>)
  <2>1. <<90>> \in Seq(Int) /\ <<85>> \in Seq(Int) /\ <<70>> \in Seq(Int) /\ <<>> \in Seq(Int) OBVIOUS
  <2> QED BY <2>1
<1>6. Board(c) = a \o b \o d \o e \o f BY <1>1, <1>2, <1>3, <1>4, <1>5 DEF Board
<1> QED BY <1>6

LEMMA VolumeIs ==
  ASSUME NEW c \in ShareEvidence
  PROVE  Volume(c) \in Seq(Int)
<1> DEFINE Part(x) == If(x, Points(50 + (((x - 100) * 45) \div 100)))
<1>1. \A x \in Int : Part(x) \in Seq(Int)
  <2> TAKE x \in Int
  <2>1. 50 + (((x - 100) * 45) \div 100) \in Int OBVIOUS
  <2> QED BY <2>1, PointsAre, IfIs
<1>2. Volume(c) = Part(c.volumes[1]) \o Part(c.volumes[2]) \o Part(c.volumes[3]) BY DEF Volume
<1> HIDE DEF Part
<1>3. Part(c.volumes[1]) \in Seq(Int) /\ Part(c.volumes[2]) \in Seq(Int) /\ Part(c.volumes[3]) \in Seq(Int)
  <2>1. 1 \in 1..3 /\ 2 \in 1..3 /\ 3 \in 1..3 OBVIOUS
  <2>2. c.volumes[1] \in Int /\ c.volumes[2] \in Int /\ c.volumes[3] \in Int BY <2>1, EvidenceIs
  <2> QED BY <1>1, <2>2
<1> QED BY <1>2, <1>3

\* The three components of a share are integers.
LEMMA CoreIs ==
  ASSUME NEW c \in ShareEvidence
  PROVE  \E x, y, z \in Int : Core(c) = <<x, y, z>>
<1>1. Average(Momentum(c)) \in Int BY MomentumIs, AverageIs
<1>2. Average(Board(c)) \in Int BY BoardIs, AverageIs
<1>3. Average(Volume(c)) \in Int BY VolumeIs, AverageIs
<1> QED BY <1>1, <1>2, <1>3 DEF Core

-------------------------------------------------------------------------------
\* The fields of a row of the board.
LEMMA RowIs ==
  ASSUME NEW row \in OptionRow
  PROVE  /\ row.spot \in Int /\ row.strike \in Int /\ row.price \in Int /\ row.close \in Int /\ row.days \in Int
         /\ row.volume \in Int /\ row.count \in Int /\ row.value \in Int /\ row.bid \in Int /\ row.ask \in Int
         /\ row.delta \in Int /\ row.share \in LastMinuteNames
BY DEF OptionRow

LEMMA SpreadIs ==
  ASSUME NEW p \in Int, NEW q \in Int, NEW d \in Int, d > 0
  PROVE  (100 * (IF p > q THEN p - q ELSE q - p)) \div d \in Int
<1>1. PICK x \in Int : x = 100 * (IF p > q THEN p - q ELSE q - p) OBVIOUS
<1>2. x \div d \in Int OBVIOUS
<1> QED BY <1>1, <1>2

LEMMA ApartIs ==
  ASSUME NEW row \in OptionRow, row.strike > 0
  PROVE  Apart(row) \in Int
BY RowIs, SpreadIs DEF Apart

LEMMA HeadroomIs ==
  ASSUME NEW c \in ShareEvidence
  PROVE  Headroom(c) \in Int
<1>1. CASE c.touched BY <1>1 DEF Headroom
<1>2. CASE ~c.touched
  <2>1. PICK rules : rules = << <<0, ~Known(c.headroom) \/ c.headroom < 0>>, <<95, c.headroom <= 1>>, <<90, c.headroom <= 2>>,
                  <<75, c.headroom <= 5>>, <<55, c.headroom <= 10>>, <<35, c.headroom <= 20>> >>
    OBVIOUS
  <2>2. Headroom(c) = FirstOf(rules, 20) BY <1>2, <2>1 DEF Headroom
  <2>3. DOMAIN rules = 1..6 BY <2>1
  <2>4. \A i \in 1..6 : rules[i][1] \in Int
    <3>1. /\ rules[1][1] = 0 /\ rules[2][1] = 95 /\ rules[3][1] = 90
          /\ rules[4][1] = 75 /\ rules[5][1] = 55 /\ rules[6][1] = 35
      BY <2>1, Zenon
    <3>2. \A i \in 1..6 : i = 1 \/ i = 2 \/ i = 3 \/ i = 4 \/ i = 5 \/ i = 6 OBVIOUS
    <3> QED BY <3>1, <3>2
  <2>5. PICK six \in Nat, twenty \in Int : six = 6 /\ twenty = 20 OBVIOUS
  <2>6. \/ FirstOf(rules, twenty) = twenty \/ \E i \in 1..six : FirstOf(rules, twenty) = rules[i][1]
    <3>1. DOMAIN rules = 1..six BY <2>3, <2>5
    <3>2. PICK said : said = FirstOf(rules, twenty) OBVIOUS
    <3>3. \/ (\A i \in 1..six : ~rules[i][2]) /\ said = twenty
          \/ \E i \in 1..six : /\ rules[i][2] /\ \A k \in 1..i - 1 : ~rules[k][2]
                               /\ said = rules[i][1]
      BY <3>1, <3>2, FirstRule
    <3> QED BY <3>2, <3>3
  <2> QED BY <2>2, <2>4, <2>5, <2>6
<1> QED BY <1>1, <1>2

LEMMA LiquidityIs ==
  ASSUME NEW row \in OptionRow
  PROVE  Liquidity(row) \in Int
<1> DEFINE Some(x, points) == IF Known(x) /\ x > 0 THEN points ELSE 0
           gap == (100 * (IF row.price > row.close THEN row.price - row.close ELSE row.close - row.price)) \div row.close
           spread == (200 * (row.ask - row.bid)) \div (row.ask + row.bid)
           quoted == Known(row.bid) /\ Known(row.ask) /\ row.bid > 0 /\ row.ask >= row.bid
<1>1. PICK a \in Int : a = Some(row.volume, 20) OBVIOUS
<1>2. PICK b \in Int : b = Some(row.count, 10) OBVIOUS
<1>3. PICK d \in Int : d = Some(row.value, 10) OBVIOUS
<1>4. PICK e \in Int : e = (IF ~Known(row.close) \/ row.close <= 0 THEN 0 ELSE IF gap <= 2 THEN 5 ELSE IF gap <= 5 THEN 2 ELSE 0)
  OBVIOUS
<1>5. PICK f \in Int : f = (IF ~quoted THEN 0 ELSE IF spread <= 2 THEN 15 ELSE IF spread <= 5 THEN 8 ELSE IF spread <= 10 THEN 3 ELSE 0)
  OBVIOUS
<1>6. Liquidity(row) = Points(40 + a + b + d + e + f) BY <1>1, <1>2, <1>3, <1>4, <1>5 DEF Liquidity
<1>7. 40 + a + b + d + e + f \in Int OBVIOUS
<1> QED BY <1>6, <1>7, PointsAre

LEMMA SmallerOf ==
  ASSUME NEW x \in Int, NEW y \in Int
  PROVE  Min({x, y}) \in Int
<1>1. \E z \in {x, y} : \A w \in {x, y} : z =< w OBVIOUS
<1>2. Min({x, y}) \in {x, y} BY <1>1 DEF Min
<1> QED BY <1>2

LEMMA SensitivityIs ==
  ASSUME NEW row \in OptionRow, row.price > 0
  PROVE  Sensitivity(row) \in Int
<1>1. PICK times \in Int : times = row.spot \div row.price BY RowIs
<1>2. PICK least \in Int : least = Min({times, 15})
  <2>1. PICK fifteen \in Int : fifteen = 15 OBVIOUS
  <2> QED BY <2>1, SmallerOf
<1>3. PICK leverage \in Int : leverage = Points(35 + 4 * least) BY PointsAre
<1>4. PICK delta \in Int : delta = IF Known(row.delta) THEN Points(50 + (row.delta \div 2)) ELSE 50
  <2>1. 50 + (row.delta \div 2) \in Int BY RowIs
  <2>2. Points(50 + (row.delta \div 2)) \in Int BY <2>1, PointsAre
  <2> QED BY <2>2
<1>5. Sensitivity(row) = (leverage + delta) \div 2 BY <1>1, <1>2, <1>3, <1>4 DEF Sensitivity
<1> QED BY <1>5

LEMMA MoneyTimeIs ==
  ASSUME NEW row
  PROVE  MoneyTime(row) \in Int
<1>1. PICK near \in Int : near = IF Apart(row) <= 5 THEN 90 ELSE IF Apart(row) <= 10 THEN 80 ELSE IF Apart(row) <= 20 THEN 65 ELSE 45
  OBVIOUS
<1>2. PICK time \in Int : time = IF row.days < 5 THEN 35 ELSE IF row.days <= 30 THEN 80 ELSE IF row.days <= 90 THEN 65 ELSE 45
  OBVIOUS
<1>3. MoneyTime(row) = (near + time) \div 2 BY <1>1, <1>2 DEF MoneyTime
<1> QED BY <1>3

\* The three components in a direction.
LEMMA DirectedIs ==
  ASSUME NEW c \in ShareEvidence, NEW type
  PROVE  \E x, y, z \in Int : Directed(type, c) = <<x, y, z>>
<1>1. PICK x, y, z \in Int : Core(c) = <<x, y, z>> BY CoreIs
<1>2. Core(c)[1] = x /\ Core(c)[2] = y /\ Core(c)[3] = z BY <1>1
<1>3. CASE type = "PUT"
  <2>1. Directed(type, c) = <<100 - x, 100 - y, 100 - z>> BY <1>2, <1>3 DEF Directed
  <2> QED BY <2>1
<1>4. CASE type # "PUT" BY <1>1, <1>4 DEF Directed
<1> QED BY <1>3, <1>4

LEMMA TotalScoreIs ==
  ASSUME NEW row \in OptionRow, NEW c \in ShareEvidence, Usable(row, c)
  PROVE  TotalScore(row, c) \in Int /\ Liquidity(row) \in Int /\ Apart(row) \in Int
<1>1. row.price > 0 /\ row.strike > 0 BY DEF Usable
<1>2. PICK x, y, z \in Int : Directed(row.type, c) = <<x, y, z>> BY DirectedIs
<1>3. PICK h, l, s, m \in Int : /\ h = Headroom(c) /\ l = Liquidity(row)
                               /\ s = Sensitivity(row) /\ m = MoneyTime(row)
  BY <1>1, HeadroomIs, LiquidityIs, SensitivityIs, MoneyTimeIs
<1>4. PICK core : core = Directed(row.type, c) OBVIOUS
<1>5. core[1] = x /\ core[2] = y /\ core[3] = z BY <1>2, <1>4
<1>6. TotalScore(row, c) = 25 * x + 20 * y + 15 * z + 10 * h + 15 * l + 10 * s + 5 * m
  BY <1>3, <1>4, <1>5 DEF TotalScore
<1>7. 25 * x + 20 * y + 15 * z + 10 * h + 15 * l + 10 * s + 5 * m \in Int OBVIOUS
<1> QED BY <1>1, <1>6, <1>7, LiquidityIs, ApartIs

-------------------------------------------------------------------------------
\* Finitely many items of four whole keys, no two with the same last key.
Ordered(items) ==
  /\ IsFiniteSet(items)
  /\ \A a \in items : a.keys[1] \in Int /\ a.keys[2] \in Int /\ a.keys[3] \in Int /\ a.keys[4] \in Int
  /\ \A a, b \in items : a.keys[4] = b.keys[4] => a = b

AheadOf(items) == {p \in items \X items : Ahead(p[1], p[2])}

LEMMA AheadIs ==
  ASSUME NEW a, NEW b,
         a.keys[1] \in Int, a.keys[2] \in Int, a.keys[3] \in Int, a.keys[4] \in Int,
         b.keys[1] \in Int, b.keys[2] \in Int, b.keys[3] \in Int, b.keys[4] \in Int
  PROVE  Ahead(a, b) <=>
           \/ a.keys[1] > b.keys[1]
           \/ a.keys[1] = b.keys[1] /\ a.keys[2] > b.keys[2]
           \/ a.keys[1] = b.keys[1] /\ a.keys[2] = b.keys[2] /\ a.keys[3] > b.keys[3]
           \/ a.keys[1] = b.keys[1] /\ a.keys[2] = b.keys[2] /\ a.keys[3] = b.keys[3] /\ a.keys[4] > b.keys[4]
<1>1. PICK x, y : x = a.keys /\ y = b.keys OBVIOUS
<1>2. Ahead(a, b) <=> \E n \in 1..4 : x[n] > y[n] /\ \A m \in 1..(n - 1) : x[m] = y[m] BY <1>1 DEF Ahead
<1>3. \A n \in 1..4 : n = 1 \/ n = 2 \/ n = 3 \/ n = 4 OBVIOUS
<1>4. 1 \in 1..4 /\ 2 \in 1..4 /\ 3 \in 1..4 /\ 4 \in 1..4 OBVIOUS
<1>5. (\A m \in 1..(1 - 1) : x[m] = y[m]) <=> TRUE OBVIOUS
<1>6. (\A m \in 1..(2 - 1) : x[m] = y[m]) <=> x[1] = y[1] OBVIOUS
<1>7. (\A m \in 1..(3 - 1) : x[m] = y[m]) <=> x[1] = y[1] /\ x[2] = y[2] OBVIOUS
<1>8. (\A m \in 1..(4 - 1) : x[m] = y[m]) <=> x[1] = y[1] /\ x[2] = y[2] /\ x[3] = y[3] OBVIOUS
<1>9. Ahead(a, b) <=> \/ x[1] > y[1] /\ \A m \in 1..(1 - 1) : x[m] = y[m]
                      \/ x[2] > y[2] /\ \A m \in 1..(2 - 1) : x[m] = y[m]
                      \/ x[3] > y[3] /\ \A m \in 1..(3 - 1) : x[m] = y[m]
                      \/ x[4] > y[4] /\ \A m \in 1..(4 - 1) : x[m] = y[m]
  BY <1>2, <1>3, <1>4, Zenon
<1> QED BY <1>1, <1>5, <1>6, <1>7, <1>8, <1>9

LEMMA AheadIsOrder ==
  ASSUME NEW items, Ordered(items)
  PROVE  IsOrder(items, AheadOf(items))
<1>0. \A a, b \in items : <<a, b>> \in AheadOf(items) <=> Ahead(a, b) BY DEF AheadOf
<1>1. \A a, b \in items : Ahead(a, b) <=>
           \/ a.keys[1] > b.keys[1]
           \/ a.keys[1] = b.keys[1] /\ a.keys[2] > b.keys[2]
           \/ a.keys[1] = b.keys[1] /\ a.keys[2] = b.keys[2] /\ a.keys[3] > b.keys[3]
           \/ a.keys[1] = b.keys[1] /\ a.keys[2] = b.keys[2] /\ a.keys[3] = b.keys[3] /\ a.keys[4] > b.keys[4]
  BY AheadIs DEF Ordered
<1>2. \A a \in items : ~Ahead(a, a) BY <1>1 DEF Ordered
<1>3. \A a, b, c \in items : Ahead(a, b) /\ Ahead(b, c) => Ahead(a, c)
  <2> SUFFICES ASSUME NEW a \in items, NEW b \in items, NEW c \in items, Ahead(a, b), Ahead(b, c)
               PROVE  Ahead(a, c)
    OBVIOUS
  <2>1. PICK a1, a2, a3, a4 \in Int : a1 = a.keys[1] /\ a2 = a.keys[2] /\ a3 = a.keys[3] /\ a4 = a.keys[4] BY DEF Ordered
  <2>2. PICK b1, b2, b3, b4 \in Int : b1 = b.keys[1] /\ b2 = b.keys[2] /\ b3 = b.keys[3] /\ b4 = b.keys[4] BY DEF Ordered
  <2>3. PICK c1, c2, c3, c4 \in Int : c1 = c.keys[1] /\ c2 = c.keys[2] /\ c3 = c.keys[3] /\ c4 = c.keys[4] BY DEF Ordered
  <2> QED BY <1>1, <2>1, <2>2, <2>3
<1>4. \A a, b \in items : a = b \/ Ahead(a, b) \/ Ahead(b, a)
  <2> SUFFICES ASSUME NEW a \in items, NEW b \in items, a # b PROVE Ahead(a, b) \/ Ahead(b, a) OBVIOUS
  <2>1. PICK a1, a2, a3, a4 \in Int : a1 = a.keys[1] /\ a2 = a.keys[2] /\ a3 = a.keys[3] /\ a4 = a.keys[4] BY DEF Ordered
  <2>2. PICK b1, b2, b3, b4 \in Int : b1 = b.keys[1] /\ b2 = b.keys[2] /\ b3 = b.keys[3] /\ b4 = b.keys[4] BY DEF Ordered
  <2>3. a4 # b4 BY <2>1, <2>2 DEF Ordered
  <2> QED BY <1>1, <2>1, <2>2, <2>3
<1> QED BY <1>0, <1>2, <1>3, <1>4 DEF IsOrder

\* The items are sorted: each is there once, and one that is ahead comes first.
Sorted(items, s, size) ==
  /\ \A m \in 1..size : s[m] \in items
  /\ \A a \in items : \E m \in 1..size : s[m] = a
  /\ \A m, n \in 1..size : Ahead(s[m], s[n]) <=> m < n
  /\ \A m, n \in 1..size : s[m] = s[n] => m = n

LEMMA SortedIs ==
  ASSUME NEW items, Ordered(items)
  PROVE  Cardinality(items) \in Nat /\ Sorted(items, SortedItems(items), Cardinality(items))
<1>1. PICK R : R = AheadOf(items) OBVIOUS
<1>2. IsOrder(items, R) BY <1>1, AheadIsOrder
<1>3. IsFiniteSet(items) BY DEF Ordered
<1>4. PICK size \in Nat : size = Cardinality(items) BY <1>3, FS_CardinalityType
<1>5. PICK s : s = SortedItems(items) OBVIOUS
<1>6. \A a \in items : {b \in items : Ahead(b, a)} = Before(items, R, a) BY <1>1 DEF AheadOf, Before
<1>7. \A n \in 1..size : s[n] = CHOOSE a \in items : Cardinality({b \in items : Ahead(b, a)}) = n - 1
  BY <1>4, <1>5 DEF SortedItems
<1>8. \A n \in 1..size : s[n] \in items /\ Cardinality(Before(items, R, s[n])) = n - 1
  <2> TAKE n \in 1..size
  <2>1. PICK a \in items : Cardinality(Before(items, R, a)) = n - 1 BY <1>2, <1>3, <1>4, EachIsBefore
  <2>2. PICK before : before = n - 1 OBVIOUS
  <2>3. \E b \in items : Cardinality({d \in items : Ahead(d, b)}) = before BY <1>6, <2>1, <2>2
  <2>4. s[n] = CHOOSE b \in items : Cardinality({d \in items : Ahead(d, b)}) = before BY <1>7, <2>2
  <2>5. s[n] \in items /\ Cardinality({d \in items : Ahead(d, s[n])}) = before BY <2>3, <2>4
  <2> QED BY <1>6, <2>2, <2>5
<1>9. \A a \in items : \E m \in 1..size : s[m] = a
  <2> TAKE a \in items
  <2>1. PICK m : m = Cardinality(Before(items, R, a)) OBVIOUS
  <2>2. m \in 0..size - 1 BY <1>2, <1>3, <1>4, <2>1, BeforeIsFinite
  <2>3. PICK n \in 1..size : n - 1 = m
    <3>1. m + 1 \in 1..size /\ (m + 1) - 1 = m BY <2>2
    <3> QED BY <3>1
  <2>4. s[n] \in items /\ Cardinality(Before(items, R, s[n])) = Cardinality(Before(items, R, a))
    BY <1>8, <2>1, <2>3
  <2>5. s[n] = a BY <1>2, <1>3, <2>4, BeforeIsOne
  <2> QED BY <2>5
<1>10. \A m, n \in 1..size : Ahead(s[m], s[n]) => m < n
  <2> SUFFICES ASSUME NEW m \in 1..size, NEW n \in 1..size, Ahead(s[m], s[n]) PROVE m < n OBVIOUS
  <2>1. PICK a, b \in items : a = s[m] /\ b = s[n] BY <1>8
  <2>2. <<a, b>> \in R BY <1>1, <2>1 DEF AheadOf
  <2>3. Cardinality(Before(items, R, a)) < Cardinality(Before(items, R, b)) BY <1>2, <1>3, <2>2, BeforeRises
  <2>4. Cardinality(Before(items, R, a)) = m - 1 /\ Cardinality(Before(items, R, b)) = n - 1 BY <1>8, <2>1
  <2>5. m - 1 < n - 1 BY <2>3, <2>4
  <2> QED BY <2>5
<1>11. \A m, n \in 1..size : s[m] = s[n] => m = n
  <2> SUFFICES ASSUME NEW m \in 1..size, NEW n \in 1..size, s[m] = s[n] PROVE m = n OBVIOUS
  <2>1. PICK x : x = Cardinality(Before(items, R, s[m])) OBVIOUS
  <2>2. x = m - 1 /\ x = n - 1 BY <1>8, <2>1
  <2> QED BY <2>2
<1>12. \A m, n \in 1..size : m < n => Ahead(s[m], s[n])
  <2> SUFFICES ASSUME NEW m \in 1..size, NEW n \in 1..size, m < n PROVE Ahead(s[m], s[n]) OBVIOUS
  <2>1. s[m] # s[n] /\ ~Ahead(s[n], s[m]) BY <1>10, <1>11
  <2>2. <<s[m], s[n]>> \in R \/ <<s[n], s[m]>> \in R BY <1>2, <1>8, <2>1 DEF IsOrder
  <2> QED BY <1>1, <2>1, <2>2 DEF AheadOf
<1> QED BY <1>4, <1>5, <1>8, <1>9, <1>10, <1>11, <1>12 DEF Sorted

-------------------------------------------------------------------------------
\* What is on the display, and that nothing is on it twice.
OnShow(got) == {got[k] : k \in DOMAIN got}
Once(got) == \A j, k \in DOMAIN got : got[j] = got[k] => j = k

\* As many are shown of an underlying as the display counts.
LEMMA CountsAreKept ==
  ASSUME NEW S, NEW got \in Seq(S), Once(got), NEW share
  PROVE  /\ Cardinality({b \in OnShow(got) : b.share = share}) = OfShare(got, share)
         /\ Cardinality(OnShow(got)) = Len(got)
<1>1. PICK n \in Nat : n = Len(got) /\ DOMAIN got = 1..n OBVIOUS
<1>2. PICK P : P = 1..n OBVIOUS
<1>3. IsFiniteSet(P) /\ Cardinality(P) = n
  <2>1. PICK one, many \in Int : one = 1 /\ many = n OBVIOUS
  <2>2. IsFiniteSet(one..many) /\ Cardinality(one..many) = IF one > many THEN 0 ELSE many - one + 1 BY FS_Interval
  <2> QED BY <1>2, <2>1, <2>2
<1>4. ASSUME NEW K \in SUBSET P, NEW T, T = {got[k] : k \in K} PROVE Cardinality(T) = Cardinality(K)
  <2>1. PICK f : f = [k \in K |-> got[k]] OBVIOUS
  <2>2. \A k \in K : f[k] = got[k] /\ f[k] \in T BY <1>4, <2>1
  <2>3. f \in [K -> T] BY <2>1, <2>2
  <2>4. \A j, k \in K : f[j] = f[k] => j = k BY <1>1, <1>2, <2>2 DEF Once
  <2>5. \A t \in T : \E k \in K : f[k] = t BY <1>4, <2>2
  <2>6. f \in Bijection(K, T) BY <2>3, <2>4, <2>5 DEF Bijection, Injection, Surjection, IsInjective
  <2>7. IsFiniteSet(K) BY <1>3, FS_Subset
  <2>8. ExistsBijection(K, T) BY <2>6 DEF ExistsBijection
  <2> QED BY <2>7, <2>8, FS_Bijection
<1>5. Cardinality(OnShow(got)) = n
  <2>1. PICK T : T = OnShow(got) OBVIOUS
  <2>2. T = {got[k] : k \in P} BY <1>1, <1>2, <2>1 DEF OnShow
  <2>3. Cardinality(T) = Cardinality(P) BY <1>4, <2>2
  <2> QED BY <1>3, <2>1, <2>3
<1>6. Cardinality({b \in OnShow(got) : b.share = share}) = OfShare(got, share)
  <2>1. PICK T : T = {b \in OnShow(got) : b.share = share} OBVIOUS
  <2>2. PICK K : K = {k \in DOMAIN got : got[k].share = share} OBVIOUS
  <2>3. T = {got[k] : k \in K} BY <2>1, <2>2 DEF OnShow
  <2>4. K \in SUBSET P BY <1>1, <1>2, <2>2
  <2>5. Cardinality(T) = Cardinality(K) BY <1>4, <2>3, <2>4
  <2> QED BY <2>1, <2>2, <2>5 DEF OfShare
<1> QED BY <1>1, <1>5, <1>6

\* A display in order: what the first so many of the sorted items left on it.
Fits(items, got, top) ==
  /\ got \in Seq(items) /\ Len(got) <= top /\ Once(got)
  /\ \A share : OfShare(got, share) \in 0..3

LEMMA PickedFits ==
  ASSUME NEW items, NEW top \in Nat, NEW got, Fits(items, got, top), NEW a \in items, a \notin OnShow(got)
  PROVE  LET new == Picked(got, a, top)
         IN /\ Fits(items, new, top)
            /\ \/ OnShow(new) = OnShow(got) \cup {a}
               \/ OnShow(new) = OnShow(got) /\ (Len(got) = top \/ OfShare(got, a.share) = 3)
<1>1. PICK new : new = Picked(got, a, top) OBVIOUS
<1>2. PICK n \in Nat : n = Len(got) /\ DOMAIN got = 1..n /\ got \in Seq(items) /\ n <= top BY DEF Fits
<1>3. CASE Len(got) < top /\ OfShare(got, a.share) < 3
  <2>1. new = Append(got, a) BY <1>1, <1>3 DEF Picked
  <2>2. new \in Seq(items) /\ Len(new) = n + 1 /\ DOMAIN new = 1..(n + 1) BY <1>2, <2>1
  <2>3. new[n + 1] = a /\ \A k \in 1..n : new[k] = got[k] BY <1>2, <2>1
  <2>4. \A k \in 1..(n + 1) : k = n + 1 \/ k \in 1..n BY <1>2
  <2>5. \A k \in 1..n : got[k] # a BY <1>2 DEF OnShow
  <2>6. Once(new)
    <3> SUFFICES ASSUME NEW j \in DOMAIN new, NEW k \in DOMAIN new, new[j] = new[k] PROVE j = k BY DEF Once
    <3>1. (j = n + 1 \/ j \in 1..n) /\ (k = n + 1 \/ k \in 1..n) BY <2>2, <2>4
    <3>2. CASE j \in 1..n /\ k \in 1..n BY <1>2, <2>3, <3>2 DEF Fits, Once
    <3>3. CASE j = n + 1 /\ k \in 1..n BY <2>3, <2>5, <3>3
    <3>4. CASE k = n + 1 /\ j \in 1..n BY <2>3, <2>5, <3>4
    <3> QED BY <3>1, <3>2, <3>3, <3>4
  <2>7. OnShow(new) = OnShow(got) \cup {a}
    <3>1. n + 1 \in DOMAIN new BY <2>2
    <3>2. \A k \in 1..n : k \in DOMAIN new BY <2>2
    <3> QED BY <1>2, <2>2, <2>3, <2>4, <3>1, <3>2 DEF OnShow
  <2>8. ASSUME NEW share PROVE OfShare(new, share) \in 0..3
    <3>1. PICK K : K = {k \in DOMAIN got : got[k].share = share} OBVIOUS
    <3>2. PICK L : L = {k \in DOMAIN new : new[k].share = share} OBVIOUS
    <3>3. Cardinality(K) = OfShare(got, share) BY <3>1 DEF OfShare
    <3>4. Cardinality(L) = OfShare(new, share) BY <3>2 DEF OfShare
    <3>5. OfShare(got, share) \in 0..3 BY DEF Fits
    <3>6. \A k : k \in L <=> k \in K \/ (k = n + 1 /\ a.share = share) BY <1>2, <2>2, <2>3, <2>4, <3>1, <3>2
    <3>7. CASE a.share = share
      <4>1. L = K \cup {n + 1} BY <3>6, <3>7
      <4>2. n + 1 \notin K BY <1>2, <3>1
      <4>3. IsFiniteSet(K)
        <5>1. PICK P : P = 1..n OBVIOUS
        <5>2. IsFiniteSet(P)
          <6>1. PICK one, many \in Int : one = 1 /\ many = n OBVIOUS
          <6>2. IsFiniteSet(one..many) BY FS_Interval
          <6> QED BY <5>1, <6>1, <6>2
        <5>3. K \in SUBSET P BY <1>2, <3>1, <5>1
        <5> QED BY <5>2, <5>3, FS_Subset
      <4>4. Cardinality(L) = Cardinality(K) + 1 BY <4>1, <4>2, <4>3, FS_AddElement
      <4>5. PICK m \in 0..3 : m = OfShare(got, share) BY <3>5
      <4>6. m < 3 BY <1>3, <3>7, <4>5
      <4>7. OfShare(new, share) = m + 1 BY <3>3, <3>4, <4>4, <4>5
      <4> QED BY <4>6, <4>7
    <3>8. CASE a.share # share
      <4>1. L = K BY <3>6, <3>8
      <4> QED BY <3>3, <3>4, <3>5, <4>1
    <3> QED BY <3>7, <3>8
  <2>9. Len(new) <= top BY <1>2, <1>3, <2>2
  <2> QED BY <1>1, <2>2, <2>6, <2>7, <2>8, <2>9 DEF Fits
<1>4. CASE ~(Len(got) < top /\ OfShare(got, a.share) < 3)
  <2>1. new = got BY <1>1, <1>4 DEF Picked
  <2>2. PICK m \in 0..3 : m = OfShare(got, a.share) BY DEF Fits
  <2>3. Len(got) = top \/ m = 3 BY <1>2, <1>4, <2>2
  <2> QED BY <1>1, <2>1, <2>2, <2>3
<1> QED BY <1>3, <1>4

\* A candidate that is not shown met a full display, or three of its underlying.
LEMMA PickedIs ==
  ASSUME NEW items, Ordered(items), NEW top \in Nat
  PROVE  LET ranked == PickedOf(items, top, Cardinality(items))
             Leading(a) == {b \in OnShow(ranked) : Ahead(b, a)}
         IN /\ ranked \in Seq(items)
            /\ \A a \in items \ OnShow(ranked) :
                 \/ Cardinality({b \in Leading(a) : b.share = a.share}) = 3
                 \/ Cardinality(Leading(a)) = top
<1>1. PICK last \in Nat : last = Cardinality(items) BY SortedIs
<1>2. PICK s : s = SortedItems(items) OBVIOUS
<1>3. Sorted(items, s, last) BY <1>1, <1>2, SortedIs
<1>4. PICK S : S = Seq(items) OBVIOUS
<1>5. PICK step : step = [n \in 1..last |-> [y \in S |-> Picked(y, s[n], top)]] OBVIOUS
<1>6. \A n \in 1..last, y \in S : step[n][y] = Picked(y, s[n], top) BY <1>5
<1>7. StaysIn(S, step, last)
  <2> SUFFICES ASSUME NEW n \in 1..last, NEW y \in S PROVE step[n][y] \in S BY DEF StaysIn
  <2>1. s[n] \in items BY <1>3 DEF Sorted
  <2>2. Append(y, s[n]) \in S BY <1>4, <2>1
  <2> QED BY <1>6, <2>2 DEF Picked
<1>8. <<>> \in S BY <1>4
<1>9. PICK f \in [0..last -> S] : Computes(f, <<>>, step, last) BY <1>7, <1>8, Folded
<1> DEFINE Turn(h) == [n \in 0..last |-> IF n = 0 THEN <<>> ELSE Picked(h[n - 1], s[n], top)]
<1>10. \A n \in 1..last : f[n] = Picked(f[n - 1], s[n], top)
  <2> TAKE n \in 1..last
  <2>1. n - 1 \in 0..last /\ f[n - 1] \in S OBVIOUS
  <2> QED BY <1>6, <1>9, <2>1 DEF Computes
<1>11. f = Turn(f)
  <2>1. \A n \in 0..last : n # 0 => n \in 1..last OBVIOUS
  <2>2. \A n \in 0..last : f[n] = IF n = 0 THEN <<>> ELSE Picked(f[n - 1], s[n], top)
    BY <1>9, <1>10, <2>1 DEF Computes
  <2>3. f = [n \in 0..last |-> f[n]] OBVIOUS
  <2> QED BY <2>2, <2>3
<1>12. PICK u : u = (CHOOSE h : h = Turn(h)) OBVIOUS
<1>13. u = Turn(u) BY <1>11, <1>12
<1>14. PickedOf(items, top, last) = u[last] BY <1>2, <1>12 DEF PickedOf
<1>15. u[0] = <<>> /\ \A n \in 1..last : u[n] = Picked(u[n - 1], s[n], top)
  <2>1. \A n \in 0..last : u[n] = IF n = 0 THEN <<>> ELSE Picked(u[n - 1], s[n], top) BY <1>13
  <2>2. u[0] = <<>>
    <3>1. 0 \in 0..last OBVIOUS
    <3> QED BY <2>1, <3>1
  <2>3. ASSUME NEW n \in 1..last PROVE u[n] = Picked(u[n - 1], s[n], top)
    <3>1. n \in 0..last /\ n # 0 OBVIOUS
    <3> QED BY <2>1, <3>1
  <2> QED BY <2>2, <2>3
<1>16. PICK K : K = {m \in 1..last : s[m] \in OnShow(u[m])} OBVIOUS
<1> DEFINE Kept(n) == Fits(items, u[n], top) /\ \A a : a \in OnShow(u[n]) <=> \E m \in K : m <= n /\ a = s[m]
<1> DEFINE Lost == {n \in 0..last : ~Kept(n)}
<1>17. Kept(0)
  <2>1. u[0] \in Seq(items) /\ Len(u[0]) = 0 /\ DOMAIN u[0] = {} BY <1>15
  <2>2. Once(u[0]) /\ OnShow(u[0]) = {} BY <2>1 DEF Once, OnShow
  <2>3. ASSUME NEW share PROVE OfShare(u[0], share) \in 0..3
    <3>1. PICK none : none = {k \in DOMAIN u[0] : u[0][k].share = share} OBVIOUS
    <3>2. none = {} BY <2>1, <3>1
    <3>3. OfShare(u[0], share) = Cardinality(none) BY <3>1 DEF OfShare
    <3>4. Cardinality(none) = 0 BY <3>2, FS_EmptySet
    <3> QED BY <3>3, <3>4
  <2>4. Fits(items, u[0], top) BY <2>1, <2>2, <2>3 DEF Fits
  <2>5. \A m \in K : ~(m <= 0) BY <1>16
  <2> QED BY <2>2, <2>4, <2>5
<1>18. ASSUME NEW n \in 1..last, Kept(n - 1)
       PROVE  /\ Kept(n)
              /\ n \in K \/ Len(u[n - 1]) = top \/ OfShare(u[n - 1], s[n].share) = 3
              /\ s[n] \notin OnShow(u[n - 1])
  <2>1. PICK a \in items : a = s[n] BY <1>3 DEF Sorted
  <2>2. PICK got, new : got = u[n - 1] /\ new = u[n] OBVIOUS
  <2>3. Fits(items, got, top) /\ \A b : b \in OnShow(got) <=> \E m \in K : m <= n - 1 /\ b = s[m] BY <1>18, <2>2
  <2>4. \A m \in K : m \in 1..last /\ (m <= n - 1 => m # n) /\ (m <= n <=> m <= n - 1 \/ m = n) BY <1>16
  <2>5. a \notin OnShow(got) BY <1>3, <2>1, <2>3, <2>4 DEF Sorted
  <2>6. new = Picked(got, a, top) BY <1>15, <2>1, <2>2
  <2>7. /\ Fits(items, new, top)
        /\ \/ OnShow(new) = OnShow(got) \cup {a}
           \/ OnShow(new) = OnShow(got) /\ (Len(got) = top \/ OfShare(got, a.share) = 3)
    BY <2>3, <2>5, <2>6, PickedFits
  <2>8. n \in K <=> a \in OnShow(new) BY <1>16, <2>1, <2>2
  <2>9. n <= n OBVIOUS
  <2>10. \A b : b \in OnShow(new) <=> \E m \in K : m <= n /\ b = s[m]
    <3>1. CASE OnShow(new) = OnShow(got) \cup {a}
      <4>1. n \in K BY <2>8, <3>1
      <4> QED BY <2>1, <2>3, <2>4, <2>9, <3>1, <4>1
    <3>2. CASE OnShow(new) = OnShow(got)
      <4>1. n \notin K BY <2>5, <2>8, <3>2
      <4> QED BY <2>3, <2>4, <3>2, <4>1
    <3> QED BY <2>7, <3>1, <3>2
  <2>11. Kept(n) BY <2>2, <2>7, <2>10
  <2>12. n \in K \/ Len(got) = top \/ OfShare(got, a.share) = 3 BY <2>7, <2>8
  <2> QED BY <2>1, <2>2, <2>5, <2>11, <2>12
<1> HIDE DEF Kept
<1>19. \A n \in 0..last : Kept(n)
  <2> SUFFICES ASSUME Lost # {} PROVE FALSE OBVIOUS
  <2>1. Lost \in SUBSET Nat OBVIOUS
  <2>2. \A n \in Lost : n \in 0..last /\ ~Kept(n) OBVIOUS
  <2>3. \A n \in 0..last : n \notin Lost => Kept(n) OBVIOUS
  <2> HIDE DEF Lost
  <2>4. PICK n \in Lost : \A m \in Lost : n <= m BY <2>1, Smallest
  <2>5. n \in 0..last /\ n # 0 BY <1>17, <2>2
  <2>6. n \in 1..last /\ n - 1 \in 0..last /\ ~(n <= n - 1) BY <2>5
  <2>7. Kept(n - 1) BY <2>3, <2>4, <2>6
  <2>8. Kept(n) BY <1>18, <2>6, <2>7
  <2> QED BY <2>2, <2>4, <2>8
<1>20. PICK ranked : ranked = u[last] OBVIOUS
<1>21. Fits(items, ranked, top) /\ \A a : a \in OnShow(ranked) <=> \E m \in K : m <= last /\ a = s[m]
  <2>1. last \in 0..last OBVIOUS
  <2>2. Kept(last) BY <1>19, <2>1
  <2> QED BY <1>20, <2>2 DEF Kept
<1>22. ASSUME NEW a \in items, a \notin OnShow(ranked), NEW better, better = {b \in OnShow(ranked) : Ahead(b, a)}
       PROVE  Cardinality({b \in better : b.share = a.share}) = 3 \/ Cardinality(better) = top
  <2>1. PICK n \in 1..last : a = s[n] BY <1>3 DEF Sorted
  <2>2. n - 1 \in 0..last OBVIOUS
  <2>3. Kept(n - 1) BY <1>19, <2>2
  <2>4. PICK got : got = u[n - 1] OBVIOUS
  <2>5. n \in K \/ Len(got) = top \/ OfShare(got, a.share) = 3 BY <1>18, <2>1, <2>3, <2>4
  <2>6. n \notin K BY <1>21, <1>22, <2>1
  <2>7. Fits(items, got, top) /\ \A b : b \in OnShow(got) <=> \E m \in K : m <= n - 1 /\ b = s[m]
    BY <2>3, <2>4 DEF Kept
  <2>8. \A m \in K : m \in 1..last /\ m <= last /\ (m <= n - 1 <=> m < n) BY <1>16
  <2>9. \A m \in K : Ahead(s[m], a) <=> m < n BY <1>3, <2>1, <2>8 DEF Sorted
  <2>10. better = OnShow(got) BY <1>21, <1>22, <2>7, <2>8, <2>9
  <2>11. got \in Seq(items) /\ Once(got) BY <2>7 DEF Fits
  <2>12. PICK share : share = a.share OBVIOUS
  <2>13. /\ Cardinality({b \in OnShow(got) : b.share = share}) = OfShare(got, share)
         /\ Cardinality(OnShow(got)) = Len(got)
    BY <2>11, CountsAreKept
  <2> QED BY <2>5, <2>6, <2>10, <2>12, <2>13
<1>23. ranked \in Seq(items) BY <1>21 DEF Fits
<1>24. ranked = PickedOf(items, top, Cardinality(items)) BY <1>1, <1>14, <1>20
<1> QED BY <1>22, <1>23, <1>24

-------------------------------------------------------------------------------
\* What is known of each share.
ToldOf(shares) ==
  /\ DOMAIN shares = LastMinuteNames
  /\ \A x \in LastMinuteNames : shares[x] \in {NoContext, Unavailable} \cup ShareEvidence

LEMMA CandidateIs ==
  ASSUME NEW row \in OptionRow, NEW shares, ToldOf(shares), Candidate(row, shares)
  PROVE  shares[row.share] \in ShareEvidence /\ row.share \in LastMinuteNames /\ row.type \in {"CALL", "PUT"}
<1>1. row.share \in LastMinuteNames BY RowIs
<1>2. PICK c : c = shares[row.share] OBVIOUS
<1>3. c # NoContext /\ Usable(row, c) BY <1>2 DEF Candidate
<1>4. c.status # "UNAVAILABLE" /\ row.type \in {"CALL", "PUT"} BY <1>3 DEF Usable
<1>5. c # Unavailable BY <1>4 DEF Unavailable
<1> QED BY <1>1, <1>2, <1>3, <1>4, <1>5 DEF ToldOf

\* The items of a board: each is of a candidate.
LEMMA ItemsAre ==
  ASSUME NEW rows \in Seq(OptionRow), NEW shares, ToldOf(shares)
  PROVE  /\ Ordered(Items(rows, shares))
         /\ \A a \in Items(rows, shares) : \E row \in OptionRow :
              Candidate(row, shares) /\ a.share = row.share /\ a.type = row.type
<1>1. PICK n \in Nat : n = Len(rows) /\ DOMAIN rows = 1..n OBVIOUS
<1>2. PICK P : P = {i \in DOMAIN rows : Candidate(rows[i], shares)} OBVIOUS
<1>3. PICK items : items = Items(rows, shares) OBVIOUS
<1>4. items = {Item(rows[i], i, shares) : i \in P} BY <1>2, <1>3 DEF Items
<1>5. \A i \in P : i \in Nat /\ i \in 1..n /\ rows[i] \in OptionRow /\ Candidate(rows[i], shares) BY <1>1, <1>2
<1>6. ASSUME NEW i \in P, NEW a, a = Item(rows[i], i, shares)
      PROVE  /\ a.keys[1] \in Int /\ a.keys[2] \in Int /\ a.keys[3] \in Int /\ a.keys[4] = i
             /\ a.share = rows[i].share /\ a.type = rows[i].type
  <2>1. PICK row \in OptionRow : row = rows[i] BY <1>5
  <2>2. PICK c \in ShareEvidence : c = shares[row.share] BY <1>5, <2>1, CandidateIs
  <2>3. Usable(row, c) BY <1>5, <2>1, <2>2 DEF Candidate
  <2>4. PICK x, y, z \in Int : x = TotalScore(row, c) /\ y = Liquidity(row) /\ z = -Apart(row) BY <2>3, TotalScoreIs
  <2>5. a = [place |-> i, share |-> row.share, type |-> row.type, keys |-> <<x, y, z, i>>]
    BY <1>6, <2>1, <2>2, <2>4 DEF Item
  <2>6. a.keys = <<x, y, z, i>> /\ a.share = row.share /\ a.type = row.type BY <2>5
  <2> QED BY <2>1, <2>6
<1>7. \A a \in items : \E i \in P : a = Item(rows[i], i, shares) BY <1>4
<1>8. \A a \in items : a.keys[1] \in Int /\ a.keys[2] \in Int /\ a.keys[3] \in Int /\ a.keys[4] \in Int
  <2> TAKE a \in items
  <2>1. PICK i \in P : a = Item(rows[i], i, shares) BY <1>7
  <2>2. i \in Int BY <1>5
  <2> QED BY <1>6, <2>1, <2>2
<1>9. \A a, b \in items : a.keys[4] = b.keys[4] => a = b
  <2> SUFFICES ASSUME NEW a \in items, NEW b \in items, a.keys[4] = b.keys[4] PROVE a = b OBVIOUS
  <2>1. PICK i \in P : a = Item(rows[i], i, shares) BY <1>7
  <2>2. PICK j \in P : b = Item(rows[j], j, shares) BY <1>7
  <2>3. a.keys[4] = i BY <1>6, <2>1
  <2>4. b.keys[4] = j BY <1>6, <2>2
  <2> QED BY <2>1, <2>2, <2>3, <2>4
<1>10. IsFiniteSet(items)
  <2>1. IsFiniteSet(P)
    <3>1. PICK one, many \in Int : one = 1 /\ many = n OBVIOUS
    <3>2. IsFiniteSet(one..many) BY FS_Interval
    <3>3. PICK Q : Q = 1..n OBVIOUS
    <3>4. P \in SUBSET Q BY <1>1, <1>2, <3>3
    <3>5. IsFiniteSet(Q) BY <3>1, <3>2, <3>3
    <3> QED BY <3>4, <3>5, FS_Subset
  <2>2. PICK f : f = [i \in P |-> Item(rows[i], i, shares)] OBVIOUS
  <2>3. f \in Surjection(P, items) BY <1>4, <2>2 DEF Surjection
  <2> QED BY <2>1, <2>3, FS_Surjection
<1>11. \A a \in items : \E row \in OptionRow : Candidate(row, shares) /\ a.share = row.share /\ a.type = row.type
  <2> TAKE a \in items
  <2>1. PICK i \in P : a = Item(rows[i], i, shares) BY <1>7
  <2>2. a.share = rows[i].share /\ a.type = rows[i].type BY <1>6, <2>1
  <2> QED BY <1>5, <2>2
<1> QED BY <1>3, <1>8, <1>9, <1>10, <1>11 DEF Ordered

\* The three places of the components.
LEMMA ThreePlaces ==
  /\ IsFiniteSet(1..3) /\ Cardinality(1..3) = 3
  /\ \A T \in SUBSET (1..3) : IsFiniteSet(T) /\ Cardinality(T) \in 0..3
<1>1. PICK P : P = 1..3 OBVIOUS
<1>2. IsFiniteSet(P) /\ Cardinality(P) = 3
  <2>1. PICK one, three \in Int : one = 1 /\ three = 3 OBVIOUS
  <2>2. IsFiniteSet(one..three) /\ Cardinality(one..three) = IF one > three THEN 0 ELSE three - one + 1 BY FS_Interval
  <2> QED BY <1>1, <2>1, <2>2
<1>3. ASSUME NEW T \in SUBSET P PROVE IsFiniteSet(T) /\ Cardinality(T) \in 0..3
  <2>1. IsFiniteSet(T) /\ Cardinality(T) <= 3 BY <1>2, FS_Subset
  <2>2. Cardinality(T) \in Nat BY <2>1, FS_CardinalityType
  <2> QED BY <2>1, <2>2
<1> QED BY <1>1, <1>2, <1>3

\* What supports a CALL on two of three components does not support a PUT on two of them.
LEMMA OneDirection ==
  ASSUME NEW c \in ShareEvidence, NEW call, call.type = "CALL", NEW put, put.type = "PUT",
         Supported(call, c), Supported(put, c)
  PROVE  FALSE
<1>1. PICK x, y, z \in Int : Core(c) = <<x, y, z>> BY CoreIs
<1>2. PICK up : up = Directed("CALL", c) OBVIOUS
<1>3. PICK down : down = Directed("PUT", c) OBVIOUS
<1>4. up = <<x, y, z>> BY <1>1, <1>2 DEF Directed
<1>5. down = <<100 - x, 100 - y, 100 - z>>
  <2>1. Core(c)[1] = x /\ Core(c)[2] = y /\ Core(c)[3] = z BY <1>1
  <2> QED BY <1>3, <2>1 DEF Directed
<1>6. \A k \in 1..3 : k = 1 \/ k = 2 \/ k = 3 OBVIOUS
<1>7. up[1] = x /\ up[2] = y /\ up[3] = z /\ down[1] = 100 - x /\ down[2] = 100 - y /\ down[3] = 100 - z
  BY <1>4, <1>5
<1>8. PICK A : A = {k \in 1..3 : up[k] >= 60} OBVIOUS
<1>9. PICK B : B = {k \in 1..3 : down[k] >= 60} OBVIOUS
<1>10. Cardinality(A) >= 2 /\ Cardinality(B) >= 2 BY <1>2, <1>3, <1>8, <1>9 DEF Supported
<1>11. A \cap B = {}
  <2>1. \A k \in 1..3 : ~(up[k] >= 60 /\ down[k] >= 60) BY <1>6, <1>7
  <2> QED BY <1>8, <1>9, <2>1
<1>12. A \in SUBSET (1..3) /\ B \in SUBSET (1..3) /\ A \cup B \in SUBSET (1..3) BY <1>8, <1>9
<1>13. PICK a, b, d \in 0..3 : a = Cardinality(A) /\ b = Cardinality(B) /\ d = Cardinality(A \cup B)
  BY <1>12, ThreePlaces
<1>14. IsFiniteSet(A) /\ IsFiniteSet(B) BY <1>12, ThreePlaces
<1>15. Cardinality(A \cup B) = Cardinality(A) + Cardinality(B) - Cardinality(A \cap B) BY <1>14, FS_Union
<1>16. Cardinality(A \cap B) = 0 BY <1>11, FS_EmptySet
<1> QED BY <1>10, <1>13, <1>15, <1>16

\* The strength of a share is an integer, and above zero where a CALL is supported.
LEMMA StrengthIs ==
  ASSUME NEW c \in ShareEvidence
  PROVE  /\ Strength(c) \in Int
         /\ \A row : row.type = "CALL" /\ Supported(row, c) => Strength(c) > 0
<1>1. PICK x, y, z \in Int : Core(c) = <<x, y, z>> BY CoreIs
<1>2. PICK core : core = Core(c) OBVIOUS
<1>3. core[1] = x /\ core[2] = y /\ core[3] = z BY <1>1, <1>2
<1>4. PICK available : available = {k \in 1..3 : core[k] > 0} OBVIOUS
<1>5. 1 \in 1..3 /\ 2 \in 1..3 /\ 3 \in 1..3 /\ \A k \in 1..3 : k = 1 \/ k = 2 \/ k = 3 OBVIOUS
<1>6. PICK p \in Nat : p = (IF 1 \in available THEN core[1] ELSE 0) /\ (x > 0 => p = x) BY <1>3, <1>4, <1>5
<1>7. PICK q \in Nat : q = (IF 2 \in available THEN core[2] ELSE 0) /\ (y > 0 => q = y) BY <1>3, <1>4, <1>5
<1>8. PICK r \in Nat : r = (IF 3 \in available THEN core[3] ELSE 0) /\ (z > 0 => r = z) BY <1>3, <1>4, <1>5
<1>9. available \in SUBSET (1..3) BY <1>4
<1>10. PICK n \in 0..3 : n = Cardinality(available) BY <1>9, ThreePlaces
<1>11. IsFiniteSet(available) BY <1>9, ThreePlaces
<1>12. available # {} => n # 0 BY <1>10, <1>11, FS_EmptySet
<1>13. Strength(c) = IF available = {} THEN 0 ELSE (p + q + r) \div n
  BY <1>2, <1>4, <1>6, <1>7, <1>8, <1>10 DEF Strength
<1>14. Strength(c) \in Int
  <2>1. available # {} => n \in {1, 2, 3} BY <1>12
  <2> QED BY <1>13, <2>1
<1>15. ASSUME NEW row, row.type = "CALL", Supported(row, c) PROVE Strength(c) > 0
  <2>1. Directed(row.type, c) = core BY <1>2, <1>15 DEF Directed
  <2>2. PICK A : A = {k \in 1..3 : core[k] >= 60} OBVIOUS
  <2>3. Cardinality(A) >= 2 BY <1>15, <2>1, <2>2 DEF Supported
  <2>4. A # {} BY <2>3, FS_EmptySet
  <2>5. PICK k \in 1..3 : core[k] >= 60 BY <2>2, <2>4
  <2>6. x >= 60 \/ y >= 60 \/ z >= 60 BY <1>3, <1>5, <2>5
  <2>7. p + q + r >= 60 BY <1>6, <1>7, <1>8, <2>6
  <2>8. available # {} BY <1>3, <1>4, <1>5, <2>6
  <2>9. PICK sum \in Nat : sum = p + q + r /\ sum >= 60 BY <2>7
  <2>10. n = 1 \/ n = 2 \/ n = 3 BY <1>12, <2>8
  <2>11. sum \div 1 > 0 /\ sum \div 2 > 0 /\ sum \div 3 > 0 BY <2>9
  <2> QED BY <1>13, <2>8, <2>9, <2>10, <2>11
<1> QED BY <1>14, <1>15

LEMMA StrongerIs ==
  ASSUME NEW c \in ShareEvidence, NEW d \in ShareEvidence
  PROVE  Stronger(c, d) <=>
           \/ Strength(c) > Strength(d)
           \/ Strength(c) = Strength(d) /\ Core(c)[1] > Core(d)[1]
           \/ Strength(c) = Strength(d) /\ Core(c)[1] = Core(d)[1] /\ Core(c)[3] > Core(d)[3]
<1>1. PICK x : x = << Strength(c), Core(c)[1], Core(c)[3] >> OBVIOUS
<1>2. PICK y : y = << Strength(d), Core(d)[1], Core(d)[3] >> OBVIOUS
<1>3. Stronger(c, d) <=> \E n \in 1..3 : x[n] > y[n] /\ \A m \in 1..(n - 1) : x[m] = y[m] BY <1>1, <1>2 DEF Stronger
<1>4. \A n \in 1..3 : n = 1 \/ n = 2 \/ n = 3 OBVIOUS
<1>5. 1 \in 1..3 /\ 2 \in 1..3 /\ 3 \in 1..3 OBVIOUS
<1>6. (\A m \in 1..(1 - 1) : x[m] = y[m]) <=> TRUE OBVIOUS
<1>7. (\A m \in 1..(2 - 1) : x[m] = y[m]) <=> x[1] = y[1] OBVIOUS
<1>8. (\A m \in 1..(3 - 1) : x[m] = y[m]) <=> x[1] = y[1] /\ x[2] = y[2] OBVIOUS
<1>9. Stronger(c, d) <=> \/ x[1] > y[1] /\ \A m \in 1..(1 - 1) : x[m] = y[m]
                         \/ x[2] > y[2] /\ \A m \in 1..(2 - 1) : x[m] = y[m]
                         \/ x[3] > y[3] /\ \A m \in 1..(3 - 1) : x[m] = y[m]
  BY <1>3, <1>4, <1>5, Zenon
<1>10. x[1] = Strength(c) /\ x[2] = Core(c)[1] /\ x[3] = Core(c)[3] BY <1>1
<1>11. y[1] = Strength(d) /\ y[2] = Core(d)[1] /\ y[3] = Core(d)[3] BY <1>2
<1> QED BY <1>6, <1>7, <1>8, <1>9, <1>10, <1>11

\* Stronger shares of stronger ones are stronger, and none is stronger than itself.
LEMMA StrongerIsOrder ==
  ASSUME NEW c \in ShareEvidence, NEW d \in ShareEvidence, NEW e \in ShareEvidence
  PROVE  ~Stronger(c, c) /\ (Stronger(c, d) /\ Stronger(d, e) => Stronger(c, e))
<1>1. PICK c1, c2, c3 \in Int : c1 = Strength(c) /\ c2 = Core(c)[1] /\ c3 = Core(c)[3]
  <2>1. PICK x, y, z \in Int : Core(c) = <<x, y, z>> BY CoreIs
  <2> QED BY <2>1, StrengthIs
<1>2. PICK d1, d2, d3 \in Int : d1 = Strength(d) /\ d2 = Core(d)[1] /\ d3 = Core(d)[3]
  <2>1. PICK x, y, z \in Int : Core(d) = <<x, y, z>> BY CoreIs
  <2> QED BY <2>1, StrengthIs
<1>3. PICK e1, e2, e3 \in Int : e1 = Strength(e) /\ e2 = Core(e)[1] /\ e3 = Core(e)[3]
  <2>1. PICK x, y, z \in Int : Core(e) = <<x, y, z>> BY CoreIs
  <2> QED BY <2>1, StrengthIs
<1>4. ~Stronger(c, c) BY <1>1, StrongerIs
<1>5. Stronger(c, d) <=> c1 > d1 \/ (c1 = d1 /\ c2 > d2) \/ (c1 = d1 /\ c2 = d2 /\ c3 > d3) BY <1>1, <1>2, StrongerIs
<1>6. Stronger(d, e) <=> d1 > e1 \/ (d1 = e1 /\ d2 > e2) \/ (d1 = e1 /\ d2 = e2 /\ d3 > e3) BY <1>2, <1>3, StrongerIs
<1>7. Stronger(c, e) <=> c1 > e1 \/ (c1 = e1 /\ c2 > e2) \/ (c1 = e1 /\ c2 = e2 /\ c3 > e3) BY <1>1, <1>3, StrongerIs
<1> QED BY <1>4, <1>5, <1>6, <1>7

\* A share of some strength is on the watch, unless ten are.
LEMMA WatchIsFull ==
  ASSUME NEW shares, ToldOf(shares), NEW x \in Discovered(shares), x \notin BaseWatch(shares)
  PROVE  ~(Cardinality(BaseWatch(shares)) < 10)
<1>1. PICK D : D = Discovered(shares) OBVIOUS
<1>2. D \in SUBSET LastMinuteNames BY <1>1 DEF Discovered, ToldOf
<1>3. IsFiniteSet(D) BY <1>2, LastMinuteAssumption, FS_Subset
<1>4. \A s \in D : shares[s] \in ShareEvidence BY <1>1, <1>2 DEF Discovered, ToldOf
<1> DEFINE Beyond(s) == {t \in D : Stronger(shares[t], shares[s])}
<1>5. PICK W : W = BaseWatch(shares) OBVIOUS
<1>6. \A s : s \in W <=> s \in D /\ Cardinality(Beyond(s)) < 10 BY <1>1, <1>5 DEF BaseWatch
<1>7. \A s \in D : IsFiniteSet(Beyond(s)) /\ Cardinality(Beyond(s)) \in Nat
  <2> TAKE s \in D
  <2>1. PICK A : A = Beyond(s) OBVIOUS
  <2>2. A \in SUBSET D BY <2>1
  <2>3. IsFiniteSet(A) BY <1>3, <2>2, FS_Subset
  <2> QED BY <2>1, <2>3, FS_CardinalityType
<1>8. ASSUME NEW s \in D, NEW t \in Beyond(s) PROVE Cardinality(Beyond(t)) < Cardinality(Beyond(s))
  <2>1. PICK A, B : A = Beyond(s) /\ B = Beyond(t) OBVIOUS
  <2>2. t \in D /\ Stronger(shares[t], shares[s]) OBVIOUS
  <2>3. t \notin B BY <1>4, <2>1, <2>2, StrongerIsOrder
  <2>4. \A r \in B : r \in A BY <1>4, <2>1, <2>2, StrongerIsOrder
  <2>5. t \in A BY <2>1
  <2>6. IsFiniteSet(A) BY <1>7, <2>1
  <2>7. B \in SUBSET A BY <2>4
  <2>8. Cardinality(B) <= Cardinality(A) /\ (Cardinality(A) = Cardinality(B) => A = B) BY <2>6, <2>7, FS_Subset
  <2>9. Cardinality(A) \in Nat /\ Cardinality(B) \in Nat BY <1>7, <2>1, <2>2
  <2> QED BY <2>1, <2>3, <2>5, <2>8, <2>9
<1> HIDE DEF Beyond
<1>9. PICK N : N = {Cardinality(Beyond(s)) : s \in D \ W} OBVIOUS
<1>10. N \in SUBSET Nat BY <1>7, <1>9
<1>11. N # {} BY <1>1, <1>5, <1>9
<1>12. PICK least \in N : \A m \in N : least <= m BY <1>10, <1>11, Smallest
<1>13. PICK s \in D \ W : Cardinality(Beyond(s)) = least BY <1>9, <1>12
<1>14. PICK A : A = Beyond(s) OBVIOUS
<1>15. \A t \in A : t \in W
  <2> SUFFICES ASSUME NEW t \in A, t \notin W PROVE FALSE OBVIOUS
  <2>1. t \in D BY <1>14 DEF Beyond
  <2>2. Cardinality(Beyond(t)) \in N BY <1>9, <2>1
  <2>3. PICK m, n \in Nat : m = Cardinality(Beyond(t)) /\ n = Cardinality(Beyond(s)) BY <1>7, <2>1
  <2>4. m < n BY <1>8, <1>14, <2>3
  <2>5. n <= m BY <1>12, <1>13, <2>2, <2>3
  <2> QED BY <2>3, <2>4, <2>5
<1>16. IsFiniteSet(W)
  <2>1. W \in SUBSET D BY <1>6
  <2> QED BY <1>3, <2>1, FS_Subset
<1>17. Cardinality(A) <= Cardinality(W) BY <1>15, <1>16, FS_Subset
<1>18. PICK a \in Nat : a = Cardinality(A) BY <1>7, <1>14
<1>19. PICK w \in Nat : w = Cardinality(W) BY <1>16, FS_CardinalityType
<1>20. ~(a < 10) BY <1>6, <1>13, <1>14, <1>18
<1>21. ~(w < 10) BY <1>17, <1>18, <1>19, <1>20
<1> QED BY <1>5, <1>19, <1>21

-------------------------------------------------------------------------------
LEMMA ShownAre ==
  ASSUME NEW rows \in Seq(OptionRow), NEW shares, ToldOf(shares), NEW top \in Int
  PROVE  LET shown == LastMinuteRanked(Items(rows, shares), top)
         IN /\ \A k \in DOMAIN shown : \E row \in OptionRow :
                 Candidate(row, shares) /\ shown[k].share = row.share /\ shown[k].type = row.type
            /\ \A a \in Items(rows, shares) \ OnShow(shown) :
                 LET Leading == {b \in OnShow(shown) : Ahead(b, a)}
                 IN \/ Cardinality({b \in Leading : b.share = a.share}) = 3
                    \/ Cardinality(Leading) = Requested(top)
<1>1. PICK items : items = Items(rows, shares) OBVIOUS
<1>2. Ordered(items) BY <1>1, ItemsAre
<1>3. PICK most \in Nat : most = Requested(top) BY DEF Requested
<1>4. PICK ranked : ranked = PickedOf(items, most, Cardinality(items)) OBVIOUS
<1>5. ranked = LastMinuteRanked(items, top) BY <1>3, <1>4 DEF LastMinuteRanked
<1>6. ranked \in Seq(items) BY <1>2, <1>4, PickedIs
<1>7. ASSUME NEW a \in items, a \notin OnShow(ranked), NEW better, better = {b \in OnShow(ranked) : Ahead(b, a)}
      PROVE  Cardinality({b \in better : b.share = a.share}) = 3 \/ Cardinality(better) = most
  BY <1>2, <1>4, <1>7, PickedIs
<1>8. \A k \in DOMAIN ranked : ranked[k] \in items BY <1>6
<1>9. \A a \in items : \E row \in OptionRow : Candidate(row, shares) /\ a.share = row.share /\ a.type = row.type
  BY <1>1, ItemsAre
<1> QED BY <1>1, <1>3, <1>5, <1>7, <1>8, <1>9

\* The last-minute report is bounded by its ceilings and by nothing else, and its two lists do
\* not contradict each other, for any board, evidence and number of contracts: build_items,
\* rank, _base_discovery_report and generate_report.
THEOREM LastMinuteStaysBounded == LastMinuteSpec => []LastMinuteIsBounded
<1>1. CasesInit => LastMinuteIsBounded
  BY DEF CasesInit, NoCase, LastMinuteIsBounded, NeverBothDirections, CeilingIsNoQuota, CallsAreDiscovered, LastMinuteCase
<1>2. LastMinuteIsBounded /\ UNCHANGED case => LastMinuteIsBounded'
  BY DEF LastMinuteIsBounded, NeverBothDirections, CeilingIsNoQuota, CallsAreDiscovered, LastMinuteCase
<1>3. LastMinuteCalled => LastMinuteIsBounded'
  <2> SUFFICES ASSUME LastMinuteCalled PROVE LastMinuteIsBounded' OBVIOUS
  <2>1. PICK called : called = case' OBVIOUS
  <2>2. PICK rows \in LastMinuteBoards, shares \in [LastMinuteNames -> LastMinuteShares], top \in LastMinuteTops :
          called = [engine |-> "last_minute", in |-> [rows |-> rows, shares |-> shares, top |-> top]]
    BY <2>1 DEF LastMinuteCalled, Given
  <2>3. rows \in Seq(OptionRow) /\ top \in Int BY <2>2, LastMinuteAssumption
  <2>4. ToldOf(shares) BY <2>2, LastMinuteAssumption DEF ToldOf
  <2>5. case'.in.rows = rows /\ case'.in.shares = shares /\ case'.in.top = top BY <2>1, <2>2
  <2>6. PICK shown : shown = LastMinuteRanked(Items(rows, shares), top) OBVIOUS
  <2>7. \A k \in DOMAIN shown : \E row \in OptionRow :
          Candidate(row, shares) /\ shown[k].share = row.share /\ shown[k].type = row.type
    BY <2>3, <2>4, <2>6, ShownAre
  <2>8. NeverBothDirections'
    <3>1. ASSUME NEW k \in DOMAIN shown, NEW n \in DOMAIN shown, shown[k].share = shown[n].share
          PROVE  shown[k].type = shown[n].type
      <4>1. PICK a \in OptionRow : Candidate(a, shares) /\ shown[k].share = a.share /\ shown[k].type = a.type BY <2>7
      <4>2. PICK b \in OptionRow : Candidate(b, shares) /\ shown[n].share = b.share /\ shown[n].type = b.type BY <2>7
      <4>3. a.share = b.share BY <3>1, <4>1, <4>2
      <4>4. PICK c \in ShareEvidence : c = shares[a.share] BY <2>4, <4>1, CandidateIs
      <4>5. Supported(a, c) /\ Supported(b, c) BY <4>1, <4>2, <4>3, <4>4 DEF Candidate
      <4>6. a.type \in {"CALL", "PUT"} /\ b.type \in {"CALL", "PUT"} BY <2>4, <4>1, <4>2, CandidateIs
      <4>7. ~(a.type = "CALL" /\ b.type = "PUT") BY <4>5, OneDirection
      <4>8. ~(a.type = "PUT" /\ b.type = "CALL") BY <4>5, OneDirection
      <4> QED BY <4>1, <4>2, <4>6, <4>7, <4>8
    <3> QED BY <2>5, <2>6, <3>1 DEF NeverBothDirections
  <2>9. CeilingIsNoQuota'
    <3>1. PICK items : items = Items(rows, shares) OBVIOUS
    <3>2. PICK all : all = {shown[k] : k \in DOMAIN shown} OBVIOUS
    <3>3. all = OnShow(shown) BY <3>2 DEF OnShow
    <3>4. ASSUME NEW a \in items \ all, NEW better, better = {b \in all : Ahead(b, a)}
          PROVE  Cardinality({b \in better : b.share = a.share}) = 3 \/ Cardinality(better) = Requested(top)
      BY <2>3, <2>4, <2>6, <3>1, <3>3, <3>4, ShownAre
    <3> QED BY <2>5, <2>6, <3>1, <3>2, <3>4 DEF CeilingIsNoQuota
  <2>10. CallsAreDiscovered'
    <3>1. ASSUME NEW k \in DOMAIN shown, shown[k].type = "CALL", Cardinality(BaseWatch(shares)) < 10
          PROVE  shown[k].share \in BaseWatch(shares)
      <4>1. PICK row \in OptionRow : Candidate(row, shares) /\ shown[k].share = row.share /\ shown[k].type = row.type BY <2>7
      <4>2. PICK x \in LastMinuteNames : x = row.share BY <2>4, <4>1, CandidateIs
      <4>3. PICK c \in ShareEvidence : c = shares[x] BY <2>4, <4>1, <4>2, CandidateIs
      <4>4. Supported(row, c) BY <4>1, <4>2, <4>3 DEF Candidate
      <4>5. Strength(c) > 0 BY <3>1, <4>1, <4>4, StrengthIs
      <4>6. c \notin {NoContext, Unavailable} BY <4>3, EvidenceIs DEF NoContext, Unavailable
      <4>7. x \in Discovered(shares) BY <2>4, <4>3, <4>5, <4>6 DEF Discovered, ToldOf
      <4> QED BY <2>4, <3>1, <4>1, <4>2, <4>7, WatchIsFull
    <3> QED BY <2>5, <2>6, <3>1 DEF CallsAreDiscovered
  <2> QED BY <2>8, <2>9, <2>10 DEF LastMinuteIsBounded
<1> QED BY <1>1, <1>2, <1>3, PTL DEF LastMinuteSpec

-------------------------------------------------------------------------------
\* As many images as there are elements, where no two have the same.
OneToOne(g, K) == \A j, k \in K : g[j] = g[k] => j = k

LEMMA ImagesCount ==
  ASSUME NEW K, IsFiniteSet(K), NEW g, OneToOne(g, K)
  PROVE  IsFiniteSet({g[k] : k \in K}) /\ Cardinality({g[k] : k \in K}) = Cardinality(K)
<1>1. PICK T : T = {g[k] : k \in K} OBVIOUS
<1>2. PICK f : f = [k \in K |-> g[k]] OBVIOUS
<1>3. \A k \in K : f[k] = g[k] /\ f[k] \in T BY <1>1, <1>2
<1>4. f \in [K -> T] BY <1>2, <1>3
<1>5. \A j, k \in K : f[j] = f[k] => j = k BY <1>3 DEF OneToOne
<1>6. \A t \in T : \E k \in K : f[k] = t BY <1>1, <1>3
<1>7. f \in Bijection(K, T) BY <1>4, <1>5, <1>6 DEF Bijection, Injection, Surjection, IsInjective
<1>8. ExistsBijection(K, T) BY <1>7 DEF ExistsBijection
<1> QED BY <1>1, <1>8, FS_Bijection

\* What is known of a sequence is one of its elements.
LEMMA KnownIs ==
  ASSUME NEW S, NEW s \in Seq(S)
  PROVE  /\ KnownOf(s) \in Seq(S)
         /\ \E u : /\ KnownOf(s) = u[Len(s)] /\ u[0] = <<>>
                   /\ \A n \in 1..Len(s) : u[n] = IF Known(s[n]) THEN Append(u[n - 1], s[n]) ELSE u[n - 1]
<1> DEFINE Turn(f, n) == [i \in 0..n |-> IF i = 0 THEN <<>> ELSE IF Known(s[i]) THEN Append(f[i - 1], s[i]) ELSE f[i - 1]]
<1>1. PICK last \in Nat : last = Len(s) OBVIOUS
<1>0. \A n \in 1..last : s[n] \in S BY <1>1
<1>2. PICK T : T = Seq(S) OBVIOUS
<1>3. PICK step : step = [n \in 1..last |-> [y \in T |-> IF Known(s[n]) THEN Append(y, s[n]) ELSE y]] OBVIOUS
<1>4. \A n \in 1..last, y \in T : step[n][y] = IF Known(s[n]) THEN Append(y, s[n]) ELSE y BY <1>3
<1>5. StaysIn(T, step, last)
  <2> SUFFICES ASSUME NEW n \in 1..last, NEW y \in T PROVE step[n][y] \in T BY DEF StaysIn
  <2>1. Append(y, s[n]) \in T BY <1>0, <1>2
  <2> QED BY <1>4, <2>1
<1>6. <<>> \in T BY <1>2
<1>7. PICK f \in [0..last -> T] : Computes(f, <<>>, step, last) BY <1>5, <1>6, Folded
<1>8. \A n \in 1..last : f[n] = IF Known(s[n]) THEN Append(f[n - 1], s[n]) ELSE f[n - 1]
  <2> TAKE n \in 1..last
  <2>1. n - 1 \in 0..last /\ f[n - 1] \in T OBVIOUS
  <2> QED BY <1>4, <1>7, <2>1 DEF Computes
<1>9. f = Turn(f, last)
  <2>1. \A n \in 0..last : n # 0 => n \in 1..last OBVIOUS
  <2>2. \A n \in 0..last : f[n] = IF n = 0 THEN <<>> ELSE IF Known(s[n]) THEN Append(f[n - 1], s[n]) ELSE f[n - 1]
    BY <1>7, <1>8, <2>1 DEF Computes
  <2>3. f = [n \in 0..last |-> f[n]] OBVIOUS
  <2> QED BY <2>2, <2>3
<1>10. PICK u : u = (CHOOSE h : h = Turn(h, last)) OBVIOUS
<1>11. u = Turn(u, last) BY <1>9, <1>10
<1>12. KnownOf(s) = u[last] BY <1>1, <1>10 DEF KnownOf
<1>13. u[0] = <<>> /\ \A n \in 1..last : u[n] = IF Known(s[n]) THEN Append(u[n - 1], s[n]) ELSE u[n - 1]
  <2>1. \A n \in 0..last : u[n] = IF n = 0 THEN <<>> ELSE IF Known(s[n]) THEN Append(u[n - 1], s[n]) ELSE u[n - 1] BY <1>11
  <2>2. u[0] = <<>>
    <3>1. 0 \in 0..last OBVIOUS
    <3> QED BY <2>1, <3>1
  <2>3. ASSUME NEW n \in 1..last PROVE u[n] = IF Known(s[n]) THEN Append(u[n - 1], s[n]) ELSE u[n - 1]
    <3>1. n \in 0..last /\ n # 0 OBVIOUS
    <3> QED BY <2>1, <3>1
  <2> QED BY <2>2, <2>3
<1> DEFINE Lost == {n \in 0..last : u[n] \notin T}
<1>14. Lost = {}
  <2> SUFFICES ASSUME Lost # {} PROVE FALSE OBVIOUS
  <2>1. Lost \in SUBSET Nat OBVIOUS
  <2>2. \A n \in Lost : n \in 0..last /\ u[n] \notin T OBVIOUS
  <2>3. \A n \in 0..last : n \notin Lost => u[n] \in T OBVIOUS
  <2> HIDE DEF Lost
  <2>6. PICK n \in Lost : \A m \in Lost : n <= m BY <2>1, Smallest
  <2>7. n \in 0..last /\ n # 0 BY <1>6, <1>13, <2>2
  <2>8. n \in 1..last /\ n - 1 \in 0..last /\ ~(n <= n - 1) BY <2>7
  <2>9. PICK before \in T : before = u[n - 1] BY <2>3, <2>6, <2>8
  <2>10. PICK x \in S : x = s[n] BY <1>0, <2>8
  <2>11. Append(before, x) \in T BY <1>2
  <2>12. u[n] \in T BY <1>13, <2>8, <2>9, <2>10, <2>11
  <2> QED BY <2>2, <2>6, <2>12
<1>15. u[last] \in T
  <2>1. last \in 0..last OBVIOUS
  <2> QED BY <1>14, <2>1
<1> QED BY <1>1, <1>2, <1>12, <1>13, <1>15

\* Of three that are known, all are.
LEMMA ThreeKnown ==
  ASSUME NEW S, NEW s \in Seq(S), Len(s) = 3, Known(s[1]), Known(s[2]), Known(s[3])
  PROVE  Len(KnownOf(s)) = 3 /\ KnownOf(s)[1] = s[1] /\ KnownOf(s)[2] = s[2] /\ KnownOf(s)[3] = s[3]
<1>2. s \in Seq(S) /\ Len(s) = 3 OBVIOUS
<1>3. PICK u : /\ KnownOf(s) = u[Len(s)] /\ u[0] = <<>>
               /\ \A n \in 1..Len(s) : u[n] = IF Known(s[n]) THEN Append(u[n - 1], s[n]) ELSE u[n - 1]
  BY <1>2, KnownIs
<1>4. PICK a, b, c \in S : s[1] = a /\ s[2] = b /\ s[3] = c BY <1>2
<1>0. Known(a) /\ Known(b) /\ Known(c) BY <1>4
<1>5. u[1] = Append(<<>>, a)
  <2>1. 1 \in 1..Len(s) /\ 1 - 1 = 0 BY <1>2
  <2> QED BY <1>0, <1>3, <1>4, <2>1
<1>6. u[2] = Append(u[1], b)
  <2>1. 2 \in 1..Len(s) /\ 2 - 1 = 1 BY <1>2
  <2> QED BY <1>0, <1>3, <1>4, <2>1
<1>7. u[3] = Append(u[2], c)
  <2>1. 3 \in 1..Len(s) /\ 3 - 1 = 2 BY <1>2
  <2> QED BY <1>0, <1>3, <1>4, <2>1
<1>8. \A x \in S, y \in Seq(S) : /\ Append(y, x) \in Seq(S) /\ Len(Append(y, x)) = Len(y) + 1
                                 /\ Append(y, x)[Len(y) + 1] = x /\ \A i \in 1..Len(y) : Append(y, x)[i] = y[i]
  OBVIOUS
<1>9. <<>> \in Seq(S) /\ Len(<<>>) = 0 OBVIOUS
<1>10. u[1] \in Seq(S) /\ Len(u[1]) = 1 /\ u[1][1] = a
  <2>1. PICK e \in Seq(S) : e = <<>> /\ Len(e) = 0 BY <1>9
  <2>2. u[1] = Append(e, a) BY <1>5, <2>1
  <2> QED BY <1>8, <2>1, <2>2
<1>11. u[2] \in Seq(S) /\ Len(u[2]) = 2 /\ u[2][1] = a /\ u[2][2] = b BY <1>6, <1>8, <1>10
<1>12. u[3] \in Seq(S) /\ Len(u[3]) = 3 /\ u[3][1] = a /\ u[3][2] = b /\ u[3][3] = c BY <1>7, <1>8, <1>11
<1> QED BY <1>2, <1>3, <1>4, <1>12

-------------------------------------------------------------------------------
\* The sessions of an answer, by their places in it.
SoonerIn(answer) == {p \in Priced(answer) \X Priced(answer) : Sooner(answer, p[1], p[2])}

LEMMA PricedIs ==
  ASSUME NEW answer \in Seq(SessionRow)
  PROVE  /\ IsFiniteSet(Priced(answer)) /\ IsOrder(Priced(answer), SoonerIn(answer))
         /\ \A i \in Priced(answer) : i \in 1..Len(answer) /\ answer[i] \in SessionRow /\ answer[i].date \in Nat
<1>1. PICK n \in Nat : n = Len(answer) /\ DOMAIN answer = 1..n OBVIOUS
<1>2. PICK P : P = Priced(answer) OBVIOUS
<1>3. \A i \in P : i \in 1..n BY <1>1, <1>2 DEF Priced
<1>4. \A i \in P : answer[i] \in SessionRow BY <1>1, <1>3
<1>5. \A i \in P : answer[i].date \in Nat BY <1>4 DEF SessionRow
<1>6. IsFiniteSet(P)
  <2>1. PICK one, many \in Int : one = 1 /\ many = n OBVIOUS
  <2>2. IsFiniteSet(one..many) BY FS_Interval
  <2>3. PICK Q : Q = 1..n OBVIOUS
  <2>4. P \in SUBSET Q BY <1>3, <2>3
  <2>5. IsFiniteSet(Q) BY <2>1, <2>2, <2>3
  <2> QED BY <2>4, <2>5, FS_Subset
<1>7. \A i, k \in P : <<k, i>> \in SoonerIn(answer) <=>
                        answer[k].date < answer[i].date \/ (answer[k].date = answer[i].date /\ k < i)
  BY <1>2 DEF SoonerIn, Sooner
<1>8. \A i \in P : i \in Int BY <1>3
<1>9. IsOrder(P, SoonerIn(answer))
  <2>1. PICK R : R = SoonerIn(answer) OBVIOUS
  <2>2. PICK date : date = [i \in P |-> answer[i].date] OBVIOUS
  <2>3. \A i \in P : date[i] \in Nat BY <1>5, <2>2
  <2>4. \A i, k \in P : <<k, i>> \in R <=> date[k] < date[i] \/ (date[k] = date[i] /\ k < i) BY <1>7, <2>1, <2>2
  <2>5. \A i \in P : <<i, i>> \notin R BY <1>8, <2>3, <2>4
  <2>6. ASSUME NEW a \in P, NEW b \in P, NEW c \in P, <<a, b>> \in R, <<b, c>> \in R PROVE <<a, c>> \in R
    <3>1. PICK x, y, z \in Nat : x = date[a] /\ y = date[b] /\ z = date[c] BY <2>3
    <3>2. a \in Int /\ b \in Int /\ c \in Int BY <1>8
    <3>3. (x < y \/ (x = y /\ a < b)) /\ (y < z \/ (y = z /\ b < c)) BY <2>4, <2>6, <3>1
    <3>4. x < z \/ (x = z /\ a < c) BY <3>2, <3>3
    <3> QED BY <2>4, <3>1, <3>4
  <2>7. ASSUME NEW a \in P, NEW b \in P PROVE a = b \/ <<a, b>> \in R \/ <<b, a>> \in R
    <3>1. PICK x, y \in Nat : x = date[a] /\ y = date[b] BY <2>3
    <3>2. PICK j, k \in Int : j = a /\ k = b BY <1>8
    <3>3. j = k \/ (x < y \/ (x = y /\ j < k)) \/ (y < x \/ (y = x /\ k < j)) BY <3>1, <3>2
    <3>4. <<a, b>> \in R <=> x < y \/ (x = y /\ j < k) BY <2>4, <3>1, <3>2
    <3>5. <<b, a>> \in R <=> y < x \/ (y = x /\ k < j) BY <2>4, <3>1, <3>2
    <3> QED BY <3>2, <3>3, <3>4, <3>5
  <2> QED BY <2>1, <2>5, <2>6, <2>7 DEF IsOrder
<1> QED BY <1>1, <1>2, <1>3, <1>4, <1>5, <1>6, <1>9

\* The n-th session is the one with n - 1 sooner ones, and no other is.
LEMMA NthIs ==
  ASSUME NEW answer \in Seq(SessionRow), NEW n \in 1..Cardinality(Priced(answer))
  PROVE  LET nth == CHOOSE i \in Priced(answer) : Cardinality({k \in Priced(answer) : Sooner(answer, k, i)}) = n - 1
         IN /\ nth \in Priced(answer)
            /\ \A i \in Priced(answer) : Cardinality({k \in Priced(answer) : Sooner(answer, k, i)}) = n - 1 <=> i = nth
<1>1. PICK P, R : P = Priced(answer) /\ R = SoonerIn(answer) OBVIOUS
<1>2. IsFiniteSet(P) /\ IsOrder(P, R) BY <1>1, PricedIs
<1>3. \A i \in P : {k \in P : Sooner(answer, k, i)} = Before(P, R, i) BY <1>1 DEF SoonerIn, Before
<1>4. PICK i \in P : Cardinality(Before(P, R, i)) = n - 1 BY <1>1, <1>2, EachIsBefore
<1>5. \A a, b \in P : Cardinality(Before(P, R, b)) = Cardinality(Before(P, R, a)) => a = b BY <1>2, BeforeIsOne
<1>6. PICK nth : nth = CHOOSE a \in P : Cardinality({k \in P : Sooner(answer, k, a)}) = n - 1 OBVIOUS
<1>7. nth \in P /\ Cardinality({k \in P : Sooner(answer, k, nth)}) = n - 1 BY <1>3, <1>4, <1>6
<1>8. \A a \in P : Cardinality({k \in P : Sooner(answer, k, a)}) = n - 1 <=> a = nth BY <1>3, <1>5, <1>7
<1> QED BY <1>1, <1>6, <1>7, <1>8

LEMMA SessionsAre ==
  ASSUME NEW answer \in Seq(SessionRow)
  PROVE  Sessions(answer) \in Seq(SessionRow)
<1>1. IsFiniteSet(Priced(answer)) BY PricedIs
<1>2. PICK size \in Nat : size = Cardinality(Priced(answer)) BY <1>1, FS_CardinalityType
<1> DEFINE Nth(n) == CHOOSE i \in Priced(answer) : Cardinality({k \in Priced(answer) : Sooner(answer, k, i)}) = n - 1
<1>3. \A n \in 1..size : answer[Nth(n)] \in SessionRow
  <2> TAKE n \in 1..size
  <2>1. Nth(n) \in Priced(answer) BY <1>2, NthIs
  <2> QED BY <2>1, PricedIs
<1>4. Sessions(answer) = [n \in 1..size |-> answer[Nth(n)]] \o <<>> BY <1>2 DEF Sessions
<1> HIDE DEF Nth
<1>5. [n \in 1..size |-> answer[Nth(n)]] \in Seq(SessionRow) BY <1>3
<1> QED BY <1>4, <1>5

\* The same sessions in the order of their dates, whichever end they are read from.
LEMMA TurnedIs ==
  ASSUME NEW answer \in Seq(SessionRow),
         \A i, k \in DOMAIN answer : answer[i].date = answer[k].date => i = k
  PROVE  Sessions([i \in DOMAIN answer |-> answer[Len(answer) + 1 - i]]) = Sessions(answer)
<1>1. PICK last \in Nat : last = Len(answer) /\ DOMAIN answer = 1..last OBVIOUS
<1>2. PICK turned : turned = [i \in DOMAIN answer |-> answer[Len(answer) + 1 - i]] OBVIOUS
<1>3. DOMAIN turned = 1..last /\ \A i \in 1..last : turned[i] = answer[last + 1 - i] BY <1>1, <1>2
<1>4. turned \in Seq(SessionRow)
  <2>1. \A i \in 1..last : last + 1 - i \in 1..last BY <1>1
  <2>2. \A i \in 1..last : turned[i] \in SessionRow BY <1>1, <1>3, <2>1
  <2>3. turned = [i \in 1..last |-> turned[i]] BY <1>2, <1>3
  <2> QED BY <2>2, <2>3
<1>5. PICK P, Q : P = Priced(answer) /\ Q = Priced(turned) OBVIOUS
<1>6. PICK g : g = [i \in 1..last |-> last + 1 - i] OBVIOUS
<1>7. \A i \in 1..last : g[i] = last + 1 - i /\ g[i] \in 1..last /\ g[g[i]] = i BY <1>1, <1>6
<1>8. \A i \in P : i \in 1..last BY <1>1, <1>5 DEF Priced
<1>9. \A i \in 1..last : turned[i] = answer[g[i]] /\ turned[g[i]] = answer[i] BY <1>3, <1>7
<1>10. \A i \in 1..last : i \in Q <=> g[i] \in P BY <1>1, <1>3, <1>5, <1>7, <1>9 DEF Priced
<1>11. \A i \in Q : i \in 1..last BY <1>3, <1>5 DEF Priced
<1>12. Q = {g[i] : i \in P} BY <1>7, <1>8, <1>10, <1>11
<1>13. \A K \in SUBSET P : OneToOne(g, K) BY <1>7, <1>8 DEF OneToOne
<1>14. IsFiniteSet(P) BY <1>5, PricedIs
<1>15. Cardinality(Q) = Cardinality(P) BY <1>12, <1>13, <1>14, ImagesCount
<1>16. \A i \in P : answer[i].date \in Nat BY <1>5, PricedIs
<1>17. ASSUME NEW i \in P
       PROVE  Cardinality({k \in Q : Sooner(turned, k, g[i])}) = Cardinality({k \in P : Sooner(answer, k, i)})
  <2>1. PICK K : K = {k \in P : Sooner(answer, k, i)} OBVIOUS
  <2>2. PICK L : L = {k \in Q : Sooner(turned, k, g[i])} OBVIOUS
  <2>3. \A k \in P : Sooner(turned, g[k], g[i]) <=> Sooner(answer, k, i)
    <3> TAKE k \in P
    <3>1. PICK d, e \in Nat : d = answer[k].date /\ e = answer[i].date BY <1>16
    <3>2. turned[g[k]].date = d /\ turned[g[i]].date = e BY <1>8, <1>9, <3>1
    <3>3. d = e => k = i BY <1>1, <1>8, <3>1
    <3>4. k = i => g[k] = g[i] /\ ~(g[k] < g[i]) /\ ~(k < i) BY <1>7, <1>8
    <3>5. Sooner(answer, k, i) <=> d < e \/ (d = e /\ k < i) BY <3>1 DEF Sooner
    <3>6. Sooner(turned, g[k], g[i]) <=> d < e \/ (d = e /\ g[k] < g[i]) BY <3>2 DEF Sooner
    <3> QED BY <3>3, <3>4, <3>5, <3>6
  <2>4. L = {g[k] : k \in K} BY <1>12, <2>1, <2>2, <2>3
  <2>5. K \in SUBSET P BY <2>1
  <2>6. IsFiniteSet(K) BY <1>14, <2>5, FS_Subset
  <2>7. Cardinality(L) = Cardinality(K) BY <1>13, <2>4, <2>5, <2>6, ImagesCount
  <2> QED BY <2>1, <2>2, <2>7
<1>18. PICK size \in Nat : size = Cardinality(P) BY <1>14, FS_CardinalityType
<1> DEFINE Nth(n) == CHOOSE i \in P : Cardinality({k \in P : Sooner(answer, k, i)}) = n - 1
           Mth(n) == CHOOSE i \in Q : Cardinality({k \in Q : Sooner(turned, k, i)}) = n - 1
<1>19. ASSUME NEW n \in 1..size PROVE turned[Mth(n)] = answer[Nth(n)]
  <2>1. PICK i \in P : i = Nth(n) /\ Cardinality({k \in P : Sooner(answer, k, i)}) = n - 1 BY <1>5, <1>18, NthIs
  <2>2. g[i] \in Q BY <1>12
  <2>3. Cardinality({k \in Q : Sooner(turned, k, g[i])}) = n - 1 BY <1>17, <2>1
  <2>4. n \in 1..Cardinality(Q) BY <1>15, <1>18
  <2>5. PICK m : m = Mth(n) OBVIOUS
  <2>6. \A j \in Q : Cardinality({k \in Q : Sooner(turned, k, j)}) = n - 1 <=> j = m BY <1>4, <1>5, <2>4, <2>5, NthIs
  <2>7. g[i] = m BY <2>2, <2>3, <2>6
  <2> QED BY <1>8, <1>9, <2>1, <2>5, <2>7
<1>20. Sessions(answer) = [n \in 1..size |-> answer[Nth(n)]] \o <<>> BY <1>5, <1>18 DEF Sessions
<1>21. Sessions(turned) = [n \in 1..size |-> turned[Mth(n)]] \o <<>> BY <1>5, <1>15, <1>18 DEF Sessions
<1> HIDE DEF Nth, Mth
<1>22. [n \in 1..size |-> turned[Mth(n)]] = [n \in 1..size |-> answer[Nth(n)]] BY <1>19
<1> QED BY <1>2, <1>20, <1>21, <1>22

-------------------------------------------------------------------------------
\* What the name of a rule says: that the rule holds, where no other has its name.
OnlyOne(rules, last, i, otherwise) ==
  rules[i][1] # otherwise /\ \A k \in 1..last : rules[k][1] = rules[i][1] => k = i

LEMMA NamedRule ==
  ASSUME NEW rules, NEW last \in Nat, DOMAIN rules = 1..last, NEW otherwise, NEW i \in 1..last,
         OnlyOne(rules, last, i, otherwise), FirstOf(rules, otherwise) = rules[i][1]
  PROVE  rules[i][2]
<1>1. PICK said : said = FirstOf(rules, otherwise) OBVIOUS
<1>2. \/ (\A k \in 1..last : ~rules[k][2]) /\ said = otherwise
      \/ \E k \in 1..last : rules[k][2] /\ said = rules[k][1]
  BY <1>1, FirstRule
<1>3. said # otherwise BY <1>1 DEF OnlyOne
<1>4. PICK k \in 1..last : rules[k][2] /\ said = rules[k][1] BY <1>2, <1>3
<1>5. k = i BY <1>1, <1>4 DEF OnlyOne
<1> QED BY <1>4, <1>5

\* The structure, by the averages that it is read from.
LEMMA StructureIs ==
  ASSUME NEW closes
  PROVE  /\ Structure(closes) = "INSUFFICIENT" => ~Known(SMA(closes, 20))
         /\ Structure(closes) = "SHORT" => ~Known(SMA(closes, 50))
         /\ Structure(closes) = "UP" => SMA(closes, 20) > SMA(closes, 50)
         /\ Structure(closes) = "DOWN" => SMA(closes, 20) < SMA(closes, 50)
<1>1. PICK s20, s50 : s20 = SMA(closes, 20) /\ s50 = SMA(closes, 50) OBVIOUS
<1>2. PICK last : last = IF closes = <<>> THEN NA ELSE 1000 * Last(closes) OBVIOUS
<1> DEFINE rules == << <<"INSUFFICIENT", ~Known(s20)>>,
                       <<"SHORT", ~Known(s50)>>,
                       <<"UP", last > s20 /\ s20 > s50>>,
                       <<"DOWN", last < s20 /\ s20 < s50>> >>
<1>3. Structure(closes) = FirstOf(rules, "MIXED") BY <1>1, <1>2 DEF Structure
<1>4. DOMAIN rules = 1..4 OBVIOUS
<1>5. /\ rules[1][1] = "INSUFFICIENT" /\ rules[2][1] = "SHORT" /\ rules[3][1] = "UP" /\ rules[4][1] = "DOWN" OBVIOUS
<1>6. (rules[1][2] <=> ~Known(s20)) OBVIOUS
<1>7. (rules[2][2] <=> ~Known(s50)) OBVIOUS
<1>8. (rules[3][2] <=> last > s20 /\ s20 > s50) OBVIOUS
<1>9. (rules[4][2] <=> last < s20 /\ s20 < s50) OBVIOUS
<1> HIDE DEF rules
<1>10. PICK four \in Nat : four = 4 OBVIOUS
<1>11. DOMAIN rules = 1..four BY <1>4, <1>10
<1>12. \A k \in 1..four : k = 1 \/ k = 2 \/ k = 3 \/ k = 4 BY <1>10
<1>13. \A i \in 1..four : OnlyOne(rules, four, i, "MIXED") BY <1>5, <1>12 DEF OnlyOne
<1>14. \A i \in 1..four : FirstOf(rules, "MIXED") = rules[i][1] => rules[i][2] BY <1>11, <1>13, NamedRule
<1>15. 1 \in 1..four /\ 2 \in 1..four /\ 3 \in 1..four /\ 4 \in 1..four BY <1>10
<1> QED BY <1>1, <1>3, <1>5, <1>6, <1>7, <1>8, <1>9, <1>14, <1>15

LEMMA CorrectionIs ==
  ASSUME NEW closes
  PROVE  /\ Correction(closes) = "CORRECTION_IN_UPTREND" =>
              Known(SMA(closes, 20)) /\ Known(SMA(closes, 50)) /\ SMA(closes, 20) > SMA(closes, 50)
         /\ Correction(closes) = "BOUNCE_IN_DOWNTREND" =>
              Known(SMA(closes, 20)) /\ Known(SMA(closes, 50)) /\ SMA(closes, 20) < SMA(closes, 50)
<1>1. PICK s20, s50 : s20 = SMA(closes, 20) /\ s50 = SMA(closes, 50) OBVIOUS
<1>2. PICK peak : peak = IF Len(closes) < 3 THEN NA ELSE Max({Earlier(LastN(closes, 11), 1)[i] : i \in 1..(Len(LastN(closes, 11)) - 1)})
  OBVIOUS
<1>3. PICK from, three : /\ from = IF closes = <<>> THEN NA ELSE Change(Last(closes), peak)
                         /\ three = IF closes = <<>> THEN NA ELSE Change(Last(closes), Back(closes, 3))
  OBVIOUS
<1> DEFINE both == Known(s20) /\ Known(s50)
           rules == << <<"NONE", ~Known(from) \/ ~Known(three)>>,
                <<"CORRECTION_IN_UPTREND", from <= -100 /\ three <= -50 /\ both /\ s20 > s50>>,
                <<"CORRECTION", from <= -100 /\ three <= -50>>,
                <<"BOUNCE_IN_DOWNTREND", from >= 100 /\ three >= 50 /\ both /\ s20 < s50>>,
                <<"RECOVERY_BOUNCE", from >= 100 /\ three >= 50>> >>
<1>4. Correction(closes) = FirstOf(rules, "NONE") BY <1>1, <1>2, <1>3 DEF Correction
<1>5. DOMAIN rules = 1..5 OBVIOUS
<1>6. /\ rules[1][1] = "NONE" /\ rules[2][1] = "CORRECTION_IN_UPTREND" /\ rules[3][1] = "CORRECTION"
      /\ rules[4][1] = "BOUNCE_IN_DOWNTREND" /\ rules[5][1] = "RECOVERY_BOUNCE"
  OBVIOUS
<1>7. (rules[2][2] <=> from <= -100 /\ three <= -50 /\ both /\ s20 > s50) OBVIOUS
<1>8. (rules[4][2] <=> from >= 100 /\ three >= 50 /\ both /\ s20 < s50) OBVIOUS
<1> HIDE DEF rules
<1>9. PICK five \in Nat : five = 5 OBVIOUS
<1>10. DOMAIN rules = 1..five BY <1>5, <1>9
<1>11. \A k \in 1..five : k = 1 \/ k = 2 \/ k = 3 \/ k = 4 \/ k = 5 BY <1>9
<1>12. OnlyOne(rules, five, 2, "NONE") /\ OnlyOne(rules, five, 4, "NONE") BY <1>6, <1>11 DEF OnlyOne
<1>13. 2 \in 1..five /\ 4 \in 1..five BY <1>9
<1>14. \A i \in 1..five : OnlyOne(rules, five, i, "NONE") /\ FirstOf(rules, "NONE") = rules[i][1] => rules[i][2]
  BY <1>10, NamedRule
<1> QED BY <1>1, <1>4, <1>6, <1>7, <1>8, <1>12, <1>13, <1>14

\* The last of a sequence are one.
LEMMA LastsAre ==
  ASSUME NEW S, NEW s \in Seq(S), NEW n \in Nat, n > 0
  PROVE  LastN(s, n) \in Seq(S)
<1>1. PICK last \in Nat : last = Len(s) OBVIOUS
<1>2. (IF last > n THEN last - n + 1 ELSE 1) \in Int
  <2>1. CASE last > n BY <2>1
  <2>2. CASE ~(last > n) BY <2>2
  <2> QED BY <2>1, <2>2
<1>3. PICK first \in Int : first = (IF last > n THEN last - n + 1 ELSE 1) BY <1>2
<1>4. first > 0 BY <1>3
<1>5. LastN(s, n) = SubSeq(s, first, last) BY <1>1, <1>3 DEF LastN
<1>6. SubSeq(s, first, last) \in Seq(S) BY <1>1, <1>4
<1> QED BY <1>5, <1>6

\* A simple average of integers is one, or unknown.
LEMMA AveragesAre ==
  ASSUME NEW s \in Seq(Int), NEW n \in Nat, n > 0
  PROVE  SMA(s, n) \in Int
<1>1. PICK last \in Nat : last = Len(s) OBVIOUS
<1>2. CASE last < n BY <1>1, <1>2 DEF SMA, NA
<1>3. CASE ~(last < n)
  <2>1. LastN(s, n) \in Seq(Int) BY LastsAre
  <2>2. PICK x \in Int : x = Total(LastN(s, n)) BY <2>1, TotalIs
  <2>3. (1000 * x) \div n \in Int OBVIOUS
  <2> QED BY <1>1, <1>3, <2>2, <2>3 DEF SMA
<1> QED BY <1>2, <1>3

LEMMA ClosesAre ==
  ASSUME NEW rows \in Seq(SessionRow)
  PROVE  Closes(rows) \in Seq(Int)
<1> DEFINE Of(r) == r["close"]
<1>1. PICK last \in Nat : last = Len(rows) /\ DOMAIN rows = 1..last OBVIOUS
<1>2. \A i \in 1..last : rows[i]["close"] \in Int
  <2> TAKE i \in 1..last
  <2>1. PICK r \in SessionRow : r = rows[i] BY <1>1
  <2>2. r.close \in Int BY DEF SessionRow
  <2>3. r["close"] = r.close BY DEF SessionRow
  <2> QED BY <2>1, <2>2, <2>3
<1>3. PICK all : all = [i \in 1..last |-> rows[i]["close"]] OBVIOUS
<1>4. all \in Seq(Int) BY <1>2, <1>3
<1>5. Each(rows, Of) = all \o <<>> BY <1>1, <1>3 DEF Each
<1>6. PICK known : known = all \o <<>> OBVIOUS
<1>7. known \in Seq(Int) BY <1>4, <1>6
<1>8. Closes(rows) = KnownOf(known) BY <1>5, <1>6 DEF Closes, Column
<1> QED BY <1>7, <1>8, KnownIs

LEMMA CorrectionFits ==
  ASSUME NEW rows \in Seq(SessionRow)
  PROVE  LET closes == Closes(rows)
         IN /\ Correction(closes) = "CORRECTION_IN_UPTREND" => Structure(closes) \notin {"DOWN", "SHORT", "INSUFFICIENT"}
            /\ Correction(closes) = "BOUNCE_IN_DOWNTREND" => Structure(closes) \notin {"UP", "SHORT", "INSUFFICIENT"}
<1>1. PICK closes \in Seq(Int) : closes = Closes(rows) BY ClosesAre
<1>2. PICK twenty, fifty \in Nat : twenty = 20 /\ fifty = 50 OBVIOUS
<1>3. SMA(closes, twenty) \in Int /\ SMA(closes, fifty) \in Int BY <1>2, AveragesAre
<1>4. PICK s20, s50 \in Int : s20 = SMA(closes, 20) /\ s50 = SMA(closes, 50) BY <1>2, <1>3
<1>5. PICK told : told = Structure(closes) OBVIOUS
<1>6. /\ told = "INSUFFICIENT" => ~Known(s20)
      /\ told = "SHORT" => ~Known(s50)
      /\ told = "UP" => s20 > s50
      /\ told = "DOWN" => s20 < s50
  BY <1>4, <1>5, StructureIs
<1>7. ASSUME Correction(closes) = "CORRECTION_IN_UPTREND" PROVE told \notin {"DOWN", "SHORT", "INSUFFICIENT"}
  <2>1. Known(s20) /\ Known(s50) /\ s20 > s50 BY <1>4, <1>7, CorrectionIs
  <2> QED BY <1>6, <2>1
<1>8. ASSUME Correction(closes) = "BOUNCE_IN_DOWNTREND" PROVE told \notin {"UP", "SHORT", "INSUFFICIENT"}
  <2>1. Known(s20) /\ Known(s50) /\ s20 < s50 BY <1>4, <1>8, CorrectionIs
  <2> QED BY <1>6, <2>1
<1> QED BY <1>1, <1>5, <1>7, <1>8

-------------------------------------------------------------------------------
\* The early move: what sets in first, over the last seven sessions.
LEMMA EventsAre ==
  ASSUME NEW rows \in Seq(SessionRow), NEW name
  PROVE  EventsOf(rows, name) \in SUBSET Nat
<1>1. PICK seven \in Seq(SessionRow) : seven = LastN(rows, 7)
  <2>1. PICK n \in Nat : n = 7 /\ n > 0 OBVIOUS
  <2> QED BY <2>1, LastsAre
<1>2. \A i \in DOMAIN seven : seven[i].date \in Nat
  <2> TAKE i \in DOMAIN seven
  <2>1. seven[i] \in SessionRow OBVIOUS
  <2> QED BY <2>1 DEF SessionRow
<1> QED BY <1>1, <1>2 DEF EventsOf, EventsIn

LEMMA EarliestIs ==
  ASSUME NEW dates \in SUBSET Nat
  PROVE  /\ Earliest(dates) \in Int
         /\ Known(Earliest(dates)) => Earliest(dates) \in dates /\ \A d \in dates : Earliest(dates) <= d
         /\ dates # {} => Known(Earliest(dates))
<1>1. CASE dates = {}
  <2>1. Earliest(dates) = NA BY <1>1 DEF Earliest
  <2> QED BY <1>1, <2>1 DEF Known, NA
<1>2. CASE dates # {}
  <2>1. \E x \in dates : \A y \in dates : x <= y BY <1>2, Smallest
  <2>2. PICK least : least = Min(dates) OBVIOUS
  <2>3. least \in dates /\ \A y \in dates : least <= y BY <2>1, <2>2 DEF Min
  <2>4. Earliest(dates) = least BY <1>2, <2>2 DEF Earliest
  <2>5. least \in Nat BY <2>3
  <2> QED BY <2>3, <2>4, <2>5 DEF Known, NA
<1> QED BY <1>1, <1>2

LEMMA FirstDatesAre ==
  ASSUME NEW rows \in Seq(SessionRow)
  PROVE  /\ FirstDates(rows) \in Seq(Int) /\ Len(FirstDates(rows)) = 3
         /\ FirstDates(rows)[1] = Earliest(EventsOf(rows, "VOLUME"))
         /\ FirstDates(rows)[2] = Earliest(EventsOf(rows, "PRICE"))
         /\ FirstDates(rows)[3] = Earliest(EventsOf(rows, "MOMENTUM"))
<1>1. PICK a, b, c \in Int : /\ a = Earliest(EventsOf(rows, "VOLUME"))
                             /\ b = Earliest(EventsOf(rows, "PRICE"))
                             /\ c = Earliest(EventsOf(rows, "MOMENTUM"))
  BY EventsAre, EarliestIs
<1>2. PICK chain : chain = Chain OBVIOUS
<1>3. DOMAIN chain = 1..3 /\ chain[1] = "VOLUME" /\ chain[2] = "PRICE" /\ chain[3] = "MOMENTUM" BY <1>2 DEF Chain
<1>4. PICK three : three = [i \in 1..3 |-> Earliest(EventsOf(rows, chain[i]))] OBVIOUS
<1>5. FirstDates(rows) = three \o <<>> BY <1>2, <1>3, <1>4 DEF FirstDates, Each
<1>6. three[1] = a /\ three[2] = b /\ three[3] = c BY <1>1, <1>3, <1>4
<1>7. PICK n \in Nat : n = 3 OBVIOUS
<1>8. \A i \in 1..n : i = 1 \/ i = 2 \/ i = 3 BY <1>7
<1>9. three = [i \in 1..n |-> three[i]] /\ \A i \in 1..n : three[i] \in Int BY <1>4, <1>6, <1>7, <1>8
<1>10. three \in Seq(Int) /\ Len(three) = n BY <1>9
<1>11. PICK first : first = three \o <<>> OBVIOUS
<1>12. first \in Seq(Int) /\ Len(first) = n /\ \A i \in 1..n : first[i] = three[i] BY <1>10, <1>11
<1> QED BY <1>1, <1>5, <1>6, <1>7, <1>11, <1>12

LEMMA EarlyIs ==
  ASSUME NEW rows, Prelock(rows) = "EARLY"
  PROVE  LET first == FirstDates(rows)
         IN Known(first[1]) /\ Known(first[2]) /\ Known(first[3]) /\ InSequence(first)
<1>1. PICK first : first = FirstDates(rows) OBVIOUS
<1>2. PICK valued : valued = (EventsOf(rows, "VALUE") # {}) OBVIOUS
<1>3. PICK ordered : ordered = InSequence(first) OBVIOUS
<1> DEFINE all == \A i \in 1..3 : Known(first[i])
           rules == << <<"EARLY", all /\ ordered>>,
                <<"DEVELOPING", Len(KnownOf(first)) >= 2 /\ ordered>>,
                <<"DEVELOPING", Known(first[2]) /\ Known(first[3])>>,
                <<"WATCH", Known(first[1]) \/ valued>> >>
<1>4. FirstOf(rules, "NO_SEQUENCE") = "EARLY" BY <1>1, <1>2, <1>3 DEF Prelock, PrelockOf, Lock
<1>5. DOMAIN rules = 1..4 OBVIOUS
<1>6. /\ rules[1][1] = "EARLY" /\ rules[2][1] = "DEVELOPING" /\ rules[3][1] = "DEVELOPING" /\ rules[4][1] = "WATCH" OBVIOUS
<1>7. (rules[1][2] <=> all /\ ordered) OBVIOUS
<1> HIDE DEF rules
<1>8. PICK four \in Nat : four = 4 OBVIOUS
<1>9. DOMAIN rules = 1..four /\ 1 \in 1..four BY <1>5, <1>8
<1>10. \A k \in 1..four : k = 1 \/ k = 2 \/ k = 3 \/ k = 4 BY <1>8
<1>11. OnlyOne(rules, four, 1, "NO_SEQUENCE") BY <1>6, <1>10 DEF OnlyOne
<1>12. rules[1][2] BY <1>4, <1>6, <1>9, <1>11, NamedRule
<1>13. all /\ ordered BY <1>7, <1>12
<1>14. Known(first[1]) /\ Known(first[2]) /\ Known(first[3])
  <2>1. 1 \in 1..3 /\ 2 \in 1..3 /\ 3 \in 1..3 OBVIOUS
  <2> QED BY <1>13, <2>1
<1> QED BY <1>1, <1>3, <1>13, <1>14

LEMMA EarlyFollows ==
  ASSUME NEW rows \in Seq(SessionRow), Prelock(rows) = "EARLY"
  PROVE  /\ \A p \in EventsOf(rows, "PRICE") : \E v \in EventsOf(rows, "VOLUME") : v <= p
         /\ \A m \in EventsOf(rows, "MOMENTUM") : \E p \in EventsOf(rows, "PRICE") : p <= m
<1>1. PICK V, P, M \in SUBSET Nat :
        V = EventsOf(rows, "VOLUME") /\ P = EventsOf(rows, "PRICE") /\ M = EventsOf(rows, "MOMENTUM")
  BY EventsAre
<1>2. PICK first \in Seq(Int) : /\ first = FirstDates(rows) /\ Len(first) = 3
                                /\ first[1] = Earliest(V) /\ first[2] = Earliest(P) /\ first[3] = Earliest(M)
  BY <1>1, FirstDatesAre
<1>3. Known(first[1]) /\ Known(first[2]) /\ Known(first[3]) /\ InSequence(first) BY <1>2, EarlyIs
<1>4. PICK known : known = KnownOf(first) OBVIOUS
<1>5. Len(known) = 3 /\ known[1] = first[1] /\ known[2] = first[2] /\ known[3] = first[3] BY <1>2, <1>3, <1>4, ThreeKnown
<1>6. \A i \in 2..Len(known) : known[i - 1] <= known[i] BY <1>3, <1>4 DEF InSequence
<1>7. known[1] <= known[2] /\ known[2] <= known[3]
  <2>1. 2 \in 2..Len(known) /\ 3 \in 2..Len(known) /\ 2 - 1 = 1 /\ 3 - 1 = 2 BY <1>5
  <2> QED BY <1>6, <2>1
<1>8. PICK v, p, m \in Int : v = Earliest(V) /\ p = Earliest(P) /\ m = Earliest(M) BY EarliestIs
<1>9. v <= p /\ p <= m BY <1>2, <1>5, <1>7, <1>8
<1>10. v \in V /\ p \in P /\ (\A d \in P : p <= d) /\ (\A d \in M : m <= d) BY <1>2, <1>3, <1>8, EarliestIs
<1>11. ASSUME NEW q \in P PROVE \E x \in V : x <= q
  <2>1. q \in Nat /\ p <= q BY <1>10
  <2>2. v <= q BY <1>9, <2>1
  <2> QED BY <1>10, <2>2
<1>12. ASSUME NEW n \in M PROVE \E x \in P : x <= n
  <2>1. n \in Nat /\ m <= n BY <1>10
  <2>2. p <= n BY <1>9, <2>1
  <2> QED BY <1>10, <2>2
<1> QED BY <1>1, <1>11, <1>12

\* What the trend engine reads does not depend on the order in which the sessions came, a
\* correction fits the structure it is told with, and an early move is told in its order, for
\* any history of a share: analyze_history.
THEOREM TrendStaysRead == TrendSpec => []TrendIsRead
<1>1. CasesInit => TrendIsRead
  BY DEF CasesInit, NoCase, TrendIsRead, OrderIsIrrelevant, CorrectionFitsTrend, EarlyIsOrdered, TrendCase
<1>2. TrendIsRead /\ UNCHANGED case => TrendIsRead'
  BY DEF TrendIsRead, OrderIsIrrelevant, CorrectionFitsTrend, EarlyIsOrdered, TrendCase, TrendRows
<1>3. TrendCalled => TrendIsRead'
  <2> SUFFICES ASSUME TrendCalled PROVE TrendIsRead' OBVIOUS
  <2>1. PICK called : called = case' OBVIOUS
  <2>2. PICK answer \in SessionHistories, day \in TradingDates :
          called = [engine |-> "trend", in |-> [answer |-> answer, day |-> day]]
    BY <2>1 DEF TrendCalled, Given
  <2>3. answer \in Seq(SessionRow) BY <2>2, TrendAssumption
  <2>4. case'.in.answer = answer /\ case'.in.day = day BY <2>1, <2>2
  <2>5. PICK rows \in Seq(SessionRow) : rows = Sessions(answer) BY <2>3, SessionsAre
  <2>6. OrderIsIrrelevant'
    <3>1. PICK turned : turned = [i \in DOMAIN answer |-> answer[Len(answer) + 1 - i]] OBVIOUS
    <3>2. ASSUME \A i, k \in DOMAIN answer : answer[i].date = answer[k].date => i = k
          PROVE  Analysis(answer, day) = Analysis(turned, day)
      <4>1. Sessions(turned) = Sessions(answer) BY <2>3, <3>1, <3>2, TurnedIs
      <4> QED BY <4>1 DEF Analysis
    <3> QED BY <2>4, <3>1, <3>2 DEF OrderIsIrrelevant
  <2>7. CorrectionFitsTrend' BY <2>4, <2>5, CorrectionFits DEF CorrectionFitsTrend, TrendRows
  <2>8. EarlyIsOrdered' BY <2>4, <2>5, EarlyFollows DEF EarlyIsOrdered, TrendRows
  <2> QED BY <2>6, <2>7, <2>8 DEF TrendIsRead
<1> QED BY <1>1, <1>2, <1>3, PTL DEF TrendSpec

-------------------------------------------------------------------------------
\* The places of numbers by their size; of equal ones the first goes first.
Rank(keys, i) == Cardinality({j \in DOMAIN keys : keys[j] < keys[i] \/ (keys[j] = keys[i] /\ j < i)})
NthOf(keys, n) == CHOOSE i \in DOMAIN keys : Rank(keys, i) = n - 1
Rises(keys, last) == \A i, j \in 1..last : i < j => keys[i] <= keys[j]

LEMMA RankIs ==
  ASSUME NEW keys \in Seq(Int)
  PROVE  LET P == DOMAIN keys
             R == {p \in P \X P : keys[p[1]] < keys[p[2]] \/ (keys[p[1]] = keys[p[2]] /\ p[1] < p[2])}
         IN /\ IsFiniteSet(P) /\ Cardinality(P) = Len(keys) /\ IsOrder(P, R)
            /\ \A i \in P : Before(P, R, i) = {j \in P : keys[j] < keys[i] \/ (keys[j] = keys[i] /\ j < i)}
<1>1. PICK n \in Nat : n = Len(keys) /\ DOMAIN keys = 1..n OBVIOUS
<1>2. PICK P : P = DOMAIN keys OBVIOUS
<1>3. PICK R : R = {p \in P \X P : keys[p[1]] < keys[p[2]] \/ (keys[p[1]] = keys[p[2]] /\ p[1] < p[2])} OBVIOUS
<1>4. \A a, b \in P : <<a, b>> \in R <=> keys[a] < keys[b] \/ (keys[a] = keys[b] /\ a < b) BY <1>3
<1>5. \A a \in P : a \in Int /\ keys[a] \in Int BY <1>1, <1>2
<1>6. \A a \in P : <<a, a>> \notin R BY <1>4, <1>5
<1>7. ASSUME NEW a \in P, NEW b \in P, NEW c \in P, <<a, b>> \in R, <<b, c>> \in R PROVE <<a, c>> \in R
  <2>1. PICK x, y, z \in Int : x = keys[a] /\ y = keys[b] /\ z = keys[c] BY <1>5
  <2>2. a \in Int /\ b \in Int /\ c \in Int BY <1>5
  <2>3. (x < y \/ (x = y /\ a < b)) /\ (y < z \/ (y = z /\ b < c)) BY <1>4, <1>7, <2>1
  <2>4. x < z \/ (x = z /\ a < c) BY <2>2, <2>3
  <2> QED BY <1>4, <2>1, <2>4
<1>8. ASSUME NEW a \in P, NEW b \in P PROVE a = b \/ <<a, b>> \in R \/ <<b, a>> \in R
  <2>1. PICK x, y \in Int : x = keys[a] /\ y = keys[b] BY <1>5
  <2>2. PICK j, k \in Int : j = a /\ k = b BY <1>5
  <2>3. j = k \/ (x < y \/ (x = y /\ j < k)) \/ (y < x \/ (y = x /\ k < j)) BY <2>1, <2>2
  <2>4. <<a, b>> \in R <=> x < y \/ (x = y /\ j < k) BY <1>4, <2>1, <2>2
  <2>5. <<b, a>> \in R <=> y < x \/ (y = x /\ k < j) BY <1>4, <2>1, <2>2
  <2> QED BY <2>2, <2>3, <2>4, <2>5
<1>9. IsOrder(P, R) BY <1>6, <1>7, <1>8 DEF IsOrder
<1>10. IsFiniteSet(P) /\ Cardinality(P) = n
  <2>1. PICK one, many \in Int : one = 1 /\ many = n OBVIOUS
  <2>2. IsFiniteSet(one..many) /\ Cardinality(one..many) = IF one > many THEN 0 ELSE many - one + 1 BY FS_Interval
  <2>3. P = one..many BY <1>1, <1>2, <2>1
  <2>4. (IF one > many THEN 0 ELSE many - one + 1) = n BY <2>1
  <2> QED BY <2>2, <2>3, <2>4
<1>11. \A i \in P : Before(P, R, i) = {j \in P : keys[j] < keys[i] \/ (keys[j] = keys[i] /\ j < i)}
  BY <1>4 DEF Before
<1> QED BY <1>1, <1>2, <1>3, <1>9, <1>10, <1>11

LEMMA NthIsThere ==
  ASSUME NEW keys \in Seq(Int), NEW n \in 1..Len(keys)
  PROVE  /\ NthOf(keys, n) \in DOMAIN keys
         /\ \A i \in DOMAIN keys : Rank(keys, i) = n - 1 <=> i = NthOf(keys, n)
<1>1. PICK P : P = DOMAIN keys OBVIOUS
<1>2. PICK R : R = {p \in P \X P : keys[p[1]] < keys[p[2]] \/ (keys[p[1]] = keys[p[2]] /\ p[1] < p[2])} OBVIOUS
<1>3. /\ IsFiniteSet(P) /\ Cardinality(P) = Len(keys) /\ IsOrder(P, R)
      /\ \A i \in P : Before(P, R, i) = {j \in P : keys[j] < keys[i] \/ (keys[j] = keys[i] /\ j < i)}
  BY <1>1, <1>2, RankIs
<1>4. \A i \in P : Rank(keys, i) = Cardinality(Before(P, R, i)) BY <1>1, <1>3 DEF Rank
<1>5. PICK i \in P : Cardinality(Before(P, R, i)) = n - 1 BY <1>3, EachIsBefore
<1>6. \A a, b \in P : Cardinality(Before(P, R, b)) = Cardinality(Before(P, R, a)) => a = b BY <1>3, BeforeIsOne
<1>7. PICK nth : nth = NthOf(keys, n) OBVIOUS
<1>8. nth \in P /\ Rank(keys, nth) = n - 1 BY <1>1, <1>4, <1>5, <1>7 DEF NthOf
<1>9. \A a \in P : Rank(keys, a) = n - 1 <=> a = nth BY <1>4, <1>6, <1>8
<1> QED BY <1>1, <1>7, <1>8, <1>9

\* What is put in order by its numbers is in order.
LEMMA NthRises ==
  ASSUME NEW keys \in Seq(Int), NEW m \in 1..Len(keys), NEW n \in 1..Len(keys), m < n
  PROVE  keys[NthOf(keys, m)] <= keys[NthOf(keys, n)]
<1>1. PICK P : P = DOMAIN keys OBVIOUS
<1>2. PICK R : R = {p \in P \X P : keys[p[1]] < keys[p[2]] \/ (keys[p[1]] = keys[p[2]] /\ p[1] < p[2])} OBVIOUS
<1>3. /\ IsFiniteSet(P) /\ Cardinality(P) = Len(keys) /\ IsOrder(P, R)
      /\ \A i \in P : Before(P, R, i) = {j \in P : keys[j] < keys[i] \/ (keys[j] = keys[i] /\ j < i)}
  BY <1>1, <1>2, RankIs
<1>4. PICK a, b \in P : a = NthOf(keys, m) /\ b = NthOf(keys, n) BY <1>1, NthIsThere
<1>5. Rank(keys, a) = m - 1 /\ Rank(keys, b) = n - 1 BY <1>1, <1>4, NthIsThere
<1>6. Cardinality(Before(P, R, a)) = m - 1 /\ Cardinality(Before(P, R, b)) = n - 1 BY <1>1, <1>3, <1>5 DEF Rank
<1>7. <<b, a>> \notin R
  <2>1. SUFFICES ASSUME <<b, a>> \in R PROVE FALSE OBVIOUS
  <2>2. Cardinality(Before(P, R, b)) < Cardinality(Before(P, R, a)) BY <1>3, <2>1, BeforeRises
  <2> QED BY <1>6, <2>2
<1>8. PICK x, y \in Int : x = keys[a] /\ y = keys[b] BY <1>1
<1>9. ~(y < x) BY <1>2, <1>7, <1>8
<1> QED BY <1>4, <1>8, <1>9

\* What is in order stays as it is.
LEMMA NthStays ==
  ASSUME NEW keys \in Seq(Int), Rises(keys, Len(keys)), NEW n \in 1..Len(keys)
  PROVE  NthOf(keys, n) = n
<1>1. PICK last \in Nat : last = Len(keys) /\ DOMAIN keys = 1..last OBVIOUS
<1>2. PICK ahead : ahead = {j \in DOMAIN keys : keys[j] < keys[n] \/ (keys[j] = keys[n] /\ j < n)} OBVIOUS
<1>3. \A i \in 1..last : keys[i] \in Int BY <1>1
<1>4. ahead = 1..n - 1
  <2>1. ASSUME NEW j \in ahead PROVE j \in 1..n - 1
    <3>1. j \in 1..last /\ (keys[j] < keys[n] \/ (keys[j] = keys[n] /\ j < n)) BY <1>1, <1>2
    <3>2. n < j => keys[n] <= keys[j] BY <1>1, <3>1 DEF Rises
    <3>3. ~(n < j)
      <4>1. PICK x, y \in Int : x = keys[j] /\ y = keys[n] BY <1>1, <1>3, <3>1
      <4> QED BY <1>1, <3>1, <3>2, <4>1
    <3>4. j # n BY <1>1, <1>3, <3>1
    <3> QED BY <1>1, <3>1, <3>3, <3>4
  <2>2. ASSUME NEW j \in 1..n - 1 PROVE j \in ahead
    <3>1. j \in 1..last /\ j < n BY <1>1
    <3>2. keys[j] <= keys[n] BY <1>1, <3>1 DEF Rises
    <3>3. PICK x, y \in Int : x = keys[j] /\ y = keys[n] BY <1>1, <1>3, <3>1
    <3>4. x < y \/ (x = y /\ j < n) BY <3>1, <3>2, <3>3
    <3> QED BY <1>1, <1>2, <3>1, <3>3, <3>4
  <2> QED BY <2>1, <2>2
<1>5. Cardinality(ahead) = n - 1
  <2>1. PICK one, many \in Int : one = 1 /\ many = n - 1 BY <1>1
  <2>2. Cardinality(one..many) = IF one > many THEN 0 ELSE many - one + 1 BY FS_Interval
  <2>3. (IF one > many THEN 0 ELSE many - one + 1) = n - 1 BY <1>1, <2>1
  <2> QED BY <1>4, <2>1, <2>2, <2>3
<1>6. Rank(keys, n) = n - 1 BY <1>2, <1>5 DEF Rank
<1>7. n \in DOMAIN keys BY <1>1
<1> QED BY <1>6, <1>7, NthIsThere

-------------------------------------------------------------------------------
\* The archives in the order of their numbers.
ArchivesBy(h, keys) == [n \in DOMAIN h |-> h[NthOf(keys, n)]] \o <<>>

Retrievals(h) == [i \in DOMAIN h |-> h[i].observed] \o <<>>
Hashes(h) == [i \in DOMAIN h |-> h[i].sha] \o <<>>
Times(h) == [i \in DOMAIN h |-> TimeOf(h[i])] \o <<>>

LEMMA ShotIs ==
  ASSUME NEW snap \in MarketSnapshot
  PROVE  snap.observed \in Int /\ snap.sha \in Int /\ TimeOf(snap) \in Int
BY DEF MarketSnapshot, MarketAmount, NA, TimeOf

LEMMA WholeIs ==
  ASSUME NEW n \in Nat, NEW S, NEW f \in [1..n -> S]
  PROVE  f \o <<>> \in Seq(S) /\ Len(f \o <<>>) = n /\ \A i \in 1..n : (f \o <<>>)[i] = f[i]
<1>1. f \in Seq(S) /\ Len(f) = n OBVIOUS
<1> QED BY <1>1

LEMMA KeysAre ==
  ASSUME NEW h \in Seq(MarketSnapshot)
  PROVE  /\ Retrievals(h) \in Seq(Int) /\ Len(Retrievals(h)) = Len(h)
         /\ Hashes(h) \in Seq(Int) /\ Len(Hashes(h)) = Len(h)
         /\ Times(h) \in Seq(Int) /\ Len(Times(h)) = Len(h)
         /\ \A i \in DOMAIN h : /\ Retrievals(h)[i] = h[i].observed
                                /\ Hashes(h)[i] = h[i].sha /\ Times(h)[i] = TimeOf(h[i])
<1>1. PICK n \in Nat : n = Len(h) /\ DOMAIN h = 1..n OBVIOUS
<1>2. \A i \in 1..n : h[i].observed \in Int /\ h[i].sha \in Int /\ TimeOf(h[i]) \in Int
  <2> TAKE i \in 1..n
  <2>1. h[i] \in MarketSnapshot BY <1>1
  <2> QED BY <2>1, ShotIs
<1>3. PICK a, b, c \in [1..n -> Int] :
        /\ a = [i \in 1..n |-> h[i].observed] /\ b = [i \in 1..n |-> h[i].sha]
        /\ c = [i \in 1..n |-> TimeOf(h[i])]
  <2>1. [i \in 1..n |-> h[i].observed] \in [1..n -> Int] BY <1>2
  <2>2. [i \in 1..n |-> h[i].sha] \in [1..n -> Int] BY <1>2
  <2>3. [i \in 1..n |-> TimeOf(h[i])] \in [1..n -> Int] BY <1>2
  <2> QED BY <2>1, <2>2, <2>3
<1>4. Retrievals(h) = a \o <<>> BY <1>1, <1>3 DEF Retrievals
<1>5. Hashes(h) = b \o <<>> BY <1>1, <1>3 DEF Hashes
<1>6. Times(h) = c \o <<>> BY <1>1, <1>3 DEF Times
<1>7. a \o <<>> \in Seq(Int) /\ Len(a \o <<>>) = n /\ \A i \in 1..n : (a \o <<>>)[i] = a[i] BY WholeIs
<1>8. b \o <<>> \in Seq(Int) /\ Len(b \o <<>>) = n /\ \A i \in 1..n : (b \o <<>>)[i] = b[i] BY WholeIs
<1>9. c \o <<>> \in Seq(Int) /\ Len(c \o <<>>) = n /\ \A i \in 1..n : (c \o <<>>)[i] = c[i] BY WholeIs
<1>10. \A i \in 1..n : a[i] = h[i].observed /\ b[i] = h[i].sha /\ c[i] = TimeOf(h[i]) BY <1>3
<1> QED BY <1>1, <1>4, <1>5, <1>6, <1>7, <1>8, <1>9, <1>10

LEMMA ArchivesByIs ==
  ASSUME NEW h \in Seq(MarketSnapshot), NEW keys \in Seq(Int), Len(keys) = Len(h)
  PROVE  /\ ArchivesBy(h, keys) \in Seq(MarketSnapshot) /\ Len(ArchivesBy(h, keys)) = Len(h)
         /\ \A n \in 1..Len(h) : NthOf(keys, n) \in 1..Len(h) /\ ArchivesBy(h, keys)[n] = h[NthOf(keys, n)]
<1>1. PICK last \in Nat : last = Len(h) /\ DOMAIN h = 1..last OBVIOUS
<1>2. DOMAIN keys = 1..last BY <1>1
<1>3. \A n \in 1..last : NthOf(keys, n) \in 1..last BY <1>1, <1>2, NthIsThere
<1>4. \A i \in 1..last : h[i] \in MarketSnapshot BY <1>1
<1>5. PICK all : all = [n \in 1..last |-> h[NthOf(keys, n)]] OBVIOUS
<1>6. all \in [1..last -> MarketSnapshot]
  <2>1. \A n \in 1..last : h[NthOf(keys, n)] \in MarketSnapshot BY <1>3, <1>4
  <2> QED BY <1>5, <2>1
<1>7. ArchivesBy(h, keys) = all \o <<>> BY <1>1, <1>5 DEF ArchivesBy
<1>8. PICK S : S = MarketSnapshot OBVIOUS
<1>9. all \o <<>> \in Seq(S) /\ Len(all \o <<>>) = last /\ \A i \in 1..last : (all \o <<>>)[i] = all[i]
  BY <1>6, <1>8, WholeIs
<1>10. \A n \in 1..last : all[n] = h[NthOf(keys, n)] BY <1>5
<1> QED BY <1>1, <1>3, <1>7, <1>8, <1>9, <1>10

\* The same, as SortedBy puts it.
Placed(h, keys) ==
  [n \in DOMAIN h |->
     h[CHOOSE i \in DOMAIN h :
         Cardinality({j \in DOMAIN h : keys[j] < keys[i] \/ (keys[j] = keys[i] /\ j < i)}) = n - 1]] \o <<>>

LEMMA PlacesAre ==
  ASSUME NEW h, NEW keys, DOMAIN keys = DOMAIN h
  PROVE  Placed(h, keys) = ArchivesBy(h, keys)
<1> DEFINE Place(n) == CHOOSE i \in DOMAIN h :
                     Cardinality({j \in DOMAIN h : keys[j] < keys[i] \/ (keys[j] = keys[i] /\ j < i)}) = n - 1
<1>1. \A n \in DOMAIN h : NthOf(keys, n) = Place(n) BY DEF NthOf, Rank
<1> HIDE DEF Place
<1>2. [n \in DOMAIN h |-> h[Place(n)]] = [n \in DOMAIN h |-> h[NthOf(keys, n)]] BY <1>1
<1>3. [n \in DOMAIN h |-> h[Place(n)]] \o <<>> = ArchivesBy(h, keys) BY <1>2 DEF ArchivesBy
<1>4. Placed(h, keys) = [n \in DOMAIN h |-> h[Place(n)]] \o <<>> BY DEF Placed, Place
<1> QED BY <1>3, <1>4

LEMMA SortsAre ==
  ASSUME NEW h \in Seq(MarketSnapshot)
  PROVE  /\ ByRetrieval(h) = ArchivesBy(h, Retrievals(h))
         /\ BySha(h) = ArchivesBy(ArchivesBy(h, Hashes(h)), Times(ArchivesBy(h, Hashes(h))))
<1>1. DOMAIN Retrievals(h) = DOMAIN h /\ DOMAIN Hashes(h) = DOMAIN h BY KeysAre
<1>2. ByRetrieval(h) = ArchivesBy(h, Retrievals(h))
  <2>1. PICK keys : keys = Retrievals(h) /\ DOMAIN keys = DOMAIN h BY <1>1
  <2>2. ByRetrieval(h) = Placed(h, keys) BY <2>1 DEF Placed, ByRetrieval, SortedBy, Each, Retrievals
  <2> QED BY <2>1, <2>2, PlacesAre
<1>3. PICK u : u = ArchivesBy(h, Hashes(h)) OBVIOUS
<1>4. SortedBy(h, LAMBDA snap : snap.sha) = u
  <2>1. PICK keys : keys = Hashes(h) /\ DOMAIN keys = DOMAIN h BY <1>1
  <2>2. SortedBy(h, LAMBDA snap : snap.sha) = Placed(h, keys) BY <2>1 DEF Placed, SortedBy, Each, Hashes
  <2> QED BY <1>3, <2>1, <2>2, PlacesAre
<1>5. u \in Seq(MarketSnapshot) BY <1>3, KeysAre, ArchivesByIs
<1>6. DOMAIN Times(u) = DOMAIN u BY <1>5, KeysAre
<1>7. SortedBy(u, LAMBDA snap : TimeOf(snap)) = ArchivesBy(u, Times(u))
  <2>1. PICK keys : keys = Times(u) /\ DOMAIN keys = DOMAIN u BY <1>6
  <2>2. SortedBy(u, LAMBDA snap : TimeOf(snap)) = Placed(u, keys) BY <2>1 DEF Placed, SortedBy, Each, Times
  <2> QED BY <2>1, <2>2, PlacesAre
<1>8. BySha(h) = SortedBy(u, LAMBDA snap : TimeOf(snap)) BY <1>4 DEF BySha
<1> QED BY <1>2, <1>3, <1>7, <1>8

LEMMA ByRetrievalIs ==
  ASSUME NEW h \in Seq(MarketSnapshot)
  PROVE  /\ ByRetrieval(h) \in Seq(MarketSnapshot) /\ Len(ByRetrieval(h)) = Len(h)
         /\ \A n \in 1..Len(h) : /\ NthOf(Retrievals(h), n) \in 1..Len(h)
                                 /\ ByRetrieval(h)[n] = h[NthOf(Retrievals(h), n)]
<1>1. PICK keys \in Seq(Int) : keys = Retrievals(h) /\ Len(keys) = Len(h) BY KeysAre
<1>2. PICK s : s = ArchivesBy(h, keys) OBVIOUS
<1>3. s \in Seq(MarketSnapshot) /\ Len(s) = Len(h)
      /\ \A n \in 1..Len(h) : NthOf(keys, n) \in 1..Len(h) /\ s[n] = h[NthOf(keys, n)]
  BY <1>1, <1>2, ArchivesByIs
<1>4. ByRetrieval(h) = s BY <1>1, <1>2, SortsAre
<1> QED BY <1>1, <1>3, <1>4

LEMMA ByShaIs ==
  ASSUME NEW h \in Seq(MarketSnapshot)
  PROVE  BySha(h) \in Seq(MarketSnapshot) /\ Len(BySha(h)) = Len(h)
<1>1. PICK u : u = ArchivesBy(h, Hashes(h)) OBVIOUS
<1>2. u \in Seq(MarketSnapshot) /\ Len(u) = Len(h) BY <1>1, KeysAre, ArchivesByIs
<1>3. PICK keys \in Seq(Int) : keys = Times(u) /\ Len(keys) = Len(u) BY <1>2, KeysAre
<1>4. ArchivesBy(u, keys) \in Seq(MarketSnapshot) /\ Len(ArchivesBy(u, keys)) = Len(u) BY <1>2, <1>3, ArchivesByIs
<1>5. BySha(h) = ArchivesBy(u, keys) BY <1>1, <1>3, SortsAre
<1> QED BY <1>2, <1>4, <1>5

LEMMA NthIsOne ==
  ASSUME NEW keys \in Seq(Int), NEW m \in 1..Len(keys), NEW n \in 1..Len(keys), NthOf(keys, m) = NthOf(keys, n)
  PROVE  m = n
<1>1. PICK i : i = NthOf(keys, m) /\ i = NthOf(keys, n) OBVIOUS
<1>2. i \in DOMAIN keys /\ Rank(keys, i) = m - 1 BY <1>1, NthIsThere
<1>3. Rank(keys, i) = n - 1 BY <1>1, <1>2, NthIsThere
<1> QED BY <1>2, <1>3

\* The places of a sequence put in order twice, each its own.
Twice(shas, times, last) == [n \in 1..last |-> NthOf(shas, NthOf(times, n))]

EachOnce(p, last) ==
  /\ \A n \in 1..last : p[n] \in 1..last
  /\ \A m, n \in 1..last : p[m] = p[n] => m = n
  /\ \A j \in 1..last : \E n \in 1..last : p[n] = j

LEMMA PlacesAreAll ==
  ASSUME NEW last \in Nat, NEW shas \in Seq(Int), Len(shas) = last, NEW times \in Seq(Int), Len(times) = last
  PROVE  EachOnce(Twice(shas, times, last), last)
<1>1. DOMAIN shas = 1..last /\ DOMAIN times = 1..last OBVIOUS
<1>2. \A n \in 1..last : NthOf(times, n) \in 1..last BY <1>1, NthIsThere
<1>3. \A n \in 1..last : NthOf(shas, n) \in 1..last BY <1>1, NthIsThere
<1>4. PICK p : p = Twice(shas, times, last) OBVIOUS
<1>5. \A n \in 1..last : p[n] = NthOf(shas, NthOf(times, n)) BY <1>4 DEF Twice
<1>6. \A n \in 1..last : p[n] \in 1..last BY <1>2, <1>3, <1>5
<1>7. ASSUME NEW m \in 1..last, NEW n \in 1..last, p[m] = p[n] PROVE m = n
  <2>1. NthOf(times, m) \in 1..last /\ NthOf(times, n) \in 1..last BY <1>2
  <2>2. PICK a, b \in 1..last : a = NthOf(times, m) /\ b = NthOf(times, n) BY <2>1
  <2>3. NthOf(shas, a) = NthOf(shas, b) BY <1>5, <1>7, <2>2
  <2>4. a = b BY <2>3, NthIsOne
  <2> QED BY <2>2, <2>4, NthIsOne
<1>8. PICK P : P = 1..last OBVIOUS
<1>9. p \in Injection(P, P)
  <2>1. p \in [P -> P] BY <1>4, <1>6, <1>8 DEF Twice
  <2>2. \A m, n \in P : p[m] = p[n] => m = n BY <1>7, <1>8
  <2> QED BY <2>1, <2>2 DEF Injection, IsInjective
<1>10. IsFiniteSet(P)
  <2>1. PICK one, many \in Int : one = 1 /\ many = last OBVIOUS
  <2>2. IsFiniteSet(one..many) BY FS_Interval
  <2> QED BY <1>8, <2>1, <2>2
<1>11. p \in Surjection(P, P) BY <1>9, <1>10, FS_Injection
<1>12. \A j \in P : \E n \in P : p[n] = j BY <1>11 DEF Surjection
<1> QED BY <1>4, <1>6, <1>7, <1>8, <1>12 DEF EachOnce

\* Where each archive has a time of its own, both ways to put them in order are one.
LEMMA OneOrder ==
  ASSUME NEW h \in Seq(MarketSnapshot), Timed(h)
  PROVE  BySha(h) = ByRetrieval(h)
<1>1. PICK last \in Nat : last = Len(h) /\ DOMAIN h = 1..last OBVIOUS
<1>2. PICK keys \in Seq(Int) : keys = Retrievals(h) /\ Len(keys) = last BY <1>1, KeysAre
<1>3. PICK shas \in Seq(Int) : shas = Hashes(h) /\ Len(shas) = last BY <1>1, KeysAre
<1>4. PICK u \in Seq(MarketSnapshot) :
        /\ u = ArchivesBy(h, shas) /\ Len(u) = last
        /\ \A n \in 1..last : NthOf(shas, n) \in 1..last /\ u[n] = h[NthOf(shas, n)]
  BY <1>1, <1>3, ArchivesByIs
<1>5. PICK times \in Seq(Int) : times = Times(u) /\ Len(times) = last BY <1>4, KeysAre
<1>6. PICK t \in Seq(MarketSnapshot) :
        /\ t = ArchivesBy(u, times) /\ Len(t) = last
        /\ \A n \in 1..last : NthOf(times, n) \in 1..last /\ t[n] = u[NthOf(times, n)]
  <2>1. Len(times) = Len(u) BY <1>4, <1>5
  <2>2. /\ ArchivesBy(u, times) \in Seq(MarketSnapshot) /\ Len(ArchivesBy(u, times)) = Len(u)
        /\ \A n \in 1..Len(u) : NthOf(times, n) \in 1..Len(u) /\ ArchivesBy(u, times)[n] = u[NthOf(times, n)]
    BY <2>1, ArchivesByIs
  <2> QED BY <1>4, <2>2
<1>7. PICK p : p = Twice(shas, times, last) OBVIOUS
<1>8. /\ \A n \in 1..last : p[n] \in 1..last
      /\ \A m, n \in 1..last : p[m] = p[n] => m = n
      /\ \A j \in 1..last : \E n \in 1..last : p[n] = j
  <2>1. Len(shas) = last /\ Len(times) = last /\ last \in Nat BY <1>1, <1>3, <1>5
  <2>2. EachOnce(Twice(shas, times, last), last) BY <2>1, PlacesAreAll
  <2> QED BY <1>7, <2>2 DEF EachOnce
<1>9. \A n \in 1..last : p[n] = NthOf(shas, NthOf(times, n)) BY <1>7 DEF Twice
<1>10. \A n \in 1..last : t[n] = h[p[n]] BY <1>4, <1>6, <1>9
<1>11. \A j \in 1..last : keys[j] = h[j].observed /\ keys[j] \in Int BY <1>1, <1>2, KeysAre
<1>12. \A i, j \in 1..last : keys[i] = keys[j] => i = j BY <1>1, <1>11 DEF Timed
<1>13. ASSUME NEW m \in 1..last, NEW n \in 1..last, m < n PROVE keys[p[m]] < keys[p[n]]
  <2>1. PICK a, b \in 1..last : a = NthOf(times, m) /\ b = NthOf(times, n) BY <1>6
  <2>2. times[a] <= times[b] BY <1>5, <1>13, <2>1, NthRises
  <2>3. DOMAIN u = 1..last BY <1>4
  <2>4. times[a] = TimeOf(u[a]) /\ times[b] = TimeOf(u[b])
    <3>1. \A i \in DOMAIN u : Times(u)[i] = TimeOf(u[i]) BY <1>4, KeysAre
    <3> QED BY <1>5, <2>1, <2>3, <3>1
  <2>5. u[a] = h[p[m]] /\ u[b] = h[p[n]] BY <1>4, <1>9, <2>1
  <2>6. PICK c, d \in 1..last : c = p[m] /\ d = p[n] BY <1>8
  <2>7. TimeOf(h[c]) = keys[c] /\ TimeOf(h[d]) = keys[d] BY <1>1, <1>11 DEF Timed, TimeOf
  <2>8. keys[c] <= keys[d] BY <2>2, <2>4, <2>5, <2>6, <2>7
  <2>9. keys[c] # keys[d]
    <3>1. c # d BY <1>8, <1>13, <2>6
    <3> QED BY <1>12, <3>1
  <2>10. keys[c] \in Int /\ keys[d] \in Int BY <1>11
  <2> QED BY <2>6, <2>8, <2>9, <2>10
<1>14. ASSUME NEW n \in 1..last PROVE p[n] = NthOf(keys, n)
  <2>1. PICK i \in 1..last : i = p[n] BY <1>8
  <2>2. PICK ahead : ahead = {j \in DOMAIN keys : keys[j] < keys[i] \/ (keys[j] = keys[i] /\ j < i)} OBVIOUS
  <2>3. PICK M : M = 1..n - 1 OBVIOUS
  <2>4. M \subseteq 1..last BY <2>3
  <2>5. PICK q : q = [m \in M |-> p[m]] OBVIOUS
  <2>6. \A m \in M : p[m] \in ahead
    <3> TAKE m \in M
    <3>1. m \in 1..last /\ m < n BY <2>3
    <3>2. keys[p[m]] < keys[i] BY <1>13, <2>1, <3>1
    <3>3. p[m] \in DOMAIN keys BY <1>2, <1>8, <3>1
    <3> QED BY <2>2, <3>2, <3>3
  <2>7. ASSUME NEW j \in ahead PROVE \E m \in M : p[m] = j
    <3>1. j \in 1..last /\ (keys[j] < keys[i] \/ (keys[j] = keys[i] /\ j < i)) BY <1>2, <2>2
    <3>2. PICK x, y \in Int : x = keys[j] /\ y = keys[i] BY <1>11, <3>1
    <3>3. x < y
      <4>1. CASE x = y
        <5>1. j = i BY <1>12, <2>1, <3>1, <3>2, <4>1
        <5> QED BY <3>1, <3>2, <4>1, <5>1
      <4> QED BY <3>1, <3>2, <4>1
    <3>4. PICK m \in 1..last : p[m] = j BY <1>8, <3>1
    <3>5. ~(n < m)
      <4>1. ASSUME n < m PROVE FALSE
        <5>1. keys[p[n]] < keys[p[m]] BY <1>13, <4>1
        <5> QED BY <2>1, <3>2, <3>3, <3>4, <5>1
      <4> QED BY <4>1
    <3>6. m # n BY <2>1, <3>2, <3>3, <3>4
    <3> QED BY <2>3, <3>4, <3>5, <3>6
  <2>8. q \in Surjection(M, ahead)
    <3>1. q \in [M -> ahead] BY <2>5, <2>6
    <3>2. \A j \in ahead : \E m \in M : q[m] = j BY <2>5, <2>7
    <3> QED BY <3>1, <3>2 DEF Surjection
  <2>9. q \in Injection(M, ahead)
    <3>1. q \in [M -> ahead] BY <2>5, <2>6
    <3>2. \A a, b \in M : q[a] = q[b] => a = b BY <1>8, <2>4, <2>5
    <3> QED BY <3>1, <3>2 DEF Injection, IsInjective
  <2>10. IsFiniteSet(M) /\ Cardinality(M) = n - 1
    <3>1. PICK one, many \in Int : one = 1 /\ many = n - 1 OBVIOUS
    <3>2. IsFiniteSet(one..many) /\ Cardinality(one..many) = IF one > many THEN 0 ELSE many - one + 1 BY FS_Interval
    <3>3. (IF one > many THEN 0 ELSE many - one + 1) = n - 1 BY <3>1
    <3> QED BY <2>3, <3>1, <3>2, <3>3
  <2>11. Cardinality(ahead) = n - 1 BY <2>8, <2>9, <2>10, FS_Surjection
  <2>12. Rank(keys, i) = n - 1 BY <2>2, <2>11 DEF Rank
  <2>13. i \in DOMAIN keys BY <1>2
  <2> QED BY <1>2, <2>1, <2>12, <2>13, NthIsThere
<1>15. \A n \in 1..last : ByRetrieval(h)[n] = h[NthOf(keys, n)] BY <1>1, <1>2, ByRetrievalIs
<1>16. PICK s \in Seq(MarketSnapshot) : s = ByRetrieval(h) /\ Len(s) = last BY <1>1, ByRetrievalIs
<1>17. \A n \in 1..last : s[n] = t[n] BY <1>10, <1>14, <1>15, <1>16
<1>18. s = t BY <1>6, <1>16, <1>17
<1>19. BySha(h) = t BY <1>3, <1>4, <1>5, <1>6, SortsAre
<1> QED BY <1>16, <1>18, <1>19

\* Of the archives in their order, the later ones are of no earlier time.
Later(s) == \A i, j \in DOMAIN s : i < j => s[i].observed <= s[j].observed

LEMMA InOrderRises ==
  ASSUME NEW h \in Seq(MarketSnapshot)
  PROVE  Later(ByRetrieval(h))
<1>1. PICK s \in Seq(MarketSnapshot) : s = ByRetrieval(h) /\ Len(s) = Len(h) BY ByRetrievalIs
<1>2. PICK last \in Nat : last = Len(h) /\ DOMAIN s = 1..last BY <1>1
<1>3. PICK keys \in Seq(Int) : keys = Retrievals(h) /\ Len(keys) = last BY <1>2, KeysAre
<1>4. ASSUME NEW i \in 1..last, NEW j \in 1..last, i < j PROVE s[i].observed <= s[j].observed
  <2>1. keys[NthOf(keys, i)] <= keys[NthOf(keys, j)] BY <1>3, <1>4, NthRises
  <2>2. NthOf(keys, i) \in 1..last /\ s[i] = h[NthOf(keys, i)] BY <1>1, <1>2, <1>3, ByRetrievalIs
  <2>3. NthOf(keys, j) \in 1..last /\ s[j] = h[NthOf(keys, j)] BY <1>1, <1>2, <1>3, ByRetrievalIs
  <2>4. \A n \in 1..last : keys[n] = h[n].observed
    <3>1. DOMAIN h = 1..last BY <1>1, <1>2
    <3>2. \A n \in DOMAIN h : Retrievals(h)[n] = h[n].observed BY KeysAre
    <3> QED BY <1>3, <3>1, <3>2
  <2>5. keys[NthOf(keys, i)] = s[i].observed /\ keys[NthOf(keys, j)] = s[j].observed BY <2>2, <2>3, <2>4
  <2> QED BY <2>1, <2>5
<1> QED BY <1>1, <1>2, <1>4 DEF Later

LEMMA InOrderStays ==
  ASSUME NEW s \in Seq(MarketSnapshot), Later(s)
  PROVE  ByRetrieval(s) = s
<1>1. PICK last \in Nat : last = Len(s) /\ DOMAIN s = 1..last OBVIOUS
<1>2. PICK keys \in Seq(Int) : keys = Retrievals(s) /\ Len(keys) = last BY <1>1, KeysAre
<1>3. \A i \in 1..last : keys[i] = s[i].observed BY <1>1, <1>2, KeysAre
<1>4. Rises(keys, last) BY <1>1, <1>3 DEF Rises, Later
<1>5. \A n \in 1..last : NthOf(keys, n) = n BY <1>2, <1>4, NthStays
<1>6. PICK t \in Seq(MarketSnapshot) : t = ByRetrieval(s) /\ Len(t) = last BY <1>1, ByRetrievalIs
<1>7. \A n \in 1..last : t[n] = s[n] BY <1>1, <1>2, <1>5, <1>6, ByRetrievalIs
<1>8. t = s BY <1>1, <1>6, <1>7
<1> QED BY <1>6, <1>8

-------------------------------------------------------------------------------
\* What comes after a pattern is later than it.
\* Where two of them have one time, an instrument of both is alike in them.
Alike(s) ==
  \A i, j \in DOMAIN s : s[i].observed # NA /\ s[i].observed = s[j].observed =>
    \A k \in InBoth(s[i], s[j]) : ~Meaningful(s[i].rows[k], s[j].rows[k])

LEMMA AlikeStays ==
  ASSUME NEW h \in MarketHistories
  PROVE  Alike(ByRetrieval(h))
<1>1. h \in Seq(MarketSnapshot) BY HistoryAssumption
<1>2. PICK s \in Seq(MarketSnapshot) : s = ByRetrieval(h) /\ Len(s) = Len(h) BY <1>1, ByRetrievalIs
<1>3. PICK last \in Nat : last = Len(h) /\ DOMAIN s = 1..last BY <1>1, <1>2
<1>4. \A n \in 1..last : \E m \in DOMAIN h : s[n] = h[m] BY <1>1, <1>2, <1>3, ByRetrievalIs
<1>5. ASSUME NEW i \in 1..last, NEW j \in 1..last, s[i].observed # NA, s[i].observed = s[j].observed, NEW k \in InBoth(s[i], s[j])
      PROVE  ~Meaningful(s[i].rows[k], s[j].rows[k])
  <2>1. PICK a \in DOMAIN h : s[i] = h[a] BY <1>4
  <2>2. PICK b \in DOMAIN h : s[j] = h[b] BY <1>4
  <2> QED BY <1>5, <2>1, <2>2, OneObservation
<1> QED BY <1>2, <1>3, <1>5 DEF Alike

\* The first of the later snapshots in which an instrument differs is one of them.
LEMMA NextIs ==
  ASSUME NEW s \in Seq(MarketSnapshot), NEW i \in Nat, NEW k, ChangedAfter(s, i, k) # {}
  PROVE  /\ NextMeaningful(s, i, k) \in ChangedAfter(s, i, k)
         /\ \A j \in ChangedAfter(s, i, k) : NextMeaningful(s, i, k) <= j
<1>1. PICK T : T = ChangedAfter(s, i, k) OBVIOUS
<1>2. T \in SUBSET Nat
  <2>1. PICK last \in Nat : last = Len(s) OBVIOUS
  <2>2. \A j \in T : j \in i + 1..last BY <1>1, <2>1 DEF ChangedAfter
  <2> QED BY <2>2
<1>3. \E x \in T : \A y \in T : x <= y BY <1>1, <1>2, Smallest
<1>4. PICK next : next = Min(T) OBVIOUS
<1>5. next \in T /\ \A y \in T : next <= y BY <1>3, <1>4 DEF Min
<1> QED BY <1>1, <1>4, <1>5 DEF NextMeaningful

LEMMA PairEventIs ==
  ASSUME NEW a, NEW b, NEW e \in PairEvents(a, b)
  PROVE  /\ e.instrument \in InBoth(a, b) /\ ~ListingDay(a, b, e.instrument)
         /\ e.flags = Flags(a.rows[e.instrument], b.rows[e.instrument]) /\ e.flags # {}
<1>1. PICK k \in InBoth(a, b) : ~ListingDay(a, b, k) /\ e = [instrument |-> k, flags |-> Flags(a.rows[k], b.rows[k])] /\ e.flags # {}
  BY DEF PairEvents
<1> QED BY <1>1

OccurrenceOf(s, i, e) ==
  [flags |-> e.flags, instrument |-> e.instrument, seen |-> s[i].observed,
   forward |-> s[NextMeaningful(s, i, e.instrument)].observed,
   change |-> Moved(s[i].rows[e.instrument].last, s[NextMeaningful(s, i, e.instrument)].rows[e.instrument].last)]

LEMMA OccurrenceIs ==
  ASSUME NEW s, NEW o
  PROVE  o \in Occurrences(s) <=>
           \E i \in 2..Len(s) - 1 : \E e \in PairEvents(s[i - 1], s[i]) :
             ChangedAfter(s, i, e.instrument) # {} /\ o = OccurrenceOf(s, i, e)
<1> DEFINE Of(i) == {OccurrenceOf(s, i, e) : e \in {x \in PairEvents(s[i - 1], s[i]) : ChangedAfter(s, i, x.instrument) # {}}}
<1>1. Occurrences(s) = UNION {Of(i) : i \in 2..Len(s) - 1} BY DEF Occurrences, OccurrenceOf
<1>2. o \in Occurrences(s) <=> \E i \in 2..Len(s) - 1 : o \in Of(i)
  <2>1. PICK I : I = 2..Len(s) - 1 OBVIOUS
  <2> HIDE DEF Of
  <2> QED BY <1>1
<1> QED BY <1>2

LEMMA ForwardIsLater ==
  ASSUME NEW h \in MarketHistories, NEW o \in ForwardReport(h), o.seen # NA
  PROVE  o.forward > o.seen
<1>1. h \in Seq(MarketSnapshot) BY HistoryAssumption
<1>2. PICK s \in Seq(MarketSnapshot) : s = ByRetrieval(h) BY <1>1, ByRetrievalIs
<1>3. o \in Occurrences(s) BY <1>2 DEF ForwardReport
<1>4. PICK last \in Nat : last = Len(s) /\ DOMAIN s = 1..last OBVIOUS
<1>5. PICK i \in 2..last - 1 : \E e \in PairEvents(s[i - 1], s[i]) :
             ChangedAfter(s, i, e.instrument) # {} /\ o = OccurrenceOf(s, i, e)
  BY <1>3, <1>4, OccurrenceIs
<1>6. PICK e \in PairEvents(s[i - 1], s[i]) : ChangedAfter(s, i, e.instrument) # {} /\ o = OccurrenceOf(s, i, e) BY <1>5
<1>7. PICK k : k = e.instrument OBVIOUS
<1>8. k \in Present(s[i]) BY <1>6, <1>7, PairEventIs DEF InBoth
<1>9. PICK j : j = NextMeaningful(s, i, k) OBVIOUS
<1>10. j \in ChangedAfter(s, i, k) BY <1>6, <1>7, <1>9, NextIs
<1>11. j \in i + 1..last /\ k \in Present(s[j]) /\ Meaningful(s[i].rows[k], s[j].rows[k]) BY <1>4, <1>10 DEF ChangedAfter
<1>12. i \in 1..last /\ j \in 1..last /\ i < j BY <1>11
<1>13. s[i].observed <= s[j].observed BY <1>1, <1>2, <1>4, <1>12, InOrderRises DEF Later
<1>14. o.seen = s[i].observed /\ o.forward = s[j].observed BY <1>6, <1>7, <1>9 DEF OccurrenceOf
<1>15. s[i].observed # s[j].observed BY <1>2, <1>4, <1>8, <1>11, <1>12, <1>14, AlikeStays DEF Alike, InBoth
<1>16. s[i].observed \in Int /\ s[j].observed \in Int
  <2>1. s[i] \in MarketSnapshot /\ s[j] \in MarketSnapshot BY <1>4, <1>12
  <2> QED BY <2>1, ShotIs
<1> QED BY <1>13, <1>14, <1>15, <1>16

\* The report of a shorter history is a part of the longer one's.
LEMMA ForwardStays ==
  ASSUME NEW h \in Seq(MarketSnapshot)
  PROVE  LET s == ByRetrieval(h) IN Len(s) > 3 => ForwardReport(SubSeq(s, 1, Len(s) - 1)) \subseteq ForwardReport(h)
<1>1. PICK s \in Seq(MarketSnapshot) : s = ByRetrieval(h) BY ByRetrievalIs
<1>2. PICK last \in Nat : last = Len(s) /\ DOMAIN s = 1..last OBVIOUS
<1>3. SUFFICES ASSUME last > 3, NEW o \in ForwardReport(SubSeq(s, 1, last - 1)) PROVE o \in ForwardReport(h)
  BY <1>1, <1>2
<1>4. PICK t : t = SubSeq(s, 1, last - 1) OBVIOUS
<1>5. t \in Seq(MarketSnapshot) /\ Len(t) = last - 1 /\ \A i \in 1..last - 1 : t[i] = s[i] BY <1>2, <1>3, <1>4
<1>6. DOMAIN t = 1..last - 1 BY <1>5
<1>7. Later(t)
  <2>1. Later(s) BY <1>1, InOrderRises
  <2>2. ASSUME NEW i \in 1..last - 1, NEW j \in 1..last - 1, i < j PROVE t[i].observed <= t[j].observed
    <3>1. i \in 1..last /\ j \in 1..last BY <1>2
    <3> QED BY <1>2, <1>5, <2>1, <2>2, <3>1 DEF Later
  <2> QED BY <1>6, <2>2 DEF Later
<1>8. ByRetrieval(t) = t BY <1>5, <1>7, InOrderStays
<1>9. o \in Occurrences(t) BY <1>3, <1>4, <1>8 DEF ForwardReport
<1>10. PICK i \in 2..last - 2 : \E e \in PairEvents(t[i - 1], t[i]) :
             ChangedAfter(t, i, e.instrument) # {} /\ o = OccurrenceOf(t, i, e)
  <2>1. Len(t) - 1 = last - 2 BY <1>2, <1>5
  <2>2. \E i \in 2..Len(t) - 1 : \E e \in PairEvents(t[i - 1], t[i]) :
             ChangedAfter(t, i, e.instrument) # {} /\ o = OccurrenceOf(t, i, e)
    BY <1>9, OccurrenceIs
  <2> QED BY <2>1, <2>2
<1>11. PICK e \in PairEvents(t[i - 1], t[i]) : ChangedAfter(t, i, e.instrument) # {} /\ o = OccurrenceOf(t, i, e) BY <1>10
<1>12. PICK k : k = e.instrument OBVIOUS
<1>13. i \in 1..last - 1 /\ i - 1 \in 1..last - 1 BY <1>3
<1>14. e \in PairEvents(s[i - 1], s[i]) BY <1>5, <1>11, <1>13
<1>15. PICK S, T : S = ChangedAfter(s, i, k) /\ T = ChangedAfter(t, i, k) OBVIOUS
<1>16. \A j : j \in T <=> j \in S /\ j \in i + 1..last - 1
  <2>1. \A j : j \in T <=> j \in i + 1..last - 1 /\ k \in Present(t[j]) /\ Meaningful(t[i].rows[k], t[j].rows[k])
    BY <1>5, <1>15 DEF ChangedAfter
  <2>2. \A j : j \in S <=> j \in i + 1..last /\ k \in Present(s[j]) /\ Meaningful(s[i].rows[k], s[j].rows[k])
    BY <1>2, <1>15 DEF ChangedAfter
  <2>3. \A j \in i + 1..last - 1 : j \in 1..last - 1 /\ j \in i + 1..last BY <1>3, <1>13
  <2>4. t[i] = s[i] /\ \A j \in i + 1..last - 1 : t[j] = s[j] BY <1>5, <1>13, <2>3
  <2> QED BY <2>1, <2>2, <2>3, <2>4
<1>17. PICK m, n : m = NextMeaningful(t, i, k) /\ n = NextMeaningful(s, i, k) OBVIOUS
<1>18. m \in T /\ \A j \in T : m <= j BY <1>5, <1>11, <1>12, <1>13, <1>15, <1>17, NextIs
<1>19. S # {} BY <1>16, <1>18
<1>20. n \in S /\ \A j \in S : n <= j BY <1>13, <1>15, <1>17, <1>19, NextIs
<1>21. m \in S /\ m \in i + 1..last - 1 BY <1>16, <1>18
<1>22. n \in i + 1..last BY <1>2, <1>15, <1>20 DEF ChangedAfter
<1>23. n \in i + 1..last - 1 BY <1>20, <1>21, <1>22
<1>24. m = n BY <1>16, <1>18, <1>20, <1>21, <1>23
<1>25. m \in 1..last - 1 /\ t[m] = s[m] /\ t[i] = s[i] BY <1>3, <1>5, <1>13, <1>21
<1>26. OccurrenceOf(t, i, e) = OccurrenceOf(s, i, e) BY <1>12, <1>17, <1>24, <1>25 DEF OccurrenceOf
<1>27. o \in Occurrences(s)
  <2>1. i \in 2..last - 1 BY <1>3
  <2>2. ChangedAfter(s, i, e.instrument) # {} BY <1>12, <1>15, <1>19
  <2>3. i \in 2..Len(s) - 1 BY <1>2, <2>1
  <2> QED BY <1>11, <1>14, <1>26, <2>2, <2>3, OccurrenceIs
<1> QED BY <1>1, <1>2, <1>3, <1>27 DEF ForwardReport

-------------------------------------------------------------------------------
\* A flag is raised by the two changes it names.
Flagged(a, b, flag, p, v) ==
  flag \in Flags(a, b) => Moved(a.last, b.last) = p /\ Moved(a.under, b.under) = v

LEMMA JointIs ==
  ASSUME NEW p, NEW v, NEW names, NEW flag
  PROVE  flag \in Joint(p, v, names) <=> p # NA /\ v # NA /\ \E x \in names : x[1] = flag /\ x[2] = p /\ x[3] = v
<1>1. CASE p = NA \/ v = NA
  <2>1. Joint(p, v, names) = {} BY <1>1 DEF Joint
  <2> QED BY <1>1, <2>1
<1>2. CASE ~(p = NA \/ v = NA)
  <2>1. Joint(p, v, names) = {n[1] : n \in {x \in names : x[2] = p /\ x[3] = v}} BY <1>2 DEF Joint
  <2> QED BY <1>2, <2>1
<1> QED BY <1>1, <1>2

LEMMA FlagsAre ==
  ASSUME NEW a, NEW b
  PROVE  /\ Flags(a, b) # {} => Moved(a.last, b.last) # NA
         /\ Flagged(a, b, "OPTION_UP_UNDERLYING_UP", 1, 1)
         /\ Flagged(a, b, "OPTION_DOWN_UNDERLYING_UP", -1, 1)
<1>1. PICK p, u, v, w : /\ p = Moved(a.last, b.last) /\ u = Moved(a.volume, b.volume)
                        /\ v = Moved(a.oi, b.oi) /\ w = Moved(a.under, b.under)
  OBVIOUS
<1>2. PICK U, V, W :
        /\ U = {<<"PRICE_UP_VOLUME_UP", 1, 1>>, <<"PRICE_DOWN_VOLUME_UP", -1, 1>>}
        /\ V = {<<"PRICE_UP_OI_UP", 1, 1>>, <<"PRICE_DOWN_OI_UP", -1, 1>>,
                <<"PRICE_UP_OI_DOWN", 1, -1>>, <<"PRICE_DOWN_OI_DOWN", -1, -1>>}
        /\ W = {<<"OPTION_UP_UNDERLYING_DOWN", 1, -1>>, <<"OPTION_DOWN_UNDERLYING_UP", -1, 1>>,
                <<"OPTION_UP_UNDERLYING_UP", 1, 1>>, <<"OPTION_DOWN_UNDERLYING_DOWN", -1, -1>>}
  OBVIOUS
<1>3. Flags(a, b) = Joint(p, u, U) \cup Joint(p, v, V) \cup Joint(p, w, W) BY <1>1, <1>2 DEF Flags
<1>4. \A flag : flag \in Flags(a, b) =>
        /\ p # NA
        /\ \/ \E x \in U : x[1] = flag
           \/ \E x \in V : x[1] = flag
           \/ \E x \in W : x[1] = flag /\ x[2] = p /\ x[3] = w
  BY <1>3, JointIs
<1>5. \A x \in U : x[1] # "OPTION_UP_UNDERLYING_UP" /\ x[1] # "OPTION_DOWN_UNDERLYING_UP" BY <1>2
<1>6. \A x \in V : x[1] # "OPTION_UP_UNDERLYING_UP" /\ x[1] # "OPTION_DOWN_UNDERLYING_UP" BY <1>2
<1>7. \A x \in W : /\ x[1] = "OPTION_UP_UNDERLYING_UP" => x[2] = 1 /\ x[3] = 1
                   /\ x[1] = "OPTION_DOWN_UNDERLYING_UP" => x[2] = -1 /\ x[3] = 1
  BY <1>2
<1> QED BY <1>1, <1>4, <1>5, <1>6, <1>7 DEF Flagged

TransitionOf(s, i, k) ==
  [instrument |-> k, entry |-> TimeOf(s[i]), forward |-> TimeOf(s[i + 1]),
   option |-> Moved(s[i].rows[k].last, s[i + 1].rows[k].last),
   under |-> Moved(s[i].rows[k].under, s[i + 1].rows[k].under)]

ObservationOf(s, i, k) ==
  [instrument |-> k, entry |-> TimeOf(s[i]), forward |-> TimeOf(s[i + 1]), features |-> Features(s[i].rows[k]),
   option |-> Moved(s[i].rows[k].last, s[i + 1].rows[k].last),
   under |-> Moved(s[i].rows[k].under, s[i + 1].rows[k].under)]

LEMMA TransitionIs ==
  ASSUME NEW h, NEW i \in 1..Len(BySha(h)) - 1, NEW k \in InBoth(BySha(h)[i], BySha(h)[i + 1])
  PROVE  TransitionOf(BySha(h), i, k) \in OutcomeTransitions(h)
<1>1. PICK s : s = BySha(h) OBVIOUS
<1> DEFINE Of(n) == {TransitionOf(s, n, x) : x \in InBoth(s[n], s[n + 1])}
<1>2. OutcomeTransitions(h) = UNION {Of(n) : n \in 1..Len(s) - 1} BY <1>1 DEF OutcomeTransitions, TransitionOf
<1>3. TransitionOf(s, i, k) \in Of(i) BY <1>1
<1>4. PICK I : I = 1..Len(s) - 1 /\ i \in I BY <1>1
<1> HIDE DEF Of
<1> QED BY <1>1, <1>2, <1>3, <1>4

LEMMA ObservationIs ==
  ASSUME NEW h, NEW o \in Observations(h)
  PROVE  \E i \in 1..Len(BySha(h)) - 1 : \E k \in InBoth(BySha(h)[i], BySha(h)[i + 1]) : o = ObservationOf(BySha(h), i, k)
<1>1. PICK s : s = BySha(h) OBVIOUS
<1> DEFINE Of(n) == {ObservationOf(s, n, x) : x \in {y \in InBoth(s[n], s[n + 1]) : s[n].rows[y].type \in {"CALL", "PUT"}}}
<1>2. Observations(h) = UNION {Of(n) : n \in 1..Len(s) - 1} BY <1>1 DEF Observations, ObservationOf
<1>3. PICK I : I = 1..Len(s) - 1 OBVIOUS
<1>4. PICK i \in I : o \in Of(i)
  <2> HIDE DEF Of
  <2> QED BY <1>2, <1>3
<1>5. PICK k \in InBoth(s[i], s[i + 1]) : o = ObservationOf(s, i, k) BY <1>4
<1> QED BY <1>1, <1>3, <1>5

LEMMA BehaviourIsOutcome ==
  ASSUME NEW h \in Seq(MarketSnapshot), Timed(h), NEW e \in BehaviorReport(h)
  PROVE  \E t \in OutcomeTransitions(h) :
           /\ t.instrument = e.instrument /\ t.forward = Last(ByRetrieval(h)).observed /\ t.option # NA
           /\ "OPTION_UP_UNDERLYING_UP" \in e.flags => t.option = 1 /\ t.under = 1
           /\ "OPTION_DOWN_UNDERLYING_UP" \in e.flags => t.option = -1 /\ t.under = 1
<1>1. PICK s \in Seq(MarketSnapshot) : s = ByRetrieval(h) /\ s = BySha(h) BY ByRetrievalIs, OneOrder
<1>2. PICK last \in Nat : last = Len(s) OBVIOUS
<1>3. ~(last < 2) /\ e \in PairEvents(s[last - 1], s[last]) BY <1>1, <1>2 DEF BehaviorReport
<1>4. PICK i \in 1..last - 1 : i = last - 1 /\ i + 1 = last BY <1>3
<1>5. PICK k : k = e.instrument OBVIOUS
<1>6. PICK a, b : a = s[i].rows[k] /\ b = s[i + 1].rows[k] OBVIOUS
<1>7. k \in InBoth(s[i], s[i + 1]) /\ e.flags = Flags(a, b) /\ e.flags # {} BY <1>3, <1>4, <1>5, <1>6, PairEventIs
<1>8. PICK t : t = TransitionOf(s, i, k) OBVIOUS
<1>9. t \in OutcomeTransitions(h) BY <1>1, <1>2, <1>7, <1>8, TransitionIs
<1>10. /\ t.instrument = k /\ t.forward = TimeOf(s[i + 1])
       /\ t.option = Moved(a.last, b.last) /\ t.under = Moved(a.under, b.under)
  BY <1>6, <1>8 DEF TransitionOf
<1>11. Last(s).observed = TimeOf(s[i + 1])
  <2>1. Last(s) = s[i + 1] BY <1>2, <1>4 DEF Last
  <2>2. PICK m \in 1..Len(h) : s[i + 1] = h[m]
    <3>1. Len(s) = Len(h) BY <1>1, ByRetrievalIs
    <3>2. last \in Nat /\ i + 1 = last /\ last >= 2 BY <1>2, <1>3, <1>4
    <3>3. i + 1 \in 1..Len(h) BY <1>2, <3>1, <3>2
    <3>4. NthOf(Retrievals(h), i + 1) \in 1..Len(h) /\ s[i + 1] = h[NthOf(Retrievals(h), i + 1)]
      BY <1>1, <3>3, ByRetrievalIs
    <3> QED BY <3>4
  <2>3. s[i + 1].observed # NA BY <2>2 DEF Timed
  <2> QED BY <2>1, <2>3 DEF TimeOf
<1>12. /\ t.option # NA
       /\ "OPTION_UP_UNDERLYING_UP" \in e.flags => t.option = 1 /\ t.under = 1
       /\ "OPTION_DOWN_UNDERLYING_UP" \in e.flags => t.option = -1 /\ t.under = 1
  BY <1>7, <1>10, FlagsAre DEF Flagged
<1> QED BY <1>1, <1>5, <1>9, <1>10, <1>11, <1>12

LEMMA ReplayIsOutcome ==
  ASSUME NEW h, NEW o \in Observations(h)
  PROVE  [instrument |-> o.instrument, entry |-> o.entry, forward |-> o.forward, option |-> o.option, under |-> o.under]
           \in OutcomeTransitions(h)
<1>1. PICK s : s = BySha(h) OBVIOUS
<1>2. PICK i \in 1..Len(s) - 1 : \E k \in InBoth(s[i], s[i + 1]) : o = ObservationOf(s, i, k) BY <1>1, ObservationIs
<1>3. PICK k \in InBoth(s[i], s[i + 1]) : o = ObservationOf(s, i, k) BY <1>2
<1>4. TransitionOf(s, i, k) \in OutcomeTransitions(h) BY <1>1, TransitionIs
<1>5. [instrument |-> o.instrument, entry |-> o.entry, forward |-> o.forward, option |-> o.option, under |-> o.under]
        = TransitionOf(s, i, k)
  BY <1>3 DEF ObservationOf, TransitionOf
<1> QED BY <1>4, <1>5

-------------------------------------------------------------------------------
\* Two snapshots differ alike in both directions.
DifferenceAt(a, b, k) ==
  IF k \notin Present(a) THEN "ADDED" ELSE IF k \notin Present(b) THEN "REMOVED"
  ELSE IF a.rows[k] = b.rows[k] THEN "UNCHANGED" ELSE FieldDelta(a.rows[k].last, b.rows[k].last)
OtherWay(x) == CASE x = "ADDED" -> "REMOVED" [] x = "REMOVED" -> "ADDED"
                 [] x = "UP" -> "DOWN" [] x = "DOWN" -> "UP" [] OTHER -> x

LEMMA DifferenceTurned ==
  ASSUME NEW a \in MarketSnapshot, NEW b \in MarketSnapshot
  PROVE  Difference(b, a) = {<<d[1], OtherWay(d[2])>> : d \in Difference(a, b)}
<1>1. PICK K : K = Present(a) \cup Present(b) OBVIOUS
<1>2. ASSUME NEW k \in K PROVE DifferenceAt(b, a, k) = OtherWay(DifferenceAt(a, b, k))
  <2>1. CASE k \notin Present(a)
    <3>1. k \in Present(b) BY <1>1, <2>1
    <3> QED BY <2>1, <3>1 DEF DifferenceAt, OtherWay
  <2>2. CASE k \in Present(a) /\ k \notin Present(b) BY <2>2 DEF DifferenceAt, OtherWay
  <2>3. CASE k \in Present(a) /\ k \in Present(b)
    <3>1. k \in Instruments BY <2>3 DEF Present
    <3>2. a.rows[k] \in MarketRow /\ b.rows[k] \in MarketRow BY <3>1 DEF MarketSnapshot
    <3>3. PICK x, y \in Int : x = a.rows[k].last /\ y = b.rows[k].last
      BY <3>2 DEF MarketRow, MarketAmount, NA
    <3>4. FieldDelta(y, x) = OtherWay(FieldDelta(x, y))
      <4>1. CASE x # NA /\ y # NA /\ x < y BY <4>1 DEF FieldDelta, OtherWay
      <4>2. CASE x # NA /\ y # NA /\ y < x BY <4>2 DEF FieldDelta, OtherWay
      <4>3. CASE x = y BY <4>3 DEF FieldDelta, OtherWay
      <4>4. CASE (x = NA \/ y = NA) /\ x # y BY <4>4 DEF FieldDelta, OtherWay
      <4> QED BY <4>1, <4>2, <4>3, <4>4
    <3>5. CASE a.rows[k] = b.rows[k] BY <2>3, <3>5 DEF DifferenceAt, OtherWay
    <3>6. CASE a.rows[k] # b.rows[k]
      <4>1. DifferenceAt(b, a, k) = FieldDelta(y, x) BY <2>3, <3>3, <3>6 DEF DifferenceAt
      <4>2. DifferenceAt(a, b, k) = FieldDelta(x, y) BY <2>3, <3>3, <3>6 DEF DifferenceAt
      <4> QED BY <3>4, <4>1, <4>2
    <3> QED BY <3>5, <3>6
  <2> QED BY <2>1, <2>2, <2>3
<1>3. Difference(a, b) = {<<k, DifferenceAt(a, b, k)>> : k \in K} BY <1>1 DEF Difference, DifferenceAt
<1>4. Difference(b, a) = {<<k, DifferenceAt(b, a, k)>> : k \in K} BY <1>1 DEF Difference, DifferenceAt
<1>5. PICK D, E : D = Difference(a, b) /\ E = Difference(b, a) OBVIOUS
<1>6. \A d \in D : \E k \in K : d[1] = k /\ d[2] = DifferenceAt(a, b, k) BY <1>3, <1>5
<1>7. \A k \in K : \E d \in D : d[1] = k /\ d[2] = DifferenceAt(a, b, k)
  <2> TAKE k \in K
  <2>1. PICK d : d = <<k, DifferenceAt(a, b, k)>> OBVIOUS
  <2>2. d \in D BY <1>3, <1>5, <2>1
  <2>3. d[1] = k /\ d[2] = DifferenceAt(a, b, k) BY <2>1
  <2> QED BY <2>2, <2>3
<1>8. \A d \in D : <<d[1], OtherWay(d[2])>> \in E
  <2> TAKE d \in D
  <2>1. PICK k \in K : d[1] = k /\ d[2] = DifferenceAt(a, b, k) BY <1>6
  <2>2. <<k, DifferenceAt(b, a, k)>> \in E BY <1>4, <1>5
  <2> QED BY <1>2, <2>1, <2>2
<1>9. ASSUME NEW x \in E PROVE \E d \in D : x = <<d[1], OtherWay(d[2])>>
  <2>1. PICK k \in K : x = <<k, DifferenceAt(b, a, k)>> BY <1>4, <1>5
  <2>2. PICK d \in D : d[1] = k /\ d[2] = DifferenceAt(a, b, k) BY <1>7
  <2> QED BY <1>2, <2>1, <2>2
<1>10. E = {<<d[1], OtherWay(d[2])>> : d \in D} BY <1>8, <1>9
<1> QED BY <1>5, <1>10

-------------------------------------------------------------------------------
\* What is known of a sequence is all of it only where every element is known.
LEMMA WholeIsKnown ==
  ASSUME NEW S, NEW s \in Seq(S), Len(KnownOf(s)) = Len(s)
  PROVE  KnownOf(s) = s /\ \A i \in 1..Len(s) : Known(s[i])
<1>1. PICK last \in Nat : last = Len(s) OBVIOUS
<1>2. PICK u : /\ KnownOf(s) = u[last] /\ u[0] = <<>>
               /\ \A n \in 1..last : u[n] = IF Known(s[n]) THEN Append(u[n - 1], s[n]) ELSE u[n - 1]
  BY <1>1, KnownIs
<1>3. PICK T : T = Seq(S) OBVIOUS
<1>4. \A n \in 1..last : s[n] \in S BY <1>1
<1> DEFINE Good(n) == /\ u[n] \in T /\ Len(u[n]) <= n
                      /\ Len(u[n]) = n => \A i \in 1..n : u[n][i] = s[i] /\ Known(s[i])
           Lost == {n \in 0..last : ~Good(n)}
<1>5. Good(0)
  <2>1. <<>> \in Seq(S) /\ Len(<<>>) = 0 OBVIOUS
  <2> QED BY <1>2, <1>3, <2>1
<1>6. ASSUME NEW n \in 1..last, Good(n - 1) PROVE Good(n)
  <2>1. PICK before \in Seq(S) : before = u[n - 1] BY <1>3, <1>6
  <2>2. PICK x \in S : x = s[n] BY <1>4
  <2>3. n \in Nat /\ n - 1 \in Nat OBVIOUS
  <2>4. Len(before) <= n - 1 /\ (Len(before) = n - 1 => \A i \in 1..n - 1 : before[i] = s[i] /\ Known(s[i])) BY <1>6, <2>1
  <2>5. CASE Known(x)
    <3>0. Append(before, x) \in Seq(S) OBVIOUS
    <3>1. PICK after \in Seq(S) : after = Append(before, x) BY <3>0
    <3>2. u[n] = after BY <1>2, <2>1, <2>2, <2>5, <3>1
    <3>3. Len(after) = Len(before) + 1 /\ after[Len(before) + 1] = x /\ \A i \in 1..Len(before) : after[i] = before[i] BY <3>1
    <3>4. Len(after) <= n BY <2>3, <2>4, <3>3
    <3>5. ASSUME Len(after) = n, NEW i \in 1..n PROVE after[i] = s[i] /\ Known(s[i])
      <4>1. Len(before) = n - 1 BY <2>3, <3>3, <3>5
      <4>2. CASE i = n BY <2>2, <2>5, <3>3, <4>1, <4>2
      <4>3. CASE i \in 1..n - 1 BY <2>4, <3>3, <4>1, <4>3
      <4> QED BY <4>2, <4>3
    <3> QED BY <1>3, <3>2, <3>4, <3>5
  <2>6. CASE ~Known(x)
    <3>1. u[n] = before BY <1>2, <2>1, <2>2, <2>6
    <3>2. Len(before) <= n /\ Len(before) # n BY <2>3, <2>4
    <3> QED BY <1>3, <3>1, <3>2
  <2> QED BY <2>5, <2>6
<1>7. Lost = {}
  <2> SUFFICES ASSUME Lost # {} PROVE FALSE OBVIOUS
  <2>1. Lost \in SUBSET Nat OBVIOUS
  <2>2. \A n \in Lost : n \in 0..last /\ ~Good(n) OBVIOUS
  <2>3. \A n \in 0..last : n \notin Lost => Good(n) OBVIOUS
  <2> HIDE DEF Lost, Good
  <2>4. PICK n \in Lost : \A m \in Lost : n <= m BY <2>1, Smallest
  <2>5. n \in 1..last BY <1>5, <2>2, <2>4
  <2>6. n - 1 \in 0..last /\ ~(n <= n - 1) BY <2>5
  <2>7. Good(n - 1) BY <2>3, <2>4, <2>6
  <2> QED BY <1>6, <2>2, <2>4, <2>5, <2>7
<1>8. Good(last)
  <2>1. last \in 0..last OBVIOUS
  <2> HIDE DEF Good
  <2> QED BY <1>7, <2>1
<1>9. PICK seen : seen = u[last] OBVIOUS
<1>10. seen \in Seq(S) /\ Len(seen) = last /\ \A i \in 1..last : seen[i] = s[i] /\ Known(s[i])
  BY <1>1, <1>2, <1>3, <1>8, <1>9
<1> QED BY <1>1, <1>2, <1>9, <1>10

\* The transitions that are left out are those from the day that is read as the first.
LEMMA FlaggedIs ==
  ASSUME NEW a, NEW b, NEW k \in InBoth(a, b), NEW flags, flags = Flags(a.rows[k], b.rows[k])
  PROVE  [instrument |-> k, flags |-> flags] \in PairEvents(a, b) <=> ~ListingDay(a, b, k) /\ flags # {}
<1>1. PICK e : e = [instrument |-> k, flags |-> flags] OBVIOUS
<1>2. ASSUME ~ListingDay(a, b, k), flags # {} PROVE e \in PairEvents(a, b) BY <1>1, <1>2 DEF PairEvents
<1>3. ASSUME e \in PairEvents(a, b) PROVE ~ListingDay(a, b, k) /\ flags # {}
  <2>1. e.instrument = k /\ e.flags = flags BY <1>1
  <2> QED BY <1>3, <2>1, PairEventIs
<1> QED BY <1>1, <1>2, <1>3

LEMMA NotOfListing ==
  ASSUME NEW a \in MarketSnapshot, NEW b, NEW k \in InBoth(a, b),
         NEW begin, begin = a.rows[k].begin, NEW flags, flags = Flags(a.rows[k], b.rows[k])
  PROVE  /\ begin.calendar = "gregorian" /\ begin.day = DayOf(a)
              => [instrument |-> k, flags |-> flags] \notin PairEvents(a, b)
         /\ begin.calendar = "jalali" /\ flags # {}
              => [instrument |-> k, flags |-> flags] \in PairEvents(a, b)
<1>1. begin.calendar = "gregorian" /\ begin.day = DayOf(a) => ListingDay(a, b, k) BY DEF ListingDay, BeginDate
<1>2. DayOf(a) # OtherDay
  <2>1. CASE a.observed = NA BY <2>1 DEF DayOf, OtherDay, NA
  <2>2. CASE a.observed # NA
    <3>1. PICK n \in Nat : n = a.observed BY <2>2 DEF MarketSnapshot, MarketAmount
    <3>2. n \div 10 >= 0 OBVIOUS
    <3> QED BY <2>2, <3>1, <3>2 DEF DayOf, OtherDay
  <2> QED BY <2>1, <2>2
<1>3. ASSUME begin.calendar = "jalali" PROVE ~ListingDay(a, b, k)
  <2>1. BeginDate(a.rows[k]) = OtherDay BY <1>3 DEF BeginDate
  <2> QED BY <1>2, <2>1 DEF ListingDay
<1> QED BY <1>1, <1>3, FlaggedIs

LEMMA SequenceIsUp ==
  ASSUME NEW d \in Seq(Int), SequenceState(d) = "UP"
  PROVE  \A i \in 1..Len(d) : d[i] = 1
<1>1. PICK seen : seen = KnownOf(d) OBVIOUS
<1>2. PICK last : last = seen[Len(seen)] OBVIOUS
<1> DEFINE rules == << <<"INSUFFICIENT_DATA", seen = <<>> >>,
                       <<"STABLE", ToSet(seen) = {0}>>,
                       <<"UP", Len(seen) = Len(d) /\ ToSet(seen) = {1}>>,
                       <<"DOWN", Len(seen) = Len(d) /\ ToSet(seen) = {-1}>>,
                       <<"MIXED_ENDING", seen # <<>> /\ last # 0>> >>
<1>3. SequenceState(d) = FirstOf(rules, "MIXED") BY <1>1, <1>2 DEF SequenceState
<1>4. DOMAIN rules = 1..5 OBVIOUS
<1>5. /\ rules[1][1] = "INSUFFICIENT_DATA" /\ rules[2][1] = "STABLE" /\ rules[3][1] = "UP" /\ rules[4][1] = "DOWN"
      /\ rules[5][1] = "MIXED_ENDING"
  OBVIOUS
<1>6. rules[3][2] => Len(seen) = Len(d) /\ ToSet(seen) = {1} OBVIOUS
<1> HIDE DEF rules
<1>7. PICK five \in Nat : five = 5 OBVIOUS
<1>8. DOMAIN rules = 1..five BY <1>4, <1>7
<1>9. \A k \in 1..five : k = 1 \/ k = 2 \/ k = 3 \/ k = 4 \/ k = 5 BY <1>7
<1>10. 3 \in 1..five BY <1>7
<1>11. PICK three \in 1..five : three = 3 BY <1>10
<1>12. OnlyOne(rules, five, three, "MIXED") BY <1>5, <1>9, <1>11 DEF OnlyOne
<1>13. FirstOf(rules, "MIXED") = rules[three][1] BY <1>3, <1>5, <1>11
<1>14. rules[three][2] BY <1>8, <1>12, <1>13, NamedRule
<1>15. Len(seen) = Len(d) /\ ToSet(seen) = {1} BY <1>6, <1>11, <1>14
<1>16. seen = d BY <1>1, <1>15, WholeIsKnown
<1>17. ASSUME NEW i \in 1..Len(d) PROVE d[i] \in ToSet(d) BY DEF ToSet
<1> QED BY <1>15, <1>16, <1>17

\* A part of a sequence is one.
LEMMA PartIs ==
  ASSUME NEW S, NEW s \in Seq(S), NEW from \in Int, from > 0
  PROVE  SubSeq(s, from, Len(s)) \in Seq(S)
<1>1. PICK last \in Nat : last = Len(s) OBVIOUS
<1>2. SubSeq(s, from, last) \in Seq(S) BY <1>1
<1> QED BY <1>1, <1>2

LEMMA WindowIs ==
  ASSUME NEW h \in Seq(MarketSnapshot)
  PROVE  WindowOf(h) \in Seq(MarketSnapshot)
<1>1. PICK last \in Nat : last = Len(h) OBVIOUS
<1>2. PICK x \in Int : x = last - PatternWindow BY HistoryAssumption
<1>3. PICK from \in Int : from = Max({1, x}) /\ 1 <= from
  <2>1. \E y \in {1, x} : \A z \in {1, x} : y >= z
    <3>1. CASE x >= 1 BY <3>1
    <3>2. CASE x < 1 BY <3>2
    <3> QED BY <3>1, <3>2
  <2>2. PICK y : y = Max({1, x}) OBVIOUS
  <2>3. y \in {1, x} /\ \A z \in {1, x} : y >= z BY <2>1, <2>2 DEF Max
  <2> QED BY <2>2, <2>3
<1>4. WindowOf(h) = SubSeq(h, from, last) BY <1>1, <1>2, <1>3 DEF WindowOf
<1>5. PICK S : S = MarketSnapshot OBVIOUS
<1>6. h \in Seq(S) BY <1>5
<1>7. SubSeq(h, from, last) \in Seq(S)
  <2>1. from > 0 BY <1>3
  <2>2. SubSeq(h, from, Len(h)) \in Seq(S) BY <1>6, <2>1, PartIs
  <2> QED BY <1>1, <2>2
<1> QED BY <1>4, <1>5, <1>7

\* Where a consistent rise is seen, each step of the window is one.
LEMMA RisesThroughout ==
  ASSUME NEW h \in Seq(MarketSnapshot), NEW k \in Instruments, <<"last", "UP">> \in PatternsOf(h, k)
  PROVE  LET w == WindowOf(h)
         IN \A i \in 1..Len(w) - 1 :
              /\ k \in Present(w[i]) /\ k \in Present(w[i + 1])
              /\ w[i].rows[k].last < w[i + 1].rows[k].last
<1>1. PICK w \in Seq(MarketSnapshot) : w = WindowOf(h) BY WindowIs
<1>2. PICK d : d = Directions(w, k, "last") OBVIOUS
<1>3. ~(Len(w) < PatternWindow + 1) /\ SequenceState(d) = "UP" BY <1>1, <1>2 DEF PatternsOf
<1>4. PICK size \in Nat : size = Len(w) - 1
  <2>1. Len(w) \in Nat /\ PatternWindow \in Nat BY HistoryAssumption
  <2> QED BY <1>3, <2>1
<1>5. \A i \in 1..size + 1 : w[i] \in MarketSnapshot BY <1>4
<1>6. ASSUME NEW i \in 1..size + 1
      PROVE  /\ w[i].rows[k].last \in Int
             /\ FieldIn(w[i], k, "last") \in Int
             /\ FieldIn(w[i], k, "last") # NA => k \in Present(w[i]) /\ FieldIn(w[i], k, "last") = w[i].rows[k].last
  <2>1. PICK row \in MarketRow : row = w[i].rows[k] BY <1>5 DEF MarketSnapshot
  <2>2. row.last \in Int BY DEF MarketRow, MarketAmount, NA
  <2>3. FieldIn(w[i], k, "last") = IF row.there THEN row.last ELSE NA BY <2>1 DEF FieldIn
  <2>4. NA \in Int BY DEF NA
  <2> QED BY <2>1, <2>2, <2>3, <2>4 DEF Present
<1>7. ASSUME NEW i \in 1..size
      PROVE  /\ Direction(FieldIn(w[i], k, "last"), FieldIn(w[i + 1], k, "last")) \in Int
             /\ Direction(FieldIn(w[i], k, "last"), FieldIn(w[i + 1], k, "last")) = 1 =>
                  /\ FieldIn(w[i], k, "last") # NA /\ FieldIn(w[i + 1], k, "last") # NA
                  /\ FieldIn(w[i], k, "last") < FieldIn(w[i + 1], k, "last")
  <2>1. i \in 1..size + 1 /\ i + 1 \in 1..size + 1 OBVIOUS
  <2>2. PICK x, y \in Int : x = FieldIn(w[i], k, "last") /\ y = FieldIn(w[i + 1], k, "last") BY <1>6, <2>1
  <2>3. Direction(x, y) \in Int /\ (Direction(x, y) = 1 => x # NA /\ y # NA /\ x < y)
    <3>1. CASE x = NA \/ y = NA BY <3>1 DEF Direction, NA
    <3>2. CASE ~(x = NA \/ y = NA) BY <3>2 DEF Direction, Sign
    <3> QED BY <3>1, <3>2
  <2> QED BY <2>2, <2>3
<1>8. PICK all : all = [i \in 1..size |-> Direction(FieldIn(w[i], k, "last"), FieldIn(w[i + 1], k, "last"))] OBVIOUS
<1>9. /\ all \in Seq(Int) /\ Len(all) = size
      /\ \A i \in 1..size : all[i] = Direction(FieldIn(w[i], k, "last"), FieldIn(w[i + 1], k, "last"))
  BY <1>7, <1>8
<1>10. d = all \o <<>> BY <1>2, <1>4, <1>8 DEF Directions
<1>11. d \in Seq(Int) /\ Len(d) = size /\ \A i \in 1..size : d[i] = all[i] BY <1>9, <1>10
<1>12. \A i \in 1..size : all[i] = 1 BY <1>3, <1>11, SequenceIsUp
<1>13. ASSUME NEW i \in 1..size
       PROVE  k \in Present(w[i]) /\ k \in Present(w[i + 1]) /\ w[i].rows[k].last < w[i + 1].rows[k].last
  <2>1. i \in 1..size + 1 /\ i + 1 \in 1..size + 1 OBVIOUS
  <2> QED BY <1>6, <1>7, <1>9, <1>12, <2>1
<1> QED BY <1>1, <1>4, <1>13

-------------------------------------------------------------------------------
\* Numbers in their order.
InOrder(bag) == SortedBy(bag, LAMBDA x : x)

LEMMA InOrderIs ==
  ASSUME NEW bag \in Seq(Int)
  PROVE  /\ InOrder(bag) \in Seq(Int) /\ Len(InOrder(bag)) = Len(bag)
         /\ \A i, j \in 1..Len(bag) : i <= j => InOrder(bag)[i] <= InOrder(bag)[j]
         /\ \A i \in 1..Len(bag) : \E j \in 1..Len(bag) : InOrder(bag)[i] = bag[j]
<1>1. PICK last \in Nat : last = Len(bag) /\ DOMAIN bag = 1..last OBVIOUS
<1>2. [i \in DOMAIN bag |-> bag[i]] \o <<>> = bag
  <2>1. [i \in DOMAIN bag |-> bag[i]] = bag OBVIOUS
  <2>2. bag \o <<>> = bag OBVIOUS
  <2> QED BY <2>1, <2>2
<1>11. PICK keys : keys = [i \in DOMAIN bag |-> bag[i]] \o <<>> OBVIOUS
<1> DEFINE Place(n) == CHOOSE i \in DOMAIN bag :
                     Cardinality({j \in DOMAIN bag : keys[j] < keys[i] \/ (keys[j] = keys[i] /\ j < i)}) = n - 1
<1>3. InOrder(bag) = [n \in DOMAIN bag |-> bag[Place(n)]] \o <<>> BY <1>11 DEF InOrder, SortedBy, Each
<1>4. \A n \in 1..last : NthOf(bag, n) = Place(n) BY <1>2, <1>11 DEF NthOf, Rank
<1>5. \A n \in 1..last : NthOf(bag, n) \in DOMAIN bag BY <1>1, NthIsThere
<1> HIDE DEF Place
<1>6. PICK all : all = [n \in 1..last |-> bag[NthOf(bag, n)]] OBVIOUS
<1>7. all = [n \in DOMAIN bag |-> bag[Place(n)]] BY <1>1, <1>4, <1>6
<1>8. all \in Seq(Int) /\ Len(all) = last /\ \A n \in 1..last : all[n] = bag[NthOf(bag, n)]
  <2>1. \A n \in 1..last : bag[NthOf(bag, n)] \in Int BY <1>1, <1>5
  <2> QED BY <1>6, <2>1
<1>9. InOrder(bag) = all BY <1>3, <1>7, <1>8
<1>10. ASSUME NEW i \in 1..last, NEW j \in 1..last, i <= j PROVE all[i] <= all[j]
  <2>1. CASE i < j
    <3>1. bag[NthOf(bag, i)] <= bag[NthOf(bag, j)] BY <1>1, <2>1, NthRises
    <3> QED BY <1>8, <3>1
  <2>2. CASE i = j
    <3>1. all[i] \in Int BY <1>8
    <3> QED BY <2>2, <3>1
  <2> QED BY <1>10, <2>1, <2>2
<1>12. \A i \in 1..last : NthOf(bag, i) \in 1..last /\ all[i] = bag[NthOf(bag, i)] BY <1>1, <1>5, <1>8
<1> QED BY <1>1, <1>8, <1>9, <1>10, <1>12

\* A point between two values, by the part of the way to the second.
LEMMA PointRises ==
  ASSUME NEW x \in Int, NEW y \in Int, x <= y, NEW r \in 0..99, NEW t \in 0..99
  PROVE  /\ 100 * x + (y - x) * r \in Int
         /\ r <= t => 100 * x + (y - x) * r <= 100 * x + (y - x) * t
         /\ 100 * x <= 100 * x + (y - x) * r
         /\ 100 * x + (y - x) * r <= 100 * y
<1>1. PICK d \in Nat : d = y - x OBVIOUS
<1>2. d * r \in Int /\ d * t \in Int OBVIOUS
<1>3. \A m \in Nat : d * m >= 0 OBVIOUS
<1>4. r <= t => d * r <= d * t
  <2>1. SUFFICES ASSUME r <= t PROVE d * r <= d * t OBVIOUS
  <2>2. PICK m \in Nat : m = t - r BY <2>1
  <2>3. d * m = d * t - d * r BY <2>2
  <2> QED BY <1>2, <1>3, <2>3
<1>5. 0 <= d * r BY <1>3
<1>6. d * r <= 100 * d
  <2>1. PICK m \in Nat : m = 100 - r OBVIOUS
  <2>2. d * m = d * 100 - d * r BY <2>1
  <2>3. d * 100 = 100 * d OBVIOUS
  <2> QED BY <1>2, <1>3, <2>2, <2>3
<1> QED BY <1>1, <1>2, <1>4, <1>5, <1>6

\* A higher percentile of the same numbers is no lower.
LEMMA PercentileRises ==
  ASSUME NEW bag \in Seq(Int), bag # <<>>, NEW p \in 0..100, NEW q \in 0..100, p <= q
  PROVE  PercentileOf(bag, p) \in Int /\ PercentileOf(bag, p) <= PercentileOf(bag, q)
<1>1. PICK n \in Nat : n = Len(bag) /\ n > 0 OBVIOUS
<1>2. PICK v \in Seq(Int) : v = InOrder(bag) /\ Len(v) = n /\ \A i, j \in 1..n : i <= j => v[i] <= v[j]
  BY <1>1, InOrderIs
<1> DEFINE Top(i) == Min({i + 1, n})
           Point(at) == 100 * v[(at \div 100) + 1] + (v[Top((at \div 100) + 1)] - v[(at \div 100) + 1]) * (at % 100)
<1>3. ASSUME NEW i \in 1..n PROVE Top(i) \in 1..n /\ i <= Top(i) /\ \A j \in 1..n : i < j => Top(i) <= j
  <2>1. \E x \in {i + 1, n} : \A y \in {i + 1, n} : x <= y
    <3>1. CASE i + 1 <= n BY <3>1
    <3>2. CASE n < i + 1 BY <3>2
    <3> QED BY <3>1, <3>2
  <2>2. PICK top : top = Min({i + 1, n}) OBVIOUS
  <2>3. top \in {i + 1, n} /\ \A y \in {i + 1, n} : top <= y BY <2>1, <2>2 DEF Min
  <2>4. top \in Int /\ top <= i + 1 /\ top <= n /\ (top = i + 1 \/ top = n) BY <2>3
  <2>5. top \in 1..n /\ i <= top BY <2>4
  <2>6. \A j \in 1..n : i < j => top <= j BY <2>4
  <2> QED BY <2>2, <2>5, <2>6
<1>4. PICK w : w = n - 1 OBVIOUS
<1>5. w \in Nat BY <1>1, <1>4
<1>6. \A x \in 0..100 : w * x \in Nat /\ w * x <= 100 * w
  <2> TAKE x \in 0..100
  <2>1. PICK m \in Nat : m = 100 - x OBVIOUS
  <2>2. w * m >= 0 /\ w * m = w * 100 - w * x BY <1>5, <2>1
  <2>3. w * x >= 0 /\ w * x \in Int BY <1>5
  <2>4. w * 100 = 100 * w BY <1>5
  <2>5. PICK y \in Int : y = w * x BY <2>3
  <2>6. y >= 0 /\ w * m = 100 * w - y BY <2>2, <2>3, <2>4, <2>5
  <2>7. y <= 100 * w BY <1>5, <2>2, <2>6
  <2> QED BY <2>5, <2>6, <2>7
<1>7. w * p <= w * q
  <2>1. PICK m \in Nat : m = q - p OBVIOUS
  <2>2. w * m >= 0 /\ w * m = w * q - w * p BY <1>5, <2>1
  <2>3. w * p \in Int /\ w * q \in Int BY <1>5
  <2> QED BY <2>2, <2>3
<1>8. PICK a, b \in Nat : a = w * p /\ b = w * q BY <1>6
<1>9. a <= b /\ b <= 100 * w /\ a <= 100 * w BY <1>6, <1>7, <1>8
<1>10. PICK i, j \in Nat : i = (a \div 100) + 1 /\ j = (b \div 100) + 1 OBVIOUS
<1>11. PICK r, t \in 0..99 : r = a % 100 /\ t = b % 100
  <2>1. \A x \in Nat : x % 100 \in 0..99 OBVIOUS
  <2> QED BY <2>1
<1>12. a = 100 * (i - 1) + r /\ b = 100 * (j - 1) + t BY <1>10, <1>11
<1>13. i \in 1..n /\ j \in 1..n BY <1>4, <1>5, <1>9, <1>10, <1>12
<1>14. i < j \/ (i = j /\ r <= t) BY <1>9, <1>12
<1>15. PercentileOf(bag, p) = Point(a) BY <1>1, <1>2, <1>4, <1>8 DEF PercentileOf, InOrder
<1>16. PercentileOf(bag, q) = Point(b) BY <1>1, <1>2, <1>4, <1>8 DEF PercentileOf, InOrder
<1>17. PICK k, m \in 1..n : k = Top(i) /\ m = Top(j) /\ i <= k /\ j <= m /\ (i < j => k <= j) BY <1>3, <1>13
<1>18. Point(a) = 100 * v[i] + (v[k] - v[i]) * r BY <1>10, <1>11, <1>17
<1>19. Point(b) = 100 * v[j] + (v[m] - v[j]) * t BY <1>10, <1>11, <1>17
<1> HIDE DEF Point, Top
<1>20. PICK vi, vj, vk, vm \in Int : vi = v[i] /\ vj = v[j] /\ vk = v[k] /\ vm = v[m] BY <1>2, <1>13
<1>21. vi <= vk /\ vj <= vm /\ (i < j => vk <= vj) BY <1>2, <1>13, <1>17, <1>20
<1>22. 100 * vi + (vk - vi) * r \in Int /\ 100 * vi + (vk - vi) * r <= 100 * vk BY <1>21, PointRises
<1>23. 100 * vj + (vm - vj) * t \in Int /\ 100 * vj <= 100 * vj + (vm - vj) * t BY <1>21, PointRises
<1>24. 100 * vi + (vk - vi) * r <= 100 * vj + (vm - vj) * t
  <2>1. CASE i < j
    <3>1. vk <= vj BY <1>21, <2>1
    <3> QED BY <1>22, <1>23, <3>1
  <2>2. CASE i = j /\ r <= t
    <3>1. vi = vj /\ k = m /\ vk = vm BY <1>17, <1>20, <2>2
    <3>2. 100 * vi + (vk - vi) * r <= 100 * vi + (vk - vi) * t BY <1>21, <2>2, PointRises
    <3> QED BY <3>1, <3>2
  <2> QED BY <1>14, <2>1, <2>2
<1> QED BY <1>15, <1>16, <1>18, <1>19, <1>20, <1>22, <1>24

-------------------------------------------------------------------------------
\* The features of an observation are numbers, or unknown.
LEMMA LargerIs ==
  ASSUME NEW x \in Int, NEW y \in Int
  PROVE  Max({x, y}) \in Int
<1>1. \E a \in {x, y} : \A b \in {x, y} : a >= b
  <2>1. CASE x >= y BY <2>1
  <2>2. CASE x < y BY <2>2
  <2> QED BY <2>1, <2>2
<1>2. PICK a : a = Max({x, y}) OBVIOUS
<1>3. a \in {x, y} BY <1>1, <1>2 DEF Max
<1> QED BY <1>2, <1>3

LEMMA RatioIs ==
  ASSUME NEW x \in Int, NEW y \in Nat \cup {NA}
  PROVE  Ratio100(x, y) \in Int
<1>1. NA \in Int BY DEF NA
<1>2. CASE x = NA \/ y = NA \/ y = 0 BY <1>1, <1>2 DEF Ratio100
<1>3. CASE ~(x = NA \/ y = NA \/ y = 0)
  <2>1. y \in Nat /\ y > 0 BY <1>3
  <2>2. (100 * x) \div y \in Int BY <2>1
  <2> QED BY <1>3, <2>2 DEF Ratio100
<1> QED BY <1>2, <1>3

LEMMA FeaturesAre ==
  ASSUME NEW row \in MarketRow, NEW f \in FeatureNames
  PROVE  Features(row)[f] \in Int
<1>1. PICK last, under \in Nat \cup {NA} : last = row.last /\ under = row.under BY DEF MarketRow, MarketAmount
<1>2. PICK volume \in Int : volume = row.volume BY DEF MarketRow, MarketAmount, NA
<1>3. PICK strike \in Nat : strike = row.strike BY DEF MarketRow
<1>4. NA \in Int /\ last \in Int /\ under \in Int BY DEF NA
<1>5. PICK worth \in Int : worth = IntrinsicOf(row)
  <2>1. under - strike \in Int /\ strike - under \in Int BY <1>4
  <2>2. Max({under - strike, 0}) \in Int /\ Max({strike - under, 0}) \in Int BY <2>1, LargerIs
  <2>3. CASE under = NA BY <1>1, <1>4, <2>3 DEF IntrinsicOf
  <2>4. CASE under # NA /\ row.type = "CALL" BY <1>1, <1>3, <2>2, <2>4 DEF IntrinsicOf
  <2>5. CASE under # NA /\ row.type # "CALL" BY <1>1, <1>3, <2>2, <2>5 DEF IntrinsicOf
  <2> QED BY <2>3, <2>4, <2>5
<1>6. Features(row).time_value_ratio \in Int
  <2>1. PICK more \in Int : more = Max({last - worth, 0})
    <3>1. last - worth \in Int BY <1>4
    <3> QED BY <3>1, LargerIs
  <2>2. Ratio100(more, under) \in Int BY RatioIs
  <2>3. Features(row).time_value_ratio = IF last = NA \/ worth = NA THEN NA ELSE Ratio100(more, under)
    BY <1>1, <1>5, <2>1 DEF Features
  <2> QED BY <1>4, <2>2, <2>3
<1>7. Features(row).breakeven_distance \in Int
  <2>1. PICK even \in Int : even = IF row.type = "CALL" THEN strike + last ELSE strike - last
    <3>1. CASE row.type = "CALL" BY <1>4, <3>1
    <3>2. CASE row.type # "CALL" BY <1>4, <3>2
    <3> QED BY <3>1, <3>2
  <2>2. PICK away \in Int : away = Size(even - under)
    <3>1. PICK x \in Int : x = even - under BY <1>4
    <3>2. Size(x) \in Int BY DEF Size
    <3> QED BY <3>1, <3>2
  <2>3. Ratio100(away, under) \in Int BY RatioIs
  <2>4. Features(row).breakeven_distance = IF last = NA \/ under = NA THEN NA ELSE Ratio100(away, under)
    BY <1>1, <1>3, <2>1, <2>2 DEF Features
  <2> QED BY <1>4, <2>3, <2>4
<1>8. Features(row).leverage \in Int
  <2>1. Ratio100(under, last) \in Int BY <1>4, RatioIs
  <2>2. Features(row).leverage = IF last = NA \/ last <= 0 THEN NA ELSE Ratio100(under, last) BY <1>1 DEF Features
  <2> QED BY <1>4, <2>1, <2>2
<1>9. Features(row).volume \in Int BY <1>2 DEF Features
<1> QED BY <1>6, <1>7, <1>8, <1>9 DEF FeatureNames

LEMMA ObservedIs ==
  ASSUME NEW h \in Seq(MarketSnapshot), NEW o \in Observations(h), NEW f \in FeatureNames
  PROVE  o.features[f] \in Int
<1>1. PICK s \in Seq(MarketSnapshot) : s = BySha(h) BY ByShaIs
<1>2. PICK i \in 1..Len(s) - 1 : \E k \in InBoth(s[i], s[i + 1]) : o = ObservationOf(s, i, k) BY <1>1, ObservationIs
<1>3. PICK k \in InBoth(s[i], s[i + 1]) : o = ObservationOf(s, i, k) BY <1>2
<1>4. k \in Instruments BY DEF InBoth, Present
<1>5. s[i] \in MarketSnapshot
  <2>1. i \in 1..Len(s) OBVIOUS
  <2> QED BY <1>1, <2>1
<1>6. s[i].rows[k] \in MarketRow BY <1>4, <1>5 DEF MarketSnapshot
<1>7. o.features = Features(s[i].rows[k]) BY <1>3 DEF ObservationOf
<1> QED BY <1>6, <1>7, FeaturesAre

\* The images of finitely many are finitely many, and those can be told one after the other.
LEMMA ImagesEnd ==
  ASSUME NEW K, IsFiniteSet(K), NEW g
  PROVE  IsFiniteSet({g[k] : k \in K})
<1>1. PICK f : f = [k \in K |-> g[k]] OBVIOUS
<1>2. PICK all : all = {g[k] : k \in K} OBVIOUS
<1>3. \A k \in K : f[k] = g[k] /\ f[k] \in all BY <1>1, <1>2
<1>4. f \in [K -> all] BY <1>1, <1>3
<1>5. \A t \in all : \E k \in K : f[k] = t BY <1>2, <1>3
<1>6. f \in Surjection(K, all) BY <1>4, <1>5 DEF Surjection
<1> QED BY <1>2, <1>6, FS_Surjection

LEMMA SetAsSeq ==
  ASSUME NEW K, IsFiniteSet(K)
  PROVE  /\ SetToSeq(K) \in Seq(K) /\ Len(SetToSeq(K)) = Cardinality(K)
         /\ \A k \in K : \E i \in 1..Cardinality(K) : SetToSeq(K)[i] = k
<1>1. PICK n \in Nat : n = Cardinality(K) BY FS_CardinalityType
<1>2. ExistsBijection(1..n, K) BY <1>1, FS_CardinalityType
<1>3. PICK g \in Bijection(1..n, K) : TRUE BY <1>2 DEF ExistsBijection
<1>4. g \in [1..n -> K] /\ IsInjective(g) BY <1>3 DEF Bijection, Injection, IsInjective
<1>5. PICK t : t = SetToSeq(K) OBVIOUS
<1>6. t = CHOOSE x \in [1..n -> K] : IsInjective(x) BY <1>1, <1>5 DEF SetToSeq
<1>7. t \in [1..n -> K] /\ IsInjective(t)
  <2>1. PICK F : F = [1..n -> K] OBVIOUS
  <2> QED BY <1>4, <1>6, <2>1
<1>8. \A i \in 1..n : t[i] \in K BY <1>7
<1>9. t = [i \in 1..n |-> t[i]] BY <1>7
<1>10. [i \in 1..n |-> t[i]] \in Seq(K) /\ Len([i \in 1..n |-> t[i]]) = n BY <1>8
<1>11. PICK N : N = 1..n OBVIOUS
<1>12. t \in Injection(N, K) BY <1>7, <1>11 DEF Injection
<1>13. Cardinality(N) = n
  <2>1. PICK one, many \in Int : one = 1 /\ many = n OBVIOUS
  <2>2. Cardinality(one..many) = IF one > many THEN 0 ELSE many - one + 1 BY FS_Interval
  <2>3. (IF one > many THEN 0 ELSE many - one + 1) = n BY <2>1
  <2> QED BY <1>11, <2>1, <2>2, <2>3
<1>14. t \in Surjection(N, K) BY <1>1, <1>12, <1>13, FS_Injection
<1>15. \A k \in K : \E i \in N : t[i] = k BY <1>14 DEF Surjection
<1> QED BY <1>1, <1>5, <1>9, <1>10, <1>11, <1>15

\* An archive has finitely many observations.
LEMMA ObservationsEnd ==
  ASSUME NEW h \in Seq(MarketSnapshot)
  PROVE  IsFiniteSet(Observations(h))
<1>1. PICK s \in Seq(MarketSnapshot) : s = BySha(h) BY ByShaIs
<1>2. PICK last \in Nat : last = Len(s) OBVIOUS
<1>3. PICK I : I = 1..last - 1 OBVIOUS
<1>4. PICK P : P = I \X Instruments OBVIOUS
<1>5. IsFiniteSet(P)
  <2>1. IsFiniteSet(I)
    <3>1. PICK one, many \in Int : one = 1 /\ many = last - 1 OBVIOUS
    <3>2. IsFiniteSet(one..many) BY FS_Interval
    <3> QED BY <1>3, <3>1, <3>2
  <2> QED BY <1>4, <2>1, HistoryAssumption, FS_Product
<1>6. PICK f : f = [p \in P |-> ObservationOf(s, p[1], p[2])] OBVIOUS
<1>7. PICK all : all = {f[p] : p \in P} OBVIOUS
<1>9. IsFiniteSet(all) BY <1>5, <1>7, ImagesEnd
<1>10. ASSUME NEW o \in Observations(h) PROVE o \in all
  <2>1. PICK i \in I : \E k \in InBoth(s[i], s[i + 1]) : o = ObservationOf(s, i, k) BY <1>1, <1>2, <1>3, ObservationIs
  <2>2. PICK k \in InBoth(s[i], s[i + 1]) : o = ObservationOf(s, i, k) BY <2>1
  <2>3. k \in Instruments BY DEF InBoth, Present
  <2>4. PICK p : p = <<i, k>> OBVIOUS
  <2>5. p \in P /\ p[1] = i /\ p[2] = k BY <1>4, <2>3, <2>4
  <2>6. f[p] = o BY <1>6, <2>2, <2>5
  <2> QED BY <1>7, <2>5, <2>6
<1>11. Observations(h) \in SUBSET all BY <1>10
<1> QED BY <1>9, <1>11, FS_Subset

\* The values of a feature are numbers.
LEMMA ValuesAre ==
  ASSUME NEW h \in Seq(MarketSnapshot), NEW f \in FeatureNames
  PROVE  FeatureValues(Observations(h), f) \in Seq(Int)
<1>1. PICK obs : obs = Observations(h) OBVIOUS
<1>2. IsFiniteSet(obs) BY <1>1, ObservationsEnd
<1>3. PICK t \in Seq(obs) : t = SetToSeq(obs) BY <1>2, SetAsSeq
<1>4. PICK n \in Nat : n = Len(t) /\ DOMAIN t = 1..n OBVIOUS
<1>5. \A i \in 1..n : t[i] \in obs BY <1>4
<1>10. \A i \in 1..n : t[i].features[f] \in Int BY <1>1, <1>5, ObservedIs
<1>11. PICK all : all = [i \in 1..n |-> t[i].features[f]] OBVIOUS
<1>12. all \in Seq(Int) BY <1>10, <1>11
<1>13. all \o <<>> \in Seq(Int) BY <1>12
<1>14. Each(t, LAMBDA o : o.features[f]) = all \o <<>> BY <1>4, <1>11 DEF Each
<1>15. KnownOf(all \o <<>>) \in Seq(Int) BY <1>13, KnownIs
<1>16. FeatureValues(obs, f) = KnownOf(all \o <<>>) BY <1>3, <1>14 DEF FeatureValues
<1> QED BY <1>1, <1>15, <1>16

\* What is below a lower threshold is below a higher one.
LEMMA RulesNest ==
  ASSUME NEW h \in Seq(MarketSnapshot), NEW f \in FeatureNames, FeatureValues(Observations(h), f) # <<>>
  PROVE  LET obs == Observations(h)
         IN /\ RuleRows(obs, f, 25, "LE") \subseteq RuleRows(obs, f, 50, "LE")
            /\ RuleRows(obs, f, 75, "GE") \subseteq RuleRows(obs, f, 50, "GE")
            /\ RuleRows(obs, f, 50, "LE") \cup RuleRows(obs, f, 50, "GE") = Returned(obs, f)
<1>1. PICK obs : obs = Observations(h) OBVIOUS
<1>2. PICK bag \in Seq(Int) : bag = FeatureValues(obs, f) BY <1>1, ValuesAre
<1>3. bag # <<>> BY <1>1, <1>2
<1>4. PICK low, mid, high \in 0..100 : low = 25 /\ mid = 50 /\ high = 75 OBVIOUS
<1>5. low <= mid /\ mid <= high /\ high <= high BY <1>4
<1>6. PICK x, y, z \in Int : x = Threshold(obs, f, low) /\ y = Threshold(obs, f, mid) /\ z = Threshold(obs, f, high)
  BY <1>2, <1>3, <1>5, PercentileRises DEF Threshold
<1>7. x <= y BY <1>2, <1>3, <1>5, <1>6, PercentileRises DEF Threshold
<1>8. y <= z BY <1>2, <1>3, <1>5, <1>6, PercentileRises DEF Threshold
<1>9. PICK all : all = Returned(obs, f) OBVIOUS
<1>10. \A o \in all : o.features[f] \in Int BY <1>1, <1>9, ObservedIs DEF Returned
<1>11. RuleRows(obs, f, 25, "LE") = {o \in all : 100 * o.features[f] <= x} BY <1>4, <1>6, <1>9 DEF RuleRows
<1>12. RuleRows(obs, f, 50, "LE") = {o \in all : 100 * o.features[f] <= y} BY <1>4, <1>6, <1>9 DEF RuleRows
<1>13. RuleRows(obs, f, 50, "GE") = {o \in all : 100 * o.features[f] >= y} BY <1>4, <1>6, <1>9 DEF RuleRows
<1>14. RuleRows(obs, f, 75, "GE") = {o \in all : 100 * o.features[f] >= z} BY <1>4, <1>6, <1>9 DEF RuleRows
<1>15. RuleRows(obs, f, 25, "LE") \subseteq RuleRows(obs, f, 50, "LE")
  <2>1. \A o \in all : 100 * o.features[f] <= x => 100 * o.features[f] <= y BY <1>7, <1>10
  <2> QED BY <1>11, <1>12, <2>1
<1>16. RuleRows(obs, f, 75, "GE") \subseteq RuleRows(obs, f, 50, "GE")
  <2>1. \A o \in all : 100 * o.features[f] >= z => 100 * o.features[f] >= y BY <1>8, <1>10
  <2> QED BY <1>13, <1>14, <2>1
<1>17. RuleRows(obs, f, 50, "LE") \cup RuleRows(obs, f, 50, "GE") = all
  <2>1. \A o \in all : 100 * o.features[f] <= y \/ 100 * o.features[f] >= y BY <1>10
  <2> QED BY <1>12, <1>13, <2>1
<1> QED BY <1>1, <1>9, <1>15, <1>16, <1>17

-------------------------------------------------------------------------------
\* Whatever archives are read, the engines that look back (behaviour, forward report,
\* outcomes, replay, patterns and differences of the archived snapshots) tell of nothing from
\* before its entry, what is told of a shorter history is told of the longer one, and where
\* each archive has a time of its own the changes they tell of are those of the same two
\* snapshots.
THEOREM HistoryStaysOne == HistorySpec => []HistoryIsOne
<1>1. CasesInit => HistoryIsOne
  <2> SUFFICES ASSUME CasesInit PROVE HistoryIsOne OBVIOUS
  <2>1. case.engine # "history" BY DEF CasesInit, NoCase
  <2>2. NoLookAhead /\ OneHistoryForAll BY <2>1 DEF NoLookAhead, OneHistoryForAll, OfHistory
  <2>3. ListingIsNoBehaviour BY <2>1 DEF ListingIsNoBehaviour, OfHistory
  <2>4. RulesAreNested /\ SequenceIsWhole /\ DifferenceIsMutual
    BY <2>1 DEF RulesAreNested, SequenceIsWhole, DifferenceIsMutual, OfHistory
  <2> QED BY <2>2, <2>3, <2>4 DEF HistoryIsOne
<1>2. HistoryIsOne /\ UNCHANGED case => HistoryIsOne'
  <2>1. UNCHANGED case /\ NoLookAhead => NoLookAhead' BY DEF NoLookAhead, OfHistory
  <2>2. UNCHANGED case /\ OneHistoryForAll => OneHistoryForAll' BY DEF OneHistoryForAll, OfHistory
  <2>3. UNCHANGED case /\ ListingIsNoBehaviour => ListingIsNoBehaviour' BY DEF ListingIsNoBehaviour, OfHistory
  <2>4. UNCHANGED case /\ RulesAreNested => RulesAreNested' BY DEF RulesAreNested, OfHistory
  <2>5. UNCHANGED case /\ SequenceIsWhole => SequenceIsWhole' BY DEF SequenceIsWhole, OfHistory
  <2>6. UNCHANGED case /\ DifferenceIsMutual => DifferenceIsMutual' BY DEF DifferenceIsMutual, OfHistory
  <2> QED BY <2>1, <2>2, <2>3, <2>4, <2>5, <2>6 DEF HistoryIsOne
<1>3. HistoryCalled => HistoryIsOne'
  <2> SUFFICES ASSUME HistoryCalled PROVE HistoryIsOne' OBVIOUS
  <2>1. PICK called : called = case' OBVIOUS
  <2>2. PICK h \in MarketHistories : called = [engine |-> "history", in |-> h] BY <2>1 DEF HistoryCalled, Given
  <2>3. case'.in = h BY <2>1, <2>2
  <2>4. h \in Seq(MarketSnapshot) BY HistoryAssumption
  <2>5. NoLookAhead'
    <3>1. \A o \in ForwardReport(h) : o.seen # NA => o.forward > o.seen BY ForwardIsLater
    <3>2. LET s == ByRetrieval(h) IN Len(s) > 3 => ForwardReport(SubSeq(s, 1, Len(s) - 1)) \subseteq ForwardReport(h)
      BY <2>4, ForwardStays
    <3> QED BY <2>3, <3>1, <3>2 DEF NoLookAhead, OfHistory
  <2>6. OneHistoryForAll' BY <2>3, <2>4, BehaviourIsOutcome, ReplayIsOutcome DEF OneHistoryForAll, OfHistory
  <2>7. ListingIsNoBehaviour'
    <3>1. PICK s \in Seq(MarketSnapshot) : s = ByRetrieval(h) BY <2>4, ByRetrievalIs
    <3>2. ASSUME NEW i \in 1..Len(s) - 1, NEW k \in InBoth(s[i], s[i + 1])
          PROVE  LET begin == s[i].rows[k].begin
                     flags == Flags(s[i].rows[k], s[i + 1].rows[k])
                     flagged == [instrument |-> k, flags |-> flags] \in PairEvents(s[i], s[i + 1])
                 IN /\ begin.calendar = "gregorian" /\ begin.day = DayOf(s[i]) => ~flagged
                    /\ begin.calendar = "jalali" /\ flags # {} => flagged
      <4>1. PICK a \in MarketSnapshot : a = s[i]
        <5>1. i \in 1..Len(s) OBVIOUS
        <5> QED BY <5>1
      <4>2. PICK b : b = s[i + 1] OBVIOUS
      <4>3. PICK begin : begin = a.rows[k].begin OBVIOUS
      <4>4. PICK flags : flags = Flags(a.rows[k], b.rows[k]) OBVIOUS
      <4>5. k \in InBoth(a, b) BY <4>1, <4>2
      <4>6. /\ begin.calendar = "gregorian" /\ begin.day = DayOf(a)
                 => [instrument |-> k, flags |-> flags] \notin PairEvents(a, b)
            /\ begin.calendar = "jalali" /\ flags # {}
                 => [instrument |-> k, flags |-> flags] \in PairEvents(a, b)
        BY <4>3, <4>4, <4>5, NotOfListing
      <4> QED BY <4>1, <4>2, <4>3, <4>4, <4>6
    <3> QED BY <2>3, <3>1, <3>2 DEF ListingIsNoBehaviour, OfHistory
  <2>8. RulesAreNested' BY <2>3, <2>4, RulesNest DEF RulesAreNested, OfHistory
  <2>9. SequenceIsWhole' BY <2>3, <2>4, RisesThroughout DEF SequenceIsWhole, OfHistory
  <2>10. DifferenceIsMutual'
    <3>1. ASSUME Len(h) >= 2 PROVE Difference(h[2], h[1]) = {<<d[1], OtherWay(d[2])>> : d \in Difference(h[1], h[2])}
      <4>1. h[1] \in MarketSnapshot /\ h[2] \in MarketSnapshot BY <2>4, <3>1
      <4> QED BY <4>1, DifferenceTurned
    <3> QED BY <2>3, <3>1 DEF DifferenceIsMutual, OfHistory, OtherWay
  <2> QED BY <2>5, <2>6, <2>7, <2>8, <2>9, <2>10 DEF HistoryIsOne
<1> QED BY <1>1, <1>2, <1>3, PTL DEF HistorySpec

-------------------------------------------------------------------------------
\* What is in a sequence, and in a sequence of sequences put end to end.
In(e, s) == \E i \in 1..Len(s) : s[i] = e

LEMMA JoinedHolds ==
  ASSUME NEW S, NEW s \in Seq(S), NEW t \in Seq(S), NEW e
  PROVE  In(e, s \o t) <=> In(e, s) \/ In(e, t)
<1>1. PICK m, n \in Nat : m = Len(s) /\ n = Len(t) OBVIOUS
<1>0. s \o t \in Seq(S) OBVIOUS
<1>2. PICK u \in Seq(S) : u = s \o t BY <1>0
<1>3. Len(u) = m + n /\ (\A i \in 1..m : u[i] = s[i]) /\ \A i \in 1..n : u[m + i] = t[i] BY <1>1, <1>2
<1>4. ASSUME In(e, s) PROVE In(e, u)
  <2>1. PICK i \in 1..m : s[i] = e BY <1>1, <1>4 DEF In
  <2>2. i \in 1..m + n /\ u[i] = e BY <1>3, <2>1
  <2> QED BY <1>3, <2>2 DEF In
<1>5. ASSUME In(e, t) PROVE In(e, u)
  <2>1. PICK i \in 1..n : t[i] = e BY <1>1, <1>5 DEF In
  <2>2. m + i \in 1..m + n /\ u[m + i] = e BY <1>3, <2>1
  <2> QED BY <1>3, <2>2 DEF In
<1>6. ASSUME In(e, u) PROVE In(e, s) \/ In(e, t)
  <2>1. PICK i \in 1..m + n : u[i] = e BY <1>3, <1>6 DEF In
  <2>2. CASE i \in 1..m
    <3>1. s[i] = e BY <1>3, <2>1, <2>2
    <3> QED BY <1>1, <2>2, <3>1 DEF In
  <2>3. CASE i > m
    <3>1. PICK k \in 1..n : i = m + k
      <4>1. i - m \in 1..n /\ i = m + (i - m) BY <1>1, <2>3
      <4> QED BY <4>1
    <3>2. t[k] = e BY <1>3, <2>1, <3>1
    <3> QED BY <1>1, <3>1, <3>2 DEF In
  <2> QED BY <1>1, <2>1, <2>2, <2>3
<1> QED BY <1>2, <1>4, <1>5, <1>6

LEMMA FlatHolds ==
  ASSUME NEW S, NEW seqs \in Seq(Seq(S))
  PROVE  /\ FlattenSeq(seqs) \in Seq(S)
         /\ \A e : In(e, FlattenSeq(seqs)) <=> \E i \in 1..Len(seqs) : In(e, seqs[i])
<1> DEFINE Turn(f, n) == [i \in 1..n |-> IF i = 1 THEN seqs[i] ELSE f[i - 1] \o seqs[i]]
<1>1. PICK last \in Nat : last = Len(seqs) OBVIOUS
<1>2. PICK T : T = Seq(S) OBVIOUS
<1>3. \A n \in 1..last : seqs[n] \in T BY <1>1, <1>2
<1>4. CASE last = 0
  <2>1. FlattenSeq(seqs) = seqs BY <1>1, <1>4 DEF FlattenSeq
  <2>2. seqs = <<>>
    <3>1. \A x \in Seq(T) : Len(x) = 0 => x = <<>> OBVIOUS
    <3> QED BY <1>1, <1>2, <1>4, <3>1
  <2>3. <<>> \in Seq(S) /\ Len(<<>>) = 0 OBVIOUS
  <2>4. \A e : ~In(e, <<>>) BY <2>3 DEF In
  <2> QED BY <1>1, <1>4, <2>1, <2>2, <2>3, <2>4
<1>5. CASE last > 0
  <2>1. PICK step : step = [n \in 1..last |-> [y \in T |-> y \o seqs[n]]] OBVIOUS
  <2>2. \A n \in 1..last, y \in T : step[n][y] = y \o seqs[n] BY <2>1
  <2>3. \A x, y \in T : x \o y \in T BY <1>2
  <2>4. StaysIn(T, step, last) BY <1>3, <2>2, <2>3 DEF StaysIn
  <2>5. <<>> \in T /\ \A y \in T : <<>> \o y = y BY <1>2
  <2>6. PICK f \in [0..last -> T] : Computes(f, <<>>, step, last) BY <2>4, <2>5, Folded
  <2>7. \A n \in 1..last : f[n] = f[n - 1] \o seqs[n]
    <3> TAKE n \in 1..last
    <3>1. n - 1 \in 0..last /\ f[n - 1] \in T OBVIOUS
    <3> QED BY <2>2, <2>6, <3>1 DEF Computes
  <2>8. PICK g : g = [i \in 1..last |-> f[i]] OBVIOUS
  <2>9. g = Turn(g, last)
    <3>1. \A i \in 1..last : i # 1 => i - 1 \in 1..last OBVIOUS
    <3>2. \A i \in 1..last : g[i] = f[i] BY <2>8
    <3>3. f[0] = <<>> BY <2>6 DEF Computes
    <3>4. \A i \in 1..last : i = 1 => g[i] = seqs[i]
      <4> TAKE i \in 1..last
      <4> HAVE i = 1
      <4>1. f[1] = <<>> \o seqs[1] BY <1>5, <2>7, <3>3
      <4> QED BY <1>3, <1>5, <2>5, <3>2, <4>1
    <3>5. \A i \in 1..last : i # 1 => g[i] = g[i - 1] \o seqs[i] BY <2>7, <3>1, <3>2
    <3>6. \A i \in 1..last : g[i] = IF i = 1 THEN seqs[i] ELSE g[i - 1] \o seqs[i] BY <3>4, <3>5
    <3>7. g = [i \in 1..last |-> g[i]] BY <2>8
    <3> QED BY <3>6, <3>7
  <2>10. PICK u : u = (CHOOSE h : h = Turn(h, last)) OBVIOUS
  <2>11. u = Turn(u, last) BY <2>9, <2>10
  <2>12. FlattenSeq(seqs) = u[last] BY <1>1, <1>5, <2>10 DEF FlattenSeq
  <2>13. \A n \in 1..last : u[n] = IF n = 1 THEN seqs[n] ELSE u[n - 1] \o seqs[n] BY <2>11
  <2> DEFINE Good(n) == u[n] \in T /\ \A e : In(e, u[n]) <=> \E i \in 1..n : In(e, seqs[i])
             Lost == {n \in 1..last : ~Good(n)}
  <2>14. Good(1)
    <3>1. u[1] = seqs[1] BY <1>5, <2>13
    <3>2. \A i \in 1..1 : i = 1 OBVIOUS
    <3> QED BY <1>3, <1>5, <3>1, <3>2
  <2>15. ASSUME NEW n \in 1..last, n # 1, Good(n - 1) PROVE Good(n)
    <3>1. PICK before \in Seq(S) : before = u[n - 1] BY <1>2, <2>15
    <3>2. PICK more \in Seq(S) : more = seqs[n] BY <1>2, <1>3
    <3>3. u[n] = before \o more BY <2>13, <2>15, <3>1, <3>2
    <3>4. \A e : In(e, u[n]) <=> In(e, before) \/ In(e, more) BY <3>3, JoinedHolds
    <3>5. \A e : In(e, before) <=> \E i \in 1..n - 1 : In(e, seqs[i]) BY <2>15, <3>1
    <3>6. \A i : i \in 1..n <=> i \in 1..n - 1 \/ i = n BY <2>15
    <3>7. before \o more \in Seq(S) OBVIOUS
    <3> QED BY <1>2, <3>2, <3>3, <3>4, <3>5, <3>6, <3>7
  <2>16. Lost = {}
    <3> SUFFICES ASSUME Lost # {} PROVE FALSE OBVIOUS
    <3>1. Lost \in SUBSET Nat OBVIOUS
    <3>2. \A n \in Lost : n \in 1..last /\ ~Good(n) OBVIOUS
    <3>3. \A n \in 1..last : n \notin Lost => Good(n) OBVIOUS
    <3> HIDE DEF Lost, Good
    <3>4. PICK n \in Lost : \A m \in Lost : n <= m BY <3>1, Smallest
    <3>5. n \in 1..last /\ n # 1 BY <2>14, <3>2
    <3>6. n - 1 \in 1..last /\ ~(n <= n - 1) BY <3>5
    <3>7. Good(n - 1) BY <3>3, <3>4, <3>6
    <3> QED BY <2>15, <3>2, <3>5, <3>7
  <2>17. Good(last)
    <3>1. last \in 1..last BY <1>5
    <3> HIDE DEF Good
    <3> QED BY <2>16, <3>1
  <2> QED BY <1>1, <1>2, <2>12, <2>17
<1> QED BY <1>1, <1>4, <1>5

\* Each element of a sequence is given a sequence, and these make one sequence.
GivesSeqs(K, g, S) == \A k \in K : g[k] \in Seq(S)
FlatOf(s, g, x) == \A e : In(e, x) <=> \E i \in 1..Len(s) : In(e, g[s[i]])

LEMMA EachFlatHolds ==
  ASSUME NEW S, NEW K, NEW s \in Seq(K), NEW g, GivesSeqs(K, g, S),
         NEW t, t = [i \in DOMAIN s |-> g[s[i]]] \o <<>>
  PROVE  FlattenSeq(t) \in Seq(S) /\ FlatOf(s, g, FlattenSeq(t))
<1>1. PICK n \in Nat : n = Len(s) /\ DOMAIN s = 1..n OBVIOUS
<1>2. PICK T : T = Seq(S) OBVIOUS
<1>3. \A i \in 1..n : g[s[i]] \in T BY <1>1, <1>2 DEF GivesSeqs
<1>4. PICK u : u = [i \in 1..n |-> g[s[i]]] OBVIOUS
<1>5. u \in Seq(T) /\ Len(u) = n /\ \A i \in 1..n : u[i] = g[s[i]] BY <1>3, <1>4
<1>6. t = u BY <1>1, <1>4, <1>5
<1>7. FlattenSeq(t) \in Seq(S) /\ \A e : In(e, FlattenSeq(t)) <=> \E i \in 1..Len(t) : In(e, t[i])
  BY <1>2, <1>5, <1>6, FlatHolds
<1>8. \A e : In(e, FlattenSeq(t)) <=> \E i \in 1..n : In(e, g[s[i]]) BY <1>5, <1>6, <1>7
<1> QED BY <1>1, <1>7, <1>8 DEF FlatOf

\* The largest of some places.
LEMMA LargestIs ==
  ASSUME NEW n \in Nat, NEW T \in SUBSET (1..n), T # {}
  PROVE  Max(T) \in T /\ \A x \in T : x <= Max(T)
<1>1. PICK U : U = {n - x : x \in T} OBVIOUS
<1>2. U \in SUBSET Nat
  <2>1. \A x \in T : n - x \in Nat OBVIOUS
  <2> QED BY <1>1, <2>1
<1>3. U # {} BY <1>1
<1>4. PICK y \in U : \A z \in U : y <= z BY <1>2, <1>3, Smallest
<1>5. PICK x \in T : y = n - x BY <1>1
<1>6. ASSUME NEW w \in T PROVE x >= w
  <2>1. n - w \in U BY <1>1
  <2>2. n - x <= n - w BY <1>4, <1>5, <2>1
  <2>3. x \in 1..n /\ w \in 1..n OBVIOUS
  <2> QED BY <2>2, <2>3
<1>7. PICK top : top = Max(T) OBVIOUS
<1>8. top \in T /\ \A w \in T : top >= w BY <1>6, <1>7 DEF Max
<1>9. \A w \in T : w \in Int OBVIOUS
<1> QED BY <1>7, <1>8, <1>9

-------------------------------------------------------------------------------
\* The cases of a contract.
ContextCase(r) ==
  ShadowCase("BASE_BREAKEVEN_CONTEXT", CaseSymbol(r), "WATCH",
    {<<"underlying_last_price", r.ulast>>, <<"breakeven_distance_pct", r.distance>>}, 0)
CasesOfOne(r) == {RelativeValueCase(r), ContextCase(r), BreakevenCase(r), LiquidityCase(r), RiskCase(r)}
PairTypes == {"CALL_PUT_STRUCTURE_AVAILABLE", "RELATIVE_PAIR_STRUCTURE"}

\* What is missing of a case whose data is insufficient is told.
Gapped(c) == c.status = "INSUFFICIENT_DATA" => c.evidence.missing # {}

LEMMA OneHolds ==
  ASSUME NEW a, NEW e
  PROVE  In(e, <<a>>) <=> e = a
<1>1. Len(<<a>>) = 1 /\ <<a>>[1] = a OBVIOUS
<1>2. \A i \in 1..1 : i = 1 OBVIOUS
<1> QED BY <1>1, <1>2 DEF In

LEMMA ContractCasesAre ==
  ASSUME NEW S, NEW r, CasesOfOne(r) \subseteq S
  PROVE  /\ ContractCases(r) \in Seq(S)
         /\ \A e : In(e, ContractCases(r)) => r.name # "" /\ e \in CasesOfOne(r)
         /\ r.name # "" => In(RiskCase(r), ContractCases(r))
<1>1. PICK a, b, c, d, x \in S :
        a = RelativeValueCase(r) /\ b = BreakevenCase(r) /\ c = LiquidityCase(r) /\ d = RiskCase(r) /\ x = ContextCase(r)
  BY DEF CasesOfOne
<1>2. \A e : ~In(e, <<>>) /\ <<>> \in Seq(S)
  <2>1. Len(<<>>) = 0 /\ <<>> \in Seq(S) OBVIOUS
  <2> QED BY <2>1 DEF In
<1>3. PICK context \in Seq(S) : context = ContextCases(r) /\ \A e : In(e, context) => e = x
  <2>1. ContextCases(r) = <<x>> \/ ContextCases(r) = <<>> BY <1>1 DEF ContextCases, ContextCase
  <2>2. <<x>> \in Seq(S) OBVIOUS
  <2> QED BY <1>2, <2>1, <2>2, OneHolds
<1>4. CASE r.name = ""
  <2>1. ContractCases(r) = <<>> BY <1>4 DEF ContractCases
  <2> QED BY <1>2, <1>4, <2>1
<1>5. CASE r.name # ""
  <2>1. ContractCases(r) = <<a>> \o context \o <<b, c, d>> BY <1>1, <1>3, <1>5 DEF ContractCases
  <2>2. PICK front, back \in Seq(S) : front = <<a>> /\ back = <<b, c, d>>
    <3>1. <<a>> \in Seq(S) /\ <<b, c, d>> \in Seq(S) OBVIOUS
    <3> QED BY <3>1
  <2>3. PICK begin \in Seq(S) : begin = front \o context
    <3>1. front \o context \in Seq(S) OBVIOUS
    <3> QED BY <3>1
  <2>4. ContractCases(r) = begin \o back BY <2>1, <2>2, <2>3
  <2>5. begin \o back \in Seq(S) OBVIOUS
  <2>6. \A e : In(e, begin \o back) <=> In(e, front) \/ In(e, context) \/ In(e, back) BY <2>3, JoinedHolds
  <2>7. \A e : In(e, front) => e = a BY <2>2, OneHolds
  <2>8. Len(back) = 3 /\ back[1] = b /\ back[2] = c /\ back[3] = d BY <2>2
  <2>9. \A i \in 1..3 : i = 1 \/ i = 2 \/ i = 3 OBVIOUS
  <2>10. \A e : In(e, back) => e = b \/ e = c \/ e = d BY <2>8, <2>9 DEF In
  <2>11. In(d, back)
    <3>1. 3 \in 1..3 OBVIOUS
    <3> QED BY <2>8, <3>1 DEF In
  <2>12. In(d, begin \o back) BY <2>6, <2>11
  <2>13. \A e : In(e, begin \o back) => e = a \/ e = b \/ e = c \/ e = d \/ e = x BY <1>3, <2>6, <2>7, <2>10
  <2>14. \A e : In(e, begin \o back) => e \in CasesOfOne(r) BY <1>1, <2>13 DEF CasesOfOne
  <2> QED BY <1>1, <1>5, <2>4, <2>5, <2>12, <2>14
<1> QED BY <1>4, <1>5

LEMMA MissingIs ==
  ASSUME NEW S, NEW name, <<name, NA>> \in S
  PROVE  EvidenceSplit(S).missing # {}
<1>1. PICK e \in S : e = <<name, NA>> OBVIOUS
<1>2. ~Known(e[2]) BY <1>1 DEF Known
<1>3. e[1] \in {x[1] : x \in {y \in S : ~Known(y[2])}} BY <1>2
<1>4. EvidenceSplit(S).missing = {x[1] : x \in {y \in S : ~Known(y[2])}} BY DEF EvidenceSplit
<1> QED BY <1>3, <1>4

\* A case whose status is set is the same case otherwise.
Settable(c) ==
  \A status : LET b == [c EXCEPT !.status = status]
              IN /\ b.type = c.type /\ b.symbol = c.symbol /\ b.evidence = c.evidence /\ b.key = c.key
                 /\ b.status = status

LEMMA CaseFields ==
  ASSUME NEW type, NEW symbol, NEW status, NEW evidence, NEW key
  PROVE  LET c == ShadowCase(type, symbol, status, evidence, key)
         IN /\ c.type = type /\ c.symbol = symbol /\ c.status = status /\ c.evidence = EvidenceSplit(evidence)
            /\ c.key = key /\ Settable(c)
BY DEF ShadowCase, Settable

LEMMA GradedIs ==
  ASSUME NEW a, NEW b
  PROVE  Graded(a, b) # "INSUFFICIENT_DATA"
BY DEF Graded

LEMMA OneContract ==
  ASSUME NEW r, NEW c \in CasesOfOne(r)
  PROVE  c.symbol = CaseSymbol(r) /\ c.type \notin PairTypes /\ Gapped(c) /\ Settable(c)
<1>1. CASE c = RelativeValueCase(r)
  <2>1. PICK S : S = {<<"black_scholes_difference_score", r.valuation>>}
      \cup (IF r.valuation = NA THEN {} ELSE {<<"raw_black_scholes_difference", r.diff>>})
      \cup (IF r.valuation # NA /\ r.liquidity # NA THEN {<<"liquidity_block_score", r.liquidity>>} ELSE {})
    OBVIOUS
  <2>2. <<"black_scholes_difference_score", r.valuation>> \in S BY <2>1
  <2>3. PICK status : status = IF r.valuation = NA THEN "INSUFFICIENT_DATA"
    ELSE Graded(r.valuation >= 85 /\ Confident(r) /\ LiquidEnough(r), r.valuation >= 85) OBVIOUS
  <2>4. c = ShadowCase("RELATIVE_VALUE_ANOMALY", CaseSymbol(r), status, S, 0) BY <1>1, <2>1, <2>3 DEF RelativeValueCase
  <2>5. status = "INSUFFICIENT_DATA" => r.valuation = NA BY <2>3, GradedIs
  <2>6. r.valuation = NA => EvidenceSplit(S).missing # {} BY <2>2, MissingIs
  <2> QED BY <2>4, <2>5, <2>6, CaseFields DEF Gapped, PairTypes
<1>2. CASE c = ContextCase(r)
  BY <1>2, CaseFields DEF ContextCase, Gapped, PairTypes
<1>3. CASE c = BreakevenCase(r)
  <2>1. PICK S : S = {<<"breakeven_score", r.breakeven>>, <<"breakeven_distance_pct", r.distance>>} OBVIOUS
  <2>2. PICK status : status = IF r.breakeven = NA \/ r.distance = NA THEN "INSUFFICIENT_DATA"
    ELSE Graded(r.breakeven >= 80 /\ Confident(r), r.breakeven >= 80) OBVIOUS
  <2>3. c = ShadowCase("BREAKEVEN_COMPRESSION", CaseSymbol(r), status, S, 0) BY <1>3, <2>1, <2>2 DEF BreakevenCase
  <2>4. status = "INSUFFICIENT_DATA" => r.breakeven = NA \/ r.distance = NA BY <2>2, GradedIs
  <2>6. <<"breakeven_score", r.breakeven>> \in S /\ <<"breakeven_distance_pct", r.distance>> \in S BY <2>1
  <2>5. r.breakeven = NA \/ r.distance = NA => EvidenceSplit(S).missing # {} BY <2>6, MissingIs
  <2> QED BY <2>3, <2>4, <2>5, CaseFields DEF Gapped, PairTypes
<1>4. CASE c = LiquidityCase(r)
  <2>1. PICK S : S = {<<"liquidity_block_score", r.liquidity>>, <<"execution_penalty", r.penalty>>} OBVIOUS
  <2>2. PICK status : status = IF r.liquidity = NA \/ r.penalty = NA THEN "INSUFFICIENT_DATA"
    ELSE Graded(LiquidEnough(r) /\ r.penalty <= 10, LiquidEnough(r)) OBVIOUS
  <2>3. c = ShadowCase("LIQUIDITY_CONFIRMED", CaseSymbol(r), status, S, 0) BY <1>4, <2>1, <2>2 DEF LiquidityCase
  <2>4. status = "INSUFFICIENT_DATA" => r.liquidity = NA \/ r.penalty = NA BY <2>2, GradedIs
  <2>6. <<"liquidity_block_score", r.liquidity>> \in S /\ <<"execution_penalty", r.penalty>> \in S BY <2>1
  <2>5. r.liquidity = NA \/ r.penalty = NA => EvidenceSplit(S).missing # {} BY <2>6, MissingIs
  <2> QED BY <2>3, <2>4, <2>5, CaseFields DEF Gapped, PairTypes
<1>5. CASE c = RiskCase(r)
  <2>1. PICK S : S = {<<"remaining_days", r.days>>} OBVIOUS
  <2>2. PICK status : status = IF r.days = NA THEN "INSUFFICIENT_DATA" ELSE Graded(r.days <= 10, FALSE) OBVIOUS
  <2>3. c = ShadowCase("NEAR_EXPIRY_RISK", CaseSymbol(r), status, S, 0) BY <1>5, <2>1, <2>2 DEF RiskCase
  <2>4. status = "INSUFFICIENT_DATA" => r.days = NA BY <2>2, GradedIs
  <2>6. <<"remaining_days", r.days>> \in S BY <2>1
  <2>5. r.days = NA => EvidenceSplit(S).missing # {} BY <2>6, MissingIs
  <2> QED BY <2>3, <2>4, <2>5, CaseFields DEF Gapped, PairTypes
<1> QED BY <1>1, <1>2, <1>3, <1>4, <1>5 DEF CasesOfOne

\* What is known of a contract whose case has a status.
LEMMA StatusIs ==
  ASSUME NEW r \in ScoredRow, NEW c \in CasesOfOne(r)
  PROVE  /\ c.type = "RELATIVE_VALUE_ANOMALY" /\ c.status = "CONFIRMED" => Confident(r) /\ LiquidEnough(r)
         /\ c.type = "BREAKEVEN_COMPRESSION" /\ c.status = "CONFIRMED" => Confident(r)
         /\ c.type = "LIQUIDITY_CONFIRMED" =>
              /\ c.status = "CONFIRMED" => LiquidEnough(r) /\ r.penalty <= 10
              /\ c.status = "WATCH" => r.penalty # NA /\ ~(r.penalty <= 10)
              /\ c.status = "REJECTED" => r.liquidity # NA /\ ~LiquidEnough(r)
         /\ IsRisk(c) => (c.status = "CONFIRMED" <=> r.days # NA /\ r.days <= 10)
<1>3. CASE c = RelativeValueCase(r)
  <2>1. PICK S : S = {<<"black_scholes_difference_score", r.valuation>>}
      \cup (IF r.valuation = NA THEN {} ELSE {<<"raw_black_scholes_difference", r.diff>>})
      \cup (IF r.valuation # NA /\ r.liquidity # NA THEN {<<"liquidity_block_score", r.liquidity>>} ELSE {})
    OBVIOUS
  <2>2. PICK status : status = IF r.valuation = NA THEN "INSUFFICIENT_DATA"
    ELSE Graded(r.valuation >= 85 /\ Confident(r) /\ LiquidEnough(r), r.valuation >= 85) OBVIOUS
  <2>3. c = ShadowCase("RELATIVE_VALUE_ANOMALY", CaseSymbol(r), status, S, 0) BY <1>3, <2>1, <2>2 DEF RelativeValueCase
  <2>4. c.type = "RELATIVE_VALUE_ANOMALY" /\ c.status = status BY <2>3, CaseFields
  <2>5. status = "CONFIRMED" => Confident(r) /\ LiquidEnough(r) BY <2>2 DEF Graded
  <2> QED BY <2>4, <2>5 DEF IsRisk
<1>4. CASE c = ContextCase(r)
  <2>1. c.type = "BASE_BREAKEVEN_CONTEXT" BY <1>4, CaseFields DEF ContextCase
  <2> QED BY <2>1 DEF IsRisk
<1>5. CASE c = BreakevenCase(r)
  <2>1. PICK S : S = {<<"breakeven_score", r.breakeven>>, <<"breakeven_distance_pct", r.distance>>} OBVIOUS
  <2>2. PICK status : status = IF r.breakeven = NA \/ r.distance = NA THEN "INSUFFICIENT_DATA"
    ELSE Graded(r.breakeven >= 80 /\ Confident(r), r.breakeven >= 80) OBVIOUS
  <2>3. c = ShadowCase("BREAKEVEN_COMPRESSION", CaseSymbol(r), status, S, 0) BY <1>5, <2>1, <2>2 DEF BreakevenCase
  <2>4. c.type = "BREAKEVEN_COMPRESSION" /\ c.status = status BY <2>3, CaseFields
  <2>5. status = "CONFIRMED" => Confident(r) BY <2>2 DEF Graded
  <2> QED BY <2>4, <2>5 DEF IsRisk
<1>6. CASE c = LiquidityCase(r)
  <2>1. PICK S : S = {<<"liquidity_block_score", r.liquidity>>, <<"execution_penalty", r.penalty>>} OBVIOUS
  <2>2. PICK status : status = IF r.liquidity = NA \/ r.penalty = NA THEN "INSUFFICIENT_DATA"
    ELSE Graded(LiquidEnough(r) /\ r.penalty <= 10, LiquidEnough(r)) OBVIOUS
  <2>3. c = ShadowCase("LIQUIDITY_CONFIRMED", CaseSymbol(r), status, S, 0) BY <1>6, <2>1, <2>2 DEF LiquidityCase
  <2>4. c.type = "LIQUIDITY_CONFIRMED" /\ c.status = status BY <2>3, CaseFields
  <2>5. /\ status = "CONFIRMED" => LiquidEnough(r) /\ r.penalty <= 10
        /\ status = "WATCH" => r.penalty # NA /\ ~(r.penalty <= 10)
        /\ status = "REJECTED" => r.liquidity # NA /\ ~LiquidEnough(r)
    BY <2>2 DEF Graded
  <2> QED BY <2>4, <2>5 DEF IsRisk
<1>7. CASE c = RiskCase(r)
  <2>1. PICK S : S = {<<"remaining_days", r.days>>} OBVIOUS
  <2>2. PICK status : status = IF r.days = NA THEN "INSUFFICIENT_DATA" ELSE Graded(r.days <= 10, FALSE) OBVIOUS
  <2>3. c = ShadowCase("NEAR_EXPIRY_RISK", CaseSymbol(r), status, S, 0) BY <1>7, <2>1, <2>2 DEF RiskCase
  <2>4. c.type = "NEAR_EXPIRY_RISK" /\ c.status = status BY <2>3, CaseFields
  <2>5. status = "CONFIRMED" <=> r.days # NA /\ r.days <= 10 BY <2>2 DEF Graded
  <2> QED BY <2>4, <2>5
<1> QED BY <1>3, <1>4, <1>5, <1>6, <1>7 DEF CasesOfOne

-------------------------------------------------------------------------------
\* The cases of a chain.
LEMMA LastRow ==
  ASSUME NEW rows \in Seq(ScoredRow), NEW symbol
  PROVE  /\ RowOf(rows, symbol) = <<>> => \A i \in DOMAIN rows : CaseSymbol(rows[i]) # symbol
         /\ RowOf(rows, symbol) # <<>> =>
              \E i \in DOMAIN rows : CaseSymbol(rows[i]) = symbol /\ RowOf(rows, symbol) = <<rows[i]>>
<1>1. PICK n \in Nat : n = Len(rows) /\ DOMAIN rows = 1..n OBVIOUS
<1>2. PICK S : S = {i \in DOMAIN rows : CaseSymbol(rows[i]) = symbol} OBVIOUS
<1>3. RowOf(rows, symbol) = IF S = {} THEN <<>> ELSE <<rows[Max(S)]>> BY <1>2 DEF RowOf
<1>4. S \in SUBSET (1..n) BY <1>1, <1>2
<1>5. S # {} => Max(S) \in S BY <1>1, <1>4, LargestIs
<1>6. CASE S = {}
  <2>1. RowOf(rows, symbol) = <<>> BY <1>3, <1>6
  <2> QED BY <1>2, <1>6, <2>1
<1>7. CASE S # {}
  <2>1. PICK i \in S : i = Max(S) BY <1>5, <1>7
  <2>2. RowOf(rows, symbol) = <<rows[i]>> BY <1>3, <1>7, <2>1
  <2>3. <<rows[i]>> # <<>> OBVIOUS
  <2>4. i \in DOMAIN rows /\ CaseSymbol(rows[i]) = symbol BY <1>2, <2>1
  <2> QED BY <2>2, <2>3, <2>4
<1> QED BY <1>6, <1>7

\* The key of a chain is no contract's symbol.
LEMMA NoSuchSymbol ==
  ASSUME NEW rows \in Seq(ScoredRow), NEW key \in ChainKeys(rows)
  PROVE  RowOf(rows, key) = <<>>
<1>1. PICK i \in DOMAIN rows : key = ChainKey(rows[i]) BY DEF ChainKeys
<1>2. \A j \in DOMAIN rows : CaseSymbol(rows[j]) # key
  <2> TAKE j \in DOMAIN rows
  <2>1. PICK a, b, c, d : CaseSymbol(rows[j]) = <<a, b>> /\ key = <<c, d, "chain">> BY <1>1 DEF CaseSymbol, ChainKey
  <2>2. Len(<<a, b>>) = 2 /\ Len(<<c, d, "chain">>) = 3 OBVIOUS
  <2> QED BY <2>1, <2>2
<1> QED BY <1>2, LastRow

ChainTypes == {"CHAIN_STRUCTURE_ANOMALY", "CALL_PUT_STRUCTURE_AVAILABLE", "RELATIVE_PAIR_STRUCTURE"}
Common(rows, key, which) ==
  IF DuplicateIdentities(rows, ChainRows(rows, key)) THEN {} ELSE CommonStrikes(rows, ChainRows(rows, key), which)

ChainCaseOf(rows, key, c) ==
  /\ c.symbol = key /\ Gapped(c) /\ Settable(c) /\ c.type \in ChainTypes /\ c.status # "CONFIRMED"
  /\ c.type = "CALL_PUT_STRUCTURE_AVAILABLE" => Common(rows, key, "first") # {}
  /\ c.type = "RELATIVE_PAIR_STRUCTURE" => c.key \in Common(rows, key, "last")

StructureCase(type, key, name) == ShadowCase(type, key, "WATCH", {<<name, 1>>}, 0)
StructureCases(rows) ==
  {StructureCase(type, key, name) : type \in {"CHAIN_STRUCTURE_ANOMALY", "CALL_PUT_STRUCTURE_AVAILABLE"},
                                    key \in ChainKeys(rows), name \in {"score_dispersion", "common_strikes"}}

LEMMA NothingIn ==
  ASSUME NEW S
  PROVE  <<>> \in Seq(S) /\ \A e : ~In(e, <<>>)
<1>1. Len(<<>>) = 0 /\ <<>> \in Seq(S) OBVIOUS
<1> QED BY <1>1 DEF In

LEMMA StructureCasesAre ==
  ASSUME NEW rows, NEW key \in ChainKeys(rows)
  PROVE  /\ ChainCasesOf(rows, key) \in Seq(StructureCases(rows))
         /\ \A e : In(e, ChainCasesOf(rows, key)) => ChainCaseOf(rows, key, e)
<1>1. PICK a, b : /\ a = StructureCase("CHAIN_STRUCTURE_ANOMALY", key, "score_dispersion")
                  /\ b = StructureCase("CALL_PUT_STRUCTURE_AVAILABLE", key, "common_strikes")
  OBVIOUS
<1>2. PICK S : S = StructureCases(rows) OBVIOUS
<1>3. a \in S /\ b \in S BY <1>1, <1>2 DEF StructureCases
<1>4. ChainCaseOf(rows, key, a)
  BY <1>1, CaseFields DEF StructureCase, ChainCaseOf, Gapped, ChainTypes
<1>5. Common(rows, key, "first") # {} => ChainCaseOf(rows, key, b)
  BY <1>1, CaseFields DEF StructureCase, ChainCaseOf, Gapped, ChainTypes
<1>6. PICK dispersed, common : /\ dispersed = Dispersed(rows, ChainRows(rows, key))
                               /\ common = (CommonStrikes(rows, ChainRows(rows, key), "first") # {})
  OBVIOUS
<1>7. PICK doubled : doubled = DuplicateIdentities(rows, ChainRows(rows, key)) OBVIOUS
<1>8. ChainCasesOf(rows, key) = IF ~dispersed THEN <<>> ELSE <<a>> \o (IF ~doubled /\ common THEN <<b>> ELSE <<>>)
  BY <1>1, <1>6, <1>7 DEF ChainCasesOf, StructureCase
<1>9. PICK one, two, none \in Seq(S) : one = <<a>> /\ two = <<b>> /\ none = <<>>
  <2>1. <<a>> \in Seq(S) /\ <<b>> \in Seq(S) BY <1>3
  <2>2. <<>> \in Seq(S) OBVIOUS
  <2> QED BY <2>1, <2>2
<1>10. \A e : (In(e, one) => e = a) /\ (In(e, two) => e = b) /\ ~In(e, none) BY <1>9, OneHolds, NothingIn
<1>11. CASE ~dispersed
  <2>1. ChainCasesOf(rows, key) = none BY <1>8, <1>9, <1>11
  <2> QED BY <1>2, <1>10, <2>1
<1>12. CASE dispersed /\ ~(~doubled /\ common)
  <2>1. ChainCasesOf(rows, key) = one \o none BY <1>8, <1>9, <1>12
  <2>2. one \o none \in Seq(S) OBVIOUS
  <2>3. \A e : In(e, one \o none) => e = a BY <1>10, JoinedHolds
  <2> QED BY <1>2, <1>4, <2>1, <2>2, <2>3
<1>13. CASE dispersed /\ ~doubled /\ common
  <2>1. ChainCasesOf(rows, key) = one \o two BY <1>8, <1>9, <1>13
  <2>2. one \o two \in Seq(S) OBVIOUS
  <2>3. \A e : In(e, one \o two) => e = a \/ e = b BY <1>10, JoinedHolds
  <2>4. Common(rows, key, "first") # {} BY <1>6, <1>7, <1>13 DEF Common
  <2> QED BY <1>2, <1>4, <1>5, <2>1, <2>2, <2>3, <2>4
<1> QED BY <1>11, <1>12, <1>13

LEMMA PairCaseIs ==
  ASSUME NEW rows, NEW key, NEW strike \in Common(rows, key, "last")
  PROVE  /\ ChainCaseOf(rows, key, PairCase(rows, key, strike))
         /\ PairCase(rows, key, strike).type = "RELATIVE_PAIR_STRUCTURE"
<1>1. PICK both : /\ both \subseteq 1..5
                  /\ PairCase(rows, key, strike) =
                       ShadowCase("RELATIVE_PAIR_STRUCTURE", key, IF Cardinality(both) < 2 THEN "INSUFFICIENT_DATA" ELSE "WATCH",
                         {<<"strike", strike>>} \cup {<<"absolute_difference_", 1>> : i \in both}
                           \cup {<<"call_or_put_", NA>> : i \in 1..5 \ both}, strike)
  BY DEF PairCase
<1>2. PICK S : S = {<<"strike", strike>>} \cup {<<"absolute_difference_", 1>> : i \in both}
                     \cup {<<"call_or_put_", NA>> : i \in 1..5 \ both}
  OBVIOUS
<1>3. PICK status : status = IF Cardinality(both) < 2 THEN "INSUFFICIENT_DATA" ELSE "WATCH" OBVIOUS
<1>4. PICK c : c = ShadowCase("RELATIVE_PAIR_STRUCTURE", key, status, S, strike) OBVIOUS
<1>5. PairCase(rows, key, strike) = c BY <1>1, <1>2, <1>3, <1>4
<1>6. /\ c.symbol = key /\ c.status = status /\ c.evidence = EvidenceSplit(S) /\ Settable(c)
      /\ c.type = "RELATIVE_PAIR_STRUCTURE" /\ c.key = strike
  BY <1>4, CaseFields
<1>7. ASSUME status = "INSUFFICIENT_DATA" PROVE EvidenceSplit(S).missing # {}
  <2>1. Cardinality(both) < 2 BY <1>3, <1>7
  <2>2. both # 1..5
    <3>1. PICK one, five \in Int : one = 1 /\ five = 5 OBVIOUS
    <3>2. Cardinality(one..five) = IF one > five THEN 0 ELSE five - one + 1 BY FS_Interval
    <3>3. Cardinality(1..5) = 5 BY <3>1, <3>2
    <3> QED BY <2>1, <3>3
  <2>3. PICK i \in 1..5 : i \notin both BY <1>1, <2>2
  <2>4. <<"call_or_put_", NA>> \in S BY <1>2, <2>3
  <2> QED BY <2>4, MissingIs
<1>8. status # "CONFIRMED" BY <1>3
<1> QED BY <1>5, <1>6, <1>7, <1>8 DEF ChainCaseOf, ChainTypes, Gapped

LEMMA SeqGrows ==
  ASSUME NEW A, NEW B, A \subseteq B, NEW s \in Seq(A)
  PROVE  s \in Seq(B)
<1>1. PICK n \in Nat : n = Len(s) OBVIOUS
<1>2. \A i \in 1..n : s[i] \in A BY <1>1
<1>3. \A i \in 1..n : s[i] \in B BY <1>2
<1>4. s = [i \in 1..n |-> s[i]] BY <1>1
<1>5. [i \in 1..n |-> s[i]] \in Seq(B) BY <1>3
<1> QED BY <1>4, <1>5

LEMMA StrikesAre ==
  ASSUME NEW rows \in Seq(ScoredRow), NEW key
  PROVE  LET strikes == CommonStrikes(rows, ChainRows(rows, key), "last") IN IsFiniteSet(strikes) /\ strikes \subseteq Int
<1>1. PICK n \in Nat : n = Len(rows) /\ DOMAIN rows = 1..n OBVIOUS
<1>2. PICK chain : chain = ChainRows(rows, key) OBVIOUS
<1>3. \A i \in chain : i \in 1..n /\ ValidIdentity(rows[i]) BY <1>1, <1>2 DEF ChainRows
<1>4. PICK g : g = [i \in chain |-> IdentityOf(rows, i, "last").strike] OBVIOUS
<1>5. ASSUME NEW i \in chain PROVE g[i] \in Int
  <2>1. PICK T : T = IdentitiesOf(rows, i) OBVIOUS
  <2>2. T \in SUBSET (1..n) /\ i \in T BY <1>1, <1>3, <2>1 DEF IdentitiesOf
  <2>3. PICK m \in 1..n : m = Max(T) BY <1>1, <2>2, LargestIs
  <2>4. IdentityOf(rows, i, "last") = rows[m] BY <2>1, <2>3 DEF IdentityOf
  <2>5. rows[m] \in ScoredRow BY <1>1
  <2>6. rows[m].strike \in Int BY <2>5 DEF ScoredRow
  <2> QED BY <1>4, <2>4, <2>6
<1>6. IsFiniteSet(chain)
  <2>1. PICK one, many \in Int : one = 1 /\ many = n OBVIOUS
  <2>2. IsFiniteSet(one..many) BY FS_Interval
  <2>3. chain \in SUBSET (one..many) BY <1>3, <2>1
  <2> QED BY <2>2, <2>3, FS_Subset
<1>7. PICK all : all = {g[i] : i \in chain} OBVIOUS
<1>8. IsFiniteSet(all) BY <1>6, <1>7, ImagesEnd
<1>9. all \subseteq Int BY <1>5, <1>7
<1>10. PICK strikes : strikes = CommonStrikes(rows, chain, "last") OBVIOUS
<1>11. ASSUME NEW x \in strikes PROVE x \in all
  <2>1. x \in StrikesOf(rows, chain, "CALL", "last") BY <1>10 DEF CommonStrikes
  <2>2. PICK i \in MembersAs(rows, chain, "CALL", "last") : x = IdentityOf(rows, i, "last").strike BY <2>1 DEF StrikesOf
  <2>3. i \in chain BY DEF MembersAs, FoundMembers
  <2> QED BY <1>4, <1>7, <2>2, <2>3
<1>12. strikes \in SUBSET all BY <1>11
<1>13. IsFiniteSet(strikes) BY <1>8, <1>12, FS_Subset
<1> QED BY <1>2, <1>9, <1>10, <1>12, <1>13

StrikeCases(rows) == {PairCase(rows, key, x) : key \in ChainKeys(rows), x \in Int}

LEMMA PairCasesAre ==
  ASSUME NEW rows \in Seq(ScoredRow), NEW key \in ChainKeys(rows)
  PROVE  /\ PairCases(rows, key) \in Seq(StrikeCases(rows))
         /\ \A e : In(e, PairCases(rows, key)) => ChainCaseOf(rows, key, e)
         /\ Common(rows, key, "last") # {} =>
              \E e : In(e, PairCases(rows, key)) /\ e.type = "RELATIVE_PAIR_STRUCTURE"
<1>1. PICK chain : chain = ChainRows(rows, key) OBVIOUS
<1>2. PICK strikes : strikes = CommonStrikes(rows, chain, "last") OBVIOUS
<1>3. IsFiniteSet(strikes) /\ strikes \subseteq Int BY <1>1, <1>2, StrikesAre
<1>4. PICK all \in Seq(Int) :
        /\ all = SetToSeq(strikes) /\ Len(all) = Cardinality(strikes)
        /\ \A x \in strikes : \E i \in 1..Len(all) : all[i] = x
        /\ \A i \in 1..Len(all) : all[i] \in strikes
  <2>1. PICK t \in Seq(strikes) :
          t = SetToSeq(strikes) /\ Len(t) = Cardinality(strikes) /\ \A x \in strikes : \E i \in 1..Len(t) : t[i] = x
    BY <1>3, SetAsSeq
  <2>2. t \in Seq(Int) BY <1>3, SeqGrows
  <2>3. \A i \in 1..Len(t) : t[i] \in strikes OBVIOUS
  <2> QED BY <2>1, <2>2, <2>3
<1>5. PICK s \in Seq(Int) :
        /\ s = InOrder(all) /\ Len(s) = Len(all)
        /\ \A i \in 1..Len(all) : \E j \in 1..Len(all) : s[i] = all[j]
  BY <1>4, InOrderIs
<1>6. PICK n \in Nat : n = Len(s) /\ DOMAIN s = 1..n OBVIOUS
<1>11. \A i \in 1..n : s[i] \in strikes BY <1>4, <1>5, <1>6
<1>12. Common(rows, key, "last") = IF DuplicateIdentities(rows, chain) THEN {} ELSE strikes
  BY <1>1, <1>2 DEF Common
<1>7. PICK S : S = StrikeCases(rows) OBVIOUS
<1>8. \A i \in 1..n : PairCase(rows, key, s[i]) \in S
  <2> TAKE i \in 1..n
  <2>1. s[i] \in Int BY <1>6
  <2> QED BY <1>7, <2>1 DEF StrikeCases
<1>9. CASE DuplicateIdentities(rows, chain)
  <2>1. PairCases(rows, key) = <<>> BY <1>1, <1>9 DEF PairCases
  <2>2. Common(rows, key, "last") = {} BY <1>9, <1>12
  <2> QED BY <2>1, <2>2, NothingIn
<1>10. CASE ~DuplicateIdentities(rows, chain)
  <2>1. PICK u : u = [i \in 1..n |-> PairCase(rows, key, s[i])] OBVIOUS
  <2>2. PairCases(rows, key) = u \o <<>> BY <1>1, <1>2, <1>4, <1>5, <1>6, <1>10, <2>1 DEF PairCases, Each, InOrder
  <2>3. u \in Seq(S) /\ Len(u) = n /\ \A i \in 1..n : u[i] = PairCase(rows, key, s[i]) BY <1>8, <2>1
  <2>4. u \o <<>> = u BY <2>3
  <2>5. \A i \in 1..n : ChainCaseOf(rows, key, u[i]) /\ u[i].type = "RELATIVE_PAIR_STRUCTURE"
    <3> TAKE i \in 1..n
    <3>1. s[i] \in Common(rows, key, "last") BY <1>10, <1>11, <1>12
    <3> QED BY <2>3, <3>1, PairCaseIs
  <2>6. \A e : In(e, u) => ChainCaseOf(rows, key, e) BY <2>3, <2>5 DEF In
  <2>7. ASSUME strikes # {} PROVE \E e : In(e, u) /\ e.type = "RELATIVE_PAIR_STRUCTURE"
    <3>1. PICK x \in strikes : TRUE BY <2>7
    <3>2. PICK i \in 1..n : TRUE BY <1>4, <1>5, <1>6, <3>1
    <3>3. In(u[i], u) BY <2>3 DEF In
    <3> QED BY <2>5, <3>3
  <2>8. Common(rows, key, "last") = strikes BY <1>10, <1>12
  <2> QED BY <1>7, <2>2, <2>3, <2>4, <2>6, <2>7, <2>8
<1> QED BY <1>9, <1>10

-------------------------------------------------------------------------------
\* Each case of a run is one of a contract or of a chain.
ContractCaseOf(rows, c) == \E i \in DOMAIN rows : rows[i].name # "" /\ c \in CasesOfOne(rows[i])
CaseIs(rows, c) == ContractCaseOf(rows, c) \/ \E key \in ChainKeys(rows) : ChainCaseOf(rows, key, c)

LEMMA KeysEnd ==
  ASSUME NEW rows \in Seq(ScoredRow)
  PROVE  LET keys == SetToSeq(ChainKeys(rows))
         IN keys \in Seq(ChainKeys(rows)) /\ \A k \in ChainKeys(rows) : \E i \in 1..Len(keys) : keys[i] = k
<1>1. PICK n \in Nat : n = Len(rows) /\ DOMAIN rows = 1..n OBVIOUS
<1>2. PICK K : K = {j \in DOMAIN rows : ValidIdentity(rows[j])} OBVIOUS
<1>3. IsFiniteSet(K)
  <2>1. PICK one, many \in Int : one = 1 /\ many = n OBVIOUS
  <2>2. IsFiniteSet(one..many) BY FS_Interval
  <2>3. K \in SUBSET (one..many) BY <1>1, <1>2, <2>1
  <2> QED BY <2>2, <2>3, FS_Subset
<1>4. PICK g : g = [i \in K |-> ChainKey(rows[i])] OBVIOUS
<1>5. ChainKeys(rows) = {g[i] : i \in K} BY <1>2, <1>4 DEF ChainKeys
<1>6. PICK K2 : K2 = ChainKeys(rows) OBVIOUS
<1>7. IsFiniteSet(K2) BY <1>3, <1>5, <1>6, ImagesEnd
<1>8. PICK t \in Seq(K2) :
        t = SetToSeq(K2) /\ Len(t) = Cardinality(K2) /\ \A x \in K2 : \E i \in 1..Len(t) : t[i] = x
  BY <1>7, SetAsSeq
<1> QED BY <1>6, <1>8

LEMMA AllCasesAre ==
  ASSUME NEW rows \in Seq(ScoredRow)
  PROVE  LET all == FlattenSeq(Each(rows, ContractCases)) \o ChainCases(rows)
         IN /\ \E S : all \in Seq(S)
            /\ \A c : In(c, all) => CaseIs(rows, c)
            /\ \A i \in DOMAIN rows : rows[i].name # "" => In(RiskCase(rows[i]), all)
            /\ \A key \in ChainKeys(rows) : \A c : In(c, PairCases(rows, key)) => In(c, all)
<1>1. PICK n \in Nat : n = Len(rows) /\ DOMAIN rows = 1..n OBVIOUS
<1>2. PICK K : K = ChainKeys(rows) OBVIOUS
<1>3. PICK keys \in Seq(K) : keys = SetToSeq(K) /\ \A k \in K : \E i \in 1..Len(keys) : keys[i] = k
  BY <1>2, KeysEnd
<1>4. PICK m \in Nat : m = Len(keys) /\ DOMAIN keys = 1..m OBVIOUS
<1>5. PICK R : R = {rows[i] : i \in DOMAIN rows} OBVIOUS
<1>6. rows \in Seq(R)
  <2>1. \A i \in 1..n : rows[i] \in R BY <1>1, <1>5
  <2>2. rows = [i \in 1..n |-> rows[i]] BY <1>1
  <2>3. [i \in 1..n |-> rows[i]] \in Seq(R) BY <2>1
  <2> QED BY <2>2, <2>3
<1>7. PICK A : A = UNION {CasesOfOne(r) : r \in R} OBVIOUS
<1>8. PICK S : S = A \cup StructureCases(rows) \cup StrikeCases(rows) OBVIOUS
<1>9. \A r \in R : CasesOfOne(r) \subseteq S BY <1>7, <1>8
<1>10. PICK f : f = [r \in R |-> ContractCases(r)] OBVIOUS
<1>11. PICK g : g = [k \in K |-> ChainCasesOf(rows, k)] OBVIOUS
<1>12. PICK h : h = [k \in K |-> PairCases(rows, k)] OBVIOUS
<1>13. \A r \in R : f[r] \in Seq(S) /\ (\A e : In(e, f[r]) => r.name # "" /\ e \in CasesOfOne(r))
                    /\ (r.name # "" => In(RiskCase(r), f[r]))
  BY <1>9, <1>10, ContractCasesAre
<1>14. \A k \in K : g[k] \in Seq(S) /\ \A e : In(e, g[k]) => ChainCaseOf(rows, k, e)
  <2> TAKE k \in K
  <2>1. g[k] \in Seq(StructureCases(rows)) /\ \A e : In(e, g[k]) => ChainCaseOf(rows, k, e)
    BY <1>2, <1>11, StructureCasesAre
  <2>2. StructureCases(rows) \subseteq S BY <1>8
  <2>3. g[k] \in Seq(S) BY <2>1, <2>2
  <2> QED BY <2>1, <2>3
<1>15. \A k \in K : h[k] \in Seq(S) /\ \A e : In(e, h[k]) => ChainCaseOf(rows, k, e)
  <2> TAKE k \in K
  <2>1. h[k] \in Seq(StrikeCases(rows)) /\ \A e : In(e, h[k]) => ChainCaseOf(rows, k, e)
    BY <1>2, <1>12, PairCasesAre
  <2>2. StrikeCases(rows) \subseteq S BY <1>8
  <2>3. h[k] \in Seq(S) BY <2>1, <2>2
  <2> QED BY <2>1, <2>3
<1>16. PICK t, u, v : /\ t = [i \in DOMAIN rows |-> f[rows[i]]] \o <<>>
                      /\ u = [i \in DOMAIN keys |-> g[keys[i]]] \o <<>>
                      /\ v = [i \in DOMAIN keys |-> h[keys[i]]] \o <<>>
  OBVIOUS
<1>17. FlattenSeq(t) \in Seq(S) /\ FlatOf(rows, f, FlattenSeq(t))
  <2>1. GivesSeqs(R, f, S) BY <1>13 DEF GivesSeqs
  <2>2. t = [i \in DOMAIN rows |-> f[rows[i]]] \o <<>> BY <1>16
  <2> QED BY <1>6, <2>1, <2>2, EachFlatHolds
<1>18. FlattenSeq(u) \in Seq(S) /\ FlatOf(keys, g, FlattenSeq(u))
  <2>1. GivesSeqs(K, g, S) BY <1>14 DEF GivesSeqs
  <2>2. u = [i \in DOMAIN keys |-> g[keys[i]]] \o <<>> BY <1>16
  <2> QED BY <2>1, <2>2, EachFlatHolds
<1>19. FlattenSeq(v) \in Seq(S) /\ FlatOf(keys, h, FlattenSeq(v))
  <2>1. GivesSeqs(K, h, S) BY <1>15 DEF GivesSeqs
  <2>2. v = [i \in DOMAIN keys |-> h[keys[i]]] \o <<>> BY <1>16
  <2> QED BY <2>1, <2>2, EachFlatHolds
<1>20. PICK x, y, z \in Seq(S) : x = FlattenSeq(t) /\ y = FlattenSeq(u) /\ z = FlattenSeq(v)
  BY <1>17, <1>18, <1>19
<1>21. \A e : In(e, x) <=> \E i \in 1..n : In(e, f[rows[i]]) BY <1>1, <1>17, <1>20 DEF FlatOf
<1>22. \A e : In(e, y) <=> \E i \in 1..m : In(e, g[keys[i]]) BY <1>4, <1>18, <1>20 DEF FlatOf
<1>23. \A e : In(e, z) <=> \E i \in 1..m : In(e, h[keys[i]]) BY <1>4, <1>19, <1>20 DEF FlatOf
<1>24. Each(rows, ContractCases) = t
  <2>1. [i \in DOMAIN rows |-> ContractCases(rows[i])] = [i \in DOMAIN rows |-> f[rows[i]]] BY <1>5, <1>10
  <2> QED BY <1>16, <2>1 DEF Each
<1>25. \A i \in 1..m : keys[i] \in K BY <1>3, <1>4
<1>26. Each(keys, LAMBDA k : ChainCasesOf(rows, k)) = u
  <2>1. [i \in DOMAIN keys |-> ChainCasesOf(rows, keys[i])] = [i \in DOMAIN keys |-> g[keys[i]]] BY <1>4, <1>11, <1>25
  <2> QED BY <1>16, <2>1 DEF Each
<1>27. Each(keys, LAMBDA k : PairCases(rows, k)) = v
  <2>1. [i \in DOMAIN keys |-> PairCases(rows, keys[i])] = [i \in DOMAIN keys |-> h[keys[i]]] BY <1>4, <1>12, <1>25
  <2> QED BY <1>16, <2>1 DEF Each
<1>28. ChainCases(rows) = y \o z BY <1>2, <1>3, <1>26, <1>27, <1>20 DEF ChainCases
<1>29. PICK w \in Seq(S) : w = y \o z
  <2>1. y \o z \in Seq(S) OBVIOUS
  <2> QED BY <2>1
<1>30. PICK all : all = x \o w OBVIOUS
<1>31. all \in Seq(S) BY <1>30
<1>32. \A e : In(e, all) <=> In(e, x) \/ In(e, y) \/ In(e, z) BY <1>29, <1>30, JoinedHolds
<1>33. ASSUME NEW c, In(c, all) PROVE CaseIs(rows, c)
  <2>1. CASE In(c, x)
    <3>1. PICK i \in 1..n : In(c, f[rows[i]]) BY <1>21, <2>1
    <3>2. rows[i] \in R BY <1>1, <1>5
    <3>3. rows[i].name # "" /\ c \in CasesOfOne(rows[i]) BY <1>13, <3>1, <3>2
    <3> QED BY <1>1, <3>3 DEF CaseIs, ContractCaseOf
  <2>2. CASE In(c, y)
    <3>1. PICK i \in 1..m : In(c, g[keys[i]]) BY <1>22, <2>2
    <3>2. ChainCaseOf(rows, keys[i], c) BY <1>14, <1>25, <3>1
    <3> QED BY <1>2, <1>25, <3>2 DEF CaseIs
  <2>3. CASE In(c, z)
    <3>1. PICK i \in 1..m : In(c, h[keys[i]]) BY <1>23, <2>3
    <3>2. ChainCaseOf(rows, keys[i], c) BY <1>15, <1>25, <3>1
    <3> QED BY <1>2, <1>25, <3>2 DEF CaseIs
  <2> QED BY <1>32, <1>33, <2>1, <2>2, <2>3
<1>34. ASSUME NEW i \in DOMAIN rows, rows[i].name # "" PROVE In(RiskCase(rows[i]), all)
  <2>1. rows[i] \in R BY <1>5
  <2>2. In(RiskCase(rows[i]), f[rows[i]]) BY <1>13, <1>34, <2>1
  <2>3. i \in 1..n BY <1>1
  <2>4. In(RiskCase(rows[i]), x) BY <1>21, <2>2, <2>3
  <2> QED BY <1>32, <2>4
<1>35. ASSUME NEW key \in K, NEW c, In(c, PairCases(rows, key)) PROVE In(c, all)
  <2>1. PICK i \in 1..m : keys[i] = key BY <1>3, <1>4
  <2>2. In(c, h[keys[i]]) BY <1>12, <1>35, <2>1
  <2>3. In(c, z) BY <1>23, <2>2
  <2> QED BY <1>32, <2>3
<1> QED BY <1>2, <1>24, <1>20, <1>28, <1>29, <1>30, <1>31, <1>33, <1>34, <1>35

LEMMA ShadowRunIs ==
  ASSUME NEW rows \in Seq(ScoredRow)
  PROVE  LET cases == ShadowRun(rows)
         IN /\ DOMAIN cases = 1..Len(cases)
            /\ \A n \in DOMAIN cases : \E c : cases[n] = Barred(rows, c) /\ CaseIs(rows, c)
            /\ \A i \in DOMAIN rows : rows[i].name # "" =>
                 \E n \in DOMAIN cases : cases[n] = Barred(rows, RiskCase(rows[i]))
            /\ \A key \in ChainKeys(rows) : \A c : In(c, PairCases(rows, key)) =>
                 \E n \in DOMAIN cases : cases[n] = Barred(rows, c)
<1>1. PICK all : all = FlattenSeq(Each(rows, ContractCases)) \o ChainCases(rows) OBVIOUS
<1>2. PICK S : all \in Seq(S) BY <1>1, AllCasesAre
<1>3. /\ \A c : In(c, all) => CaseIs(rows, c)
      /\ \A i \in DOMAIN rows : rows[i].name # "" => In(RiskCase(rows[i]), all)
      /\ \A key \in ChainKeys(rows) : \A c : In(c, PairCases(rows, key)) => In(c, all)
  BY <1>1, AllCasesAre
<1>4. PICK n \in Nat : n = Len(all) /\ DOMAIN all = 1..n BY <1>2
<1>5. PICK u : u = [i \in 1..n |-> Barred(rows, all[i])] OBVIOUS
<1>6. PICK B : B = {Barred(rows, all[i]) : i \in 1..n} OBVIOUS
<1>7. u \in Seq(B) /\ Len(u) = n /\ \A i \in 1..n : u[i] = Barred(rows, all[i]) BY <1>5, <1>6
<1>8. ShadowRun(rows) = u \o <<>> BY <1>1, <1>4, <1>5 DEF ShadowRun, Each
<1>9. PICK cases : cases = ShadowRun(rows) OBVIOUS
<1>10. cases = u /\ DOMAIN cases = 1..n /\ Len(cases) = n BY <1>7, <1>8, <1>9
<1>11. \A i \in 1..n : In(all[i], all) BY <1>4 DEF In
<1>12. \A i \in 1..n : cases[i] = Barred(rows, all[i]) /\ CaseIs(rows, all[i]) BY <1>3, <1>7, <1>10, <1>11
<1>13. ASSUME NEW i \in DOMAIN rows, rows[i].name # "" PROVE \E k \in 1..n : cases[k] = Barred(rows, RiskCase(rows[i]))
  <2>1. In(RiskCase(rows[i]), all) BY <1>3, <1>13
  <2>2. PICK k \in 1..n : all[k] = RiskCase(rows[i]) BY <1>4, <2>1 DEF In
  <2> QED BY <1>12, <2>2
<1>14. ASSUME NEW key \in ChainKeys(rows), NEW c, In(c, PairCases(rows, key)) PROVE \E k \in 1..n : cases[k] = Barred(rows, c)
  <2>1. In(c, all) BY <1>3, <1>14
  <2>2. PICK k \in 1..n : all[k] = c BY <1>4, <2>1 DEF In
  <2> QED BY <1>12, <2>2
<1> QED BY <1>9, <1>10, <1>12, <1>13, <1>14

-------------------------------------------------------------------------------
\* Where the rules of an eligibility, of a route and of an explanation lead.
LEMMA FirstNamed ==
  ASSUME NEW rules, NEW last \in Nat, DOMAIN rules = 1..last, NEW otherwise, NEW i \in 1..last,
         OnlyOne(rules, last, i, otherwise), FirstOf(rules, otherwise) = rules[i][1]
  PROVE  rules[i][2] /\ \A k \in 1..i - 1 : ~rules[k][2]
<1>1. PICK said : said = FirstOf(rules, otherwise) OBVIOUS
<1>2. \/ (\A k \in 1..last : ~rules[k][2]) /\ said = otherwise
      \/ \E k \in 1..last : rules[k][2] /\ (\A j \in 1..k - 1 : ~rules[j][2]) /\ said = rules[k][1]
  BY <1>1, FirstRule
<1>3. said # otherwise BY <1>1 DEF OnlyOne
<1>4. PICK k \in 1..last : rules[k][2] /\ (\A j \in 1..k - 1 : ~rules[j][2]) /\ said = rules[k][1] BY <1>2, <1>3
<1>5. k = i BY <1>1, <1>4 DEF OnlyOne
<1> QED BY <1>4, <1>5

LEMMA RuleBefore ==
  ASSUME NEW rules, NEW last \in Nat, DOMAIN rules = 1..last, NEW otherwise, NEW i \in 1..last, rules[i][2]
  PROVE  \E k \in 1..i : FirstOf(rules, otherwise) = rules[k][1]
<1>1. PICK said : said = FirstOf(rules, otherwise) OBVIOUS
<1>2. \/ (\A k \in 1..last : ~rules[k][2]) /\ said = otherwise
      \/ \E k \in 1..last : rules[k][2] /\ (\A j \in 1..k - 1 : ~rules[j][2]) /\ said = rules[k][1]
  BY <1>1, FirstRule
<1>3. PICK k \in 1..last : (\A j \in 1..k - 1 : ~rules[j][2]) /\ said = rules[k][1] BY <1>2
<1>4. k <= i
  <2>1. ~(i \in 1..k - 1) BY <1>3
  <2> QED BY <2>1
<1>5. k \in 1..i BY <1>4
<1> QED BY <1>1, <1>3, <1>5

LEMMA ExpiredRow ==
  ASSUME NEW r \in ScoredRow, ClassifyRow(r) = "EXPIRED"
  PROVE  r.days # NA /\ r.days <= 0
<1> DEFINE rules == <<<<"INVALID_MARKET_DATA", r.last <= 0 \/ r.base <= 0>>,
            <<"MISSING_REMAINING_DAYS", r.days = NA>>,
            <<"EXPIRED", r.days <= 0>>,
            <<"UNSCORABLE", r.score = NA>>,
            <<"LEVERAGE_UNAVAILABLE", r.leverage = NA>>,
            <<"LEVERAGE_LOW", 10 * r.leverage < 35>>>>
<1>1. ClassifyRow(r) = FirstOf(rules, "ACTIVE_ELIGIBLE") BY DEF ClassifyRow
<1>2. DOMAIN rules = 1..6 OBVIOUS
<1>3. /\ rules[1][1] = "INVALID_MARKET_DATA" /\ rules[2][1] = "MISSING_REMAINING_DAYS" /\ rules[3][1] = "EXPIRED"
      /\ rules[4][1] = "UNSCORABLE" /\ rules[5][1] = "LEVERAGE_UNAVAILABLE" /\ rules[6][1] = "LEVERAGE_LOW"
  OBVIOUS
<1>4. (rules[2][2] <=> r.days = NA) OBVIOUS
<1>5. (rules[3][2] <=> r.days <= 0) OBVIOUS
<1> HIDE DEF rules
<1>6. PICK six, three \in Nat : six = 6 /\ three = 3 OBVIOUS
<1>7. DOMAIN rules = 1..six /\ three \in 1..six BY <1>2, <1>6
<1>8. \A k \in 1..six : k = 1 \/ k = 2 \/ k = 3 \/ k = 4 \/ k = 5 \/ k = 6 BY <1>6
<1>9. OnlyOne(rules, six, three, "ACTIVE_ELIGIBLE") BY <1>3, <1>6, <1>8 DEF OnlyOne
<1>10. FirstOf(rules, "ACTIVE_ELIGIBLE") = rules[three][1] BY <1>1, <1>3, <1>6
<1>11. rules[three][2] /\ \A k \in 1..three - 1 : ~rules[k][2] BY <1>7, <1>9, <1>10, FirstNamed
<1>12. 2 \in 1..three - 1 BY <1>6
<1> QED BY <1>4, <1>5, <1>6, <1>11, <1>12

LEMMA RouteIs ==
  ASSUME NEW rows, NEW c
  PROVE  c.status = "INSUFFICIENT_DATA" => RouteOf(rows, c) \in {"RED_TEAM_REVIEW", "DATA_COMPLETION"}
<1>1. PICK against, status : against = ChallengesOf(rows, c) /\ status = c.status OBVIOUS
<1> DEFINE rules == <<<<"RED_TEAM_REVIEW", against # {}>>,
            <<"DATA_COMPLETION", status = "INSUFFICIENT_DATA">>,
            <<"EVIDENCE_REVIEW", status = "CONFIRMED">>,
            <<"FOLLOW_UP", status = "WATCH">>>>
<1>2. RouteOf(rows, c) = FirstOf(rules, "CONTEXT_ONLY") BY <1>1 DEF RouteOf
<1>3. DOMAIN rules = 1..4 OBVIOUS
<1>4. rules[1][1] = "RED_TEAM_REVIEW" /\ rules[2][1] = "DATA_COMPLETION" OBVIOUS
<1>6. (rules[2][2] <=> status = "INSUFFICIENT_DATA") OBVIOUS
<1> HIDE DEF rules
<1>7. PICK four, two \in Nat : four = 4 /\ two = 2 OBVIOUS
<1>8. DOMAIN rules = 1..four /\ two \in 1..four BY <1>3, <1>7
<1>10. ASSUME status = "INSUFFICIENT_DATA" PROVE FirstOf(rules, "CONTEXT_ONLY") \in {rules[1][1], rules[2][1]}
  <2>1. rules[two][2] BY <1>6, <1>7, <1>10
  <2>2. PICK k \in 1..two : FirstOf(rules, "CONTEXT_ONLY") = rules[k][1] BY <1>8, <2>1, RuleBefore
  <2>3. k = 1 \/ k = 2 BY <1>7
  <2> QED BY <2>2, <2>3
<1> QED BY <1>1, <1>2, <1>4, <1>10

LEMMA GapExplained ==
  ASSUME NEW rows, NEW c, c.evidence.missing # {}
  PROVE  ExplanationOf(rows, c) \in {"RED_TEAM_CHALLENGED", "DATA_GAPS_PRESENT"}
<1>1. PICK against, missing, known : /\ against = ChallengesOf(rows, c) /\ missing = c.evidence.missing
                                     /\ known = c.evidence.known
  OBVIOUS
<1> DEFINE rules == <<<<"RED_TEAM_CHALLENGED", against # {}>>,
            <<"DATA_GAPS_PRESENT", missing # {}>>,
            <<"UNEXPLAINED_EVIDENCE", known \cap Unexplained # {}>>>>
<1>2. ExplanationOf(rows, c) = FirstOf(rules, "STRUCTURALLY_EXPLAINED") BY <1>1 DEF ExplanationOf
<1>3. DOMAIN rules = 1..3 OBVIOUS
<1>4. rules[1][1] = "RED_TEAM_CHALLENGED" /\ rules[2][1] = "DATA_GAPS_PRESENT" OBVIOUS
<1>5. rules[2][2] BY <1>1
<1> HIDE DEF rules
<1>6. PICK three, two \in Nat : three = 3 /\ two = 2 OBVIOUS
<1>7. DOMAIN rules = 1..three /\ two \in 1..three /\ rules[two][2] BY <1>3, <1>5, <1>6
<1>8. PICK k \in 1..two : FirstOf(rules, "STRUCTURALLY_EXPLAINED") = rules[k][1] BY <1>7, RuleBefore
<1>9. k = 1 \/ k = 2 BY <1>6
<1> QED BY <1>2, <1>4, <1>8, <1>9

-------------------------------------------------------------------------------
\* What is said of a case.
LEMMA BarredIs ==
  ASSUME NEW rows, NEW c, Settable(c)
  PROVE  LET b == Barred(rows, c)
         IN /\ b.type = c.type /\ b.symbol = c.symbol /\ b.evidence = c.evidence /\ b.key = c.key
            /\ b.status # "REJECTED" \/ IsRisk(c) => b = c
            /\ EligibilityOf(rows, c.symbol) = "EXPIRED" /\ ~IsRisk(c) => b.status = "REJECTED"
            /\ b # c => EligibilityOf(rows, c.symbol) = "EXPIRED"
<1>1. PICK d : d = [c EXCEPT !.status = "REJECTED"] OBVIOUS
<1>2. /\ d.type = c.type /\ d.symbol = c.symbol /\ d.evidence = c.evidence /\ d.key = c.key /\ d.status = "REJECTED"
  BY <1>1 DEF Settable
<1>3. Barred(rows, c) = IF EligibilityOf(rows, c.symbol) = "EXPIRED" /\ ~IsRisk(c) THEN d ELSE c BY <1>1 DEF Barred
<1> QED BY <1>2, <1>3

LEMMA ChallengesAre ==
  ASSUME NEW rows, NEW c, NEW r, RowOf(rows, c.symbol) = <<r>>
  PROVE  LET against == ChallengesOf(rows, c)
         IN /\ "LOW_CONFIDENCE" \in against <=> (Known(r.confidence) /\ r.confidence < 90)
            /\ "LIQUIDITY" \in against <=> (Known(r.liquidity) /\ r.liquidity < 15)
            /\ "EXECUTION" \in against <=> (Known(r.penalty) /\ r.penalty > 10)
            /\ "EXPIRY" \in against <=> (Known(r.days) /\ r.days <= 10 /\ ~IsRisk(c))
<1>1. PICK names : names = {"FLAG", "LOW_CONFIDENCE", "LIQUIDITY", "EXECUTION", "EXPIRY"} OBVIOUS
<1>2. RowOf(rows, c.symbol) # <<>> /\ RowOf(rows, c.symbol)[1] = r OBVIOUS
<1>3. ChallengesOf(rows, c) =
        {n \in names :
             \/ n = "FLAG" /\ r.flagged
             \/ n = "LOW_CONFIDENCE" /\ Known(r.confidence) /\ r.confidence < 90
             \/ n = "LIQUIDITY" /\ Known(r.liquidity) /\ r.liquidity < 15
             \/ n = "EXECUTION" /\ Known(r.penalty) /\ r.penalty > 10
             \/ n = "EXPIRY" /\ Known(r.days) /\ r.days <= 10 /\ ~IsRisk(c)}
  BY <1>1, <1>2 DEF ChallengesOf
<1>4. /\ "LOW_CONFIDENCE" \in names /\ "LIQUIDITY" \in names /\ "EXECUTION" \in names /\ "EXPIRY" \in names BY <1>1
<1>5. "LOW_CONFIDENCE" \in ChallengesOf(rows, c) <=> (Known(r.confidence) /\ r.confidence < 90) BY <1>3, <1>4
<1>6. "LIQUIDITY" \in ChallengesOf(rows, c) <=> (Known(r.liquidity) /\ r.liquidity < 15) BY <1>3, <1>4
<1>7. "EXECUTION" \in ChallengesOf(rows, c) <=> (Known(r.penalty) /\ r.penalty > 10) BY <1>3, <1>4
<1>8. "EXPIRY" \in ChallengesOf(rows, c) <=> (Known(r.days) /\ r.days <= 10 /\ ~IsRisk(c)) BY <1>3, <1>4
<1> QED BY <1>5, <1>6, <1>7, <1>8

\* The case behind a case of a run.
LEMMA CaseBehind ==
  ASSUME NEW rows, NEW c, CaseIs(rows, c)
  PROVE  Gapped(c) /\ Settable(c)
<1>1. CASE ContractCaseOf(rows, c)
  <2>1. PICK i \in DOMAIN rows : c \in CasesOfOne(rows[i]) BY <1>1 DEF ContractCaseOf
  <2> QED BY <2>1, OneContract
<1>2. CASE \E key \in ChainKeys(rows) : ChainCaseOf(rows, key, c)
  BY <1>2 DEF ChainCaseOf
<1> QED BY <1>1, <1>2 DEF CaseIs

LEMMA RiskIs ==
  ASSUME NEW r
  PROVE  /\ RiskCase(r).status = IF r.days = NA THEN "INSUFFICIENT_DATA" ELSE Graded(r.days <= 10, FALSE)
         /\ RiskCase(r).symbol = CaseSymbol(r) /\ IsRisk(RiskCase(r)) /\ Settable(RiskCase(r))
<1>1. PICK S : S = {<<"remaining_days", r.days>>} OBVIOUS
<1>2. PICK status : status = IF r.days = NA THEN "INSUFFICIENT_DATA" ELSE Graded(r.days <= 10, FALSE) OBVIOUS
<1>3. PICK c : c = ShadowCase("NEAR_EXPIRY_RISK", CaseSymbol(r), status, S, 0) OBVIOUS
<1>4. RiskCase(r) = c BY <1>1, <1>2, <1>3 DEF RiskCase
<1>5. c.type = "NEAR_EXPIRY_RISK" /\ c.symbol = CaseSymbol(r) /\ c.status = status /\ Settable(c) BY <1>3, CaseFields
<1> QED BY <1>2, <1>4, <1>5 DEF IsRisk

LEMMA ExpiredCase ==
  ASSUME NEW rows \in Seq(ScoredRow), NEW c, CaseIs(rows, c), EligibilityOf(rows, c.symbol) = "EXPIRED"
  PROVE  \E k \in DOMAIN rows : /\ rows[k].name # "" /\ c.symbol = CaseSymbol(rows[k])
                                /\ RiskCase(rows[k]).status = "CONFIRMED"
<1>1. PICK symbol : symbol = c.symbol OBVIOUS
<1>2. RowOf(rows, symbol) # <<>>
  <2>1. RowOf(rows, symbol) = <<>> => EligibilityOf(rows, symbol) = "CHAIN_LEVEL" BY DEF EligibilityOf
  <2> QED BY <1>1, <2>1
<1>3. PICK k \in DOMAIN rows : CaseSymbol(rows[k]) = symbol /\ RowOf(rows, symbol) = <<rows[k]>> BY <1>2, LastRow
<1>4. PICK r \in ScoredRow : r = rows[k] OBVIOUS
<1>5. RowOf(rows, symbol)[1] = r BY <1>3, <1>4
<1>6. ClassifyRow(r) = "EXPIRED" BY <1>1, <1>2, <1>5 DEF EligibilityOf
<1>7. r.days # NA /\ r.days <= 0 /\ r.days \in Int
  <2>1. r.days \in Int BY DEF ScoredRow
  <2> QED BY <1>6, <2>1, ExpiredRow
<1>8. RiskCase(r).status = "CONFIRMED"
  <2>1. r.days <= 10 BY <1>7
  <2>2. Graded(r.days <= 10, FALSE) = "CONFIRMED" BY <2>1 DEF Graded
  <2>3. RiskCase(r).status = IF r.days = NA THEN "INSUFFICIENT_DATA" ELSE Graded(r.days <= 10, FALSE)
    BY RiskIs
  <2> QED BY <1>7, <2>2, <2>3
<1>9. ContractCaseOf(rows, c)
  <2>1. ASSUME NEW key \in ChainKeys(rows), ChainCaseOf(rows, key, c) PROVE FALSE
    <3>1. symbol = key BY <1>1, <2>1 DEF ChainCaseOf
    <3> QED BY <1>2, <3>1, NoSuchSymbol
  <2> QED BY <2>1 DEF CaseIs
<1>10. PICK i \in DOMAIN rows : rows[i].name # "" /\ c \in CasesOfOne(rows[i]) BY <1>9 DEF ContractCaseOf
<1>11. symbol = CaseSymbol(rows[i]) BY <1>1, <1>10, OneContract
<1>12. rows[i].name = rows[k].name BY <1>3, <1>11 DEF CaseSymbol
<1> QED BY <1>1, <1>3, <1>4, <1>8, <1>10, <1>12

\* The cases of a run, as ShadowRunIs gives them.
Run(rows, cases) ==
  /\ DOMAIN cases = 1..Len(cases)
  /\ \A n \in DOMAIN cases : \E c : cases[n] = Barred(rows, c) /\ CaseIs(rows, c)
  /\ \A i \in DOMAIN rows : rows[i].name # "" => \E n \in DOMAIN cases : cases[n] = Barred(rows, RiskCase(rows[i]))
  /\ \A key \in ChainKeys(rows) : \A c : In(c, PairCases(rows, key)) => \E n \in DOMAIN cases : cases[n] = Barred(rows, c)

LEMMA GapIsTold ==
  ASSUME NEW rows, NEW cases, Run(rows, cases), NEW i \in DOMAIN cases, cases[i].status = "INSUFFICIENT_DATA"
  PROVE  /\ ExplanationOf(rows, cases[i]) \in {"RED_TEAM_CHALLENGED", "DATA_GAPS_PRESENT"}
         /\ RouteOf(rows, cases[i]) \in {"RED_TEAM_REVIEW", "DATA_COMPLETION"}
<1>1. PICK b : b = cases[i] OBVIOUS
<1>2. PICK c : b = Barred(rows, c) /\ CaseIs(rows, c) BY <1>1 DEF Run
<1>3. Gapped(c) /\ Settable(c) BY <1>2, CaseBehind
<1>4. b.status # "REJECTED" BY <1>1
<1>5. b = c BY <1>2, <1>3, <1>4, BarredIs
<1>6. b.evidence.missing # {} BY <1>1, <1>3, <1>5 DEF Gapped
<1> QED BY <1>1, <1>6, GapExplained, RouteIs

LEMMA ExpiredIs ==
  ASSUME NEW rows \in Seq(ScoredRow), NEW cases, Run(rows, cases), NEW i \in DOMAIN cases,
         EligibilityOf(rows, cases[i].symbol) = "EXPIRED"
  PROVE  /\ ~IsRisk(cases[i]) => cases[i].status = "REJECTED"
         /\ \E j \in DOMAIN cases : cases[j].symbol = cases[i].symbol /\ IsRisk(cases[j]) /\ cases[j].status = "CONFIRMED"
         /\ cases[i].symbol \notin ClusterSymbols(rows, cases)
<1>1. PICK b, s : b = cases[i] /\ s = b.symbol OBVIOUS
<1>2. PICK c : b = Barred(rows, c) /\ CaseIs(rows, c) BY <1>1 DEF Run
<1>3. Settable(c) BY <1>2, CaseBehind
<1>4. b.type = c.type /\ s = c.symbol BY <1>1, <1>2, <1>3, BarredIs
<1>5. EligibilityOf(rows, s) = "EXPIRED" BY <1>1
<1>6. ~IsRisk(b) => b.status = "REJECTED" BY <1>2, <1>3, <1>4, <1>5, BarredIs DEF IsRisk
<1>7. PICK k \in DOMAIN rows : rows[k].name # "" /\ s = CaseSymbol(rows[k]) /\ RiskCase(rows[k]).status = "CONFIRMED"
  BY <1>2, <1>4, <1>5, ExpiredCase
<1>8. PICK d : d = RiskCase(rows[k]) OBVIOUS
<1>9. d.symbol = s /\ IsRisk(d) /\ d.status = "CONFIRMED" /\ Settable(d)
  BY <1>7, <1>8, RiskIs
<1>10. PICK j \in DOMAIN cases : cases[j] = Barred(rows, d) BY <1>7, <1>8 DEF Run
<1>11. cases[j] = d BY <1>9, <1>10, BarredIs
<1>12. s \notin ClusterSymbols(rows, cases)
  <2>1. PICK F : F = FamiliesOf(rows, cases, s) OBVIOUS
  <2>2. ASSUME NEW n \in MembersOf(rows, cases, s) PROVE CaseFamily(cases[n]) = "TIME_RISK"
    <3>1. cases[n].symbol = s /\ ActiveCase(rows, cases[n]) BY DEF MembersOf
    <3>2. IsRisk(cases[n]) BY <1>5, <3>1 DEF ActiveCase
    <3>3. PICK type : type = cases[n].type OBVIOUS
    <3>4. type = "NEAR_EXPIRY_RISK" BY <3>2, <3>3 DEF IsRisk
    <3> QED BY <3>3, <3>4 DEF CaseFamily
  <2>3. \A x \in F : x = "TIME_RISK" BY <2>1, <2>2 DEF FamiliesOf
  <2>4. PICK T : T = {"TIME_RISK"} OBVIOUS
  <2>5. F \in SUBSET T BY <2>3, <2>4
  <2>6. IsFiniteSet(T) /\ Cardinality(T) = 1 BY <2>4, FS_Singleton
  <2>7. IsFiniteSet(F) /\ Cardinality(F) <= Cardinality(T) BY <2>5, <2>6, FS_Subset
  <2>8. Cardinality(F) \in Nat BY <2>7, FS_CardinalityType
  <2>9. ~(Cardinality(F) >= 2) BY <2>6, <2>7, <2>8
  <2> QED BY <2>1, <2>9 DEF ClusterSymbols
<1> QED BY <1>1, <1>6, <1>9, <1>11, <1>12

-------------------------------------------------------------------------------
\* The thresholds of the engine and of the red team.
LEMMA LinesAre ==
  ASSUME NEW rows \in Seq(ScoredRow), NEW cases, Run(rows, cases), NEW i \in DOMAIN cases,
         Alone(rows, cases[i].symbol), NEW b, b = cases[i], NEW against, against = ChallengesOf(rows, b)
  PROVE  /\ b.status = "CONFIRMED" => against \cap AgainstGrounds(b.type) = {}
         /\ b.type = "LIQUIDITY_CONFIRMED" /\ b.status \in {"WATCH", "REJECTED"} =>
              against \cap {"LIQUIDITY", "EXECUTION", "EXPIRY"} # {}
         /\ IsRisk(b) => \A j \in DOMAIN cases : cases[j].symbol = b.symbol /\ ~IsRisk(cases[j]) =>
              ("EXPIRY" \in ChallengesOf(rows, cases[j]) <=> b.status = "CONFIRMED")
<1>1. PICK c : b = Barred(rows, c) /\ CaseIs(rows, c) BY DEF Run
<1>2. Settable(c) BY <1>1, CaseBehind
<1>3. /\ b.type = c.type /\ b.symbol = c.symbol
      /\ b.status # "REJECTED" \/ IsRisk(c) => b = c
      /\ b # c => EligibilityOf(rows, c.symbol) = "EXPIRED"
  BY <1>1, <1>2, BarredIs
<1>4. CASE \E key \in ChainKeys(rows) : ChainCaseOf(rows, key, c)
  <2>1. c.type \in ChainTypes /\ c.status # "CONFIRMED" BY <1>4 DEF ChainCaseOf
  <2>2. b.status # "CONFIRMED" BY <1>3, <2>1
  <2>3. b.type # "LIQUIDITY_CONFIRMED" /\ ~IsRisk(b) BY <1>3, <2>1 DEF ChainTypes, IsRisk
  <2> QED BY <2>2, <2>3
<1>5. CASE ContractCaseOf(rows, c)
  <2>1. PICK k \in DOMAIN rows : c \in CasesOfOne(rows[k]) BY <1>5 DEF ContractCaseOf
  <2>2. PICK r \in ScoredRow : r = rows[k] OBVIOUS
  <2>3. b.symbol = CaseSymbol(r) BY <1>3, <2>1, <2>2, OneContract
  <2>4. RowOf(rows, b.symbol) = <<r>>
    <3>1. RowOf(rows, b.symbol) # <<>> BY <2>2, <2>3, LastRow
    <3>2. PICK j \in DOMAIN rows : CaseSymbol(rows[j]) = b.symbol /\ RowOf(rows, b.symbol) = <<rows[j]>> BY <3>1, LastRow
    <3>3. j = k BY <2>2, <2>3, <3>2 DEF Alone
    <3> QED BY <2>2, <3>2, <3>3
  <2>5. PICK liquidity, confidence, penalty, days \in Int :
          liquidity = r.liquidity /\ confidence = r.confidence /\ penalty = r.penalty /\ days = r.days
    BY DEF ScoredRow
  <2>6. /\ "LOW_CONFIDENCE" \in against <=> (confidence # NA /\ confidence < 90)
        /\ "LIQUIDITY" \in against <=> (liquidity # NA /\ liquidity < 15)
        /\ "EXECUTION" \in against <=> (penalty # NA /\ penalty > 10)
        /\ "EXPIRY" \in against <=> (days # NA /\ days <= 10 /\ ~IsRisk(b))
    BY <2>4, <2>5, ChallengesAre DEF Known
  <2>7. Confident(r) => ~(confidence < 90) BY <2>5 DEF Confident
  <2>8. LiquidEnough(r) <=> liquidity # NA /\ ~(liquidity < 15)
    <3>1. 100 * liquidity >= 75 * 20 <=> ~(liquidity < 15) OBVIOUS
    <3> QED BY <2>5, <3>1 DEF LiquidEnough, Known
  <2>9. /\ c.type = "RELATIVE_VALUE_ANOMALY" /\ c.status = "CONFIRMED" => Confident(r) /\ LiquidEnough(r)
        /\ c.type = "BREAKEVEN_COMPRESSION" /\ c.status = "CONFIRMED" => Confident(r)
        /\ c.type = "LIQUIDITY_CONFIRMED" /\ c.status = "CONFIRMED" => LiquidEnough(r) /\ penalty <= 10
        /\ c.type = "LIQUIDITY_CONFIRMED" /\ c.status = "WATCH" => penalty # NA /\ ~(penalty <= 10)
        /\ c.type = "LIQUIDITY_CONFIRMED" /\ c.status = "REJECTED" => liquidity # NA /\ ~LiquidEnough(r)
        /\ IsRisk(c) => (c.status = "CONFIRMED" <=> days # NA /\ days <= 10)
    BY <2>1, <2>2, <2>5, StatusIs
  <2>10. ASSUME b.status = "CONFIRMED" PROVE against \cap AgainstGrounds(b.type) = {}
    <3>1. b = c BY <1>3, <2>10
    <3>2. PICK type : type = b.type OBVIOUS
    <3>3. CASE type = "RELATIVE_VALUE_ANOMALY"
      <4>1. "LIQUIDITY" \notin against /\ "LOW_CONFIDENCE" \notin against
        BY <2>6, <2>7, <2>8, <2>9, <2>10, <3>1, <3>2, <3>3
      <4>2. AgainstGrounds(type) = {"LIQUIDITY", "LOW_CONFIDENCE"} BY <3>3 DEF AgainstGrounds
      <4> QED BY <3>2, <4>1, <4>2
    <3>4. CASE type = "BREAKEVEN_COMPRESSION"
      <4>1. "LOW_CONFIDENCE" \notin against BY <2>6, <2>7, <2>9, <2>10, <3>1, <3>2, <3>4
      <4>2. AgainstGrounds(type) = {"LOW_CONFIDENCE"} BY <3>4 DEF AgainstGrounds
      <4> QED BY <3>2, <4>1, <4>2
    <3>5. CASE type = "LIQUIDITY_CONFIRMED"
      <4>1. "LIQUIDITY" \notin against /\ "EXECUTION" \notin against
        BY <2>6, <2>8, <2>9, <2>10, <3>1, <3>2, <3>5
      <4>2. AgainstGrounds(type) = {"LIQUIDITY", "EXECUTION"} BY <3>5 DEF AgainstGrounds
      <4> QED BY <3>2, <4>1, <4>2
    <3>6. CASE ~(type = "RELATIVE_VALUE_ANOMALY" \/ type = "BREAKEVEN_COMPRESSION" \/ type = "LIQUIDITY_CONFIRMED")
      <4>1. AgainstGrounds(type) = {} BY <3>6 DEF AgainstGrounds
      <4> QED BY <3>2, <4>1
    <3> QED BY <3>3, <3>4, <3>5, <3>6
  <2>11. ASSUME b.type = "LIQUIDITY_CONFIRMED", b.status \in {"WATCH", "REJECTED"}
         PROVE  against \cap {"LIQUIDITY", "EXECUTION", "EXPIRY"} # {}
    <3>1. CASE b = c
      <4>1. c.type = "LIQUIDITY_CONFIRMED" /\ (c.status = "WATCH" \/ c.status = "REJECTED") BY <2>11, <3>1
      <4>2. "LIQUIDITY" \in against \/ "EXECUTION" \in against BY <2>6, <2>8, <2>9, <4>1
      <4> QED BY <4>2
    <3>2. CASE b # c
      <4>1. EligibilityOf(rows, b.symbol) = "EXPIRED" BY <1>3, <3>2
      <4>2. RowOf(rows, b.symbol) # <<>> /\ RowOf(rows, b.symbol)[1] = r BY <2>4
      <4>3. ClassifyRow(r) = "EXPIRED" BY <4>1, <4>2 DEF EligibilityOf
      <4>4. days # NA /\ days <= 0 BY <2>5, <4>3, ExpiredRow
      <4>5. days <= 10 BY <4>4
      <4>6. ~IsRisk(b) BY <2>11 DEF IsRisk
      <4>7. "EXPIRY" \in against BY <2>6, <4>4, <4>5, <4>6
      <4> QED BY <4>7
    <3> QED BY <3>1, <3>2
  <2>12. ASSUME IsRisk(b), NEW j \in DOMAIN cases, cases[j].symbol = b.symbol, ~IsRisk(cases[j])
         PROVE  "EXPIRY" \in ChallengesOf(rows, cases[j]) <=> b.status = "CONFIRMED"
    <3>1. IsRisk(c) /\ b = c BY <1>3, <2>12 DEF IsRisk
    <3>2. PICK d : d = cases[j] OBVIOUS
    <3>3. RowOf(rows, d.symbol) = <<r>> BY <2>4, <2>12, <3>2
    <3>4. "EXPIRY" \in ChallengesOf(rows, d) <=> (days # NA /\ days <= 10 /\ ~IsRisk(d))
      BY <2>5, <3>3, ChallengesAre DEF Known
    <3> QED BY <2>9, <2>12, <3>1, <3>2, <3>4
  <2> QED BY <2>10, <2>11, <2>12
<1> QED BY <1>1, <1>4, <1>5 DEF CaseIs

-------------------------------------------------------------------------------
\* The rows of a pair, where a name is of one contract.
SameContract(r, q) ==
  r.underlying = q.underlying /\ r.expiry = q.expiry /\ r.strike = q.strike /\ r.type = q.type

LEMMA IdentityIs ==
  ASSUME NEW rows \in Seq(ScoredRow), OneContractEach(rows), NEW key, NEW i \in ChainRows(rows, key), NEW which
  PROVE  SameContract(IdentityOf(rows, i, which), rows[i])
<1>1. PICK n \in Nat : n = Len(rows) /\ DOMAIN rows = 1..n OBVIOUS
<1>2. PICK T : T = IdentitiesOf(rows, i) OBVIOUS
<1>3. i \in 1..n /\ ValidIdentity(rows[i]) BY <1>1 DEF ChainRows
<1>4. T \in SUBSET (1..n) /\ i \in T BY <1>1, <1>2, <1>3 DEF IdentitiesOf
<1>5. PICK last \in T : last = Max(T) BY <1>1, <1>4, LargestIs
<1>6. PICK first \in T : first = Min(T)
  <2>1. T \in SUBSET Nat
    <3>1. \A x \in 1..n : x \in Nat OBVIOUS
    <3> QED BY <1>4, <3>1
  <2>2. PICK x \in T : \A y \in T : x <= y BY <1>4, <2>1, Smallest
  <2>3. Min(T) \in T BY <2>2 DEF Min
  <2> QED BY <2>3
<1>7. \A j \in T : rows[j].name = rows[i].name /\ j \in DOMAIN rows
  <2> TAKE j \in T
  <2>1. j \in DOMAIN rows /\ CleanText(CaseSymbol(rows[j])) = CleanText(CaseSymbol(rows[i])) BY <1>2 DEF IdentitiesOf
  <2>2. <<rows[j].name, "plain">> = <<rows[i].name, "plain">> BY <2>1 DEF CleanText, CaseSymbol
  <2> QED BY <2>1, <2>2
<1>8. \A j \in T : SameContract(rows[j], rows[i]) BY <1>1, <1>3, <1>7 DEF OneContractEach, SameContract
<1>9. IdentityOf(rows, i, which) = rows[first] \/ IdentityOf(rows, i, which) = rows[last]
  BY <1>2, <1>5, <1>6 DEF IdentityOf
<1> QED BY <1>8, <1>9

LEMMA FoundAgain ==
  ASSUME NEW rows \in Seq(ScoredRow), NEW i \in DOMAIN rows, MemberRow(rows, i) # <<>>
  PROVE  \E j \in DOMAIN rows : MemberRow(rows, i) = <<rows[j]>> /\ rows[j].name = rows[i].name
<1>1. PICK symbol : symbol = CleanText(CaseSymbol(rows[i])) OBVIOUS
<1>2. MemberRow(rows, i) = RowOf(rows, symbol) BY <1>1 DEF MemberRow
<1>3. PICK j \in DOMAIN rows : CaseSymbol(rows[j]) = symbol /\ RowOf(rows, symbol) = <<rows[j]>> BY <1>2, LastRow
<1>4. <<rows[j].name, rows[j].written>> = <<rows[i].name, "plain">> BY <1>1, <1>3 DEF CleanText, CaseSymbol
<1> QED BY <1>2, <1>3, <1>4

LEMMA SideIs ==
  ASSUME NEW rows \in Seq(ScoredRow), OneContractEach(rows), NEW key, NEW type,
         NEW strike \in StrikesOf(rows, ChainRows(rows, key), type, "last"),
         NEW side, side = SideAt(rows, ChainRows(rows, key), type, strike)
  PROVE  /\ ValidIdentity(side) /\ ChainKey(side) = key /\ side.type = type /\ side.strike = strike
         /\ strike # NaNStrike
<1>1. PICK n \in Nat : n = Len(rows) /\ DOMAIN rows = 1..n OBVIOUS
<1>2. PICK chain : chain = ChainRows(rows, key) OBVIOUS
<1>3. PICK last : last = "last" OBVIOUS
<1>4. PICK T : T = {i \in MembersAs(rows, chain, type, last) : IdentityOf(rows, i, last).strike = strike} OBVIOUS
<1>5. T # {} /\ strike # NaNStrike BY <1>2, <1>3, <1>4 DEF StrikesOf
<1>6. \A i \in T : i \in chain /\ i \in 1..n /\ MemberRow(rows, i) # <<>>
                  /\ IdentityOf(rows, i, last).type = type /\ IdentityOf(rows, i, last).strike = strike
  BY <1>1, <1>2, <1>4 DEF MembersAs, FoundMembers, ChainRows
<1>7. T \in SUBSET (1..n) BY <1>6
<1>8. PICK m \in T : m = Max(T) BY <1>1, <1>5, <1>7, LargestIs
<1>9. side = MemberRow(rows, m)[1] BY <1>2, <1>3, <1>4, <1>8 DEF SideAt
<1>10. m \in ChainRows(rows, key) /\ m \in DOMAIN rows /\ MemberRow(rows, m) # <<>> BY <1>1, <1>2, <1>6
<1>11. rows[m].type = type /\ rows[m].strike = strike
  <2>1. SameContract(IdentityOf(rows, m, last), rows[m]) BY <1>10, IdentityIs
  <2> QED BY <1>6, <2>1 DEF SameContract
<1>12. PICK j \in DOMAIN rows : MemberRow(rows, m) = <<rows[j]>> /\ rows[j].name = rows[m].name BY <1>10, FoundAgain
<1>13. side = rows[j] BY <1>9, <1>12
<1>14. SameContract(side, rows[m]) BY <1>10, <1>12, <1>13 DEF OneContractEach, SameContract
<1>15. ValidIdentity(rows[m]) /\ ChainKey(rows[m]) = key BY <1>10 DEF ChainRows
<1> QED BY <1>5, <1>11, <1>14, <1>15 DEF SameContract, ValidIdentity, ChainKey

LEMMA SameStrikes ==
  ASSUME NEW rows \in Seq(ScoredRow), OneContractEach(rows), NEW key
  PROVE  Common(rows, key, "first") = Common(rows, key, "last")
<1>1. PICK chain : chain = ChainRows(rows, key) OBVIOUS
<1>2. PICK first, last : first = "first" /\ last = "last" OBVIOUS
<1>3. \A i \in chain : \A which : /\ IdentityOf(rows, i, which).type = rows[i].type
                                 /\ IdentityOf(rows, i, which).strike = rows[i].strike
  BY <1>1, IdentityIs DEF SameContract
<1>4. \A type, which : MembersAs(rows, chain, type, which) = {i \in FoundMembers(rows, chain) : rows[i].type = type}
  <2>1. \A i \in FoundMembers(rows, chain) : i \in chain BY DEF FoundMembers
  <2> QED BY <1>3, <2>1 DEF MembersAs
<1>5. ASSUME NEW type, NEW which
      PROVE  StrikesOf(rows, chain, type, which)
               = {rows[i].strike : i \in {x \in FoundMembers(rows, chain) : rows[x].type = type}} \ {NaNStrike}
  <2>1. PICK M : M = {x \in FoundMembers(rows, chain) : rows[x].type = type} OBVIOUS
  <2>2. MembersAs(rows, chain, type, which) = M BY <1>4, <2>1
  <2>3. \A i \in M : IdentityOf(rows, i, which).strike = rows[i].strike
    <3>1. \A i \in M : i \in chain BY <2>1 DEF FoundMembers
    <3> QED BY <1>3, <3>1
  <2>4. {IdentityOf(rows, i, which).strike : i \in M} = {rows[i].strike : i \in M} BY <2>3
  <2> QED BY <2>1, <2>2, <2>4 DEF StrikesOf
<1>6. CommonStrikes(rows, chain, first) = CommonStrikes(rows, chain, last) BY <1>5 DEF CommonStrikes
<1> QED BY <1>1, <1>2, <1>6 DEF Common

LEMMA PairIsTrue ==
  ASSUME NEW rows \in Seq(ScoredRow), NEW cases, Run(rows, cases), OneContractEach(rows), NEW i \in DOMAIN cases,
         NEW d, d = cases[i], NEW chain, chain = ChainRows(rows, d.symbol)
  PROVE  /\ d.type = "RELATIVE_PAIR_STRUCTURE" => \A type \in {"CALL", "PUT"} :
              LET side == SideAt(rows, chain, type, d.key)
              IN /\ ValidIdentity(side) /\ ChainKey(side) = d.symbol /\ side.type = type /\ side.strike = d.key
                 /\ \A a, b \in chain : (/\ rows[a].type = type /\ rows[a].strike = d.key
                                          /\ rows[b].type = type /\ rows[b].strike = d.key) => a = b
         /\ d.type = "CALL_PUT_STRUCTURE_AVAILABLE" =>
              \E j \in DOMAIN cases : cases[j].symbol = d.symbol /\ cases[j].type = "RELATIVE_PAIR_STRUCTURE"
<1>1. PICK c : d = Barred(rows, c) /\ CaseIs(rows, c) BY DEF Run
<1>2. Settable(c) BY <1>1, CaseBehind
<1>3. d.type = c.type /\ d.symbol = c.symbol /\ d.key = c.key BY <1>1, <1>2, BarredIs
<1>4. CASE d.type \notin PairTypes BY <1>4 DEF PairTypes
<1>5. CASE d.type \in PairTypes
  <2>1. ~ContractCaseOf(rows, c)
    <3>1. \A k \in DOMAIN rows : c \in CasesOfOne(rows[k]) => c.type \notin PairTypes BY OneContract
    <3> QED BY <1>3, <1>5, <3>1 DEF ContractCaseOf
  <2>2. PICK key \in ChainKeys(rows) : ChainCaseOf(rows, key, c) BY <1>1, <2>1 DEF CaseIs
  <2>3. key = d.symbol /\ chain = ChainRows(rows, key) BY <1>3, <2>2 DEF ChainCaseOf
  <2>4. ASSUME d.type = "RELATIVE_PAIR_STRUCTURE", NEW type \in {"CALL", "PUT"}, NEW side, side = SideAt(rows, chain, type, d.key)
        PROVE  /\ ValidIdentity(side) /\ ChainKey(side) = d.symbol /\ side.type = type /\ side.strike = d.key
               /\ \A a, b \in chain : (/\ rows[a].type = type /\ rows[a].strike = d.key
                                        /\ rows[b].type = type /\ rows[b].strike = d.key) => a = b
    <3>1. PICK strike : strike = d.key OBVIOUS
    <3>2. strike \in Common(rows, key, "last") BY <1>3, <2>2, <2>4, <3>1 DEF ChainCaseOf
    <3>3. ~DuplicateIdentities(rows, chain) /\ strike \in CommonStrikes(rows, chain, "last") BY <2>3, <3>2 DEF Common
    <3>4. strike \in StrikesOf(rows, chain, type, "last") BY <2>4, <3>3 DEF CommonStrikes
    <3>5. /\ ValidIdentity(side) /\ ChainKey(side) = key /\ side.type = type /\ side.strike = strike
          /\ strike # NaNStrike
      BY <2>3, <2>4, <3>1, <3>4, SideIs
    <3>6. PICK n \in Nat : DOMAIN rows = 1..n
      <4>1. Len(rows) \in Nat /\ DOMAIN rows = 1..Len(rows) OBVIOUS
      <4> QED BY <4>1
    <3>7. \A a \in chain : a \in 1..n BY <3>6 DEF ChainRows
    <3>8. ASSUME NEW a \in chain, NEW b \in chain, rows[a].type = type, rows[a].strike = strike,
                 rows[b].type = type, rows[b].strike = strike, a # b
          PROVE  FALSE
      <4>1. a \in 1..n /\ b \in 1..n BY <3>7
      <4>2. a < b \/ b < a BY <3>8, <4>1
      <4> QED BY <3>3, <3>5, <3>8, <4>2 DEF DuplicateIdentities
    <3> QED BY <2>3, <3>1, <3>5, <3>8
  <2>5. ASSUME d.type = "CALL_PUT_STRUCTURE_AVAILABLE"
        PROVE  \E j \in DOMAIN cases : cases[j].symbol = d.symbol /\ cases[j].type = "RELATIVE_PAIR_STRUCTURE"
    <3>1. Common(rows, key, "last") # {} BY <1>3, <2>2, <2>5, SameStrikes DEF ChainCaseOf
    <3>2. PICK e : In(e, PairCases(rows, key)) /\ e.type = "RELATIVE_PAIR_STRUCTURE" BY <3>1, PairCasesAre
    <3>3. ChainCaseOf(rows, key, e) BY <3>2, PairCasesAre
    <3>4. e.symbol = key /\ Settable(e) BY <3>3 DEF ChainCaseOf
    <3>5. PICK j \in DOMAIN cases : cases[j] = Barred(rows, e) BY <3>2 DEF Run
    <3>6. cases[j].type = e.type /\ cases[j].symbol = e.symbol BY <3>4, <3>5, BarredIs
    <3> QED BY <2>3, <3>2, <3>4, <3>6
  <2> QED BY <2>4, <2>5
<1> QED BY <1>4, <1>5

-------------------------------------------------------------------------------
\* Whatever is scored, what the shadow engines say of their cases agrees: the engine and the
\* red team draw one line, a gap is told, an expired contract is rejected, visible by its risk
\* and in no cluster, and a pair is of the call and the put of its strike.
THEOREM CasesStaySound == ShadowSpec => []CasesAreSound
<1>1. CasesInit => CasesAreSound
  <2> SUFFICES ASSUME CasesInit PROVE CasesAreSound OBVIOUS
  <2>1. case.engine # "shadow" BY DEF CasesInit, NoCase
  <2>2. LinesAgree /\ GapsAreTold BY <2>1 DEF LinesAgree, GapsAreTold, Answered
  <2>3. ExpiredIsInactive /\ PairsAreTrue BY <2>1 DEF ExpiredIsInactive, PairsAreTrue, Answered
  <2> QED BY <2>2, <2>3 DEF CasesAreSound
<1>2. CasesAreSound /\ UNCHANGED case => CasesAreSound'
  <2>1. UNCHANGED case /\ LinesAgree => LinesAgree' BY DEF LinesAgree, Answered
  <2>2. UNCHANGED case /\ GapsAreTold => GapsAreTold' BY DEF GapsAreTold, Answered
  <2>3. UNCHANGED case /\ ExpiredIsInactive => ExpiredIsInactive' BY DEF ExpiredIsInactive, Answered
  <2>4. UNCHANGED case /\ PairsAreTrue => PairsAreTrue' BY DEF PairsAreTrue, Answered
  <2> QED BY <2>1, <2>2, <2>3, <2>4 DEF CasesAreSound
<1>3. ShadowCalled => CasesAreSound'
  <2> SUFFICES ASSUME ShadowCalled PROVE CasesAreSound' OBVIOUS
  <2>1. PICK called : called = case' OBVIOUS
  <2>2. PICK rows \in ScoredTables : called = [engine |-> "shadow", in |-> rows] BY <2>1 DEF ShadowCalled, Given
  <2>3. case'.in = rows BY <2>1, <2>2
  <2>4. rows \in Seq(ScoredRow) BY TableAssumption
  <2>5. PICK cases : cases = ShadowRun(rows) OBVIOUS
  <2>6. Run(rows, cases) BY <2>4, <2>5, ShadowRunIs DEF Run
  <2>7. LinesAgree'
    <3>1. \A i \in DOMAIN cases : Alone(rows, cases[i].symbol) =>
            LET c == cases[i]
                against == ChallengesOf(rows, c)
            IN /\ c.status = "CONFIRMED" => against \cap AgainstGrounds(c.type) = {}
               /\ c.type = "LIQUIDITY_CONFIRMED" /\ c.status \in {"WATCH", "REJECTED"} =>
                    against \cap {"LIQUIDITY", "EXECUTION", "EXPIRY"} # {}
               /\ IsRisk(c) => \A j \in DOMAIN cases : cases[j].symbol = c.symbol /\ ~IsRisk(cases[j]) =>
                    ("EXPIRY" \in ChallengesOf(rows, cases[j]) <=> c.status = "CONFIRMED")
      BY <2>4, <2>6, LinesAre
    <3> QED BY <2>3, <2>5, <3>1 DEF LinesAgree, Answered
  <2>8. GapsAreTold' BY <2>3, <2>5, <2>6, GapIsTold DEF GapsAreTold, Answered
  <2>9. ExpiredIsInactive' BY <2>3, <2>4, <2>5, <2>6, ExpiredIs DEF ExpiredIsInactive, Answered
  <2>10. PairsAreTrue'
    <3>1. ASSUME OneContractEach(rows), NEW i \in DOMAIN cases
          PROVE  LET c == cases[i]
                     chain == ChainRows(rows, c.symbol)
                 IN /\ c.type = "RELATIVE_PAIR_STRUCTURE" => \A type \in {"CALL", "PUT"} :
                         LET side == SideAt(rows, chain, type, c.key)
                         IN /\ ValidIdentity(side) /\ ChainKey(side) = c.symbol /\ side.type = type /\ side.strike = c.key
                            /\ \A a, b \in chain : (/\ rows[a].type = type /\ rows[a].strike = c.key
                                                     /\ rows[b].type = type /\ rows[b].strike = c.key) => a = b
                    /\ c.type = "CALL_PUT_STRUCTURE_AVAILABLE" =>
                         \E j \in DOMAIN cases : cases[j].symbol = c.symbol /\ cases[j].type = "RELATIVE_PAIR_STRUCTURE"
      BY <2>4, <2>6, <3>1, PairIsTrue
    <3> QED BY <2>3, <2>5, <3>1 DEF PairsAreTrue, Answered
  <2> QED BY <2>7, <2>8, <2>9, <2>10 DEF CasesAreSound
<1> QED BY <1>1, <1>2, <1>3, PTL DEF ShadowSpec
===============================================================================
