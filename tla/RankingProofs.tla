----------------------------- MODULE RankingProofs -----------------------------
(***************************************************************************)
(* Proofs about the rankings of the live reports, for universes and boards *)
(* of any rows.                                                            *)
(*                                                                         *)
(* What is arranged by an order stands in it, each element once            *)
(* (ArrangedIs): the order of the scores, that of the final ranking, that  *)
(* of activity and that of the pairs are each shown to be one.             *)
(*                                                                         *)
(* EconomicRanking: values compare like fractions (WithinIs), so that the  *)
(* ones within a value are among the ones within a larger one and its rank *)
(* is no worse (PercentRises, RankOfRises).  Sums of weighted parts keep   *)
(* that, of the factors of a block (BlockRises) and of the blocks          *)
(* (ScoreRises), as long as the same parts are there; and what has the     *)
(* best rank in all it has weighs all it can weigh (ScoreBest).            *)
(*                                                                         *)
(* OpportunityReport: what is shown is a beginning of one list             *)
(* (FewerAreFirst); who is eligible has a price and so a score             *)
(* (PricedIsScored), so the list holds all of them (EligibleIsScored);     *)
(* and an answer about a share is kept as soon as it is given              *)
(* (AskedKeeps).                                                           *)
(*                                                                         *)
(* BullCallSpread: the payoff of a pair is flat, rises, and is flat again  *)
(* (PayIs).  The pairs of a board, put in their order, are a list of the   *)
(* same set whichever way the board is turned (TurnedBoard), and two lists *)
(* of a set have equals at each place, since there are as many before      *)
(* (ListsAgree).                                                           *)
(***************************************************************************)
EXTENDS OpportunityReport, BullCallSpread, EngineProofs

-------------------------------------------------------------------------------
\* Each for a sequence, and a function on the first numbers as a sequence.
LEMMA FunctionIsSeq ==
  ASSUME NEW S, NEW n \in Nat, NEW f \in [1..n -> S]
  PROVE  f \o <<>> \in Seq(S) /\ f \o <<>> = f /\ Len(f \o <<>>) = n
<1>1. f \in Seq(S) /\ Len(f) = n OBVIOUS
<1> QED BY <1>1

-------------------------------------------------------------------------------
\* What is arranged: each element of the set is there once, and before the ones that come
\* after it in the order.
InLine(S, R, s) ==
  /\ s \in Seq(S) /\ Len(s) = Cardinality(S)
  /\ \A a \in S : \E m \in 1..Len(s) : s[m] = a
  /\ \A m, n \in 1..Len(s) : <<s[m], s[n]>> \in R <=> m < n
  /\ \A m, n \in 1..Len(s) : s[m] = s[n] => m = n

LEMMA ArrangedIs ==
  ASSUME NEW S, IsFiniteSet(S), NEW R, IsOrder(S, R)
  PROVE  InLine(S, R, Arranged(S, R))
<1>1. PICK size \in Nat : size = Cardinality(S) BY FS_CardinalityType
<1>2. PICK t : t = [n \in 1..size |-> CHOOSE a \in S : Cardinality({b \in S : <<b, a>> \in R}) = n - 1] OBVIOUS
<1>3. \A n \in 1..size : t[n] = CHOOSE a \in S : Cardinality({b \in S : <<b, a>> \in R}) = n - 1 BY <1>2
<1>4. \A n \in 1..size : t[n] \in S /\ Cardinality(Before(S, R, t[n])) = n - 1
  <2> TAKE n \in 1..size
  <2>1. PICK a \in S : Cardinality(Before(S, R, a)) = n - 1 BY <1>1, EachIsBefore
  <2>2. PICK before : before = n - 1 OBVIOUS
  <2>3. \E b \in S : Cardinality({d \in S : <<d, b>> \in R}) = before BY <2>1, <2>2 DEF Before
  <2>4. t[n] = CHOOSE b \in S : Cardinality({d \in S : <<d, b>> \in R}) = before BY <1>3, <2>2
  <2>5. t[n] \in S /\ Cardinality({d \in S : <<d, t[n]>> \in R}) = before BY <2>3, <2>4
  <2> QED BY <2>2, <2>5 DEF Before
<1>5. t \in [1..size -> S] BY <1>2, <1>4
<1>6. PICK s : s = Arranged(S, R) OBVIOUS
<1>7. s = t /\ s \in Seq(S) /\ Len(s) = size
  <2>1. s = t \o <<>> BY <1>1, <1>2, <1>6 DEF Arranged
  <2>2. t \in Seq(S) /\ Len(t) = size BY <1>5
  <2>3. t \o <<>> = t BY <2>2
  <2> QED BY <2>1, <2>2, <2>3
<1>8. \A n \in 1..size : s[n] \in S /\ Cardinality(Before(S, R, s[n])) = n - 1 BY <1>4, <1>7
<1>9. \A a \in S : \E m \in 1..size : s[m] = a
  <2> TAKE a \in S
  <2>1. PICK m : m = Cardinality(Before(S, R, a)) OBVIOUS
  <2>2. m \in 0..size - 1 BY <1>1, <2>1, BeforeIsFinite
  <2>3. PICK n \in 1..size : n - 1 = m
    <3>1. m + 1 \in 1..size /\ (m + 1) - 1 = m BY <2>2
    <3> QED BY <3>1
  <2>4. s[n] \in S /\ Cardinality(Before(S, R, s[n])) = Cardinality(Before(S, R, a)) BY <1>8, <2>1, <2>3
  <2>5. s[n] = a BY <2>4, BeforeIsOne
  <2> QED BY <2>5
<1>10. \A m, n \in 1..size : <<s[m], s[n]>> \in R => m < n
  <2> SUFFICES ASSUME NEW m \in 1..size, NEW n \in 1..size, <<s[m], s[n]>> \in R PROVE m < n OBVIOUS
  <2>1. PICK a, b \in S : a = s[m] /\ b = s[n] BY <1>8
  <2>2. Cardinality(Before(S, R, a)) < Cardinality(Before(S, R, b)) BY <2>1, BeforeRises
  <2>3. Cardinality(Before(S, R, a)) = m - 1 /\ Cardinality(Before(S, R, b)) = n - 1 BY <1>8, <2>1
  <2>4. m - 1 < n - 1 BY <2>2, <2>3
  <2> QED BY <2>4
<1>11. \A m, n \in 1..size : s[m] = s[n] => m = n
  <2> SUFFICES ASSUME NEW m \in 1..size, NEW n \in 1..size, s[m] = s[n] PROVE m = n OBVIOUS
  <2>1. PICK x : x = Cardinality(Before(S, R, s[m])) OBVIOUS
  <2>2. x = m - 1 /\ x = n - 1 BY <1>8, <2>1
  <2> QED BY <2>2
<1>12. \A m, n \in 1..size : m < n => <<s[m], s[n]>> \in R
  <2> SUFFICES ASSUME NEW m \in 1..size, NEW n \in 1..size, m < n PROVE <<s[m], s[n]>> \in R OBVIOUS
  <2>1. s[m] # s[n] /\ <<s[n], s[m]>> \notin R BY <1>10, <1>11
  <2> QED BY <1>8, <2>1 DEF IsOrder
<1> QED BY <1>1, <1>6, <1>7, <1>9, <1>10, <1>11, <1>12 DEF InLine

-------------------------------------------------------------------------------
\* What holds of nothing, and of each number when it does of the one before, holds of all.
LEMMA UpTo ==
  ASSUME NEW last \in Nat, NEW P, 0 \in P, \A n \in 1..last : n - 1 \in P => n \in P
  PROVE  \A n \in 0..last : n \in P
<1> DEFINE Out == {n \in 0..last : n \notin P}
<1>1. SUFFICES Out = {} OBVIOUS
<1>2. SUFFICES ASSUME Out # {} PROVE FALSE OBVIOUS
<1>3. Out \in SUBSET Nat OBVIOUS
<1>4. \A n \in Out : n \in 0..last /\ n \notin P OBVIOUS
<1>5. \A n \in 0..last : n \notin Out => n \in P OBVIOUS
<1> HIDE DEF Out
<1>6. PICK n \in Out : \A m \in Out : n <= m BY <1>2, <1>3, Smallest
<1>7. n \in 0..last /\ n # 0 BY <1>4, <1>6
<1>8. n \in 1..last /\ n - 1 \in 0..last /\ ~(n <= n - 1) BY <1>7
<1>9. n - 1 \in P BY <1>5, <1>6, <1>8
<1> QED BY <1>4, <1>6, <1>8, <1>9

\* The sum as it grows from number to number.
AddsUp(u, s, last) == u[0] = 0 /\ \A n \in 1..last : u[n] = u[n - 1] + s[n]

LEMMA TotalGrows ==
  ASSUME NEW s \in Seq(Int), NEW last \in Nat, last = Len(s)
  PROVE  \E u \in [0..last -> Int] : AddsUp(u, s, last) /\ Total(s) = u[last]
<1> DEFINE Turn(f, n) == [i \in 0..n |-> IF i = 0 THEN 0 ELSE f[i - 1] + s[i]]
<1>0. \A n \in 1..last : s[n] \in Int OBVIOUS
<1>2. PICK step : step = [n \in 1..last |-> [y \in Int |-> y + s[n]]] OBVIOUS
<1>3. \A n \in 1..last, y \in Int : step[n][y] = y + s[n] BY <1>2
<1>4. StaysIn(Int, step, last)
  <2> SUFFICES ASSUME NEW n \in 1..last, NEW y \in Int PROVE step[n][y] \in Int BY DEF StaysIn
  <2>1. PICK x \in Int : x = s[n] BY <1>0
  <2>2. step[n][y] = y + x BY <1>3, <2>1
  <2> QED BY <2>2
<1>5. PICK zero \in Int : zero = 0 OBVIOUS
<1>6. PICK f \in [0..last -> Int] : Computes(f, zero, step, last) BY <1>4, <1>5, Folded
<1>7. \A n \in 1..last : f[n] = f[n - 1] + s[n]
  <2> TAKE n \in 1..last
  <2>1. n - 1 \in 0..last /\ f[n - 1] \in Int OBVIOUS
  <2> QED BY <1>3, <1>6, <2>1 DEF Computes
<1>8. f = Turn(f, last)
  <2>1. \A n \in 0..last : n # 0 => n \in 1..last OBVIOUS
  <2>2. \A n \in 0..last : f[n] = IF n = 0 THEN 0 ELSE f[n - 1] + s[n]
    BY <1>5, <1>6, <1>7, <2>1 DEF Computes
  <2>3. f = [n \in 0..last |-> f[n]] OBVIOUS
  <2> QED BY <2>2, <2>3
<1>9. PICK u : u = (CHOOSE h : h = Turn(h, last)) OBVIOUS
<1>10. u = Turn(u, last) BY <1>8, <1>9
<1>11. Total(s) = u[last] BY <1>9 DEF Total
<1>12. u[0] = 0 /\ \A n \in 1..last : u[n] = u[n - 1] + s[n]
  <2>1. \A n \in 0..last : u[n] = IF n = 0 THEN 0 ELSE u[n - 1] + s[n] BY <1>10
  <2>2. u[0] = 0
    <3>1. 0 \in 0..last OBVIOUS
    <3> QED BY <2>1, <3>1
  <2>3. ASSUME NEW n \in 1..last PROVE u[n] = u[n - 1] + s[n]
    <3>1. n \in 0..last /\ n # 0 OBVIOUS
    <3> QED BY <2>1, <3>1
  <2> QED BY <2>2, <2>3
<1>13. \A n \in 0..last : u[n] \in Int
  <2> DEFINE P == {n \in 0..last : u[n] \in Int}
  <2>1. 0 \in P BY <1>12
  <2>2. ASSUME NEW n \in 1..last, n - 1 \in P PROVE n \in P
    <3>1. PICK x, y \in Int : x = u[n - 1] /\ y = s[n] BY <1>0, <2>2
    <3>2. u[n] = x + y BY <1>12, <3>1
    <3>3. u[n] \in Int BY <3>2
    <3> QED BY <3>3
  <2>3. \A n \in P : u[n] \in Int OBVIOUS
  <2> HIDE DEF P
  <2> QED BY <2>1, <2>2, <2>3, UpTo
<1>14. u \in [0..last -> Int] BY <1>10, <1>13
<1> QED BY <1>11, <1>12, <1>14 DEF AddsUp

LEMMA TotalRises ==
  ASSUME NEW s \in Seq(Int), NEW t \in Seq(Int), Len(s) = Len(t), \A i \in 1..Len(s) : s[i] <= t[i]
  PROVE  Total(s) <= Total(t)
<1>1. PICK last \in Nat : last = Len(s) /\ last = Len(t) OBVIOUS
<1>2. PICK u \in [0..last -> Int] : AddsUp(u, s, last) /\ Total(s) = u[last] BY <1>1, TotalGrows
<1>3. PICK w \in [0..last -> Int] : AddsUp(w, t, last) /\ Total(t) = w[last] BY <1>1, TotalGrows
<1> DEFINE P == {n \in 0..last : u[n] <= w[n]}
<1>4. 0 \in P BY <1>2, <1>3 DEF AddsUp
<1>5. ASSUME NEW n \in 1..last, n - 1 \in P PROVE n \in P
  <2>1. PICK x, y \in Int : x = u[n - 1] /\ y = w[n - 1] BY <1>5
  <2>2. PICK a, b \in Int : a = s[n] /\ b = t[n] BY <1>1
  <2>3. x <= y /\ a <= b BY <1>1, <1>5, <2>1, <2>2
  <2>4. u[n] = x + a /\ w[n] = y + b BY <1>2, <1>3, <2>1, <2>2 DEF AddsUp
  <2>5. u[n] <= w[n] BY <2>3, <2>4
  <2> QED BY <2>5
<1>6. \A n \in P : u[n] <= w[n] OBVIOUS
<1> HIDE DEF P
<1>7. last \in 0..last OBVIOUS
<1> QED BY <1>2, <1>3, <1>4, <1>5, <1>6, <1>7, UpTo

\* One sequence is another, so many times.
IsTimes(s, t, c) == \A i \in 1..Len(s) : s[i] = c * t[i]

LEMMA TotalScales ==
  ASSUME NEW s \in Seq(Int), NEW t \in Seq(Int), Len(s) = Len(t), NEW c \in Int, IsTimes(s, t, c)
  PROVE  Total(s) = c * Total(t)
<1>1. PICK last \in Nat : last = Len(s) /\ last = Len(t) OBVIOUS
<1>2. PICK u \in [0..last -> Int] : AddsUp(u, s, last) /\ Total(s) = u[last] BY <1>1, TotalGrows
<1>3. PICK w \in [0..last -> Int] : AddsUp(w, t, last) /\ Total(t) = w[last] BY <1>1, TotalGrows
<1> DEFINE P == {n \in 0..last : u[n] = c * w[n]}
<1>4. 0 \in P BY <1>2, <1>3 DEF AddsUp
<1>5. ASSUME NEW n \in 1..last, n - 1 \in P PROVE n \in P
  <2>0. w[n - 1] \in Int /\ t[n] \in Int
    <3>1. n - 1 \in 0..last OBVIOUS
    <3>2. w[n - 1] \in Int BY <3>1
    <3>3. \A k \in 1..last : t[k] \in Int BY <1>1
    <3> QED BY <3>2, <3>3
  <2>1. PICK y, b \in Int : y = w[n - 1] /\ b = t[n] BY <2>0
  <2>2. u[n - 1] = c * y /\ s[n] = c * b BY <1>1, <1>5, <2>1 DEF IsTimes
  <2>3. u[n] = c * y + c * b /\ w[n] = y + b BY <1>2, <1>3, <2>1, <2>2 DEF AddsUp
  <2>4. c * y + c * b = c * (y + b) OBVIOUS
  <2>5. u[n] = c * w[n] BY <2>3, <2>4
  <2> QED BY <2>5
<1>6. \A n \in P : u[n] = c * w[n] OBVIOUS
<1> HIDE DEF P
<1>7. last \in 0..last OBVIOUS
<1> QED BY <1>2, <1>3, <1>4, <1>5, <1>6, <1>7, UpTo

\* No part of a sum of natural numbers is larger than it.
LEMMA TotalCovers ==
  ASSUME NEW s \in Seq(Int), \A i \in 1..Len(s) : s[i] >= 0
  PROVE  Total(s) >= 0 /\ \A k \in 1..Len(s) : s[k] <= Total(s)
<1>1. PICK last \in Nat : last = Len(s) OBVIOUS
<1>2. PICK u \in [0..last -> Int] : AddsUp(u, s, last) /\ Total(s) = u[last] BY <1>1, TotalGrows
<1> DEFINE P == {n \in 0..last : u[n] >= 0 /\ \A k \in 1..n : s[k] <= u[n]}
<1>4. 0 \in P BY <1>2 DEF AddsUp
<1>5. ASSUME NEW n \in 1..last, n - 1 \in P PROVE n \in P
  <2>1. PICK x, a \in Int : x = u[n - 1] /\ a = s[n] BY <1>1, <1>5
  <2>2. u[n] = x + a /\ x >= 0 /\ a >= 0 BY <1>1, <1>2, <1>5, <2>1 DEF AddsUp
  <2>3. ASSUME NEW k \in 1..n PROVE s[k] <= u[n]
    <3>1. CASE k = n BY <2>1, <2>2, <3>1
    <3>2. CASE k # n
      <4>1. k \in 1..n - 1 /\ k \in 1..last BY <3>2
      <4>2. PICK z \in Int : z = s[k] BY <1>1, <4>1
      <4>3. z <= x BY <1>5, <2>1, <4>1, <4>2
      <4> QED BY <2>2, <4>2, <4>3
    <3> QED BY <3>1, <3>2
  <2>4. u[n] >= 0 BY <2>2
  <2> QED BY <2>3, <2>4
<1>6. \A n \in P : u[n] >= 0 /\ \A k \in 1..n : s[k] <= u[n] OBVIOUS
<1> HIDE DEF P
<1>7. last \in 0..last OBVIOUS
<1>8. last \in P BY <1>4, <1>5, <1>7, UpTo
<1> QED BY <1>1, <1>2, <1>6, <1>8

-------------------------------------------------------------------------------
LEMMA ProductRises ==
  ASSUME NEW a \in Int, a >= 0, NEW x \in Int, NEW y \in Int, x <= y
  PROVE  a * x <= a * y
<1>1. PICK d \in Int : d = y - x /\ d >= 0 OBVIOUS
<1>2. a * d >= 0 BY <1>1
<1>3. y = x + d BY <1>1
<1>4. a * y = a * x + a * d BY <1>3
<1>5. PICK p, q \in Int : p = a * x /\ q = a * d OBVIOUS
<1> QED BY <1>2, <1>4, <1>5

\* What is divided by the same number keeps its order, and a product is divided by its factor.
LEMMA QuotientIs ==
  ASSUME NEW x \in Int, NEW n \in Int, n > 0
  PROVE  x \div n \in Int /\ (x \div n) * n <= x /\ x < (x \div n) * n + n
<1>1. x \div n \in Int OBVIOUS
<1>2. x = n * (x \div n) + (x % n) /\ 0 <= x % n /\ x % n < n OBVIOUS
<1>3. PICK q, r \in Int : q = x \div n /\ r = x % n OBVIOUS
<1>4. n * q = q * n BY <1>3
<1>5. PICK p \in Int : p = q * n OBVIOUS
<1>6. x = p + r BY <1>2, <1>3, <1>4, <1>5
<1> QED BY <1>1, <1>2, <1>3, <1>5, <1>6

LEMMA QuotientRises ==
  ASSUME NEW x \in Int, NEW y \in Int, NEW n \in Int, n > 0, x <= y
  PROVE  x \div n <= y \div n
<1>1. PICK p, q \in Int : p = x \div n /\ q = y \div n BY QuotientIs
<1>2. p * n <= x /\ y < q * n + n BY <1>1, QuotientIs
<1>3. SUFFICES ASSUME p > q PROVE FALSE BY <1>1
<1>4. n * (q + 1) <= n * p
  <2>1. q + 1 <= p BY <1>3
  <2>2. q + 1 \in Int OBVIOUS
  <2> QED BY <2>1, <2>2, ProductRises
<1>5. n * (q + 1) = q * n + n /\ n * p = p * n OBVIOUS
<1>6. PICK a, b \in Int : a = p * n /\ b = q * n OBVIOUS
<1> QED BY <1>2, <1>4, <1>5, <1>6

LEMMA QuotientOfProduct ==
  ASSUME NEW x \in Int, NEW n \in Int, n > 0
  PROVE  (x * n) \div n = x
<1>1. PICK y \in Int : y = x * n OBVIOUS
<1>2. PICK q \in Int : q = y \div n BY QuotientIs
<1>3. q * n <= y /\ y < q * n + n BY <1>2, QuotientIs
<1>4. ~(x > q)
  <2> SUFFICES ASSUME x > q PROVE FALSE OBVIOUS
  <2>1. n * (q + 1) <= n * x
    <3>1. q + 1 <= x /\ q + 1 \in Int OBVIOUS
    <3> QED BY <3>1, ProductRises
  <2>2. n * (q + 1) = q * n + n /\ n * x = y BY <1>1
  <2>3. PICK b \in Int : b = q * n OBVIOUS
  <2> QED BY <1>3, <2>1, <2>2, <2>3
<1>5. ~(q > x)
  <2> SUFFICES ASSUME q > x PROVE FALSE OBVIOUS
  <2>1. n * (x + 1) <= n * q
    <3>1. x + 1 <= q /\ x + 1 \in Int OBVIOUS
    <3> QED BY <3>1, ProductRises
  <2>2. n * (x + 1) = y + n /\ n * q = q * n BY <1>1
  <2>3. PICK b \in Int : b = q * n OBVIOUS
  <2> QED BY <1>3, <2>1, <2>2, <2>3
<1> QED BY <1>1, <1>2, <1>4, <1>5

-------------------------------------------------------------------------------
\* The values of a factor compare like fractions.
IsRatio(r) == r[1] \in Int /\ r[2] \in Int /\ r[2] > 0

LEMMA WithinIs ==
  ASSUME NEW a, NEW b, NEW c, IsRatio(a), IsRatio(b), IsRatio(c)
  PROVE  /\ Within(a, a)
         /\ Within(a, b) \/ Within(b, a)
         /\ Within(a, b) /\ Within(b, c) => Within(a, c)
<1>1. PICK a1, a2, b1, b2, c1, c2 \in Int : /\ a1 = a[1] /\ a2 = a[2] /\ b1 = b[1] /\ b2 = b[2] /\ c1 = c[1] /\ c2 = c[2]
                                            /\ a2 > 0 /\ b2 > 0 /\ c2 > 0
  BY DEF IsRatio
<1>2. Within(a, a) <=> a1 * a2 <= a1 * a2 BY <1>1 DEF Within
<1>3. Within(a, b) <=> a1 * b2 <= b1 * a2 BY <1>1 DEF Within
<1>4. Within(b, a) <=> b1 * a2 <= a1 * b2 BY <1>1 DEF Within
<1>5. Within(b, c) <=> b1 * c2 <= c1 * b2 BY <1>1 DEF Within
<1>6. Within(a, c) <=> a1 * c2 <= c1 * a2 BY <1>1 DEF Within
<1>7. PICK p, q \in Int : p = a1 * b2 /\ q = b1 * a2 OBVIOUS
<1>8. Within(a, a)
  <2>1. PICK r \in Int : r = a1 * a2 OBVIOUS
  <2> QED BY <1>2, <2>1
<1>9. Within(a, b) \/ Within(b, a) BY <1>3, <1>4, <1>7
<1>10. ASSUME Within(a, b), Within(b, c) PROVE Within(a, c)
  <2>1. p <= q BY <1>3, <1>7, <1>10
  <2>2. PICK r, s \in Int : r = b1 * c2 /\ s = c1 * b2 OBVIOUS
  <2>3. r <= s BY <1>5, <1>10, <2>2
  <2>4. c2 * p <= c2 * q BY <1>1, <2>1, ProductRises
  <2>5. a2 * r <= a2 * s BY <1>1, <2>2, <2>3, ProductRises
  <2>6. c2 * q = a2 * r BY <1>7, <2>2
  <2>7. PICK x, y \in Int : x = a1 * c2 /\ y = c1 * a2 OBVIOUS
  <2>8. c2 * p = b2 * x BY <1>7, <2>7
  <2>9. a2 * s = b2 * y BY <2>2, <2>7
  <2>10. b2 * x <= b2 * y
    <3>1. PICK d, e, f, g \in Int : d = c2 * p /\ e = c2 * q /\ f = a2 * r /\ g = a2 * s OBVIOUS
    <3> QED BY <2>4, <2>5, <2>6, <2>8, <2>9, <3>1
  <2>11. x <= y
    <3> SUFFICES ASSUME x > y PROVE FALSE OBVIOUS
    <3>1. b2 * (y + 1) <= b2 * x
      <4>1. y + 1 \in Int /\ y + 1 <= x OBVIOUS
      <4> QED BY <1>1, <4>1, ProductRises
    <3>2. b2 * (y + 1) = b2 * y + b2 OBVIOUS
    <3>3. PICK d, e \in Int : d = b2 * x /\ e = b2 * y OBVIOUS
    <3> QED BY <1>1, <2>10, <3>1, <3>2, <3>3
  <2> QED BY <1>6, <2>7, <2>11
<1> QED BY <1>8, <1>9, <1>10

-------------------------------------------------------------------------------
\* The rank of a value: among n, of the ones that are within it.
Parts(n) == Whole \div n
WithinIt(values, valid, i) == {j \in valid : Within(values[j], values[i])}
Ratios(values, valid) == \A j \in valid : IsRatio(values[j])

LEMMA WithinCount ==
  ASSUME NEW values, NEW valid, IsFiniteSet(valid), Ratios(values, valid), NEW i \in valid
  PROVE  Cardinality(valid) \in Nat /\ Cardinality(WithinIt(values, valid, i)) \in 1..Cardinality(valid)
<1>1. PICK W : W = WithinIt(values, valid, i) OBVIOUS
<1>2. W \subseteq valid BY <1>1 DEF WithinIt
<1>3. i \in W BY <1>1, WithinIs DEF WithinIt, Ratios
<1>4. IsFiniteSet(W) /\ Cardinality(W) <= Cardinality(valid) BY <1>2, FS_Subset
<1>5. Cardinality(W) \in Nat /\ Cardinality(valid) \in Nat BY <1>4, FS_CardinalityType
<1>6. Cardinality(W) # 0 BY <1>3, <1>4, FS_EmptySet
<1> QED BY <1>1, <1>4, <1>5, <1>6

\* Those within a value are within a larger one.
LEMMA WithinGrows ==
  ASSUME NEW values, NEW valid, IsFiniteSet(valid), Ratios(values, valid), NEW i \in valid, NEW j \in valid,
         Within(values[j], values[i])
  PROVE  /\ WithinIt(values, valid, j) \subseteq WithinIt(values, valid, i)
         /\ Cardinality(WithinIt(values, valid, j)) <= Cardinality(WithinIt(values, valid, i))
<1>1. PICK V, W : V = WithinIt(values, valid, j) /\ W = WithinIt(values, valid, i) OBVIOUS
<1>2. W \subseteq valid BY <1>1 DEF WithinIt
<1>3. V \subseteq W
  <2> SUFFICES ASSUME NEW k \in V PROVE k \in W OBVIOUS
  <2>1. k \in valid /\ Within(values[k], values[j]) BY <1>1 DEF WithinIt
  <2>2. Within(values[k], values[i]) BY <2>1, WithinIs DEF Ratios
  <2> QED BY <1>1, <2>1, <2>2 DEF WithinIt
<1>4. IsFiniteSet(W) BY <1>2, FS_Subset
<1>5. Cardinality(V) <= Cardinality(W) BY <1>3, <1>4, FS_Subset
<1> QED BY <1>1, <1>3, <1>5

LEMMA PercentIs ==
  ASSUME NEW values, NEW valid, NEW i
  PROVE  /\ PercentRank(values, valid, i, TRUE)
              = Parts(Cardinality(valid)) * Cardinality(WithinIt(values, valid, i))
         /\ PercentRank(values, valid, i, FALSE)
              = Parts(Cardinality(valid)) * (Cardinality(valid) - Cardinality(WithinIt(values, valid, i)) + 1)
BY DEF PercentRank, Parts, WithinIt

\* The parts of so many make the whole.
LEMMA PartsAre ==
  ASSUME NEW n \in Nat, n > 0, Parts(n) * n = Whole
  PROVE  /\ Parts(n) \in Nat
         /\ \A x \in 1..n : Parts(n) * x \in 0..Whole
         /\ \A x, y \in 1..n : x <= y => Parts(n) * x <= Parts(n) * y
<1>0. Whole \in Int /\ Whole > 0 BY UniversesAssumption
<1>1. PICK p \in Int : p = Parts(n) BY <1>0, QuotientIs DEF Parts
<1>2. p >= 0
  <2>1. 0 \div n <= Whole \div n BY <1>0, QuotientRises
  <2>2. 0 \div n = 0 OBVIOUS
  <2> QED BY <1>1, <2>1, <2>2 DEF Parts
<1>3. p * n = Whole BY <1>1
<1>4. ASSUME NEW x \in 1..n PROVE p * x \in 0..Whole
  <2>1. p * x <= p * n BY <1>2, ProductRises
  <2>2. p * 0 <= p * x BY <1>2, ProductRises
  <2>3. PICK a, b \in Int : a = p * x /\ b = p * n OBVIOUS
  <2> QED BY <1>3, <2>1, <2>2, <2>3
<1>5. ASSUME NEW x \in 1..n, NEW y \in 1..n, x <= y PROVE p * x <= p * y BY <1>2, <1>5, ProductRises
<1> QED BY <1>1, <1>2, <1>4, <1>5

LEMMA PercentIsPart ==
  ASSUME NEW values, NEW valid, IsFiniteSet(valid), Ratios(values, valid), NEW i \in valid, NEW higher \in BOOLEAN,
         Parts(Cardinality(valid)) * Cardinality(valid) = Whole
  PROVE  PercentRank(values, valid, i, higher) \in 0..Whole
<1>1. PICK n, w \in Nat : n = Cardinality(valid) /\ w = Cardinality(WithinIt(values, valid, i)) /\ w \in 1..n
  BY WithinCount
<1>2. n > 0 /\ n - w + 1 \in 1..n BY <1>1
<1>3. Parts(n) * w \in 0..Whole /\ Parts(n) * (n - w + 1) \in 0..Whole BY <1>1, <1>2, PartsAre
<1>4. PercentRank(values, valid, i, TRUE) \in 0..Whole BY <1>1, <1>3, PercentIs
<1>5. PercentRank(values, valid, i, FALSE) \in 0..Whole BY <1>1, <1>3, PercentIs
<1> QED BY <1>4, <1>5

\* As good a value has as good a rank.
LEMMA PercentRises ==
  ASSUME NEW values, NEW valid, IsFiniteSet(valid), Ratios(values, valid), NEW i \in valid, NEW j \in valid,
         Parts(Cardinality(valid)) * Cardinality(valid) = Whole
  PROVE  /\ Within(values[j], values[i]) =>
              PercentRank(values, valid, j, TRUE) <= PercentRank(values, valid, i, TRUE)
         /\ Within(values[i], values[j]) =>
              PercentRank(values, valid, j, FALSE) <= PercentRank(values, valid, i, FALSE)
<1>1. PICK n, w, v \in Nat : /\ n = Cardinality(valid) /\ w = Cardinality(WithinIt(values, valid, i))
                             /\ v = Cardinality(WithinIt(values, valid, j)) /\ w \in 1..n /\ v \in 1..n
  BY WithinCount
<1>2. n > 0 /\ n - w + 1 \in 1..n /\ n - v + 1 \in 1..n BY <1>1
<1>3. ASSUME Within(values[j], values[i]) PROVE PercentRank(values, valid, j, TRUE) <= PercentRank(values, valid, i, TRUE)
  <2>1. v <= w BY <1>1, <1>3, WithinGrows
  <2>2. Parts(n) * v <= Parts(n) * w BY <1>1, <1>2, <2>1, PartsAre
  <2> QED BY <1>1, <2>2, PercentIs
<1>4. ASSUME Within(values[i], values[j]) PROVE PercentRank(values, valid, j, FALSE) <= PercentRank(values, valid, i, FALSE)
  <2>1. w <= v BY <1>1, <1>4, WithinGrows
  <2>2. n - v + 1 <= n - w + 1 BY <2>1
  <2>3. Parts(n) * (n - v + 1) <= Parts(n) * (n - w + 1) BY <1>1, <1>2, <2>2, PartsAre
  <2> QED BY <1>1, <2>3, PercentIs
<1> QED BY <1>3, <1>4

\* The best value, and of the ones of which the smaller is better the only one, has the best rank.
LEMMA PercentBest ==
  ASSUME NEW values, NEW valid, IsFiniteSet(valid), Ratios(values, valid), NEW i \in valid,
         Parts(Cardinality(valid)) * Cardinality(valid) = Whole
  PROVE  /\ (\A j \in valid \ {i} : Within(values[j], values[i])) => PercentRank(values, valid, i, TRUE) = Whole
         /\ (\A j \in valid \ {i} : ~Within(values[j], values[i])) => PercentRank(values, valid, i, FALSE) = Whole
<1>1. PICK n \in Nat : n = Cardinality(valid) BY WithinCount
<1>2. Within(values[i], values[i]) BY WithinIs DEF Ratios
<1>3. ASSUME \A j \in valid \ {i} : Within(values[j], values[i]) PROVE PercentRank(values, valid, i, TRUE) = Whole
  <2>1. WithinIt(values, valid, i) = valid BY <1>2, <1>3 DEF WithinIt
  <2> QED BY <1>1, <2>1, PercentIs
<1>4. ASSUME \A j \in valid \ {i} : ~Within(values[j], values[i]) PROVE PercentRank(values, valid, i, FALSE) = Whole
  <2>1. WithinIt(values, valid, i) = {i} BY <1>2, <1>4 DEF WithinIt
  <2>2. Cardinality(WithinIt(values, valid, i)) = 1 BY <2>1, FS_Singleton
  <2>3. n - 1 + 1 = n BY <1>1
  <2> QED BY <1>1, <2>2, <2>3, PercentIs
<1> QED BY <1>3, <1>4

-------------------------------------------------------------------------------
\* What a factor is ranked on: its values at the places of S, and the places that have one.
ValuesOf(factor, features, S) == [j \in S |-> features[j][factor.name]]
Having(factor, features, S) == {j \in S : features[j][factor.name] # NoFeature}

Rankable(factor, features, S) ==
  /\ IsFiniteSet(S) /\ \A n \in 1..Cardinality(S) : Parts(n) * n = Whole
  /\ \A j \in S : IsRatio(features[j][factor.name])
  /\ factor.name \in HigherIsBetter => factor.higher = TRUE
  /\ factor.name \notin HigherIsBetter => factor.higher = FALSE

LEMMA HavingIs ==
  ASSUME NEW factor, NEW features, NEW S, Rankable(factor, features, S)
  PROVE  LET values == ValuesOf(factor, features, S)
             valid == Having(factor, features, S)
         IN /\ IsFiniteSet(valid) /\ valid \subseteq S /\ Ratios(values, valid)
            /\ valid # {} => Parts(Cardinality(valid)) * Cardinality(valid) = Whole
            /\ \A i \in valid : values[i] = features[i][factor.name]
<1>1. PICK values, valid : values = ValuesOf(factor, features, S) /\ valid = Having(factor, features, S) OBVIOUS
<1>2. valid \subseteq S BY <1>1 DEF Having
<1>3. IsFiniteSet(valid) /\ Cardinality(valid) <= Cardinality(S) BY <1>2, FS_Subset DEF Rankable
<1>4. Cardinality(valid) \in Nat /\ Cardinality(S) \in Nat BY <1>3, FS_CardinalityType DEF Rankable
<1>5. \A i \in valid : values[i] = features[i][factor.name] BY <1>1, <1>2 DEF ValuesOf
<1>6. Ratios(values, valid) BY <1>2, <1>5 DEF Ratios, Rankable
<1>7. ASSUME valid # {} PROVE Parts(Cardinality(valid)) * Cardinality(valid) = Whole
  <2>1. Cardinality(valid) # 0 BY <1>3, <1>7, FS_EmptySet
  <2>2. Cardinality(valid) \in 1..Cardinality(S) BY <1>3, <1>4, <2>1
  <2> QED BY <2>2 DEF Rankable
<1> QED BY <1>1, <1>2, <1>3, <1>5, <1>6, <1>7

LEMMA RankOfCases ==
  ASSUME NEW factor, NEW features, NEW S, NEW i,
         NEW values, values = ValuesOf(factor, features, S), NEW valid, valid = Having(factor, features, S)
  PROVE  /\ i \notin valid => RankOf(factor, features, S, i) = NA
         /\ i \in valid /\ factor.name = "leverage" /\ AtTop(values, valid, i) =>
              RankOf(factor, features, S, i) = Whole
         /\ i \in valid /\ ~(factor.name = "leverage" /\ AtTop(values, valid, i)) =>
              RankOf(factor, features, S, i) = PercentRank(values, valid, i, factor.higher)
<1>1. valid = {j \in S : values[j] # NoFeature} BY DEF ValuesOf, Having
<1>2. RankOf(factor, features, S, i) =
        IF i \notin valid THEN NA
        ELSE IF factor.name = "leverage" /\ AtTop(values, valid, i) THEN Whole
        ELSE PercentRank(values, valid, i, factor.higher)
  BY <1>1 DEF RankOf, ValuesOf
<1> QED BY <1>2

LEMMA RankOfIs ==
  ASSUME NEW factor, NEW features, NEW S, Rankable(factor, features, S), NEW i
  PROVE  /\ i \in Having(factor, features, S) => RankOf(factor, features, S, i) \in 0..Whole
         /\ i \notin Having(factor, features, S) => RankOf(factor, features, S, i) = NA
<1>0. Whole \in Nat BY UniversesAssumption
<1>1. PICK values, valid : values = ValuesOf(factor, features, S) /\ valid = Having(factor, features, S) OBVIOUS
<1>2. i \notin valid => RankOf(factor, features, S, i) = NA BY <1>1, RankOfCases
<1>3. ASSUME i \in valid PROVE RankOf(factor, features, S, i) \in 0..Whole
  <2>1. IsFiniteSet(valid) /\ Ratios(values, valid) /\ Parts(Cardinality(valid)) * Cardinality(valid) = Whole
    BY <1>1, <1>3, HavingIs
  <2>2. PICK higher \in BOOLEAN : higher = factor.higher
    <3>1. CASE factor.name \in HigherIsBetter BY <3>1 DEF Rankable
    <3>2. CASE factor.name \notin HigherIsBetter BY <3>2 DEF Rankable
    <3> QED BY <3>1, <3>2
  <2>3. PercentRank(values, valid, i, higher) \in 0..Whole BY <1>3, <2>1, PercentIsPart
  <2>4. Whole \in 0..Whole BY <1>0
  <2>5. RankOf(factor, features, S, i) \in {Whole, PercentRank(values, valid, i, higher)}
    <3>1. CASE factor.name = "leverage" /\ AtTop(values, valid, i) BY <1>1, <1>3, <3>1, RankOfCases
    <3>2. CASE ~(factor.name = "leverage" /\ AtTop(values, valid, i)) BY <1>1, <1>3, <2>2, <3>2, RankOfCases
    <3> QED BY <3>1, <3>2
  <2> QED BY <2>3, <2>4, <2>5
<1> QED BY <1>1, <1>2, <1>3

\* The ones above a value are above a smaller one, so what is at the top stays there.
LEMMA TopStays ==
  ASSUME NEW values, NEW valid, IsFiniteSet(valid), Ratios(values, valid), NEW i \in valid, NEW j \in valid,
         Within(values[j], values[i]), AtTop(values, valid, j)
  PROVE  AtTop(values, valid, i)
<1>1. PICK A, B : A = {k \in valid : ~Within(values[k], values[i])} /\ B = {k \in valid : ~Within(values[k], values[j])}
  OBVIOUS
<1>2. A \subseteq B BY <1>1, WithinIs DEF Ratios
<1>3. IsFiniteSet(B) BY <1>1, FS_Subset
<1>4. IsFiniteSet(A) /\ Cardinality(A) <= Cardinality(B) BY <1>2, <1>3, FS_Subset
<1>5. PICK a, b, n \in Nat : a = Cardinality(A) /\ b = Cardinality(B) /\ n = Cardinality(valid)
  BY <1>3, <1>4, FS_CardinalityType
<1>6. 20 * b <= n - 1 BY <1>1, <1>5 DEF AtTop
<1>7. 20 * a <= n - 1 BY <1>4, <1>5, <1>6
<1> QED BY <1>1, <1>5, <1>7 DEF AtTop

LEMMA RankOfRises ==
  ASSUME NEW factor, NEW features, NEW S, Rankable(factor, features, S),
         NEW i \in Having(factor, features, S), NEW j \in Having(factor, features, S),
         AsGood(features[i][factor.name], features[j][factor.name], factor.name)
  PROVE  RankOf(factor, features, S, j) <= RankOf(factor, features, S, i)
<1>0. Whole \in Nat BY UniversesAssumption
<1>1. PICK values, valid : values = ValuesOf(factor, features, S) /\ valid = Having(factor, features, S) OBVIOUS
<1>2. /\ IsFiniteSet(valid) /\ Ratios(values, valid) /\ Parts(Cardinality(valid)) * Cardinality(valid) = Whole
      /\ values[i] = features[i][factor.name] /\ values[j] = features[j][factor.name]
  BY <1>1, HavingIs
<1>3. CASE factor.name \in HigherIsBetter
  <2>1. factor.higher = TRUE BY <1>3 DEF Rankable
  <2>2. Within(values[j], values[i]) BY <1>2, <1>3 DEF AsGood
  <2>3. CASE factor.name = "leverage" /\ AtTop(values, valid, i)
    <3>1. RankOf(factor, features, S, i) = Whole BY <1>1, <2>3, RankOfCases
    <3>2. RankOf(factor, features, S, j) \in 0..Whole BY RankOfIs
    <3> QED BY <1>0, <3>1, <3>2
  <2>4. CASE ~(factor.name = "leverage" /\ AtTop(values, valid, i))
    <3>1. ~(factor.name = "leverage" /\ AtTop(values, valid, j)) BY <1>1, <1>2, <2>2, <2>4, TopStays
    <3>2. RankOf(factor, features, S, i) = PercentRank(values, valid, i, TRUE) BY <1>1, <2>1, <2>4, RankOfCases
    <3>3. RankOf(factor, features, S, j) = PercentRank(values, valid, j, TRUE) BY <1>1, <2>1, <3>1, RankOfCases
    <3>4. PercentRank(values, valid, j, TRUE) <= PercentRank(values, valid, i, TRUE)
      BY <1>1, <1>2, <2>2, PercentRises
    <3> QED BY <3>2, <3>3, <3>4
  <2> QED BY <2>3, <2>4
<1>4. CASE factor.name \notin HigherIsBetter
  <2>1. factor.higher = FALSE /\ factor.name # "leverage" BY <1>4 DEF Rankable, HigherIsBetter
  <2>2. Within(values[i], values[j]) BY <1>2, <1>4 DEF AsGood
  <2>3. RankOf(factor, features, S, i) = PercentRank(values, valid, i, FALSE) BY <1>1, <2>1, RankOfCases
  <2>4. RankOf(factor, features, S, j) = PercentRank(values, valid, j, FALSE) BY <1>1, <2>1, RankOfCases
  <2>5. PercentRank(values, valid, j, FALSE) <= PercentRank(values, valid, i, FALSE)
    BY <1>1, <1>2, <2>2, PercentRises
  <2> QED BY <2>3, <2>4, <2>5
<1> QED BY <1>3, <1>4

\* The row at a place is the best in a factor, of which only one can be the smallest.
BestIn(factor, features, S, i) ==
  \A j \in Having(factor, features, S) \ {i} :
    /\ AsGood(features[i][factor.name], features[j][factor.name], factor.name)
    /\ factor.name \notin HigherIsBetter =>
         ~AsGood(features[j][factor.name], features[i][factor.name], factor.name)

LEMMA RankOfBest ==
  ASSUME NEW factor, NEW features, NEW S, Rankable(factor, features, S),
         NEW i \in Having(factor, features, S), BestIn(factor, features, S, i)
  PROVE  RankOf(factor, features, S, i) = Whole
<1>1. PICK values, valid : values = ValuesOf(factor, features, S) /\ valid = Having(factor, features, S) OBVIOUS
<1>2. /\ IsFiniteSet(valid) /\ Ratios(values, valid) /\ Parts(Cardinality(valid)) * Cardinality(valid) = Whole
      /\ \A j \in valid : values[j] = features[j][factor.name]
  BY <1>1, HavingIs
<1>3. CASE factor.name = "leverage" /\ AtTop(values, valid, i) BY <1>1, <1>3, RankOfCases
<1>4. CASE ~(factor.name = "leverage" /\ AtTop(values, valid, i))
  <2>1. CASE factor.name \in HigherIsBetter
    <3>1. factor.higher = TRUE BY <2>1 DEF Rankable
    <3>2. \A j \in valid \ {i} : Within(values[j], values[i]) BY <1>1, <1>2, <2>1 DEF BestIn, AsGood
    <3>3. PercentRank(values, valid, i, TRUE) = Whole BY <1>1, <1>2, <3>2, PercentBest
    <3> QED BY <1>1, <1>4, <3>1, <3>3, RankOfCases
  <2>2. CASE factor.name \notin HigherIsBetter
    <3>1. factor.higher = FALSE BY <2>2 DEF Rankable
    <3>2. \A j \in valid \ {i} : ~Within(values[j], values[i]) BY <1>1, <1>2, <2>2 DEF BestIn, AsGood
    <3>3. PercentRank(values, valid, i, FALSE) = Whole BY <1>1, <1>2, <3>2, PercentBest
    <3> QED BY <1>1, <1>4, <3>1, <3>3, RankOfCases
  <2> QED BY <2>1, <2>2
<1> QED BY <1>3, <1>4

-------------------------------------------------------------------------------
\* What is there of n parts, each of which may be missing.
SomeOf(n) == [1..n -> Nat \cup {NA}]

WeighedSeq(ranks, weights) == [k \in DOMAIN ranks |-> IF ranks[k] = NA THEN 0 ELSE ranks[k] * weights[k]]
WeightSeq(ranks, weights) == [k \in DOMAIN ranks |-> IF ranks[k] = NA THEN 0 ELSE weights[k]]

LEMMA WeighedSeqIs ==
  ASSUME NEW n \in Nat, NEW ranks \in SomeOf(n), NEW weights \in [1..n -> Nat]
  PROVE  /\ WeighedSeq(ranks, weights) \in Seq(Int) /\ Len(WeighedSeq(ranks, weights)) = n
         /\ WeightSeq(ranks, weights) \in Seq(Int) /\ Len(WeightSeq(ranks, weights)) = n
         /\ \A k \in 1..n : /\ WeighedSeq(ranks, weights)[k] \in Nat
                            /\ WeighedSeq(ranks, weights)[k] = IF ranks[k] = NA THEN 0 ELSE ranks[k] * weights[k]
                            /\ WeightSeq(ranks, weights)[k] \in Nat
                            /\ WeightSeq(ranks, weights)[k] = IF ranks[k] = NA THEN 0 ELSE weights[k]
<1>1. DOMAIN ranks = 1..n BY DEF SomeOf
<1>2. PICK s, t : s = WeighedSeq(ranks, weights) /\ t = WeightSeq(ranks, weights) OBVIOUS
<1>3. /\ s = [k \in 1..n |-> IF ranks[k] = NA THEN 0 ELSE ranks[k] * weights[k]]
      /\ t = [k \in 1..n |-> IF ranks[k] = NA THEN 0 ELSE weights[k]]
  BY <1>1, <1>2 DEF WeighedSeq, WeightSeq
<1>4. ASSUME NEW k \in 1..n
      PROVE  /\ s[k] \in Nat /\ s[k] = IF ranks[k] = NA THEN 0 ELSE ranks[k] * weights[k]
             /\ t[k] \in Nat /\ t[k] = IF ranks[k] = NA THEN 0 ELSE weights[k]
  <2>1. /\ s[k] = IF ranks[k] = NA THEN 0 ELSE ranks[k] * weights[k]
        /\ t[k] = IF ranks[k] = NA THEN 0 ELSE weights[k]
    BY <1>3
  <2>2. CASE ranks[k] = NA BY <2>1, <2>2
  <2>3. CASE ranks[k] # NA
    <3>1. PICK r, w \in Nat : r = ranks[k] /\ w = weights[k] BY <2>3 DEF SomeOf
    <3>2. r * w \in Nat OBVIOUS
    <3> QED BY <2>1, <2>3, <3>1, <3>2
  <2> QED BY <2>2, <2>3
<1>5. \A k \in 1..n : s[k] \in Int /\ t[k] \in Int BY <1>4
<1>6. s \in [1..n -> Int] /\ t \in [1..n -> Int] BY <1>3, <1>5
<1>7. s \in Seq(Int) /\ Len(s) = n /\ t \in Seq(Int) /\ Len(t) = n BY <1>6
<1> QED BY <1>2, <1>4, <1>7

LEMMA WeighedIs ==
  ASSUME NEW n \in Nat, NEW ranks \in SomeOf(n), NEW weights \in [1..n -> Nat]
  PROVE  /\ Weighed(ranks, weights) = Total(WeighedSeq(ranks, weights))
         /\ WeightOf(ranks, weights) = Total(WeightSeq(ranks, weights))
         /\ Weighed(ranks, weights) \in Nat /\ WeightOf(ranks, weights) \in Nat
         /\ \A k \in 1..n : ranks[k] # NA => weights[k] <= WeightOf(ranks, weights)
<1>1. PICK s, t \in Seq(Int) : s = WeighedSeq(ranks, weights) /\ t = WeightSeq(ranks, weights) BY WeighedSeqIs
<1>2. Len(s) = n /\ Len(t) = n BY <1>1, WeighedSeqIs
<1>3. \A k \in 1..n : s[k] >= 0 /\ t[k] >= 0 BY <1>1, WeighedSeqIs
<1>4. Total(s) \in Int /\ Total(t) \in Int BY TotalIs
<1>5. Total(s) >= 0 /\ Total(t) >= 0 /\ \A k \in 1..n : t[k] <= Total(t) BY <1>2, <1>3, TotalCovers
<1>6. \A k \in 1..n : ranks[k] # NA => t[k] = weights[k] BY <1>1, WeighedSeqIs
<1>7. Weighed(ranks, weights) = Total(s) /\ WeightOf(ranks, weights) = Total(t)
  BY <1>1 DEF Weighed, WeightOf, WeighedSeq, WeightSeq
<1>8. Total(s) \in Nat /\ Total(t) \in Nat BY <1>4, <1>5
<1>9. \A k \in 1..n : ranks[k] # NA => weights[k] <= Total(t) BY <1>5, <1>6
<1> QED BY <1>1, <1>7, <1>8, <1>9

\* Where the same is there, more gives more, and weighs the same.
LEMMA WeighedRises ==
  ASSUME NEW n \in Nat, NEW ranks \in SomeOf(n), NEW others \in SomeOf(n), NEW weights \in [1..n -> Nat],
         \A k \in 1..n : (ranks[k] = NA) <=> (others[k] = NA),
         \A k \in 1..n : ranks[k] # NA => others[k] <= ranks[k]
  PROVE  /\ Weighed(others, weights) <= Weighed(ranks, weights)
         /\ WeightOf(others, weights) = WeightOf(ranks, weights)
<1>1. PICK s, t \in Seq(Int) : s = WeighedSeq(ranks, weights) /\ t = WeighedSeq(others, weights) BY WeighedSeqIs
<1>2. Len(s) = n /\ Len(t) = n BY <1>1, WeighedSeqIs
<1>3. ASSUME NEW k \in 1..n PROVE t[k] <= s[k]
  <2>1. CASE ranks[k] = NA
    <3>1. s[k] = 0 /\ t[k] = 0 BY <1>1, <2>1, WeighedSeqIs
    <3> QED BY <3>1
  <2>2. CASE ranks[k] # NA
    <3>1. PICK r, o, w \in Nat : r = ranks[k] /\ o = others[k] /\ w = weights[k] BY <2>2 DEF SomeOf
    <3>2. s[k] = r * w /\ t[k] = o * w BY <1>1, <2>2, <3>1, WeighedSeqIs
    <3>3. w * o <= w * r BY <2>2, <3>1, ProductRises
    <3>4. w * o = o * w /\ w * r = r * w OBVIOUS
    <3> QED BY <3>2, <3>3, <3>4
  <2> QED BY <2>1, <2>2
<1>4. Total(t) <= Total(s) BY <1>2, <1>3, TotalRises
<1>5. WeightSeq(ranks, weights) = WeightSeq(others, weights) BY DEF WeightSeq, SomeOf
<1> QED BY <1>1, <1>4, <1>5, WeighedIs

\* What is there gives at most, or exactly, so much of its weight as each part does.
LEMMA WeighedAtMost ==
  ASSUME NEW n \in Nat, NEW ranks \in SomeOf(n), NEW weights \in [1..n -> Nat], NEW against \in [1..n -> Nat],
         NEW c \in Nat, \A k \in 1..n : ranks[k] # NA => ranks[k] * weights[k] <= c * against[k]
  PROVE  Weighed(ranks, weights) <= c * WeightOf(ranks, against)
<1>1. PICK s, t \in Seq(Int) : s = WeighedSeq(ranks, weights) /\ t = WeightSeq(ranks, against) BY WeighedSeqIs
<1>2. Len(s) = n /\ Len(t) = n BY <1>1, WeighedSeqIs
<1>3. PICK u : u = [k \in 1..n |-> c * t[k]] OBVIOUS
<1>4. \A k \in 1..n : u[k] = c * t[k] /\ u[k] \in Int
  <2> TAKE k \in 1..n
  <2>1. PICK x \in Int : x = t[k] BY <1>2
  <2>2. u[k] = c * x /\ c * x \in Int BY <1>3, <2>1
  <2> QED BY <2>1, <2>2
<1>5. u \in [1..n -> Int] BY <1>3, <1>4
<1>6. u \in Seq(Int) /\ Len(u) = n BY <1>5
<1>7. ASSUME NEW k \in 1..n PROVE s[k] <= u[k]
  <2>1. CASE ranks[k] = NA
    <3>1. s[k] = 0 /\ t[k] = 0 BY <1>1, <2>1, WeighedSeqIs
    <3>2. u[k] = c * 0 BY <1>4, <3>1
    <3> QED BY <3>1, <3>2
  <2>2. CASE ranks[k] # NA
    <3>1. s[k] = ranks[k] * weights[k] /\ t[k] = against[k] BY <1>1, <2>2, WeighedSeqIs
    <3>2. u[k] = c * against[k] BY <1>4, <3>1
    <3> QED BY <2>2, <3>1, <3>2
  <2> QED BY <2>1, <2>2
<1>8. Total(s) <= Total(u) BY <1>2, <1>6, <1>7, TotalRises
<1>9. Total(u) = c * Total(t)
  <2>1. \A k \in 1..n : u[k] = c * t[k] BY <1>4
  <2>2. IsTimes(u, t, c) BY <1>6, <2>1 DEF IsTimes
  <2>3. u \in Seq(Int) /\ Len(u) = Len(t) BY <1>2, <1>6
  <2> QED BY <2>2, <2>3, TotalScales
<1> QED BY <1>1, <1>8, <1>9, WeighedIs

GivesAll(ranks, weights, against, c, n) == \A k \in 1..n : ranks[k] # NA => ranks[k] * weights[k] = c * against[k]

LEMMA WeighedIsAll ==
  ASSUME NEW n \in Nat, NEW ranks \in SomeOf(n), NEW weights \in [1..n -> Nat], NEW against \in [1..n -> Nat],
         NEW c \in Nat, GivesAll(ranks, weights, against, c, n)
  PROVE  Weighed(ranks, weights) = c * WeightOf(ranks, against)
<1>1. PICK s, t \in Seq(Int) : s = WeighedSeq(ranks, weights) /\ t = WeightSeq(ranks, against) BY WeighedSeqIs
<1>2. Len(s) = n /\ Len(t) = n BY <1>1, WeighedSeqIs
<1>3. ASSUME NEW k \in 1..n PROVE s[k] = c * t[k]
  <2>1. CASE ranks[k] = NA
    <3>1. s[k] = 0 /\ t[k] = 0 BY <1>1, <2>1, WeighedSeqIs
    <3>2. c * 0 = 0 OBVIOUS
    <3> QED BY <3>1, <3>2
  <2>2. CASE ranks[k] # NA
    <3>1. s[k] = ranks[k] * weights[k] /\ t[k] = against[k] BY <1>1, <2>2, WeighedSeqIs
    <3> QED BY <2>2, <3>1 DEF GivesAll
  <2> QED BY <2>1, <2>2
<1>4. Total(s) = c * Total(t)
  <2>1. IsTimes(s, t, c) BY <1>2, <1>3 DEF IsTimes
  <2> QED BY <1>2, <2>1, TotalScales
<1> QED BY <1>1, <1>4, WeighedIs

-------------------------------------------------------------------------------
\* A block whose factors can be ranked, and what it is made of.
IsBlock(block, features, S) ==
  /\ block.weight \in Nat \ {0} /\ \E T : block.factors \in Seq(T)
  /\ \A k \in 1..Len(block.factors) :
       block.factors[k].weight \in Nat \ {0} /\ Rankable(block.factors[k], features, S)

RanksIn(block, features, S, i) == Each(block.factors, LAMBDA f : RankOf(f, features, S, i))
WeightsIn(block) == Each(block.factors, LAMBDA f : f.weight)

LEMMA RanksAre ==
  ASSUME NEW block, NEW features, NEW S, IsBlock(block, features, S), NEW i, NEW m, m = Len(block.factors)
  PROVE  /\ m \in Nat
         /\ RanksIn(block, features, S, i) \in SomeOf(m)
         /\ WeightsIn(block) \in [1..m -> Nat]
         /\ \A k \in 1..m : /\ RanksIn(block, features, S, i)[k] = RankOf(block.factors[k], features, S, i)
                            /\ WeightsIn(block)[k] = block.factors[k].weight /\ WeightsIn(block)[k] > 0
<1>1. PICK T : block.factors \in Seq(T) BY DEF IsBlock
<1>2. m \in Nat /\ DOMAIN block.factors = 1..m BY <1>1
<1>3. PICK r, w : /\ r = [k \in 1..m |-> RankOf(block.factors[k], features, S, i)]
                  /\ w = [k \in 1..m |-> block.factors[k].weight]
  OBVIOUS
<1>4. ASSUME NEW k \in 1..m PROVE r[k] \in Nat \cup {NA}
  <2>1. Rankable(block.factors[k], features, S) BY DEF IsBlock
  <2>2. RankOf(block.factors[k], features, S, i) \in (0..Whole) \cup {NA} BY <2>1, RankOfIs
  <2>3. 0..Whole \subseteq Nat BY UniversesAssumption
  <2> QED BY <1>3, <2>2, <2>3
<1>5. r \in [1..m -> Nat \cup {NA}] BY <1>3, <1>4
<1>6. \A k \in 1..m : w[k] \in Nat /\ w[k] > 0 /\ w[k] = block.factors[k].weight BY <1>3 DEF IsBlock
<1>7. w \in [1..m -> Nat] BY <1>3, <1>6
<1>8. r \o <<>> = r /\ w \o <<>> = w BY <1>2, <1>5, <1>7, FunctionIsSeq
<1>9. RanksIn(block, features, S, i) = r /\ WeightsIn(block) = w
  BY <1>2, <1>3, <1>8 DEF RanksIn, WeightsIn, Each
<1> QED BY <1>2, <1>3, <1>5, <1>6, <1>7, <1>9 DEF SomeOf

LEMMA BlockPointsAre ==
  ASSUME NEW block, NEW features, NEW S, NEW i,
         NEW r, r = RanksIn(block, features, S, i), NEW w, w = WeightsIn(block)
  PROVE  BlockPoints(block, features, S, i) =
           IF WeightOf(r, w) = 0 THEN NA ELSE (Scale * block.weight * Weighed(r, w)) \div WeightOf(r, w)
BY DEF BlockPoints, RanksIn, WeightsIn

\* Some factor of the block is there.
HasBlock(block, features, S, i) ==
  \E k \in 1..Len(block.factors) : i \in Having(block.factors[k], features, S)

MostOf(block) == Scale * Whole * block.weight

LEMMA BlockIs ==
  ASSUME NEW block, NEW features, NEW S, IsBlock(block, features, S), NEW i
  PROVE  /\ HasBlock(block, features, S, i) => BlockPoints(block, features, S, i) \in 0..MostOf(block)
         /\ ~HasBlock(block, features, S, i) => BlockPoints(block, features, S, i) = NA
         /\ MostOf(block) \in Nat
<1>1. PICK m \in Nat : m = Len(block.factors) BY RanksAre
<1>2. PICK r \in SomeOf(m), w \in [1..m -> Nat] : r = RanksIn(block, features, S, i) /\ w = WeightsIn(block)
  BY <1>1, RanksAre
<1>3. \A k \in 1..m : r[k] = RankOf(block.factors[k], features, S, i) /\ w[k] > 0 BY <1>1, <1>2, RanksAre
<1>4. \A k \in 1..m : Rankable(block.factors[k], features, S) BY <1>1 DEF IsBlock
<1>5. \A k \in 1..m : r[k] # NA <=> i \in Having(block.factors[k], features, S)
  <2> TAKE k \in 1..m
  <2>1. i \in Having(block.factors[k], features, S) => r[k] \in 0..Whole BY <1>3, <1>4, RankOfIs
  <2>2. i \notin Having(block.factors[k], features, S) => r[k] = NA BY <1>3, <1>4, RankOfIs
  <2>3. NA \notin 0..Whole BY UniversesAssumption DEF NA
  <2> QED BY <2>1, <2>2, <2>3
<1>6. PICK a, b \in Nat : a = Weighed(r, w) /\ b = WeightOf(r, w) BY <1>2, WeighedIs
<1>7. PICK v, c, best \in Nat : v = block.weight /\ c = Scale /\ best = Whole
  BY UniversesAssumption DEF IsBlock, Scale
<1>8. PICK points : points = BlockPoints(block, features, S, i) OBVIOUS
<1>9. points = IF b = 0 THEN NA ELSE (c * v * a) \div b BY <1>2, <1>6, <1>7, <1>8, BlockPointsAre
<1>10. MostOf(block) = c * best * v /\ c * best * v \in Nat BY <1>7 DEF MostOf
<1>11. ASSUME HasBlock(block, features, S, i) PROVE points \in 0..MostOf(block)
  <2>1. PICK k \in 1..m : r[k] # NA BY <1>1, <1>5, <1>11 DEF HasBlock
  <2>2. w[k] \in Nat /\ w[k] <= b /\ w[k] > 0 BY <1>2, <1>3, <1>6, <2>1, WeighedIs
  <2>3. b > 0 BY <2>2
  <2>4. \A l \in 1..m : r[l] # NA => r[l] * w[l] <= best * w[l]
    <3> SUFFICES ASSUME NEW l \in 1..m, r[l] # NA PROVE r[l] * w[l] <= best * w[l] OBVIOUS
    <3>1. r[l] \in 0..best BY <1>3, <1>4, <1>5, <1>7, RankOfIs
    <3>2. PICK x, y \in Nat : x = r[l] /\ y = w[l] /\ x <= best BY <3>1
    <3>3. y * x <= y * best BY <3>2, ProductRises
    <3>4. y * x = x * y /\ y * best = best * y OBVIOUS
    <3> QED BY <3>2, <3>3, <3>4
  <2>5. a <= best * b BY <1>6, <2>4, WeighedAtMost
  <2>6. PICK g \in Nat : g = c * v /\ g * a = c * v * a OBVIOUS
  <2>7. g * a <= g * (best * b)
    <3>1. best * b \in Int OBVIOUS
    <3> QED BY <2>5, <3>1, ProductRises
  <2>8. g * (best * b) = (c * best * v) * b BY <2>6
  <2>9. PICK x, y \in Nat : x = g * a /\ y = c * best * v OBVIOUS
  <2>10. x <= y * b /\ y * b \in Int BY <2>7, <2>8, <2>9
  <2>11. x \div b <= (y * b) \div b BY <2>3, <2>10, QuotientRises
  <2>12. (y * b) \div b = y BY <2>3, QuotientOfProduct
  <2>13. 0 \div b <= x \div b /\ x \div b \in Int BY <2>3, QuotientRises, QuotientIs
  <2>14. 0 \div b = 0 BY <2>3
  <2>15. points = x \div b BY <1>9, <2>3, <2>6, <2>9
  <2> QED BY <1>10, <2>9, <2>11, <2>12, <2>13, <2>14, <2>15
<1>12. ASSUME ~HasBlock(block, features, S, i) PROVE points = NA
  <2>1. \A k \in 1..m : r[k] = NA BY <1>1, <1>5, <1>12 DEF HasBlock
  <2>2. \A k \in 1..m : r[k] # NA => r[k] * w[k] = 0 * w[k] BY <2>1
  <2>3. b = 0
    <3>1. PICK t \in Seq(Int) : t = WeightSeq(r, w) /\ Len(t) = m BY <1>2, WeighedSeqIs
    <3>2. \A k \in 1..m : t[k] = 0 BY <2>1, <3>1, WeighedSeqIs
    <3>3. \A k \in 1..m : t[k] = 0 * t[k] BY <3>2
    <3>4. IsTimes(t, t, 0) BY <3>1, <3>3 DEF IsTimes
    <3>5. Total(t) = 0 * Total(t) BY <3>4, TotalScales
    <3>6. Total(t) \in Int BY TotalIs
    <3>7. Total(t) = 0 BY <3>5, <3>6
    <3> QED BY <1>6, <3>1, <3>7, WeighedIs
  <2> QED BY <1>9, <2>3
<1> QED BY <1>8, <1>10, <1>11, <1>12

\* A row as good in the factors of a block as another, that has the same ones.
AsGoodIn(factors, features, S, i, j) ==
  \A k \in 1..Len(factors) :
    /\ i \in Having(factors[k], features, S) <=> j \in Having(factors[k], features, S)
    /\ i \in Having(factors[k], features, S) =>
         AsGood(features[i][factors[k].name], features[j][factors[k].name], factors[k].name)

LEMMA BlockRises ==
  ASSUME NEW block, NEW features, NEW S, IsBlock(block, features, S), NEW i, NEW j,
         AsGoodIn(block.factors, features, S, i, j), HasBlock(block, features, S, i)
  PROVE  BlockPoints(block, features, S, j) <= BlockPoints(block, features, S, i)
<1>1. PICK m \in Nat : m = Len(block.factors) BY RanksAre
<1>2. PICK r \in SomeOf(m), o \in SomeOf(m), w \in [1..m -> Nat] :
        r = RanksIn(block, features, S, i) /\ o = RanksIn(block, features, S, j) /\ w = WeightsIn(block)
  BY <1>1, RanksAre
<1>3. \A k \in 1..m : /\ r[k] = RankOf(block.factors[k], features, S, i) /\ w[k] > 0
                      /\ o[k] = RankOf(block.factors[k], features, S, j)
  BY <1>1, <1>2, RanksAre
<1>4. \A k \in 1..m : Rankable(block.factors[k], features, S) BY <1>1 DEF IsBlock
<1>5. ASSUME NEW k \in 1..m
      PROVE  ((r[k] = NA) <=> (o[k] = NA)) /\ (r[k] # NA => o[k] <= r[k])
  <2>1. CASE i \in Having(block.factors[k], features, S)
    <3>1. j \in Having(block.factors[k], features, S) BY <1>1, <2>1 DEF AsGoodIn
    <3>2. r[k] \in 0..Whole /\ o[k] \in 0..Whole BY <1>3, <1>4, <2>1, <3>1, RankOfIs
    <3>3. NA \notin 0..Whole BY UniversesAssumption DEF NA
    <3>4. AsGood(features[i][block.factors[k].name], features[j][block.factors[k].name], block.factors[k].name)
      BY <1>1, <2>1 DEF AsGoodIn
    <3>5. o[k] <= r[k] BY <1>3, <1>4, <2>1, <3>1, <3>4, RankOfRises
    <3> QED BY <3>2, <3>3, <3>5
  <2>2. CASE i \notin Having(block.factors[k], features, S)
    <3>1. j \notin Having(block.factors[k], features, S) BY <1>1, <2>2 DEF AsGoodIn
    <3> QED BY <1>3, <1>4, <2>2, <3>1, RankOfIs
  <2> QED BY <2>1, <2>2
<1>6. Weighed(o, w) <= Weighed(r, w) /\ WeightOf(o, w) = WeightOf(r, w) BY <1>5, WeighedRises
<1>7. PICK a, d, b \in Nat : a = Weighed(r, w) /\ d = Weighed(o, w) /\ b = WeightOf(r, w) BY WeighedIs
<1>8. PICK g \in Nat : g = Scale * block.weight
  <2>1. PICK v, c \in Nat : v = block.weight /\ c = Scale BY DEF IsBlock, Scale
  <2>2. c * v \in Nat OBVIOUS
  <2> QED BY <2>1, <2>2
<1>9. BlockPoints(block, features, S, i) = IF b = 0 THEN NA ELSE (g * a) \div b
  BY <1>2, <1>7, <1>8, BlockPointsAre
<1>10. BlockPoints(block, features, S, j) = IF b = 0 THEN NA ELSE (g * d) \div b
  BY <1>2, <1>6, <1>7, <1>8, BlockPointsAre
<1>11. b # 0
  <2>1. NA \notin 0..MostOf(block) BY DEF NA
  <2> QED BY <1>9, <2>1, BlockIs
<1>12. g * d <= g * a BY <1>6, <1>7, ProductRises
<1>13. PICK x, y \in Int : x = g * d /\ y = g * a OBVIOUS
<1>14. x \div b <= y \div b BY <1>11, <1>12, <1>13, QuotientRises
<1> QED BY <1>9, <1>10, <1>11, <1>13, <1>14

\* The best in all it has of a block has all of its points.
LEMMA BlockBest ==
  ASSUME NEW block, NEW features, NEW S, IsBlock(block, features, S), NEW i, HasBlock(block, features, S, i),
         \A k \in 1..Len(block.factors) :
           i \in Having(block.factors[k], features, S) => BestIn(block.factors[k], features, S, i)
  PROVE  BlockPoints(block, features, S, i) = MostOf(block)
<1>1. PICK m \in Nat : m = Len(block.factors) BY RanksAre
<1>2. PICK r \in SomeOf(m), w \in [1..m -> Nat] : r = RanksIn(block, features, S, i) /\ w = WeightsIn(block)
  BY <1>1, RanksAre
<1>3. \A k \in 1..m : r[k] = RankOf(block.factors[k], features, S, i) BY <1>1, <1>2, RanksAre
<1>4. \A k \in 1..m : Rankable(block.factors[k], features, S) BY <1>1 DEF IsBlock
<1>5. PICK v, c, best \in Nat : v = block.weight /\ c = Scale /\ best = Whole
  BY UniversesAssumption DEF IsBlock, Scale
<1>6. \A k \in 1..m : r[k] # NA => r[k] * w[k] = best * w[k]
  <2> SUFFICES ASSUME NEW k \in 1..m, r[k] # NA PROVE r[k] = best OBVIOUS
  <2>1. i \in Having(block.factors[k], features, S) BY <1>3, <1>4, RankOfIs
  <2>2. BestIn(block.factors[k], features, S, i) BY <1>1, <2>1
  <2> QED BY <1>3, <1>4, <1>5, <2>1, <2>2, RankOfBest
<1>7. PICK a, b \in Nat : a = Weighed(r, w) /\ b = WeightOf(r, w) BY WeighedIs
<1>8. a = best * b
  <2>1. GivesAll(r, w, w, best, m) BY <1>6 DEF GivesAll
  <2> QED BY <1>7, <2>1, WeighedIsAll
<1>9. BlockPoints(block, features, S, i) = IF b = 0 THEN NA ELSE (c * v * a) \div b
  BY <1>2, <1>5, <1>7, BlockPointsAre
<1>10. b # 0
  <2>1. NA \notin 0..MostOf(block) BY DEF NA
  <2> QED BY <1>9, <2>1, BlockIs
<1>11. PICK y \in Nat : y = c * best * v OBVIOUS
<1>12. c * v * a = y * b BY <1>8, <1>11
<1>13. (y * b) \div b = y BY <1>10, QuotientOfProduct
<1> QED BY <1>5, <1>9, <1>10, <1>11, <1>12, <1>13 DEF MostOf

-------------------------------------------------------------------------------
\* A share of the whole, to the nearest part.
Nearest(x, best) == (2 * Grain * x + best) \div (2 * best)

LEMMA NearestIs ==
  ASSUME NEW best \in Nat, best > 0, NEW x \in 0..best
  PROVE  /\ Nearest(x, best) \in 0..Grain
         /\ x = best => Nearest(x, best) = Grain
         /\ \A y \in 0..x : Nearest(y, best) <= Nearest(x, best)
<1>1. PICK g \in Nat : g = Grain BY UniversesAssumption
<1>2. PICK n \in Nat : n = 2 * best /\ n > 0 OBVIOUS
<1>3. \A y \in 0..best : Nearest(y, best) = (2 * g * y + best) \div n BY <1>1, <1>2 DEF Nearest
<1>4. ASSUME NEW y \in 0..best, NEW z \in 0..best, y <= z
      PROVE  (2 * g * y + best) \div n <= (2 * g * z + best) \div n
  <2>1. (2 * g) * y <= (2 * g) * z BY <1>4, ProductRises
  <2>2. PICK a, b \in Int : a = (2 * g) * y /\ b = (2 * g) * z OBVIOUS
  <2>3. a + best <= b + best /\ a + best \in Int /\ b + best \in Int BY <2>1, <2>2
  <2>4. (a + best) \div n <= (b + best) \div n BY <1>2, <2>3, QuotientRises
  <2> QED BY <2>2, <2>4
<1>5. (2 * g * best + best) \div n = g
  <2>1. PICK q \in Int : q = (2 * g * best + best) \div n
    <3>1. 2 * g * best + best \in Int OBVIOUS
    <3> QED BY <1>2, <3>1, QuotientIs
  <2>2. PICK m \in Nat : m = g * best OBVIOUS
  <2>3. PICK u \in Int : u = 2 * m + best /\ u = 2 * g * best + best
    <3>1. 2 * g * best = 2 * m BY <2>2
    <3>2. 2 * m + best \in Int OBVIOUS
    <3> QED BY <3>1, <3>2
  <2>4. q * n <= u /\ u < q * n + n BY <1>2, <2>1, <2>3, QuotientIs
  <2>5. ~(q > g)
    <3> SUFFICES ASSUME q > g PROVE FALSE OBVIOUS
    <3>1. n * (g + 1) <= n * q
      <4>1. g + 1 \in Int /\ g + 1 <= q OBVIOUS
      <4> QED BY <1>2, <4>1, ProductRises
    <3>2. n * (g + 1) = 2 * m + 2 * best BY <1>2, <2>2
    <3>3. PICK a \in Int : a = q * n /\ a = n * q OBVIOUS
    <3> QED BY <2>3, <2>4, <3>1, <3>2, <3>3
  <2>6. ~(g > q)
    <3> SUFFICES ASSUME g > q PROVE FALSE OBVIOUS
    <3>1. n * (q + 1) <= n * g
      <4>1. q + 1 \in Int /\ q + 1 <= g OBVIOUS
      <4> QED BY <1>2, <4>1, ProductRises
    <3>2. n * g = 2 * m BY <1>2, <2>2
    <3>3. n * (q + 1) = q * n + n OBVIOUS
    <3>4. PICK a \in Int : a = q * n OBVIOUS
    <3> QED BY <2>3, <2>4, <3>1, <3>2, <3>3, <3>4
  <2> QED BY <2>1, <2>5, <2>6
<1>6. 0 <= (2 * g * 0 + best) \div n
  <2>1. 0 \div n <= best \div n BY <1>2, QuotientRises
  <2>2. 0 \div n = 0 BY <1>2
  <2>3. 2 * g * 0 + best = best OBVIOUS
  <2> QED BY <2>1, <2>2, <2>3
<1>7. (2 * g * x + best) \div n \in Int
  <2>1. 2 * g * x + best \in Int OBVIOUS
  <2> QED BY <1>2, <2>1, QuotientIs
<1>8. PICK q \in Int : q = (2 * g * x + best) \div n BY <1>7
<1>9. q <= g BY <1>4, <1>5, <1>8
<1>10. 0 <= q
  <2>1. (2 * g * 0 + best) \div n <= q
    <3>1. 0 \in 0..best /\ x \in 0..best /\ 0 <= x OBVIOUS
    <3>2. (2 * g * 0 + best) \div n <= (2 * g * x + best) \div n BY <1>4, <3>1
    <3> QED BY <1>8, <3>2
  <2>2. (2 * g * 0 + best) \div n \in Int
    <3>1. 2 * g * 0 + best \in Int OBVIOUS
    <3> QED BY <1>2, <3>1, QuotientIs
  <2> QED BY <1>6, <2>1, <2>2
<1>11. Nearest(x, best) = q BY <1>3, <1>8
<1>12. \A y \in 0..x : Nearest(y, best) <= Nearest(x, best)
  <2> TAKE y \in 0..x
  <2>1. y \in 0..best /\ y <= x OBVIOUS
  <2>2. (2 * g * y + best) \div n <= (2 * g * x + best) \div n BY <1>4, <2>1
  <2> QED BY <1>3, <2>1, <2>2
<1>13. x = best => Nearest(x, best) = Grain BY <1>1, <1>3, <1>5
<1> QED BY <1>1, <1>9, <1>10, <1>11, <1>12, <1>13

-------------------------------------------------------------------------------
IsBlocks(blocks, features, S) ==
  /\ \E T : blocks \in Seq(T)
  /\ \A k \in 1..Len(blocks) : IsBlock(blocks[k], features, S)

PointsIn(blocks, features, S, i) == Each(blocks, LAMBDA b : BlockPoints(b, features, S, i))
BlockWeights(blocks) == Each(blocks, LAMBDA b : b.weight)
Ones(blocks) == Each(blocks, LAMBDA b : 1)

LEMMA PointsAreSome ==
  ASSUME NEW blocks, NEW features, NEW S, IsBlocks(blocks, features, S), NEW i, NEW m, m = Len(blocks)
  PROVE  /\ m \in Nat
         /\ PointsIn(blocks, features, S, i) \in SomeOf(m)
         /\ BlockWeights(blocks) \in [1..m -> Nat] /\ Ones(blocks) \in [1..m -> Nat]
         /\ \A k \in 1..m : /\ PointsIn(blocks, features, S, i)[k] = BlockPoints(blocks[k], features, S, i)
                            /\ BlockWeights(blocks)[k] = blocks[k].weight /\ BlockWeights(blocks)[k] > 0
                            /\ Ones(blocks)[k] = 1
<1>1. PICK T : blocks \in Seq(T) BY DEF IsBlocks
<1>2. m \in Nat /\ DOMAIN blocks = 1..m BY <1>1
<1>3. PICK p, w, o : /\ p = [k \in 1..m |-> BlockPoints(blocks[k], features, S, i)]
                     /\ w = [k \in 1..m |-> blocks[k].weight] /\ o = [k \in 1..m |-> 1]
  OBVIOUS
<1>4. ASSUME NEW k \in 1..m PROVE p[k] \in Nat \cup {NA}
  <2>1. IsBlock(blocks[k], features, S) BY DEF IsBlocks
  <2>2. BlockPoints(blocks[k], features, S, i) \in Nat \cup {NA}
    <3>1. MostOf(blocks[k]) \in Nat BY <2>1, BlockIs
    <3>2. CASE HasBlock(blocks[k], features, S, i)
      <4>1. BlockPoints(blocks[k], features, S, i) \in 0..MostOf(blocks[k]) BY <2>1, <3>2, BlockIs
      <4> QED BY <3>1, <4>1
    <3>3. CASE ~HasBlock(blocks[k], features, S, i) BY <2>1, <3>3, BlockIs
    <3> QED BY <3>2, <3>3
  <2> QED BY <1>3, <2>2
<1>5. p \in [1..m -> Nat \cup {NA}] BY <1>3, <1>4
<1>6. \A k \in 1..m : w[k] \in Nat /\ w[k] > 0 /\ w[k] = blocks[k].weight BY <1>3 DEF IsBlocks, IsBlock
<1>7. w \in [1..m -> Nat] /\ o \in [1..m -> Nat] BY <1>3, <1>6
<1>8. p \o <<>> = p /\ w \o <<>> = w /\ o \o <<>> = o BY <1>2, <1>5, <1>7, FunctionIsSeq
<1>9. PointsIn(blocks, features, S, i) = p /\ BlockWeights(blocks) = w /\ Ones(blocks) = o
  BY <1>2, <1>3, <1>8 DEF PointsIn, BlockWeights, Ones, Each
<1> QED BY <1>2, <1>3, <1>5, <1>6, <1>7, <1>9 DEF SomeOf

\* What the blocks are found to give.
GivenPoints(p, blocks, features, S, i) == \A k \in 1..Len(blocks) : p[k] = BlockPoints(blocks[k], features, S, i)

LEMMA PointsAt ==
  ASSUME NEW blocks, NEW features, NEW S, IsBlocks(blocks, features, S), NEW i
  PROVE  GivenPoints(PointsIn(blocks, features, S, i), blocks, features, S, i)
<1>1. PICK r : r = PointsIn(blocks, features, S, i) OBVIOUS
<1>2. \A l \in 1..Len(blocks) : r[l] = BlockPoints(blocks[l], features, S, i) BY <1>1, PointsAreSome
<1> QED BY <1>1, <1>2 DEF GivenPoints

\* The best that the blocks of a row can give.
BestOf(blocks, points) == WeightOf(points, BlockWeights(blocks)) * Scale * Whole

LEMMA ScoreAre ==
  ASSUME NEW blocks, NEW features, NEW S, NEW i, NEW p, p = PointsIn(blocks, features, S, i)
  PROVE  Score(blocks, features, S, i) =
           IF BestOf(blocks, p) = 0 THEN NA ELSE Nearest(Weighed(p, Ones(blocks)), BestOf(blocks, p))
BY DEF Score, PointsIn, BlockWeights, Ones, BestOf, Nearest

HasScore(blocks, features, S, i) == \E k \in 1..Len(blocks) : HasBlock(blocks[k], features, S, i)

LEMMA PointsFit ==
  ASSUME NEW blocks, NEW features, NEW S, IsBlocks(blocks, features, S), NEW i,
         NEW p, p = PointsIn(blocks, features, S, i)
  PROVE  /\ BestOf(blocks, p) \in Nat
         /\ HasScore(blocks, features, S, i) <=> BestOf(blocks, p) > 0
         /\ Weighed(p, Ones(blocks)) \in 0..BestOf(blocks, p)
         /\ \A k \in 1..Len(blocks) : p[k] # NA <=> HasBlock(blocks[k], features, S, i)
<1>1. PICK m \in Nat : m = Len(blocks) BY PointsAreSome
<1>2. PICK w, o \in [1..m -> Nat] : w = BlockWeights(blocks) /\ o = Ones(blocks) BY <1>1, PointsAreSome
<1>3. p \in SomeOf(m) BY <1>1, PointsAreSome
<1>4. \A k \in 1..m : /\ p[k] = BlockPoints(blocks[k], features, S, i) /\ w[k] = blocks[k].weight /\ w[k] > 0
                      /\ o[k] = 1 /\ IsBlock(blocks[k], features, S)
  <2> TAKE k \in 1..m
  <2>1. p[k] = BlockPoints(blocks[k], features, S, i) 
    <3>1. GivenPoints(p, blocks, features, S, i) BY PointsAt
    <3> QED BY <1>1, <3>1 DEF GivenPoints
  <2>2. w[k] = blocks[k].weight /\ w[k] > 0 /\ o[k] = 1 BY <1>1, <1>2, PointsAreSome
  <2>3. IsBlock(blocks[k], features, S) BY <1>1 DEF IsBlocks
  <2> QED BY <2>1, <2>2, <2>3
<1>5. \A k \in 1..m : p[k] # NA <=> HasBlock(blocks[k], features, S, i)
  <2> TAKE k \in 1..m
  <2>1. NA \notin 0..MostOf(blocks[k]) BY DEF NA
  <2> QED BY <1>4, <2>1, BlockIs
<1>6. PICK c \in Nat : c = Scale * Whole /\ c > 0
  <2>1. PICK a, b \in Nat : a = Scale /\ b = Whole /\ a > 0 /\ b > 0 BY UniversesAssumption DEF Scale
  <2>2. a * b \in Nat /\ a * b > 0 BY <2>1
  <2> QED BY <2>1, <2>2
<1>7. PICK b \in Nat : b = WeightOf(p, w) BY <1>2, <1>3, WeighedIs
<1>8. BestOf(blocks, p) = c * b /\ c * b \in Nat
  <2>1. BestOf(blocks, p) = b * Scale * Whole BY <1>2, <1>7 DEF BestOf
  <2>2. PICK x, y \in Nat : x = Scale /\ y = Whole BY UniversesAssumption DEF Scale
  <2>3. b * x * y = (x * y) * b OBVIOUS
  <2>4. c * b \in Nat OBVIOUS
  <2> QED BY <1>6, <2>1, <2>2, <2>3, <2>4
<1>9. Weighed(p, o) <= c * b
  <2>1. ASSUME NEW k \in 1..m, p[k] # NA PROVE p[k] * o[k] <= c * w[k]
    <3>1. p[k] \in 0..MostOf(blocks[k]) BY <1>4, <1>5, <2>1, BlockIs
    <3>2. MostOf(blocks[k]) = c * w[k] BY <1>4, <1>6 DEF MostOf
    <3>3. PICK x \in Nat : x = p[k] /\ x <= c * w[k] BY <3>1, <3>2
    <3>4. x * 1 = x OBVIOUS
    <3> QED BY <1>4, <3>3, <3>4
  <2>2. \A k \in 1..m : p[k] # NA => p[k] * o[k] <= c * w[k] BY <2>1
  <2> QED BY <1>2, <1>3, <1>7, <2>2, WeighedAtMost
<1>10. Weighed(p, o) \in Nat BY <1>2, <1>3, WeighedIs
<1>11. HasScore(blocks, features, S, i) <=> b > 0
  <2>1. ASSUME HasScore(blocks, features, S, i) PROVE b > 0
    <3>1. PICK k \in 1..m : p[k] # NA BY <1>1, <1>5, <2>1 DEF HasScore
    <3>2. w[k] \in Nat /\ w[k] <= b /\ w[k] > 0 BY <1>2, <1>3, <1>4, <1>7, <3>1, WeighedIs
    <3> QED BY <3>2
  <2>2. ASSUME ~HasScore(blocks, features, S, i) PROVE b = 0
    <3>1. \A k \in 1..m : p[k] = NA BY <1>1, <1>5, <2>2 DEF HasScore
    <3>2. PICK t \in Seq(Int) : t = WeightSeq(p, w) /\ Len(t) = m BY <1>2, <1>3, WeighedSeqIs
    <3>3. ASSUME NEW k \in 1..m PROVE t[k] = 0
      <4>1. WeightSeq(p, w)[k] = IF p[k] = NA THEN 0 ELSE w[k] BY <1>2, <1>3, WeighedSeqIs
      <4> QED BY <3>1, <3>2, <4>1
    <3>4. PICK zero \in Int : zero = 0 OBVIOUS
    <3>5. \A k \in 1..m : t[k] = zero * t[k] BY <3>3, <3>4
    <3>6. IsTimes(t, t, zero) BY <3>2, <3>5 DEF IsTimes
    <3>7. Len(t) = Len(t) OBVIOUS
    <3>8. Total(t) = zero * Total(t) BY <3>2, <3>4, <3>6, <3>7, TotalScales
    <3>9. Total(t) \in Int BY <3>2, TotalIs
    <3>10. Total(t) = 0 BY <3>4, <3>8, <3>9
    <3> QED BY <1>2, <1>3, <1>7, <3>2, <3>10, WeighedIs
  <2> QED BY <2>1, <2>2
<1>12. c * b > 0 <=> b > 0
  <2>1. b > 0 => c * b > 0 BY <1>6
  <2>2. b = 0 => c * b = 0 OBVIOUS
  <2> QED BY <2>1, <2>2
<1>13. Weighed(p, Ones(blocks)) \in 0..BestOf(blocks, p)
  <2>1. PICK x, y \in Nat : x = Weighed(p, o) /\ y = c * b BY <1>8, <1>10
  <2>2. x <= y BY <1>9, <2>1
  <2>3. x \in 0..y BY <2>2
  <2> QED BY <1>2, <1>8, <2>1, <2>3
<1> QED BY <1>1, <1>5, <1>8, <1>11, <1>12, <1>13

\* A row with a block has a score of so many parts, and one without any has none.
LEMMA ScoreInGrain ==
  ASSUME NEW blocks, NEW features, NEW S, IsBlocks(blocks, features, S), NEW i
  PROVE  /\ HasScore(blocks, features, S, i) => Score(blocks, features, S, i) \in 0..Grain
         /\ ~HasScore(blocks, features, S, i) => Score(blocks, features, S, i) = NA
<1>1. PICK p : p = PointsIn(blocks, features, S, i) OBVIOUS
<1>2. PICK b \in Nat : b = BestOf(blocks, p) BY <1>1, PointsFit
<1>3. PICK x \in 0..b : x = Weighed(p, Ones(blocks)) BY <1>1, <1>2, PointsFit
<1>4. Score(blocks, features, S, i) = IF b = 0 THEN NA ELSE Nearest(x, b) BY <1>1, <1>2, <1>3, ScoreAre
<1>5. HasScore(blocks, features, S, i) <=> b > 0 BY <1>1, <1>2, PointsFit
<1>6. b > 0 => Nearest(x, b) \in 0..Grain BY NearestIs
<1>7. b > 0 \/ b = 0 BY <1>2
<1> QED BY <1>4, <1>5, <1>6, <1>7

LEMMA ScoreRises ==
  ASSUME NEW blocks, NEW features, NEW S, IsBlocks(blocks, features, S), NEW i, NEW j,
         \A k \in 1..Len(blocks) : AsGoodIn(blocks[k].factors, features, S, i, j)
  PROVE  Score(blocks, features, S, j) <= Score(blocks, features, S, i)
<1>1. PICK m \in Nat : m = Len(blocks) BY PointsAreSome
<1>2. PICK p, q : p = PointsIn(blocks, features, S, i) /\ q = PointsIn(blocks, features, S, j) OBVIOUS
<1>3. PICK w, o \in [1..m -> Nat] : w = BlockWeights(blocks) /\ o = Ones(blocks) BY <1>1, PointsAreSome
<1>4. p \in SomeOf(m) /\ q \in SomeOf(m) BY <1>1, <1>2, PointsAreSome
<1>5. ASSUME NEW k \in 1..m PROVE ((p[k] = NA) <=> (q[k] = NA)) /\ (p[k] # NA => q[k] <= p[k])
  <2>1. AsGoodIn(blocks[k].factors, features, S, i, j) BY <1>1
  <2>2. IsBlock(blocks[k], features, S) BY <1>1 DEF IsBlocks
  <2>3. p[k] = BlockPoints(blocks[k], features, S, i) /\ q[k] = BlockPoints(blocks[k], features, S, j)
    <3>1. GivenPoints(p, blocks, features, S, i) /\ GivenPoints(q, blocks, features, S, j) BY <1>2, PointsAt
    <3> QED BY <1>1, <3>1 DEF GivenPoints
  <2>4. p[k] # NA <=> HasBlock(blocks[k], features, S, i) BY <1>1, <1>2, PointsFit
  <2>5. q[k] # NA <=> HasBlock(blocks[k], features, S, j) BY <1>1, <1>2, PointsFit
  <2>6. HasBlock(blocks[k], features, S, i) <=> HasBlock(blocks[k], features, S, j)
    BY <2>1 DEF HasBlock, AsGoodIn
  <2>7. p[k] # NA => q[k] <= p[k] BY <2>1, <2>2, <2>3, <2>4, BlockRises
  <2> QED BY <2>4, <2>5, <2>6, <2>7
<1>6. Weighed(q, o) <= Weighed(p, o) /\ WeightOf(q, w) = WeightOf(p, w) BY <1>3, <1>4, <1>5, WeighedRises
<1>7. BestOf(blocks, q) = BestOf(blocks, p) BY <1>3, <1>6 DEF BestOf
<1>8. PICK b \in Nat : b = BestOf(blocks, p) BY <1>2, PointsFit
<1>9. PICK x, y \in 0..b : x = Weighed(p, o) /\ y = Weighed(q, o) BY <1>2, <1>3, <1>7, <1>8, PointsFit
<1>10. y \in 0..x BY <1>6, <1>9
<1>11. Score(blocks, features, S, i) = IF b = 0 THEN NA ELSE Nearest(x, b) BY <1>2, <1>3, <1>8, <1>9, ScoreAre
<1>12. Score(blocks, features, S, j) = IF b = 0 THEN NA ELSE Nearest(y, b)
  BY <1>2, <1>3, <1>7, <1>8, <1>9, ScoreAre
<1>13. CASE b = 0
  <2>1. NA <= NA BY DEF NA
  <2> QED BY <1>11, <1>12, <1>13, <2>1
<1>14. CASE b # 0
  <2>1. Nearest(y, b) <= Nearest(x, b) BY <1>10, <1>14, NearestIs
  <2> QED BY <1>11, <1>12, <1>14, <2>1
<1> QED BY <1>13, <1>14

LEMMA ScoreBest ==
  ASSUME NEW blocks, NEW features, NEW S, IsBlocks(blocks, features, S), NEW i, HasScore(blocks, features, S, i),
         \A k \in 1..Len(blocks) : \A l \in 1..Len(blocks[k].factors) :
           i \in Having(blocks[k].factors[l], features, S) => BestIn(blocks[k].factors[l], features, S, i)
  PROVE  Score(blocks, features, S, i) = Grain
<1>1. PICK m \in Nat : m = Len(blocks) BY PointsAreSome
<1>2. PICK p : p = PointsIn(blocks, features, S, i) OBVIOUS
<1>3. PICK w, o \in [1..m -> Nat] : w = BlockWeights(blocks) /\ o = Ones(blocks) BY <1>1, PointsAreSome
<1>4. p \in SomeOf(m) BY <1>1, <1>2, PointsAreSome
<1>5. PICK c \in Nat : c = Scale * Whole
  <2>1. PICK a, b \in Nat : a = Scale /\ b = Whole BY UniversesAssumption DEF Scale
  <2>2. a * b \in Nat OBVIOUS
  <2> QED BY <2>1, <2>2
<1>6. ASSUME NEW k \in 1..m, p[k] # NA PROVE p[k] * o[k] = c * w[k]
  <2>1. IsBlock(blocks[k], features, S) BY <1>1 DEF IsBlocks
  <2>2. HasBlock(blocks[k], features, S, i) BY <1>1, <1>2, <1>6, PointsFit
  <2>3. \A l \in 1..Len(blocks[k].factors) :
          i \in Having(blocks[k].factors[l], features, S) => BestIn(blocks[k].factors[l], features, S, i)
    BY <1>1
  <2>4. BlockPoints(blocks[k], features, S, i) = MostOf(blocks[k]) BY <2>1, <2>2, <2>3, BlockBest
  <2>5. p[k] = BlockPoints(blocks[k], features, S, i) /\ w[k] = blocks[k].weight /\ o[k] = 1
    BY <1>1, <1>2, <1>3, PointsAreSome
  <2>6. p[k] = c * w[k] /\ c * w[k] \in Nat BY <1>3, <1>5, <2>4, <2>5 DEF MostOf
  <2>7. PICK x \in Nat : x = p[k] BY <2>6
  <2>8. x * 1 = x OBVIOUS
  <2> QED BY <2>5, <2>6, <2>7, <2>8
<1>7. PICK a, b \in Nat : a = Weighed(p, o) /\ b = WeightOf(p, w) BY <1>3, <1>4, WeighedIs
<1>8. a = c * b
  <2>1. GivesAll(p, o, w, c, m) BY <1>6 DEF GivesAll
  <2> QED BY <1>3, <1>4, <1>7, <2>1, WeighedIsAll
<1>9. BestOf(blocks, p) = a
  <2>1. BestOf(blocks, p) = b * Scale * Whole BY <1>3, <1>7 DEF BestOf
  <2>2. PICK x, y \in Nat : x = Scale /\ y = Whole BY UniversesAssumption DEF Scale
  <2>3. b * x * y = (x * y) * b OBVIOUS
  <2> QED BY <1>5, <1>8, <2>1, <2>2, <2>3
<1>10. a > 0 BY <1>2, <1>9, PointsFit
<1>11. Score(blocks, features, S, i) = Nearest(a, a) BY <1>2, <1>3, <1>7, <1>9, <1>10, ScoreAre
<1>12. a \in 0..a BY <1>10
<1> QED BY <1>10, <1>11, <1>12, NearestIs

-------------------------------------------------------------------------------
\* The factors of the two engines are ratios, and each is ranked in its direction.
CanRank(S) == IsFiniteSet(S) /\ \A n \in 1..Cardinality(S) : Parts(n) * n = Whole

AllRatios(features, S, name) == \A j \in S : IsRatio(features[j][name])

Rising(name, weight) == Factor(name, weight, TRUE)
Falling(name, weight) == Factor(name, weight, FALSE)

LEMMA FactorsRank ==
  ASSUME NEW features, NEW S, CanRank(S), NEW name, AllRatios(features, S, name), NEW weight \in Nat \ {0}
  PROVE  /\ name \in HigherIsBetter => Rankable(Rising(name, weight), features, S)
         /\ name \notin HigherIsBetter => Rankable(Falling(name, weight), features, S)
         /\ Rising(name, weight).weight = weight /\ Falling(name, weight).weight = weight
         /\ Rising(name, weight).name = name /\ Falling(name, weight).name = name
<1>1. PICK f : f = Rising(name, weight) OBVIOUS
<1>2. PICK g : g = Falling(name, weight) OBVIOUS
<1>3. f.name = name /\ f.weight = weight /\ f.higher = TRUE BY <1>1 DEF Factor, Rising
<1>4. g.name = name /\ g.weight = weight /\ g.higher = FALSE BY <1>2 DEF Factor, Falling
<1>5. ASSUME name \in HigherIsBetter PROVE Rankable(f, features, S)
  BY <1>3, <1>5 DEF Rankable, CanRank, AllRatios
<1>6. ASSUME name \notin HigherIsBetter PROVE Rankable(g, features, S)
  BY <1>4, <1>6 DEF Rankable, CanRank, AllRatios
<1> QED BY <1>1, <1>2, <1>3, <1>4, <1>5, <1>6

\* The names of a block's factors.
TakenFrom(block, names) == \A k \in 1..Len(block.factors) : block.factors[k].name \in names

LEMMA BlocksRank ==
  ASSUME NEW features, NEW S, NEW names, NEW w \in Nat \ {0}, NEW f, NEW g, NEW h,
         f.name \in names, g.name \in names, h.name \in names,
         f.weight \in Nat \ {0}, g.weight \in Nat \ {0}, h.weight \in Nat \ {0},
         Rankable(f, features, S), Rankable(g, features, S), Rankable(h, features, S)
  PROVE  /\ IsBlock(Block(w, <<f>>), features, S) /\ TakenFrom(Block(w, <<f>>), names)
         /\ IsBlock(Block(w, <<f, g>>), features, S) /\ TakenFrom(Block(w, <<f, g>>), names)
         /\ IsBlock(Block(w, <<f, g, h>>), features, S) /\ TakenFrom(Block(w, <<f, g, h>>), names)
<1>1. PICK one, two, three : one = <<f>> /\ two = <<f, g>> /\ three = <<f, g, h>> OBVIOUS
<1>2. one \in Seq({f, g, h}) /\ two \in Seq({f, g, h}) /\ three \in Seq({f, g, h}) BY <1>1
<1>3. Len(one) = 1 /\ Len(two) = 2 /\ Len(three) = 3 BY <1>1
<1>4. /\ \A k \in 1..Len(one) : one[k] \in {f, g, h}
      /\ \A k \in 1..Len(two) : two[k] \in {f, g, h}
      /\ \A k \in 1..Len(three) : three[k] \in {f, g, h}
  BY <1>2
<1>5. \A x \in {f, g, h} : x.weight \in Nat \ {0} /\ Rankable(x, features, S) /\ x.name \in names OBVIOUS
<1>6. ASSUME NEW s, s \in Seq({f, g, h}), \A k \in 1..Len(s) : s[k] \in {f, g, h}
      PROVE  IsBlock(Block(w, s), features, S) /\ TakenFrom(Block(w, s), names)
  <2>1. PICK b : b = Block(w, s) OBVIOUS
  <2>2. b.weight = w /\ b.factors = s BY <2>1 DEF Block
  <2>3. \E T : b.factors \in Seq(T) BY <1>6, <2>2
  <2>4. \A k \in 1..Len(b.factors) : b.factors[k].weight \in Nat \ {0} /\ Rankable(b.factors[k], features, S)
    BY <1>5, <1>6, <2>2
  <2>5. TakenFrom(b, names) BY <1>5, <1>6, <2>2 DEF TakenFrom
  <2> QED BY <2>1, <2>2, <2>3, <2>4, <2>5 DEF IsBlock
<1> QED BY <1>1, <1>2, <1>4, <1>6

-------------------------------------------------------------------------------
LEMMA RatiosAre ==
  /\ IsRatio(NoFeature)
  /\ \A a, b \in Int : IsRatio(Ratio(a, b))
<1>1. IsRatio(NoFeature) BY DEF IsRatio, NoFeature, NA
<1>2. ASSUME NEW a \in Int, NEW b \in Int PROVE IsRatio(Ratio(a, b))
  <2>1. CASE b = 0 BY <1>1, <2>1 DEF Ratio
  <2>2. CASE b # 0
    <3>1. Size(b) \in Int /\ Size(b) > 0 BY <2>2 DEF Size
    <3>2. Ratio(a, b) = <<a, Size(b)>> BY <2>2 DEF Ratio
    <3> QED BY <3>1, <3>2 DEF IsRatio
  <2> QED BY <2>1, <2>2
<1> QED BY <1>1, <1>2

LEMMA PricesAre ==
  ASSUME NEW row \in ListedRow
  PROVE  /\ row.underlying \in Int /\ row.strike \in Int /\ row.premium \in Int /\ row.close \in Int
         /\ row.high \in Int /\ row.low \in Int /\ row.days \in Int /\ row.value \in Int /\ row.volume \in Int
         /\ row.count \in Int /\ row.expiry \in Int
         /\ Intrinsic(row) \in Int /\ TimeValue(row) \in Int /\ BreakEven(row) \in Int
         /\ \A a, b \in Int : Distance(a, b) \in Int
<1>1. /\ row.underlying \in Int /\ row.strike \in Int /\ row.premium \in Int /\ row.close \in Int
      /\ row.high \in Int /\ row.low \in Int /\ row.days \in Int /\ row.value \in Int /\ row.volume \in Int
      /\ row.count \in Int /\ row.expiry \in Int
  BY DEF ListedRow
<1>2. \A x \in Int : AtLeast0(x) \in Int BY DEF AtLeast0
<1>3. Intrinsic(row) \in Int
  <2>1. CASE row.type = "CALL"
    <3>1. row.underlying - row.strike \in Int BY <1>1
    <3> QED BY <1>2, <2>1, <3>1 DEF Intrinsic
  <2>2. CASE row.type # "CALL"
    <3>1. row.strike - row.underlying \in Int BY <1>1
    <3> QED BY <1>2, <2>2, <3>1 DEF Intrinsic
  <2> QED BY <2>1, <2>2
<1>4. TimeValue(row) \in Int
  <2>1. row.premium - Intrinsic(row) \in Int BY <1>1, <1>3
  <2> QED BY <1>2, <2>1 DEF TimeValue
<1>5. BreakEven(row) \in Int
  <2>1. CASE row.type = "CALL" BY <1>1, <2>1 DEF BreakEven
  <2>2. CASE row.type # "CALL" BY <1>1, <2>2 DEF BreakEven
  <2> QED BY <2>1, <2>2
<1>6. \A a, b \in Int : Distance(a, b) \in Int BY DEF Distance
<1> QED BY <1>1, <1>3, <1>4, <1>5, <1>6

EconomicNames ==
  {"trade_value", "volume", "premium_burden", "intrinsic_coverage", "breakeven_distance", "leverage_efficiency",
   "calendar_days", "last_vs_close", "intraday_range"}
EvidenceNames ==
  {"trade_value", "volume", "time_value_ratio", "breakeven_distance", "leverage", "moneyness",
   "calendar_days", "last_vs_close", "intraday_range"}

LEMMA ChangesAre ==
  ASSUME NEW row \in ListedRow
  PROVE  IsRatio(LastVsClose(row)) /\ IsRatio(IntradayRange(row)) /\ IsRatio(BreakEvenDistance(row))
<1>1. \A a, b \in Int : IsRatio(Ratio(Distance(a, b), a)) /\ IsRatio(Ratio(Distance(a, b), b))
  BY RatiosAre, PricesAre
<1>2. \A a, b, c \in Int : IsRatio(Ratio(Distance(a, b), c)) BY RatiosAre, PricesAre
<1>3. IsRatio(LastVsClose(row))
  <2>1. IsRatio(Ratio(Distance(row.premium, row.close), row.close)) BY <1>2, PricesAre
  <2> QED BY <2>1, RatiosAre DEF LastVsClose
<1>4. IsRatio(IntradayRange(row))
  <2>1. IsRatio(Ratio(Distance(row.high, row.low), row.premium)) BY <1>2, PricesAre
  <2> QED BY <2>1, RatiosAre DEF IntradayRange
<1>5. IsRatio(BreakEvenDistance(row))
  <2>1. IsRatio(Ratio(Distance(BreakEven(row), row.underlying), row.underlying)) BY <1>2, PricesAre
  <2> QED BY <2>1 DEF BreakEvenDistance
<1> QED BY <1>3, <1>4, <1>5

LEMMA EconomicAre ==
  ASSUME NEW row \in ListedRow
  PROVE  DOMAIN EconomicFeatures(row) = EconomicNames /\ \A c \in EconomicNames : IsRatio(EconomicFeatures(row)[c])
<1>1. PICK f : f = EconomicFeatures(row) OBVIOUS
<1>2. PICK l, r, b, n : l = LastVsClose(row) /\ r = IntradayRange(row) /\ b = BreakEvenDistance(row) /\ n = NoFeature
  OBVIOUS
<1>3. PICK one, v, w, d : /\ v = Ratio(row.value, 1) /\ w = Ratio(row.volume, 1) /\ d = Ratio(row.days, 1)
                          /\ one = Ratio(TimeValue(row), row.underlying)
  OBVIOUS
<1>4. PICK two, three : /\ two = Ratio(Intrinsic(row), row.premium)
                        /\ three = Ratio(row.underlying, row.premium)
  OBVIOUS
<1>5. IsRatio(l) /\ IsRatio(r) /\ IsRatio(b) /\ IsRatio(n) BY <1>2, ChangesAre, RatiosAre
<1>6. IsRatio(v) /\ IsRatio(w) /\ IsRatio(d) /\ IsRatio(one)
  <2>1. PICK unit \in Int : unit = 1 OBVIOUS
  <2>2. \A a \in Int : IsRatio(Ratio(a, unit)) BY <2>1, RatiosAre
  <2>3. v = Ratio(row.value, unit) /\ w = Ratio(row.volume, unit) /\ d = Ratio(row.days, unit) BY <1>3, <2>1
  <2>4. IsRatio(v) /\ IsRatio(w) /\ IsRatio(d) BY <2>2, <2>3, PricesAre
  <2>5. IsRatio(one) BY <1>3, PricesAre, RatiosAre
  <2> QED BY <2>4, <2>5
<1>7. IsRatio(two) /\ IsRatio(three) BY <1>4, PricesAre, RatiosAre
<1>8. f \in {[trade_value |-> v, volume |-> w, premium_burden |-> one, intrinsic_coverage |-> two,
              breakeven_distance |-> b, leverage_efficiency |-> three, calendar_days |-> d,
              last_vs_close |-> l, intraday_range |-> r],
             [trade_value |-> v, volume |-> w, premium_burden |-> n, intrinsic_coverage |-> n,
              breakeven_distance |-> n, leverage_efficiency |-> n, calendar_days |-> d,
              last_vs_close |-> l, intraday_range |-> r]}
  <2>1. PICK priced \in BOOLEAN :
          priced = (row.type \in {"CALL", "PUT"} /\ \A p \in {row.underlying, row.strike, row.premium} : p > 0)
    OBVIOUS
  <2>2. CASE priced BY <1>1, <1>2, <1>3, <1>4, <2>1, <2>2 DEF EconomicFeatures
  <2>3. CASE ~priced BY <1>1, <1>2, <1>3, <1>4, <2>1, <2>3 DEF EconomicFeatures
  <2> QED BY <2>2, <2>3
<1>9. DOMAIN f = EconomicNames BY <1>8 DEF EconomicNames
<1>10. \A c \in EconomicNames : IsRatio(f[c]) BY <1>5, <1>6, <1>7, <1>8 DEF EconomicNames
<1> QED BY <1>1, <1>9, <1>10

LEMMA EvidenceAre ==
  ASSUME NEW row \in ListedRow
  PROVE  DOMAIN EvidenceFeatures(row) = EvidenceNames /\ \A c \in EvidenceNames : IsRatio(EvidenceFeatures(row)[c])
<1>1. PICK f : f = EvidenceFeatures(row) OBVIOUS
<1>2. PICK l, r, b, n : l = LastVsClose(row) /\ r = IntradayRange(row) /\ b = BreakEvenDistance(row) /\ n = NoFeature
  OBVIOUS
<1>3. PICK v, w, d : v = Ratio(row.value, 1) /\ w = Ratio(row.volume, 1) /\ d = Ratio(row.days, 1) OBVIOUS
<1>4. PICK one, two, three : /\ one = Ratio(TimeValue(row), row.underlying)
                             /\ two = Ratio(row.underlying, row.premium)
                             /\ three = Ratio(Distance(row.underlying, row.strike), row.strike)
  OBVIOUS
<1>5. IsRatio(l) /\ IsRatio(r) /\ IsRatio(b) /\ IsRatio(n) BY <1>2, ChangesAre, RatiosAre
<1>6. IsRatio(v) /\ IsRatio(w) /\ IsRatio(d)
  <2>1. PICK unit \in Int : unit = 1 OBVIOUS
  <2>2. \A a \in Int : IsRatio(Ratio(a, unit)) BY <2>1, RatiosAre
  <2>3. v = Ratio(row.value, unit) /\ w = Ratio(row.volume, unit) /\ d = Ratio(row.days, unit) BY <1>3, <2>1
  <2> QED BY <2>2, <2>3, PricesAre
<1>7. IsRatio(one) /\ IsRatio(two) /\ IsRatio(three)
  <2>1. IsRatio(one) /\ IsRatio(two) BY <1>4, PricesAre, RatiosAre
  <2>2. Distance(row.underlying, row.strike) \in Int BY PricesAre
  <2>3. IsRatio(three) BY <1>4, <2>2, PricesAre, RatiosAre
  <2> QED BY <2>1, <2>3
<1>8. PICK x, y, t, u : /\ x \in {one, n} /\ y \in {b, n} /\ t \in {two, n} /\ u \in {three, n}
                        /\ f = [trade_value |-> v, volume |-> w, time_value_ratio |-> x, breakeven_distance |-> y,
                                leverage |-> t, moneyness |-> u, calendar_days |-> d,
                                last_vs_close |-> l, intraday_range |-> r]
  <2>1. PICK priced \in BOOLEAN :
          priced = (row.type \in {"CALL", "PUT"} /\ NA \notin {row.underlying, row.strike, row.premium})
    OBVIOUS
  <2>2. PICK x, y, t, u : /\ x = (IF priced THEN one ELSE n) /\ y = (IF priced THEN b ELSE n)
                          /\ t = (IF priced /\ row.premium > 0 /\ row.underlying >= 0 THEN two ELSE n)
                          /\ u = (IF priced /\ row.strike > 0 THEN three ELSE n)
    OBVIOUS
  <2>3. x \in {one, n} /\ y \in {b, n} /\ t \in {two, n} /\ u \in {three, n} BY <2>2
  <2>4. f = [trade_value |-> v, volume |-> w, time_value_ratio |-> x, breakeven_distance |-> y,
             leverage |-> t, moneyness |-> u, calendar_days |-> d,
             last_vs_close |-> l, intraday_range |-> r]
    BY <1>1, <1>2, <1>3, <1>4, <2>1, <2>2 DEF EvidenceFeatures
  <2> QED BY <2>3, <2>4
<1>9. DOMAIN f = EvidenceNames BY <1>8 DEF EvidenceNames
<1>10. IsRatio(x) /\ IsRatio(y) /\ IsRatio(t) /\ IsRatio(u) BY <1>5, <1>7, <1>8
<1>11. \A c \in EvidenceNames : IsRatio(f[c]) BY <1>5, <1>6, <1>8, <1>10 DEF EvidenceNames
<1> QED BY <1>1, <1>9, <1>11

-------------------------------------------------------------------------------
\* The features of the rows, place by place.
EconomicOf(rows) == Each(rows, EconomicFeatures)
EvidenceOf(rows) == Each(rows, EvidenceFeatures)

LEMMA RowsAre ==
  ASSUME NEW rows, IsUniverse(rows)
  PROVE  /\ DOMAIN rows = 1..Len(rows) /\ Len(rows) \in Nat
         /\ \A i \in DOMAIN rows : rows[i] \in ListedRow
<1>1. PICK L : L = ListedRow OBVIOUS
<1>2. rows \in Seq(L) BY <1>1 DEF IsUniverse
<1>3. \A i \in DOMAIN rows : rows[i] \in L BY <1>2
<1>4. DOMAIN rows = 1..Len(rows) /\ Len(rows) \in Nat BY <1>2
<1> QED BY <1>1, <1>3, <1>4

LEMMA FeaturesAt ==
  ASSUME NEW rows, IsUniverse(rows), NEW i \in DOMAIN rows
  PROVE  /\ DOMAIN EconomicOf(rows) = DOMAIN rows /\ EconomicOf(rows)[i] = EconomicFeatures(rows[i])
         /\ DOMAIN EvidenceOf(rows) = DOMAIN rows /\ EvidenceOf(rows)[i] = EvidenceFeatures(rows[i])
<1>1. PICK n \in Nat : n = Len(rows) /\ DOMAIN rows = 1..n BY RowsAre
<1>2. PICK f : f = [j \in 1..n |-> EconomicFeatures(rows[j])] OBVIOUS
<1>3. PICK g : g = [j \in 1..n |-> EvidenceFeatures(rows[j])] OBVIOUS
<1>4. PICK T : T = {f[j] : j \in 1..n} \cup {g[j] : j \in 1..n} OBVIOUS
<1>5. f \in [1..n -> T] /\ g \in [1..n -> T] BY <1>2, <1>3, <1>4
<1>6. f \o <<>> = f /\ g \o <<>> = g BY <1>5, FunctionIsSeq
<1>7. EconomicOf(rows) = f BY <1>1, <1>2, <1>6 DEF Each, EconomicOf
<1>8. EvidenceOf(rows) = g BY <1>1, <1>3, <1>6 DEF Each, EvidenceOf
<1>9. f[i] = EconomicFeatures(rows[i]) /\ g[i] = EvidenceFeatures(rows[i]) BY <1>1, <1>2, <1>3
<1>10. DOMAIN f = DOMAIN rows /\ DOMAIN g = DOMAIN rows BY <1>1, <1>2, <1>3
<1>11. DOMAIN EconomicOf(rows) = DOMAIN rows BY <1>7, <1>10
<1>12. EconomicOf(rows)[i] = EconomicFeatures(rows[i]) BY <1>7, <1>9
<1>13. DOMAIN EvidenceOf(rows) = DOMAIN rows BY <1>8, <1>10
<1>14. EvidenceOf(rows)[i] = EvidenceFeatures(rows[i]) BY <1>8, <1>9
<1> QED BY <1>11, <1>12, <1>13, <1>14

LEMMA PlacesRank ==
  ASSUME NEW rows, IsUniverse(rows), NEW S, S \subseteq DOMAIN rows
  PROVE  CanRank(S)
<1>1. PICK L : L = ListedRow OBVIOUS
<1>2. rows \in Seq(L) BY <1>1 DEF IsUniverse
<1>3. PICK n \in Nat : n = Len(rows) /\ DOMAIN rows = 1..n BY <1>2
<1>4. PICK one \in Int, many \in Int : one = 1 /\ many = n BY <1>3
<1>5. IsFiniteSet(one..many) /\ Cardinality(one..many) = n
  <2>1. Cardinality(one..many) = IF one > many THEN 0 ELSE many - one + 1 BY FS_Interval
  <2>2. IsFiniteSet(one..many) BY FS_Interval
  <2> QED BY <1>3, <1>4, <2>1, <2>2
<1>6. IsFiniteSet(S) /\ Cardinality(S) <= n BY <1>3, <1>4, <1>5, FS_Subset
<1>7. Cardinality(S) \in Nat BY <1>6, FS_CardinalityType
<1>8. \A k \in 1..n : Parts(k) * k = Whole BY <1>3 DEF IsUniverse, Parts
<1>9. \A k \in 1..Cardinality(S) : k \in 1..n BY <1>6, <1>7
<1> QED BY <1>6, <1>8, <1>9 DEF CanRank

LEMMA EconomicBlocksAre ==
  ASSUME NEW features, NEW S, CanRank(S), \A c \in EconomicNames : AllRatios(features, S, c)
  PROVE  /\ IsBlocks(EconomicBlocks, features, S) /\ Len(EconomicBlocks) = 5
         /\ \A k \in 1..Len(EconomicBlocks) : TakenFrom(EconomicBlocks[k], EconomicNames)
<1>1. PICK f1 : /\ f1 = Rising("trade_value", 7)
              /\ f1.weight \in Nat \ {0} /\ Rankable(f1, features, S) /\ f1.name \in EconomicNames
  <2>1. PICK c, w : c = "trade_value" /\ w = 7 /\ w \in Nat \ {0} OBVIOUS
  <2>2. c \in EconomicNames /\ c \in HigherIsBetter BY <2>1 DEF EconomicNames, HigherIsBetter
  <2>3. AllRatios(features, S, c) BY <2>2
  <2>4. Rankable(Rising(c, w), features, S) /\ Rising(c, w).weight = w /\ Rising(c, w).name = c
    BY <2>1, <2>2, <2>3, FactorsRank
  <2> QED BY <2>1, <2>2, <2>4
<1>2. PICK f2 : /\ f2 = Rising("volume", 5)
              /\ f2.weight \in Nat \ {0} /\ Rankable(f2, features, S) /\ f2.name \in EconomicNames
  <2>1. PICK c, w : c = "volume" /\ w = 5 /\ w \in Nat \ {0} OBVIOUS
  <2>2. c \in EconomicNames /\ c \in HigherIsBetter BY <2>1 DEF EconomicNames, HigherIsBetter
  <2>3. AllRatios(features, S, c) BY <2>2
  <2>4. Rankable(Rising(c, w), features, S) /\ Rising(c, w).weight = w /\ Rising(c, w).name = c
    BY <2>1, <2>2, <2>3, FactorsRank
  <2> QED BY <2>1, <2>2, <2>4
<1>3. PICK f3 : /\ f3 = Falling("premium_burden", 15)
              /\ f3.weight \in Nat \ {0} /\ Rankable(f3, features, S) /\ f3.name \in EconomicNames
  <2>1. PICK c, w : c = "premium_burden" /\ w = 15 /\ w \in Nat \ {0} OBVIOUS
  <2>2. c \in EconomicNames /\ c \notin HigherIsBetter BY <2>1 DEF EconomicNames, HigherIsBetter
  <2>3. AllRatios(features, S, c) BY <2>2
  <2>4. Rankable(Falling(c, w), features, S) /\ Falling(c, w).weight = w /\ Falling(c, w).name = c
    BY <2>1, <2>2, <2>3, FactorsRank
  <2> QED BY <2>1, <2>2, <2>4
<1>4. PICK f4 : /\ f4 = Rising("intrinsic_coverage", 10)
              /\ f4.weight \in Nat \ {0} /\ Rankable(f4, features, S) /\ f4.name \in EconomicNames
  <2>1. PICK c, w : c = "intrinsic_coverage" /\ w = 10 /\ w \in Nat \ {0} OBVIOUS
  <2>2. c \in EconomicNames /\ c \in HigherIsBetter BY <2>1 DEF EconomicNames, HigherIsBetter
  <2>3. AllRatios(features, S, c) BY <2>2
  <2>4. Rankable(Rising(c, w), features, S) /\ Rising(c, w).weight = w /\ Rising(c, w).name = c
    BY <2>1, <2>2, <2>3, FactorsRank
  <2> QED BY <2>1, <2>2, <2>4
<1>5. PICK f5 : /\ f5 = Falling("breakeven_distance", 13)
              /\ f5.weight \in Nat \ {0} /\ Rankable(f5, features, S) /\ f5.name \in EconomicNames
  <2>1. PICK c, w : c = "breakeven_distance" /\ w = 13 /\ w \in Nat \ {0} OBVIOUS
  <2>2. c \in EconomicNames /\ c \notin HigherIsBetter BY <2>1 DEF EconomicNames, HigherIsBetter
  <2>3. AllRatios(features, S, c) BY <2>2
  <2>4. Rankable(Falling(c, w), features, S) /\ Falling(c, w).weight = w /\ Falling(c, w).name = c
    BY <2>1, <2>2, <2>3, FactorsRank
  <2> QED BY <2>1, <2>2, <2>4
<1>6. PICK f6 : /\ f6 = Rising("leverage_efficiency", 5)
              /\ f6.weight \in Nat \ {0} /\ Rankable(f6, features, S) /\ f6.name \in EconomicNames
  <2>1. PICK c, w : c = "leverage_efficiency" /\ w = 5 /\ w \in Nat \ {0} OBVIOUS
  <2>2. c \in EconomicNames /\ c \in HigherIsBetter BY <2>1 DEF EconomicNames, HigherIsBetter
  <2>3. AllRatios(features, S, c) BY <2>2
  <2>4. Rankable(Rising(c, w), features, S) /\ Rising(c, w).weight = w /\ Rising(c, w).name = c
    BY <2>1, <2>2, <2>3, FactorsRank
  <2> QED BY <2>1, <2>2, <2>4
<1>7. PICK f7 : /\ f7 = Falling("calendar_days", 15)
              /\ f7.weight \in Nat \ {0} /\ Rankable(f7, features, S) /\ f7.name \in EconomicNames
  <2>1. PICK c, w : c = "calendar_days" /\ w = 15 /\ w \in Nat \ {0} OBVIOUS
  <2>2. c \in EconomicNames /\ c \notin HigherIsBetter BY <2>1 DEF EconomicNames, HigherIsBetter
  <2>3. AllRatios(features, S, c) BY <2>2
  <2>4. Rankable(Falling(c, w), features, S) /\ Falling(c, w).weight = w /\ Falling(c, w).name = c
    BY <2>1, <2>2, <2>3, FactorsRank
  <2> QED BY <2>1, <2>2, <2>4
<1>8. PICK f8 : /\ f8 = Falling("last_vs_close", 4)
              /\ f8.weight \in Nat \ {0} /\ Rankable(f8, features, S) /\ f8.name \in EconomicNames
  <2>1. PICK c, w : c = "last_vs_close" /\ w = 4 /\ w \in Nat \ {0} OBVIOUS
  <2>2. c \in EconomicNames /\ c \notin HigherIsBetter BY <2>1 DEF EconomicNames, HigherIsBetter
  <2>3. AllRatios(features, S, c) BY <2>2
  <2>4. Rankable(Falling(c, w), features, S) /\ Falling(c, w).weight = w /\ Falling(c, w).name = c
    BY <2>1, <2>2, <2>3, FactorsRank
  <2> QED BY <2>1, <2>2, <2>4
<1>9. PICK f9 : /\ f9 = Falling("intraday_range", 3)
              /\ f9.weight \in Nat \ {0} /\ Rankable(f9, features, S) /\ f9.name \in EconomicNames
  <2>1. PICK c, w : c = "intraday_range" /\ w = 3 /\ w \in Nat \ {0} OBVIOUS
  <2>2. c \in EconomicNames /\ c \notin HigherIsBetter BY <2>1 DEF EconomicNames, HigherIsBetter
  <2>3. AllRatios(features, S, c) BY <2>2
  <2>4. Rankable(Falling(c, w), features, S) /\ Falling(c, w).weight = w /\ Falling(c, w).name = c
    BY <2>1, <2>2, <2>3, FactorsRank
  <2> QED BY <2>1, <2>2, <2>4
<1>10. PICK b1 : /\ b1 = Block(20, <<f1, f2>>)
              /\ IsBlock(b1, features, S) /\ TakenFrom(b1, EconomicNames)
  <2>1. PICK w : w = 20 /\ w \in Nat \ {0} OBVIOUS
  <2>2. IsBlock(Block(w, <<f1, f2>>), features, S) /\ TakenFrom(Block(w, <<f1, f2>>), EconomicNames)
    BY <1>1, <1>2, <2>1, BlocksRank
  <2> QED BY <2>1, <2>2
<1>11. PICK b2 : /\ b2 = Block(25, <<f3, f4>>)
              /\ IsBlock(b2, features, S) /\ TakenFrom(b2, EconomicNames)
  <2>1. PICK w : w = 25 /\ w \in Nat \ {0} OBVIOUS
  <2>2. IsBlock(Block(w, <<f3, f4>>), features, S) /\ TakenFrom(Block(w, <<f3, f4>>), EconomicNames)
    BY <1>3, <1>4, <2>1, BlocksRank
  <2> QED BY <2>1, <2>2
<1>12. PICK b3 : /\ b3 = Block(18, <<f5, f6>>)
              /\ IsBlock(b3, features, S) /\ TakenFrom(b3, EconomicNames)
  <2>1. PICK w : w = 18 /\ w \in Nat \ {0} OBVIOUS
  <2>2. IsBlock(Block(w, <<f5, f6>>), features, S) /\ TakenFrom(Block(w, <<f5, f6>>), EconomicNames)
    BY <1>5, <1>6, <2>1, BlocksRank
  <2> QED BY <2>1, <2>2
<1>13. PICK b4 : /\ b4 = Block(15, <<f7>>)
              /\ IsBlock(b4, features, S) /\ TakenFrom(b4, EconomicNames)
  <2>1. PICK w : w = 15 /\ w \in Nat \ {0} OBVIOUS
  <2>2. IsBlock(Block(w, <<f7>>), features, S) /\ TakenFrom(Block(w, <<f7>>), EconomicNames)
    BY <1>7, <2>1, BlocksRank
  <2> QED BY <2>1, <2>2
<1>14. PICK b5 : /\ b5 = Block(10, <<f8, f9>>)
              /\ IsBlock(b5, features, S) /\ TakenFrom(b5, EconomicNames)
  <2>1. PICK w : w = 10 /\ w \in Nat \ {0} OBVIOUS
  <2>2. IsBlock(Block(w, <<f8, f9>>), features, S) /\ TakenFrom(Block(w, <<f8, f9>>), EconomicNames)
    BY <1>8, <1>9, <2>1, BlocksRank
  <2> QED BY <2>1, <2>2
<1>15. EconomicBlocks = <<b1, b2, b3, b4, b5>>
  BY <1>1, <1>2, <1>3, <1>4, <1>5, <1>6, <1>7, <1>8, <1>9, <1>10, <1>11, <1>12, <1>13, <1>14
  DEF EconomicBlocks, Rising, Falling
<1>16. PICK s, T : s = <<b1, b2, b3, b4, b5>> /\ T = {b1, b2, b3, b4, b5} OBVIOUS
<1>17. s \in Seq(T) /\ Len(s) = 5 /\ \A k \in 1..Len(s) : s[k] \in T BY <1>16
<1>18. \A x \in T : IsBlock(x, features, S) /\ TakenFrom(x, EconomicNames)
  BY <1>10, <1>11, <1>12, <1>13, <1>14, <1>16
<1>19. IsBlocks(s, features, S) BY <1>17, <1>18 DEF IsBlocks
<1>20. \A k \in 1..Len(s) : TakenFrom(s[k], EconomicNames) BY <1>17, <1>18
<1> QED BY <1>15, <1>16, <1>17, <1>19, <1>20

LEMMA EvidenceBlocksAre ==
  ASSUME NEW features, NEW S, CanRank(S), \A c \in EvidenceNames : AllRatios(features, S, c)
  PROVE  /\ IsBlocks(EvidenceBlocks, features, S) /\ Len(EvidenceBlocks) = 5
         /\ \A k \in 1..Len(EvidenceBlocks) : TakenFrom(EvidenceBlocks[k], EvidenceNames)
<1>1. PICK f1 : /\ f1 = Rising("trade_value", 7)
              /\ f1.weight \in Nat \ {0} /\ Rankable(f1, features, S) /\ f1.name \in EvidenceNames
  <2>1. PICK c, w : c = "trade_value" /\ w = 7 /\ w \in Nat \ {0} OBVIOUS
  <2>2. c \in EvidenceNames /\ c \in HigherIsBetter BY <2>1 DEF EvidenceNames, HigherIsBetter
  <2>3. AllRatios(features, S, c) BY <2>2
  <2>4. Rankable(Rising(c, w), features, S) /\ Rising(c, w).weight = w /\ Rising(c, w).name = c
    BY <2>1, <2>2, <2>3, FactorsRank
  <2> QED BY <2>1, <2>2, <2>4
<1>2. PICK f2 : /\ f2 = Rising("volume", 5)
              /\ f2.weight \in Nat \ {0} /\ Rankable(f2, features, S) /\ f2.name \in EvidenceNames
  <2>1. PICK c, w : c = "volume" /\ w = 5 /\ w \in Nat \ {0} OBVIOUS
  <2>2. c \in EvidenceNames /\ c \in HigherIsBetter BY <2>1 DEF EvidenceNames, HigherIsBetter
  <2>3. AllRatios(features, S, c) BY <2>2
  <2>4. Rankable(Rising(c, w), features, S) /\ Rising(c, w).weight = w /\ Rising(c, w).name = c
    BY <2>1, <2>2, <2>3, FactorsRank
  <2> QED BY <2>1, <2>2, <2>4
<1>3. PICK f3 : /\ f3 = Falling("time_value_ratio", 5)
              /\ f3.weight \in Nat \ {0} /\ Rankable(f3, features, S) /\ f3.name \in EvidenceNames
  <2>1. PICK c, w : c = "time_value_ratio" /\ w = 5 /\ w \in Nat \ {0} OBVIOUS
  <2>2. c \in EvidenceNames /\ c \notin HigherIsBetter BY <2>1 DEF EvidenceNames, HigherIsBetter
  <2>3. AllRatios(features, S, c) BY <2>2
  <2>4. Rankable(Falling(c, w), features, S) /\ Falling(c, w).weight = w /\ Falling(c, w).name = c
    BY <2>1, <2>2, <2>3, FactorsRank
  <2> QED BY <2>1, <2>2, <2>4
<1>4. PICK f4 : /\ f4 = Falling("breakeven_distance", 10)
              /\ f4.weight \in Nat \ {0} /\ Rankable(f4, features, S) /\ f4.name \in EvidenceNames
  <2>1. PICK c, w : c = "breakeven_distance" /\ w = 10 /\ w \in Nat \ {0} OBVIOUS
  <2>2. c \in EvidenceNames /\ c \notin HigherIsBetter BY <2>1 DEF EvidenceNames, HigherIsBetter
  <2>3. AllRatios(features, S, c) BY <2>2
  <2>4. Rankable(Falling(c, w), features, S) /\ Falling(c, w).weight = w /\ Falling(c, w).name = c
    BY <2>1, <2>2, <2>3, FactorsRank
  <2> QED BY <2>1, <2>2, <2>4
<1>5. PICK f5 : /\ f5 = Rising("leverage", 5)
              /\ f5.weight \in Nat \ {0} /\ Rankable(f5, features, S) /\ f5.name \in EvidenceNames
  <2>1. PICK c, w : c = "leverage" /\ w = 5 /\ w \in Nat \ {0} OBVIOUS
  <2>2. c \in EvidenceNames /\ c \in HigherIsBetter BY <2>1 DEF EvidenceNames, HigherIsBetter
  <2>3. AllRatios(features, S, c) BY <2>2
  <2>4. Rankable(Rising(c, w), features, S) /\ Rising(c, w).weight = w /\ Rising(c, w).name = c
    BY <2>1, <2>2, <2>3, FactorsRank
  <2> QED BY <2>1, <2>2, <2>4
<1>6. PICK f6 : /\ f6 = Falling("moneyness", 3)
              /\ f6.weight \in Nat \ {0} /\ Rankable(f6, features, S) /\ f6.name \in EvidenceNames
  <2>1. PICK c, w : c = "moneyness" /\ w = 3 /\ w \in Nat \ {0} OBVIOUS
  <2>2. c \in EvidenceNames /\ c \notin HigherIsBetter BY <2>1 DEF EvidenceNames, HigherIsBetter
  <2>3. AllRatios(features, S, c) BY <2>2
  <2>4. Rankable(Falling(c, w), features, S) /\ Falling(c, w).weight = w /\ Falling(c, w).name = c
    BY <2>1, <2>2, <2>3, FactorsRank
  <2> QED BY <2>1, <2>2, <2>4
<1>7. PICK f7 : /\ f7 = Falling("calendar_days", 2)
              /\ f7.weight \in Nat \ {0} /\ Rankable(f7, features, S) /\ f7.name \in EvidenceNames
  <2>1. PICK c, w : c = "calendar_days" /\ w = 2 /\ w \in Nat \ {0} OBVIOUS
  <2>2. c \in EvidenceNames /\ c \notin HigherIsBetter BY <2>1 DEF EvidenceNames, HigherIsBetter
  <2>3. AllRatios(features, S, c) BY <2>2
  <2>4. Rankable(Falling(c, w), features, S) /\ Falling(c, w).weight = w /\ Falling(c, w).name = c
    BY <2>1, <2>2, <2>3, FactorsRank
  <2> QED BY <2>1, <2>2, <2>4
<1>8. PICK f8 : /\ f8 = Falling("last_vs_close", 4)
              /\ f8.weight \in Nat \ {0} /\ Rankable(f8, features, S) /\ f8.name \in EvidenceNames
  <2>1. PICK c, w : c = "last_vs_close" /\ w = 4 /\ w \in Nat \ {0} OBVIOUS
  <2>2. c \in EvidenceNames /\ c \notin HigherIsBetter BY <2>1 DEF EvidenceNames, HigherIsBetter
  <2>3. AllRatios(features, S, c) BY <2>2
  <2>4. Rankable(Falling(c, w), features, S) /\ Falling(c, w).weight = w /\ Falling(c, w).name = c
    BY <2>1, <2>2, <2>3, FactorsRank
  <2> QED BY <2>1, <2>2, <2>4
<1>9. PICK f9 : /\ f9 = Falling("intraday_range", 3)
              /\ f9.weight \in Nat \ {0} /\ Rankable(f9, features, S) /\ f9.name \in EvidenceNames
  <2>1. PICK c, w : c = "intraday_range" /\ w = 3 /\ w \in Nat \ {0} OBVIOUS
  <2>2. c \in EvidenceNames /\ c \notin HigherIsBetter BY <2>1 DEF EvidenceNames, HigherIsBetter
  <2>3. AllRatios(features, S, c) BY <2>2
  <2>4. Rankable(Falling(c, w), features, S) /\ Falling(c, w).weight = w /\ Falling(c, w).name = c
    BY <2>1, <2>2, <2>3, FactorsRank
  <2> QED BY <2>1, <2>2, <2>4
<1>10. PICK b1 : /\ b1 = Block(20, <<f1, f2>>)
              /\ IsBlock(b1, features, S) /\ TakenFrom(b1, EvidenceNames)
  <2>1. PICK w : w = 20 /\ w \in Nat \ {0} OBVIOUS
  <2>2. IsBlock(Block(w, <<f1, f2>>), features, S) /\ TakenFrom(Block(w, <<f1, f2>>), EvidenceNames)
    BY <1>1, <1>2, <2>1, BlocksRank
  <2> QED BY <2>1, <2>2
<1>11. PICK b2 : /\ b2 = Block(25, <<f3>>)
              /\ IsBlock(b2, features, S) /\ TakenFrom(b2, EvidenceNames)
  <2>1. PICK w : w = 25 /\ w \in Nat \ {0} OBVIOUS
  <2>2. IsBlock(Block(w, <<f3>>), features, S) /\ TakenFrom(Block(w, <<f3>>), EvidenceNames)
    BY <1>3, <2>1, BlocksRank
  <2> QED BY <2>1, <2>2
<1>12. PICK b3 : /\ b3 = Block(18, <<f4, f5, f6>>)
              /\ IsBlock(b3, features, S) /\ TakenFrom(b3, EvidenceNames)
  <2>1. PICK w : w = 18 /\ w \in Nat \ {0} OBVIOUS
  <2>2. IsBlock(Block(w, <<f4, f5, f6>>), features, S) /\ TakenFrom(Block(w, <<f4, f5, f6>>), EvidenceNames)
    BY <1>4, <1>5, <1>6, <2>1, BlocksRank
  <2> QED BY <2>1, <2>2
<1>13. PICK b4 : /\ b4 = Block(15, <<f7>>)
              /\ IsBlock(b4, features, S) /\ TakenFrom(b4, EvidenceNames)
  <2>1. PICK w : w = 15 /\ w \in Nat \ {0} OBVIOUS
  <2>2. IsBlock(Block(w, <<f7>>), features, S) /\ TakenFrom(Block(w, <<f7>>), EvidenceNames)
    BY <1>7, <2>1, BlocksRank
  <2> QED BY <2>1, <2>2
<1>14. PICK b5 : /\ b5 = Block(10, <<f8, f9>>)
              /\ IsBlock(b5, features, S) /\ TakenFrom(b5, EvidenceNames)
  <2>1. PICK w : w = 10 /\ w \in Nat \ {0} OBVIOUS
  <2>2. IsBlock(Block(w, <<f8, f9>>), features, S) /\ TakenFrom(Block(w, <<f8, f9>>), EvidenceNames)
    BY <1>8, <1>9, <2>1, BlocksRank
  <2> QED BY <2>1, <2>2
<1>15. EvidenceBlocks = <<b1, b2, b3, b4, b5>>
  BY <1>1, <1>2, <1>3, <1>4, <1>5, <1>6, <1>7, <1>8, <1>9, <1>10, <1>11, <1>12, <1>13, <1>14
  DEF EvidenceBlocks, Rising, Falling
<1>16. PICK s, T : s = <<b1, b2, b3, b4, b5>> /\ T = {b1, b2, b3, b4, b5} OBVIOUS
<1>17. s \in Seq(T) /\ Len(s) = 5 /\ \A k \in 1..Len(s) : s[k] \in T BY <1>16
<1>18. \A x \in T : IsBlock(x, features, S) /\ TakenFrom(x, EvidenceNames)
  BY <1>10, <1>11, <1>12, <1>13, <1>14, <1>16
<1>19. IsBlocks(s, features, S) BY <1>17, <1>18 DEF IsBlocks
<1>20. \A k \in 1..Len(s) : TakenFrom(s[k], EvidenceNames) BY <1>17, <1>18
<1> QED BY <1>15, <1>16, <1>17, <1>19, <1>20

-------------------------------------------------------------------------------
\* The scores of the rows: those of S by their blocks, the others none.
NoOthers(scores, n, S) == \A i \in (1..n) \ S : scores[i] = NA

LEMMA ScoresAre ==
  ASSUME NEW blocks, NEW features, NEW n \in Nat, DOMAIN features = 1..n, NEW S, S \subseteq 1..n,
         IsBlocks(blocks, features, S)
  PROVE  /\ Scores(blocks, features, S) \in Seq(Int) /\ Len(Scores(blocks, features, S)) = n
         /\ \A i \in 1..n : Scores(blocks, features, S)[i] \in (0..Grain) \cup {NA}
         /\ \A i \in S : Scores(blocks, features, S)[i] = Score(blocks, features, S, i)
         /\ NoOthers(Scores(blocks, features, S), n, S)
<1>1. PICK f : f = [i \in 1..n |-> IF i \in S THEN Score(blocks, features, S, i) ELSE NA] OBVIOUS
<1>2. PICK G : G = (0..Grain) \cup {NA} OBVIOUS
<1>3. \A i \in 1..n : f[i] \in G
  <2> TAKE i \in 1..n
  <2>1. Score(blocks, features, S, i) \in G BY <1>2, ScoreInGrain
  <2> QED BY <1>1, <1>2, <2>1
<1>4. f \in [1..n -> G] BY <1>1, <1>3
<1>5. f \o <<>> = f /\ f \in Seq(G) /\ Len(f) = n
  <2>1. f \o <<>> \in Seq(G) /\ f \o <<>> = f /\ Len(f \o <<>>) = n BY <1>4, FunctionIsSeq
  <2> QED BY <2>1
<1>6. Scores(blocks, features, S) = f BY <1>1, <1>5 DEF Scores
<1>7. G \subseteq Int BY <1>2, UniversesAssumption DEF NA
<1>8. f \in Seq(Int)
  <2>1. f \in [1..n -> Int] BY <1>4, <1>7
  <2> QED BY <1>5, <2>1, FunctionIsSeq
<1>9. \A i \in S : f[i] = Score(blocks, features, S, i) BY <1>1
<1>10. \A i \in (1..n) \ S : f[i] = NA BY <1>1
<1>11. \A i \in 1..n : f[i] \in (0..Grain) \cup {NA} BY <1>2, <1>3
<1>12. NoOthers(f, n, S) BY <1>10 DEF NoOthers
<1> QED BY <1>5, <1>6, <1>8, <1>9, <1>11, <1>12

LEMMA UniverseRanks ==
  ASSUME NEW rows, IsUniverse(rows), NEW S, S \subseteq DOMAIN rows
  PROVE  /\ IsBlocks(EconomicBlocks, EconomicOf(rows), S) /\ IsBlocks(EvidenceBlocks, EvidenceOf(rows), S)
         /\ DOMAIN EconomicOf(rows) = DOMAIN rows /\ DOMAIN EvidenceOf(rows) = DOMAIN rows
<1>1. CanRank(S) BY PlacesRank
<1>2. \A i \in DOMAIN rows : rows[i] \in ListedRow BY RowsAre
<1>3. ASSUME NEW c \in EconomicNames PROVE AllRatios(EconomicOf(rows), S, c)
  <2>1. ASSUME NEW j \in S PROVE IsRatio(EconomicOf(rows)[j][c])
    <3>1. j \in DOMAIN rows /\ rows[j] \in ListedRow BY <1>2
    <3>2. EconomicOf(rows)[j] = EconomicFeatures(rows[j]) BY <3>1, FeaturesAt
    <3>3. IsRatio(EconomicFeatures(rows[j])[c]) BY <3>1, EconomicAre
    <3> QED BY <3>2, <3>3
  <2> QED BY <2>1 DEF AllRatios
<1>4. ASSUME NEW c \in EvidenceNames PROVE AllRatios(EvidenceOf(rows), S, c)
  <2>1. ASSUME NEW j \in S PROVE IsRatio(EvidenceOf(rows)[j][c])
    <3>1. j \in DOMAIN rows /\ rows[j] \in ListedRow BY <1>2
    <3>2. EvidenceOf(rows)[j] = EvidenceFeatures(rows[j]) BY <3>1, FeaturesAt
    <3>3. IsRatio(EvidenceFeatures(rows[j])[c]) BY <3>1, EvidenceAre
    <3> QED BY <3>2, <3>3
  <2> QED BY <2>1 DEF AllRatios
<1>5. IsBlocks(EconomicBlocks, EconomicOf(rows), S) BY <1>1, <1>3, EconomicBlocksAre
<1>6. IsBlocks(EvidenceBlocks, EvidenceOf(rows), S) BY <1>1, <1>4, EvidenceBlocksAre
<1>7. DOMAIN EconomicOf(rows) = DOMAIN rows /\ DOMAIN EvidenceOf(rows) = DOMAIN rows
  <2>1. PICK n \in Nat : n = Len(rows) /\ DOMAIN rows = 1..n BY RowsAre
  <2>2. PICK f : f = [j \in 1..n |-> EconomicFeatures(rows[j])] OBVIOUS
  <2>3. PICK g : g = [j \in 1..n |-> EvidenceFeatures(rows[j])] OBVIOUS
  <2>4. PICK T : T = {f[j] : j \in 1..n} \cup {g[j] : j \in 1..n} OBVIOUS
  <2>5. f \in [1..n -> T] /\ g \in [1..n -> T] BY <2>2, <2>3, <2>4
  <2>6. f \o <<>> = f /\ g \o <<>> = g BY <2>5, FunctionIsSeq
  <2>7. EconomicOf(rows) = f BY <2>1, <2>2, <2>6 DEF Each, EconomicOf
  <2>8. EvidenceOf(rows) = g BY <2>1, <2>3, <2>6 DEF Each, EvidenceOf
  <2> QED BY <2>1, <2>2, <2>3, <2>7, <2>8
<1> QED BY <1>5, <1>6, <1>7

LEMMA EconomicScoresAre ==
  ASSUME NEW rows, IsUniverse(rows), NEW S, S \subseteq DOMAIN rows
  PROVE  /\ EconomicScores(rows, S) \in Seq(Int) /\ DOMAIN EconomicScores(rows, S) = DOMAIN rows
         /\ \A i \in DOMAIN rows : EconomicScores(rows, S)[i] \in (0..Grain) \cup {NA}
         /\ \A i \in S : EconomicScores(rows, S)[i] = Score(EconomicBlocks, EconomicOf(rows), S, i)
         /\ \A i \in (DOMAIN rows) \ S : EconomicScores(rows, S)[i] = NA
<1>1. PICK n \in Nat : n = Len(rows) /\ DOMAIN rows = 1..n BY RowsAre
<1>2. IsBlocks(EconomicBlocks, EconomicOf(rows), S) /\ DOMAIN EconomicOf(rows) = 1..n BY <1>1, UniverseRanks
<1>3. EconomicScores(rows, S) = Scores(EconomicBlocks, EconomicOf(rows), S) BY DEF EconomicScores, EconomicOf
<1>4. PICK b, f, s : b = EconomicBlocks /\ f = EconomicOf(rows) /\ s = Scores(b, f, S) OBVIOUS
<1>5. /\ s \in Seq(Int) /\ Len(s) = n
      /\ \A i \in 1..n : s[i] \in (0..Grain) \cup {NA}
      /\ \A i \in S : s[i] = Score(b, f, S, i)
      /\ \A i \in (1..n) \ S : s[i] = NA
  <2>1. IsBlocks(b, f, S) /\ DOMAIN f = 1..n /\ S \subseteq 1..n BY <1>1, <1>2, <1>4
  <2>2. s \in Seq(Int) /\ Len(s) = n BY <1>4, <2>1, ScoresAre
  <2>3. \A i \in 1..n : s[i] \in (0..Grain) \cup {NA} BY <1>4, <2>1, ScoresAre
  <2>4. \A i \in S : s[i] = Score(b, f, S, i) BY <1>4, <2>1, ScoresAre
  <2>5. NoOthers(s, n, S) BY <1>4, <2>1, ScoresAre
  <2> QED BY <2>2, <2>3, <2>4, <2>5 DEF NoOthers
<1>6. DOMAIN s = 1..n BY <1>5
<1> QED BY <1>1, <1>3, <1>4, <1>5, <1>6

LEMMA EvidenceScoresAre ==
  ASSUME NEW rows, IsUniverse(rows), NEW S, S \subseteq DOMAIN rows
  PROVE  \A i \in S : EvidenceScores(rows, S)[i] = Score(EvidenceBlocks, EvidenceOf(rows), S, i)
<1>1. PICK n \in Nat : n = Len(rows) /\ DOMAIN rows = 1..n BY RowsAre
<1>2. IsBlocks(EvidenceBlocks, EvidenceOf(rows), S) /\ DOMAIN EvidenceOf(rows) = 1..n BY <1>1, UniverseRanks
<1>3. EvidenceScores(rows, S) = Scores(EvidenceBlocks, EvidenceOf(rows), S) BY DEF EvidenceScores, EvidenceOf
<1>4. PICK b, f, s : b = EvidenceBlocks /\ f = EvidenceOf(rows) /\ s = Scores(b, f, S) OBVIOUS
<1>5. \A i \in S : s[i] = Score(b, f, S, i) BY <1>1, <1>2, <1>4, ScoresAre
<1> QED BY <1>3, <1>4, <1>5

-------------------------------------------------------------------------------
LEMMA PricedIsScored ==
  ASSUME NEW rows, IsUniverse(rows), NEW S, S \subseteq DOMAIN rows, NEW i \in S,
         rows[i].type \in {"CALL", "PUT"}, rows[i].underlying > 0, rows[i].strike > 0, rows[i].premium > 0
  PROVE  EconomicScores(rows, S)[i] \in 0..Grain
<1>1. PICK row : row = rows[i] OBVIOUS
<1>2. row \in ListedRow BY <1>1, RowsAre
<1>3. PICK x : x = EconomicFeatures(row).premium_burden OBVIOUS
<1>4. x # NoFeature
  <2>1. \A p \in {row.underlying, row.strike, row.premium} : p > 0 BY <1>1
  <2>2. row.type \in {"CALL", "PUT"} BY <1>1
  <2>3. x = Ratio(TimeValue(row), row.underlying) BY <1>3, <2>1, <2>2 DEF EconomicFeatures
  <2>4. row.underlying \in Int /\ row.underlying > 0 BY <1>1, <1>2, PricesAre
  <2>5. TimeValue(row) >= 0 /\ TimeValue(row) \in Int
    <3>1. TimeValue(row) \in Int BY <1>2, PricesAre
    <3>2. \A y \in Int : AtLeast0(y) >= 0 BY DEF AtLeast0
    <3>3. row.premium - Intrinsic(row) \in Int
      <4>1. row.premium \in Int /\ Intrinsic(row) \in Int BY <1>2, PricesAre
      <4> QED BY <4>1
    <3> QED BY <3>1, <3>2, <3>3 DEF TimeValue
  <2>6. x = <<TimeValue(row), Size(row.underlying)>> BY <2>3, <2>4 DEF Ratio
  <2>7. TimeValue(row) # NA BY <2>5 DEF NA
  <2> QED BY <2>6, <2>7 DEF NoFeature
<1>5. PICK c : c = "premium_burden" OBVIOUS
<1>6. EconomicOf(rows)[i][c] # NoFeature
  <2>1. EconomicOf(rows)[i] = EconomicFeatures(rows[i]) BY FeaturesAt
  <2> QED BY <1>1, <1>3, <1>4, <1>5, <2>1
<1>7. PICK b : b = EconomicBlocks OBVIOUS
<1>8. Len(b) = 5 /\ Len(b[2].factors) = 2 /\ b[2].factors[1].name = c
  <2>1. b[2] = Block(25, <<Factor("premium_burden", 15, FALSE), Factor("intrinsic_coverage", 10, TRUE)>>) /\ Len(b) = 5
    BY <1>7 DEF EconomicBlocks
  <2>2. PICK f, g : f = Falling("premium_burden", 15) /\ g = Rising("intrinsic_coverage", 10) OBVIOUS
  <2>3. b[2] = Block(25, <<f, g>>) BY <2>1, <2>2 DEF Rising, Falling
  <2>4. b[2].factors = <<f, g>> BY <2>3 DEF Block
  <2>5. f.name = c BY <1>5, <2>2 DEF Falling, Factor
  <2>6. PICK t : t = b[2].factors OBVIOUS
  <2>7. Len(t) = 2 /\ t[1] = f BY <2>4, <2>6
  <2>8. Len(b) = 5 BY <2>1
  <2>9. t[1].name = c BY <2>5, <2>7
  <2> QED BY <2>6, <2>7, <2>8, <2>9
<1>9. i \in Having(b[2].factors[1], EconomicOf(rows), S) BY <1>6, <1>8 DEF Having
<1>10. HasBlock(b[2], EconomicOf(rows), S, i) BY <1>8, <1>9 DEF HasBlock
<1>11. HasScore(b, EconomicOf(rows), S, i) BY <1>8, <1>10 DEF HasScore
<1>12. Score(b, EconomicOf(rows), S, i) \in 0..Grain BY <1>7, <1>11, UniverseRanks, ScoreInGrain
<1> QED BY <1>7, <1>12, EconomicScoresAre

-------------------------------------------------------------------------------
\* The places that have a score, in the order of their scores.
Scored(scores) == {i \in DOMAIN scores : Known(scores[i])}
ByScore(scores) ==
  {p \in (DOMAIN scores) \X (DOMAIN scores) :
     \/ Beats(scores[p[1]], scores[p[2]])
     \/ scores[p[1]] = scores[p[2]] /\ p[1] < p[2]}

LEMMA RankOrderIs ==
  ASSUME NEW scores \in Seq(Int)
  PROVE  /\ IsFiniteSet(Scored(scores)) /\ Scored(scores) \subseteq DOMAIN scores
         /\ InLine(Scored(scores), ByScore(scores), RankOrder(scores))
<1>1. PICK n \in Nat : n = Len(scores) /\ DOMAIN scores = 1..n OBVIOUS
<1>2. \A i \in 1..n : scores[i] \in Int BY <1>1
<1>3. PICK one \in Int, many \in Int : one = 1 /\ many = n OBVIOUS
<1>4. IsFiniteSet(one..many) BY FS_Interval
<1>5. IsFiniteSet(1..n) BY <1>3, <1>4
<1>6. PICK S : S = Scored(scores) OBVIOUS
<1>7. S \subseteq 1..n /\ IsFiniteSet(S)
  <2>1. S \subseteq 1..n BY <1>1, <1>6 DEF Scored
  <2> QED BY <1>5, <2>1, FS_Subset
<1>8. PICK R : R = ByScore(scores) /\ R = {p \in (1..n) \X (1..n) :
        (scores[p[1]] > scores[p[2]]) \/ (scores[p[1]] = scores[p[2]] /\ p[1] < p[2])}
  BY <1>1 DEF ByScore, Beats
<1>9. \A a, b \in 1..n : <<a, b>> \in R <=> (scores[a] > scores[b] \/ (scores[a] = scores[b] /\ a < b))
  <2> TAKE a, b \in 1..n
  <2>1. PICK p : p = <<a, b>> /\ p \in (1..n) \X (1..n) /\ p[1] = a /\ p[2] = b
    <3>1. <<a, b>> \in (1..n) \X (1..n) /\ <<a, b>>[1] = a /\ <<a, b>>[2] = b OBVIOUS
    <3> QED BY <3>1
  <2>2. p \in R <=> ((scores[p[1]] > scores[p[2]]) \/ (scores[p[1]] = scores[p[2]] /\ p[1] < p[2]))
    BY <1>8, <2>1
  <2> QED BY <2>1, <2>2
<1>10. IsOrder(S, R)
  <2>1. \A a \in S : <<a, a>> \notin R BY <1>2, <1>7, <1>9
  <2>2. ASSUME NEW a \in S, NEW b \in S, NEW c \in S, <<a, b>> \in R, <<b, c>> \in R PROVE <<a, c>> \in R
    <3>1. a \in 1..n /\ b \in 1..n /\ c \in 1..n BY <1>7
    <3>2. PICK x, y, z \in Int : x = scores[a] /\ y = scores[b] /\ z = scores[c] BY <1>2, <3>1
    <3>3. (x > y \/ (x = y /\ a < b)) /\ (y > z \/ (y = z /\ b < c)) BY <1>9, <2>2, <3>1, <3>2
    <3>4. x > z \/ (x = z /\ a < c) BY <3>1, <3>3
    <3> QED BY <1>9, <3>1, <3>2, <3>4
  <2>3. ASSUME NEW a \in S, NEW b \in S PROVE a = b \/ <<a, b>> \in R \/ <<b, a>> \in R
    <3>1. a \in 1..n /\ b \in 1..n BY <1>7
    <3>2. PICK x, y \in Int : x = scores[a] /\ y = scores[b] BY <1>2, <3>1
    <3>3. a = b \/ (x > y \/ (x = y /\ a < b)) \/ (y > x \/ (y = x /\ b < a)) BY <3>1
    <3> QED BY <1>9, <3>1, <3>2, <3>3
  <2> QED BY <2>1, <2>2, <2>3 DEF IsOrder
<1>11. InLine(S, R, Arranged(S, R)) BY <1>7, <1>10, ArrangedIs
<1>12. RankOrder(scores) = Arranged(S, R) BY <1>6, <1>8 DEF RankOrder, Scored, ByScore
<1> QED BY <1>1, <1>6, <1>7, <1>8, <1>11, <1>12

\* The first ones of a sequence.
LEMMA FirstNIs ==
  ASSUME NEW T, NEW s \in Seq(T), NEW n \in Nat
  PROVE  /\ FirstN(s, n) \in Seq(T)
         /\ Len(FirstN(s, n)) = IF Len(s) < n THEN Len(s) ELSE n
         /\ \A k \in 1..Len(FirstN(s, n)) : FirstN(s, n)[k] = s[k]
<1>1. PICK m \in Nat : m = (IF Len(s) < n THEN Len(s) ELSE n) /\ m <= Len(s)
  <2>1. CASE Len(s) < n BY <2>1
  <2>2. CASE ~(Len(s) < n) BY <2>2
  <2> QED BY <2>1, <2>2
<1>2. FirstN(s, n) = SubSeq(s, 1, m) BY <1>1 DEF FirstN
<1>3. SubSeq(s, 1, m) \in Seq(T) /\ Len(SubSeq(s, 1, m)) = m /\ \A k \in 1..m : SubSeq(s, 1, m)[k] = s[k]
  BY <1>1
<1> QED BY <1>1, <1>2, <1>3

LEMMA FewerAreFirst ==
  ASSUME NEW T, NEW s \in Seq(T), NEW few \in Nat, NEW many \in Nat, few <= many
  PROVE  IsPrefix(FirstN(s, few), FirstN(s, many))
<1>1. PICK p, q \in Seq(T) : p = FirstN(s, few) /\ q = FirstN(s, many) BY FirstNIs
<1>2. PICK i, j \in Nat : i = Len(p) /\ j = Len(q) OBVIOUS
<1>3. i = (IF Len(s) < few THEN Len(s) ELSE few) /\ j = (IF Len(s) < many THEN Len(s) ELSE many)
  BY <1>1, <1>2, FirstNIs
<1>4. i <= j BY <1>3
<1>5. (\A k \in 1..i : p[k] = s[k]) /\ (\A k \in 1..j : q[k] = s[k]) BY <1>1, <1>2, FirstNIs
<1>6. SubSeq(p, 1, i) = SubSeq(q, 1, i)
  <2>1. PICK a, b \in Seq(T) : a = SubSeq(p, 1, i) /\ b = SubSeq(q, 1, i)
    <3>1. SubSeq(p, 1, i) \in Seq(T) /\ SubSeq(q, 1, i) \in Seq(T) BY <1>2, <1>4
    <3> QED BY <3>1
  <2>2. Len(a) = i /\ Len(b) = i BY <1>2, <1>4, <2>1
  <2>3. \A k \in 1..i : a[k] = b[k] BY <1>2, <1>4, <1>5, <2>1
  <2>4. a = b BY <2>2, <2>3
  <2> QED BY <2>1, <2>4
<1> QED BY <1>1, <1>2, <1>4, <1>6 DEF IsPrefix

-------------------------------------------------------------------------------
\* The ranking of the rows at the places of S.
LEMMA RankedIs ==
  ASSUME NEW rows, IsUniverse(rows), NEW S, S \subseteq DOMAIN rows
  PROVE  LET scores == EconomicScores(rows, S)
         IN /\ scores \in Seq(Int) /\ Scored(scores) \subseteq S /\ IsFiniteSet(Scored(scores))
            /\ InLine(Scored(scores), ByScore(scores), Ranked(rows, S))
            /\ \A a, b \in Scored(scores) :
                 <<a, b>> \in ByScore(scores) => scores[a] >= scores[b]
            /\ \A a, b \in S : b \in Scored(scores) /\ Beats(scores[a], scores[b]) =>
                 a \in Scored(scores) /\ <<a, b>> \in ByScore(scores)
<1>1. PICK s \in Seq(Int) : s = EconomicScores(rows, S) BY EconomicScoresAre
<1>2. PICK n \in Nat : n = Len(rows) /\ DOMAIN rows = 1..n BY RowsAre
<1>3. DOMAIN s = 1..n /\ \A i \in 1..n : s[i] \in (0..Grain) \cup {NA} BY <1>1, <1>2, EconomicScoresAre
<1>4. \A i \in (1..n) \ S : s[i] = NA BY <1>1, <1>2, EconomicScoresAre
<1>5. Scored(s) \subseteq S /\ IsFiniteSet(Scored(s))
  <2>1. \A i \in Scored(s) : i \in 1..n /\ s[i] # NA BY <1>3 DEF Scored, Known
  <2>2. Scored(s) \subseteq S BY <1>4, <2>1
  <2> QED BY <2>2, RankOrderIs
<1>6. InLine(Scored(s), ByScore(s), Ranked(rows, S)) BY <1>1, RankOrderIs DEF Ranked
<1>7. \A a, b \in 1..n : <<a, b>> \in ByScore(s) <=> (s[a] > s[b] \/ (s[a] = s[b] /\ a < b))
  <2> TAKE a, b \in 1..n
  <2>1. PICK p : p = <<a, b>> /\ p \in (1..n) \X (1..n) /\ p[1] = a /\ p[2] = b
    <3>1. <<a, b>> \in (1..n) \X (1..n) /\ <<a, b>>[1] = a /\ <<a, b>>[2] = b OBVIOUS
    <3> QED BY <3>1
  <2>2. ByScore(s) = {q \in (1..n) \X (1..n) : (s[q[1]] > s[q[2]]) \/ (s[q[1]] = s[q[2]] /\ q[1] < q[2])}
    BY <1>3 DEF ByScore, Beats
  <2>3. p \in ByScore(s) <=> ((s[p[1]] > s[p[2]]) \/ (s[p[1]] = s[p[2]] /\ p[1] < p[2])) BY <2>1, <2>2
  <2> QED BY <2>1, <2>3
<1>8. \A i \in 1..n : s[i] \in Int /\ (s[i] # NA => s[i] >= 0) /\ s[i] >= NA
  <2> TAKE i \in 1..n
  <2>1. s[i] \in (0..Grain) \cup {NA} BY <1>3
  <2>2. Grain \in Nat BY UniversesAssumption
  <2> QED BY <2>1, <2>2 DEF NA
<1>9. \A i \in Scored(s) : i \in 1..n /\ s[i] # NA BY <1>3 DEF Scored, Known
<1>10. \A a, b \in Scored(s) : <<a, b>> \in ByScore(s) => s[a] >= s[b]
  <2> TAKE a, b \in Scored(s)
  <2>1. a \in 1..n /\ b \in 1..n /\ s[a] \in Int /\ s[b] \in Int BY <1>8, <1>9
  <2> QED BY <1>7, <2>1
<1>11. ASSUME NEW a \in S, NEW b \in S, b \in Scored(s), Beats(s[a], s[b])
       PROVE  a \in Scored(s) /\ <<a, b>> \in ByScore(s)
  <2>1. a \in 1..n /\ b \in 1..n BY <1>2
  <2>2. s[a] > s[b] BY <1>11 DEF Beats
  <2>3. s[b] >= 0 BY <1>8, <1>9, <1>11
  <2>4. s[a] # NA BY <1>8, <2>1, <2>2, <2>3 DEF NA
  <2>5. a \in Scored(s) BY <1>3, <2>1, <2>4 DEF Scored, Known
  <2>6. <<a, b>> \in ByScore(s) BY <1>7, <2>1, <2>2
  <2> QED BY <2>5, <2>6
<1> QED BY <1>1, <1>5, <1>6, <1>10, <1>11

-------------------------------------------------------------------------------
LEMMA EligibleAre ==
  ASSUME NEW rows, IsUniverse(rows), NEW bias
  PROVE  /\ Quality(rows) \subseteq DOMAIN rows /\ Discovery(rows) \subseteq Quality(rows)
         /\ Eligible(rows, bias) \subseteq Quality(rows) /\ Eligible(rows, bias) \subseteq Discovery(rows)
         /\ IsFiniteSet(Eligible(rows, bias))
         /\ \A i \in Eligible(rows, bias) : /\ Tradability(rows[i]) = "PASS"
                                            /\ Directional(rows[i].type, bias[rows[i].share])
<1>1. PICK Q : Q = Quality(rows) OBVIOUS
<1>2. Q \subseteq DOMAIN rows BY <1>1 DEF Quality
<1>3. PICK s : s = EconomicScores(rows, Q) OBVIOUS
<1>4. PICK T : T = Scored(s) /\ T \subseteq Q /\ IsFiniteSet(T) BY <1>2, <1>3, RankedIs
<1>5. InLine(T, ByScore(s), Ranked(rows, Q)) BY <1>2, <1>3, <1>4, RankedIs
<1>6. PICK r \in Seq(T) : r = Ranked(rows, Q) BY <1>5 DEF InLine
<1>7. PICK f \in Seq(T) : f = FirstN(r, Pool) BY ReportAssumption, FirstNIs
<1>8. Discovery(rows) = Range(f) BY <1>1, <1>6, <1>7 DEF Discovery
<1>9. Range(f) \subseteq T BY DEF Range
<1>10. Eligible(rows, bias) \subseteq Discovery(rows) BY DEF Eligible
<1>11. IsFiniteSet(Eligible(rows, bias))
  <2>1. Eligible(rows, bias) \subseteq T BY <1>8, <1>9, <1>10
  <2> QED BY <1>4, <2>1, FS_Subset
<1>12. \A i \in Eligible(rows, bias) : Directional(rows[i].type, bias[rows[i].share]) BY DEF Eligible
<1>13. \A i \in Q : Tradability(rows[i]) = "PASS" BY <1>1 DEF Quality
<1> QED BY <1>1, <1>2, <1>4, <1>8, <1>9, <1>10, <1>11, <1>12, <1>13

\* Every eligible row has a score, there and in the final ranking.
LEMMA EligibleIsScored ==
  ASSUME NEW rows, IsUniverse(rows), NEW bias, NEW E, E = Eligible(rows, bias)
  PROVE  Scored(EconomicScores(rows, E)) = E
<1>1. E \subseteq DOMAIN rows BY EligibleAre
<1>2. PICK s : s = EconomicScores(rows, E) OBVIOUS
<1>3. Scored(s) \subseteq E BY <1>1, <1>2, RankedIs
<1>4. DOMAIN s = DOMAIN rows BY <1>1, <1>2, EconomicScoresAre
<1>5. ASSUME NEW i \in E PROVE i \in Scored(s)
  <2>1. PICK row \in ListedRow : row = rows[i] BY <1>1, RowsAre
  <2>2. Tradability(row) = "PASS" /\ Directional(row.type, bias[row.share]) BY <2>1, EligibleAre
  <2>3. row.type \in {"CALL", "PUT"} BY <2>2 DEF Directional
  <2>4. ~(row.underlying <= 0) /\ ~(row.premium <= 0) /\ ~(row.strike <= 0) BY <2>2, PassIsDated
  <2>5. row.underlying > 0 /\ row.premium > 0 /\ row.strike > 0
    <3>1. row.underlying \in Int /\ row.premium \in Int /\ row.strike \in Int BY PricesAre
    <3> QED BY <2>4, <3>1
  <2>6. s[i] \in 0..Grain BY <1>1, <1>2, <2>1, <2>3, <2>5, PricedIsScored
  <2>7. s[i] # NA BY <2>6, UniversesAssumption DEF NA
  <2> QED BY <1>1, <1>4, <2>7 DEF Scored, Known
<1> QED BY <1>2, <1>3, <1>5

LEMMA ShownIs ==
  ASSUME NEW rows, IsUniverse(rows), NEW bias, NEW limit \in Nat
  PROVE  LET e == Eligible(rows, bias)
             shown == Shown(rows, bias, limit)
         IN /\ shown \in Seq(e) /\ Ranked(rows, e) \in Seq(e) /\ Cardinality(e) \in Nat
            /\ Len(shown) = IF Cardinality(e) < limit THEN Cardinality(e) ELSE limit
            /\ \A k \in 1..Len(shown) : shown[k] \in e /\ shown[k] = Ranked(rows, e)[k]
            /\ shown = FirstN(Ranked(rows, e), limit)
<1>1. PICK e : e = Eligible(rows, bias) OBVIOUS
<1>2. e \subseteq DOMAIN rows BY <1>1, EligibleAre
<1>3. PICK s : s = EconomicScores(rows, e) OBVIOUS
<1>4. Scored(s) = e BY <1>1, <1>3, EligibleIsScored
<1>5. InLine(e, ByScore(s), Ranked(rows, e)) BY <1>2, <1>3, <1>4, RankedIs
<1>6. PICK r \in Seq(e) : r = Ranked(rows, e) /\ Len(r) = Cardinality(e) BY <1>5 DEF InLine
<1>7. PICK f \in Seq(e) : f = FirstN(r, limit) BY FirstNIs
<1>8. Shown(rows, bias, limit) = f BY <1>1, <1>6, <1>7 DEF Shown
<1>9. Len(f) = (IF Len(r) < limit THEN Len(r) ELSE limit) /\ \A k \in 1..Len(f) : f[k] = r[k] BY <1>7, FirstNIs
<1>10. \A k \in 1..Len(f) : f[k] \in e OBVIOUS
<1> QED BY <1>1, <1>6, <1>7, <1>8, <1>9, <1>10

-------------------------------------------------------------------------------
LEMMA SmallerIs ==
  ASSUME NEW x \in Nat, NEW y \in Nat
  PROVE  Min({x, y}) = IF y < x THEN y ELSE x
<1>1. PICK m : m = Min({x, y}) OBVIOUS
<1>2. PICK n \in Nat : n = IF y < x THEN y ELSE x
  <2>1. CASE y < x BY <2>1
  <2>2. CASE ~(y < x) BY <2>2
  <2> QED BY <2>1, <2>2
<1>3. n \in {x, y} /\ \A z \in {x, y} : n <= z BY <1>2
<1>4. m = CHOOSE a \in {x, y} : \A b \in {x, y} : a <= b BY <1>1 DEF Min
<1>5. m \in {x, y} /\ \A b \in {x, y} : m <= b BY <1>3, <1>4
<1>6. m <= n /\ n <= m /\ m \in Nat BY <1>3, <1>5
<1> QED BY <1>1, <1>2, <1>6

LEMMA ReportPrefix ==
  ASSUME NEW rows, IsUniverse(rows), NEW bias, case = [engine |-> "report", in |-> [rows |-> rows, bias |-> bias]]
  PROVE  LargerBeginsWithSmaller
<1>1. case.in.rows = rows /\ case.in.bias = bias OBVIOUS
<1>2. PICK shown : shown = [limit \in Limits |-> Shown(rows, bias, limit)] OBVIOUS
<1>3. ASSUME NEW small \in Limits, NEW large \in Limits, small <= large
      PROVE  IsPrefix(shown[small], shown[large])
  <2>1. small \in Nat /\ large \in Nat BY ReportAssumption
  <2>2. PICK e : e = Eligible(rows, bias) OBVIOUS
  <2>3. PICK r \in Seq(e) : r = Ranked(rows, e) BY <2>1, <2>2, ShownIs
  <2>4. shown[small] = FirstN(r, small) /\ shown[large] = FirstN(r, large) BY <1>2, <2>1, <2>2, <2>3, ShownIs
  <2>5. IsPrefix(FirstN(r, small), FirstN(r, large)) BY <1>3, <2>1, FewerAreFirst
  <2> QED BY <2>4, <2>5
<1> QED BY <1>1, <1>2, <1>3 DEF LargerBeginsWithSmaller

LEMMA LineIs ==
  ASSUME NEW row \in ListedRow, NEW bias, Tradability(row) = "PASS", Directional(row.type, bias[row.share])
  PROVE  Line(row, bias, 0).why /\ Line(row, bias, 0).days > 0
<1>1. row.expiry > 0
  <2>1. ~(row.expiry <= 0) BY PassIsDated
  <2>2. row.expiry \in Int BY PricesAre
  <2> QED BY <2>1, <2>2
<1>2. row.expiry - 0 = row.expiry /\ AtLeast0(row.expiry) = row.expiry
  <2>1. row.expiry \in Int BY PricesAre
  <2> QED BY <1>1, <2>1 DEF AtLeast0
<1>3. \/ row.type = "CALL" /\ bias[row.share].bias = "BULLISH"
      \/ row.type = "PUT" /\ bias[row.share].bias = "BEARISH"
  BY DEF Directional
<1> QED BY <1>1, <1>2, <1>3 DEF Line

LEMMA ReportShows ==
  ASSUME NEW rows, IsUniverse(rows), NEW bias, case = [engine |-> "report", in |-> [rows |-> rows, bias |-> bias]]
  PROVE  ShownAreEligible
<1>1. case.in.rows = rows /\ case.in.bias = bias OBVIOUS
<1>2. PICK e : e = Eligible(rows, bias) OBVIOUS
<1>3. ASSUME NEW limit \in Limits, NEW shown, shown = Shown(rows, bias, limit)
      PROVE  /\ Len(shown) = Min({limit, Cardinality(e)})
             /\ \A k \in DOMAIN shown : Line(rows[shown[k]], bias, 0).why /\ Line(rows[shown[k]], bias, 0).days > 0
  <2>1. limit \in Nat BY ReportAssumption
  <2>2. shown \in Seq(e) /\ Cardinality(e) \in Nat BY <1>2, <1>3, <2>1, ShownIs
  <2>3. Len(shown) = IF Cardinality(e) < limit THEN Cardinality(e) ELSE limit BY <1>2, <1>3, <2>1, ShownIs
  <2>4. Len(shown) = Min({limit, Cardinality(e)}) BY <2>1, <2>2, <2>3, SmallerIs
  <2>5. ASSUME NEW k \in DOMAIN shown
        PROVE  Line(rows[shown[k]], bias, 0).why /\ Line(rows[shown[k]], bias, 0).days > 0
    <3>1. PICK i \in e : i = shown[k] BY <2>2
    <3>2. i \in DOMAIN rows BY <1>2, EligibleAre
    <3>3. PICK row \in ListedRow : row = rows[i] BY <3>2, RowsAre
    <3>4. Tradability(row) = "PASS" /\ Directional(row.type, bias[row.share]) BY <1>2, <3>3, EligibleAre
    <3>5. Line(row, bias, 0).why /\ Line(row, bias, 0).days > 0 BY <3>4, LineIs
    <3> QED BY <3>1, <3>3, <3>5
  <2> QED BY <2>4, <2>5
<1> QED BY <1>1, <1>2, <1>3 DEF ShownAreEligible

LEMMA ReportPools ==
  ASSUME NEW rows, IsUniverse(rows), NEW bias, case = [engine |-> "report", in |-> [rows |-> rows, bias |-> bias]]
  PROVE  BestArePooled
<1>1. case.in.rows = rows /\ case.in.bias = bias OBVIOUS
<1>2. PICK Q : Q = Quality(rows) /\ Q \subseteq DOMAIN rows BY EligibleAre
<1>3. PICK s : s = EconomicScores(rows, Q) OBVIOUS
<1>4. PICK T : T = Scored(s) OBVIOUS
<1>5. InLine(T, ByScore(s), Ranked(rows, Q)) BY <1>2, <1>3, <1>4, RankedIs
<1>6. PICK r \in Seq(T) : r = Ranked(rows, Q) BY <1>5 DEF InLine
<1>7. PICK f \in Seq(T) : f = FirstN(r, Pool) BY ReportAssumption, FirstNIs
<1>8. PICK m \in Nat : m = Len(f) OBVIOUS
<1>9. m <= Len(r) /\ \A k \in 1..m : f[k] = r[k] BY <1>7, <1>8, ReportAssumption, FirstNIs
<1>10. PICK pool : pool = Discovery(rows) OBVIOUS
<1>11. pool = Range(f) BY <1>2, <1>6, <1>7, <1>10 DEF Discovery
<1>12. \A i : i \in pool <=> \E k \in 1..m : r[k] = i
  <2> TAKE i
  <2>1. DOMAIN f = 1..m BY <1>8
  <2>2. i \in Range(f) <=> \E k \in 1..m : f[k] = i BY <2>1 DEF Range
  <2> QED BY <1>9, <1>11, <2>2
<1>13. ASSUME NEW k \in Q, NEW l \in Q, Beats(s[k], s[l]), l \in Eligible(rows, bias) PROVE k \in pool
  <2>1. l \in pool BY <1>10, <1>13, EligibleAre
  <2>2. PICK b \in 1..m : r[b] = l BY <1>12, <2>1
  <2>3. l \in T BY <1>9, <2>2
  <2>4. k \in T /\ <<k, l>> \in ByScore(s) BY <1>2, <1>3, <1>4, <1>13, <2>3, RankedIs
  <2>5. PICK a \in 1..Len(r) : r[a] = k BY <1>5, <1>6, <2>4 DEF InLine
  <2>6. b \in 1..Len(r) BY <1>9
  <2>7. a < b BY <1>5, <1>6, <2>2, <2>4, <2>5, <2>6 DEF InLine
  <2>8. a \in 1..m BY <2>7
  <2> QED BY <1>12, <2>5, <2>8
<1> QED BY <1>1, <1>2, <1>3, <1>10, <1>13 DEF BestArePooled

LEMMA ReportOrders ==
  ASSUME NEW rows, IsUniverse(rows), NEW bias, case = [engine |-> "report", in |-> [rows |-> rows, bias |-> bias]]
  PROVE  OrderIsFinal
<1>1. case.in.rows = rows /\ case.in.bias = bias OBVIOUS
<1>2. PICK e : e = Eligible(rows, bias) /\ e \subseteq DOMAIN rows BY EligibleAre
<1>3. PICK s \in Seq(Int) : s = EconomicScores(rows, e) BY <1>2, EconomicScoresAre
<1>4. Scored(s) = e BY <1>2, <1>3, EligibleIsScored
<1>5. InLine(e, ByScore(s), Ranked(rows, e)) BY <1>2, <1>3, <1>4, RankedIs
<1>6. PICK n \in Nat : n = Len(rows) BY RowsAre
<1>7. PICK shown \in Seq(e) : shown = Shown(rows, bias, n) BY <1>2, ShownIs
<1>8. PICK r \in Seq(e) : r = Ranked(rows, e) BY <1>2, ShownIs
<1>9. \A k \in 1..Len(shown) : shown[k] = r[k] BY <1>2, <1>7, <1>8, ShownIs
<1>10. Len(shown) <= Len(r)
  <2>1. shown = FirstN(r, n) BY <1>2, <1>7, <1>8, ShownIs
  <2>2. Len(shown) = IF Len(r) < n THEN Len(r) ELSE n BY <2>1, FirstNIs
  <2> QED BY <2>2
<1>11. ASSUME NEW a \in DOMAIN shown, NEW b \in DOMAIN shown, a < b
       PROVE  ~Beats(s[shown[b]], s[shown[a]])
  <2>1. a \in 1..Len(r) /\ b \in 1..Len(r) /\ shown[a] = r[a] /\ shown[b] = r[b] BY <1>9, <1>10
  <2>2. <<r[a], r[b]>> \in ByScore(s) BY <1>5, <1>8, <1>11, <2>1 DEF InLine
  <2>3. r[a] \in e /\ r[b] \in e BY <2>1
  <2>4. s[r[a]] >= s[r[b]] BY <1>2, <1>3, <1>4, <2>2, <2>3, RankedIs
  <2>5. s[r[a]] \in Int /\ s[r[b]] \in Int
    <3>1. DOMAIN s = DOMAIN rows BY <1>2, <1>3, EconomicScoresAre
    <3>2. r[a] \in DOMAIN s /\ r[b] \in DOMAIN s BY <1>2, <2>3, <3>1
    <3>3. \A k \in DOMAIN s : s[k] \in Int OBVIOUS
    <3> QED BY <3>2, <3>3
  <2> QED BY <2>1, <2>4, <2>5 DEF Beats
<1> QED BY <1>1, <1>2, <1>3, <1>6, <1>7, <1>11 DEF OrderIsFinal

-------------------------------------------------------------------------------
\* The order of activity: the first of the three in which two rows differ decides.
Exceeds(x, y) == Known(x) /\ (~Known(y) \/ x > y)
ByActivity(rows) ==
  {p \in (DOMAIN rows) \X (DOMAIN rows) :
     \/ MoreActive(rows[p[1]], rows[p[2]])
     \/ ~MoreActive(rows[p[2]], rows[p[1]]) /\ p[1] > p[2]}

LEMMA OverIs ==
  /\ \A x \in Int : ~Exceeds(x, x)
  /\ \A x, y \in Int : x = y \/ Exceeds(x, y) \/ Exceeds(y, x)
  /\ \A x, y \in Int : ~(Exceeds(x, y) /\ Exceeds(y, x))
  /\ \A x, y, z \in Int : Exceeds(x, y) /\ Exceeds(y, z) => Exceeds(x, z)
  /\ \A x, y \in Int : Exceeds(x, y) => Known(x) /\ (Known(y) => x > y)
BY DEF Exceeds, Known

Leads(a, b) ==
  \/ Exceeds(a.value, b.value)
  \/ a.value = b.value /\ (Exceeds(a.volume, b.volume) \/ (a.volume = b.volume /\ Exceeds(a.count, b.count)))

LEMMA MoreActiveIs ==
  ASSUME NEW a, NEW b
  PROVE  MoreActive(a, b) <=> Leads(a, b)
<1>1. PICK key : key = <<"value", "volume", "count">> OBVIOUS
<1>2. key[1] = "value" /\ key[2] = "volume" /\ key[3] = "count" /\ DOMAIN key = 1..3 BY <1>1
<1>3. MoreActive(a, b) <=>
        \E k \in 1..3 : Exceeds(a[key[k]], b[key[k]]) /\ \A l \in 1..(k - 1) : a[key[l]] = b[key[l]]
  BY <1>1, <1>2 DEF MoreActive, Exceeds
<1>4. ASSUME NEW k \in 1..3, Exceeds(a[key[k]], b[key[k]]), \A l \in 1..(k - 1) : a[key[l]] = b[key[l]]
      PROVE  Leads(a, b)
  <2>1. CASE k = 1 BY <1>2, <1>4, <2>1 DEF Leads
  <2>2. CASE k = 2
    <3>1. 1 \in 1..(k - 1) BY <2>2
    <3>2. a[key[1]] = b[key[1]] BY <1>4, <3>1
    <3> QED BY <1>2, <1>4, <2>2, <3>2 DEF Leads
  <2>3. CASE k = 3
    <3>1. 1 \in 1..(k - 1) /\ 2 \in 1..(k - 1) BY <2>3
    <3>2. a[key[1]] = b[key[1]] /\ a[key[2]] = b[key[2]] BY <1>4, <3>1
    <3> QED BY <1>2, <1>4, <2>3, <3>2 DEF Leads
  <2> QED BY <2>1, <2>2, <2>3
<1>5. ASSUME Leads(a, b)
      PROVE  \E k \in 1..3 : Exceeds(a[key[k]], b[key[k]]) /\ \A l \in 1..(k - 1) : a[key[l]] = b[key[l]]
  <2>1. CASE Exceeds(a.value, b.value)
    <3>1. Exceeds(a[key[1]], b[key[1]]) /\ \A l \in 1..(1 - 1) : a[key[l]] = b[key[l]] BY <1>2, <2>1
    <3> QED BY <3>1
  <2>2. CASE a.value = b.value /\ Exceeds(a.volume, b.volume)
    <3>1. \A l \in 1..(2 - 1) : l = 1 OBVIOUS
    <3>2. Exceeds(a[key[2]], b[key[2]]) /\ \A l \in 1..(2 - 1) : a[key[l]] = b[key[l]] BY <1>2, <2>2, <3>1
    <3> QED BY <3>2
  <2>3. CASE a.value = b.value /\ a.volume = b.volume /\ Exceeds(a.count, b.count)
    <3>1. \A l \in 1..(3 - 1) : l = 1 \/ l = 2 OBVIOUS
    <3>2. Exceeds(a[key[3]], b[key[3]]) /\ \A l \in 1..(3 - 1) : a[key[l]] = b[key[l]] BY <1>2, <2>3, <3>1
    <3> QED BY <3>2
  <2> QED BY <1>5, <2>1, <2>2, <2>3 DEF Leads
<1> QED BY <1>3, <1>4, <1>5

LEMMA ActiveOrders ==
  ASSUME NEW rows, IsUniverse(rows)
  PROVE  InLine(DOMAIN rows, ByActivity(rows), Active(rows))
<1>1. PICK n \in Nat : n = Len(rows) /\ DOMAIN rows = 1..n BY RowsAre
<1>2. PICK one \in Int, many \in Int : one = 1 /\ many = n OBVIOUS
<1>3. IsFiniteSet(one..many) BY FS_Interval
<1>4. IsFiniteSet(1..n) BY <1>2, <1>3
<1>5. PICK v, w, c \in [1..n -> Int] : \A i \in 1..n : v[i] = rows[i].value /\ w[i] = rows[i].volume /\ c[i] = rows[i].count
  <2>1. PICK v : v = [i \in 1..n |-> rows[i].value] OBVIOUS
  <2>2. PICK w : w = [i \in 1..n |-> rows[i].volume] OBVIOUS
  <2>3. PICK c : c = [i \in 1..n |-> rows[i].count] OBVIOUS
  <2>4. \A i \in 1..n : rows[i].value \in Int /\ rows[i].volume \in Int /\ rows[i].count \in Int
    BY <1>1, RowsAre, PricesAre
  <2>5. v \in [1..n -> Int] /\ w \in [1..n -> Int] /\ c \in [1..n -> Int] BY <2>1, <2>2, <2>3, <2>4
  <2> QED BY <2>1, <2>2, <2>3, <2>5
<1> DEFINE First(i, j) == \/ Exceeds(v[i], v[j])
                          \/ v[i] = v[j] /\ (Exceeds(w[i], w[j]) \/ (w[i] = w[j] /\ Exceeds(c[i], c[j])))
<1>6. \A i, j \in 1..n : MoreActive(rows[i], rows[j]) <=> First(i, j) BY <1>5, MoreActiveIs DEF Leads
<1>7. PICK R : R = ByActivity(rows) OBVIOUS
<1>8. \A i, j \in 1..n : <<i, j>> \in R <=> (First(i, j) \/ (~First(j, i) /\ i > j))
  <2> TAKE i, j \in 1..n
  <2>1. PICK p : p = <<i, j>> /\ p \in (1..n) \X (1..n) /\ p[1] = i /\ p[2] = j
    <3>1. <<i, j>> \in (1..n) \X (1..n) /\ <<i, j>>[1] = i /\ <<i, j>>[2] = j OBVIOUS
    <3> QED BY <3>1
  <2>2. R = {q \in (1..n) \X (1..n) : \/ MoreActive(rows[q[1]], rows[q[2]])
                                      \/ ~MoreActive(rows[q[2]], rows[q[1]]) /\ q[1] > q[2]}
    BY <1>1, <1>7 DEF ByActivity
  <2>3. p \in R <=> (MoreActive(rows[p[1]], rows[p[2]]) \/ (~MoreActive(rows[p[2]], rows[p[1]]) /\ p[1] > p[2]))
    BY <2>1, <2>2
  <2>4. <<i, j>> \in R <=> (MoreActive(rows[i], rows[j]) \/ (~MoreActive(rows[j], rows[i]) /\ i > j)) BY <2>1, <2>3
  <2> QED BY <1>6, <2>4
<1>9. \A i, j \in 1..n : /\ v[i] \in Int /\ w[i] \in Int /\ c[i] \in Int
                         /\ v[j] \in Int /\ w[j] \in Int /\ c[j] \in Int OBVIOUS
<1>10. ASSUME NEW i \in 1..n, NEW j \in 1..n PROVE ~(First(i, j) /\ First(j, i))
  BY <1>9, OverIs
<1>11. ASSUME NEW i \in 1..n, NEW j \in 1..n, ~First(i, j), ~First(j, i)
       PROVE  v[i] = v[j] /\ w[i] = w[j] /\ c[i] = c[j]
  BY <1>9, <1>11, OverIs
<1>12. ASSUME NEW i \in 1..n, NEW j \in 1..n, NEW k \in 1..n, First(i, j), First(j, k) PROVE First(i, k)
  <2>1. PICK x1, x2, x3 \in Int : x1 = v[i] /\ x2 = v[j] /\ x3 = v[k] OBVIOUS
  <2>2. PICK y1, y2, y3 \in Int : y1 = w[i] /\ y2 = w[j] /\ y3 = w[k] OBVIOUS
  <2>3. PICK z1, z2, z3 \in Int : z1 = c[i] /\ z2 = c[j] /\ z3 = c[k] OBVIOUS
  <2>4. Exceeds(x1, x2) \/ (x1 = x2 /\ (Exceeds(y1, y2) \/ (y1 = y2 /\ Exceeds(z1, z2)))) BY <1>12, <2>1, <2>2, <2>3
  <2>5. Exceeds(x2, x3) \/ (x2 = x3 /\ (Exceeds(y2, y3) \/ (y2 = y3 /\ Exceeds(z2, z3)))) BY <1>12, <2>1, <2>2, <2>3
  <2>6. /\ Exceeds(x1, x2) /\ Exceeds(x2, x3) => Exceeds(x1, x3)
        /\ Exceeds(y1, y2) /\ Exceeds(y2, y3) => Exceeds(y1, y3)
        /\ Exceeds(z1, z2) /\ Exceeds(z2, z3) => Exceeds(z1, z3)
    BY OverIs
  <2>7. Exceeds(x1, x3) \/ (x1 = x3 /\ (Exceeds(y1, y3) \/ (y1 = y3 /\ Exceeds(z1, z3)))) BY <2>4, <2>5, <2>6
  <2> QED BY <2>1, <2>2, <2>3, <2>7
<1>13. ASSUME NEW i \in 1..n, NEW j \in 1..n, NEW k \in 1..n, v[i] = v[j] /\ w[i] = w[j] /\ c[i] = c[j]
       PROVE  (First(i, k) <=> First(j, k)) /\ (First(k, i) <=> First(k, j))
  BY <1>13
<1> HIDE DEF First
<1>14. IsOrder(1..n, R)
  <2>1. \A i \in 1..n : <<i, i>> \notin R BY <1>8, <1>10
  <2>2. ASSUME NEW i \in 1..n, NEW j \in 1..n, NEW k \in 1..n, <<i, j>> \in R, <<j, k>> \in R PROVE <<i, k>> \in R
    <3>1. (First(i, j) \/ (~First(j, i) /\ i > j)) /\ (First(j, k) \/ (~First(k, j) /\ j > k)) BY <1>8, <2>2
    <3>2. CASE First(i, j) /\ First(j, k) BY <1>8, <1>12, <3>2
    <3>3. CASE First(i, j) /\ ~First(j, k)
      <4>1. v[j] = v[k] /\ w[j] = w[k] /\ c[j] = c[k] BY <1>11, <3>1, <3>3
      <4>2. First(i, k) BY <1>13, <3>3, <4>1
      <4> QED BY <1>8, <4>2
    <3>4. CASE ~First(i, j) /\ First(j, k)
      <4>1. v[i] = v[j] /\ w[i] = w[j] /\ c[i] = c[j] BY <1>11, <3>1, <3>4
      <4>2. First(i, k) BY <1>13, <3>4, <4>1
      <4> QED BY <1>8, <4>2
    <3>5. CASE ~First(i, j) /\ ~First(j, k)
      <4>1. v[i] = v[j] /\ w[i] = w[j] /\ c[i] = c[j] BY <1>11, <3>1, <3>5
      <4>2. ~First(k, i) BY <1>13, <3>1, <3>5, <4>1
      <4>3. i > k BY <3>1, <3>5
      <4> QED BY <1>8, <4>2, <4>3
    <3> QED BY <3>2, <3>3, <3>4, <3>5
  <2>3. ASSUME NEW i \in 1..n, NEW j \in 1..n PROVE i = j \/ <<i, j>> \in R \/ <<j, i>> \in R
    <3>1. i = j \/ i > j \/ j > i OBVIOUS
    <3> QED BY <1>8, <3>1
  <2> QED BY <2>1, <2>2, <2>3 DEF IsOrder
<1>15. InLine(1..n, R, Arranged(1..n, R)) BY <1>4, <1>14, ArrangedIs
<1> QED BY <1>1, <1>7, <1>15 DEF Active, ByActivity

LEMMA ReportIsActive ==
  ASSUME NEW rows, IsUniverse(rows), NEW bias, case = [engine |-> "report", in |-> [rows |-> rows, bias |-> bias]]
  PROVE  ActivityFirst
<1>1. case.in.rows = rows OBVIOUS
<1>2. PICK r : r = Active(rows) OBVIOUS
<1>3. PICK n \in Nat : n = Len(rows) /\ DOMAIN rows = 1..n BY RowsAre
<1>4. PICK R : R = ByActivity(rows) OBVIOUS
<1>5. InLine(1..n, R, r) BY <1>2, <1>3, <1>4, ActiveOrders
<1>6. r \in Seq(1..n) BY <1>5 DEF InLine
<1>7. ASSUME NEW a \in DOMAIN r, NEW b \in DOMAIN r, a < b, Known(rows[r[b]].value)
      PROVE  rows[r[a]].value >= rows[r[b]].value
  <2>1. PICK i, j \in 1..n : i = r[a] /\ j = r[b] BY <1>6
  <2>2. a \in 1..Len(r) /\ b \in 1..Len(r) BY <1>6
  <2>3. <<i, j>> \in R BY <1>5, <1>7, <2>1, <2>2 DEF InLine
  <2>4. MoreActive(rows[i], rows[j]) \/ ~MoreActive(rows[j], rows[i])
    <3>1. PICK p : p = <<i, j>> /\ p[1] = i /\ p[2] = j
      <4>1. <<i, j>>[1] = i /\ <<i, j>>[2] = j OBVIOUS
      <4> QED BY <4>1
    <3>2. MoreActive(rows[p[1]], rows[p[2]]) \/ ~MoreActive(rows[p[2]], rows[p[1]])
      BY <1>4, <2>3, <3>1 DEF ByActivity
    <3> QED BY <3>1, <3>2
  <2>5. PICK x, y \in Int : x = rows[i].value /\ y = rows[j].value BY <1>3, RowsAre, PricesAre
  <2>6. x = y \/ Exceeds(x, y)
    <3>1. CASE Leads(rows[i], rows[j]) BY <2>5, <3>1 DEF Leads
    <3>2. CASE ~Leads(rows[j], rows[i])
      <4>1. ~Exceeds(y, x) BY <2>5, <3>2 DEF Leads
      <4> QED BY <4>1, OverIs
    <3> QED BY <2>4, <3>1, <3>2, MoreActiveIs
  <2>7. Known(y) BY <1>7, <2>1, <2>5
  <2>8. x >= y BY <2>6, <2>7, OverIs
  <2> QED BY <2>1, <2>5, <2>8
<1> QED BY <1>1, <1>2, <1>7 DEF ActivityFirst

-------------------------------------------------------------------------------
\* The rows are modelled one by one: what was answered of a share is kept, and there is one
\* answer of each.
Asked(m, row, answers) ==
  LET kept == {e \in m.kept : e.share = row.share}
      answer == [share |-> row.share, said |-> answers[m.asked + 1]]
  IN IF NA \in {row.underlying, row.strike, row.premium, row.days}
     THEN [m EXCEPT !.said = Append(@, "INSUFFICIENT_INPUT")]
     ELSE IF kept # {}
          THEN [m EXCEPT !.said = Append(@, (CHOOSE e \in kept : TRUE).said)]
          ELSE [said |-> Append(m.said, answer.said), asked |-> m.asked + 1, kept |-> m.kept \cup {answer}]

NothingAsked == [said |-> <<>>, asked |-> 0, kept |-> {}]

\* One answer of a share, and each that was given is one of those.
OneAnswer(m, rows, n) ==
  /\ \A e, f \in m.kept : e.share = f.share => e = f
  /\ \A i \in 1..n : m.said[i] = "INSUFFICIENT_INPUT" \/
                     \E e \in m.kept : e.share = rows[i].share /\ e.said = m.said[i]

\* What is said of a row, and what is kept: the values of an answer are of no matter.
Replies(answers) == {answers[k] : k \in Nat} \cup {"INSUFFICIENT_INPUT"}
Kept(rows, answers) == [share : {rows[k].share : k \in 1..Len(rows)}, said : Replies(answers)]
AskedStates(rows, answers) == [said : Seq(Replies(answers)), asked : Nat, kept : SUBSET Kept(rows, answers)]

LEMMA AskedKeeps ==
  ASSUME NEW rows, NEW answers, NEW m \in AskedStates(rows, answers), NEW n \in Nat, Len(m.said) = n,
         OneAnswer(m, rows, n), NEW t, t = Asked(m, rows[n + 1], answers)
  PROVE  Len(t.said) = n + 1 /\ OneAnswer(t, rows, n + 1)
<1>0. PICK V : V = Replies(answers) /\ "INSUFFICIENT_INPUT" \in V /\ \A k \in Nat : answers[k] \in V
  <2>1. "INSUFFICIENT_INPUT" \in Replies(answers) BY DEF Replies
  <2>2. \A k \in Nat : answers[k] \in Replies(answers) BY DEF Replies
  <2> QED BY <2>1, <2>2
<1>11. m.said \in Seq(V) /\ m.asked \in Nat /\ m.kept \in SUBSET Kept(rows, answers) BY <1>0 DEF AskedStates
<1>12. m = [said |-> m.said, asked |-> m.asked, kept |-> m.kept] BY DEF AskedStates
<1>13. \A e \in m.kept : e.said \in V BY <1>0, <1>11 DEF Kept
<1>1. PICK row : row = rows[n + 1] OBVIOUS
<1>2. PICK s \in Seq(V) : s = m.said BY <1>11
<1>3. PICK kept : kept = {e \in m.kept : e.share = row.share} OBVIOUS
<1>4. PICK next \in Nat : next = m.asked + 1 BY <1>11
<1>5. PICK answer : answer = [share |-> row.share, said |-> answers[next]] OBVIOUS
<1>6. \A x \in V : /\ Append(s, x) \in Seq(V) /\ Len(Append(s, x)) = n + 1
                   /\ Append(s, x)[n + 1] = x /\ \A i \in 1..n : Append(s, x)[i] = s[i]
  BY <1>2
<1>7. \A i \in 1..n + 1 : i \in 1..n \/ i = n + 1 OBVIOUS
<1>8. CASE NA \in {row.underlying, row.strike, row.premium, row.days}
  <2>1. PICK x \in V : x = "INSUFFICIENT_INPUT" BY <1>0
  <2>2. t = [said |-> Append(s, x), asked |-> m.asked, kept |-> m.kept]
    BY <1>1, <1>2, <1>8, <1>12, <2>1 DEF Asked
  <2>3. t.said = Append(s, x) /\ t.asked = m.asked /\ t.kept = m.kept BY <2>2
  <2>4. \A i \in 1..n + 1 : t.said[i] = "INSUFFICIENT_INPUT" \/
                            \E e \in t.kept : e.share = rows[i].share /\ e.said = t.said[i]
    <3> TAKE i \in 1..n + 1
    <3>1. CASE i \in 1..n BY <1>2, <1>6, <2>3, <3>1 DEF OneAnswer
    <3>2. CASE i = n + 1 BY <1>6, <2>1, <2>3, <3>2
    <3> QED BY <1>7, <3>1, <3>2
  <2>5. OneAnswer(t, rows, n + 1) BY <2>3, <2>4 DEF OneAnswer
  <2> QED BY <1>6, <2>3, <2>5
<1>9. CASE NA \notin {row.underlying, row.strike, row.premium, row.days} /\ kept # {}
  <2>1. PICK e : e = CHOOSE f \in kept : TRUE OBVIOUS
  <2>2. e \in kept BY <1>9, <2>1
  <2>3. e \in m.kept /\ e.share = row.share BY <1>3, <2>2
  <2>4. PICK x \in V : x = e.said BY <1>13, <2>3
  <2>5. t = [said |-> Append(s, x), asked |-> m.asked, kept |-> m.kept]
    BY <1>1, <1>2, <1>3, <1>9, <1>12, <2>1, <2>4 DEF Asked
  <2>6. t.said = Append(s, x) /\ t.asked = m.asked /\ t.kept = m.kept BY <2>5
  <2>7. \A i \in 1..n + 1 : t.said[i] = "INSUFFICIENT_INPUT" \/
                            \E f \in t.kept : f.share = rows[i].share /\ f.said = t.said[i]
    <3> TAKE i \in 1..n + 1
    <3>1. CASE i \in 1..n BY <1>2, <1>6, <2>6, <3>1 DEF OneAnswer
    <3>2. CASE i = n + 1 BY <1>1, <1>6, <2>3, <2>4, <2>6, <3>2
    <3> QED BY <1>7, <3>1, <3>2
  <2>8. OneAnswer(t, rows, n + 1) BY <2>6, <2>7 DEF OneAnswer
  <2> QED BY <1>6, <2>6, <2>8
<1>10. CASE NA \notin {row.underlying, row.strike, row.premium, row.days} /\ kept = {}
  <2>1. PICK x \in V : x = answers[next] BY <1>0
  <2>2. answer.said = x /\ answer.share = row.share BY <1>5, <2>1
  <2>3. t = [said |-> Append(s, x), asked |-> next, kept |-> m.kept \cup {answer}]
    BY <1>1, <1>2, <1>3, <1>4, <1>5, <1>10, <2>2 DEF Asked
  <2>4. t.said = Append(s, x) /\ t.asked = next /\ t.kept = m.kept \cup {answer} BY <2>3
  <2>5. \A e, f \in t.kept : e.share = f.share => e = f BY <1>3, <1>10, <2>2, <2>4 DEF OneAnswer
  <2>6. \A i \in 1..n + 1 : t.said[i] = "INSUFFICIENT_INPUT" \/
                            \E f \in t.kept : f.share = rows[i].share /\ f.said = t.said[i]
    <3> TAKE i \in 1..n + 1
    <3>1. CASE i \in 1..n BY <1>2, <1>6, <2>4, <3>1 DEF OneAnswer
    <3>2. CASE i = n + 1 BY <1>1, <1>6, <2>2, <2>4, <3>2
    <3> QED BY <1>7, <3>1, <3>2
  <2>7. OneAnswer(t, rows, n + 1) BY <2>5, <2>6 DEF OneAnswer
  <2> QED BY <1>6, <2>4, <2>7
<1> QED BY <1>8, <1>9, <1>10

LEMMA AskedStays ==
  ASSUME NEW rows, NEW answers, NEW m \in AskedStates(rows, answers), NEW n \in 1..Len(rows)
  PROVE  Asked(m, rows[n], answers) \in AskedStates(rows, answers)
<1>1. PICK V : V = Replies(answers) OBVIOUS
<1>2. PICK W : W = {rows[k].share : k \in 1..Len(rows)} OBVIOUS
<1>3. PICK K : K = [share : W, said : V] /\ K = Kept(rows, answers) BY <1>1, <1>2 DEF Kept
<1>4. PICK row : row = rows[n] OBVIOUS
<1>5. row.share \in W BY <1>2, <1>4
<1>6. PICK s \in Seq(V), next \in Nat, k \in SUBSET K : s = m.said /\ next = m.asked + 1 /\ k = m.kept
  <2>1. m.said \in Seq(V) /\ m.asked \in Nat /\ m.kept \in SUBSET K BY <1>1, <1>3 DEF AskedStates
  <2>2. m.asked + 1 \in Nat BY <2>1
  <2> QED BY <2>1, <2>2
<1>7. \A x \in V : Append(s, x) \in Seq(V) OBVIOUS
<1>8. \A x \in V, a \in Nat, q \in SUBSET K : [said |-> Append(s, x), asked |-> a, kept |-> q] \in AskedStates(rows, answers)
  <2> TAKE x \in V, a \in Nat, q \in SUBSET K
  <2>1. PICK u \in Seq(V) : u = Append(s, x) BY <1>7
  <2>2. [said |-> u, asked |-> a, kept |-> q] \in AskedStates(rows, answers) BY <1>1, <1>3 DEF AskedStates
  <2> QED BY <2>1, <2>2
<1>9. m.asked \in Nat BY DEF AskedStates
<1>10. m = [said |-> s, asked |-> m.asked, kept |-> k] BY <1>6 DEF AskedStates
<1>11. PICK t : t = Asked(m, row, answers) OBVIOUS
<1>12. PICK kept : kept = {e \in k : e.share = row.share} OBVIOUS
<1>13. CASE NA \in {row.underlying, row.strike, row.premium, row.days}
  <2>1. PICK x \in V : x = "INSUFFICIENT_INPUT" BY <1>1 DEF Replies
  <2>2. t = [said |-> Append(s, x), asked |-> m.asked, kept |-> k] BY <1>6, <1>10, <1>11, <1>13, <2>1 DEF Asked
  <2> QED BY <1>4, <1>8, <1>9, <1>11, <2>2
<1>14. CASE NA \notin {row.underlying, row.strike, row.premium, row.days} /\ kept # {}
  <2>1. PICK e : e = CHOOSE f \in kept : TRUE OBVIOUS
  <2>2. e \in K BY <1>12, <1>14, <2>1
  <2>3. PICK x \in V : x = e.said BY <1>3, <2>2
  <2>4. t = [said |-> Append(s, x), asked |-> m.asked, kept |-> k]
    BY <1>6, <1>10, <1>11, <1>12, <1>14, <2>1, <2>3 DEF Asked
  <2> QED BY <1>4, <1>8, <1>9, <1>11, <2>4
<1>15. CASE NA \notin {row.underlying, row.strike, row.premium, row.days} /\ kept = {}
  <2>1. PICK x \in V : x = answers[next] BY <1>1 DEF Replies
  <2>2. PICK answer : answer = [share |-> row.share, said |-> x] OBVIOUS
  <2>3. answer \in K BY <1>3, <1>5, <2>2
  <2>4. answer.said = x BY <2>2
  <2>5. k \cup {answer} \in SUBSET K BY <2>3
  <2>6. t = [said |-> Append(s, x), asked |-> next, kept |-> k \cup {answer}]
    BY <1>6, <1>11, <1>12, <1>15, <2>1, <2>2, <2>4 DEF Asked
  <2> QED BY <1>4, <1>8, <1>11, <2>5, <2>6
<1> QED BY <1>13, <1>14, <1>15

LEMMA ModelledIs ==
  ASSUME NEW rows, NEW last \in Nat, last = Len(rows), NEW answers
  PROVE  Modelled(rows, answers).said \in Seq(Replies(answers)) /\ OneAnswer(Modelled(rows, answers), rows, last)
<1> DEFINE Turn(f, n) == [i \in 0..n |-> IF i = 0 THEN NothingAsked ELSE Asked(f[i - 1], rows[i], answers)]
<1>1. Modelled(rows, answers) = LET f == CHOOSE f : f = Turn(f, last) IN f[last]
  BY DEF Modelled, Asked, NothingAsked
<1>2. PICK S : S = AskedStates(rows, answers) OBVIOUS
<1>3. PICK step : step = [n \in 1..last |-> [y \in S |-> Asked(y, rows[n], answers)]] OBVIOUS
<1>4. StaysIn(S, step, last)
  <2>1. ASSUME NEW n \in 1..last, NEW y \in S PROVE step[n][y] \in S
    <3>1. step[n][y] = Asked(y, rows[n], answers) BY <1>3
    <3> QED BY <1>2, <3>1, AskedStays
  <2> QED BY <2>1 DEF StaysIn
<1>5. PICK none \in S : none = NothingAsked
  <2>1. PICK V, K : V = Replies(answers) /\ K = Kept(rows, answers) OBVIOUS
  <2>2. PICK e \in Seq(V) : e = <<>>
    <3>1. <<>> \in Seq(V) OBVIOUS
    <3> QED BY <3>1
  <2>3. [said |-> e, asked |-> 0, kept |-> {}] \in S BY <1>2, <2>1 DEF AskedStates
  <2> QED BY <2>2, <2>3 DEF NothingAsked
<1>6. PICK f \in [0..last -> S] : Computes(f, none, step, last) BY <1>4, Folded
<1>7. \A n \in 1..last : f[n] = Asked(f[n - 1], rows[n], answers)
  <2> TAKE n \in 1..last
  <2>1. n - 1 \in 0..last /\ f[n - 1] \in S OBVIOUS
  <2> QED BY <1>3, <1>6, <2>1 DEF Computes
<1>8. f = Turn(f, last)
  <2>1. \A n \in 0..last : n # 0 => n \in 1..last OBVIOUS
  <2>2. \A n \in 0..last : f[n] = IF n = 0 THEN NothingAsked ELSE Asked(f[n - 1], rows[n], answers)
    BY <1>5, <1>6, <1>7, <2>1 DEF Computes
  <2>3. f = [n \in 0..last |-> f[n]] OBVIOUS
  <2> QED BY <2>2, <2>3
<1>9. PICK u : u = (CHOOSE h : h = Turn(h, last)) OBVIOUS
<1>10. u = Turn(u, last) BY <1>8, <1>9
<1>11. Modelled(rows, answers) = u[last] BY <1>1, <1>9
<1>12. u[0] = NothingAsked /\ \A n \in 1..last : u[n] = Asked(u[n - 1], rows[n], answers)
  <2>1. 0 \in 0..last /\ \A n \in 1..last : n \in 0..last /\ n # 0 OBVIOUS
  <2> QED BY <1>10, <2>1
<1> HIDE DEF Turn
<1> DEFINE P == {n \in 0..last : u[n] \in S /\ Len(u[n].said) = n /\ OneAnswer(u[n], rows, n)}
<1>13. 0 \in P
  <2>1. u[0].said = <<>> /\ u[0].kept = {} BY <1>12 DEF NothingAsked
  <2>2. Len(u[0].said) = 0 BY <2>1
  <2>3. OneAnswer(u[0], rows, 0) BY <2>1 DEF OneAnswer
  <2> QED BY <1>5, <1>12, <2>2, <2>3
<1>14. ASSUME NEW n \in 1..last, n - 1 \in P PROVE n \in P
  <2>1. PICK before \in Nat : before = n - 1 /\ n = before + 1 OBVIOUS
  <2>2. PICK m \in S : m = u[before] /\ Len(m.said) = before /\ OneAnswer(m, rows, before) BY <1>14, <2>1
  <2>3. m \in AskedStates(rows, answers) BY <1>2
  <2>8. PICK t : t = Asked(m, rows[before + 1], answers) OBVIOUS
  <2>9. t = u[n] BY <1>12, <2>1, <2>2, <2>8
  <2>10. Len(t.said) = before + 1 /\ OneAnswer(t, rows, before + 1)
    BY <2>2, <2>3, <2>8, AskedKeeps
  <2>11. t \in S BY <1>2, <2>1, <2>2, <2>8, AskedStays
  <2> QED BY <2>1, <2>9, <2>10, <2>11
<1>15. last \in 0..last /\ \A n \in P : u[n] \in S /\ OneAnswer(u[n], rows, n) OBVIOUS
<1> HIDE DEF P
<1>16. last \in P
  <2>1. \A n \in 1..last : n - 1 \in P => n \in P BY <1>14
  <2>2. \A n \in 0..last : n \in P BY <1>13, <2>1, UpTo
  <2> QED BY <2>2
<1>17. u[last] \in S /\ OneAnswer(u[last], rows, last) BY <1>15, <1>16
<1>18. u[last].said \in Seq(Replies(answers)) BY <1>2, <1>17 DEF AskedStates
<1> QED BY <1>11, <1>17, <1>18

LEMMA ReportHistory ==
  ASSUME NEW rows, IsUniverse(rows), NEW bias, case = [engine |-> "report", in |-> [rows |-> rows, bias |-> bias]]
  PROVE  OneHistory
<1>1. case.in.rows = rows OBVIOUS
<1>2. PICK n \in Nat : n = Len(rows) /\ DOMAIN rows = 1..n BY RowsAre
<1>3. ASSUME NEW answers, NEW m, m = Modelled(rows, answers), NEW i \in 1..n, NEW j \in 1..n,
             rows[i].share = rows[j].share, "INSUFFICIENT_INPUT" \notin {m.said[i], m.said[j]}
      PROVE  m.said[i] = m.said[j]
  <2>1. OneAnswer(m, rows, n) BY <1>2, <1>3, ModelledIs
  <2>2. PICK e \in m.kept : e.share = rows[i].share /\ e.said = m.said[i] BY <1>3, <2>1 DEF OneAnswer
  <2>3. PICK f \in m.kept : f.share = rows[j].share /\ f.said = m.said[j] BY <1>3, <2>1 DEF OneAnswer
  <2>4. e = f BY <1>3, <2>1, <2>2, <2>3 DEF OneAnswer
  <2> QED BY <2>2, <2>3, <2>4
<1> QED BY <1>1, <1>2, <1>3 DEF OneHistory

\* The report shows the best of the eligible rows, in their order, on one history of each
\* share (build_tsetmc_report): for any universe, any bias of the shares and any answers.
THEOREM ReportStaysInOrder == ReportSpec => []ReportIsInOrder
<1> DEFINE Called == case = NoCase \/ \E rows \in Boards, bias \in [Shares -> Findings] :
                       case = [engine |-> "report", in |-> [rows |-> rows, bias |-> bias]]
<1>1. CasesInit => Called BY DEF CasesInit
<1>2. Called /\ [ReportCalled]_case => Called' BY DEF ReportCalled, Given
<1>3. Called => ReportIsInOrder
  <2>1. CASE case = NoCase
    <3>1. case.engine # "report" BY <2>1 DEF NoCase
    <3> QED BY <3>1 DEF ReportIsInOrder, LargerBeginsWithSmaller, ShownAreEligible, BestArePooled,
                        OrderIsFinal, ActivityFirst, OneHistory
  <2>2. ASSUME NEW rows \in Boards, NEW bias \in [Shares -> Findings],
               case = [engine |-> "report", in |-> [rows |-> rows, bias |-> bias]]
        PROVE  ReportIsInOrder
    <3>1. IsUniverse(rows) BY ReportAssumption
    <3>2. LargerBeginsWithSmaller BY <2>2, <3>1, ReportPrefix
    <3>3. ShownAreEligible BY <2>2, <3>1, ReportShows
    <3>4. BestArePooled BY <2>2, <3>1, ReportPools
    <3>5. OrderIsFinal BY <2>2, <3>1, ReportOrders
    <3>6. ActivityFirst BY <2>2, <3>1, ReportIsActive
    <3>7. OneHistory BY <2>2, <3>1, ReportHistory
    <3> QED BY <3>2, <3>3, <3>4, <3>5, <3>6, <3>7 DEF ReportIsInOrder
  <2> QED BY <2>1, <2>2
<1> QED BY <1>1, <1>2, <1>3, PTL DEF ReportSpec

-------------------------------------------------------------------------------
\* A row not worse than another in the named features is as good in each block of theirs.
LEMMA NotWorseIn ==
  ASSUME NEW blocks, NEW features, NEW S, NEW names, NEW i \in S, NEW j \in S,
         \A k \in 1..Len(blocks) : TakenFrom(blocks[k], names),
         DOMAIN features[i] = names, NotWorse(features[i], features[j])
  PROVE  \A k \in 1..Len(blocks) : AsGoodIn(blocks[k].factors, features, S, i, j)
<1> TAKE k \in 1..Len(blocks)
<1>1. PICK t : t = blocks[k].factors OBVIOUS
<1>2. ASSUME NEW l \in 1..Len(t)
      PROVE  /\ i \in Having(t[l], features, S) <=> j \in Having(t[l], features, S)
             /\ AsGood(features[i][t[l].name], features[j][t[l].name], t[l].name)
  <2>1. PICK c : c = t[l].name OBVIOUS
  <2>2. c \in names BY <1>1, <2>1 DEF TakenFrom
  <2>3. (features[i][c] = NoFeature) = (features[j][c] = NoFeature) /\ AsGood(features[i][c], features[j][c], c)
    BY <2>2 DEF NotWorse
  <2>4. (features[i][c] = NoFeature) <=> (features[j][c] = NoFeature) BY <2>3
  <2>5. i \in Having(t[l], features, S) <=> features[i][c] # NoFeature BY <2>1 DEF Having
  <2>6. j \in Having(t[l], features, S) <=> features[j][c] # NoFeature BY <2>1 DEF Having
  <2> QED BY <2>1, <2>3, <2>4, <2>5, <2>6
<1> QED BY <1>1, <1>2 DEF AsGoodIn

LEMMA RankingDominates ==
  ASSUME NEW rows, IsUniverse(rows), case = [engine |-> "ranking", in |-> rows]
  PROVE  DominanceIsRanked
<1>1. case.in = rows OBVIOUS
<1>2. PICK all : all = DOMAIN rows OBVIOUS
<1>3. CanRank(all) /\ IsBlocks(EconomicBlocks, EconomicOf(rows), all) /\ IsBlocks(EvidenceBlocks, EvidenceOf(rows), all)
  BY <1>2, PlacesRank, UniverseRanks
<1>4. ASSUME NEW c \in EconomicNames PROVE AllRatios(EconomicOf(rows), all, c)
  <2>1. ASSUME NEW j \in all PROVE IsRatio(EconomicOf(rows)[j][c])
    <3>1. j \in DOMAIN rows /\ rows[j] \in ListedRow BY <1>2, RowsAre
    <3>2. EconomicOf(rows)[j] = EconomicFeatures(rows[j]) BY <3>1, FeaturesAt
    <3>3. IsRatio(EconomicFeatures(rows[j])[c]) BY <3>1, EconomicAre
    <3> QED BY <3>2, <3>3
  <2> QED BY <2>1 DEF AllRatios
<1>5. ASSUME NEW c \in EvidenceNames PROVE AllRatios(EvidenceOf(rows), all, c)
  <2>1. ASSUME NEW j \in all PROVE IsRatio(EvidenceOf(rows)[j][c])
    <3>1. j \in DOMAIN rows /\ rows[j] \in ListedRow BY <1>2, RowsAre
    <3>2. EvidenceOf(rows)[j] = EvidenceFeatures(rows[j]) BY <3>1, FeaturesAt
    <3>3. IsRatio(EvidenceFeatures(rows[j])[c]) BY <3>1, EvidenceAre
    <3> QED BY <3>2, <3>3
  <2> QED BY <2>1 DEF AllRatios
<1>6. ASSUME NEW i \in all, NEW j \in all, NotWorse(EconomicOf(rows)[i], EconomicOf(rows)[j])
      PROVE  ~Beats(EconomicScores(rows, all)[j], EconomicScores(rows, all)[i])
  <2>1. PICK b, f : b = EconomicBlocks /\ f = EconomicOf(rows) OBVIOUS
  <2>2. \A k \in 1..Len(b) : TakenFrom(b[k], EconomicNames) BY <1>3, <1>4, <2>1, EconomicBlocksAre
  <2>3. DOMAIN f[i] = EconomicNames
    <3>1. rows[i] \in ListedRow /\ i \in DOMAIN rows BY <1>2, RowsAre
    <3> QED BY <2>1, <3>1, FeaturesAt, EconomicAre
  <2>4. \A k \in 1..Len(b) : AsGoodIn(b[k].factors, f, all, i, j) BY <1>6, <2>1, <2>2, <2>3, NotWorseIn
  <2>5. Score(b, f, all, j) <= Score(b, f, all, i) BY <1>3, <2>1, <2>4, ScoreRises
  <2>6. PICK s : s = EconomicScores(rows, all) OBVIOUS
  <2>7. s[i] = Score(b, f, all, i) /\ s[j] = Score(b, f, all, j) BY <1>2, <2>1, <2>6, EconomicScoresAre
  <2>8. s[i] \in (0..Grain) \cup {NA} /\ s[j] \in (0..Grain) \cup {NA} BY <1>2, <2>6, EconomicScoresAre
  <2>9. s[i] \in Int /\ s[j] \in Int BY <2>8, UniversesAssumption DEF NA
  <2> QED BY <2>5, <2>6, <2>7, <2>9 DEF Beats
<1>7. ASSUME NEW i \in all, NEW j \in all, NotWorse(EvidenceOf(rows)[i], EvidenceOf(rows)[j])
      PROVE  ~Beats(EvidenceScores(rows, all)[j], EvidenceScores(rows, all)[i])
  <2>1. PICK b, f : b = EvidenceBlocks /\ f = EvidenceOf(rows) OBVIOUS
  <2>2. \A k \in 1..Len(b) : TakenFrom(b[k], EvidenceNames) BY <1>3, <1>5, <2>1, EvidenceBlocksAre
  <2>3. DOMAIN f[i] = EvidenceNames
    <3>1. rows[i] \in ListedRow /\ i \in DOMAIN rows BY <1>2, RowsAre
    <3> QED BY <2>1, <3>1, FeaturesAt, EvidenceAre
  <2>4. \A k \in 1..Len(b) : AsGoodIn(b[k].factors, f, all, i, j) BY <1>7, <2>1, <2>2, <2>3, NotWorseIn
  <2>5. Score(b, f, all, j) <= Score(b, f, all, i) BY <1>3, <2>1, <2>4, ScoreRises
  <2>6. PICK s : s = EvidenceScores(rows, all) OBVIOUS
  <2>7. s[i] = Score(b, f, all, i) /\ s[j] = Score(b, f, all, j) BY <1>2, <2>1, <2>6, EvidenceScoresAre
  <2>8. Score(b, f, all, i) \in (0..Grain) \cup {NA} /\ Score(b, f, all, j) \in (0..Grain) \cup {NA}
    BY <1>3, <2>1, ScoreInGrain
  <2>9. s[i] \in Int /\ s[j] \in Int BY <2>7, <2>8, UniversesAssumption DEF NA
  <2> QED BY <2>5, <2>6, <2>7, <2>9 DEF Beats
<1> QED BY <1>1, <1>2, <1>6, <1>7 DEF DominanceIsRanked, EconomicOf, EvidenceOf

\* The best of all that have a feature, by the directions of the factors.
BestOfAll(features, all, i) ==
  \A c \in DOMAIN features[i] :
    i \in {j \in all : features[j][c] # NoFeature} =>
      \A j \in {k \in all : features[k][c] # NoFeature} \ {i} :
        AsGood(features[i][c], features[j][c], c)
        /\ (c \notin HigherIsBetter => ~AsGood(features[j][c], features[i][c], c))

LEMMA BestInAll ==
  ASSUME NEW blocks, NEW features, NEW S, NEW names, NEW i \in S,
         \A k \in 1..Len(blocks) : TakenFrom(blocks[k], names),
         DOMAIN features[i] = names, BestOfAll(features, S, i)
  PROVE  \A k \in 1..Len(blocks) : \A l \in 1..Len(blocks[k].factors) :
           i \in Having(blocks[k].factors[l], features, S) => BestIn(blocks[k].factors[l], features, S, i)
<1> TAKE k \in 1..Len(blocks)
<1> TAKE l \in 1..Len(blocks[k].factors)
<1> HAVE i \in Having(blocks[k].factors[l], features, S)
<1>1. PICK f : f = blocks[k].factors[l] OBVIOUS
<1>2. PICK c : c = f.name OBVIOUS
<1>3. c \in names BY <1>1, <1>2 DEF TakenFrom
<1>4. Having(f, features, S) = {j \in S : features[j][c] # NoFeature} BY <1>2 DEF Having
<1>5. \A j \in Having(f, features, S) \ {i} :
        AsGood(features[i][c], features[j][c], c)
        /\ (c \notin HigherIsBetter => ~AsGood(features[j][c], features[i][c], c))
  BY <1>1, <1>3, <1>4 DEF BestOfAll
<1> QED BY <1>1, <1>2, <1>5 DEF BestIn

LEMMA RankingMisses ==
  ASSUME NEW rows, IsUniverse(rows), case = [engine |-> "ranking", in |-> rows]
  PROVE  MissingIsNoZero
<1>1. case.in = rows OBVIOUS
<1>2. PICK all : all = DOMAIN rows OBVIOUS
<1>3. PICK b, f : b = EconomicBlocks /\ f = EconomicOf(rows) OBVIOUS
<1>4. CanRank(all) /\ IsBlocks(b, f, all) BY <1>2, <1>3, PlacesRank, UniverseRanks
<1>5. ASSUME NEW c \in EconomicNames PROVE AllRatios(f, all, c)
  <2>1. ASSUME NEW j \in all PROVE IsRatio(f[j][c])
    <3>1. j \in DOMAIN rows /\ rows[j] \in ListedRow BY <1>2, RowsAre
    <3>2. f[j] = EconomicFeatures(rows[j]) BY <1>3, <3>1, FeaturesAt
    <3>3. IsRatio(EconomicFeatures(rows[j])[c]) BY <3>1, EconomicAre
    <3> QED BY <3>2, <3>3
  <2> QED BY <2>1 DEF AllRatios
<1>6. \A k \in 1..Len(b) : TakenFrom(b[k], EconomicNames) BY <1>3, <1>4, <1>5, EconomicBlocksAre
<1>7. PICK s : s = EconomicScores(rows, all) OBVIOUS
<1>8. ASSUME NEW i \in all, Known(s[i]) PROVE s[i] \in 0..Grain
  <2>1. s[i] \in (0..Grain) \cup {NA} BY <1>2, <1>7, EconomicScoresAre
  <2> QED BY <1>8, <2>1 DEF Known
<1>9. ASSUME NEW i \in all, Known(s[i]), BestOfAll(f, all, i) PROVE s[i] = Grain
  <2>1. DOMAIN f[i] = EconomicNames
    <3>1. rows[i] \in ListedRow /\ i \in DOMAIN rows BY <1>2, RowsAre
    <3> QED BY <1>3, <3>1, FeaturesAt, EconomicAre
  <2>2. s[i] = Score(b, f, all, i) BY <1>2, <1>3, <1>7, EconomicScoresAre
  <2>3. HasScore(b, f, all, i) BY <1>4, <1>9, <2>2, ScoreInGrain DEF Known
  <2>4. \A k \in 1..Len(b) : \A l \in 1..Len(b[k].factors) :
          i \in Having(b[k].factors[l], f, all) => BestIn(b[k].factors[l], f, all, i)
    BY <1>6, <1>9, <2>1, BestInAll
  <2> QED BY <1>4, <2>2, <2>3, <2>4, ScoreBest
<1> QED BY <1>1, <1>2, <1>3, <1>7, <1>8, <1>9 DEF MissingIsNoZero, EconomicOf, BestOfAll

-------------------------------------------------------------------------------
\* The pairs of calls: what is formed costs something and can gain something.
IsBoard(board) ==
  /\ board \in Seq(CallRow)
  /\ \A i, j \in DOMAIN board : board[i].id = board[j].id => i = j

IsPairing(s) ==
  /\ s.lower \in Nat /\ s.higher \in Nat /\ s.debit \in Nat \ {0} /\ s.lower + s.debit < s.higher
  /\ s.max_loss = s.debit /\ s.max_profit = s.higher - s.lower - s.debit /\ s.breakeven = s.lower + s.debit
  /\ s.liquidity \in Int

LEMMA LegIs ==
  ASSUME NEW row \in CallRow
  PROVE  LegLiquidity(row) \in Int
<1>1. PICK s : s = LiquidityFields(row) OBVIOUS
<1>2. s \in Seq(Int) /\ Len(s) = 3 /\ DOMAIN s = 1..3
  <2>1. row.value \in Int /\ row.interest \in Int /\ NA \in Int BY DEF CallRow, NA
  <2> QED BY <1>1, <2>1 DEF LiquidityFields
<1>3. PICK g : g = [k \in 1..3 |-> IF Observed(s[k]) THEN s[k] ELSE 0] OBVIOUS
<1>4. g \in [1..3 -> Int]
  <2>1. row.value \in Int /\ row.interest \in Int /\ NA \in Int BY DEF CallRow, NA
  <2>2. s[1] \in Int /\ s[2] \in Int /\ s[3] \in Int BY <1>1, <2>1 DEF LiquidityFields
  <2>3. \A k \in 1..3 : s[k] \in Int
    <3> TAKE k \in 1..3
    <3>1. k = 1 \/ k = 2 \/ k = 3 OBVIOUS
    <3> QED BY <2>2, <3>1
  <2> QED BY <1>3, <2>3
<1>5. g \o <<>> = g /\ g \o <<>> \in Seq(Int)
  <2>1. PICK n \in Nat : n = 3 OBVIOUS
  <2>2. g \in [1..n -> Int] BY <1>4, <2>1
  <2> QED BY <2>2, FunctionIsSeq
<1>6. LegLiquidity(row) = Total(g) BY <1>1, <1>2, <1>3, <1>5 DEF LegLiquidity, Each
<1> QED BY <1>5, <1>6, TotalIs

LEMMA PairIs ==
  ASSUME NEW long \in CallRow, NEW short \in CallRow, Forms(long, short)
  PROVE  IsPairing(SpreadOf(long, short))
<1>1. PICK k, h \in Nat : k = long.strike /\ h = short.strike BY DEF Forms, CallRow
<1>2. PICK a, b \in Int : a = long.last /\ b = short.last BY DEF CallRow
<1>3. a > b /\ h - k > a - b BY <1>1, <1>2 DEF Forms
<1>4. PICK l \in Int : l = Min({LegLiquidity(long), LegLiquidity(short)}) BY LegIs, SmallerOf
<1>5. PICK s : s = SpreadOf(long, short) OBVIOUS
<1>6. /\ s.lower = k /\ s.higher = h /\ s.debit = a - b /\ s.max_loss = a - b /\ s.max_profit = h - k - (a - b)
      /\ s.breakeven = k + (a - b) /\ s.liquidity = l
  BY <1>1, <1>2, <1>4, <1>5 DEF SpreadOf
<1>7. a - b \in Nat \ {0} /\ k + (a - b) < h BY <1>1, <1>2, <1>3
<1> QED BY <1>1, <1>4, <1>5, <1>6, <1>7 DEF IsPairing

-------------------------------------------------------------------------------
LEMMA LargerThanZero ==
  ASSUME NEW x \in Int
  PROVE  Max({x, 0}) = IF x > 0 THEN x ELSE 0
<1>1. PICK m : m = Max({x, 0}) OBVIOUS
<1>2. PICK n \in Int : n = IF x > 0 THEN x ELSE 0
  <2>1. CASE x > 0 BY <2>1
  <2>2. CASE ~(x > 0) BY <2>2
  <2> QED BY <2>1, <2>2
<1>3. n \in {x, 0} /\ \A z \in {x, 0} : n >= z BY <1>2
<1>4. m = CHOOSE a \in {x, 0} : \A b \in {x, 0} : a >= b BY <1>1 DEF Max
<1>5. m \in {x, 0} /\ \A b \in {x, 0} : m >= b BY <1>3, <1>4
<1>6. m <= n /\ n <= m /\ m \in Int BY <1>3, <1>5
<1> QED BY <1>1, <1>2, <1>6

LEMMA PayIs ==
  ASSUME NEW s, IsPairing(s), NEW x \in Int
  PROVE  PayoffAt(s, x) = IF x <= s.lower THEN -s.debit
                          ELSE IF x <= s.higher THEN x - s.lower - s.debit ELSE s.higher - s.lower - s.debit
<1>1. PICK l, h, d \in Nat : l = s.lower /\ h = s.higher /\ d = s.debit /\ l + d < h /\ d > 0 BY DEF IsPairing
<1>2. PICK a \in Int : a = Max({x - l, 0}) /\ a = (IF x - l > 0 THEN x - l ELSE 0)
  <2>1. PICK y \in Int : y = x - l OBVIOUS
  <2>2. Max({y, 0}) = IF y > 0 THEN y ELSE 0 BY LargerThanZero
  <2>3. (IF y > 0 THEN y ELSE 0) \in Int
    <3>1. CASE y > 0 BY <3>1
    <3>2. CASE ~(y > 0) BY <3>2
    <3> QED BY <3>1, <3>2
  <2> QED BY <2>1, <2>2, <2>3
<1>3. PICK b \in Int : b = Max({x - h, 0}) /\ b = (IF x - h > 0 THEN x - h ELSE 0)
  <2>1. PICK y \in Int : y = x - h OBVIOUS
  <2>2. Max({y, 0}) = IF y > 0 THEN y ELSE 0 BY LargerThanZero
  <2>3. (IF y > 0 THEN y ELSE 0) \in Int
    <3>1. CASE y > 0 BY <3>1
    <3>2. CASE ~(y > 0) BY <3>2
    <3> QED BY <3>1, <3>2
  <2> QED BY <2>1, <2>2, <2>3
<1>4. PayoffAt(s, x) = a - b - d BY <1>1, <1>2, <1>3 DEF PayoffAt
<1>5. CASE x <= l
  <2>1. a = 0 /\ b = 0 BY <1>1, <1>2, <1>3, <1>5
  <2> QED BY <1>1, <1>4, <1>5, <2>1
<1>6. CASE ~(x <= l) /\ x <= h
  <2>1. a = x - l /\ b = 0 BY <1>1, <1>2, <1>3, <1>6
  <2> QED BY <1>1, <1>4, <1>6, <2>1
<1>7. CASE ~(x <= l) /\ ~(x <= h)
  <2>0. x - l > 0 /\ x - h > 0 BY <1>1, <1>7
  <2>1. a = x - l /\ b = x - h BY <1>2, <1>3, <2>0
  <2>2. a - b - d = h - l - d BY <2>1
  <2> QED BY <1>1, <1>4, <1>7, <2>2
<1> QED BY <1>5, <1>6, <1>7

LEMMA ExtremesAre ==
  ASSUME NEW P \in SUBSET Int, NEW least \in P, NEW most \in P, \A y \in P : least <= y /\ y <= most
  PROVE  Min(P) = least /\ Max(P) = most
<1>1. PICK a : a = Min(P) OBVIOUS
<1>2. a \in P /\ \A y \in P : a <= y BY <1>1 DEF Min
<1>3. PICK b : b = Max(P) OBVIOUS
<1>4. b \in P /\ \A y \in P : b >= y BY <1>3 DEF Max
<1>5. a \in Int /\ b \in Int /\ a <= least /\ least <= a /\ b <= most /\ most <= b BY <1>2, <1>4
<1> QED BY <1>1, <1>3, <1>5

LEMMA PairPays ==
  ASSUME NEW s, IsPairing(s)
  PROVE  /\ Min({PayoffAt(s, price) : price \in Prices(s)}) = -s.max_loss
         /\ Max({PayoffAt(s, price) : price \in Prices(s)}) = s.max_profit
         /\ {price \in Prices(s) : PayoffAt(s, price) = 0} = {s.breakeven}
<1>1. PICK l, h, d \in Nat : l = s.lower /\ h = s.higher /\ d = s.debit /\ l + d < h /\ d > 0 BY DEF IsPairing
<1>2. -s.max_loss = -d /\ s.max_profit = h - l - d /\ s.breakeven = l + d BY <1>1 DEF IsPairing
<1>3. Prices(s) = 0..(h + d) BY <1>1 DEF Prices
<1>4. PICK f : f = [x \in 0..(h + d) |-> PayoffAt(s, x)] OBVIOUS
<1>5. \A x \in 0..(h + d) : f[x] = IF x <= l THEN -d ELSE IF x <= h THEN x - l - d ELSE h - l - d
  BY <1>1, <1>4, PayIs
<1>6. \A x \in 0..(h + d) : /\ f[x] \in Int /\ -d <= f[x] /\ f[x] <= h - l - d
                            /\ f[x] = 0 <=> x = l + d
  <2> TAKE x \in 0..(h + d)
  <2>1. CASE x <= l BY <1>1, <1>5, <2>1
  <2>2. CASE ~(x <= l) /\ x <= h BY <1>1, <1>5, <2>2
  <2>3. CASE ~(x <= l) /\ ~(x <= h) BY <1>1, <1>5, <2>3
  <2> QED BY <2>1, <2>2, <2>3
<1>7. PICK P : P = {f[x] : x \in 0..(h + d)} OBVIOUS
<1>8. P = {PayoffAt(s, price) : price \in Prices(s)} BY <1>3, <1>4, <1>7
<1>9. -d \in P
  <2>1. 0 \in 0..(h + d) /\ 0 <= l BY <1>1
  <2>2. f[0] = -d BY <1>5, <2>1
  <2> QED BY <1>7, <2>1, <2>2
<1>10. h - l - d \in P
  <2>1. h \in 0..(h + d) /\ ~(h <= l) /\ h <= h BY <1>1
  <2>2. f[h] = h - l - d BY <1>5, <2>1
  <2> QED BY <1>7, <2>1, <2>2
<1>11. P \in SUBSET Int /\ \A y \in P : -d <= y /\ y <= h - l - d BY <1>6, <1>7
<1>12. Min(P) = -d /\ Max(P) = h - l - d
  <2>1. PICK least, most \in P : least = -d /\ most = h - l - d BY <1>9, <1>10
  <2>2. \A y \in P : least <= y /\ y <= most BY <1>11, <2>1
  <2>3. Min(P) = least /\ Max(P) = most BY <1>11, <2>2, ExtremesAre
  <2> QED BY <2>1, <2>3
<1>13. l + d \in 0..(h + d) BY <1>1
<1>14. {price \in Prices(s) : PayoffAt(s, price) = 0} = {l + d} BY <1>3, <1>4, <1>6, <1>13
<1> QED BY <1>2, <1>8, <1>12, <1>14

-------------------------------------------------------------------------------
\* What a pair may gain for what it may lose.
Gaining(s) == <<s.max_profit, s.max_loss>>
AtLeast(s, t) == ~Better(t, s)

LEMMA AtLeastIs ==
  ASSUME NEW s, NEW t, IsPairing(s), IsPairing(t)
  PROVE  /\ IsRatio(Gaining(s)) /\ IsRatio(Gaining(t))
         /\ AtLeast(s, t) <=> /\ Within(Gaining(t), Gaining(s))
                              /\ Within(Gaining(s), Gaining(t)) => s.liquidity >= t.liquidity
<1>1. PICK a, b, c, d, l, m \in Int : /\ a = s.max_profit /\ b = s.max_loss /\ b > 0 /\ l = s.liquidity
                                      /\ c = t.max_profit /\ d = t.max_loss /\ d > 0 /\ m = t.liquidity
  <2>1. s.max_profit \in Int /\ s.max_loss \in Int /\ s.max_loss > 0 /\ s.liquidity \in Int BY DEF IsPairing
  <2>2. t.max_profit \in Int /\ t.max_loss \in Int /\ t.max_loss > 0 /\ t.liquidity \in Int BY DEF IsPairing
  <2> QED BY <2>1, <2>2
<1>2. PICK x, y : x = Gaining(s) /\ y = Gaining(t) OBVIOUS
<1>3. x[1] = a /\ x[2] = b /\ y[1] = c /\ y[2] = d BY <1>1, <1>2 DEF Gaining
<1>4. IsRatio(x) /\ IsRatio(y) BY <1>1, <1>3 DEF IsRatio
<1>5. PICK g, h \in Int : g = a * d /\ h = c * b OBVIOUS
<1>6. Within(x, y) <=> g <= h BY <1>3, <1>5 DEF Within
<1>7. Within(y, x) <=> h <= g BY <1>3, <1>5 DEF Within
<1>8. Better(t, s) <=> (h > g \/ (h = g /\ m > l)) BY <1>1, <1>5 DEF Better
<1> QED BY <1>1, <1>2, <1>4, <1>6, <1>7, <1>8 DEF AtLeast

LEMMA AtLeastOrders ==
  ASSUME NEW s, NEW t, NEW u, IsPairing(s), IsPairing(t), IsPairing(u)
  PROVE  /\ AtLeast(s, s)
         /\ AtLeast(s, t) \/ AtLeast(t, s)
         /\ AtLeast(s, t) /\ AtLeast(t, u) => AtLeast(s, u)
<1>1. PICK x, y, z : x = Gaining(s) /\ y = Gaining(t) /\ z = Gaining(u) OBVIOUS
<1>2. IsRatio(x) /\ IsRatio(y) /\ IsRatio(z) BY <1>1, AtLeastIs
<1>3. PICK l, m, n \in Int : l = s.liquidity /\ m = t.liquidity /\ n = u.liquidity BY DEF IsPairing
<1>4. AtLeast(s, s) <=> (Within(x, x) /\ (Within(x, x) => l >= l)) BY <1>1, <1>3, AtLeastIs
<1>5. AtLeast(s, t) <=> (Within(y, x) /\ (Within(x, y) => l >= m)) BY <1>1, <1>3, AtLeastIs
<1>6. AtLeast(t, s) <=> (Within(x, y) /\ (Within(y, x) => m >= l)) BY <1>1, <1>3, AtLeastIs
<1>7. AtLeast(t, u) <=> (Within(z, y) /\ (Within(y, z) => m >= n)) BY <1>1, <1>3, AtLeastIs
<1>8. AtLeast(s, u) <=> (Within(z, x) /\ (Within(x, z) => l >= n)) BY <1>1, <1>3, AtLeastIs
<1>9. AtLeast(s, s) BY <1>2, <1>4, WithinIs
<1>10. AtLeast(s, t) \/ AtLeast(t, s)
  <2>1. Within(x, y) \/ Within(y, x) BY <1>2, WithinIs
  <2> QED BY <1>5, <1>6, <2>1
<1>11. ASSUME AtLeast(s, t), AtLeast(t, u) PROVE AtLeast(s, u)
  <2>1. Within(z, x) BY <1>2, <1>5, <1>7, <1>11, WithinIs
  <2>2. ASSUME Within(x, z) PROVE l >= n
    <3>1. Within(x, y)
      <4>1. Within(z, y) BY <1>7, <1>11
      <4> QED BY <1>2, <2>2, <4>1, WithinIs
    <3>2. Within(y, z)
      <4>1. Within(y, x) BY <1>5, <1>11
      <4> QED BY <1>2, <2>2, <4>1, WithinIs
    <3> QED BY <1>5, <1>7, <1>11, <3>1, <3>2
  <2> QED BY <1>8, <2>1, <2>2
<1> QED BY <1>9, <1>10, <1>11

LEMMA OutdoesIsBetter ==
  ASSUME NEW s, NEW t, IsPairing(s), IsPairing(t), Outdoes(s, t)
  PROVE  ~AtLeast(t, s)
<1>1. PICK a, b, c, d, l, m \in Int : /\ a = s.max_profit /\ b = s.max_loss /\ b > 0 /\ l = s.liquidity /\ a > 0
                                      /\ c = t.max_profit /\ d = t.max_loss /\ d > 0 /\ m = t.liquidity /\ c > 0
  <2>1. s.max_profit \in Int /\ s.max_profit > 0 /\ s.max_loss \in Int /\ s.max_loss > 0 /\ s.liquidity \in Int
    BY DEF IsPairing
  <2>2. t.max_profit \in Int /\ t.max_profit > 0 /\ t.max_loss \in Int /\ t.max_loss > 0 /\ t.liquidity \in Int
    BY DEF IsPairing
  <2> QED BY <2>1, <2>2
<1>2. a >= c /\ b <= d /\ l >= m /\ (a > c \/ b < d \/ l > m) BY <1>1 DEF Outdoes
<1>3. PICK g, h, k \in Int : g = a * d /\ h = c * b /\ k = a * b OBVIOUS
<1>4. k <= g /\ h <= k
  <2>1. a * b <= a * d BY <1>1, <1>2, ProductRises
  <2>2. b * c <= b * a BY <1>1, <1>2, ProductRises
  <2>3. b * c = h /\ b * a = k BY <1>3
  <2> QED BY <1>3, <2>1, <2>2, <2>3
<1>5. a > c => h < k
  <2>1. HAVE a > c
  <2>2. b * (c + 1) <= b * a
    <3>1. c + 1 \in Int /\ c + 1 <= a BY <2>1
    <3> QED BY <1>1, <3>1, ProductRises
  <2>3. b * (c + 1) = h + b /\ b * a = k BY <1>3
  <2> QED BY <1>1, <2>2, <2>3
<1>6. b < d => k < g
  <2>1. HAVE b < d
  <2>2. a * (b + 1) <= a * d
    <3>1. b + 1 \in Int /\ b + 1 <= d BY <2>1
    <3> QED BY <1>1, <3>1, ProductRises
  <2>3. a * (b + 1) = k + a BY <1>3
  <2> QED BY <1>1, <1>3, <2>2, <2>3
<1>7. g > h \/ (g = h /\ l > m) BY <1>2, <1>4, <1>5, <1>6
<1>8. Better(s, t) <=> (g > h \/ (g = h /\ l > m)) BY <1>1, <1>3 DEF Better
<1> QED BY <1>7, <1>8 DEF AtLeast

-------------------------------------------------------------------------------
\* The pairs are told apart by the rows they are formed of.
LEMMA FormedFirstOrders ==
  ASSUME NEW n \in Nat, NEW p \in (1..n) \X (1..n), NEW q \in (1..n) \X (1..n), NEW r \in (1..n) \X (1..n)
  PROVE  /\ ~FormedFirst(p, p)
         /\ FormedFirst(p, q) /\ FormedFirst(q, r) => FormedFirst(p, r)
         /\ FormedFirst(p, q) \/ FormedFirst(q, p) \/ p = q \/ (p[1] = q[2] /\ p[2] = q[1])
<1>1. PICK f : f = [x \in (1..n) \X (1..n) |-> IF x[1] < x[2] THEN x[1] ELSE x[2]] OBVIOUS
<1>2. PICK s : s = [x \in (1..n) \X (1..n) |-> IF x[1] < x[2] THEN x[2] ELSE x[1]] OBVIOUS
<1>3. ASSUME NEW x \in (1..n) \X (1..n), NEW y \in (1..n) \X (1..n)
      PROVE  FormedFirst(x, y) <=> (f[x] < f[y] \/ (f[x] = f[y] /\ s[x] < s[y]))
  BY <1>1, <1>2 DEF FormedFirst
<1>4. \A x \in (1..n) \X (1..n) : f[x] \in Int /\ s[x] \in Int
  <2> TAKE x \in (1..n) \X (1..n)
  <2>1. x[1] \in Int /\ x[2] \in Int OBVIOUS
  <2>2. CASE x[1] < x[2] BY <1>1, <1>2, <2>1, <2>2
  <2>3. CASE ~(x[1] < x[2]) BY <1>1, <1>2, <2>1, <2>3
  <2> QED BY <2>2, <2>3
<1>5. PICK a, b, c, d, e, g \in Int : a = f[p] /\ b = s[p] /\ c = f[q] /\ d = s[q] /\ e = f[r] /\ g = s[r] BY <1>4
<1>6. ~FormedFirst(p, p) BY <1>3, <1>5
<1>7. FormedFirst(p, q) /\ FormedFirst(q, r) => FormedFirst(p, r) BY <1>3, <1>5
<1>8. a = c /\ b = d => p = q \/ (p[1] = q[2] /\ p[2] = q[1])
  <2>1. PICK i, j, k, l \in Int : i = p[1] /\ j = p[2] /\ k = q[1] /\ l = q[2] OBVIOUS
  <2>2. p = <<i, j>> /\ q = <<k, l>> BY <2>1
  <2>3. a = (IF i < j THEN i ELSE j) /\ b = (IF i < j THEN j ELSE i) BY <1>1, <1>2, <1>5, <2>1
  <2>4. c = (IF k < l THEN k ELSE l) /\ d = (IF k < l THEN l ELSE k) BY <1>1, <1>2, <1>5, <2>1
  <2>5. a = c /\ b = d => (i = k /\ j = l) \/ (i = l /\ j = k) BY <2>3, <2>4
  <2> QED BY <2>1, <2>2, <2>5
<1>9. a < c \/ c < a \/ (a = c /\ (b < d \/ d < b \/ b = d)) BY <1>5
<1> QED BY <1>3, <1>5, <1>6, <1>7, <1>8, <1>9

-------------------------------------------------------------------------------
\* The pairs that can be formed on a board, as the property finds them: by the rows.
EvidencedRows(board) == {row \in Range(board) : \E x \in {row.value, row.interest} : Observed(x)}
FormedOn(board) ==
  {SpreadOf(p[1], p[2]) : p \in {q \in EvidencedRows(board) \X EvidencedRows(board) : Forms(q[1], q[2])}}

LEMMA EvidencedIs ==
  ASSUME NEW row
  PROVE  Evidenced(row) <=> \E x \in {row.value, row.interest} : Observed(x)
<1>1. PICK s : s = LiquidityFields(row) OBVIOUS
<1>2. s = <<NA, row.value, row.interest>> BY <1>1 DEF LiquidityFields
<1>3. Range(s) = {NA, row.value, row.interest}
  <2>1. DOMAIN s = 1..3 /\ s[1] = NA /\ s[2] = row.value /\ s[3] = row.interest BY <1>2
  <2>2. Range(s) = {s[k] : k \in 1..3} BY <2>1 DEF Range
  <2>3. \A k \in 1..3 : k = 1 \/ k = 2 \/ k = 3 OBVIOUS
  <2>4. 1 \in 1..3 /\ 2 \in 1..3 /\ 3 \in 1..3 OBVIOUS
  <2> QED BY <2>1, <2>2, <2>3, <2>4
<1>4. ~Observed(NA) BY DEF Observed, Known
<1> QED BY <1>1, <1>3, <1>4 DEF Evidenced

LEMMA CandidatesAre ==
  ASSUME NEW board, IsBoard(board), NEW n, n = Len(board)
  PROVE  /\ n \in Nat /\ Candidates(board) \subseteq (1..n) \X (1..n) /\ IsFiniteSet(Candidates(board))
         /\ \A i \in 1..n : board[i] \in CallRow
         /\ \A p \in Candidates(board) : /\ Forms(board[p[1]], board[p[2]])
                                         /\ Evidenced(board[p[1]]) /\ Evidenced(board[p[2]])
         /\ \A i, j \in 1..n : Forms(board[i], board[j]) /\ Evidenced(board[i]) /\ Evidenced(board[j])
                               => <<i, j>> \in Candidates(board)
<1>1. n \in Nat /\ DOMAIN board = 1..n /\ \A i \in 1..n : board[i] \in CallRow BY DEF IsBoard
<1>2. PICK C : C = Candidates(board) OBVIOUS
<1>3. C = {p \in (1..n) \X (1..n) :
             Forms(board[p[1]], board[p[2]]) /\ Evidenced(board[p[1]]) /\ Evidenced(board[p[2]])}
  BY <1>1, <1>2 DEF Candidates
<1>4. IsFiniteSet((1..n) \X (1..n))
  <2>1. PICK one \in Int, many \in Int : one = 1 /\ many = n BY <1>1
  <2>2. IsFiniteSet(one..many) BY FS_Interval
  <2>3. IsFiniteSet(1..n) BY <2>1, <2>2
  <2> QED BY <2>3, FS_Product
<1>5. IsFiniteSet(C) BY <1>3, <1>4, FS_Subset
<1>6. ASSUME NEW i \in 1..n, NEW j \in 1..n, Forms(board[i], board[j]), Evidenced(board[i]), Evidenced(board[j])
      PROVE  <<i, j>> \in C
  <2>1. <<i, j>> \in (1..n) \X (1..n) /\ <<i, j>>[1] = i /\ <<i, j>>[2] = j OBVIOUS
  <2>2. PICK p \in (1..n) \X (1..n) : p = <<i, j>> /\ p[1] = i /\ p[2] = j BY <2>1
  <2> QED BY <1>3, <1>6, <2>2
<1> QED BY <1>1, <1>2, <1>3, <1>5, <1>6

LEMMA CandidatePairs ==
  ASSUME NEW board, IsBoard(board), NEW p \in Candidates(board), NEW q \in Candidates(board)
  PROVE  /\ IsPairing(SpreadAt(board, p))
         /\ SpreadAt(board, p) = SpreadAt(board, q) => p = q
         /\ ~(p[1] = q[2] /\ p[2] = q[1])
<1>1. PICK n : n = Len(board) OBVIOUS
<1>2. p \in (1..n) \X (1..n) /\ q \in (1..n) \X (1..n) BY <1>1, CandidatesAre
<1>3. PICK i, j, k, l \in 1..n : p[1] = i /\ p[2] = j /\ q[1] = k /\ q[2] = l /\ p = <<i, j>> /\ q = <<k, l>>
  BY <1>2
<1>4. board[i] \in CallRow /\ board[j] \in CallRow /\ board[k] \in CallRow /\ board[l] \in CallRow
  BY <1>1, <1>3, CandidatesAre
<1>5. Forms(board[i], board[j]) /\ Forms(board[k], board[l]) BY <1>1, <1>3, CandidatesAre
<1>6. IsPairing(SpreadAt(board, p)) BY <1>3, <1>4, <1>5, PairIs DEF SpreadAt
<1>7. ASSUME SpreadAt(board, p) = SpreadAt(board, q) PROVE p = q
  <2>1. PICK s, t : s = SpreadAt(board, p) /\ t = SpreadAt(board, q) OBVIOUS
  <2>2. s.long = board[i].id /\ s.short = board[j].id BY <1>3, <2>1 DEF SpreadAt, SpreadOf
  <2>3. t.long = board[k].id /\ t.short = board[l].id BY <1>3, <2>1 DEF SpreadAt, SpreadOf
  <2>4. board[i].id = board[k].id /\ board[j].id = board[l].id BY <1>7, <2>1, <2>2, <2>3
  <2>5. DOMAIN board = 1..n BY <1>1 DEF IsBoard
  <2>6. i = k /\ j = l BY <2>4, <2>5 DEF IsBoard
  <2> QED BY <1>3, <2>6
<1>8. ~(p[1] = q[2] /\ p[2] = q[1])
  <2> SUFFICES ASSUME i = l, j = k PROVE FALSE BY <1>3
  <2>1. board[i].strike < board[j].strike /\ board[j].strike < board[i].strike BY <1>5 DEF Forms
  <2>2. board[i].strike \in Int /\ board[j].strike \in Int BY <1>4 DEF CallRow, NA
  <2> QED BY <2>1, <2>2
<1> QED BY <1>6, <1>7, <1>8

-------------------------------------------------------------------------------
\* The better pair first, of equals the one that is formed first.
BetterFirst(board) ==
  {c \in Candidates(board) \X Candidates(board) :
     LET s == SpreadAt(board, c[1])
         t == SpreadAt(board, c[2])
     IN Better(s, t) \/ (~Better(t, s) /\ FormedFirst(c[1], c[2]))}

LEMMA BetterFirstIs ==
  ASSUME NEW board, NEW p \in Candidates(board), NEW q \in Candidates(board)
  PROVE  <<p, q>> \in BetterFirst(board) <=>
           \/ ~AtLeast(SpreadAt(board, q), SpreadAt(board, p))
           \/ AtLeast(SpreadAt(board, p), SpreadAt(board, q)) /\ FormedFirst(p, q)
<1>1. PICK C : C = Candidates(board) OBVIOUS
<1>2. <<p, q>> \in C \X C /\ <<p, q>>[1] = p /\ <<p, q>>[2] = q BY <1>1
<1>3. PICK c \in C \X C : c = <<p, q>> /\ c[1] = p /\ c[2] = q BY <1>2
<1>4. BetterFirst(board) =
        {b \in C \X C : \/ Better(SpreadAt(board, b[1]), SpreadAt(board, b[2]))
                        \/ ~Better(SpreadAt(board, b[2]), SpreadAt(board, b[1])) /\ FormedFirst(b[1], b[2])}
  BY <1>1 DEF BetterFirst
<1>5. c \in BetterFirst(board) <=>
        \/ Better(SpreadAt(board, c[1]), SpreadAt(board, c[2]))
        \/ ~Better(SpreadAt(board, c[2]), SpreadAt(board, c[1])) /\ FormedFirst(c[1], c[2])
  BY <1>4
<1> QED BY <1>3, <1>5 DEF AtLeast

LEMMA BetterFirstOrders ==
  ASSUME NEW board, IsBoard(board)
  PROVE  IsOrder(Candidates(board), BetterFirst(board))
<1>1. PICK C, R : C = Candidates(board) /\ R = BetterFirst(board) OBVIOUS
<1>2. PICK n : n = Len(board) OBVIOUS
<1>3. n \in Nat /\ C \subseteq (1..n) \X (1..n) BY <1>1, <1>2, CandidatesAre
<1>4. PICK v : v = [p \in C |-> SpreadAt(board, p)] OBVIOUS
<1>5. \A p \in C : IsPairing(v[p]) BY <1>1, <1>4, CandidatePairs
<1>6. \A p, q \in C : <<p, q>> \in R <=> (~AtLeast(v[q], v[p]) \/ (AtLeast(v[p], v[q]) /\ FormedFirst(p, q)))
  BY <1>1, <1>4, BetterFirstIs
<1>7. ASSUME NEW p \in C PROVE <<p, p>> \notin R
  <2>1. AtLeast(v[p], v[p]) BY <1>5, AtLeastOrders
  <2>2. ~FormedFirst(p, p) BY <1>3, FormedFirstOrders
  <2> QED BY <1>6, <2>1, <2>2
<1>8. ASSUME NEW p \in C, NEW q \in C, NEW r \in C, <<p, q>> \in R, <<q, r>> \in R PROVE <<p, r>> \in R
  <2>1. IsPairing(v[p]) /\ IsPairing(v[q]) /\ IsPairing(v[r]) BY <1>5
  <2>2. AtLeast(v[p], v[q])
    <3>1. AtLeast(v[p], v[q]) \/ AtLeast(v[q], v[p]) BY <2>1, AtLeastOrders
    <3> QED BY <1>6, <1>8, <3>1
  <2>3. AtLeast(v[q], v[r])
    <3>1. AtLeast(v[q], v[r]) \/ AtLeast(v[r], v[q]) BY <2>1, AtLeastOrders
    <3> QED BY <1>6, <1>8, <3>1
  <2>4. AtLeast(v[p], v[r]) BY <2>1, <2>2, <2>3, AtLeastOrders
  <2>5. CASE ~AtLeast(v[r], v[p]) BY <1>6, <2>5
  <2>6. CASE AtLeast(v[r], v[p])
    <3>1. AtLeast(v[q], v[p]) BY <2>1, <2>3, <2>6, AtLeastOrders
    <3>2. AtLeast(v[r], v[q]) BY <2>1, <2>2, <2>6, AtLeastOrders
    <3>3. FormedFirst(p, q) /\ FormedFirst(q, r) BY <1>6, <1>8, <3>1, <3>2
    <3>4. FormedFirst(p, r) BY <1>3, <3>3, FormedFirstOrders
    <3> QED BY <1>6, <2>4, <3>4
  <2> QED BY <2>5, <2>6
<1>9. ASSUME NEW p \in C, NEW q \in C PROVE p = q \/ <<p, q>> \in R \/ <<q, p>> \in R
  <2>1. FormedFirst(p, q) \/ FormedFirst(q, p) \/ p = q \/ (p[1] = q[2] /\ p[2] = q[1])
    BY <1>3, FormedFirstOrders
  <2>2. FormedFirst(p, q) \/ FormedFirst(q, p) \/ p = q BY <1>1, <2>1, CandidatePairs
  <2> QED BY <1>6, <2>2
<1> QED BY <1>1, <1>7, <1>8, <1>9 DEF IsOrder

-------------------------------------------------------------------------------
\* All the pairs, each once, the better ones first.
Lists(f, V, size) ==
  /\ f \in [1..size -> V]
  /\ \A s \in V : \E k \in 1..size : f[k] = s
  /\ \A k, l \in 1..size : f[k] = f[l] => k = l
  /\ \A k, l \in 1..size : k < l => AtLeast(f[k], f[l])

LEMMA FormedIs ==
  ASSUME NEW board, IsBoard(board)
  PROVE  FormedOn(board) = {SpreadAt(board, p) : p \in Candidates(board)}
<1>1. PICK n : n = Len(board) OBVIOUS
<1>2. n \in Nat /\ DOMAIN board = 1..n BY <1>1 DEF IsBoard
<1>3. ASSUME NEW p \in Candidates(board) PROVE SpreadAt(board, p) \in FormedOn(board)
  <2>1. PICK i, j \in 1..n : p[1] = i /\ p[2] = j BY <1>1, CandidatesAre
  <2>2. Forms(board[i], board[j]) /\ Evidenced(board[i]) /\ Evidenced(board[j]) BY <1>1, <2>1, CandidatesAre
  <2>3. PICK a, b : a = board[i] /\ b = board[j] OBVIOUS
  <2>4. a \in EvidencedRows(board) /\ b \in EvidencedRows(board)
    BY <1>2, <2>2, <2>3, EvidencedIs DEF EvidencedRows, Range
  <2>5. PICK X : X = EvidencedRows(board) OBVIOUS
  <2>6. <<a, b>> \in X \X X /\ <<a, b>>[1] = a /\ <<a, b>>[2] = b BY <2>4, <2>5
  <2>7. PICK q \in X \X X : q = <<a, b>> /\ q[1] = a /\ q[2] = b BY <2>6
  <2>8. Forms(q[1], q[2]) BY <2>2, <2>3, <2>7
  <2>9. SpreadOf(q[1], q[2]) \in FormedOn(board) BY <2>5, <2>7, <2>8 DEF FormedOn
  <2> QED BY <2>1, <2>3, <2>7, <2>9 DEF SpreadAt
<1>4. ASSUME NEW s \in FormedOn(board) PROVE \E p \in Candidates(board) : s = SpreadAt(board, p)
  <2>1. PICK X : X = EvidencedRows(board) OBVIOUS
  <2>2. PICK q \in X \X X : Forms(q[1], q[2]) /\ s = SpreadOf(q[1], q[2]) BY <2>1 DEF FormedOn
  <2>3. PICK a, b \in X : a = q[1] /\ b = q[2] OBVIOUS
  <2>4. PICK i \in 1..n : a = board[i] BY <1>2, <2>1, <2>3 DEF EvidencedRows, Range
  <2>5. PICK j \in 1..n : b = board[j] BY <1>2, <2>1, <2>3 DEF EvidencedRows, Range
  <2>6. Evidenced(a) /\ Evidenced(b) BY <2>1, <2>3, EvidencedIs DEF EvidencedRows
  <2>7. Forms(board[i], board[j]) BY <2>2, <2>3, <2>4, <2>5
  <2>8. <<i, j>> \in Candidates(board) BY <1>1, <2>4, <2>5, <2>6, <2>7, CandidatesAre
  <2>9. <<i, j>>[1] = i /\ <<i, j>>[2] = j OBVIOUS
  <2>10. PICK p \in Candidates(board) : p = <<i, j>> /\ p[1] = i /\ p[2] = j BY <2>8, <2>9
  <2>11. s = SpreadAt(board, p) BY <2>2, <2>3, <2>4, <2>5, <2>10 DEF SpreadAt
  <2> QED BY <2>11
<1> QED BY <1>3, <1>4

\* How many of the pairs are told.
ManyTold(size, top) == Min({size, Max({0, top})})

LEMMA ToldIs ==
  ASSUME NEW size \in Nat, NEW top \in Int
  PROVE  /\ Max({0, top}) \in Nat /\ ManyTold(size, top) \in Nat /\ ManyTold(size, top) <= size
         /\ ManyTold(size, top) = size \/ ManyTold(size, top) = Max({0, top})
<1>1. {0, top} = {top, 0} OBVIOUS
<1>2. Max({0, top}) = IF top > 0 THEN top ELSE 0 BY <1>1, LargerThanZero
<1>3. PICK m \in Nat : m = Max({0, top})
  <2>1. CASE top > 0 BY <1>2, <2>1
  <2>2. CASE ~(top > 0) BY <1>2, <2>2
  <2> QED BY <2>1, <2>2
<1>4. ManyTold(size, top) = IF m < size THEN m ELSE size BY <1>3, SmallerIs DEF ManyTold
<1>5. CASE m < size BY <1>3, <1>4, <1>5
<1>6. CASE ~(m < size) BY <1>3, <1>4, <1>6
<1> QED BY <1>5, <1>6

LEMMA RankedList ==
  ASSUME NEW board, IsBoard(board)
  PROVE  \E f, size : /\ size \in Nat /\ Lists(f, FormedOn(board), size)
                      /\ IsFiniteSet(FormedOn(board)) /\ Cardinality(FormedOn(board)) = size
                      /\ \A s \in FormedOn(board) : IsPairing(s)
                      /\ \A top \in Int : RankedSpreads(board, top) = [k \in 1..ManyTold(size, top) |-> f[k]] \o <<>>
<1>1. PICK C, R : C = Candidates(board) /\ R = BetterFirst(board) OBVIOUS
<1>2. IsFiniteSet(C) BY <1>1, CandidatesAre
<1>3. IsOrder(C, R) BY <1>1, BetterFirstOrders
<1>4. PICK order : order = Arranged(C, R) OBVIOUS
<1>5. InLine(C, R, order) BY <1>2, <1>3, <1>4, ArrangedIs
<1>6. PICK size \in Nat : size = Cardinality(C) BY <1>2, FS_CardinalityType
<1>7. order \in Seq(C) /\ Len(order) = size BY <1>5, <1>6 DEF InLine
<1>8. \A k \in 1..size : order[k] \in C BY <1>7
<1>9. PICK v : v = [p \in C |-> SpreadAt(board, p)] OBVIOUS
<1>10. PICK V : V = FormedOn(board) OBVIOUS
<1>11. V = {v[p] : p \in C} BY <1>1, <1>9, <1>10, FormedIs
<1>12. PICK f : f = [k \in 1..size |-> v[order[k]]] OBVIOUS
<1>13. Lists(f, V, size)
  <2>1. f \in [1..size -> V] BY <1>8, <1>11, <1>12
  <2>2. ASSUME NEW s \in V PROVE \E k \in 1..size : f[k] = s
    <3>1. PICK p \in C : s = v[p] BY <1>11
    <3>2. PICK k \in 1..size : order[k] = p BY <1>5, <1>7 DEF InLine
    <3> QED BY <1>12, <3>1, <3>2
  <2>3. ASSUME NEW k \in 1..size, NEW l \in 1..size, f[k] = f[l] PROVE k = l
    <3>1. v[order[k]] = v[order[l]] BY <1>12, <2>3
    <3>2. order[k] = order[l] BY <1>1, <1>8, <1>9, <3>1, CandidatePairs
    <3> QED BY <1>5, <1>7, <3>2 DEF InLine
  <2>4. ASSUME NEW k \in 1..size, NEW l \in 1..size, k < l PROVE AtLeast(f[k], f[l])
    <3>1. PICK p, q \in C : p = order[k] /\ q = order[l] BY <1>8
    <3>2. <<p, q>> \in R BY <1>5, <1>7, <2>4, <3>1 DEF InLine
    <3>3. ~AtLeast(v[q], v[p]) \/ AtLeast(v[p], v[q]) BY <1>1, <1>9, <3>2, BetterFirstIs
    <3>4. IsPairing(v[p]) /\ IsPairing(v[q]) BY <1>1, <1>9, CandidatePairs
    <3>5. AtLeast(v[p], v[q]) BY <3>3, <3>4, AtLeastOrders
    <3> QED BY <1>12, <3>1, <3>5
  <2> QED BY <2>1, <2>2, <2>3, <2>4 DEF Lists
<1>14. IsFiniteSet(V) /\ Cardinality(V) = size
  <2>1. \A p, q \in C : v[p] = v[q] => p = q BY <1>1, <1>9, CandidatePairs
  <2>2. v \in [C -> V] BY <1>9, <1>11
  <2>3. \A s \in V : \E p \in C : v[p] = s BY <1>11
  <2>4. v \in Bijection(C, V) BY <2>1, <2>2, <2>3 DEF Bijection, Injection, IsInjective, Surjection
  <2>5. ExistsBijection(C, V) BY <2>4 DEF ExistsBijection
  <2> QED BY <1>2, <1>6, <2>5, FS_Bijection
<1>15. \A s \in V : IsPairing(s)
  <2> TAKE s \in V
  <2>1. PICK p \in C : s = v[p] BY <1>11
  <2>2. IsPairing(SpreadAt(board, p)) BY <1>1, CandidatePairs
  <2> QED BY <1>9, <2>1, <2>2
<1>16. ASSUME NEW top \in Int
       PROVE  RankedSpreads(board, top) = [k \in 1..ManyTold(size, top) |-> f[k]] \o <<>>
  <2>1. RankedSpreads(board, top) = [k \in 1..ManyTold(size, top) |-> SpreadAt(board, order[k])] \o <<>>
    <3>1. R = {c \in C \X C : LET s == SpreadAt(board, c[1])
                                  t == SpreadAt(board, c[2])
                              IN Better(s, t) \/ (~Better(t, s) /\ FormedFirst(c[1], c[2]))}
      BY <1>1 DEF BetterFirst
    <3> QED BY <1>1, <1>4, <1>6, <3>1 DEF RankedSpreads, ManyTold
  <2>2. PICK m \in Nat : m = ManyTold(size, top) /\ m <= size BY ToldIs
  <2>3. \A k \in 1..m : k \in 1..size BY <2>2
  <2>4. \A k \in 1..m : SpreadAt(board, order[k]) = f[k] BY <1>8, <1>9, <1>12, <2>3
  <2>5. [k \in 1..m |-> SpreadAt(board, order[k])] = [k \in 1..m |-> f[k]] BY <2>4
  <2> QED BY <2>1, <2>2, <2>5
<1> QED BY <1>10, <1>13, <1>14, <1>15, <1>16

\* Two lists of the same pairs have equals at each place.
LEMMA ListsAgree ==
  ASSUME NEW V, IsFiniteSet(V), \A s \in V : IsPairing(s), NEW size \in Nat,
         NEW f, NEW g, Lists(f, V, size), Lists(g, V, size), NEW n \in 1..size
  PROVE  AtLeast(f[n], g[n])
<1> SUFFICES ASSUME ~AtLeast(f[n], g[n]) PROVE FALSE OBVIOUS
<1>1. f \in [1..size -> V] /\ g \in [1..size -> V] BY DEF Lists
<1>2. ASSUME NEW k \in 1..n PROVE \E l \in 1..(n - 1) : g[k] = f[l]
  <2>1. k \in 1..size /\ g[k] \in V BY <1>1
  <2>2. PICK l \in 1..size : f[l] = g[k] BY <2>1 DEF Lists
  <2>3. IsPairing(f[l]) /\ IsPairing(f[n]) /\ IsPairing(g[n]) BY <1>1
  <2>4. AtLeast(f[l], g[n])
    <3>1. CASE k = n BY <2>2, <2>3, <3>1, AtLeastOrders
    <3>2. CASE k < n BY <2>1, <2>2, <3>2 DEF Lists
    <3> QED BY <3>1, <3>2
  <2>5. ~(n <= l)
    <3> SUFFICES ASSUME n <= l PROVE FALSE OBVIOUS
    <3>1. AtLeast(f[n], f[l])
      <4>1. CASE n = l BY <2>3, <4>1, AtLeastOrders
      <4>2. CASE n < l BY <4>2 DEF Lists
      <4> QED BY <4>1, <4>2
    <3> QED BY <2>3, <2>4, <3>1, AtLeastOrders
  <2>6. l \in 1..(n - 1) BY <2>5
  <2> QED BY <2>2, <2>6
<1>3. PICK few \in Int, many \in Int, one \in Int : few = n - 1 /\ many = n /\ one = 1 OBVIOUS
<1>4. IsFiniteSet(one..few) /\ IsFiniteSet(one..many) BY FS_Interval
<1>5. Cardinality(1..(n - 1)) < Cardinality(1..n)
  <2>1. Cardinality(one..few) = (IF one > few THEN 0 ELSE few - one + 1) BY FS_Interval
  <2>2. Cardinality(one..many) = (IF one > many THEN 0 ELSE many - one + 1) BY FS_Interval
  <2>3. Cardinality(one..many) = n BY <1>3, <2>2
  <2>4. Cardinality(one..few) = n - 1
    <3>1. CASE one > few BY <1>3, <2>1, <3>1
    <3>2. CASE ~(one > few) BY <1>3, <2>1, <3>2
    <3> QED BY <3>1, <3>2
  <2> QED BY <1>3, <2>3, <2>4
<1>6. PICK h : h = [k \in 1..n |-> CHOOSE l \in 1..(n - 1) : g[k] = f[l]] OBVIOUS
<1>7. \A k \in 1..n : h[k] \in 1..(n - 1) /\ g[k] = f[h[k]] BY <1>2, <1>6
<1>8. PICK K, L : K = 1..n /\ L = 1..(n - 1) OBVIOUS
<1>9. h \in [K -> L] BY <1>6, <1>7, <1>8
<1>10. IsFiniteSet(K) /\ IsFiniteSet(L) /\ Cardinality(L) < Cardinality(K) BY <1>3, <1>4, <1>5, <1>8
<1>11. PICK k, l \in K : k # l /\ h[k] = h[l] BY <1>9, <1>10, FS_PigeonHole
<1>12. g[k] = g[l] /\ k \in 1..size /\ l \in 1..size BY <1>7, <1>8, <1>11
<1> QED BY <1>11, <1>12 DEF Lists

-------------------------------------------------------------------------------
\* A board that is turned has the same rows.
LEMMA TurnedBoard ==
  ASSUME NEW board, IsBoard(board)
  PROVE  IsBoard(Reverse(board)) /\ FormedOn(Reverse(board)) = FormedOn(board)
<1>1. PICK n \in Nat : n = Len(board) /\ DOMAIN board = 1..n /\ board \in [1..n -> CallRow] BY DEF IsBoard
<1>2. PICK t : t = [i \in 1..n |-> board[n - i + 1]] OBVIOUS
<1>3. Reverse(board) = t BY <1>1, <1>2 DEF Reverse
<1>4. \A i \in 1..n : n - i + 1 \in 1..n /\ n - (n - i + 1) + 1 = i OBVIOUS
<1>5. t \in [1..n -> CallRow] BY <1>1, <1>2, <1>4
<1>6. t \in Seq(CallRow) /\ DOMAIN t = 1..n BY <1>5
<1>7. ASSUME NEW i \in 1..n, NEW j \in 1..n, t[i].id = t[j].id PROVE i = j
  <2>1. board[n - i + 1].id = board[n - j + 1].id BY <1>2, <1>7
  <2>2. n - i + 1 = n - j + 1 BY <1>1, <1>4, <2>1 DEF IsBoard
  <2> QED BY <2>2
<1>8. IsBoard(t) BY <1>6, <1>7 DEF IsBoard
<1>9. Range(t) = Range(board)
  <2>1. ASSUME NEW i \in 1..n PROVE t[i] \in Range(board)
    <3>1. t[i] = board[n - i + 1] BY <1>2
    <3> QED BY <1>1, <1>4, <3>1 DEF Range
  <2>2. ASSUME NEW i \in 1..n PROVE board[i] \in Range(t)
    <3>1. PICK k \in 1..n : k = n - i + 1 /\ n - k + 1 = i BY <1>4
    <3>2. t[k] = board[i] BY <1>2, <3>1
    <3> QED BY <1>6, <3>2 DEF Range
  <2>3. Range(t) = {t[i] : i \in 1..n} /\ Range(board) = {board[i] : i \in 1..n} BY <1>1, <1>6 DEF Range
  <2> QED BY <2>1, <2>2, <2>3
<1>10. FormedOn(t) = FormedOn(board) BY <1>9 DEF FormedOn, EvidencedRows
<1> QED BY <1>3, <1>8, <1>10

\* None that is told is outdone by one that is not, or that comes after it.
Outstanding(told, V, m) ==
  \A i \in 1..m : /\ \A s \in V \ Range(told) : ~Outdoes(s, told[i])
                  /\ \A j \in (i + 1)..m : ~Outdoes(told[j], told[i]) /\ told[i] # told[j]

Pairings(V) == \A s \in V : IsPairing(s)
Begins(told, f, m) == told = [k \in 1..m |-> f[k]] \o <<>>
TellsAll(told, V) == V \subseteq Range(told)

\* What a list tells of the pairs, and what it does not tell.
LEMMA ListTells ==
  ASSUME NEW V, Pairings(V), NEW size \in Nat, NEW f, Lists(f, V, size),
         NEW m \in Nat, m <= size, NEW told, Begins(told, f, m)
  PROVE  /\ told \in Seq(V) /\ Len(told) = m /\ DOMAIN told = 1..m /\ \A k \in 1..m : told[k] = f[k] /\ k \in 1..size
         /\ Range(told) \subseteq V
         /\ m = size => TellsAll(told, V)
         /\ Outstanding(told, V, m)
<1>1. f \in [1..size -> V] BY DEF Lists
<1>2. PICK t : t = [k \in 1..m |-> f[k]] OBVIOUS
<1>3. \A k \in 1..m : k \in 1..size OBVIOUS
<1>4. t \in [1..m -> V] BY <1>1, <1>2, <1>3
<1>5. told = t BY <1>2, <1>4, FunctionIsSeq DEF Begins
<1>6. t \in Seq(V) /\ Len(t) = m /\ DOMAIN t = 1..m BY <1>4
<1>7. Range(t) = {t[k] : k \in 1..m} BY <1>6 DEF Range
<1>8. Range(t) \subseteq V BY <1>4, <1>7
<1>9. m = size => TellsAll(t, V)
  <2> SUFFICES ASSUME m = size, NEW s \in V PROVE s \in Range(t) BY DEF TellsAll
  <2>1. PICK k \in 1..size : f[k] = s BY DEF Lists
  <2> QED BY <1>2, <1>7, <2>1
<1>10. ASSUME NEW i \in 1..m, NEW s \in V \ Range(t) PROVE ~Outdoes(s, t[i])
  <2>1. PICK k \in 1..size : f[k] = s BY DEF Lists
  <2>2. k \notin 1..m BY <1>2, <1>7, <1>10, <2>1
  <2>3. i < k BY <2>2
  <2>4. AtLeast(f[i], f[k]) BY <1>3, <2>3 DEF Lists
  <2>5. IsPairing(s) /\ IsPairing(t[i]) BY <1>4 DEF Pairings
  <2> QED BY <1>2, <2>1, <2>4, <2>5, OutdoesIsBetter
<1>11. ASSUME NEW i \in 1..m, NEW j \in (i + 1)..m PROVE ~Outdoes(t[j], t[i]) /\ t[i] # t[j]
  <2>1. j \in 1..m /\ i < j OBVIOUS
  <2>2. AtLeast(f[i], f[j]) BY <1>3, <2>1 DEF Lists
  <2>3. f[i] # f[j] BY <1>3, <2>1 DEF Lists
  <2>4. t[i] = f[i] /\ t[j] = f[j] BY <1>2, <2>1
  <2>5. IsPairing(f[i]) /\ IsPairing(f[j]) BY <1>1, <1>3, <2>1 DEF Pairings
  <2> QED BY <2>2, <2>3, <2>4, <2>5, OutdoesIsBetter
<1>12. \A k \in 1..m : t[k] = f[k] BY <1>2
<1>13. Outstanding(t, V, m) BY <1>10, <1>11 DEF Outstanding
<1> QED BY <1>3, <1>5, <1>6, <1>8, <1>9, <1>12, <1>13

SpreadCase(board, top) == case = [engine |-> "spread", in |-> [board |-> board, top |-> top]]

LEMMA SpreadsPay ==
  ASSUME NEW board, IsBoard(board), NEW top \in Int, SpreadCase(board, top)
  PROVE  SpreadsPayAsTold
<1>1. case.in.board = board /\ case.in.top = top BY DEF SpreadCase
<1>2. PICK V : V = FormedOn(board) OBVIOUS
<1>3. PICK f, size : /\ size \in Nat /\ Lists(f, V, size) /\ \A s \in V : IsPairing(s)
                     /\ RankedSpreads(board, top) = [k \in 1..ManyTold(size, top) |-> f[k]] \o <<>>
  BY <1>2, RankedList
<1>4. PICK m \in Nat : m = ManyTold(size, top) /\ m <= size BY <1>3, ToldIs
<1>5. PICK told : told = RankedSpreads(board, top) OBVIOUS
<1>6. Begins(told, f, m) /\ Pairings(V) BY <1>3, <1>4, <1>5 DEF Begins, Pairings
<1>7. Range(told) \subseteq V BY <1>3, <1>4, <1>6, ListTells
<1>8. \A s \in Range(told) : /\ Min({PayoffAt(s, price) : price \in Prices(s)}) = -s.max_loss
                             /\ Max({PayoffAt(s, price) : price \in Prices(s)}) = s.max_profit
                             /\ {price \in Prices(s) : PayoffAt(s, price) = 0} = {s.breakeven}
  BY <1>3, <1>7, PairPays
<1>9. StrategyReport(board, top).results = told BY <1>5 DEF StrategyReport
<1> QED BY <1>1, <1>8, <1>9 DEF SpreadsPayAsTold

LEMMA SpreadsAreBest ==
  ASSUME NEW board, IsBoard(board), NEW top \in Int, SpreadCase(board, top)
  PROVE  BestSpreadsFirst
<1>1. case.in.board = board /\ case.in.top = top BY DEF SpreadCase
<1>2. PICK V : V = FormedOn(board) OBVIOUS
<1>3. PICK back : back = Reverse(board) /\ IsBoard(back) /\ FormedOn(back) = V BY <1>2, TurnedBoard
<1>4. PICK f, size : /\ size \in Nat /\ Lists(f, V, size) /\ \A s \in V : IsPairing(s)
                     /\ IsFiniteSet(V) /\ Cardinality(V) = size
                     /\ RankedSpreads(board, top) = [k \in 1..ManyTold(size, top) |-> f[k]] \o <<>>
  BY <1>2, RankedList
<1>5. PICK g : Lists(g, V, size) /\ RankedSpreads(back, top) = [k \in 1..ManyTold(size, top) |-> g[k]] \o <<>>
  <2>1. PICK g, many : /\ many \in Nat /\ Lists(g, V, many) /\ Cardinality(V) = many
                       /\ RankedSpreads(back, top) = [k \in 1..ManyTold(many, top) |-> g[k]] \o <<>>
    BY <1>3, RankedList
  <2> QED BY <1>4, <2>1
<1>6. PICK m \in Nat : m = ManyTold(size, top) /\ m <= size BY <1>4, ToldIs
<1>7. PICK told, turned : told = RankedSpreads(board, top) /\ turned = RankedSpreads(back, top) OBVIOUS
<1>8. size \in Nat /\ m \in Nat /\ m <= size /\ Lists(f, V, size) BY <1>4, <1>6
<1>9. Pairings(V) BY <1>4 DEF Pairings
<1>10. Begins(told, f, m) BY <1>4, <1>6, <1>7 DEF Begins
<1>11. Begins(turned, g, m) BY <1>5, <1>6, <1>7 DEF Begins
<1>12. /\ Len(told) = m /\ DOMAIN told = 1..m /\ Range(told) \subseteq V
       /\ m = size => V \ Range(told) = {}
       /\ \A k \in 1..m : told[k] = f[k] /\ k \in 1..size
  <2>1. Len(told) = m /\ DOMAIN told = 1..m /\ Range(told) \subseteq V BY <1>8, <1>9, <1>10, ListTells
  <2>2. m = size => TellsAll(told, V) BY <1>8, <1>9, <1>10, ListTells
  <2>3. m = size => V \ Range(told) = {} BY <2>2 DEF TellsAll
  <2>4. \A k \in 1..m : told[k] = f[k] /\ k \in 1..size BY <1>8, <1>9, <1>10, ListTells
  <2> QED BY <2>1, <2>3, <2>4
<1>13. \A i \in 1..m : /\ \A s \in V \ Range(told) : ~Outdoes(s, told[i])
                       /\ \A j \in (i + 1)..m : ~Outdoes(told[j], told[i]) /\ told[i] # told[j]
  <2>1. Outstanding(told, V, m) BY <1>8, <1>9, <1>10, ListTells
  <2> QED BY <2>1 DEF Outstanding
<1>14. \A k \in 1..m : turned[k] = g[k]
  <2>1. size \in Nat /\ m \in Nat /\ m <= size /\ Lists(g, V, size) BY <1>4, <1>5, <1>6
  <2> QED BY <1>9, <1>11, <2>1, ListTells
<1>15. V \ Range(told) # {} => Len(told) = Max({0, top})
  <2>1. m = size \/ m = Max({0, top}) BY <1>4, <1>6, ToldIs
  <2> QED BY <1>12, <2>1
<1>16. \A i \in 1..m : ~Better(told[i], turned[i]) /\ ~Better(turned[i], told[i])
  <2> TAKE i \in 1..m
  <2>1. AtLeast(f[i], g[i]) /\ AtLeast(g[i], f[i]) BY <1>4, <1>5, <1>12, ListsAgree
  <2> QED BY <1>12, <1>14, <2>1 DEF AtLeast
<1>17. StrategyReport(board, top).results = told /\ StrategyReport(back, top).results = turned
  BY <1>7 DEF StrategyReport
<1>18. V = {SpreadOf(p[1], p[2]) : p \in {q \in EvidencedRows(board) \X EvidencedRows(board) : Forms(q[1], q[2])}}
  BY <1>2 DEF FormedOn
<1>19. EvidencedRows(board) = {row \in Range(board) : \E x \in {row.value, row.interest} : Observed(x)}
  BY DEF EvidencedRows
<1> QED BY <1>1, <1>3, <1>12, <1>13, <1>15, <1>16, <1>17, <1>18, <1>19 DEF BestSpreadsFirst

\* The two rankings of the live reports order what is known, and only that: for any universe
\* of rows the scores follow the factors, and for any board of calls the pairs that are told
\* pay as told, the best of those that can be formed first (rank_bull_call_spreads).
THEOREM RankingStaysFair == RankingSpec => []RankingIsFair
<1> DEFINE Called == \/ case = NoCase
                     \/ \E rows \in Universes : case = [engine |-> "ranking", in |-> rows]
                     \/ \E board \in SpreadBoards, top \in SpreadTops : SpreadCase(board, top)
<1>1. CasesInit => Called BY DEF CasesInit
<1>2. Called /\ [RankingCalled \/ SpreadCalled]_case => Called'
  BY DEF RankingCalled, SpreadCalled, Given, SpreadCase
<1>3. Called => RankingIsFair
  <2>1. CASE case = NoCase
    <3>1. case.engine \notin {"ranking", "spread"} BY <2>1 DEF NoCase
    <3> QED BY <3>1 DEF RankingIsFair, DominanceIsRanked, MissingIsNoZero, SpreadsPayAsTold, BestSpreadsFirst
  <2>2. ASSUME NEW rows \in Universes, case = [engine |-> "ranking", in |-> rows] PROVE RankingIsFair
    <3>1. IsUniverse(rows) BY UniversesAssumption
    <3>2. DominanceIsRanked BY <2>2, <3>1, RankingDominates
    <3>3. MissingIsNoZero BY <2>2, <3>1, RankingMisses
    <3>4. case.engine # "spread" BY <2>2
    <3>5. SpreadsPayAsTold /\ BestSpreadsFirst BY <3>4 DEF SpreadsPayAsTold, BestSpreadsFirst
    <3> QED BY <3>2, <3>3, <3>5 DEF RankingIsFair
  <2>3. ASSUME NEW board \in SpreadBoards, NEW top \in SpreadTops, SpreadCase(board, top) PROVE RankingIsFair
    <3>1. IsBoard(board) /\ top \in Int BY SpreadAssumption DEF IsBoard
    <3>2. SpreadsPayAsTold BY <2>3, <3>1, SpreadsPay
    <3>3. BestSpreadsFirst BY <2>3, <3>1, SpreadsAreBest
    <3>4. case.engine # "ranking" BY <2>3 DEF SpreadCase
    <3>5. DominanceIsRanked /\ MissingIsNoZero BY <3>4 DEF DominanceIsRanked, MissingIsNoZero
    <3> QED BY <3>2, <3>3, <3>5 DEF RankingIsFair
  <2> QED BY <2>1, <2>2, <2>3
<1> QED BY <1>1, <1>2, <1>3, PTL DEF RankingSpec
===============================================================================
