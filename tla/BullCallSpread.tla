----------------------------- MODULE BullCallSpread -----------------------------
(***************************************************************************)
(* The strategy report of the listener: bull_call_spread_engine.py, which  *)
(* pairs the calls of a snapshot of tsetmc_first_source.py, one bought and *)
(* one of a higher strike sold, and ranks the pairs.  A row is the fields  *)
(* the engine reads; whether the bot may advise is left out: it never does.*)
(***************************************************************************)
EXTENDS EconomicRanking

CONSTANTS
  SpreadBoards,  \* universes: sequences of rows
  SpreadTops     \* how many pairs are asked for

CallRow ==
  [id : STRING, type : STRING, share : STRING, expiry : Int, strike : Nat \cup {NA}, last : Int,
   value : Int, interest : Int]

\* A snapshot has one row of each instrument.
ASSUME SpreadAssumption ==
  /\ SpreadBoards \subseteq Seq(CallRow) /\ SpreadTops \subseteq Int
  /\ \A board \in SpreadBoards : \A i, j \in DOMAIN board : board[i].id = board[j].id => i = j

IsCall(row) == row.type = "CALL"

\* The traded volume is looked for under a name that no row of a snapshot has.
LiquidityFields(row) == <<NA, row.value, row.interest>>
Observed(x) == Known(x) /\ x >= 0
Evidenced(row) == \E x \in Range(LiquidityFields(row)) : Observed(x)
LegLiquidity(row) == Total(Each(LiquidityFields(row), LAMBDA x : IF Observed(x) THEN x ELSE 0))

\* A pair is formed when all of it is known, both expire together, and it costs something
\* and can gain something.
Forms(long, short) ==
  /\ IsCall(long) /\ IsCall(short)
  /\ "" \notin {long.share, short.share} /\ NA \notin {long.expiry, short.expiry}
  /\ NA \notin {long.strike, short.strike, long.last, short.last}
  /\ long.share = short.share /\ long.expiry = short.expiry /\ long.id # short.id
  /\ long.strike < short.strike
  /\ long.last >= 0 /\ short.last >= 0
  /\ long.last > short.last
  /\ short.strike - long.strike > long.last - short.last

SpreadOf(long, short) ==
  LET debit == long.last - short.last
  IN [long |-> long.id, short |-> short.id, lower |-> long.strike, higher |-> short.strike,
      debit |-> debit, max_loss |-> debit, max_profit |-> short.strike - long.strike - debit,
      breakeven |-> long.strike + debit,
      liquidity |-> Min({LegLiquidity(long), LegLiquidity(short)})]

\* The places of the pairs, the call of the lower strike first: it is bought.  A pair with a leg
\* of which nothing is known of its liquidity is left out.
Candidates(board) ==
  {p \in (DOMAIN board) \X (DOMAIN board) :
     Forms(board[p[1]], board[p[2]]) /\ Evidenced(board[p[1]]) /\ Evidenced(board[p[2]])}

SpreadAt(board, p) == SpreadOf(board[p[1]], board[p[2]])

\* What it may gain for what it may lose, then its liquidity.
Better(s, t) ==
  LET gain == s.max_profit * t.max_loss
      other == t.max_profit * s.max_loss
  IN gain > other \/ (gain = other /\ s.liquidity > t.liquidity)

\* The order in which the pairs are formed: by the row that comes first, then by the other.
FormedFirst(p, q) ==
  LET first(r) == IF r[1] < r[2] THEN r[1] ELSE r[2]
      second(r) == IF r[1] < r[2] THEN r[2] ELSE r[1]
  IN first(p) < first(q) \/ (first(p) = first(q) /\ second(p) < second(q))

RankedSpreads(board, top) ==
  LET found == Candidates(board)
      order == Arranged(found,
                 {c \in found \X found :
                    LET s == SpreadAt(board, c[1])
                        t == SpreadAt(board, c[2])
                    IN Better(s, t) \/ (~Better(t, s) /\ FormedFirst(c[1], c[2]))})
  IN [n \in 1..Min({Cardinality(found), Max({0, top})}) |-> SpreadAt(board, order[n])] \o <<>>

StrategyReport(board, top) ==
  LET ranked == RankedSpreads(board, top)
  IN [status |-> IF ranked = <<>> THEN "NO_VALID_CANDIDATE" ELSE "PASS", results |-> ranked]

SpreadCalled ==
  NotCalled /\ \E board \in SpreadBoards, top \in SpreadTops : Given("spread", [board |-> board, top |-> top])

RankingSpec == CasesInit /\ [][RankingCalled \/ SpreadCalled]_case

-------------------------------------------------------------------------------
\* What the two calls are worth when the share ends at that price (payoff_at_expiry).
PayoffAt(spread, price) == Max({price - spread.lower, 0}) - Max({price - spread.higher, 0}) - spread.debit

Prices(spread) == 0..(spread.higher + spread.debit)

\* The loss, the gain and the break-even price that the chat is told are those of the two
\* calls at every price the share may end at, whichever came first in the universe.
SpreadsPayAsTold ==
  case.engine = "spread" =>
    \A spread \in Range(StrategyReport(case.in.board, case.in.top).results) :
      LET payoffs == {PayoffAt(spread, price) : price \in Prices(spread)}
      IN /\ Min(payoffs) = -spread.max_loss /\ Max(payoffs) = spread.max_profit
         /\ {price \in Prices(spread) : PayoffAt(spread, price) = 0} = {spread.breakeven}

\* A pair as good as another in all that is told of it, and better in something.
Outdoes(s, t) ==
  /\ s.max_profit >= t.max_profit /\ s.max_loss <= t.max_loss /\ s.liquidity >= t.liquidity
  /\ <<s.max_profit, s.max_loss, s.liquidity>> # <<t.max_profit, t.max_loss, t.liquidity>>

\* "Build all valid same-underlying/same-expiry Bull Call Spreads. Ranking is deterministic"
\* (rank_bull_call_spreads): a pair that can be formed of evidenced legs, and no other, is
\* told, unless the list is full of pairs it does not outdo; none stands before one that
\* outdoes it; and the order of the rows decides between equals only.
BestSpreadsFirst ==
  case.engine = "spread" =>
    LET told == StrategyReport(case.in.board, case.in.top).results
        turned == StrategyReport(Reverse(case.in.board), case.in.top).results
        rows == {row \in Range(case.in.board) : \E x \in {row.value, row.interest} : Observed(x)}
        valid == {SpreadOf(p[1], p[2]) : p \in {q \in rows \X rows : Forms(q[1], q[2])}}
        missed == valid \ Range(told)
    IN /\ Range(told) \subseteq valid
       /\ missed # {} => Len(told) = Max({0, case.in.top})
       /\ \A i \in DOMAIN told :
            /\ \A s \in missed : ~Outdoes(s, told[i])
            /\ \A j \in (i + 1)..Len(told) : ~Outdoes(told[j], told[i]) /\ told[i] # told[j]
            /\ ~Better(told[i], turned[i]) /\ ~Better(turned[i], told[i])

\* The rankings of the two live reports order what is known, and only that.
RankingIsFair == DominanceIsRanked /\ MissingIsNoZero /\ SpreadsPayAsTold /\ BestSpreadsFirst
===============================================================================
