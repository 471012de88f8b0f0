SPECIFICATION EnginesSpec
CONSTANTS
  LastYear = 2058
  Begins <- StartSeconds
  Lasts = {1}
  Overslept = {40, 200}
  Until = 47000
  GateRows <- GateInstance
  Contexts <- ContextInstance
  Universes <- ThreeRanked
  Whole = 6
  Grain = 300
  Boards <- ThreeListed
  Shares = {"a", "b"}
  Findings <- Biases
  Pool = 2
  Limits = {1, 2, 3}
  SpreadBoards <- SpreadInstance
  SpreadTops = {0, 2, 15}
  LastMinuteBoards <- LateBoards
  LastMinuteShares <- LateShares
  LastMinuteNames = {"u", "w"}
  LastMinuteTops = {0, 2, 4}
  SessionHistories <- TrendInstance
  TradingDates <- OneToday
  ScoredTables <- TableInstance
  MarketHistories <- HistoryInstance
  Instruments = {"x", "y"}
  PatternWindow = 2
  FlowBoards <- FlowInstance
  FlowsReached <- AnyFlows
  Befores <- BeforeInstance
  FlowQuotes <- FlowQuoteInstance
  Enough = 2
  Texts <- TextInstance
  PartLimit = 3
INVARIANTS
  
  SlotsAreKept
  VerdictsAreBacked
  RankingIsFair
  ReportIsInOrder
  LastMinuteIsBounded
  TrendIsRead
  CasesAreSound
  HistoryIsOne
  
  MessageIsKept
\* A call is answered, and the walks through the calendar and through a day end.
CHECK_DEADLOCK FALSE
