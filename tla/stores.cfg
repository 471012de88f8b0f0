SPECIFICATION StoresSpec
CONSTANTS
  Procs = {s1}
  Requests <- AnyRequest
  Answers <- AllAnswers
  LateTrades = TRUE
  None = None
  Torn = Torn
  MaxSession = 2
  MaxBoard = 1
  WorkerIds = {w1, w2}
  Launchers = {l1, l2}
  NoId = NoId
  MaxStarts = 3
  MaxStopped = 2
  Moments <- ReportMoments
  TradingDays = {0, 2}
  MaxRuns = 2
  MaxBreaks = 1
  MaxReports = 2
  MaxEngineKills = 1
  CaseKeys = {1, 2}
  CaseLists <- CaseInstance
  MaxShadows = 3
  MaxShots = 2
  MaxShadowKills = 1
  ReportTexts = {1, 2}
  MaxDates = 2
  MaxRewritten = 3
  MaxManaged = 3
  MaxManagedKills = 1
  BookBoards <- BookInstance
  LiveBooks <- LiveInstance
  OptionCount = 3
  Pauses = {0, 12}
  MaxHitches = 3
  SessionDays = {1, 2}
  PressTimes <- PressInstance
  Rankings <- RankingInstance
  Optioned <- OptionedInstance
  MaxPresses = 3
  Posters <- TwoPosters
  MaxParts = 3
  MaxSent = 2
  MaxTroubles = 2
  MaxFaults = 3
  u = u
  c = c
  NoCmd = NoCmd
  NoReceipt = NoReceipt
  Upgrade = u
  Payloads <- Both
  NameOf <- OneFileEach
  IdOf <- OneReceiptEach
  Kind <- AllRun
  MaxAttempts = 2
  MaxCrashes = 1
INVARIANTS
  LiveMeansFresh
  WorkerIsKnown
  ReportIsWhole
  EvidenceIsOfOneRun
  MemoryIsTrue
  UnlockedByEvidence
  PagesAreWhole
  ChatIsTold
  RestartAfterReceipt
PROPERTIES
  FreshnessTurns
  MarketIsCurrent
\* Runs, kills and presses are bounded.
CHECK_DEADLOCK FALSE
