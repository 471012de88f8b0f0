SPECIFICATION SourceSpec
CONSTANTS
  Procs = {p1}
  Requests <- Universe
  Answers <- Outage
  LateTrades = FALSE
  None = None
  Torn = Torn
  MaxSession = 2
  MaxBoard = 1
INVARIANTS FrozenIsFinal
