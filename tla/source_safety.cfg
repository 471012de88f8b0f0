SPECIFICATION SourceSpec
CONSTANTS
  Procs = {p1, p2}
  Requests <- Universe
  Answers <- Answered
  LateTrades = FALSE
  None = None
  Torn = Torn
  MaxSession = 1
  MaxBoard = 1
SYMMETRY Symmetry
INVARIANTS
  FrozenIsFinal
PROPERTIES
  FrozenStays
