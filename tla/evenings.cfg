SPECIFICATION EveningsSpec
CONSTANTS
  Chains = {p1}
  Rows = {r1, r2}
  None = None
  Torn = Torn
  MaxDay = 2
  MaxKills = 1
  Diagnostics = {"e1"}
  MaxFaults = 2
INVARIANTS
  EveningIsSound
  OperatorKnows
PROPERTIES
  ArchiveIsKept
  ComparedWithLast
  NewDayIsCompared
  ReleaseStands
