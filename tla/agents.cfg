SPECIFICATION AgentsSpec
CONSTANTS
  Pids = {p1, p2, p3}
  NoPid = NoPid
  MaxStops = 4
  Listeners = {l1}
  MaxUpdate = 3
  Limit = 3
  Kind <- ThreeKinds
  MaxCrashes = 2
INVARIANTS
  OneKnownAgent
  NothingPassedUnseen
PROPERTIES
  BridgeComesBack
  CommittedIsFinal
  EveryUpdateIsSeen
\* A supervised agent that serves, with no kill left in the bound, has no successor.
CHECK_DEADLOCK FALSE
