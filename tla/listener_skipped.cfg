SPECIFICATION ListenerSpec
CONSTANTS
  Listeners = {l1}
  MaxUpdate = 2
  Limit = 2
  Kind <- TwoButtons
  MaxCrashes = 0
INVARIANTS NoneSilentlySkipped
