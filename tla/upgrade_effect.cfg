SPECIFICATION FairUpgradeSpec
CONSTANTS
  u = u
  c = c
  NoCmd = NoCmd
  NoReceipt = NoReceipt
  Upgrade = u
  Payloads <- One
  NameOf <- OneFileEach
  IdOf <- OneReceiptEach
  Kind <- AllRun
  MaxAttempts = 2
  MaxCrashes = 0
PROPERTIES UpgradeTakesEffect
\* When the agent is idle, nothing is queued and the finalizer is done, only polling goes on.
CHECK_DEADLOCK FALSE
