SPECIFICATION FairSpec
CONSTANTS
  c1 = c1
  c2 = c2
  c3 = c3
  NoCmd = NoCmd
  NoReceipt = NoReceipt
  Payloads <- Three
  NameOf <- OwnFile
  IdOf <- OwnReceipt
  Kind <- PoisonFirst
  MaxAttempts = 2
  MaxCrashes = 1
PROPERTIES EveryCommandIsSettled
