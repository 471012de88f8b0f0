SPECIFICATION Spec
CONSTANTS
  c1 = c1
  c2 = c2
  c3 = c3
  NoCmd = NoCmd
  NoReceipt = NoReceipt
  Payloads <- Three
  NameOf <- OwnFile
  IdOf <- OwnReceipt
  Kind <- RunRejectBlock
  MaxAttempts = 3
  MaxCrashes = 1
INVARIANTS
  ReceiptBeforeAck
  ReceiptsAreTrue
PROPERTIES
  NoRunAfterAck
  ImplementsLedger
