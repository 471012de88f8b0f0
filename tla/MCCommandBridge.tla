---------------------------- MODULE MCCommandBridge ----------------------------
(***************************************************************************)
(* Instances of CommandBridge for TLC.                                     *)
(***************************************************************************)
EXTENDS CommandBridge, TLC

CONSTANTS c1, c2, c3

\* A file and a receipt for each command; the files sort in this order.
Three == {c1, c2, c3}
OwnFile == (c1 :> 1 @@ c2 :> 2 @@ c3 :> 3)
OwnReceipt == (c1 :> 11 @@ c2 :> 12 @@ c3 :> 13)

\* Commands that go well, beside one that process_file rejects and one that sync_queue
\* cannot read.
RunRejectBlock == (c1 :> "run" @@ c2 :> "invalid" @@ c3 :> "undecodable")
\* The first of the pass can never be answered, the second goes well, the third cannot be
\* read.
PoisonFirst == (c1 :> "badid" @@ c2 :> "run" @@ c3 :> "undecodable")
===============================================================================
