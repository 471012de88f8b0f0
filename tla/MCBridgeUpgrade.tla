---------------------------- MODULE MCBridgeUpgrade ----------------------------
(***************************************************************************)
(* Instances of BridgeUpgrade for TLC.                                     *)
(***************************************************************************)
EXTENDS BridgeUpgrade, TLC

CONSTANTS u, c

One == {u}
Both == {u, c}
OneFileEach == [x \in Payloads |-> IF x = u THEN 1 ELSE 2]
OneReceiptEach == [x \in Payloads |-> IF x = u THEN 11 ELSE 12]
AllRun == [x \in Payloads |-> "run"]
===============================================================================
