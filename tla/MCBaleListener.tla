---------------------------- MODULE MCBaleListener -----------------------------
(***************************************************************************)
(* Instances of BaleListener for TLC.                                      *)
(***************************************************************************)
EXTENDS BaleListener

\* A button, a message that gets a notice when it fails, one from a foreign chat.
ThreeKinds == <<"callback", "message", "refused">>
TwoButtons == <<"callback", "callback">>
===============================================================================
