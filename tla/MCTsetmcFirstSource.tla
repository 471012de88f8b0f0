------------------------- MODULE MCTsetmcFirstSource ---------------------------
(***************************************************************************)
(* Instances of TsetmcFirstSource for TLC.                                 *)
(***************************************************************************)
EXTENDS TsetmcFirstSource, TLC

Universe == {"universe"}
AnyRequest == {"universe", "sample"}

\* Every answer has instruments in it.
Answered == {"full", "few"}
Outage == {"full", "none"}

Symmetry == Permutations(Procs)
===============================================================================
