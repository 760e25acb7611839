--------------------------- MODULE MCDistributed ----------------------------
(* Instances of module Distributed small enough for TLC.                   *)
EXTENDS Distributed

CONSTANT m1

OneModel == {m1}
NoFault == {}
EveryFault == {"memout", "crash", "timeout"}
Yes == {TRUE}
YesAndNo == BOOLEAN
=============================================================================
