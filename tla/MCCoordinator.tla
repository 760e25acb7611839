--------------------------- MODULE MCCoordinator ----------------------------
(* Instances of module Coordinator small enough for TLC.                   *)
EXTENDS Coordinator, TLC

CONSTANTS m1, m2

MCModels == {m1, m2}
ModelSymmetry == Permutations(MCModels)
NoFault == {}
PartitionerMayFail == {"nosplit", "broken", "memout"}
OnlyNoSplit == {"nosplit"}
SolverMayFail == {"error", "memout"}
=============================================================================
