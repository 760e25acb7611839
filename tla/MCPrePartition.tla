--------------------------- MODULE MCPrePartition ---------------------------
(* Instances of module PrePartition small enough for TLC.                  *)
EXTENDS PrePartition

CONSTANTS m1, m2

MCModels == {m1, m2}
ModelSymmetry == Permutations(MCModels)
PartitionerMayFail == {"nosplit", "broken", "memout"}
NoFault == {}
=============================================================================
