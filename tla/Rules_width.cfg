\* Every kind of node, children of one and two bits.
SPECIFICATION Spec
CONSTANTS
  Checked = {"not", "xor", "and", "equal", "ult", "slt", "ite", "extract", "concat",
             "add", "mul", "udiv", "urem", "shl", "shr", "ashr"}
  MaxWidth = 2
\* A node is propagated once.
CHECK_DEADLOCK FALSE
INVARIANTS
  RuleSound
PROPERTIES
  OnlyNarrower
  ChangesKept
  ChildrenDecide
