\* A signed right shift whose operand can have only one sign.
SPECIFICATION PassSpec
CONSTANTS
  Formulas <- SignedShifts
INVARIANTS
  RollbackComplete
