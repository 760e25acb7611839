\* Every fault of the partitioner and of the base solver, with models.
SPECIFICATION Spec
CONSTANTS
  MaxNodes = 7
  Cores = 3
  GetModel = TRUE
  m1 = m1
  m2 = m2
  Models <- MCModels
  PartitionerFaults <- PartitionerMayFail
  SolverFaults <- SolverMayFail
SYMMETRY ModelSymmetry
INVARIANTS
  DecisionReported
