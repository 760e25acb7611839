\* Three distributed coordinators, two partitioners at a time.
SPECIFICATION IsoSpec
CONSTANTS
  MinDists = 3
  MaxDists = 3
  MaxNodes = 7
  Cores = 2
  GetModel = FALSE
  m1 = m1
  m2 = m2
  Models <- MCModels
  PartitionerFaults <- NoFault
  SolverFaults <- NoFault
SYMMETRY ModelSymmetry
\* pre_partition returns.
CHECK_DEADLOCK FALSE
INVARIANTS
  PrePartitionCovers
