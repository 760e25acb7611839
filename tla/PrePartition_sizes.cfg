\* Up to four distributed coordinators and three partitioners at a time.
SPECIFICATION IsoSpec
CONSTANTS
  MinDists = 1
  MaxDists = 4
  MaxNodes = 9
  Cores = 3
  GetModel = FALSE
  m1 = m1
  m2 = m2
  Models <- MCModels
  PartitionerFaults <- PartitionerMayFail
  SolverFaults <- NoFault
SYMMETRY ModelSymmetry
\* pre_partition returns.
CHECK_DEADLOCK FALSE
INVARIANTS
  SubnodesHaveFiles
  SmallPrePartitionCovers
