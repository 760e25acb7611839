\* No fault: every round is answered.
SPECIFICATION FairSpec
CONSTANTS
  MaxNodes = 7
  Cores = 3
  GetModel = FALSE
  m1 = m1
  m2 = m2
  Models <- MCModels
  PartitionerFaults <- NoFault
  SolverFaults <- NoFault
PROPERTIES
  RoundAnswered

