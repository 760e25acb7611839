\* A partitioner that cannot partition leaves its node simplifying for ever.
SPECIFICATION FairSpec
CONSTANTS
  MaxNodes = 3
  Cores = 1
  GetModel = FALSE
  m1 = m1
  m2 = m2
  Models <- MCModels
  PartitionerFaults <- OnlyNoSplit
  SolverFaults <- NoFault
PROPERTIES
  SimplifyingEnds
