\* No fault; eleven nodes and four cores, see the README.
SPECIFICATION Spec
CONSTANTS
  MaxNodes = 11
  Cores = 4
  GetModel = FALSE
  m1 = m1
  m2 = m2
  Models <- MCModels
  PartitionerFaults <- NoFault
  SolverFaults <- NoFault
SYMMETRY ModelSymmetry
INVARIANTS
  TypeOK
  UnsatSound
  UnsatClosed
  ProcessesListed
  CoresRespected
  FilesPresent
  NoNodeLost
  NoCrash
PROPERTIES
  EndedForGood
  ImplementsSolvingRound
