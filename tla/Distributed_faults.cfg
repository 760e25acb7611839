\* Every failure, and the time limit of the leader, with and without buffers.
SPECIFICATION FairSpec
CONSTANTS
  N = 2
  MaxTasks = 4
  m1 = m1
  Models <- OneModel
  Buffering <- YesAndNo
  TabuCovers = TRUE
  Faults <- EveryFault
\* A coordinator whose source has failed waits for ever.
CHECK_DEADLOCK FALSE
INVARIANTS
  AssignedWhenIdle
PROPERTIES
  ImplementsVerdict
  Concludes
