\* Three distributed coordinators, no fault.  Task files are buffered, which
\* allows the most interleavings.
SPECIFICATION Spec
CONSTANTS
  N = 3
  MaxTasks = 5
  m1 = m1
  Models <- OneModel
  Buffering <- Yes
  TabuCovers = TRUE
  Faults <- NoFault
INVARIANTS
  TypeOK
  NoModelLost
  RankAccounted
  OpenTasks
  NoLeaderError
  VerdictOfTasks
