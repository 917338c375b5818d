CONSTANTS
  Sessions = {s1, s2}
  MaxJobs = 2
  IdLimit = 4
  CmdqEnabled = TRUE
SPECIFICATION FairSpec
INVARIANTS
  TypeOK
  InProcessStillQueued
  OwedIsHeld
PROPERTIES
  ListComplete
  JobBoardSpec
  UrgentFirst
  JobsFinish
  EnqueuedIsUnfinished
