CONSTANTS
  Callers = {main}
  MaxMsgs = 1
  InitialIsRunning = {FALSE}
  EnablesQueue = TRUE

SPECIFICATION Spec

INVARIANTS
  RunningMeansWorker
