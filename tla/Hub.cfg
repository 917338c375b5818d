CONSTANTS
  IoThreads = {t1}
  MaxPackets = 1
  MaxMsgs = 1
  InitialIsRunning = {TRUE, FALSE}
  main = main
  stopper = stopper
SPECIFICATION FairSpec
INVARIANTS
  LeavesNoWorker
PROPERTIES
  ShutdownEnds
  OscServerSpec
  QueueWorkerSpec
\* A packet that cannot be parsed ends the process.
CHECK_DEADLOCK FALSE
