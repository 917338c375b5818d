CONSTANTS
  IoThreads = {t1}
  MaxPackets = 1
  MaxMsgs = 1
  InitialIsRunning = {FALSE}
  main = main
  stopper = stopper
SPECIFICATION Spec
INVARIANTS
  NeverLeavesWorker
\* A packet that cannot be parsed ends the process.
CHECK_DEADLOCK FALSE
