CONSTANTS
  Callers = {main, stopper}
  MaxMsgs = 4
  InitialIsRunning = {TRUE, FALSE}
  EnablesQueue = TRUE

SPECIFICATION FairSpec

INVARIANTS
  TypeOK
  InFlightIsHead
  InOrderOnce
  NeverTerminates
  ServingAccepts
  NoWakeupMissed
  ToldToStopIsWoken

PROPERTIES
  FifoChannelSpec
  
  StopReturns
  Drains

\* std::terminate ends the process.
CHECK_DEADLOCK FALSE
