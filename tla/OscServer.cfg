CONSTANTS
  IoThreads = {t1, t2}
  MaxPackets = 2
  MaxSends = 1
SPECIFICATION FairSpec
INVARIANTS
  TypeOK
  OneReceive
  ParsedInOrder
PROPERTIES
  AbortReturns
  StopReturns
CHECK_DEADLOCK FALSE
