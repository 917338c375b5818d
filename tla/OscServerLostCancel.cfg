CONSTANTS
  IoThreads = {t1}
  MaxPackets = 1
  MaxSends = 0
SPECIFICATION FairSpec
PROPERTIES
  CancelReturns
CHECK_DEADLOCK FALSE
