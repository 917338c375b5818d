CONSTANTS
  Sessions = {s1, s2}
  MaxRequests = 2
  AcceptStarts = TRUE
SPECIFICATION FairSpec
INVARIANTS
  TypeOK
PROPERTIES
  FirstIsAnswered
  SessionsEnd
CHECK_DEADLOCK FALSE
