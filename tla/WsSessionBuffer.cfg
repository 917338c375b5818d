CONSTANTS
  Sessions = {s1}
  MaxRequests = 2
  AcceptStarts = TRUE
SPECIFICATION Spec
INVARIANTS
  OneCommandAtATime
CHECK_DEADLOCK FALSE
