CONSTANTS
  Sessions = {s1}
  MaxJobs = 1
  IdLimit = 4
  CmdqEnabled = TRUE

SPECIFICATION Spec

PROPERTIES
  GetFindsOwed
