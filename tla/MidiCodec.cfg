CONSTANTS
  Data = {0, 64, 127}
  Ports = {0, 1, 9, 10, 208, 255}
  MaxHops = 2
  MaxBeside = 1

SPECIFICATION Spec

INVARIANTS
  SendsWholeMessages
  OscRoundTrip

\* One message goes its way and the behaviour ends.
CHECK_DEADLOCK FALSE
