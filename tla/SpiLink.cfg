CONSTANTS
  Callers = {main}
  MaxMsgs = 1
  Outgoing <- MCOutgoing
  Incoming <- MCIncoming
  MaxFrames = 2
  Room = 2
SPECIFICATION FairSpec
INVARIANTS
  TypeOK
  InStep
  MidiPassedOn
  TempoIsWhole
PROPERTIES
  LineMoves
  StopReturns
