SPECIFICATION FairSpec
CONSTANTS
  MaxLen = 3
  MaxTries = 3
  MaxClients = 2
  MaxCommands = 2
  MaxTimeouts = 1
  MaxSlow = 1
  MaxInterrupts = 1
INVARIANTS
  WholePackets
  InterruptsRead
  ExecutedInOrder
  AnswerIsOwn
PROPERTIES
  Heard
  StopNoticed
CHECK_DEADLOCK FALSE
