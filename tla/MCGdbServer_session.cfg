\* Ctrl-C at any moment, a kill, and target accesses that may fail.
SPECIFICATION FairSpec
CONSTANTS
  Code <- ConsoleLoop
  Breakpoints = {3}
  JtagFails = TRUE
  MaxInterrupts = 2
  MaxKills = 1
INVARIANTS
  TypeOK
  StoppedMeansHalted
  HaltedIsTrue
  ConsoleOnce
PROPERTIES
  StopReported
  InterruptAnswered
CHECK_DEADLOCK FALSE
