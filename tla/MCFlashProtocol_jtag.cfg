\* An access over JTAG fails.
SPECIFICATION Spec
CONSTANTS
  f1 = f1
  f2 = f2
  c1 = c1
  c2 = c2
  Files = {f1}
  Chunks = {c1}
  Absent = Absent
  NoHandle = NoHandle
  None = None
  FsFails = FALSE
  JtagFails = TRUE
  CrcAnytime = FALSE
  Kills = FALSE
  MaxRequests = 4
  MaxAfter = 4
  MaxChunks = 1
INVARIANT OpenMeansOpen
CHECK_DEADLOCK FALSE
