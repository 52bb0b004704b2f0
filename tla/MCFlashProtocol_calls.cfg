\* Filesystem operations may fail, and so may an access over JTAG at any point.
SPECIFICATION FairSpec
CONSTANTS
  f1 = f1
  f2 = f2
  c1 = c1
  c2 = c2
  Files = {f1, f2}
  Chunks = {c1, c2}
  Absent = Absent
  NoHandle = NoHandle
  None = None
  FsFails = TRUE
  JtagFails = TRUE
  CrcAnytime = FALSE
  Kills = TRUE
  MaxRequests = 6
  MaxAfter = 2
  MaxChunks = 2
INVARIANTS
  NoTornCommand
  ResponseIsOwn
  UploadAccounted
PROPERTIES
  EntersFlashModeReady
  IsAService
  CallReturns
CHECK_DEADLOCK FALSE
