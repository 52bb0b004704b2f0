\* A client of the log socket comes and may leave; the table may wrap; a call of the socket
\* server may fail or hang, before or after.
SPECIFICATION FairSpec
CONSTANTS
  gdb = gdb
  Server = Server
  PutLog = PutLog
  OverflowEntry = OverflowEntry
  Nobody = Nobody
  Loggers = {gdb}
  Prio <- FirmwarePrio
  Entries = 3
  TxRoom = 1
  MsgLen = 2
  MaxLogs = 3
  MaxOpens = 1
  MaxOthers = 1
  ClientLeaves = TRUE
  SockFails = TRUE
INVARIANTS
  NoneLostUntilWrap
  PrintedOnce
PROPERTIES
  DropIsNoted
  
  EverythingPrinted
CHECK_DEADLOCK FALSE
