\* The log socket's client leaves.
SPECIFICATION FairSpec
CONSTANTS
  gdb = gdb
  Server = Server
  PutLog = PutLog
  OverflowEntry = OverflowEntry
  Nobody = Nobody
  Loggers = {gdb}
  Prio <- FirmwarePrio
  Entries = 2
  TxRoom = 2
  MsgLen = 2
  MaxLogs = 4
  MaxOpens = 1
  MaxOthers = 0
  ClientLeaves = TRUE
  SockFails = FALSE
PROPERTY LogReturns
CHECK_DEADLOCK FALSE
