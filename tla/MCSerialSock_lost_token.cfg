\* The GDB slot with a receive buffer that never fills: does GetChar return when a
\* character is there?
SPECIFICATION FairSpec
CONSTANTS
  gdb = gdb
  put_log = put_log
  config1 = config1
  Server = Server
  Nobody = Nobody
  NumSockets = 1
  LogSlot = 0
  TxBufSize = 4
  RxBufSize = 4
  IndexWrap = 8
  Tasks = {gdb}
  SlotOf <- OneSlot
  Prio <- FirmwarePrio
  ServerPrio = 3
  Putters = {gdb}
  Getters = {gdb}
  Spawned = {}
  MaxPuts = 0
  MaxPeerSends = 2
  MaxConnects = 1
PROPERTIES
  GetReturnsWhenAvailable
CHECK_DEADLOCK FALSE
