\* The GDB slot alone: one task of higher priority than the server.
SPECIFICATION FairSpec
CONSTANTS
  gdb = gdb
  put_log = put_log
  config1 = config1
  Server = Server
  Nobody = Nobody
  NumSockets = 1
  LogSlot = 0
  TxBufSize = 2
  RxBufSize = 2
  IndexWrap = 4
  Tasks = {gdb}
  SlotOf <- OneSlot
  Prio <- FirmwarePrio
  ServerPrio = 3
  Putters = {gdb}
  Getters = {gdb}
  Spawned = {}
  MaxPuts = 5
  MaxPeerSends = 4
  MaxConnects = 2
INVARIANTS
  TypeOK
  BufAccess
  TxNeverOverflows
  RxStaysInBounds
PROPERTIES
  TxIsAChannel
  RxIsAChannel
  PutReturns
  ArrivalWakesReader
CHECK_DEADLOCK FALSE
