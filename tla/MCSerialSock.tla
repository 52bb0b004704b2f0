---------------------------- MODULE MCSerialSock ----------------------------
(* The tasks of the firmware that use the sockets, with their priorities     *)
(* (gdbserver.h:21, log.c:31, serialconfig.c:30): on the GDB slot the GDB    *)
(* server puts and gets; on the log slot the log task puts and SerialConfig  *)
(* tasks get.                                                                *)
EXTENDS SerialSock

CONSTANTS gdb, put_log, config1

OneSlot == [t \in Tasks |-> 1]
FirmwarePrio == [t \in Tasks |-> IF t = gdb THEN 5 ELSE 2]
=============================================================================
