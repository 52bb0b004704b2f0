------------------------------ MODULE MCMemLog ------------------------------
(* The log with the GDB server's task (gdbserver.h:21), the socket server's *)
(* (serialsock.h:20) and the log's own (log.c:31).                          *)
EXTENDS MemLog

CONSTANTS gdb

FirmwarePrio == [t \in Threads |-> CASE t = gdb -> 5 [] t = Server -> 3 [] OTHER -> 2]

ASSUME PriorityAssumption == LoggersFirst
=============================================================================
