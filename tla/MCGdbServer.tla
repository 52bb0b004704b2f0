---------------------------- MODULE MCGdbServer ----------------------------
(* Programs for the target. *)
EXTENDS GdbServer

\* A breakpoint is put at address 3.
ConsoleLoop == <<"nop", "write", "nop", "nop", "read", "write">>
=============================================================================
