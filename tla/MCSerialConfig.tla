---------------------------- MODULE MCSerialConfig ----------------------------
(* The words of the commands and answers serve as names and keys, too. *)
EXTENDS SerialConfig
=============================================================================
