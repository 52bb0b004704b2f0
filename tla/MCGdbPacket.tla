---------------------------- MODULE MCGdbPacket ----------------------------
(* Instances of GdbPacket for TLC: the bounds are given in the .cfg files. *)
EXTENDS GdbPacket
=============================================================================
