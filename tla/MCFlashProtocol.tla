--------------------------- MODULE MCFlashProtocol ---------------------------
(* A target with one or two files; chunks are told apart so that content is. *)
EXTENDS FlashProtocol

CONSTANTS f1, f2, c1, c2
=============================================================================
