---------------------------- MODULE MCSelfServer -----------------------------
(* SelfServer with files of one block and of two.                          *)
EXTENDS SelfServer

CONSTANTS short, long

OneAndTwo == short :> 1 @@ long :> 2
=============================================================================
