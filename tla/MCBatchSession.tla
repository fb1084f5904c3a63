--------------------------- MODULE MCBatchSession ---------------------------
(***************************************************************************)
(* A package of two parts, the second shorter, a block that uploads it at  *)
(* most twice, and a task that closes the session on the block's client or *)
(* a resumed one.                                                          *)
(***************************************************************************)
EXTENDS BatchSession
=============================================================================
