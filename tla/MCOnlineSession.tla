-------------------------- MODULE MCOnlineSession --------------------------
(***************************************************************************)
(* A block, a sender and a task that closes, each of the two on the        *)
(* block's client or on a resumed one.                                     *)
(***************************************************************************)
EXTENDS OnlineSession
=============================================================================
