----------------------------- MODULE MCPolling -----------------------------
(***************************************************************************)
(* Polls of every call site.  A timeout of 0 and one of 5, which no        *)
(* multiple of the interval hits, no attempt, one, and three.              *)
(***************************************************************************)
EXTENDS Polling

MCSites == {"auth", "token", "invoice", "batch", "download", "query", "export"}
MCTimeouts == {0, 5}
MCAttemptLimits == {0, 1, 3}
=============================================================================
