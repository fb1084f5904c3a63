---------------------------- MODULE MCTransport ----------------------------
(***************************************************************************)
(* Two calls on one client, each a read, a repeatable POST or a POST that  *)
(* acts once.  The unit of delay is half a second: InitialDelay 1 and      *)
(* BackoffMultiplier 2 are RetryConfig's, MaxDelay is lowered so that the  *)
(* Retry-After headers have a value on either side of it.                  *)
(***************************************************************************)
EXTENDS Transport

MCRoutes == {"invoice_status", "query_metadata", "send_invoice"}

MCMethod ==
  [r \in MCRoutes |-> IF r = "invoice_status" THEN "GET" ELSE "POST"]

MCRetryablePostPaths == {"query_metadata"}

\* A negative delay, one within max_delay and one far beyond it.
MCRetryAfterHeaders == {-1, 1, 60}
=============================================================================
