----------------------------- MODULE MCAuthFlow -----------------------------
(***************************************************************************)
(* A task with a token and one with a signature.  The second certificate   *)
(* is published a moment before the first one expires, so that a list read *)
(* at the start is of no use at the end.                                   *)
(***************************************************************************)
EXTENDS AuthFlow, TLC

CONSTANTS cert1, cert2

MCPublishedFrom == cert1 :> 0 @@ cert2 :> 1
MCValidFrom == cert1 :> 0 @@ cert2 :> 1
MCValidTo == cert1 :> 1 @@ cert2 :> 3
=============================================================================
