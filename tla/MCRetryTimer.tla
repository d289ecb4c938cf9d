---------------------------- MODULE MCRetryTimer ----------------------------
(***************************************************************************)
(* A small instance of RetryTimer for TLC.                                 *)
(***************************************************************************)
EXTENDS RetryTimer, TLC

CONSTANTS patient, hasty

\* One job is tried until its delay has met the cap twice, one is tried again once.
Retries == (patient :> 5) @@ (hasty :> 1)
=============================================================================
