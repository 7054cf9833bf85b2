-------------------------- MODULE MCRequestChannel --------------------------
(***************************************************************************)
(* Instances of the request channel for TLC: three calls, two of which are *)
(* the same signed request, sent again.                                    *)
(***************************************************************************)
EXTENDS RequestChannel, TLC

CONSTANTS first, retry, later

RetryNonces == (first :> 0) @@ (retry :> 0) @@ (later :> 1)
=============================================================================
