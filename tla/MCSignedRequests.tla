-------------------------- MODULE MCSignedRequests --------------------------
(***************************************************************************)
(* Instances of the signed requests for TLC.                               *)
(***************************************************************************)
EXTENDS SignedRequests, TLC

CONSTANTS a, b

\* Too far ahead, just in time, and too old.
MinutesOld == {-2, 5, 6}

Symmetry == Permutations({a, b})
=============================================================================
