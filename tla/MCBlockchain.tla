---------------------------- MODULE MCBlockchain ----------------------------
(***************************************************************************)
(* Instances of the chain's locking for TLC: two transports read.           *)
(***************************************************************************)
EXTENDS Blockchain

CONSTANTS tui, rest
=============================================================================
