---------------------------- MODULE MCEventStream ----------------------------
(***************************************************************************)
(* Instances of the event stream for TLC: account a subscribes, leaves and *)
(* subscribes again.                                                       *)
(***************************************************************************)
EXTENDS EventStream

CONSTANTS a, b, one, two

Request(type, from, to) == [type |-> type, from |-> from, to |-> to]

\* An event of both accounts, one that names a twice, and a request without event.
MixedRequests ==
    {Request("Transfer", a, b), Request("MintToken", a, a), Request("AdminMint", Nobody, a)}

Subscribers == [s \in {one, two} |-> a]
Filters     == [s \in {one, two} |-> IF s = one THEN {} ELSE {"MintToken"}]
=============================================================================
