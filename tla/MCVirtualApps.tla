---------------------------- MODULE MCVirtualApps ----------------------------
(***************************************************************************)
(* An instance of the process for TLC.                                     *)
(***************************************************************************)
EXTENDS VirtualApps

\* Ids that differ in the first half, in the second, and in both.
FourIds == {<<0, 0, 0, 1>>, <<0, 0, 1, 0>>, <<0, 1, 0, 0>>, <<1, 1, 0, 1>>}

CommandLines == {<<"rest", "grpc">>, <<"rest", "tui">>, <<"rest", "grpc", "tui">>}
=============================================================================
