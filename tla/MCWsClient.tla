------------------------------ MODULE MCWsClient ----------------------------
(***************************************************************************)
(* Instances of WsClient for TLC.                                          *)
(***************************************************************************)
EXTENDS WsClient, TLC

Symmetry == Permutations(Calls)

=============================================================================
