------------------------------ MODULE MCPubSub ------------------------------
(* Small instances of PubSub for TLC. *)
EXTENDS PubSub, TLC

ClientSymmetry == Permutations(Clients)
=============================================================================
