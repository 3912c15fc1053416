------------------------------ MODULE MCPubsub ------------------------------
(* Instance of Pubsub for TLC: the pubsub nodes are interchangeable. *)
EXTENDS Pubsub, TLC

Symmetry == Permutations(Node)
=============================================================================
