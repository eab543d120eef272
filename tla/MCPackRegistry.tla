--------------------------- MODULE MCPackRegistry ---------------------------
(* Instances of PackRegistry for TLC. *)
EXTENDS PackRegistry

CONSTANTS i1, alpha, beta, gamma

CalledAlike == [n \in Names |-> <<n>>]
=============================================================================
