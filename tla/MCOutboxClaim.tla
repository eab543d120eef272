---------------------------- MODULE MCOutboxClaim ----------------------------
(* Instances of OutboxClaim for TLC. *)
EXTENDS OutboxClaim

CONSTANTS p1, p2

TwoProcs == {p1, p2}
FiveTokens == 1..5
=============================================================================
