--------------------------- MODULE MCHistoryChain ---------------------------
(* Instances of HistoryChain for TLC. *)
EXTENDS HistoryChain, TLC

Symmetric == Permutations(Procs)
=============================================================================
