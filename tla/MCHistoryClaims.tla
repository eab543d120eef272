--------------------------- MODULE MCHistoryClaims ---------------------------
(***************************************************************************)
(* Files that several processes write without the store lock, or may have  *)
(* to: the history log, and the claim of an outbox entry.  A behaviour     *)
(* moves the one or the other.                                             *)
(***************************************************************************)
EXTENDS MCHistoryChain, OutboxClaim

VARIABLE part           \* the component that moves

EightTokens == 1..8

BothInit == part \in {"log", "claim"} /\ Init /\ ClaimInit

BothNext ==
  /\ UNCHANGED part
  /\ \/ part = "log" /\ Next /\ UNCHANGED claimVars
     \/ part = "claim" /\ ClaimNext /\ UNCHANGED vars

BothSpec == BothInit /\ [][BothNext]_<<part, vars, claimVars>>
=============================================================================
