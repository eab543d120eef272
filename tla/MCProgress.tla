----------------------------- MODULE MCProgress -----------------------------
(***************************************************************************)
(* Whoever waits for a lock gets its turn: the calls queued in front of    *)
(* the store lock, and the flushes that meet the claim of a dead process.  *)
(* A behaviour moves one of the two, under the fairness of its module.     *)
(***************************************************************************)
EXTENDS AsyncMutex, OutboxClaim, TLC

CONSTANTS r1, r2, r3, r4, k1, k2, p1, p2

VARIABLE part           \* the component that moves

progressVars == <<part, vars, claimVars>>

FourRuns == {r1, r2, r3, r4}
TwoKeys == {k1, k2}
TwoProcs == {p1, p2}
FiveTokens == 1..5

ProgressInit == part \in {"queue", "claim"} /\ Init /\ ClaimInit

QueueMoves(A) == part = "queue" /\ A /\ UNCHANGED <<part, claimVars>>
ClaimMoves(A) == part = "claim" /\ A /\ UNCHANGED <<part, vars>>

ProgressNext == QueueMoves(Next) \/ ClaimMoves(ClaimNext)

\* The fairness of the two modules.
ProgressFairness ==
  /\ \A r \in Runs : WF_progressVars(QueueMoves(Start(r) \/ Settle(r) \/ Evict(r)))
  /\ WF_progressVars(ClaimMoves(Lapse))
  /\ \A p \in Flushers : WF_progressVars(ClaimMoves(Claim(p) \/ Free(p)))

ProgressSpec == ProgressInit /\ [][ProgressNext]_progressVars /\ ProgressFairness
=============================================================================
