SPECIFICATION ClaimSpec
CONSTANTS
  p1 = p1  p2 = p2
  Nil = Nil
  Flushers <- TwoProcs
  Tokens <- FiveTokens
  HardLinks = TRUE
  MayLapse = FALSE
  AtomicSweep = FALSE
  MaxDepth = 3
  MaxFaults = 1
INVARIANTS OneClaimant
