SPECIFICATION ProgressSpec
CONSTANTS
  r1 = r1  r2 = r2  r3 = r3  r4 = r4  k1 = k1  k2 = k2
  p1 = p1  p2 = p2
  None = None  Nil = Nil
  Runs <- FourRuns
  Keys <- TwoKeys
  Flushers <- TwoProcs
  Tokens <- FiveTokens
  HardLinks = FALSE
  MayLapse = FALSE
  AtomicSweep = FALSE
  MaxDepth = 3
  MaxFaults = 2
\* Every call may have been made and served.
CHECK_DEADLOCK FALSE
INVARIANTS OneRunPerKey FirstComeFirstServed
PROPERTIES EveryCallRuns DeadClaimIsReplaced
