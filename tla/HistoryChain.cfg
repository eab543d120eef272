SPECIFICATION BothSpec
CONSTANTS
  p1 = p1  p2 = p2  p3 = p3
  None = None  Nil = Nil
  NoFile = NoFile
  Procs = {p1, p2, p3}
  MaxMonth = 2
  MaxEvents = 4
  MaxBatch = 2
  MaxCrashes = 1
  Flushers = {p1, p2, p3}
  Tokens <- EightTokens
  HardLinks = TRUE
  MayLapse = FALSE
  AtomicSweep = TRUE
  MaxDepth = 3
  MaxFaults = 2
SYMMETRY Symmetric
\* The last event may have been written.
CHECK_DEADLOCK FALSE
INVARIANTS OneChain VerifyAnswers NoGapUnderLock AppendsLand RemovalShows
PROPERTIES LiveClaimStands ImplementsMutex
