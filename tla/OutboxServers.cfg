SPECIFICATION ServersSpec
CONSTANTS
  t1 = t1  t2 = t2  s1 = s1  s2 = s2
  w1 = w1  w2 = w2
  Local = Local
  None = None
  Writers = {w1, w2}
  Targets <- TwoTargets
  ServerOf <- OwnServers
  Honours = {s1}
  Transactional = FALSE
  RemoteOnly = TRUE
  MayLapse = FALSE
  Ops = {"forget", "update", "tighten"}
  MaxOps = 1
  MaxKeys = 1
  MaxCopies = 4
  MaxLost = 2
  MaxCrashes = 1
SYMMETRY Symmetric
INVARIANTS OnePusher ConcurrencyAddsNoDuplicates RemoteOnlyNeverLocal
PROPERTIES RetargetSurvives
\* The row may be delivered or forgotten.
CHECK_DEADLOCK FALSE
