SPECIFICATION FairSpec
CONSTANTS
  t1 = t1
  t2 = t2
  s1 = s1
  s2 = s2
  w1 = w1
  w2 = w2
  Local = Local
  None = None
  Writers = {w1, w2}
  Targets <- OneTarget
  ServerOf <- OneServer
  Honours = {s1}
  Transactional = FALSE
  RemoteOnly = FALSE
  MayLapse = FALSE
  Ops = {"forget", "rescope", "upload", "tighten"}
  MaxOps = 2
  MaxKeys = 2
  MaxCopies = 1
  MaxLost = 1
  MaxCrashes = 1
PROPERTY EventuallyDelivered
PROPERTY EventuallyRetired
CHECK_DEADLOCK FALSE
