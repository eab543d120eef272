SPECIFICATION Spec
CONSTANTS
  t1 = t1  t2 = t2  s1 = s1  s2 = s2
  w1 = w1  w2 = w2  w3 = w3
  Local = Local
  None = None
  Writers = {w1, w2, w3}
  Targets <- OneTarget
  ServerOf <- OneServer
  Honours = {s1}
  Transactional = TRUE
  RemoteOnly = FALSE
  MayLapse = TRUE
  Ops = {"forget", "rescope", "upload", "tighten"}
  MaxOps = 2
  MaxKeys = 2
  MaxCopies = 1
  MaxLost = 1
  MaxCrashes = 1
SYMMETRY Symmetric
INVARIANTS NoLostWrite NoStrayCopy
\* The row may be delivered or forgotten.
CHECK_DEADLOCK FALSE
