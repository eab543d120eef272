SPECIFICATION Spec
CONSTANTS
  p1 = p1  p2 = p2  p3 = p3
  None = None
  NoFile = NoFile
  Procs = {p1, p2, p3}
  MaxMonth = 1
  MaxEvents = 4
  MaxBatch = 1
  MaxCrashes = 0
SYMMETRY Symmetric
\* The last event may have been written.
CHECK_DEADLOCK FALSE
INVARIANTS NobodyIsAccused
