SPECIFICATION Spec
CONSTANTS
  p1 = p1  p2 = p2  p3 = p3  p4 = p4
  i1 = i1  i2 = i2  i3 = i3  i4 = i4  i5 = i5  i6 = i6
  None = None
  Procs <- FourProcs
  HostOf <- TwoHosts
  Inos <- SixInos
  HardLinks = TRUE
  MayStall <- NoStall
  Slots = 3
  MaxAcq = 2
  MaxCrashes = 3
\* Everyone may have used up its acquisitions, or be dead.
CHECK_DEADLOCK FALSE
SYMMETRY TwoHostSymmetry
INVARIANTS MutualExclusion
PROPERTY ImplementsStoreMutex
