SPECIFICATION FilesSpec
CONSTANTS
  p1 = p1  m1 = m1  m2 = m2  m3 = m3
  laptop = laptop  desktop = desktop  one = one  two = two
  None = None
  Procs = {p1}
  Engrams = {m1, m2}
  MaxVersion = 1
  Days <- TwoDays
  KeepDaily = 1
  KeepWeekly = 0
  WeekOf <- OneADay
  MaxFaults = 1
  Devices = {laptop, desktop}
  MaxActs = 3
  MaxCrashes = 1
  MaxPushes = 4
  Installers = {laptop, desktop}
  Names = {m1, m2}
  Dirs = {m1, m2, m3}
  Fallbacks <- CalledAlike
  Vers = {one, two}
  Overlap = FALSE
  MaxJobs = 2
  MaxEdits = 1
  MaxMishaps = 1
  NoPack = NoPack
SYMMETRY Symmetric
\* The bounds may be used up.
CHECK_DEADLOCK FALSE
INVARIANTS StampIsTrue AckedSurvive DoneMeansCovered
  NothingLost RemovalStands LocalStaysLocal NotesFollow BaselineStands
PROPERTIES GoodSnapshotStands NeighboursStay
