SPECIFICATION PackSpec
CONSTANTS
  i1 = i1  alpha = alpha  beta = beta  gamma = gamma
  Installers = {i1}
  Names = {alpha, beta}
  Dirs = {alpha, beta, gamma}
  Fallbacks <- CalledAlike
  Vers = {1, 2}
  Overlap = FALSE
  MaxJobs = 1
  MaxEdits = 0
  MaxMishaps = 0
  NoPack = NoPack
CHECK_DEADLOCK FALSE
INVARIANTS UntouchedIsNotModified
