SPECIFICATION InProcessSpec
CONSTANTS
  r1 = r1  r2 = r2
  Readers = {r1, r2}
  MaxWrites = 4
  MaxTick = 3
  NoSnapshot = NoSnapshot
  acme = acme
  Stores = {acme}
  Ids = {1, 2}
  PageSize = 1
  MaxPages = 2
  TTL = 1
  Cooldown = 2
  MaxTime = 3
  MaxTrouble = 1
  Nothing = Nothing
  s1 = s1  s2 = s2  w1 = w1
  home = home  away = away  shop = shop  desk = desk
  Sessions = {s1, s2}
  Writes = {w1}
  Scopes = {shop, desk}
  Choices = {desk}
  Workspaces = {home, away}
  ScopeAt <- ScopeOfHome
  Split = {away}
  NoScope = NoScope  NoSession = NoSession  Unregistered = Unregistered
  p = p  q = q  d = d  e = e
  tea = tea  milk = milk  jam = jam
  Savers = {p, q}
  Deciders = {d, e}
  Statements = {tea, milk, jam}
  MaxRows = 3
  MaxFaults = 2
  MaxUser = 1
  NoRow = NoRow
SYMMETRY Symmetric
\* The bounds may be used up.
CHECK_DEADLOCK FALSE
INVARIANTS HitMissesOnlyTies AbsentIsSound RemovedStaysGone LandsAtHome
  ProposalWaits OneSideDies HeldIsQueued
PROPERTIES LockedStands
