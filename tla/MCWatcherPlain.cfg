SPECIFICATION FairSpec
CONSTANTS
  Path = {p}
  Cookie = {}
  NoPath = NoPath
  Content = {c1, c2, c3}
  Odd = c3
  Looks <- OddLooks
  Absent = Absent
  CloseWriteIdle = 1
  IdleWindow = 2
  MaxWait = 3
  MoveCookieTTL = 2
  Dir = {}
  Name = {}
  Below <- NoDirectories
  FileOps = {"write", "delete"}
  MaxOps = 4
  MaxLosses = 0
  MaxStops = 1
  MaxFailures = 0
  MaxFaults = 1
INVARIANTS SteadyStateIsFullScan CacheTellsIndex
PROPERTIES EventuallyMirrors ImplementsMirror
