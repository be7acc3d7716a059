SPECIFICATION Spec
CONSTANTS
  Path = {p}
  Cookie = {k1}
  NoPath = NoPath
  Content = {c1, c2, c3}
  Odd = c3
  Looks <- OddLooks
  Absent = Absent
  CloseWriteIdle = 1
  IdleWindow = 2
  MaxWait = 3
  MoveCookieTTL = 2
  Dir = {}
  Name = {}
  Below <- NoDirectories
  FileOps = {"write", "moveOut"}
  MaxOps = 2
  MaxLosses = 0
  MaxStops = 0
  MaxFailures = 0
  MaxFaults = 0
INVARIANT SteadyStateIsFullScan
