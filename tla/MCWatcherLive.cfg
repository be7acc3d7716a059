SPECIFICATION FairSpec
CONSTANTS
  p = p
  q = q
  d = d
  e = e
  n = n
  Path <- Paths
  Dir <- Directories
  Name = {n}
  Below <- Holding
  Cookie = {k1}
  NoPath = NoPath
  Content = {c1, c2}
  Looks <- SameLooks
  Absent = Absent
  CloseWriteIdle = 1
  IdleWindow = 1
  MaxWait = 2
  MoveCookieTTL = 1
  FileOps = {"write", "rename", "moveOut", "moveIn", "lateWrite", "renameDir", "moveOutDir", "arriveDir"}
  MaxOps = 2
  MaxLosses = 1
  MaxStops = 0
  MaxFailures = 1
  MaxFaults = 1
INVARIANT NoStaleContent
PROPERTIES EventuallyMirrors RowsImplementMirror
