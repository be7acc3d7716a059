SPECIFICATION FairLoopSpec
CONSTANTS
  Path = {p, q}
  Cookie = {k}
  NoPath = NoPath
  CloseWriteIdle = 1
  IdleWindow = 2
  MaxWait = 4
  MoveCookieTTL = 2
INVARIANTS LatestReportWins DeadlineExact
PROPERTY BufferDrains
