SPECIFICATION FairSpec
CONSTANTS
  r1 = r1
  r2 = r2
  Root = {r1, r2}
  Cmd = {c1, c2}
  NoRoot = NoRoot
  InitialConf <- Files
  MaxUpsets = 2
  MaxStops = 1
INVARIANTS SerialCommandsApply  WatchedAreRoots
  
CHECK_DEADLOCK FALSE
