SPECIFICATION FairSpec
CONSTANTS
  Cli = {c1}
  Tool = {t1}
  None = None
  WatcherProc = WatcherProc
  Second <- Clocks
  Faulty = TRUE
  MaxStops = 1
  MaxPeriodic = 1
INVARIANTS SingleWriter CompleteMeansScanned NothingLeftRunning ServingIsVisible
PROPERTIES StatusesFinal PendingServed
CHECK_DEADLOCK FALSE
