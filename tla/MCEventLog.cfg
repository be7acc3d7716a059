SPECIFICATION FairSpec
CONSTANTS
  Limits = {1, 2, 3}
  MaxPage = 2
  Retention = 1
  MaxEvents = 4
  MaxClock = 4
INVARIANTS RetainedDelivered NothingLostSilently
PROPERTY EveryEventRead
CHECK_DEADLOCK FALSE
