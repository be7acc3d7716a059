SPECIFICATION FairSpec
CONSTANTS
  Opener = {w, c1, c2}
  Watcher = w
  MaxStops = 2
  MaxOpens = 1
INVARIANTS LoneOpenSucceeds OpenHasTables
PROPERTIES LoneOpenCompletes ComesUp
