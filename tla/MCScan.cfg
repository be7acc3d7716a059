SPECIFICATION Spec
CONSTANTS
  a = a
  b = b
  r1 = r1
  r2 = r2
  Path = {a, b}
  Content = {c1, c2}
  Absent = Absent
  Root = {r1, r2}
  RootOf <- TwoRoots
  ScanRoots <- AnyRoots
  BatchSize = 1
  MaxClock = 2
  MaxOps = 1
  MaxScans = 2
  MaxFaults = 1
INVARIANTS CompletedScanMirrors HistoryDisjoint
PROPERTIES HistoryKept MovedHasSource LogKept ImplementsMirror
SYMMETRY Symmetry
CHECK_DEADLOCK FALSE
