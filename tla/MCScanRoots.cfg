SPECIFICATION Spec
CONSTANTS
  a = a
  b = b
  r1 = r1
  r2 = r2
  Path = {a, b}
  Content = {c1, c2}
  Absent = Absent
  Root = {r1, r2}
  RootOf <- TwoRoots
  ScanRoots <- AnyRoots
  BatchSize = 1
  MaxClock = 1
  MaxOps = 0
  MaxScans = 2
  MaxFaults = 0
PROPERTY OtherRootsPreserved
SYMMETRY Symmetry
CHECK_DEADLOCK FALSE
