SPECIFICATION Spec
CONSTANTS
  docs = docs
  old = old
  disk = disk
  a1 = a1
  a2 = a2
  b1 = b1
  b2 = b2
  e1 = e1
  e2 = e2
  x = x
  File <- Files
  Dir = {docs, old, disk}
  Parent <- Parents
  Content <- Contents
  Score <- BaseScores
  Regenerable = {disk}
  Heavy = {docs}
  Outside = {disk, x}
  ReadBack <- FirstWords
  CollapseAt = 2
  FirstRules <- Files0
  Session = {s1, s2}
PROPERTIES DecisionsTakeEffect OnlyDecided KeepsACopy
SYMMETRY Sessions
CHECK_DEADLOCK FALSE
