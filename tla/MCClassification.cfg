SPECIFICATION Spec
CONSTANTS
  Name <- Names
  Dir <- Dirs
  File <- Files
  WalkOrder <- Order
  RootLists <- Nested
  Rulebooks <- Books
INVARIANTS StackFits WalkIndexesWanted WatcherIndexesOnlyWalked
CHECK_DEADLOCK FALSE
