SPECIFICATION MCSpec
CONSTANTS
  None = None
  MaxPlay = 2
  MaxChange = 3
  MaxName = 4
  MaxPull = 2
CHECK_DEADLOCK FALSE
INVARIANTS DiscardedStaysGone CleanIsSaved
PROPERTIES SavesGoForward FirstChangesAreSaved
