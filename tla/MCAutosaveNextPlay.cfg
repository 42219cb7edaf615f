SPECIFICATION FairSpec
CONSTANTS
  None = None
  MaxPlay = 2
  MaxChange = 1
  MaxName = 4
  MaxPull = 0
CHECK_DEADLOCK FALSE
PROPERTIES EveryChangeIsSaved
