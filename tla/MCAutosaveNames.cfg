SPECIFICATION Spec
CONSTANTS
  None = None
  MaxPlay = 1
  MaxChange = 1
  MaxName = 3
  MaxPull = 1
CHECK_DEADLOCK FALSE
PROPERTIES EachPlayHasItsState
