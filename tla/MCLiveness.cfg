CONSTANTS
  x = x
  y = y
  Temp = {x, y}
  Label <- MCLabel
  NoLabel = "none"
  Programs <- MCPrograms
SPECIFICATION FairSpec
CHECK_DEADLOCK FALSE
INVARIANTS Exact
PROPERTIES OnlyGrows Termination
