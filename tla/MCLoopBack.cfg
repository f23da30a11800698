CONSTANTS
  Half = 32
  Span = 5
  Stride = 4
  BoundLefts = {FALSE}
  Backs = {TRUE}
  Loops <- MCLoops
  MaxStep = 3
  MaxCopies = 9
  MaxTrips = 64
SPECIFICATION Spec
CHECK_DEADLOCK FALSE
INVARIANT SameTrips
