CONSTANTS
  Half = 32
  Span = 3
  Stride = 4
  BoundLefts = {TRUE}
  Backs = {FALSE}
  Loops <- MCLoops
  MaxStep = 3
  MaxCopies = 9
  MaxTrips = 64
SPECIFICATION Spec
CHECK_DEADLOCK FALSE
INVARIANT UntilTempRelEnd
