CONSTANTS
  Half = 32
  Span = 5
  Stride = 4
  BoundLefts = {FALSE}
  Backs = {FALSE}
  Loops <- MCLoops
  MaxStep = 3
  MaxCopies = 9
  MaxTrips = 64
SPECIFICATION FairSpec
CHECK_DEADLOCK FALSE
INVARIANTS SameTrips
PROPERTIES Leaving
