CONSTANTS
  Half = 8
  Span = 7
  Stride = 4
  BoundLefts = {FALSE}
  Backs = {FALSE}
  Loops <- MCLoops
  MaxStep = 3
  MaxCopies = 9
  MaxTrips = 32
SPECIFICATION Spec
CHECK_DEADLOCK FALSE
INVARIANT TimesUntilEnd
