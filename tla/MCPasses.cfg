CONSTANTS
  Inputs <- Given
  Events = 4
  Doubles = 6
  Plans <- Every
SPECIFICATION Spec
CHECK_DEADLOCK FALSE
INVARIANTS NeverAborts SameBehaviour InSSA GraphOfCode NothingUnused
PROPERTIES NoMoreWork
