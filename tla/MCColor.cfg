CONSTANTS
  NodeCount = 5
  RegCount = 1
  ColourCount = 2
  MoveMax = 2
  Node <- MCNode
  Reg <- MCReg
  Colour <- MCColour
  Precolour <- MCPrecolour
  StkUse = {3, 4}
  ConflictGraphs <- MCConflictGraphs
  MoveGraphs <- MCMoveGraphs
  None = None
SPECIFICATION FairSpec
CHECK_DEADLOCK FALSE
INVARIANTS NoSharedPlace EveryTempPlaced WorklistsPartition EdgesKept AbortOnlyCrowded NoNeedlessSpill
PROPERTIES Termination Implements
