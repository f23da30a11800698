CONSTANTS
  t1 = t1
  t2 = t2
  t3 = t3
  t4 = t4
  t5 = t5
  c = c
  Temp <- MCTemp
  Const <- MCConst
  Fresh = {f1, f2}
  PhiTables <- MCPhiTables
  Nothing = Nothing
SPECIFICATION FairSpec
CHECK_DEADLOCK FALSE
INVARIANTS Parallel NothingLost QueuedOnce OnlyCirclesLeft
PROPERTIES Termination
