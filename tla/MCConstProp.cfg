CONSTANTS
  i0 = i0
  i1 = i1
  i2 = i2
  x0 = x0
  x1 = x1
  x2 = x2
  x3 = x3
  x4 = x4
  y = y
  c = c
  Temp = {i0, i1, i2, x0, x1, x2, x3, x4, y, c}
  Val = {0, 1, 2}
  Programs <- AssignedFirst
  Udf = Udf
  Idf = Idf
  Nothing = Nothing
SPECIFICATION Spec
CHECK_DEADLOCK FALSE
INVARIANTS Sound Justified
PROPERTIES OnlyFalls Dwindles
