CONSTANTS
  r0 = r0
  r1 = r1
  s0 = s0
  a = a
  b = b
  f = f
  Floats = {s0, f}
  Ints = {r0, r1, a, b}
  Reg = {r0, r1, s0}
  Programs <- MCPrograms
  Label = {"loop", "end"}
  NoLabel = "none"
  Undefined = Undefined
  Spillable <- MCSpillable
  MaxRounds = 3
  MaxSteps = 20
SPECIFICATION Spec
CHECK_DEADLOCK FALSE
INVARIANTS UsesAgree
