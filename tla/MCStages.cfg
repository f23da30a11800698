SPECIFICATION AllSpec
CHECK_DEADLOCK FALSE
CONSTANTS
  Lists <- LayoutLists
  done <- End
  Events = 3
  Key = {"a", "b"}
  Mark = "mark"
  Value = {"v", "w"}
  Absent = "absent"
  MaxBound = 5
  Codes <- FloatCodes
  FirstTemp = 15
  Bits = 8
  ImmBelow = 6
  ImmHigh = 12
  OffMax = 12
  Given <- Selected
INVARIANTS SameProgram SamePrints SameEffects Quadruples TraceSame FloatsExact Dominance ControlDependence SameMeaning Encodable
PROPERTIES ScopesKept
