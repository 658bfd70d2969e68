SPECIFICATION SessionSpec
CONSTANTS
  NumSlots = 3
  TouchId = {1, 2, 3, 4}
  Pos = {p1}
  MaxPressure = 1
  PenEvents <- OnlyHover
  EmitMayFail = FALSE
INVARIANTS RejectedStaysRejected OneFingerIgnored PalmRejected GestureFilter
