SPECIFICATION Spec
CONSTANTS
  NumSlots = 2
  TouchId = {1}
  Pos = {p1}
  MaxPressure = 1
  PenEvents <- AllKinds
  EmitMayFail = TRUE
INVARIANTS PenAlone PressureOnlyInStroke SerialOnce HoverWithoutPressure
PROPERTIES NoTouchUnderPen
