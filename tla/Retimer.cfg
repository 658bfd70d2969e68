SPECIFICATION Spec
CONSTANTS
  MaxBuffer = 2
  MaxDelay = 2
  MinInterval = 2
  Poll = 2
  Stamp = {1, 2, 6}
  Client = {1, 2}
  MaxEvents = 4
  MaxTime = 8
INVARIANT WaitBound
PROPERTY FifoSpec
CHECK_DEADLOCK FALSE
