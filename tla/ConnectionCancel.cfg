SPECIFICATION Spec
CONSTANTS
  MaxWaits = 2
INVARIANTS
  CancelSticks
CHECK_DEADLOCK FALSE
