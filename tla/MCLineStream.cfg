SPECIFICATION MCSpec
CONSTANTS
  MaxWritten = 3
  PipeCap = 1
INVARIANTS
  LineInv
PROPERTIES
  QuietAfterReturn
  Returns
CHECK_DEADLOCK FALSE
