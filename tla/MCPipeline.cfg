SPECIFICATION MCSpec
CONSTANTS
  MaxLines = 3
INVARIANTS
  Inv
PROPERTIES
  ImplementsLegStream
  CancelReturns
