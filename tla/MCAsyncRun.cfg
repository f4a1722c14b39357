SPECIFICATION MCSpec
CONSTANTS
  w1 = w1
  w2 = w2
  p1 = p1
  Waiter <- MCWaiter
  Pruner <- MCPruner
INVARIANTS
  Inv
  WaitTellsTruth
  GoneIsTrue
PROPERTIES
  ImplementsRecord
  WaitReturns
