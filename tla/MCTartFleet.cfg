SPECIFICATION MCSpec
CONSTANTS
  p = p
  s = s
  t = t
  fix = fix
  other = other
  Unscoped = Unscoped
  Engine <- MCEngine
  Kind <- MCKind
  Branch <- MCBranch
  TTL = 1
  Grace = 1
  MaxStart = 0
INVARIANTS
  Inv
  SweepTellsTruth
PROPERTIES
  ForeignSpared
  ImplementsLegStream
  TartCancelReturns
  OrphanIsReaped
CHECK_DEADLOCK FALSE
