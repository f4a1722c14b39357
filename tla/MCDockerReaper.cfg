SPECIFICATION Spec
CONSTANTS
  p = p
  d = d
  s = s
  fix = fix
  other = other
  Unscoped = Unscoped
  Engine <- MCEngine
  Kind <- MCKind
  Branch <- MCBranch
  TTL = 1
  Grace = 1
  MaxStart = 1
INVARIANTS
  TypeOK
  SweepTellsTruth
PROPERTIES
  ForeignSpared
  LeakIsReaped
CHECK_DEADLOCK FALSE
