SPECIFICATION MCSpec
CONSTANTS
  linux = linux
  windows = windows
  solaris = solaris
  OS = {linux, windows, solaris}
  NodeOS = {linux, windows}
  Major = {n22, n24}
  n22 = n22
  n24 = n24
  l1 = l1
  w1 = w1
  Flags <- MCFlags
  Config <- MCConfig
  DefaultNodeLTS <- MCDefaultNodeLTS
  MaxCells = 2
  MaxEvents = 2
INVARIANTS
  Inv
  ExitTellsTruth
PROPERTIES
  TerminatesWithImages
CHECK_DEADLOCK FALSE
