SPECIFICATION MCSpec
CONSTANTS
  Producer = {legs, tail}
  Cap = 2
  ChanCap = 1
  MaxEmit = 3
INVARIANTS
  QueueInv
PROPERTIES
  ImplementsFifo
  StreamEnds
