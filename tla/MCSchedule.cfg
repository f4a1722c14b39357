SPECIFICATION MCSpec
CONSTANTS
  l1 = l1
  l2 = l2
  N = 5
  OS <- MCOS
  Bench <- MCBench
  UnitOS <- MCUnitOS
  BenchesByOS <- MCBenchesByOS
  Capacity <- MCCapacity
INVARIANTS
  Inv
  CapacityRespected
  AnswerMatchesRouting
PROPERTIES
  Terminates
  PromiseSpec
