SPECIFICATION Spec
CONSTANTS
  a = a
  b = b
  fixA = fixA
  fixB = fixB
  Unknown = Unknown
  Run <- MCRun
  Estimate <- MCEstimate
  Merged <- MCMerged
  Branch <- MCBranch
  FirstImages = {"absent", "stale"}
  Versioned = TRUE
  MinDeadline = 1
  HardCap = 2
  Grace = 1
  MaxTime = 2
INVARIANTS
  ScratchKept
  VerdictTellsTruth
PROPERTIES
  RecordsKept
  ImageIsChecked
  InterruptReturns
CHECK_DEADLOCK FALSE
