SPECIFICATION Spec
CONSTANTS
  a = a
  b = b
  fixA = fixA
  fixB = fixB
  Unknown = Unknown
  Run <- MCRun
  Estimate <- MCBothOne
  Merged <- MCNoneMerged
  Branch <- MCBranch
  FirstImages = {"wanted"}
  Versioned = TRUE
  MinDeadline = 1
  HardCap = 3
  Grace = 1
  MaxTime = 3
PROPERTY
  BudgetKept
CHECK_DEADLOCK FALSE
