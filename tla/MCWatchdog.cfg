SPECIFICATION MCSpec
CONSTANTS
  t1 = t1
  t2 = t2
  t3 = t3
  fa = fa
  fb = fb
  h1 = h1
  h2 = h2
  NoTest = NoTest
  Test <- MCTest
  File <- MCFile
  FileOf <- MCFileOf
  Parent <- MCParent
  Helper <- MCHelper
  Stubborn <- MCStubborn
INVARIANTS
  Inv
  ReapedIsReported
PROPERTIES
  AlwaysReported
