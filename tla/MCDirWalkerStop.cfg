SPECIFICATION FairSpec
CONSTANTS
  Worker = {w1, w2}
  Dir <- MCDir
  File <- MCFile
  Root <- MCRoot
  Child <- MCChild
  Hidden <- MCHidden
  Wanted <- MCWanted
  Veto <- MCVeto
  Capacity = 1
  Batch = 2
  None = None
INVARIANT
  Complete
PROPERTY
  SurvivorDrains
CHECK_DEADLOCK FALSE
