SPECIFICATION FairSpec
CONSTANTS
  Worker = {w1, w2}
  Dir <- MCDir
  File <- MCFile
  Root <- MCRoot
  Child <- MCChild
  Hidden <- MCHidden
  Wanted <- MCWanted
  Veto <- NoVeto
  Capacity = 1
  Batch = 2
  None = None
INVARIANTS
  TypeOK
  CounterExact
  NoPanic
  NoDuplicate
  Complete
PROPERTIES
  ImplementsCrawl
  WalkReturns
