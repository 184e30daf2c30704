SPECIFICATION FairSpec
CONSTANTS
  Works = {w1, w2}
  NoWork = NoWork
  InitialThreads <- Three
  MaxThreads = 3
  DEF_WQ_NR_THRS = 2
INVARIANTS
  TypeOK
  Counters
  NoLostCompletion
  NoLostWakeup
PROPERTIES
  ImplementsPool
  WorksComplete
