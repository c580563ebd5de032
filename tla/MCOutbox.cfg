CONSTANTS
  k1 = k1
  k2 = k2
  w1 = w1
  w2 = w2
  NoWorker = NoWorker
  NoKey = NoKey
  Key = {k1, k2}
  Worker = {w1, w2}
  CustomerWork = {k1}
  Budget <- MCBudget
  Limit = 2
  MaxFaults = 2
SPECIFICATION FairSpec
INVARIANTS
  TypeOK
  LeaseAccounting
  PendingWithinBudget
PROPERTIES
  ImplementsWorkQueue
  EveryRowResolves
CHECK_DEADLOCK FALSE
