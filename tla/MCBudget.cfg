CONSTANTS
  w1 = w1
  w2 = w2
  r1 = r1
  r2 = r2
  Worker = {w1, w2}
  Request = {r1, r2}
  Revision = {1}
  Est = 2
  Actual = {1, 3}
  MaxCalls = 2
  Hard = 4
  Daily = 4
  Images = 1
  MaxTries = 2
  Days = 1
  MaxWork = 2
  MaxFaults = 1
SPECIFICATION FairSpec
INVARIANTS
  LedgerInv
  SpendLimits
PROPERTIES
  EveryEmailIsAnswered
CHECK_DEADLOCK FALSE
