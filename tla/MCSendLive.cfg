CONSTANTS
  i1 = i1
  i2 = i2
  w1 = w1
  w2 = w2
  h1 = h1
  h2 = h2
  NoWorker = NoWorker
  NoIntent = NoIntent
  Intent = {i1, i2}
  Worker = {w1}
  Hook = {}
  Window = 2
  Horizon = 1
  Budget = 2
  MaxFaults = 2
SPECIFICATION FairSpec
PROPERTY
  EveryEmailLeavesQueue
CHECK_DEADLOCK FALSE
