CONSTANTS
  i1 = i1
  i2 = i2
  w1 = w1
  w2 = w2
  h1 = h1
  h2 = h2
  NoWorker = NoWorker
  NoIntent = NoIntent
  Intent = {i1}
  Worker = {w1, w2}
  Hook = {h1, h2}
  Window = 2
  Horizon = 2
  Budget = 2
  MaxFaults = 2
SPECIFICATION Spec
INVARIANTS
  TypeOK
  OneSubmitter
  SuppressedGetsNoMore
PROPERTIES
  OnlyRacesEraseABounce
  FirstRetryInWindow
  ImplementsLetter
CHECK_DEADLOCK FALSE
SYMMETRY Alike
