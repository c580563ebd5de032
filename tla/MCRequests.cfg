CONSTANTS
  m1 = m1
  m2 = m2
  m3 = m3
  d1 = d1
  d2 = d2
  d3 = d3
  w1 = w1
  w2 = w2
  NoWorker = NoWorker
  NoJob = NoJob
  NoDraft = NoDraft
  Staff = Staff
  Message = {m1, m2}
  Draft = {d1}
  Worker = {w1, w2}
  Outcome = {"researching", "closed"}
  AutoApprove = TRUE
  ExpiryLimit = 1
  Budget = 2
  MaxRev = 2
  MaxFaults = 1
  MaxActs = 2
SPECIFICATION LaterSpec
INVARIANTS
  TypeOK
  RevisionsInOrder
PROPERTIES
  WithdrawnIsNeverSent
CHECK_DEADLOCK FALSE
SYMMETRY Workers
