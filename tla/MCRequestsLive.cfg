CONSTANTS
  m1 = m1
  m2 = m2
  m3 = m3
  d1 = d1
  d2 = d2
  d3 = d3
  w1 = w1
  w2 = w2
  NoWorker = NoWorker
  NoJob = NoJob
  NoDraft = NoDraft
  Staff = Staff
  Message = {m1}
  Draft = {d1, d2, d3}
  Worker = {w1, w2}
  Outcome = {"researching", "closed"}
  AutoApprove = FALSE
  ExpiryLimit = 2
  Budget = 2
  MaxRev = 1
  MaxFaults = 0
  MaxActs = 3
SPECIFICATION FairSpec
PROPERTIES
  ResearchEnds
  ApprovedIsSettled
CHECK_DEADLOCK FALSE
