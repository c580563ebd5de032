CONSTANTS
  e1 = e1
  e2 = e2
  e3 = e3
  e4 = e4
  w1 = w1
  w2 = w2
  NoEmail = NoEmail
  NoWorker = NoWorker
  Email = {e1, e2, e3, e4}
  Worker = {w1, w2}
  Sender <- MCSender
  References <- MCReferences
  AutoMail = {e1, e4}
  ForeignMail = {}
  Unnamed = {e3}
  Stored = {e1, e4}
  Page = 1
  Budget = 1
  MaxFaults = 1
  MaxActs = 3
SPECIFICATION FairSpec
INVARIANTS
  OneOpenRequest
  MailInv
PROPERTIES
  ImplementsMailbox
  DeliveredIsReadOrRaised
CHECK_DEADLOCK FALSE
