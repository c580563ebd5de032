CONSTANTS
  Cases <- MCCases
  DraftLife = 15
  ManualFor = 360
  ExpiryLimit = 3
  Step = 8
  SmallSample = 5
  FullSample = 10
  MinReads = 4
  MinSpan = 6
  MovePct = 3
  MoveCents = 500
  Lookback = 72
  Tolerance = 1
  CurrentFor = 24
  DeliveryBuffer = 24
  MinPoints = 4
  MinHours = 12
  StaleAfter = 24
  ShiftPct = 5
  ShiftCents = 300
  DropPct = 25
  DropMin = 10
  TypicalMin = 5
  Scenes <- MCScenesAll
  Settled <- MCSettled
  Talks <- MCTalksAll
  FreshFor = 6
  DailyLimit = 2
  PageSize = 2
  MaxRounds = 3
  MaxAsked = 2
  Reach = 300
  SameTrip = 60
SPECIFICATION FairJourney
INVARIANTS
  PickInv
  WaitIsSound
  RangeIsOfPastEvents
  DepthIsSpentInOrder
  ChoiceInv
  SearchIsHonest
  ComparedInv
PROPERTIES
  MailedStillHolds
  SettledKeepsTheRules
  EnquiryAnswers
CHECK_DEADLOCK FALSE
