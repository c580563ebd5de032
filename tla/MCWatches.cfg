CONSTANTS
  a = a
  b = b
  p1 = p1
  p2 = p2
  NoWatch = NoWatch
  Watch = {a}
  Process = {p1, p2}
  Total = {30000, 28000}
  Target = 30000
  MaxActive = 1
  MaxPerDay = 1
  MaxActs = 5
SYMMETRY Either
SPECIFICATION Spec
INVARIANTS
  WatchInv
PROPERTIES
  StoppedStaysSilent
CHECK_DEADLOCK FALSE
