CONSTANTS
  m1 = m1
  m2 = m2
  NoMessage = NoMessage
  Message = {m1, m2}
  Word = {"plain", "delete", "confirm"}
  Fit = {"off_topic", "capability", "entry_help", "default", "official_sale", "limit"}
  Free = 1
  Budget = 2
  MaxFaults = 1
  MaxActs = 1
SYMMETRY Either2
SPECIFICATION Spec
INVARIANTS
  HeldInv
  NoSilentEnd
CHECK_DEADLOCK FALSE
