CONSTANTS
  m1 = m1
  m2 = m2
  NoMessage = NoMessage
  Message = {m1, m2}
  Word = {"plain"}
  Fit = {"default"}
  Free = 1
  Budget = 2
  MaxFaults = 1
  MaxActs = 1
SYMMETRY Either2
SPECIFICATION Spec
INVARIANTS
  OneAnswerPerMessage
CHECK_DEADLOCK FALSE
