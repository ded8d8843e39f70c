SPECIFICATION FairSpec
CONSTANTS
  Reader = {r1}
  Writer = {w1}
  LEN_MSG = 1
  MaxCount = 1
  MaxRoff = 6
  Preempt = TRUE
  Signals = TRUE
INVARIANTS  OnlyTornReadsMoveIt
PROPERTIES LaterWriteWakes
