SPECIFICATION Spec
CONSTANTS
  Reader = {r1}
  Writer = {w1, w2}
  LEN_MSG = 2
  MaxCount = 3
  MaxRoff = 7
  Preempt = FALSE
  Signals = FALSE
INVARIANTS WritesStayInBuffer ReadsOnlyMessage
PROPERTIES EofLasts
