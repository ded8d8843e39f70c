SPECIFICATION Spec
CONSTANTS
  Reader = {r1}
  Writer = {w1}
  LEN_MSG = 2
  MaxCount = 3
  MaxRoff = 7
  Preempt = TRUE
  Signals = FALSE
INVARIANTS SleepsOnlyWithoutData
