SPECIFICATION Spec
CONSTANTS
  c1 = c1
  c2 = c2
  Client = {c1, c2}
  LEN_MSG = 2
  PageSize = 2
  Counts = {1, 3}
  Lengths = {0, 3}
  MaxReads = 3
  NUL = NUL
  Junk = Junk
  Origin = Origin
INVARIANTS CatGetsText StringEnds
CHECK_DEADLOCK FALSE
SYMMETRY Files
