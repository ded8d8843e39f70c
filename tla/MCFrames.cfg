SPECIFICATION Spec
CONSTANTS
  f1 = f1
  f2 = f2
  a1 = a1
  a2 = a2
  Frame <- MCFrame
  Address <- MCAddress
  NoAddress = NoAddress
  MaxFrames = 3
SYMMETRY Symmetry
INVARIANTS FreedOnce RightInterface StatisticsAddUp
CHECK_DEADLOCK FALSE
