SPECIFICATION FairSpec
CONSTANTS
  Thr = 3
  Rep = 2
  MaxCpus = 3
INVARIANTS NobodyLeftBehind HandedMemoryLives CountedAll
PROPERTIES InitEnds
CHECK_DEADLOCK FALSE
