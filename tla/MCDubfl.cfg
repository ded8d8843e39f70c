SPECIFICATION FairSpec
CONSTANTS
  File <- MCFile
  Names <- MCNames
  Size <- MCSize
  Val = {0, 1}
  NoVal = NoVal
  NULL = NULL
  FREED = FREED
INVARIANTS MediumWhole CleanSectorsInFile
PROPERTIES OnlySwapKills UnloadSavesAll OperationsEnd
CHECK_DEADLOCK FALSE
