SPECIFICATION Spec
CONSTANTS
  File <- MCFile
  Names <- MCNames
  Size <- MCSize
  Val = {0, 1}
  NoVal = NoVal
  NULL = NULL
  FREED = FREED
INVARIANTS UnloadSurvives
CHECK_DEADLOCK FALSE
