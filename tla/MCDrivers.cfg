CONSTANT Script <- DriverScripts
SPECIFICATION FairSpec
INVARIANTS
  LeavesNothing UsesOnlyWhatItHolds
  CallsFindWhatTheyNeed NobodyInFreedText
PROPERTY UnloadEnds
CHECK_DEADLOCK FALSE
