SPECIFICATION FairSpec
CONSTANTS
  Envs = {e1}
  e1 = e1
  InitFrames = 1
  SyncMode = FALSE
  MaxProcs = 3
  MaxSends = 3
  MaxCrashes = 0
PROPERTY ResetReturns
CHECK_DEADLOCK FALSE
