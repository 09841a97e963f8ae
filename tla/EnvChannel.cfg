SPECIFICATION FairSpec
CONSTANTS
  Envs = {e1}
  e1 = e1
  InitFrames = 1
  SyncMode = TRUE
  MaxProcs = 3
  MaxSends = 5
  MaxCrashes = 2
INVARIANTS TypeOK OneInFlight NeverBothWaiting NoStrayProcess
PROPERTIES GymSpec CallsReturn
CHECK_DEADLOCK FALSE
