SPECIFICATION FairSpec
CONSTANTS
  MaxBoots = 3
  MaxCrashes = 0
PROPERTY ShutdownCompletes
CHECK_DEADLOCK FALSE
