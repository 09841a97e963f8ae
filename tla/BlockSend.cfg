SPECIFICATION FairSpec
CONSTANTS
  FarDistance = 1
  Increment = 1
  OptDistance = 1
  GenDistance = 0
  MaxSends = 1
  MaxEmerging = 1
  Emerged = {0}
  NoBlock = NoBlock
  Guess = Guess
  MaxChanges = 2
  MaxUnloads = 1
  MaxRestarts = 1
INVARIANTS TypeOK SentIsHeld SentIsCurrent
PROPERTIES CatchesUp
CHECK_DEADLOCK FALSE
