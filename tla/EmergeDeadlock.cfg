SPECIFICATION FairSpec
CONSTANTS
  b1 = b1
  b2 = b2
  b3 = b3
  b4 = b4
  b5 = b5
  p1 = p1
  Threads = {0}
  Blocks = {b1, b2}
  OverLimit = {}
  Outside = {}
  Saved = {}
  Corrupt = {b1}
  Peers = {p1}
  Chunk <- MCAlone
  Area <- MCArea
  NoPeer = NoPeer
  NoBlock = NoBlock
  NoThread = NoThread
  NoRequest = NoRequest
  Garbage = Garbage
  QTotal = 3
  QDiskOnly = 2
  QGenerate = 1
  MaxCallbacks = 1
  MaxRequests = 3
  MaxChanges = 0
PROPERTY ThreadsFinish
CHECK_DEADLOCK FALSE
