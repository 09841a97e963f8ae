SPECIFICATION FairSpec
CONSTANTS
  b1 = b1
  b2 = b2
  b3 = b3
  b4 = b4
  b5 = b5
  p1 = p1
  Threads = {0, 1}
  Blocks = {b1, b2, b3}
  OverLimit = {}
  Outside = {}
  Saved = {}
  Corrupt = {b1}
  Peers = {p1}
  Chunk <- MCChunk
  Area <- MCArea
  NoPeer = NoPeer
  NoBlock = NoBlock
  NoThread = NoThread
  NoRequest = NoRequest
  Garbage = Garbage
  QTotal = 2
  QDiskOnly = 2
  QGenerate = 1
  MaxCallbacks = 1
  MaxRequests = 3
  MaxChanges = 0
PROPERTIES CallbacksRun ThreadsEnd
CHECK_DEADLOCK FALSE
