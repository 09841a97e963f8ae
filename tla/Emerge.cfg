SPECIFICATION Spec
CONSTANTS
  b1 = b1
  b2 = b2
  b3 = b3
  b4 = b4
  b5 = b5
  p1 = p1
  Threads = {0, 1}
  Blocks = {b1, b2, b3, b4, b5}
  OverLimit = {b5}
  Outside = {b4}
  Saved = {b2}
  Corrupt = {}
  Peers = {p1}
  Chunk <- MCChunk
  Area <- MCArea
  NoPeer = NoPeer
  NoBlock = NoBlock
  NoThread = NoThread
  NoRequest = NoRequest
  Garbage = Garbage
  QTotal = 2
  QDiskOnly = 2
  QGenerate = 1
  MaxCallbacks = 1
  MaxRequests = 2
  MaxChanges = 1
INVARIANTS TypeOK QueuesAgree OneGeneratorPerChunk NoStaleBlock CallbackOnce
CHECK_DEADLOCK FALSE
