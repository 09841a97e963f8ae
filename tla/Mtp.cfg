SPECIFICATION FairSpec
CONSTANTS
  Chunks <- MCChunks
  SeqSpace = 32
  FirstSeqnum = 28
  Window = 2
  MaxRequeued = 2
  Lossy = TRUE
  MaxPings = 1
INVARIANTS TypeOK PutBackSucceeds NothingForgotten BuffersOrdered SpreadBound
PROPERTIES FifoFairSpec
CHECK_DEADLOCK FALSE
