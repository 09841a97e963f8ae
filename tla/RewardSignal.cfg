SPECIFICATION FairSpec
CONSTANT MaxRewards = 3
INVARIANTS TypeOK OnceAtMostOnce OnceRestores
PROPERTY OnceReported
