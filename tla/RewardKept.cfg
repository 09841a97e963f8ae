SPECIFICATION FairSpec
CONSTANT MaxRewards = 2
INVARIANT SetRewardMaintained
