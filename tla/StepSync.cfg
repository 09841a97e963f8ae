SPECIFICATION FairSpec
CONSTANTS
  MaxBoots = 3
  MaxCrashes = 1
INVARIANTS TypeOK TokensBalance SkewBound DebtBound OpenFailsOnlyOnFreshPort
PROPERTIES ServerNotStuck ClientNotStuck
CHECK_DEADLOCK FALSE
