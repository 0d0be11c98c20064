SPECIFICATION FeedsSpec
CONSTANTS
  CONFIRMATIONS = 2
  DIFFICULTY_ADJUSTMENT_INTERVAL = 5
  GenesisHeight = 1
  Targets = {1, 2}
  Timestamps = {1, 2}
  MaxBlocks = 8
  BtcPrices = {1, 4, 40}
  OnePrices = {2, 3}
  MAX_DELAY = 1
  SECONDS_IN_A_DAY = 2
  Scale = 2
  MaxTime = 4
INVARIANTS
  ForksArePaths
  MainIsBestChain
PROPERTIES
  BestChainReplaced
  OracleImplemented
  UpgradeNeedsRate
CHECK_DEADLOCK FALSE
