SPECIFICATION OraclesSpec
CONSTANTS
  BtcPrices = {4, 8, 400}
  OnePrices = {2}
  MAX_DELAY = 1
  SECONDS_IN_A_DAY = 2
  Scale = 2
  MaxTime = 2
INVARIANTS
  WithinLimits
