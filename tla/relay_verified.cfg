SPECIFICATION Spec
CONSTANTS
  CONFIRMATIONS = 2
  DIFFICULTY_ADJUSTMENT_INTERVAL = 5
  GenesisHeight = 1
  Targets = {1}
  Timestamps = {1}
  MaxBlocks = 9
INVARIANTS
  VerifiedIsBest
CHECK_DEADLOCK FALSE
