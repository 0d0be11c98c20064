SPECIFICATION FairSpec
CONSTANTS
  Calls = {c1, c2}
  Payers = {c1, c2}
  Coins = {k1, k2}
  NumConfirmations = 1
  Height = 2
  MaxRetries = 1
  MaxBlocks = 4
INVARIANTS
  LockedUnspent
  PaysOnce
  FoundTogether
PROPERTIES
  CallsEnd
  ReservationsImplemented
CHECK_DEADLOCK FALSE
