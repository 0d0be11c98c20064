SPECIFICATION Spec
CONSTANTS
  v1 = v1
  Vaults = {v1}
  OneAmounts = {7300}
  LockPeriods = {3, 6}
  Month = 1
  Fortnight = 2
  MaxTime = 14
  MaxLockPeriod = 12
  MaxCollateral = 14600
  MaxDeposits = 7300
INVARIANTS
  TypeOK
  CreditedWithinLock
PROPERTIES
  CreditedOnce
  ClaimableKept
  NotRetroactive
  CollateralLocked
CHECK_DEADLOCK FALSE
