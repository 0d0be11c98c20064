SPECIFICATION Spec
CONSTANTS
  v1 = v1
  v2 = v2
  u1 = u1
  u2 = u2
  This = This
  VaultReward = VaultReward
  Claim = Claim
  NoKey = NoKey
  Stale = Stale
  Accounts = {v1, u1, u2}
  Vaults = {v1}
  Users = {u1, u2}
  Keys = {k1}
  Scale = 2
  Rates = {1, 2}
  Funds = 3600
  MaxTime = 5
  Period = 1
  MaxRequests = 3
  OneAmounts = {1200}
  LockPeriods = {}
  IssueAmounts = {400}
  TransferredAmounts = {200, 400, 600}
  GriefingAmounts = {6}
  RedeemAmounts = {200}
  ReimburseChoices = {TRUE, FALSE}
  TransferAmounts = {}
INVARIANTS
  TypeOK
  UsedWithinBalance
  CollateralIsHeld
  TokensAccounted
  PendingCanBeSettled
PROPERTIES
  SettledOnce
  SupplyFollowsRequests
  LedgerImplemented
SYMMETRY UserSymmetry
