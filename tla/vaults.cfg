SPECIFICATION Spec
CONSTANTS
  v1 = v1
  v2 = v2
  u1 = u1
  u2 = u2
  This = This
  VaultReward = VaultReward
  Claim = Claim
  NoKey = NoKey
  Stale = Stale
  Accounts = {v1, v2, u1, u2}
  Vaults = {v1, v2}
  Users = {u1, u2}
  Keys = {k1}
  Scale = 2
  Rates = {1}
  Funds = 1200
  MaxTime = 3
  Period = 1
  MaxRequests = 4
  OneAmounts = {1200}
  LockPeriods = {1}
  IssueAmounts = {400}
  TransferredAmounts = {200}
  GriefingAmounts = {6}
  RedeemAmounts = {199}
  ReimburseChoices = {TRUE, FALSE}
  TransferAmounts = {}
INVARIANTS
  DepositAddressesDistinct
  PaidRedeemExecutable
  UsedCoversIssued
PROPERTIES
  VaultCollateralSpent
  RecordFollowsCollateral
SYMMETRY Symmetry
