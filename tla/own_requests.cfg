SPECIFICATION Spec
CONSTANTS
  v1 = v1
  v2 = v2
  u1 = u1
  u2 = u2
  This = This
  VaultReward = VaultReward
  Claim = Claim
  NoKey = NoKey
  Stale = Stale
  Accounts = {v1, u1}
  Vaults = {v1}
  Users = {v1, u1}
  Keys = {k1}
  Scale = 2
  Rates = {1}
  Funds = 1200
  MaxTime = 4
  Period = 1
  MaxRequests = 2
  OneAmounts = {600}
  LockPeriods = {}
  IssueAmounts = {200}
  TransferredAmounts = {200}
  GriefingAmounts = {600}
  RedeemAmounts = {200}
  ReimburseChoices = {FALSE}
  TransferAmounts = {}
INVARIANTS
  AnyExpiredIssueCancellable
