SPECIFICATION Spec
CONSTANTS
  v1 = v1
  v2 = v2
  u1 = u1
  u2 = u2
  This = This
  VaultReward = VaultReward
  Claim = Claim
  NoKey = NoKey
  Stale = Stale
  Accounts = {v1, u1, u2}
  Vaults = {v1}
  Users = {u1, u2}
  Keys = {k1}
  Scale = 2
  Rates = {1}
  Funds = 2400
  MaxTime = 4
  Period = 1
  MaxRequests = 2
  OneAmounts = {1200}
  LockPeriods = {}
  IssueAmounts = {400}
  TransferredAmounts = {400}
  GriefingAmounts = {6}
  RedeemAmounts = {200}
  ReimburseChoices = {TRUE}
  TransferAmounts = {}
INVARIANTS
  RegisteredCollateralIsHeld
SYMMETRY UserSymmetry
