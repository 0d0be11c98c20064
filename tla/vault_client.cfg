SPECIFICATION VaultClientSpec
CONSTANTS
  Readers = {r1}
  Payers = {p1}
  Coins = {k1, k2}
  MaxBlocks = 4
  GroupOrder = 7
  Generator = 3
  NodeNetwork = "Regtest"
  Ids = {2, 4}
  Networks = {"regtest", "testnet", "signet"}
  Amounts = {5, 6}
  MaxOutputs = 3
  PushSizes = {1, 2, 3, 33, 65, 72, 75}
INVARIANTS
  ListingExact
  SeenIsKnown
  DepositsSpendable
  OwnPaymentsAccepted
  SidesAgree
  InputAddressRead
