SPECIFICATION FairSpec
CONSTANTS
  Clients = {c1, c2}
  Wallets = {w1, w2}
  NoWallet = NoWallet
  Timeout = 2
  MaxBoots = 1
  MaxRetries = 1
PROPERTIES
  StartingIsNotFailure
  LoserFindsItLoaded
  SessionCallsEnd

