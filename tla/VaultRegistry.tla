----------------------------- MODULE VaultRegistry -----------------------------
(***************************************************************************)
(* VaultRegistry.sol with lib/VaultRegistryLib.sol: what a vault has       *)
(* registered, what it owes, and how much more it may take on.  The vault  *)
(* record's fields are variables of their own, indexed by the vault.       *)
(***************************************************************************)
EXTENDS Collateral, Oracle

CONSTANTS
  Vaults,       \* the addresses that may register as vaults
  Keys,         \* bitcoin public keys
  NoKey,        \* btcPublicKeyX = 0: no such vault
  OneAmounts,   \* amounts of ONE a caller may lock or withdraw
  LockPeriods   \* lock periods VaultReward grants, in blocks

ASSUME VaultsAreAccounts == Vaults \subseteq Accounts
ASSUME NoKeyIsNoKey == NoKey \notin Keys
ASSUME OneAmountsNat == OneAmounts \subseteq Nat
ASSUME LockPeriodsNat == LockPeriods \subseteq Nat

VARIABLES
  btcPublicKey,      \* vault.btcPublicKeyX / Y
  collateral,        \* vault.collateral
  issued,            \* vault.issued
  toBeIssued,        \* vault.toBeIssued
  toBeRedeemed,      \* vault.toBeRedeemed
  depositAddresses,  \* vault.depositAddresses
  lockExpireAt       \* VaultReward's lockExpireAt, read through its getter

tokenDebtVars == <<issued, toBeIssued, toBeRedeemed>>
vaultVars == <<btcPublicKey, collateral, issued, toBeIssued, toBeRedeemed,
               depositAddresses, lockExpireAt>>

\* Wrong: the requester is not hashed.
RequestIdOfBlock(requester, block) == <<This, block>>

\* keccak256(requester, blockhash of the previous block): one id for each
\* requester and block.
RequestId(requester, block) == <<requester, block>>

\* BitcoinKeyDerivation.derivate: injective in the key and the id.
Derivate(key, id) == <<key, id>>

DepositAddresses == (Keys \cup {NoKey}) \X (Accounts \X Times)

VaultRegistryTypeOK ==
  /\ btcPublicKey \in [Vaults -> Keys \cup {NoKey}]
  /\ collateral \in [Vaults -> Nat]
  /\ issued \in [Vaults -> Nat]
  /\ toBeIssued \in [Vaults -> Nat]
  /\ toBeRedeemed \in [Vaults -> Nat]
  /\ depositAddresses \in [Vaults -> SUBSET DepositAddresses]
  /\ lockExpireAt \in [Vaults -> Nat]

VaultRegistryInit ==
  /\ btcPublicKey = [v \in Vaults |-> NoKey]
  /\ collateral = [v \in Vaults |-> 0]
  /\ issued = [v \in Vaults |-> 0]
  /\ toBeIssued = [v \in Vaults |-> 0]
  /\ toBeRedeemed = [v \in Vaults |-> 0]
  /\ depositAddresses = [v \in Vaults |-> {}]
  /\ lockExpireAt = [v \in Vaults |-> 0]

VaultExists(v) == btcPublicKey[v] # NoKey

CollateralFor(amount) == WrappedToCollateral(amount)

CollateralForIssued(amount) == (WrappedToCollateral(amount) * 150) \div 100

\* issuableTokens, for a given amount of free collateral.
IssuableTokens(free) == CollateralToWrapped((free * 100) \div 150)

\* Wrong: tokens already promised are promised again.
RedeemableTokensIssued(v) == issued[v]

RedeemableTokens(v) == issued[v] - toBeRedeemed[v]

DecreaseToBeIssued(v, amount) ==
  /\ toBeIssued[v] >= amount
  /\ toBeIssued' = [toBeIssued EXCEPT ![v] = @ - amount]

\* Wrong: the reservation shrinks by what was paid.
IssueTokensReleasingPaid(v, reserved, paid) ==
  /\ DecreaseToBeIssued(v, paid)
  /\ issued' = [issued EXCEPT ![v] = @ + paid]

\* Wrong: what was reserved is issued, whatever was paid.
IssueTokensUnadjusted(v, reserved, paid) ==
  /\ DecreaseToBeIssued(v, reserved)
  /\ issued' = [issued EXCEPT ![v] = @ + reserved]

\* What executing an issue request does to the vault's books: the amount it
\* had reserved, adjusted to the amount paid, becomes issued.
IssueTokens(v, reserved, paid) ==
  /\ DecreaseToBeIssued(v, reserved)
  /\ issued' = [issued EXCEPT ![v] = @ + paid]

DecreaseToBeRedeemed(v, amount) ==
  /\ toBeRedeemed[v] >= amount
  /\ toBeRedeemed' = [toBeRedeemed EXCEPT ![v] = @ - amount]

RedeemTokens(v, amount) ==
  /\ DecreaseToBeRedeemed(v, amount)
  /\ issued[v] >= amount
  /\ issued' = [issued EXCEPT ![v] = @ - amount]

\* Wrong: the lock is over at its last block.
LockExpiredEarly(v) == lockExpireAt[v] <= now

\* The vault's VaultReward lock is over.
LockExpired(v) == lockExpireAt[v] < now

\* VaultRegistryLib.registerDepositAddress.
RegisterDepositAddress(v, id) ==
  LET derived == Derivate(btcPublicKey[v], id)
  IN  /\ VaultExists(v)
      /\ derived \notin depositAddresses[v]
      /\ depositAddresses' = [depositAddresses EXCEPT ![v] = @ \cup {derived}]

\* Wrong: the vault's own record is not credited.
AddCollateralUnrecorded(payer, v, amount) ==
  /\ LockCollateral(payer, v, amount)
  /\ UNCHANGED <<CollateralUsed, collateral, tokenDebtVars, depositAddresses,
                 lockExpireAt>>

\* The credit common to the three ways of locking collateral.
AddCollateral(payer, v, amount) ==
  /\ LockCollateral(payer, v, amount)
  /\ collateral' = [collateral EXCEPT ![v] = @ + amount]
  /\ UNCHANGED <<CollateralUsed, tokenDebtVars, depositAddresses, lockExpireAt>>

RegisterVault(v, key, amount) ==
  /\ ~VaultExists(v)
  /\ btcPublicKey' = [btcPublicKey EXCEPT ![v] = key]
  /\ AddCollateral(v, v, amount)

LockAdditionalCollateral(v, amount) ==
  /\ VaultExists(v)
  /\ AddCollateral(v, v, amount)
  /\ UNCHANGED btcPublicKey

LockAdditionalCollateralFromVaultReward(v, amount) ==
  /\ now < lockExpireAt[v]
  /\ VaultExists(v)
  /\ AddCollateral(VaultReward, v, amount)
  /\ UNCHANGED btcPublicKey

\* Takes any key, zero included: the vault then no longer exists.
UpdatePublicKey(v, key) ==
  /\ VaultExists(v)
  /\ btcPublicKey' = [btcPublicKey EXCEPT ![v] = key]
  /\ UNCHANGED <<collateralVars, collateral, tokenDebtVars, depositAddresses,
                 lockExpireAt>>

WithdrawCollateral(v, amount) ==
  /\ LockExpired(v)
  /\ VaultExists(v)
  /\ RateAvailable
  /\ amount <= CollateralBalances[v]
                 - CollateralForIssued(issued[v] + toBeIssued[v])
  /\ collateral[v] >= amount
  /\ collateral' = [collateral EXCEPT ![v] = @ - amount]
  /\ Release(v, CollateralUsed, v, amount)
  /\ UNCHANGED <<CollateralUsed, btcPublicKey, tokenDebtVars,
                 depositAddresses, lockExpireAt>>

\* VaultReward.extendVaultLockPeriod, as far as this contract can see it.
ExtendVaultLockPeriod(v, period) ==
  /\ VaultExists(v)
  /\ lockExpireAt[v] + period <= MaxTime   \* bound
  /\ lockExpireAt' =
       [lockExpireAt EXCEPT ![v] = IF @ < now THEN now + period ELSE @ + period]
  /\ UNCHANGED <<collateralVars, btcPublicKey, collateral, tokenDebtVars,
                 depositAddresses>>

VaultRegistryNext ==
  \E v \in Vaults :
    \/ \E amount \in OneAmounts :
         \/ \E key \in Keys : RegisterVault(v, key, amount)
         \/ LockAdditionalCollateral(v, amount)
         \/ LockAdditionalCollateralFromVaultReward(v, amount)
         \/ WithdrawCollateral(v, amount)
    \/ \E key \in Keys \cup {NoKey} : UpdatePublicKey(v, key)
    \/ \E period \in LockPeriods : ExtendVaultLockPeriod(v, period)
=============================================================================
