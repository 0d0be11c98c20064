------------------------------ MODULE VaultReward ------------------------------
(***************************************************************************)
(* VaultReward.sol and VaultReserve.sol: a vault that locks its collateral *)
(* for some months earns a reward for every fortnight of it, paid from a   *)
(* reserve.  The bridge's registry is seen as VaultReward sees it: whether *)
(* a vault is registered and the collateral on its record, which registry  *)
(* calls change after telling VaultReward to bring the rewards up to date. *)
(* The fields VaultReward only ever writes, and liquidatedCollateral,      *)
(* which is always 0, are left out.                                        *)
(***************************************************************************)
EXTENDS Integers

CONSTANTS
  Vaults,
  OneAmounts,    \* amounts of ONE locked, withdrawn and deposited
  LockPeriods,   \* months a vault may choose; 3, 6 or 12 in the code
  Month,         \* 30 days
  Fortnight,     \* 14 days
  MaxTime,       \* bound on the clock
  MaxLockPeriod, \* bound on the months a vault locks for
  MaxCollateral, \* bound on the collateral a vault locks
  MaxDeposits    \* bound on what the reserve is ever given

ASSUME RewardConstants ==
  /\ OneAmounts \subseteq Nat
  /\ LockPeriods \subseteq {3, 6, 12}
  /\ Month \in Nat \ {0} /\ Fortnight \in Nat \ {0}
  /\ MaxTime \in Nat \ {0}
  /\ MaxLockPeriod \in Nat /\ MaxCollateral \in Nat /\ MaxDeposits \in Nat

VARIABLES
  now,           \* block.timestamp
  registered,    \* btcPublicKeyX # 0 in the registry
  collateral,    \* vault.collateral in the registry
  lockedVaults,  \* the fields of lockedVaults that are ever read
  received,      \* rewards each vault was paid, or had locked for it
  reserve,       \* native ONE held by VaultReserve
  totalDepositAmount,
  totalWithdrawalAmount

registryVars == <<registered, collateral>>
reserveVars == <<reserve, totalDepositAmount, totalWithdrawalAmount>>
vars == <<now, registryVars, lockedVaults, received, reserveVars>>

LockedVault ==
  [lockPeriod : Nat, lockExpireAt : Nat, rewardClaimAt : Nat,
   accClaimableRewards : Nat]

TypeOK ==
  /\ now \in 1 .. MaxTime
  /\ registered \in [Vaults -> BOOLEAN]
  /\ collateral \in [Vaults -> Nat]
  /\ lockedVaults \in [Vaults -> LockedVault]
  /\ received \in [Vaults -> Nat]
  /\ reserve \in Nat
  /\ totalDepositAmount \in Nat
  /\ totalWithdrawalAmount \in Nat

NeverLocked ==
  [lockPeriod |-> 0, lockExpireAt |-> 0, rewardClaimAt |-> 0,
   accClaimableRewards |-> 0]

\* The clock starts at 1: at 0 every vault would count as locked.
Init ==
  /\ now = 1
  /\ registered = [v \in Vaults |-> FALSE]
  /\ collateral = [v \in Vaults |-> 0]
  /\ lockedVaults = [v \in Vaults |-> NeverLocked]
  /\ received = [v \in Vaults |-> 0]
  /\ reserve = 0
  /\ totalDepositAmount = 0
  /\ totalWithdrawalAmount = 0

------------------------------------------------------------------------------
\* What a vault may claim

APR(lockPeriod) ==
  IF lockPeriod = 3 THEN 5
  ELSE IF lockPeriod \in 6 .. 11 THEN 10
  ELSE IF lockPeriod >= 12 THEN 15 ELSE 0

InLock(v) == now <= lockedVaults[v].lockExpireAt

\* The end of the last whole fortnight, or of the lock.
RewardClaimAt(v) ==
  IF InLock(v)
  THEN now - ((now - lockedVaults[v].rewardClaimAt) % Fortnight)
  ELSE lockedVaults[v].lockExpireAt

ClaimableRewards(v) ==
  LET lock  == lockedVaults[v]
      units == (RewardClaimAt(v) - lock.rewardClaimAt) \div Fortnight
  IN  lock.accClaimableRewards
        + (collateral[v] * units * 14 * APR(lock.lockPeriod)) \div 36500

\* The lock of v, its rewards up to date.
Updated(v) ==
  IF InLock(v)
  THEN [lockedVaults[v] EXCEPT !.accClaimableRewards = ClaimableRewards(v),
                               !.rewardClaimAt = RewardClaimAt(v)]
  ELSE lockedVaults[v]

\* Wrong: the rewards stay claimable.
ClaimedOnlyMoved(v) ==
  [lockedVaults[v] EXCEPT !.rewardClaimAt = RewardClaimAt(v)]

\* Wrong: the claim also stands for the time since the lock expired.
ClaimedNow(v) ==
  [lockedVaults[v] EXCEPT !.accClaimableRewards = 0, !.rewardClaimAt = now]

\* The lock of v after a claim.
Claimed(v) ==
  [lockedVaults[v] EXCEPT !.accClaimableRewards = 0,
                          !.rewardClaimAt = RewardClaimAt(v)]

\* Wrong: every lock starts afresh.
ExtendedAfresh(v, lockPeriod) ==
  [lockPeriod |-> lockPeriod, lockExpireAt |-> now + Month * lockPeriod,
   rewardClaimAt |-> now, accClaimableRewards |-> 0]

\* The lock of v for lockPeriod more months; an expired lock starts afresh,
\* and what it had earned is gone.
Extended(v, lockPeriod) ==
  IF lockedVaults[v].lockExpireAt < now
  THEN [lockPeriod |-> lockPeriod,
        lockExpireAt |-> now + Month * lockPeriod,
        rewardClaimAt |-> now,
        accClaimableRewards |-> 0]
  ELSE [Updated(v) EXCEPT !.lockPeriod = @ + lockPeriod,
                          !.lockExpireAt = @ + Month * lockPeriod]

------------------------------------------------------------------------------
\* VaultReserve

DepositReward(amount) ==
  /\ totalDepositAmount + amount <= MaxDeposits   \* bound
  /\ reserve' = reserve + amount
  /\ totalDepositAmount' = totalDepositAmount + amount
  /\ UNCHANGED totalWithdrawalAmount

\* Wrong: more is paid than there is.
WithdrawRewardUnchecked(amount) ==
  /\ reserve' = reserve - amount
  /\ totalWithdrawalAmount' = totalWithdrawalAmount + amount
  /\ UNCHANGED totalDepositAmount

\* withdrawReward; emergencyWithdraw does the same for the owner.
WithdrawReward(amount) ==
  /\ reserve >= amount
  /\ reserve' = reserve - amount
  /\ totalWithdrawalAmount' = totalWithdrawalAmount + amount
  /\ UNCHANGED totalDepositAmount

------------------------------------------------------------------------------
\* VaultReward

SetLock(v, lock) == lockedVaults' = [lockedVaults EXCEPT ![v] = lock]

ExtendVaultLockPeriod(v, lockPeriod) ==
  /\ registered[v]
  /\ Extended(v, lockPeriod).lockPeriod <= MaxLockPeriod   \* bound
  /\ SetLock(v, Extended(v, lockPeriod))
  /\ UNCHANGED <<registryVars, received, reserveVars>>

\* Anyone may call it.
UpdateVaultAccClaimableRewards(v) ==
  /\ InLock(v) => registered[v]
  /\ SetLock(v, Updated(v))
  /\ UNCHANGED <<registryVars, received, reserveVars>>

\* _claimRewards, to the vault or to VaultReward itself.
Claim(v) ==
  /\ registered[v]
  /\ SetLock(v, Claimed(v))
  /\ WithdrawReward(ClaimableRewards(v))
  /\ received' = [received EXCEPT ![v] = @ + ClaimableRewards(v)]

ClaimRewards(v) ==
  /\ Claim(v)
  /\ UNCHANGED registryVars

\* The registry's callback to update the rewards finds none to add.
ClaimRewardsAndLock(v) ==
  /\ now < lockedVaults[v].lockExpireAt
  /\ Claim(v)
  /\ collateral' = [collateral EXCEPT ![v] = @ + ClaimableRewards(v)]
  /\ UNCHANGED registered

------------------------------------------------------------------------------
\* The registry

\* Wrong: the registry does not have the rewards updated.
LockCollateralSilently(v, amount) ==
  /\ collateral[v] + amount <= MaxCollateral   \* bound
  /\ collateral' = [collateral EXCEPT ![v] = @ + amount]
  /\ UNCHANGED lockedVaults

LockCollateral(v, amount) ==
  /\ collateral[v] + amount <= MaxCollateral   \* bound
  /\ SetLock(v, Updated(v))
  /\ collateral' = [collateral EXCEPT ![v] = @ + amount]

RegisterVault(v, amount) ==
  /\ ~registered[v]
  /\ registered' = [registered EXCEPT ![v] = TRUE]
  /\ LockCollateral(v, amount)
  /\ UNCHANGED <<received, reserveVars>>

LockAdditionalCollateral(v, amount) ==
  /\ registered[v]
  /\ LockCollateral(v, amount)
  /\ UNCHANGED <<registered, received, reserveVars>>

\* To a key of zero: the vault is no longer registered.
UpdatePublicKey(v) ==
  /\ registered[v]
  /\ registered' = [registered EXCEPT ![v] = FALSE]
  /\ UNCHANGED <<collateral, lockedVaults, received, reserveVars>>

\* What backs tokens cannot be withdrawn: here, any amount.
WithdrawCollateral(v, amount) ==
  /\ lockedVaults[v].lockExpireAt < now
  /\ registered[v]
  /\ collateral[v] >= amount
  /\ collateral' = [collateral EXCEPT ![v] = @ - amount]
  /\ UNCHANGED <<registered, lockedVaults, received, reserveVars>>

------------------------------------------------------------------------------
VaultNext(v) ==
  \/ \E lockPeriod \in LockPeriods : ExtendVaultLockPeriod(v, lockPeriod)
  \/ UpdateVaultAccClaimableRewards(v)
  \/ ClaimRewards(v)
  \/ ClaimRewardsAndLock(v)
  \/ UpdatePublicKey(v)
  \/ \E amount \in OneAmounts :
       \/ RegisterVault(v, amount)
       \/ LockAdditionalCollateral(v, amount)
       \/ WithdrawCollateral(v, amount)

ReserveNext ==
  /\ \E amount \in OneAmounts : DepositReward(amount) \/ WithdrawReward(amount)
  /\ UNCHANGED <<registryVars, lockedVaults, received>>

Tick ==
  /\ now < MaxTime
  /\ now' = now + 1
  /\ UNCHANGED <<registryVars, lockedVaults, received, reserveVars>>

Next ==
  \/ (\E v \in Vaults : VaultNext(v)) /\ UNCHANGED now
  \/ ReserveNext /\ UNCHANGED now
  \/ Tick

Spec == Init /\ [][Next]_vars

------------------------------------------------------------------------------
\* Properties

\* No vault is credited for time that has not passed or was not locked, so
\* none of the subtractions of timestamps can revert.
CreditedWithinLock ==
  \A v \in Vaults :
    /\ lockedVaults[v].rewardClaimAt <= now
    /\ lockedVaults[v].rewardClaimAt <= lockedVaults[v].lockExpireAt

\* What VaultReserve says it has left is the ONE it holds.
ReserveIsCounted == reserve = totalDepositAmount - totalWithdrawalAmount

Earned(v) == received[v] + lockedVaults[v].accClaimableRewards

\* No fortnight is paid twice: what a vault has received or been credited
\* grows only as the time it is credited up to moves on by a fortnight.
CreditedOnceStep ==
  \A v \in Vaults :
    Earned(v)' > Earned(v) =>
      /\ lockedVaults'[v].rewardClaimAt >= lockedVaults[v].rewardClaimAt + Fortnight
      /\ lockedVaults'[v].rewardClaimAt <= lockedVaults[v].lockExpireAt

\* Anyone may have a vault's rewards brought up to date, at any time: within
\* the lock that never costs the vault the part of a fortnight it is in.
WholeFortnightsStep ==
  \A v \in Vaults :
    InLock(v) =>
      (lockedVaults'[v].rewardClaimAt - lockedVaults[v].rewardClaimAt)
        % Fortnight = 0

\* Whoever calls what in whatever order, every fortnight of a lock is credited
\* once and whole.
CreditedOnce == [][CreditedOnceStep /\ WholeFortnightsStep]_vars

\* What a vault may claim stays claimable until it claims it, as it locks for
\* longer, as it adds collateral and as the lock expires.  Two things lose it:
\* a new lock after the old one expired, and collateral withdrawn after it.
ClaimableKeptStep ==
  \A v \in Vaults :
    ClaimableRewards(v)' < ClaimableRewards(v) =>
      \/ received'[v] = received[v] + ClaimableRewards(v)
      \/ lockedVaults[v].lockExpireAt < now

ClaimableKept == [][ClaimableKeptStep]_vars

\* More collateral earns from then on: within the lock it changes nothing of
\* what is claimable already.
NotRetroactiveStep ==
  \A v \in Vaults :
    (collateral'[v] > collateral[v] /\ received' = received /\ InLock(v))
      => ClaimableRewards(v)' = ClaimableRewards(v)

NotRetroactive == [][NotRetroactiveStep]_vars

LockExpireAt == [v \in Vaults |-> lockedVaults[v].lockExpireAt]

C == INSTANCE LockedCollateral
       WITH lockExpireAt <- LockExpireAt,
            Periods <- {Month * lockPeriod : lockPeriod \in LockPeriods}

\* Whatever VaultReward does to a vault's rewards, to its lock and to its
\* record in the registry it does what the bridge is modelled with: bringing
\* rewards up to date, claiming them and adding collateral never moves the
\* end of a lock, and what a claim locks is added while a lock is in force.
CollateralLocked == C!Spec
=============================================================================
