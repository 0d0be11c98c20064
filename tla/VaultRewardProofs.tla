--------------------------- MODULE VaultRewardProofs ---------------------------
(***************************************************************************)
(* Theorems about the rewards, for any vaults, amounts, lock periods and   *)
(* lengths of a month and a fortnight.                                     *)
(***************************************************************************)
EXTENDS VaultReward, TLAPS

\* A remainder is between zero and what is divided; a quotient is natural.
LEMMA Division ==
  ASSUME NEW a \in Nat, NEW b \in Nat \ {0}
  PROVE  a % b \in 0 .. a /\ a \div b \in Nat
  OBVIOUS

LEMMA Product ==
  ASSUME NEW a \in Nat, NEW b \in Nat
  PROVE  a * b \in Nat
  OBVIOUS

IInv == TypeOK /\ CreditedWithinLock /\ ReserveIsCounted

LEMMA InitIInv == Init => IInv
  BY RewardConstants DEF Init, IInv, TypeOK, CreditedWithinLock, ReserveIsCounted,
     NeverLocked, LockedVault

\* The time a vault is credited up to only moves on, and within the lock.
LEMMA RewardClaimAtMoves ==
  ASSUME IInv, NEW v \in Vaults
  PROVE  /\ RewardClaimAt(v) \in Nat
         /\ lockedVaults[v].rewardClaimAt <= RewardClaimAt(v)
         /\ RewardClaimAt(v) <= now
         /\ RewardClaimAt(v) <= lockedVaults[v].lockExpireAt
<1>1. /\ now \in Nat
      /\ lockedVaults[v].rewardClaimAt \in Nat
      /\ lockedVaults[v].lockExpireAt \in Nat
      /\ lockedVaults[v].rewardClaimAt <= now
      /\ lockedVaults[v].rewardClaimAt <= lockedVaults[v].lockExpireAt
  BY RewardConstants DEF IInv, TypeOK, LockedVault, CreditedWithinLock
<1>2. now - lockedVaults[v].rewardClaimAt \in Nat
  BY <1>1
<1>3. (now - lockedVaults[v].rewardClaimAt) % Fortnight
        \in 0 .. (now - lockedVaults[v].rewardClaimAt)
  BY <1>2, Division, RewardConstants
<1>4. CASE InLock(v)
  BY <1>1, <1>3, <1>4 DEF RewardClaimAt, InLock
<1>5. CASE ~InLock(v)
  BY <1>1, <1>5 DEF RewardClaimAt, InLock
<1> QED
  BY <1>4, <1>5

\* What a vault may claim is a natural number.
LEMMA ClaimableIsNatural ==
  ASSUME IInv, NEW v \in Vaults
  PROVE  ClaimableRewards(v) \in Nat
<1> DEFINE units == (RewardClaimAt(v) - lockedVaults[v].rewardClaimAt) \div Fortnight
           apr == APR(lockedVaults[v].lockPeriod)
<1>1. /\ lockedVaults[v].rewardClaimAt \in Nat
      /\ lockedVaults[v].accClaimableRewards \in Nat
      /\ collateral[v] \in Nat
  BY DEF IInv, TypeOK, LockedVault
<1>2. RewardClaimAt(v) - lockedVaults[v].rewardClaimAt \in Nat
  BY <1>1, RewardClaimAtMoves
<1>3. units \in Nat
  BY <1>2, Division, RewardConstants
<1>4. apr \in Nat
  BY DEF APR
<1>5. ClaimableRewards(v)
        = lockedVaults[v].accClaimableRewards
            + (collateral[v] * units * 14 * apr) \div 36500
  BY DEF ClaimableRewards
<1> HIDE DEF units, apr
<1>6. collateral[v] * units \in Nat
  BY <1>1, <1>3, Product
<1>7. collateral[v] * units * 14 \in Nat
  BY <1>6
<1>8. collateral[v] * units * 14 * apr \in Nat
  BY <1>4, <1>7, Product
<1>9. (collateral[v] * units * 14 * apr) \div 36500 \in Nat
  BY <1>8, Division
<1> QED
  BY <1>1, <1>5, <1>9

\* A lock that is credited within it and not ahead of time.
GoodLock(lock, time) ==
  /\ lock \in LockedVault
  /\ lock.rewardClaimAt <= time
  /\ lock.rewardClaimAt <= lock.lockExpireAt

LEMMA LocksAreGood ==
  ASSUME IInv, NEW v \in Vaults
  PROVE  GoodLock(lockedVaults[v], now)
  BY DEF IInv, TypeOK, CreditedWithinLock, GoodLock

LEMMA UpdatedIsGood ==
  ASSUME IInv, NEW v \in Vaults
  PROVE  GoodLock(Updated(v), now)
<1>1. CASE InLock(v)
  BY <1>1, LocksAreGood, RewardClaimAtMoves, ClaimableIsNatural
     DEF Updated, GoodLock, LockedVault
<1>2. CASE ~InLock(v)
  BY <1>2, LocksAreGood DEF Updated
<1> QED
  BY <1>1, <1>2

LEMMA ClaimedIsGood ==
  ASSUME IInv, NEW v \in Vaults
  PROVE  GoodLock(Claimed(v), now)
  BY LocksAreGood, RewardClaimAtMoves DEF Claimed, GoodLock, LockedVault

LEMMA ExtendedIsGood ==
  ASSUME IInv, NEW v \in Vaults, NEW lockPeriod \in LockPeriods
  PROVE  GoodLock(Extended(v, lockPeriod), now)
<1>1. lockPeriod \in Nat /\ now \in Nat
  BY RewardConstants DEF IInv, TypeOK
<1>2. Month * lockPeriod \in Nat
  BY <1>1, Product, RewardConstants
<1>3. CASE lockedVaults[v].lockExpireAt < now
  <2>1. Extended(v, lockPeriod) =
          [lockPeriod |-> lockPeriod, lockExpireAt |-> now + Month * lockPeriod,
           rewardClaimAt |-> now, accClaimableRewards |-> 0]
    BY <1>3 DEF Extended
  <2> QED
    BY <1>1, <1>2, <2>1 DEF GoodLock, LockedVault
<1>4. CASE ~(lockedVaults[v].lockExpireAt < now)
  <2>1. Extended(v, lockPeriod) =
          [Updated(v) EXCEPT !.lockPeriod = @ + lockPeriod,
                             !.lockExpireAt = @ + Month * lockPeriod]
    BY <1>4 DEF Extended
  <2>2. GoodLock(Updated(v), now)
    BY UpdatedIsGood
  <2> DEFINE months == Month * lockPeriod
             lock == Updated(v)
  <2>3. months \in Nat
    BY <1>2
  <2> DEFINE longer == [lock EXCEPT !.lockPeriod = @ + lockPeriod]
  <2>4. Extended(v, lockPeriod) = [longer EXCEPT !.lockExpireAt = @ + months]
    BY <2>1
  <2> HIDE DEF months, lock
  <2>5. GoodLock(lock, now)
    BY <2>2 DEF lock
  <2>6. /\ longer \in LockedVault
        /\ longer.rewardClaimAt = lock.rewardClaimAt
        /\ longer.lockExpireAt = lock.lockExpireAt
    BY <1>1, <2>5 DEF GoodLock, LockedVault
  <2> HIDE DEF longer
  <2>7. /\ Extended(v, lockPeriod) \in LockedVault
        /\ Extended(v, lockPeriod).rewardClaimAt = longer.rewardClaimAt
        /\ Extended(v, lockPeriod).lockExpireAt = longer.lockExpireAt + months
    BY <2>3, <2>4, <2>6 DEF LockedVault
  <2> QED
    BY <1>1, <2>3, <2>5, <2>6, <2>7 DEF GoodLock, LockedVault
<1> QED
  BY <1>3, <1>4

\* A vault's lock is replaced by a good one, at one time.
LEMMA SetLockKeeps ==
  ASSUME IInv, NEW v \in Vaults, NEW lock, GoodLock(lock, now),
         SetLock(v, lock), now' = now
  PROVE  lockedVaults' \in [Vaults -> LockedVault] /\ CreditedWithinLock'
  BY DEF IInv, TypeOK, CreditedWithinLock, SetLock, GoodLock

\* Withdrawals from the reserve are counted and stay within it.
LEMMA WithdrawKeeps ==
  ASSUME IInv, NEW amount \in Nat, WithdrawReward(amount)
  PROVE  /\ reserve' \in Nat /\ totalDepositAmount' \in Nat
         /\ totalWithdrawalAmount' \in Nat /\ ReserveIsCounted'
  BY DEF IInv, TypeOK, ReserveIsCounted, WithdrawReward

LEMMA ClaimKeeps ==
  ASSUME IInv, NEW v \in Vaults, Claim(v), now' = now
  PROVE  /\ lockedVaults' \in [Vaults -> LockedVault] /\ CreditedWithinLock'
         /\ reserve' \in Nat /\ totalDepositAmount' \in Nat
         /\ totalWithdrawalAmount' \in Nat /\ ReserveIsCounted'
         /\ received' \in [Vaults -> Nat]
<1>1. ClaimableRewards(v) \in Nat
  BY ClaimableIsNatural
<1>2. SetLock(v, Claimed(v)) /\ WithdrawReward(ClaimableRewards(v))
      /\ received' = [received EXCEPT ![v] = @ + ClaimableRewards(v)]
  BY DEF Claim
<1>3. received' \in [Vaults -> Nat]
  BY <1>1, <1>2 DEF IInv, TypeOK
<1> QED
  BY <1>1, <1>2, <1>3, ClaimedIsGood, SetLockKeeps, WithdrawKeeps

LEMMA VaultKeepsIInv ==
  ASSUME IInv, NEW v \in Vaults, VaultNext(v), now' = now
  PROVE  IInv'
<1> USE DEF IInv
<1>1. ASSUME NEW lock, GoodLock(lock, now), SetLock(v, lock),
             UNCHANGED <<received, reserveVars>>,
             registered' \in [Vaults -> BOOLEAN], collateral' \in [Vaults -> Nat]
      PROVE  IInv'
  BY <1>1, SetLockKeeps DEF TypeOK, ReserveIsCounted, reserveVars
<1>2. ASSUME NEW lockPeriod \in LockPeriods, ExtendVaultLockPeriod(v, lockPeriod)
      PROVE  IInv'
  BY <1>1, <1>2, ExtendedIsGood DEF ExtendVaultLockPeriod, registryVars, TypeOK
<1>3. CASE UpdateVaultAccClaimableRewards(v)
  BY <1>1, <1>3, UpdatedIsGood
     DEF UpdateVaultAccClaimableRewards, registryVars, TypeOK
<1>4. CASE ClaimRewards(v)
  BY <1>4, ClaimKeeps DEF ClaimRewards, registryVars, TypeOK
<1>5. CASE ClaimRewardsAndLock(v)
  <2>1. /\ Claim(v) /\ registered' = registered
        /\ collateral' = [collateral EXCEPT ![v] = @ + ClaimableRewards(v)]
    BY <1>5 DEF ClaimRewardsAndLock
  <2>2. collateral' \in [Vaults -> Nat]
    BY <2>1, ClaimableIsNatural DEF TypeOK
  <2> QED
    BY <2>1, <2>2, ClaimKeeps DEF TypeOK
<1>6. CASE UpdatePublicKey(v)
  BY <1>6 DEF UpdatePublicKey, TypeOK, CreditedWithinLock, ReserveIsCounted,
     reserveVars
<1>7. ASSUME NEW amount \in OneAmounts,
             RegisterVault(v, amount) \/ LockAdditionalCollateral(v, amount)
      PROVE  IInv'
  <2>1. /\ SetLock(v, Updated(v))
        /\ collateral' = [collateral EXCEPT ![v] = @ + amount]
        /\ UNCHANGED <<received, reserveVars>>
    BY <1>7 DEF RegisterVault, LockAdditionalCollateral, LockCollateral
  <2>2. collateral' \in [Vaults -> Nat]
    BY <2>1, RewardConstants DEF TypeOK
  <2>3. registered' \in [Vaults -> BOOLEAN]
    BY <1>7 DEF RegisterVault, LockAdditionalCollateral, TypeOK
  <2> QED
    BY <1>1, <2>1, <2>2, <2>3, UpdatedIsGood
<1>8. ASSUME NEW amount \in OneAmounts, WithdrawCollateral(v, amount)
      PROVE  IInv'
  <2>1. collateral' \in [Vaults -> Nat]
    BY <1>8, RewardConstants DEF WithdrawCollateral, TypeOK
  <2> QED
    BY <1>8, <2>1 DEF WithdrawCollateral, TypeOK, CreditedWithinLock,
       ReserveIsCounted, reserveVars
<1> QED
  BY <1>2, <1>3, <1>4, <1>5, <1>6, <1>7, <1>8 DEF VaultNext

LEMMA StepKeepsIInv == IInv /\ [Next]_vars => IInv'
<1> SUFFICES ASSUME IInv, [Next]_vars PROVE IInv'
  OBVIOUS
<1>1. CASE UNCHANGED vars
  BY <1>1 DEF vars, registryVars, reserveVars, IInv, TypeOK, CreditedWithinLock,
     ReserveIsCounted
<1>2. CASE (\E v \in Vaults : VaultNext(v)) /\ UNCHANGED now
  BY <1>2, VaultKeepsIInv
<1>3. CASE ReserveNext /\ UNCHANGED now
  <2>1. PICK amount \in OneAmounts : DepositReward(amount) \/ WithdrawReward(amount)
    BY <1>3 DEF ReserveNext
  <2>2. /\ reserve' \in Nat /\ totalDepositAmount' \in Nat
        /\ totalWithdrawalAmount' \in Nat /\ ReserveIsCounted'
    BY <2>1, WithdrawKeeps, RewardConstants
       DEF DepositReward, IInv, TypeOK, ReserveIsCounted
  <2> QED
    BY <1>3, <2>2 DEF ReserveNext, registryVars, IInv, TypeOK, CreditedWithinLock
<1>4. CASE Tick
  BY <1>4, RewardConstants DEF Tick, registryVars, reserveVars, IInv, TypeOK,
     CreditedWithinLock, ReserveIsCounted, LockedVault
<1> QED
  BY <1>1, <1>2, <1>3, <1>4 DEF Next

LEMMA IInvAlways == Spec => []IInv
  BY InitIInv, StepKeepsIInv, PTL DEF Spec

\* For any vaults and amounts: rewards, reserve and collateral stay natural
\* numbers, so no subtraction of the contracts underflows.
THEOREM RewardTypeCorrect == Spec => []TypeOK
<1>1. IInv => TypeOK
  BY DEF IInv
<1> QED
  BY <1>1, IInvAlways, PTL

\* For any lengths of month and fortnight: no vault is credited ahead of time
\* or beyond its lock.
THEOREM CreditWithinLock == Spec => []CreditedWithinLock
<1>1. IInv => CreditedWithinLock
  BY DEF IInv
<1> QED
  BY <1>1, IInvAlways, PTL

\* Whatever is deposited, paid and withdrawn: the reserve is what its two
\* totals say.
THEOREM ReserveCounted == Spec => []ReserveIsCounted
<1>1. IInv => ReserveIsCounted
  BY DEF IInv
<1> QED
  BY <1>1, IInvAlways, PTL

-----------------------------------------------------------------------------
\* Euclid: a natural number is a multiple of n and what is left of it.
LEMMA Euclid ==
  ASSUME NEW n \in Nat \ {0}, NEW a \in Nat
  PROVE  a % n \in 0 .. (n - 1) /\ a \div n \in Nat /\ a = n * (a \div n) + (a % n)
OBVIOUS

\* A multiple of n leaves nothing.
LEMMA MultipleLeavesNothing ==
  ASSUME NEW n \in Nat \ {0}, NEW q \in Nat
  PROVE  (n * q) % n = 0
<1> DEFINE x == n * q    r == x % n    t == x \div n
<1>1. x \in Nat
  OBVIOUS
<1>2. r \in 0 .. (n - 1) /\ t \in Nat /\ n * q = n * t + r
  BY <1>1, Euclid
<1> HIDE DEF x, r, t
<1>3. CASE t = q
  BY <1>2, <1>3
<1>4. CASE t > q
  <2> DEFINE d == t - q - 1
  <2>1. d \in Nat /\ t = q + 1 + d
    BY <1>2, <1>4
  <2> HIDE DEF d
  <2>2. n * t = n * q + n + n * d
    BY <2>1
  <2>3. n * d >= 0 /\ n * d \in Int /\ n * q \in Int
    BY <2>1
  <2> QED
    BY <1>2, <2>2, <2>3
<1>5. CASE q > t
  <2> DEFINE d == q - t - 1
  <2>1. d \in Nat /\ q = t + 1 + d
    BY <1>2, <1>5
  <2> HIDE DEF d
  <2>2. n * q = n * t + n + n * d
    BY <1>2, <2>1
  <2>3. n * d >= 0 /\ n * d \in Int /\ n * t \in Int
    BY <1>2, <2>1
  <2> QED
    BY <1>2, <2>2, <2>3
<1>6. r = 0
  BY <1>2, <1>3, <1>4, <1>5
<1> QED
  BY <1>6 DEF r, x

\* A quotient of at least one needs the whole divisor, one of zero adds
\* nothing, and what is left of a number divides by nothing more.
LEMMA Quotient ==
  ASSUME NEW a \in Nat, NEW b \in Nat \ {0}
  PROVE  /\ a \div b > 0 => a >= b
         /\ (a - (a % b)) % b = 0
<1>1. a \div b > 0 => a >= b
  OBVIOUS
<1>2. (a - (a % b)) % b = 0
  <2> DEFINE q == a \div b
             r == a % b
  <2>1. q \in Nat /\ r \in 0 .. (b - 1) /\ a = b * q + r
    BY Euclid
  <2> HIDE DEF q, r
  <2>2. b * q \in Int
    BY <2>1
  <2>3. a - r = b * q
    BY <2>1, <2>2
  <2>4. (a - r) % b = 0
    BY <2>1, <2>3, MultipleLeavesNothing
  <2> QED
    BY <2>4 DEF r
<1> QED
  BY <1>1, <1>2

\* What is claimable is more than what is credited only after a fortnight.
LEMMA CreditNeedsFortnight ==
  ASSUME IInv, NEW v \in Vaults,
         ClaimableRewards(v) > lockedVaults[v].accClaimableRewards
  PROVE  RewardClaimAt(v) >= lockedVaults[v].rewardClaimAt + Fortnight
<1> DEFINE passed == RewardClaimAt(v) - lockedVaults[v].rewardClaimAt
           units == passed \div Fortnight
           apr == APR(lockedVaults[v].lockPeriod)
<1>1. /\ lockedVaults[v].rewardClaimAt \in Nat
      /\ lockedVaults[v].accClaimableRewards \in Nat
      /\ collateral[v] \in Nat /\ apr \in Nat /\ RewardClaimAt(v) \in Nat
  BY RewardClaimAtMoves DEF IInv, TypeOK, LockedVault, APR
<1>2. passed \in Nat
  BY <1>1, RewardClaimAtMoves
<1>3. ClaimableRewards(v)
        = lockedVaults[v].accClaimableRewards
            + (collateral[v] * units * 14 * apr) \div 36500
  BY DEF ClaimableRewards
<1> HIDE DEF passed, apr
<1>4. units \in Nat
  BY <1>2, Division, RewardConstants
<1> HIDE DEF units
<1>5. units # 0
  <2>1. SUFFICES ASSUME units = 0 PROVE FALSE
    OBVIOUS
  <2>2. collateral[v] * units * 14 * apr = 0
    BY <1>1, <2>1
  <2>3. (collateral[v] * units * 14 * apr) \div 36500 = 0
    BY <2>2
  <2> QED
    BY <1>1, <1>3, <2>3
<1>6. passed >= Fortnight
  BY <1>2, <1>4, <1>5, Quotient, RewardConstants DEF units
<1> QED
  BY <1>1, <1>6, RewardConstants DEF passed

\* Within the lock the time credited is whole fortnights.
LEMMA WholeFortnights ==
  ASSUME IInv, NEW v \in Vaults, InLock(v)
  PROVE  (RewardClaimAt(v) - lockedVaults[v].rewardClaimAt) % Fortnight = 0
<1> DEFINE passed == now - lockedVaults[v].rewardClaimAt
<1>1. /\ now \in Nat /\ lockedVaults[v].rewardClaimAt \in Nat
      /\ lockedVaults[v].rewardClaimAt <= now
  BY DEF IInv, TypeOK, LockedVault, CreditedWithinLock
<1>2. passed \in Nat
  BY <1>1
<1>3. RewardClaimAt(v) = now - (passed % Fortnight)
  BY DEF RewardClaimAt
<1>4. passed % Fortnight \in Nat
  BY <1>2, Division, RewardConstants
<1>5. RewardClaimAt(v) - lockedVaults[v].rewardClaimAt = passed - (passed % Fortnight)
  BY <1>1, <1>3, <1>4
<1> QED
  BY <1>2, <1>5, Quotient, RewardConstants

\* Three things a step may do to what a vault has earned.
Credits(v) ==
  /\ lockedVaults'[v].rewardClaimAt = RewardClaimAt(v)
  /\ Earned(v)' = received[v] + ClaimableRewards(v)
Keeps(v) ==
  /\ lockedVaults'[v].rewardClaimAt = lockedVaults[v].rewardClaimAt
  /\ Earned(v)' = Earned(v)
Loses(v) == ~InLock(v) /\ Earned(v)' = received[v]

CreditedAsItShould(v) ==
  /\ Earned(v)' > Earned(v) =>
       /\ lockedVaults'[v].rewardClaimAt >= lockedVaults[v].rewardClaimAt + Fortnight
       /\ lockedVaults'[v].rewardClaimAt <= lockedVaults[v].lockExpireAt
  /\ InLock(v) =>
       (lockedVaults'[v].rewardClaimAt - lockedVaults[v].rewardClaimAt)
         % Fortnight = 0

LEMMA CreditedOrNot ==
  ASSUME IInv, NEW v \in Vaults, Credits(v) \/ Keeps(v) \/ Loses(v)
  PROVE  CreditedAsItShould(v)
<1>1. /\ received[v] \in Nat /\ lockedVaults[v].accClaimableRewards \in Nat
      /\ lockedVaults[v].rewardClaimAt \in Nat
      /\ Earned(v) = received[v] + lockedVaults[v].accClaimableRewards
  BY DEF IInv, TypeOK, LockedVault, Earned
<1>2. CASE Credits(v)
  BY <1>1, <1>2, ClaimableIsNatural, CreditNeedsFortnight, WholeFortnights,
     RewardClaimAtMoves DEF Credits, CreditedAsItShould
<1>3. CASE Keeps(v)
  <2>1. lockedVaults[v].rewardClaimAt - lockedVaults[v].rewardClaimAt = 0
    BY <1>1
  <2>2. 0 % Fortnight = 0
    BY RewardConstants
  <2>3. Earned(v) \in Nat
    BY <1>1
  <2> QED
    BY <1>3, <2>1, <2>2, <2>3 DEF Keeps, CreditedAsItShould
<1>4. CASE Loses(v)
  BY <1>1, <1>4 DEF Loses, CreditedAsItShould
<1> QED
  BY <1>2, <1>3, <1>4

\* An update, within an extension or not, credits or keeps.
LEMMA UpdateCredits ==
  ASSUME IInv, NEW v \in Vaults, received' = received,
         lockedVaults'[v].rewardClaimAt = Updated(v).rewardClaimAt,
         lockedVaults'[v].accClaimableRewards = Updated(v).accClaimableRewards
  PROVE  Credits(v) \/ Keeps(v)
<1>1. lockedVaults[v] \in LockedVault
  BY DEF IInv, TypeOK
<1>2. CASE InLock(v)
  BY <1>1, <1>2 DEF Updated, LockedVault, Credits, Earned
<1>3. CASE ~InLock(v)
  BY <1>3 DEF Updated, Keeps, Earned
<1> QED
  BY <1>2, <1>3

LEMMA SetLockSets ==
  ASSUME IInv, NEW v \in Vaults, NEW lock, SetLock(v, lock)
  PROVE  /\ lockedVaults'[v] = lock
         /\ \A w \in Vaults \ {v} : lockedVaults'[w] = lockedVaults[w]
  BY DEF IInv, TypeOK, SetLock

LEMMA ExtensionCredits ==
  ASSUME IInv, NEW v \in Vaults, NEW lockPeriod \in LockPeriods,
         ExtendVaultLockPeriod(v, lockPeriod)
  PROVE  Credits(v) \/ Keeps(v) \/ Loses(v)
<1>1. lockedVaults'[v] = Extended(v, lockPeriod) /\ received' = received
  BY SetLockSets DEF ExtendVaultLockPeriod
<1>2. now \in Nat /\ lockedVaults[v].lockExpireAt \in Nat /\ received[v] \in Nat
  BY DEF IInv, TypeOK, LockedVault
<1>3. CASE lockedVaults[v].lockExpireAt < now
  <2>1. lockedVaults'[v].accClaimableRewards = 0
    BY <1>1, <1>3 DEF Extended
  <2>2. ~InLock(v)
    BY <1>2, <1>3 DEF InLock
  <2> QED
    BY <1>1, <1>2, <2>1, <2>2 DEF Loses, Earned
<1>4. CASE ~(lockedVaults[v].lockExpireAt < now)
  <2> DEFINE lock == Updated(v)
             longer == [lock EXCEPT !.lockPeriod = @ + lockPeriod]
  <2>1. lockedVaults'[v] = [longer EXCEPT !.lockExpireAt = @ + Month * lockPeriod]
    BY <1>1, <1>4 DEF Extended
  <2>2. lock \in LockedVault
    BY UpdatedIsGood DEF GoodLock
  <2> HIDE DEF lock
  <2>3. /\ longer.rewardClaimAt = lock.rewardClaimAt
        /\ longer.accClaimableRewards = lock.accClaimableRewards
        /\ DOMAIN longer = DOMAIN lock
    BY <2>2 DEF LockedVault
  <2> HIDE DEF longer
  <2>4. DOMAIN lock = {"lockPeriod", "lockExpireAt", "rewardClaimAt",
                       "accClaimableRewards"}
    BY <2>2 DEF LockedVault
  <2>5. /\ lockedVaults'[v].rewardClaimAt = lock.rewardClaimAt
        /\ lockedVaults'[v].accClaimableRewards = lock.accClaimableRewards
    BY <2>1, <2>3, <2>4
  <2> QED
    BY <1>1, <2>5, UpdateCredits DEF lock
<1> QED
  BY <1>3, <1>4

LEMMA ClaimCredits ==
  ASSUME IInv, NEW v \in Vaults, Claim(v)
  PROVE  Credits(v)
<1>1. lockedVaults[v] \in LockedVault /\ received[v] \in Nat
      /\ DOMAIN received = Vaults
  BY DEF IInv, TypeOK
<1>2. lockedVaults'[v] = Claimed(v)
  BY SetLockSets DEF Claim
<1>3. received'[v] = received[v] + ClaimableRewards(v)
  BY <1>1 DEF Claim
<1>4. /\ lockedVaults'[v].rewardClaimAt = RewardClaimAt(v)
      /\ lockedVaults'[v].accClaimableRewards = 0
  BY <1>1, <1>2 DEF Claimed, LockedVault
<1>5. ClaimableRewards(v) \in Nat
  BY ClaimableIsNatural
<1> QED
  BY <1>1, <1>3, <1>4, <1>5 DEF Credits, Earned

LEMMA VaultCredits ==
  ASSUME IInv, NEW v \in Vaults, VaultNext(v)
  PROVE  /\ Credits(v) \/ Keeps(v) \/ Loses(v)
         /\ \A w \in Vaults \ {v} : Keeps(w)
<1>1. ASSUME NEW lock, SetLock(v, lock), received' = received
      PROVE  \A w \in Vaults \ {v} : Keeps(w)
  BY <1>1, SetLockSets DEF Keeps, Earned
<1>2. ASSUME SetLock(v, Updated(v)), received' = received
      PROVE  Credits(v) \/ Keeps(v)
  BY <1>2, SetLockSets, UpdateCredits
<1>3. ASSUME NEW lockPeriod \in LockPeriods, ExtendVaultLockPeriod(v, lockPeriod)
      PROVE  /\ Credits(v) \/ Keeps(v) \/ Loses(v)
             /\ \A w \in Vaults \ {v} : Keeps(w)
  BY <1>1, <1>3, ExtensionCredits DEF ExtendVaultLockPeriod
<1>4. CASE UpdateVaultAccClaimableRewards(v)
  BY <1>1, <1>2, <1>4 DEF UpdateVaultAccClaimableRewards
<1>5. CASE ClaimRewards(v) \/ ClaimRewardsAndLock(v)
  <2>1. Claim(v)
    BY <1>5 DEF ClaimRewards, ClaimRewardsAndLock
  <2>2. \A w \in Vaults \ {v} : received'[w] = received[w]
                               /\ lockedVaults'[w] = lockedVaults[w]
    BY <2>1, SetLockSets DEF Claim, IInv, TypeOK
  <2> QED
    BY <2>1, <2>2, ClaimCredits DEF Keeps, Earned
<1>6. ASSUME NEW amount \in OneAmounts,
             RegisterVault(v, amount) \/ LockAdditionalCollateral(v, amount)
      PROVE  /\ Credits(v) \/ Keeps(v)
             /\ \A w \in Vaults \ {v} : Keeps(w)
  BY <1>1, <1>2, <1>6 DEF RegisterVault, LockAdditionalCollateral, LockCollateral
<1>7. CASE UpdatePublicKey(v) \/ \E amount \in OneAmounts : WithdrawCollateral(v, amount)
  BY <1>7 DEF UpdatePublicKey, WithdrawCollateral, Keeps, Earned
<1> QED
  BY <1>3, <1>4, <1>5, <1>6, <1>7 DEF VaultNext

LEMMA StepCredits ==
  IInv /\ [Next]_vars => [CreditedOnceStep /\ WholeFortnightsStep]_vars
<1> SUFFICES ASSUME IInv, Next, NEW v \in Vaults PROVE CreditedAsItShould(v)
  BY DEF CreditedOnceStep, WholeFortnightsStep, CreditedAsItShould
<1>1. CASE \E w \in Vaults : VaultNext(w)
  BY <1>1, VaultCredits, CreditedOrNot
<1>2. CASE ReserveNext \/ Tick
  <2>1. Keeps(v)
    BY <1>2 DEF ReserveNext, Tick, Keeps, Earned
  <2> QED
    BY <2>1, CreditedOrNot
<1> QED
  BY <1>1, <1>2 DEF Next

\* For any lengths of month and fortnight, whoever calls what in whatever
\* order: no fortnight of a lock is credited twice and none in part.
THEOREM FortnightsCreditedOnce == Spec => CreditedOnce
  BY IInvAlways, StepCredits, PTL DEF Spec, CreditedOnce

-----------------------------------------------------------------------------
\* What is claimable, as a function of a lock, the time and the collateral.
ClaimAt(lock, time) ==
  IF time <= lock.lockExpireAt
  THEN time - ((time - lock.rewardClaimAt) % Fortnight)
  ELSE lock.lockExpireAt

Units(lock, time) == (ClaimAt(lock, time) - lock.rewardClaimAt) \div Fortnight

Owed(lock, time, amount) ==
  lock.accClaimableRewards
    + (amount * Units(lock, time) * 14 * APR(lock.lockPeriod)) \div 36500

LEMMA ClaimableIsOwed ==
  ASSUME NEW v \in Vaults
  PROVE  /\ ClaimableRewards(v) = Owed(lockedVaults[v], now, collateral[v])
         /\ ClaimableRewards(v)' = Owed(lockedVaults'[v], now', collateral'[v])
  BY DEF ClaimableRewards, RewardClaimAt, InLock, Owed, Units, ClaimAt

\* Quotients and products grow with what they are of.
LEMMA QuotientGrows ==
  ASSUME NEW n \in Nat \ {0}, NEW a \in Nat, NEW b \in Nat, a <= b
  PROVE  a \div n <= b \div n
<1> DEFINE q == a \div n   r == a % n   s == b \div n   t == b % n
<1>1. /\ q \in Nat /\ r \in 0 .. (n - 1) /\ a = n * q + r
      /\ s \in Nat /\ t \in 0 .. (n - 1) /\ b = n * s + t
  BY Euclid
<1> HIDE DEF q, r, s, t
<1> SUFFICES ASSUME q > s PROVE FALSE
  BY <1>1 DEF q, s
<1> DEFINE d == q - s - 1
<1>2. d \in Nat /\ q = s + 1 + d
  BY <1>1
<1> HIDE DEF d
<1>3. n * q = n * s + n + n * d
  BY <1>1, <1>2
<1>4. n * d \in Nat /\ n * s \in Int
  BY <1>1, <1>2
<1> QED
  BY <1>1, <1>3, <1>4

LEMMA ProductGrows ==
  ASSUME NEW c \in Nat, NEW a \in Nat, NEW b \in Nat, a <= b
  PROVE  c * a <= c * b
<1> DEFINE d == b - a
<1>1. d \in Nat /\ b = a + d
  OBVIOUS
<1> HIDE DEF d
<1>2. c * b = c * a + c * d /\ c * d \in Nat /\ c * a \in Int
  BY <1>1
<1> QED
  BY <1>2

\* A good lock is credited for whole units of time.
LEMMA UnitsNatural ==
  ASSUME NEW time \in Nat, NEW lock, GoodLock(lock, time)
  PROVE  /\ ClaimAt(lock, time) \in Nat
         /\ lock.rewardClaimAt <= ClaimAt(lock, time)
         /\ ClaimAt(lock, time) <= time
         /\ Units(lock, time) \in Nat
<1>1. /\ lock.rewardClaimAt \in Nat /\ lock.lockExpireAt \in Nat
      /\ lock.rewardClaimAt <= time /\ lock.rewardClaimAt <= lock.lockExpireAt
  BY DEF GoodLock, LockedVault
<1>2. time - lock.rewardClaimAt \in Nat
  BY <1>1
<1>3. (time - lock.rewardClaimAt) % Fortnight \in 0 .. (time - lock.rewardClaimAt)
  BY <1>2, Division, RewardConstants
<1>4. /\ ClaimAt(lock, time) \in Nat /\ lock.rewardClaimAt <= ClaimAt(lock, time)
      /\ ClaimAt(lock, time) <= time
  BY <1>1, <1>3 DEF ClaimAt
<1>5. ClaimAt(lock, time) - lock.rewardClaimAt \in Nat
  BY <1>1, <1>4
<1> QED
  BY <1>4, <1>5, Division, RewardConstants DEF Units

\* What is owed is at least what is credited, and grows with the units.
LEMMA OwedAtLeast ==
  ASSUME NEW time \in Nat, NEW lock, GoodLock(lock, time), NEW amount \in Nat,
         NEW units \in Nat, units <= Units(lock, time)
  PROVE  LET apr == APR(lock.lockPeriod)
         IN  /\ Owed(lock, time, amount) \in Nat
             /\ lock.accClaimableRewards + (amount * units * 14 * apr) \div 36500
                  <= Owed(lock, time, amount)
             /\ lock.accClaimableRewards <= Owed(lock, time, amount)
<1> DEFINE apr == APR(lock.lockPeriod)
           all == Units(lock, time)
<1>1. /\ all \in Nat /\ apr \in Nat /\ lock.accClaimableRewards \in Nat
      /\ units <= all
  BY UnitsNatural DEF APR, GoodLock, LockedVault
<1>2. Owed(lock, time, amount)
        = lock.accClaimableRewards + (amount * all * 14 * apr) \div 36500
  BY DEF Owed
<1> HIDE DEF apr, all
<1> DEFINE part == amount * units   whole == amount * all
<1>3. part \in Nat /\ whole \in Nat /\ part <= whole
  BY <1>1, Product, ProductGrows
<1> HIDE DEF part, whole
<1>4. apr * (part * 14) \in Nat /\ apr * (whole * 14) \in Nat
      /\ part * 14 \in Nat /\ whole * 14 \in Nat /\ part * 14 <= whole * 14
  BY <1>1, <1>3, Product
<1>5. apr * (part * 14) <= apr * (whole * 14)
  BY <1>1, <1>4, ProductGrows
<1>6. /\ apr * (part * 14) = part * 14 * apr
      /\ apr * (whole * 14) = whole * 14 * apr
  BY <1>1, <1>3
<1>7. /\ (part * 14 * apr) \div 36500 \in Nat
      /\ (whole * 14 * apr) \div 36500 \in Nat
      /\ (part * 14 * apr) \div 36500 <= (whole * 14 * apr) \div 36500
  BY <1>4, <1>5, <1>6, Division, QuotientGrows
<1> QED
  BY <1>1, <1>2, <1>7 DEF part, whole, apr

\* Within the lock time only adds to what is owed.
LEMMA OwedGrows ==
  ASSUME NEW time \in Nat, NEW lock, GoodLock(lock, time),
         time <= lock.lockExpireAt, NEW amount \in Nat
  PROVE  Owed(lock, time, amount) <= Owed(lock, time + 1, amount)
<1> DEFINE start == lock.rewardClaimAt
           passed == time - start
<1>1. /\ start \in Nat /\ lock.lockExpireAt \in Nat
      /\ passed \in Nat /\ time = start + passed
      /\ GoodLock(lock, time + 1) /\ time + 1 \in Nat
      /\ start = lock.rewardClaimAt /\ time - start = passed
  BY DEF GoodLock, LockedVault
<1> HIDE DEF start, passed
<1>2. ClaimAt(lock, time) <= ClaimAt(lock, time + 1)
  <2>1. ClaimAt(lock, time) = time - (passed % Fortnight)
    BY <1>1 DEF ClaimAt
  <2>2. CASE time + 1 <= lock.lockExpireAt
    <3> DEFINE q == passed \div Fortnight   r == passed % Fortnight
               s == (passed + 1) \div Fortnight   t == (passed + 1) % Fortnight
    <3>1. /\ q \in Nat /\ r \in Int /\ passed = Fortnight * q + r
          /\ s \in Nat /\ t \in Int /\ passed + 1 = Fortnight * s + t
          /\ q <= s
      <4>1. passed + 1 \in Nat /\ passed <= passed + 1
        BY <1>1
      <4>2. q <= s
        BY <1>1, <4>1, QuotientGrows, RewardConstants
      <4>3. r \in 0 .. (Fortnight - 1) /\ q \in Nat /\ passed = Fortnight * q + r
        BY <1>1, Euclid, RewardConstants
      <4>4. t \in 0 .. (Fortnight - 1) /\ s \in Nat /\ passed + 1 = Fortnight * s + t
        BY <4>1, Euclid, RewardConstants
      <4> HIDE DEF q, r, s, t
      <4> QED
        BY <4>2, <4>3, <4>4
    <3>2. ClaimAt(lock, time + 1) = (time + 1) - t
      <4>1. (time + 1) - lock.rewardClaimAt = passed + 1
        BY <1>1
      <4> QED
        BY <2>2, <4>1 DEF ClaimAt
    <3>3. ClaimAt(lock, time) = time - r
      BY <2>1
    <3> HIDE DEF q, r, s, t
    <3>4. Fortnight * q <= Fortnight * s
      BY <3>1, ProductGrows, RewardConstants
    <3>5. Fortnight * q \in Int /\ Fortnight * s \in Int
      BY <3>1, RewardConstants
    <3> QED
      BY <1>1, <3>1, <3>2, <3>3, <3>4, <3>5
  <2>3. CASE ~(time + 1 <= lock.lockExpireAt)
    <3>1. ClaimAt(lock, time + 1) = time
      BY <1>1, <2>3 DEF ClaimAt
    <3>2. ClaimAt(lock, time) <= time
      BY UnitsNatural
    <3> QED
      BY <3>1, <3>2
  <2> QED
    BY <2>2, <2>3
<1>3. Units(lock, time) <= Units(lock, time + 1)
  <2>1. /\ ClaimAt(lock, time) - start \in Nat
        /\ ClaimAt(lock, time + 1) - start \in Nat
        /\ ClaimAt(lock, time) - start <= ClaimAt(lock, time + 1) - start
    <3>1. /\ ClaimAt(lock, time) \in Nat /\ start <= ClaimAt(lock, time)
          /\ ClaimAt(lock, time + 1) \in Nat /\ start <= ClaimAt(lock, time + 1)
      BY <1>1, UnitsNatural
    <3> QED
      BY <1>1, <1>2, <3>1
  <2> QED
    BY <1>1, <2>1, QuotientGrows, RewardConstants DEF Units
<1>4. Units(lock, time) \in Nat
  BY UnitsNatural
<1> QED
  BY <1>1, <1>3, <1>4, OwedAtLeast DEF Owed

\* Just after an update nothing is owed but what was credited.
LEMMA NothingJustAfter ==
  ASSUME IInv, NEW v \in Vaults, InLock(v), NEW amount \in Nat
  PROVE  Owed(Updated(v), now, amount) = ClaimableRewards(v)
<1> DEFINE lock == lockedVaults[v]
           passed == now - lock.rewardClaimAt
           r == passed % Fortnight
<1>1. /\ now \in Nat /\ lock \in LockedVault /\ lock.rewardClaimAt \in Nat
      /\ lock.rewardClaimAt <= now
  BY RewardConstants DEF IInv, TypeOK, LockedVault, CreditedWithinLock
<1>2. /\ Updated(v).rewardClaimAt = RewardClaimAt(v)
      /\ Updated(v).accClaimableRewards = ClaimableRewards(v)
      /\ Updated(v).lockExpireAt = lock.lockExpireAt
  BY <1>1 DEF Updated, LockedVault
<1>3. RewardClaimAt(v) = now - r
  BY DEF RewardClaimAt
<1>4. passed \in Nat /\ r \in 0 .. (Fortnight - 1)
  <2>1. passed \in Nat
    BY <1>1
  <2> HIDE DEF passed
  <2> QED
    BY <2>1, Euclid, RewardConstants
<1> HIDE DEF r, passed, lock
<1>5. now - RewardClaimAt(v) = r
  BY <1>1, <1>3, <1>4
<1>6. r % Fortnight = r
  BY <1>4, RewardConstants
<1>7. ClaimAt(Updated(v), now) = RewardClaimAt(v)
  <2>1. now <= Updated(v).lockExpireAt
    BY <1>2 DEF InLock, lock
  <2> QED
    BY <1>2, <1>3, <1>5, <1>6, <2>1 DEF ClaimAt
<1>8. Units(Updated(v), now) = 0
  <2>1. RewardClaimAt(v) - RewardClaimAt(v) = 0
    BY RewardClaimAtMoves
  <2>2. 0 \div Fortnight = 0
    BY RewardConstants
  <2> QED
    BY <1>2, <1>7, <2>1, <2>2 DEF Units
<1> DEFINE apr == APR(Updated(v).lockPeriod)
<1>9. apr \in Nat
  BY DEF APR
<1>10. Owed(Updated(v), now, amount)
         = ClaimableRewards(v) + (amount * 0 * 14 * apr) \div 36500
  BY <1>2, <1>8 DEF Owed
<1> HIDE DEF apr
<1>11. (amount * 0 * 14 * apr) \div 36500 = 0
  BY <1>9
<1> QED
  BY <1>10, <1>11, ClaimableIsNatural

\* What one step may do to what a vault can claim.
KeptOrClaimed(v) ==
  \/ ClaimableRewards(v) <= ClaimableRewards(v)'
  \/ received'[v] = received[v] + ClaimableRewards(v)
  \/ lockedVaults[v].lockExpireAt < now

LEMMA OthersKept ==
  ASSUME IInv, NEW v \in Vaults, lockedVaults'[v] = lockedVaults[v],
         collateral'[v] = collateral[v], now' = now
  PROVE  ClaimableRewards(v)' = ClaimableRewards(v) /\ KeptOrClaimed(v)
<1>1. ClaimableRewards(v)' = ClaimableRewards(v)
  BY ClaimableIsOwed
<1>2. ClaimableRewards(v) \in Nat
  BY ClaimableIsNatural
<1> QED
  BY <1>1, <1>2 DEF KeptOrClaimed

LEMMA UpdateKeeps ==
  ASSUME IInv, NEW v \in Vaults, InLock(v), lockedVaults'[v] = Updated(v),
         collateral'[v] \in Nat, now' = now
  PROVE  ClaimableRewards(v)' = ClaimableRewards(v) /\ KeptOrClaimed(v)
<1>1. ClaimableRewards(v)' = ClaimableRewards(v)
  BY ClaimableIsOwed, NothingJustAfter
<1>2. ClaimableRewards(v) \in Nat
  BY ClaimableIsNatural
<1> QED
  BY <1>1, <1>2 DEF KeptOrClaimed

\* An extension credits what is claimable, and then applies the rate of the
\* longer lock from there on.
LEMMA ExtensionKeeps ==
  ASSUME IInv, NEW v \in Vaults, NEW lockPeriod \in LockPeriods,
         ExtendVaultLockPeriod(v, lockPeriod), now' = now
  PROVE  KeptOrClaimed(v)
<1>1. /\ lockedVaults'[v] = Extended(v, lockPeriod)
      /\ collateral' = collateral
  BY SetLockSets DEF ExtendVaultLockPeriod, registryVars
<1>2. now \in Nat /\ collateral[v] \in Nat /\ lockedVaults[v].lockExpireAt \in Nat
  BY DEF IInv, TypeOK, LockedVault
<1> SUFFICES ASSUME ~(lockedVaults[v].lockExpireAt < now)
             PROVE  ClaimableRewards(v) <= ClaimableRewards(v)'
  BY DEF KeptOrClaimed
<1>3. InLock(v)
  BY <1>2 DEF InLock
<1>4. GoodLock(Extended(v, lockPeriod), now)
  BY ExtendedIsGood
<1>5. Extended(v, lockPeriod).accClaimableRewards = ClaimableRewards(v)
  <2> DEFINE lock == Updated(v)
             longer == [lock EXCEPT !.lockPeriod = @ + lockPeriod]
             months == Month * lockPeriod
  <2>1. Extended(v, lockPeriod) = [longer EXCEPT !.lockExpireAt = @ + months]
    BY DEF Extended
  <2>2. lock \in LockedVault /\ lock.accClaimableRewards = ClaimableRewards(v)
    <3>1. lockedVaults[v] \in LockedVault
      BY DEF IInv, TypeOK
    <3> QED
      BY <1>3, <3>1, UpdatedIsGood DEF GoodLock, Updated, LockedVault
  <2> HIDE DEF lock, months
  <2>3. longer.accClaimableRewards = ClaimableRewards(v) /\ DOMAIN longer = DOMAIN lock
    BY <2>2 DEF LockedVault
  <2>4. DOMAIN lock = {"lockPeriod", "lockExpireAt", "rewardClaimAt",
                       "accClaimableRewards"}
    BY <2>2 DEF LockedVault
  <2> HIDE DEF longer
  <2> QED
    BY <2>1, <2>3, <2>4
<1>6. /\ 0 \in Nat /\ 0 <= Units(Extended(v, lockPeriod), now)
  BY <1>2, <1>4, UnitsNatural
<1>7. ClaimableRewards(v) <= Owed(Extended(v, lockPeriod), now, collateral[v])
  BY <1>2, <1>4, <1>5, <1>6, OwedAtLeast
<1> QED
  BY <1>1, <1>7, ClaimableIsOwed

LEMMA VaultKeepsClaimable ==
  ASSUME IInv, NEW w \in Vaults, VaultNext(w), now' = now, NEW v \in Vaults
  PROVE  /\ KeptOrClaimed(v)
         /\ (collateral'[v] > collateral[v] /\ received' = received /\ InLock(v))
              => ClaimableRewards(v)' = ClaimableRewards(v)
<1> DEFINE Good == /\ KeptOrClaimed(v)
                   /\ (collateral'[v] > collateral[v] /\ received' = received
                         /\ InLock(v))
                        => ClaimableRewards(v)' = ClaimableRewards(v)
<1>1. /\ now \in Nat /\ collateral[v] \in Nat /\ received[v] \in Nat
      /\ lockedVaults[v].lockExpireAt \in Nat
      /\ collateral \in [Vaults -> Nat] /\ received \in [Vaults -> Nat]
  BY DEF IInv, TypeOK, LockedVault
<1>2. ~InLock(v) => Good
  BY <1>1 DEF InLock, KeptOrClaimed
<1>3. ASSUME lockedVaults'[v] = lockedVaults[v], collateral'[v] = collateral[v]
      PROVE  Good
  BY <1>3, OthersKept
<1>4. ASSUME w = v, SetLock(w, Updated(w)), collateral'[v] \in Nat
      PROVE  Good
  BY <1>2, <1>4, SetLockSets, UpdateKeeps
<1>5. ASSUME NEW lock, SetLock(w, lock), w # v
      PROVE  lockedVaults'[v] = lockedVaults[v]
  BY <1>5, SetLockSets
<1>6. ASSUME NEW lockPeriod \in LockPeriods, ExtendVaultLockPeriod(w, lockPeriod)
      PROVE  Good
  <2>1. collateral' = collateral /\ SetLock(w, Extended(w, lockPeriod))
    BY <1>6 DEF ExtendVaultLockPeriod, registryVars
  <2>2. ~(collateral'[v] > collateral[v])
    BY <1>1, <2>1
  <2>3. CASE w = v
    BY <1>6, <2>2, <2>3, ExtensionKeeps
  <2>4. CASE w # v
    BY <1>3, <1>5, <2>1, <2>4
  <2> QED
    BY <2>3, <2>4
<1>7. CASE UpdateVaultAccClaimableRewards(w)
  <2>1. collateral' = collateral /\ SetLock(w, Updated(w))
    BY <1>7 DEF UpdateVaultAccClaimableRewards, registryVars
  <2> QED
    BY <1>1, <1>3, <1>4, <1>5, <2>1
<1>8. CASE ClaimRewards(w) \/ ClaimRewardsAndLock(w)
  <2>1. /\ SetLock(w, Claimed(w))
        /\ received' = [received EXCEPT ![w] = @ + ClaimableRewards(w)]
        /\ \/ collateral' = collateral
           \/ collateral' = [collateral EXCEPT ![w] = @ + ClaimableRewards(w)]
    BY <1>8 DEF ClaimRewards, ClaimRewardsAndLock, Claim, registryVars
  <2>2. CASE w = v
    <3>1. received'[v] = received[v] + ClaimableRewards(v)
      BY <1>1, <2>1, <2>2
    <3>2. ClaimableRewards(v) \in Nat
      BY ClaimableIsNatural
    <3>3. /\ collateral'[v] = collateral[v]
             \/ collateral'[v] = collateral[v] + ClaimableRewards(v)
      BY <1>1, <2>1, <2>2
    <3>4. ~(collateral'[v] > collateral[v] /\ received' = received)
      BY <1>1, <3>1, <3>2, <3>3
    <3> QED
      BY <3>1, <3>4 DEF KeptOrClaimed
  <2>3. CASE w # v
    BY <1>1, <1>3, <1>5, <2>1, <2>3
  <2> QED
    BY <2>2, <2>3
<1>9. ASSUME NEW amount \in OneAmounts,
             RegisterVault(w, amount) \/ LockAdditionalCollateral(w, amount)
      PROVE  Good
  <2>1. /\ SetLock(w, Updated(w))
        /\ collateral' = [collateral EXCEPT ![w] = @ + amount]
    BY <1>9 DEF RegisterVault, LockAdditionalCollateral, LockCollateral
  <2>2. w = v => collateral'[v] \in Nat
    BY <1>1, <2>1, RewardConstants
  <2>3. w # v => collateral'[v] = collateral[v]
    BY <1>1, <2>1
  <2> QED
    BY <1>3, <1>4, <1>5, <2>1, <2>2, <2>3
<1>10. CASE UpdatePublicKey(w)
  BY <1>3, <1>10 DEF UpdatePublicKey
<1>11. ASSUME NEW amount \in OneAmounts, WithdrawCollateral(w, amount)
       PROVE  Good
  <2>1. /\ lockedVaults' = lockedVaults /\ lockedVaults[w].lockExpireAt < now
        /\ w # v => collateral'[v] = collateral[v]
    BY <1>1, <1>11 DEF WithdrawCollateral
  <2>2. CASE w = v
    <3>1. ~InLock(v)
      BY <1>1, <2>1, <2>2 DEF InLock
    <3> QED
      BY <1>2, <3>1
  <2> QED
    BY <1>3, <2>1, <2>2
<1> QED
  BY <1>6, <1>7, <1>8, <1>9, <1>10, <1>11 DEF VaultNext

LEMMA StepKeepsClaimable ==
  IInv /\ [Next]_vars => [ClaimableKeptStep /\ NotRetroactiveStep]_vars
<1> SUFFICES ASSUME IInv, Next, NEW v \in Vaults
             PROVE  /\ ClaimableRewards(v)' < ClaimableRewards(v) =>
                         \/ received'[v] = received[v] + ClaimableRewards(v)
                         \/ lockedVaults[v].lockExpireAt < now
                    /\ (collateral'[v] > collateral[v] /\ received' = received
                          /\ InLock(v))
                         => ClaimableRewards(v)' = ClaimableRewards(v)
  BY DEF ClaimableKeptStep, NotRetroactiveStep
<1>1. /\ now \in Nat /\ collateral[v] \in Nat /\ lockedVaults[v].lockExpireAt \in Nat
      /\ ClaimableRewards(v) \in Nat
  BY ClaimableIsNatural DEF IInv, TypeOK, LockedVault
<1>2. CASE (\E w \in Vaults : VaultNext(w)) /\ UNCHANGED now
  <2>1. KeptOrClaimed(v)
    BY <1>2, VaultKeepsClaimable
  <2>2. ClaimableRewards(v)' \in Int
    <3>1. IInv'
      BY StepKeepsIInv
    <3>2. /\ now' \in Nat /\ collateral'[v] \in Nat
          /\ GoodLock(lockedVaults'[v], now')
      BY <3>1 DEF IInv, TypeOK, CreditedWithinLock, GoodLock
    <3>3. 0 <= Units(lockedVaults'[v], now')
      BY <3>2, UnitsNatural
    <3>4. Owed(lockedVaults'[v], now', collateral'[v]) \in Nat
      BY <3>2, <3>3, OwedAtLeast
    <3> QED
      BY <3>4, ClaimableIsOwed
  <2> QED
    BY <1>1, <1>2, <2>1, <2>2, VaultKeepsClaimable DEF KeptOrClaimed
<1>3. CASE ReserveNext /\ UNCHANGED now
  <2>1. ClaimableRewards(v)' = ClaimableRewards(v)
    BY <1>3, OthersKept DEF ReserveNext, registryVars
  <2> QED
    BY <1>1, <2>1
<1>4. CASE Tick
  <2>1. /\ lockedVaults' = lockedVaults /\ collateral' = collateral /\ now' = now + 1
    BY <1>4 DEF Tick, registryVars
  <2>2. ~(collateral'[v] > collateral[v])
    BY <1>1, <2>1
  <2>3. CASE ~InLock(v)
    BY <1>1, <2>2, <2>3 DEF InLock
  <2>4. CASE InLock(v)
    <3>1. Owed(lockedVaults[v], now, collateral[v])
            <= Owed(lockedVaults[v], now + 1, collateral[v])
      BY <1>1, <2>4, LocksAreGood, OwedGrows DEF InLock
    <3>2. Owed(lockedVaults[v], now + 1, collateral[v]) \in Nat
      <4>1. GoodLock(lockedVaults[v], now + 1) /\ now + 1 \in Nat
        BY <1>1, LocksAreGood DEF GoodLock, LockedVault
      <4>2. 0 <= Units(lockedVaults[v], now + 1)
        BY <4>1, UnitsNatural
      <4> QED
        BY <1>1, <4>1, <4>2, OwedAtLeast
    <3>3. /\ ClaimableRewards(v) = Owed(lockedVaults[v], now, collateral[v])
          /\ ClaimableRewards(v)' = Owed(lockedVaults[v], now + 1, collateral[v])
      BY <2>1, ClaimableIsOwed
    <3>4. ~(ClaimableRewards(v)' < ClaimableRewards(v))
      BY <1>1, <3>1, <3>2, <3>3
    <3> QED
      BY <2>2, <3>4
  <2> QED
    BY <2>3, <2>4
<1> QED
  BY <1>2, <1>3, <1>4 DEF Next

\* For any locks and lengths of time: what a vault may claim does not shrink
\* unless it is paid or the lock is over, however it locks for longer, adds
\* collateral or has its rewards brought up to date.
THEOREM ClaimableStays == Spec => ClaimableKept
  BY IInvAlways, StepKeepsClaimable, PTL DEF Spec, ClaimableKept

\* For any locks and lengths of time: collateral added within a lock earns
\* nothing for the time before.
THEOREM NothingRetroactive == Spec => NotRetroactive
  BY IInvAlways, StepKeepsClaimable, PTL DEF Spec, NotRetroactive
-----------------------------------------------------------------------------
\* What the bridge relies on: the record and the lock

\* What keeps the end of the vault's lock keeps the ends of all.
LEMMA LockEndStays ==
  ASSUME IInv, NEW v \in Vaults, NEW lock, SetLock(v, lock),
         lock.lockExpireAt = lockedVaults[v].lockExpireAt
  PROVE  LockExpireAt' = LockExpireAt
<1>1. \A w \in Vaults : lockedVaults'[w].lockExpireAt = lockedVaults[w].lockExpireAt
  BY SetLockSets
<1> QED
  BY <1>1 DEF LockExpireAt

\* Neither bringing rewards up to date nor claiming them moves the end.
LEMMA UpdateAndClaimKeepLockEnd ==
  ASSUME IInv, NEW v \in Vaults
  PROVE  /\ Updated(v).lockExpireAt = lockedVaults[v].lockExpireAt
         /\ Claimed(v).lockExpireAt = lockedVaults[v].lockExpireAt
<1>1. lockedVaults[v] \in LockedVault
  BY DEF IInv, TypeOK
<1> QED
  BY <1>1 DEF Updated, Claimed, LockedVault

LEMMA ExtensionMovesLockEnd ==
  ASSUME IInv, NEW v \in Vaults, NEW lockPeriod \in LockPeriods
  PROVE  Extended(v, lockPeriod).lockExpireAt =
           IF lockedVaults[v].lockExpireAt < now
           THEN now + Month * lockPeriod
           ELSE lockedVaults[v].lockExpireAt + Month * lockPeriod
<1>1. CASE lockedVaults[v].lockExpireAt < now
  BY <1>1 DEF Extended
<1>2. CASE ~(lockedVaults[v].lockExpireAt < now)
  <2> DEFINE lock == Updated(v)
             longer == [lock EXCEPT !.lockPeriod = @ + lockPeriod]
             months == Month * lockPeriod
  <2>1. Extended(v, lockPeriod) = [longer EXCEPT !.lockExpireAt = @ + months]
    BY <1>2 DEF Extended
  <2>2. /\ lock \in LockedVault
        /\ lock.lockExpireAt = lockedVaults[v].lockExpireAt
    BY UpdatedIsGood, UpdateAndClaimKeepLockEnd DEF GoodLock
  <2> HIDE DEF lock
  <2>3. /\ longer.lockExpireAt = lock.lockExpireAt
        /\ DOMAIN longer = {"lockPeriod", "lockExpireAt", "rewardClaimAt",
                            "accClaimableRewards"}
    BY <2>2 DEF LockedVault
  <2> HIDE DEF longer, months
  <2>4. Extended(v, lockPeriod).lockExpireAt = longer.lockExpireAt + months
    BY <2>1, <2>3
  <2> QED
    BY <1>2, <2>2, <2>3, <2>4 DEF months
<1> QED
  BY <1>1, <1>2

\* A vault's collateral alone grows.
LEMMA CollateralIsAdded ==
  ASSUME IInv, NEW v \in Vaults, NEW amount \in Nat,
         collateral' = [collateral EXCEPT ![v] = @ + amount]
  PROVE  C!Added(v)
<1>1. collateral \in [Vaults -> Nat]
  BY DEF IInv, TypeOK
<1> QED
  BY <1>1 DEF C!Added

\* A call about v is one step of the interface for v, or none.
LEMMA VaultStepInInterface ==
  ASSUME IInv, NEW v \in Vaults, VaultNext(v), now' = now
  PROVE  C!Next \/ UNCHANGED C!vars
<1> DEFINE NothingMoves == UNCHANGED C!vars
<1>1. /\ collateral \in [Vaults -> Nat] /\ registered \in [Vaults -> BOOLEAN]
      /\ now \in Nat /\ LockExpireAt[v] = lockedVaults[v].lockExpireAt
      /\ lockedVaults[v].lockExpireAt \in Nat
  BY DEF IInv, TypeOK, LockedVault, LockExpireAt
<1>2. ASSUME SetLock(v, Updated(v)) \/ SetLock(v, Claimed(v))
      PROVE  LockExpireAt' = LockExpireAt
  BY <1>2, LockEndStays, UpdateAndClaimKeepLockEnd
<1>3. ASSUME NEW lockPeriod \in LockPeriods, ExtendVaultLockPeriod(v, lockPeriod)
      PROVE  C!Next
  <2> DEFINE period == Month * lockPeriod
  <2>1. /\ registered[v] /\ UNCHANGED <<registered, collateral>>
        /\ SetLock(v, Extended(v, lockPeriod))
    BY <1>3 DEF ExtendVaultLockPeriod, registryVars
  <2>2. \A w \in Vaults :
          lockedVaults'[w].lockExpireAt =
            IF w = v
            THEN IF lockedVaults[v].lockExpireAt < now THEN now + period
                 ELSE lockedVaults[v].lockExpireAt + period
            ELSE lockedVaults[w].lockExpireAt
    BY <2>1, SetLockSets, ExtensionMovesLockEnd
  <2> HIDE DEF period
  <2>3. LockExpireAt' =
          [LockExpireAt EXCEPT ![v] = IF @ < now THEN now + period ELSE @ + period]
    BY <2>2 DEF LockExpireAt
  <2>4. C!Lock(v, period)
    BY <2>1, <2>3 DEF C!Lock
  <2> QED
    BY <2>4 DEF C!Next, period
<1>4. CASE UpdateVaultAccClaimableRewards(v)
  BY <1>2, <1>4 DEF UpdateVaultAccClaimableRewards, registryVars, C!vars
<1>5. CASE ClaimRewards(v)
  BY <1>2, <1>5 DEF ClaimRewards, Claim, registryVars, C!vars
<1>6. CASE ClaimRewardsAndLock(v)
  <2>1. /\ registered[v] /\ registered' = registered /\ SetLock(v, Claimed(v))
        /\ collateral' = [collateral EXCEPT ![v] = @ + ClaimableRewards(v)]
    BY <1>6 DEF ClaimRewardsAndLock, Claim
  <2>2. C!Add(v)
    BY <1>2, <2>1, ClaimableIsNatural, CollateralIsAdded DEF C!Add
  <2> QED
    BY <2>2 DEF C!Next
<1>7. CASE UpdatePublicKey(v)
  <2>1. C!Unregister(v)
    BY <1>7 DEF UpdatePublicKey, C!Unregister, LockExpireAt
  <2> QED
    BY <2>1 DEF C!Next
<1>8. ASSUME NEW amount \in OneAmounts, RegisterVault(v, amount)
      PROVE  C!Next
  <2>1. /\ ~registered[v] /\ registered' = [registered EXCEPT ![v] = TRUE]
        /\ SetLock(v, Updated(v))
        /\ collateral' = [collateral EXCEPT ![v] = @ + amount]
    BY <1>8 DEF RegisterVault, LockCollateral
  <2>2. C!Register(v)
    BY <1>2, <2>1, CollateralIsAdded, RewardConstants DEF C!Register
  <2> QED
    BY <2>2 DEF C!Next
<1>9. ASSUME NEW amount \in OneAmounts, LockAdditionalCollateral(v, amount)
      PROVE  C!Next
  <2>1. /\ registered[v] /\ registered' = registered /\ SetLock(v, Updated(v))
        /\ collateral' = [collateral EXCEPT ![v] = @ + amount]
    BY <1>9 DEF LockAdditionalCollateral, LockCollateral
  <2>2. C!Add(v)
    BY <1>2, <2>1, CollateralIsAdded, RewardConstants DEF C!Add
  <2> QED
    BY <2>2 DEF C!Next
<1>10. ASSUME NEW amount \in OneAmounts, WithdrawCollateral(v, amount)
       PROVE  C!Next
  <2>1. /\ registered[v] /\ UNCHANGED <<registered, LockExpireAt>>
        /\ LockExpireAt[v] < now
        /\ collateral' = [collateral EXCEPT ![v] = @ - amount]
        /\ collateral[v] >= amount
    BY <1>1, <1>10 DEF WithdrawCollateral, LockExpireAt
  <2>2. collateral'[v] \in 0 .. collateral[v]
        /\ collateral' = [collateral EXCEPT ![v] = collateral'[v]]
    BY <1>1, <2>1, RewardConstants
  <2>3. C!Withdraw(v)
    BY <2>1, <2>2 DEF C!Withdraw
  <2> QED
    BY <2>3 DEF C!Next
<1> QED
  BY <1>3, <1>4, <1>5, <1>6, <1>7, <1>8, <1>9, <1>10 DEF VaultNext

LEMMA StepInInterface == IInv /\ [Next]_vars => [C!Next]_(C!vars)
<1> SUFFICES ASSUME IInv, [Next]_vars PROVE C!Next \/ UNCHANGED C!vars
  OBVIOUS
<1>1. CASE UNCHANGED vars
  BY <1>1 DEF vars, registryVars, C!vars, LockExpireAt
<1>2. CASE (\E v \in Vaults : VaultNext(v)) /\ UNCHANGED now
  BY <1>2, VaultStepInInterface
<1>3. CASE ReserveNext /\ UNCHANGED now
  BY <1>3 DEF ReserveNext, registryVars, C!vars, LockExpireAt
<1>4. CASE Tick
  <2>1. C!Tick
    BY <1>4 DEF Tick, registryVars, C!Tick, LockExpireAt
  <2> QED
    BY <2>1 DEF C!Next
<1> QED
  BY <1>1, <1>2, <1>3, <1>4 DEF Next

\* For any vaults, amounts and periods: VaultReward adds to a vault's recorded
\* collateral, and to its lock, only what the bridge's registry is modelled
\* with; collateral leaves no vault whose lock is in force.
THEOREM RewardsKeepLocks == Spec => CollateralLocked
<1>1. Init => C!Init
  BY DEF Init, C!Init, LockExpireAt, NeverLocked
<1> QED
  BY <1>1, IInvAlways, StepInInterface, PTL DEF Spec, CollateralLocked, C!Spec
=============================================================================
