-------------------------------- MODULE Redeem --------------------------------
(***************************************************************************)
(* Redeem.sol: a holder locks tokens in the contract, a vault pays the     *)
(* bitcoin and proves it, and the locked tokens are burned; after the      *)
(* period anyone may cancel, paying the holder either in tokens or out of  *)
(* the vault's collateral.  Proof of payment is left to verifyTx.          *)
(***************************************************************************)
EXTENDS Issue

CONSTANTS
  RedeemAmounts,     \* amounts of 1BTC a holder asks to redeem
  ReimburseChoices   \* the values of cancelRedeem's flag that callers pass

ASSUME RedeemInputs ==
  /\ RedeemAmounts \subseteq Nat
  /\ ReimburseChoices \subseteq BOOLEAN

VARIABLE redeemRequests  \* by requester and opening time

RedeemRequest ==
  [status : {"Pending", "Completed", "Cancelled"},
   vault : Vaults,
   amountBtc : Nat,
   fee : Nat]

RedeemTypeOK ==
  redeemRequests \in [Users -> [Times -> RedeemRequest \cup {NoRequest}]]

RedeemInit == redeemRequests = [u \in Users |-> [t \in Times |-> NoRequest]]

\* Wrong: the fee is not locked.
LockOneBTCLessFee(u, amount) == Transfer(u, This, amount - Fee(amount))

LockOneBTC(u, amount) == Transfer(u, This, amount)

RequestRedeem(u, amount, v) ==
  LET toBeBurned == amount - Fee(amount)
  IN  /\ LockOneBTC(u, amount)
      /\ toBeBurned <= RedeemableTokens(v)
      /\ toBeRedeemed' = [toBeRedeemed EXCEPT ![v] = @ + toBeBurned]
      /\ redeemRequests[u][now].status = "None"
      /\ redeemRequests' = [redeemRequests EXCEPT ![u][now] =
           [status |-> "Pending",
            vault |-> v,
            amountBtc |-> toBeBurned,
            fee |-> Fee(amount)]]
      /\ UNCHANGED <<collateralVars, btcPublicKey, collateral, issued,
                     toBeIssued, depositAddresses, lockExpireAt>>

\* burnLockedOneBTC and then releaseLockedOneBTC.
BurnAndReleaseLocked(burned, to, fee) ==
  /\ tokens[This] >= burned + fee
  /\ totalSupply >= burned
  /\ tokens' = [tokens EXCEPT ![This] = @ - (burned + fee), ![to] = @ + fee]
  /\ totalSupply' = totalSupply - burned

ExecuteRedeem(u, opentime) ==
  LET request == redeemRequests[u][opentime]
      v       == request.vault
  IN  /\ IsPending(request)
      /\ BurnAndReleaseLocked(request.amountBtc, v, request.fee)
      /\ redeemRequests' =
           [redeemRequests EXCEPT ![u][opentime].status = "Completed"]
      /\ RateAvailable
      /\ UseCollateralDec(v, CollateralFor(request.amountBtc))
      /\ RedeemTokens(v, request.amountBtc)
      /\ UNCHANGED <<balance, CollateralBalances, btcPublicKey, collateral,
                     toBeIssued, depositAddresses, lockExpireAt>>

\* What a reimbursed holder receives: the value and 10% of it.
Punished(total) == CollateralFor(total) + (CollateralFor(total) * 10) \div 100

\* The requester is paid in ONE; the locked tokens stay where they are.
Reimburse(u, v, total) ==
  /\ RateAvailable
  /\ UseCollateralDec(v, Punished(total))
  /\ Release(v, CollateralUsed', u, Punished(total))
  /\ UNCHANGED tokenVars

ReturnTokens(u, total) ==
  /\ Transfer(This, u, total)
  /\ UNCHANGED collateralVars

CancelRedeem(u, opentime, reimburse) ==
  LET request == redeemRequests[u][opentime]
      v       == request.vault
  IN  /\ IsPending(request)
      /\ Expired(opentime)
      /\ redeemRequests' =
           [redeemRequests EXCEPT ![u][opentime].status = "Cancelled"]
      /\ \/ reimburse /\ Reimburse(u, v, request.amountBtc + request.fee)
         \/ ~reimburse /\ ReturnTokens(u, request.amountBtc + request.fee)
      /\ DecreaseToBeRedeemed(v, request.amountBtc)
      /\ UNCHANGED <<btcPublicKey, collateral, issued, toBeIssued,
                     depositAddresses, lockExpireAt>>

RedeemNext ==
  \E u \in Users :
    \/ \E v \in Vaults, amount \in RedeemAmounts : RequestRedeem(u, amount, v)
    \/ \E opentime \in 1 .. now :
         \/ ExecuteRedeem(u, opentime)
         \/ \E reimburse \in ReimburseChoices :
              CancelRedeem(u, opentime, reimburse)
=============================================================================
