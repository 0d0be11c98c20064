-------------------------------- MODULE Issue --------------------------------
(***************************************************************************)
(* Issue.sol: a requester reserves a vault's collateral against griefing   *)
(* collateral, pays bitcoin to the address derived for the request, and    *)
(* whoever proves the payment has the tokens minted.  Proof of payment     *)
(* (OneBtc.verifyTx and TxValidate) is the amount `transferred`, which     *)
(* bitcoin users choose.  The opening time of a request is its index.      *)
(***************************************************************************)
EXTENDS VaultRegistry, ERC20

CONSTANTS
  Users,              \* the addresses that issue and redeem
  IssueAmounts,       \* amounts of 1BTC requested
  TransferredAmounts, \* amounts of bitcoin actually paid
  GriefingAmounts,    \* ONE sent with an issue request
  Period              \* "2 days": blocks before a request can be cancelled

ASSUME UsersAreAccounts == Users \subseteq Accounts
ASSUME IssueInputsNat ==
  /\ IssueAmounts \subseteq Nat
  /\ TransferredAmounts \subseteq Nat
  /\ GriefingAmounts \subseteq Nat
  /\ Period \in Nat

VARIABLE issueRequests  \* by requester and opening time

NoRequest == [status |-> "None"]

IssueRequest ==
  [status : {"Pending", "Completed", "Cancelled"},
   vault : Vaults,
   btcAddress : DepositAddresses,
   amount : Nat,
   fee : Nat,
   griefingCollateral : Nat]

IssueTypeOK ==
  issueRequests \in [Users -> [Times -> IssueRequest \cup {NoRequest}]]

IssueInit == issueRequests = [u \in Users |-> [t \in Times |-> NoRequest]]

\* The 0.5% fee on a total.
Fee(total) == (total * 5) \div 1000

\* Wrong: only completion is final.
IsNotCompleted(request) == request.status \in {"Pending", "Cancelled"}

IsPending(request) == request.status = "Pending"

\* Wrong: the fee is minted on top of the whole.
IssueOneBTCFeeOnTop(v, u, total) == Mint2(v, Fee(total), u, total)

\* _mint of the fee to the vault and of the rest to the requester.
IssueOneBTC(v, u, total) == Mint2(v, Fee(total), u, total - Fee(total))

Total(request) == request.amount + request.fee

Expired(opentime) == now > opentime + Period

RequestIssue(u, amount, v, griefing) ==
  LET id == RequestId(u, now)
  IN  /\ CanPrice
      /\ (CollateralForIssued(amount) * 5) \div 1000 <= griefing
      /\ IssuableTokens(FreeCollateral(v)) >= amount
      /\ toBeIssued' = [toBeIssued EXCEPT ![v] = @ + amount]
      /\ RegisterDepositAddress(v, id)
      /\ issueRequests[u][now].status = "None"
      /\ issueRequests' = [issueRequests EXCEPT ![u][now] =
           [status |-> "Pending",
            vault |-> v,
            btcAddress |-> Derivate(btcPublicKey[v], id),
            amount |-> amount - Fee(amount),
            fee |-> Fee(amount),
            griefingCollateral |-> griefing]]
      /\ LockCollateral(u, u, griefing)
      /\ UseCollateralInc(v, CollateralForIssued(amount))
      /\ UNCHANGED <<btcPublicKey, collateral, issued, toBeRedeemed,
                     lockExpireAt, tokenVars>>

\* Griefing collateral given back when `transferred` of `expected` was paid.
GriefingReturned(griefing, transferred, expected) ==
  IF transferred < expected
  THEN (griefing * transferred) \div expected
  ELSE griefing

\* What a payment of `transferred` asks beyond the amount reserved.
OverpaymentAccepted(v, surplus, balances) ==
  /\ CanPrice
  /\ IssuableTokens(balances[v] - CollateralUsed[v]) >= surplus

ExecuteIssue(caller, u, opentime, transferred) ==
  LET request  == issueRequests[u][opentime]
      v        == request.vault
      griefing == request.griefingCollateral
      expected == Total(request)
      returned == GriefingReturned(griefing, transferred, expected)
  IN  /\ IsPending(request)
      /\ transferred < expected => caller = u
      /\ Release2(u, CollateralUsed, u, returned, v, griefing - returned)
      /\ transferred > expected =>
           OverpaymentAccepted(v, transferred - expected, CollateralBalances')
      /\ IssueTokens(v, expected, transferred)
      /\ issueRequests' = [issueRequests EXCEPT ![u][opentime] =
           [request EXCEPT !.status = "Completed",
                           !.fee = Fee(transferred),
                           !.amount = transferred - Fee(transferred)]]
      /\ IssueOneBTC(v, u, transferred)
      /\ UNCHANGED <<CollateralUsed, btcPublicKey, collateral, toBeRedeemed,
                     depositAddresses, lockExpireAt>>

CancelIssue(u, opentime) ==
  LET request == issueRequests[u][opentime]
      v       == request.vault
  IN  /\ IsPending(request)
      /\ Expired(opentime)
      /\ issueRequests' =
           [issueRequests EXCEPT ![u][opentime].status = "Cancelled"]
      /\ Release(u, CollateralUsed, v, request.griefingCollateral)
      /\ DecreaseToBeIssued(v, Total(request))
      /\ RateAvailable
      /\ UseCollateralDec(v, CollateralForIssued(Total(request)))
      /\ UNCHANGED <<btcPublicKey, collateral, issued, toBeRedeemed,
                     depositAddresses, lockExpireAt, tokenVars>>

IssueNext ==
  \E u \in Users :
    \/ \E v \in Vaults, amount \in IssueAmounts, griefing \in GriefingAmounts :
         RequestIssue(u, amount, v, griefing)
    \/ \E opentime \in 1 .. now :
         \/ \E caller \in Users, transferred \in TransferredAmounts :
              ExecuteIssue(caller, u, opentime, transferred)
         \/ CancelIssue(u, opentime)
=============================================================================
