--------------------------- MODULE OneBtcProperties ---------------------------
(***************************************************************************)
(* What the bridge must keep true.  Its separate books are tied together   *)
(* by sums over accounts and over requests; a sum is over a function, so   *)
(* that it can be reasoned about (OneBtcProofs).                           *)
(***************************************************************************)
EXTENDS OneBtc, Functions

Slots == Users \X Times

PendingIssues ==
  {k \in Slots : issueRequests[k[1]][k[2]].status = "Pending"}

PendingRedeems ==
  {k \in Slots : redeemRequests[k[1]][k[2]].status = "Pending"}

IssueAt(k) == issueRequests[k[1]][k[2]]

RedeemAt(k) == redeemRequests[k[1]][k[2]]

\* No collateral backs tokens twice or has left while it backs them: what is
\* used stays within what is held, at whatever rate it was marked as used.
UsedWithinBalance ==
  \A a \in Accounts : CollateralUsed[a] <= CollateralBalances[a]

\* What the pending requests in each slot hold: griefing collateral of a
\* requester, reservations of a vault, what a vault is to redeem, and tokens
\* in the contract.
GriefingOf(u) ==
  [k \in Slots |-> IF IsPending(IssueAt(k)) /\ k[1] = u
                   THEN IssueAt(k).griefingCollateral ELSE 0]

ReservedFor(v) ==
  [k \in Slots |-> IF IsPending(IssueAt(k)) /\ IssueAt(k).vault = v
                   THEN Total(IssueAt(k)) ELSE 0]

BurnedBy(v) ==
  [k \in Slots |-> IF IsPending(RedeemAt(k)) /\ RedeemAt(k).vault = v
                   THEN RedeemAt(k).amountBtc ELSE 0]

Escrowed ==
  [k \in Slots |-> IF IsPending(RedeemAt(k))
                   THEN RedeemAt(k).amountBtc + RedeemAt(k).fee ELSE 0]

\* The griefing collateral of every pending request is there to be given
\* back or slashed, for a requester that is not a vault as well.
GriefingIsHeld ==
  \A u \in Users \ Vaults :
    /\ CollateralUsed[u] = 0
    /\ CollateralBalances[u] = SumFunction(GriefingOf(u))

\* The ONE in the contract is exactly what it owes: no path pays out what
\* is still credited to someone, or keeps what nobody can claim; and of a
\* requester it is the griefing collateral of its pending requests.
CollateralIsHeld ==
  /\ balance[This] = SumFunction(CollateralBalances)
  /\ GriefingIsHeld

\* A vault's reservations are those of its pending issue requests, through
\* under- and overpayment and cancellation.
ReservedForPendingIssues ==
  \A v \in Vaults : toBeIssued[v] = SumFunction(ReservedFor(v))

\* What a vault is to redeem is what its pending redeem requests burn.
ReservedForPendingRedeems ==
  \A v \in Vaults : toBeRedeemed[v] = SumFunction(BurnedBy(v))

\* Every token in existence is on some vault's book, and the other way round.
SupplyIsIssued == totalSupply = SumFunction(issued)

\* The contract holds the tokens of every pending redeem request, so that
\* neither its execution nor its cancellation can fail for want of them.
RedeemsAreEscrowed == tokens[This] >= SumFunction(Escrowed)

\* No vault has promised to redeem more than it has issued.
RedeemWithinIssued == \A v \in Vaults : toBeRedeemed[v] <= issued[v]

\* The books of tokens agree after every call, in whatever order requests of
\* several users are opened, paid in part or too much, executed, cancelled
\* and reimbursed.
TokensAccounted ==
  /\ RedeemWithinIssued
  /\ ReservedForPendingIssues
  /\ ReservedForPendingRedeems
  /\ SupplyIsIssued
  /\ RedeemsAreEscrowed

\* No two issue requests were ever given the same bitcoin address, whatever
\* keys the vaults use, so that one payment serves one request.
DepositAddressesDistinct ==
  \A j, k \in {k \in Slots : IssueAt(k) # NoRequest} :
    IssueAt(j).btcAddress = IssueAt(k).btcAddress => j = k

\* At one rate and with nobody overpaying, the collateral set aside for a
\* vault's tokens is at least 150% of them, unless a reimbursement has taken
\* some of it, which the registry's record then still counts.
UsedCoversIssued ==
  CanPrice =>
    \A v \in Vaults :
      collateral[v] = CollateralBalances[v]
        => CollateralUsed[v] >= CollateralForIssued(issued[v] + toBeIssued[v])

\* The same of all the collateral a vault has in the contract.
Overcollateralized ==
  CanPrice =>
    \A v \in Vaults :
      CollateralBalances[v] >= CollateralForIssued(issued[v] + toBeIssued[v])

\* The registry's own record of a vault's collateral, which its rewards are
\* paid on and which a reimbursement is to reduce, is the collateral the
\* contract holds for it.
RegisteredCollateralIsHeld ==
  \A v \in Vaults \ Users : collateral[v] = CollateralBalances[v]

\* What the calls that settle a request ask of the contract's books.
IssueSettleable(k) ==
  LET request == IssueAt(k)
  IN  /\ FreeCollateral(k[1]) >= request.griefingCollateral
      /\ balance[This] >= request.griefingCollateral
      /\ toBeIssued[request.vault] >= Total(request)

RedeemSettleable(k) ==
  LET request == RedeemAt(k)
  IN  /\ tokens[This] >= request.amountBtc + request.fee
      /\ totalSupply >= request.amountBtc
      /\ toBeRedeemed[request.vault] >= request.amountBtc
      /\ issued[request.vault] >= request.amountBtc

\* The books always hold what settling any one pending request asks of them:
\* no call can revert because a sum went to another request before.
BooksSettleRequests ==
  /\ \A k \in PendingIssues : k[1] \notin Vaults => IssueSettleable(k)
  /\ \A k \in PendingRedeems : RedeemSettleable(k)

\* Once the period is over a pending issue request can be cancelled, whatever
\* happened since it was opened, if only the oracle answers.
ExpiredIssueCancellable ==
  \A k \in PendingIssues :
    (k[1] \notin Vaults /\ Expired(k[2]) /\ RateAvailable)
      => ENABLED CancelIssue(k[1], k[2])

\* The same for every requester: also of one that is a vault, whose griefing
\* collateral is kept with what backs its tokens.
AnyExpiredIssueCancellable ==
  \A k \in PendingIssues :
    (Expired(k[2]) /\ RateAvailable) => ENABLED CancelIssue(k[1], k[2])

\* A payment of the requested amount can always be turned into tokens, even
\* with the oracle down.
PaidIssueExecutable ==
  \A k \in PendingIssues :
    k[1] \notin Vaults
      => ENABLED ExecuteIssue(k[1], k[1], k[2], Total(IssueAt(k)))

\* A holder can always have the tokens of an expired redeem request back.
ExpiredRedeemCancellable ==
  \A k \in PendingRedeems :
    Expired(k[2]) => ENABLED CancelRedeem(k[1], k[2], FALSE)

\* No request is stuck: whatever the others did meanwhile, at whichever rate,
\* it can still be executed or cancelled.
PendingCanBeSettled ==
  /\ BooksSettleRequests
  /\ ExpiredIssueCancellable
  /\ PaidIssueExecutable
  /\ ExpiredRedeemCancellable

\* A vault that paid the bitcoin can always complete the redeem request if
\* the oracle answers.
PaidRedeemExecutable ==
  \A k \in PendingRedeems :
    RateAvailable => ENABLED ExecuteRedeem(k[1], k[2])

------------------------------------------------------------------------------
\* Steps

\* A settled request stays as it is; a pending one only becomes settled, and
\* its vault, address and griefing collateral never change.
SettledOnceStep ==
  \A k \in Slots :
    /\ IssueAt(k).status \in {"Completed", "Cancelled"}
         => UNCHANGED IssueAt(k)
    /\ RedeemAt(k).status \in {"Completed", "Cancelled"}
         => UNCHANGED RedeemAt(k)
    /\ IssueAt(k).status = "Pending" =>
         /\ IssueAt(k).status' # "None"
         /\ UNCHANGED <<IssueAt(k).vault, IssueAt(k).btcAddress,
                        IssueAt(k).griefingCollateral>>

SettledOnce == [][SettledOnceStep]_vars

\* The supply grows only by completing one pending issue request, by what
\* that request now says, and shrinks only by completing one pending redeem
\* request, by what it burns.
SupplyFollowsRequestsStep ==
  /\ totalSupply' > totalSupply =>
       \E k \in Slots :
         /\ IssueAt(k).status = "Pending"
         /\ IssueAt(k).status' = "Completed"
         /\ totalSupply' - totalSupply = Total(IssueAt(k))'
  /\ totalSupply' < totalSupply =>
       \E k \in Slots :
         /\ RedeemAt(k).status = "Pending"
         /\ RedeemAt(k).status' = "Completed"
         /\ totalSupply - totalSupply' = RedeemAt(k).amountBtc

SupplyFollowsRequests == [][SupplyFollowsRequestsStep]_vars

\* A vault's collateral goes down only by its own withdrawal, with no lock
\* in force and never into what backs tokens, or to reimburse a redeem
\* request of its own that it let expire.
VaultCollateralSpentStep ==
  \A v \in Vaults \ Users :
    CollateralBalances'[v] < CollateralBalances[v] =>
      \/ /\ lockExpireAt[v] < now
         /\ CollateralBalances'[v] >= CollateralUsed[v]
         /\ balance'[v] - balance[v] =
              CollateralBalances[v] - CollateralBalances'[v]
      \/ \E k \in PendingRedeems :
           /\ RedeemAt(k).vault = v
           /\ Expired(k[2])
           /\ RedeemAt(k).status' = "Cancelled"

VaultCollateralSpent == [][VaultCollateralSpentStep]_vars

\* The two records of a vault's collateral change together, in every call and
\* whoever pays, but for one: a reimbursement is taken out of what is held,
\* and the registry goes on counting it.  So the registry never records less
\* than there is, and the difference is what reimbursements took.
RecordFollowsCollateralStep ==
  \A v \in Vaults \ Users :
    \/ collateral'[v] - collateral[v]
         = CollateralBalances'[v] - CollateralBalances[v]
    \/ /\ collateral'[v] = collateral[v]
       /\ CollateralBalances'[v] <= CollateralBalances[v]
       /\ \E k \in PendingRedeems :
            /\ RedeemAt(k).vault = v
            /\ RedeemAt(k).status' = "Cancelled"
            /\ balance'[k[1]] - balance[k[1]] =
                 CollateralBalances[v] - CollateralBalances'[v]

RecordFollowsCollateral == [][RecordFollowsCollateralStep]_vars

------------------------------------------------------------------------------
\* The tokens alone

\* A request as the ledger of tokens has it.
LedgerRequest(request, amount) ==
  IF request.status = "None"
  THEN NoRequest
  ELSE [status |-> request.status, vault |-> request.vault, amount |-> amount]

LedgerIssues ==
  [k \in Slots |-> LedgerRequest(IssueAt(k), Total(IssueAt(k)))]

LedgerRedeems ==
  [k \in Slots |-> LedgerRequest(RedeemAt(k), RedeemAt(k).amountBtc)]

LedgerAmounts ==
  IssueAmounts \cup TransferredAmounts
    \cup {amount - Fee(amount) : amount \in RedeemAmounts}

L == INSTANCE BridgeLedger
       WITH Amounts <- LedgerAmounts,
            issues  <- LedgerIssues,
            redeems <- LedgerRedeems,
            debts   <- issued,
            supply  <- totalSupply

\* Whatever else a call does, to the tokens it does one thing of the ledger's
\* or nothing.  The counter toBeRedeemed, which the code compares with what
\* is issued, stands for the sum of the open promises that the ledger asks
\* for; no rate, key, lock, transfer or reimbursement touches either book.
LedgerImplemented == L!Spec

------------------------------------------------------------------------------
\* The registry and VaultReward

Registered == [v \in Vaults |-> VaultExists(v)]

C == INSTANCE LockedCollateral
       WITH registered <- Registered, Periods <- LockPeriods

\* The bridge keeps to what VaultReward takes for granted of its registry, and
\* sees of VaultReward's locks what VaultReward does to them: VaultReward
\* implements the same specification.
CollateralLocked == C!Spec
=============================================================================
