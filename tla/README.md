# A formal model of OneBtc

OneBtc is a bridge that issues the token 1BTC on Harmony against bitcoin held
by *vaults*, each of which locks ONE as collateral. This directory holds TLA+
modules of its contracts and of the bitcoin client vaults run, the
configurations with which TLC checks them on small instances, and theorems about
them with proofs that TLAPS checks.

## The system

| component | source | state | operations |
|---|---|---|---|
| Issue | `Issue.sol`, `OneBtc.sol` | issue requests by requester and id | request, execute with the proof of a payment, cancel after the period |
| Redeem | `Redeem.sol`, `OneBtc.sol` | redeem requests, tokens in escrow | request, execute with the proof of a payment, cancel for tokens or for collateral |
| Vault registry | `VaultRegistry.sol`, `lib/VaultRegistryLib.sol` | key, collateral, issued, toBeIssued, toBeRedeemed, deposit addresses of each vault | register, change key, lock and withdraw collateral; the books the two flows keep |
| Collateral | `Collateral.sol` | ONE held for each address, and the part in use | lock, release, slash, use more, use less |
| Token | `OneBtc.sol` (an `ERC20Upgradeable`) | balances, supply | transfer, mint, burn |
| Oracles | `ExchangeRateOracle.sol`, `ExchangeRateOracleV2.sol` | a rate and its time, the rate before it | set, convert both ways, refuse what is too old |
| Rewards | `VaultReward.sol`, `VaultReserve.sol` | lock period, end, time credited up to, rewards credited; the reserve | extend, bring up to date, claim, compound; deposit, withdraw |
| Relay | `relay/src/Relay.sol` | headers, a block for each height, forks, difficulty period, best block | submit a header, reorganise, check that a transaction is included |
| Transaction validation | `TxValidate.sol`, `TransactionUtils.sol`, relay `Parser.sol`, `Script.sol` | none | parse and compare bytes |
| Key derivation | `crypto/*.sol` | none | a deposit address from a vault's key and a request's id |
| Liquidation | `OneBtc.sol`, `VaultRegistry.sol` | theft reports | report a theft or a double payment |
| Client: session | `clients/bitcoin/src/lib.rs`, `error.rs` (Rust) | the wallet's name | `connect`, `sync`, `create_or_load_wallet`, `with_wallet` |
| Client: payments | `lib.rs` | a lock on funding | fund, sign and send under the lock, wait for confirmations, wait for a block; retry |
| Client: reads | `lib.rs` | an iterator over the mempool | the best block, hashes, known blocks, the mempool's listing |
| Client: transactions | `lib.rs` | none | what is paid to whom and for which request (`TransactionExt`), who paid (`vin_to_address`) |
| Client: keys and options | `lib.rs`, `addr.rs`, `cli.rs` | the wallet's keys | deposit keys, the network |
| btcrelay command | `cmd/btcrelay` (Go) | none | send headers to the relay |

How they interact. OneBtc, Issue, Redeem, VaultRegistry and Collateral are one
contract by inheritance: they share storage, and every external call is a
transaction that happens entirely or not at all. That contract calls the oracle
(each conversion), the relay (each execution) and VaultReward (before each
change of collateral, and to learn when a lock ends). VaultReward calls back to
read a vault and to lock a reward as collateral. Users, vaults, relayers, the
oracle's provider and the clock act in any order. A vault's program uses the
client to make keys for deposit addresses the contract derives, to look for
payments to them, and to pay redeem requests in transactions that the contract
reads again.

What is hard. In the contracts no call runs concurrently with another, but calls
of different actors come in any order, at rates that change between a request
and its settlement, and several books must agree after each: ONE held against
ONE owed, tokens against what vaults issued, reservations against pending
requests, the registry's record against the collateral. In the relay, headers of
all forks arrive in any order and share some of the storage. In the rewards,
what is paid depends on when each call was made. The client is concurrent: its
calls interleave with each other and with the node's blocks, reorganisations,
evictions and restarts, and share a lock that travels with a transaction; and it
must agree with contracts written in another language on keys and transactions.
`PROJECT.json` lists these hazards at their lines, each with the properties that
would show it going wrong.

## The modules

### Bridge

Each module extends the one before it:

    Harmony <- Collateral <- VaultRegistry <- Issue <- Redeem <- OneBtc
    Harmony <- ERC20 ---------------------------^          OneBtcProperties
    Oracle  <-----------------^                      MCOneBtc, OneBtcProofs

| module | what it models | how |
|---|---|---|
| `Harmony` | the chain, external to the code | native ONE of each address, `msg.value`, calls with value, a block clock; one number is block and timestamp |
| `Collateral` | `Collateral.sol` | `CollateralBalances`, `CollateralUsed`. Two releases one after the other are `Release2`; `UseCollateralDec` saturates as the code does |
| `Oracle` | what the bridge sees of an oracle | a rate, or `Stale` when a conversion reverts; both conversions round down; rate 0 makes one of them revert |
| `VaultRegistry` | `VaultRegistry.sol` and its library | the fields of a vault record as functions of the vault; one action for each external call |
| `ERC20` | the part of OpenZeppelin's token the bridge uses | balances and supply |
| `Issue`, `Redeem` | the two flows | requests by requester and opening time: at most one for each requester and block, as the ids are hashes of both. A request's status moves from None to Pending to Completed or Cancelled |
| `OneBtc` | the whole contract | `Next`: one external call, a move of the oracle, or a new block |
| `OneBtcProperties` | what must hold | invariants and step properties, and the two instances below |
| `BridgeLedger` | what the bridge promises of its tokens | an abstract ledger of requests, what each vault has issued, and the supply: open, complete or cancel an issue or a redeem; what may still be redeemed is what is issued less the sum of the open promises |
| `LockedCollateral` | what the registry and VaultReward rely on in each other | who is registered, the recorded collateral and the end of each lock: register, add, withdraw when no lock is in force, unregister, lock for longer |

An action is a whole call: the code's order of effects matters where a later
check reads what an earlier line wrote, and is kept there (`UseCollateralInc`
reads the new balance, a reimbursement releases against the new used
collateral). A `require` that fails is an action that is not enabled.

`ExchangeRateOracle` is both oracle contracts behind their proxy: the provider's
rate with its clock, the upgrade that keeps the storage, and the rounds of the
two price feeds. `GetExchangeRate` is what a conversion would use now, or
`Reverts`. It instantiates `Oracle` with that expression for the rate, so that
the abstraction the bridge is checked with is itself shown to be right, by TLC
and in `ExchangeRateOracleProofs`. Its state and actions have names of their own
(`OraclesInit`, `OraclesNext`), as have those of `BitcoinReads`, because each is
extended by an MC module together with another component.

### Relay and rewards

`Relay` (one action, `SubmitBlockHeader`, with the code's four outcomes: new
fork, main chain, reorganisation, fork), `RelayProperties`, `RelayProofs`.
Hashes are numbers in the order in which headers are stored. `Visited` is the
order in which the reorganisation's nested loops visit blocks, `ReorgHeaders`
what they leave behind.

`VaultReward` (both reward contracts, with the registry calls that change what
they read, and their properties), `VaultRewardProofs`. `VaultRegistry` models
VaultReward by the end of a lock, and `VaultReward` models the registry by a
flag and an amount; both are shown to implement `LockedCollateral`, in which the
two views meet. The periods of a lock are any in the one and months in the
other, and so are the amounts added: a claim adds whatever it is worth.

### Bitcoin client

    BitcoinErrors <- BitcoinDaemon <- BitcoinSession <- BitcoinSessionProofs
    BitcoinErrors <- BitcoinReads                    <- BitcoinReadsProofs
    BitcoinNode   <-      ^
    BitcoinNode   <- BitcoinClient                   <- BitcoinClientProofs
    Reservations  <- (instance)
    Scripts <- TransactionExt <- VaultWatch          <- VaultWatchProofs
    Scripts <- DepositKeys    <-     ^

| module | what it models | how |
|---|---|---|
| `BitcoinErrors` | `error.rs` | an error is a kind and a code; which test recognises which |
| `BitcoinDaemon` | the bitcoind process, external | down, warming up, syncing, synced, stopping; wallets on disk and loaded; the errors of a call in each phase |
| `BitcoinSession` | `connect`, `sync`, `create_or_load_wallet`, `with_wallet` | `pc` is where a client is in its call; each call to the daemon is a step, and the daemon may boot or stop between any two |
| `BitcoinNode` | a running node, external | a tree of blocks, the best chain, the mempool, whether the wallet is loaded |
| `BitcoinClient` | `send_to_address`, `wait_for_transaction_metadata`, `wait_for_block` | one action for each call to the node or change of the lock, by concurrent calls |
| `Reservations` | what the lock promises | reserve an unspent output, pay it or drop it; one at a time |
| `BitcoinReads` | `get_best_block_hash`, `get_block_hash`, `is_block_known`, `get_mempool_transactions` | a reader follows the chain or goes through the lazy iterator while blocks and transactions come and go |
| `Scripts` | `vin_to_address` and `parse_compact_uint` | on bytes, since it is the lengths that matter |
| `TransactionExt` | what the client reads in outputs, and `TxValidate` reads; the outputs the client makes | an output is a value and a script, which pays to a hash or carries data |
| `DepositKeys` | `derivate`, `calculate_deposit_secret_key`, key import, the network option | keys in a cyclic group of prime order |
| `VaultWatch` | a vault and the bridge over all of these | register, derive an address, import its key, pay, look at anybody's transaction |

In `BitcoinClient`, `create_and_send_transaction` is the part of
`send_to_address` up to "sent", and a caller of `create_transaction` has its
`LockedTransaction` at "locked". `Fail` drops a call's locals, and with them its
guard (`Release`), as leaving a Rust scope does. A backoff is a number of
attempts, `MaxRetries`, where the code has 24 hours. Those errors that
`with_wallet` retries are `WalletErrorOnCreate` and `WalletErrorOnSend`, the
others `Failed`; `AnswerLost` is the case in which the node has the transaction
and the client an error. The phases of the process are left to `BitcoinSession`.

The `MC` modules hold instances for TLC. `MCFeeds` holds the relay and the oracles,
and `MCVaultClient` the two parts of the client without calls that wait: of either
pair neither reads what the other writes, so that a behaviour follows one of the two
and all of both are explored in one run. The operators marked "Wrong:" are
variants of the definition after them, as a mistake in the code would make it;
`PROJECT.json` pairs each with a property that TLC finds violated when it stands
in for the right one. Nothing else uses them.

## What the runs show

Passing:

| run | states | bounds | shows |
|---|---|---|---|
| `books` | 243 000 | 1 vault, 2 requesters, 3 requests, 2 rates, 5 blocks | The books agree after every call: `CollateralIsHeld` (ONE held is ONE owed, and a requester's is its griefing collateral), `TokensAccounted` (reservations, promises, which stay within what is issued, supply and escrow). `UsedWithinBalance`. A request is settled once (`SettledOnce`), supply moves only with requests (`SupplyFollowsRequests`). `PendingCanBeSettled`: after anything that may have happened since, rate changes and an oracle outage included, a pending request can be executed or cancelled. `LedgerImplemented`: to the tokens the bridge is the abstract `BridgeLedger` |
| `vaults` | 866 000 | 2 vaults that may share a key, 2 requesters, 4 requests that are paid by half, left to expire or reimbursed, locks of 1 block in force and over, one rate, 3 blocks | Deposit addresses are distinct. `PaidRedeemExecutable`: a redeem request that was paid can be executed, as more is never promised than issued. `VaultCollateralSpent`: a vault's collateral leaves by its own withdrawal of what is free while no lock is in force, or for an expired redeem request, and in no other way. `RecordFollowsCollateral`: the registry's record moves with it in every call but a reimbursement. `UsedCoversIssued`: at one rate 150% stays set aside, for a vault none of whose collateral went into a reimbursement |
| `feeds` | 103 000 | relay: 8 headers, 2 targets, 2 timestamps, 2 confirmations, periods of 5; oracles: 3 and 2 prices, 5 moments, the upgrade at any of them | `ForksArePaths`: heights are depths, forks are paths, and a reorganisation's loop ends. `MainIsBestChain`: the main chain is the best block's, and no block leads it by the confirmations. `BestChainReplaced`: a block leaves the best chain only for a longer branch or, after a reorganisation, for the chain replaced by it. `OracleImplemented`: both oracle contracts, and the upgrade, are the `Oracle` the bridge is checked with. `UpgradeNeedsRate`: after an upgrade nothing is answered before the provider sets a rate |
| `rewards` | 448 000 | 1 vault, 14 fortnight halves, locks of 3 to 12 months | no fortnight is paid twice, no part of one is lost by being brought up to date, what is claimable stays so, more collateral earns only from then on; `CollateralLocked`: to the registry all of it is the interface `LockedCollateral` |
| `client` | 90 000 | 2 calls, 2 outputs, 4 blocks in any tree, 1 confirmation, 1 retry | `LockedUnspent`: what is funded under the lock can be sent. `PaysOnce`. `FoundTogether`: what is returned is of one block that was confirmed. `CallsEnd`: no call waits for ever. `ReservationsImplemented`: all of it comes to the abstract reservations, with their fairness |
| `session` | 123 000 | 2 clients, 2 wallets or none, 1 boot, a timeout of 2 sleeps, 1 retry | `StartingIsNotFailure`: `connect` fails early only while the daemon stops. `LoserFindsItLoaded`: who loses a race for a wallet is refused because it is loaded. `SessionCallsEnd` |
| `vault_client` | 124 000 | reads: 1 reader, 2 transactions, 4 blocks in any tree; keys and payments: a group of order 7, 2 ids, 3 outputs of 7 kinds, 7 sizes of push | `ListingExact`: the lazy listing misses nothing that stays in the mempool and invents nothing. `SeenIsKnown`: a block whose hash was read is never answered to be unknown, reorganisations or not. `DepositsSpendable`: the key a vault imports spends from the address the contract gave. `OwnPaymentsAccepted`: what the client pays the contract accepts. `SidesAgree` on anybody's plain transaction. `InputAddressRead` |

Each of the following shows one thing the documents or comments say and the code
does not do (`PROJECT.json`, "findings", quotes both):

| run | property | what happens |
|---|---|---|
| `overpaid` | `Overcollateralized` | an overpayment's collateral is not marked as used |
| `own_requests` | `AnyExpiredIssueCancellable` | a requester that is a vault has its griefing collateral used as backing, and its expired request cannot be cancelled |
| `reimbursed` | `RegisteredCollateralIsHeld` | `cancelRedeem` slashes the collateral held and leaves the registry's record of it, which rewards are paid on, where `vault-registry.rst` line 722 reduces it |
| `oracle_limits` | `WithinLimits` | the second oracle answers although the provider's rate doubled or is far from the feeds', where its comments (lines 81 and 92) allow 10% and 0.5%: the differences and the limits are divided as integers, which makes them 0 |
| `relay_verified` | `VerifiedIsBest` | a fork's block replaces the main chain's in the map that inclusion is checked against |

Two of them bound what can be asked elsewhere. `UsedCoversIssued` is checked where
nobody overpays (`overpaid`), and of vaults whose record equals what is held, as a
reimbursement takes from what is used (`reimbursed`). `RecordFollowsCollateral`
says that reimbursements are all that part the two.

More disagreements are visible in the definitions and need no run.

* `Reimburse` leaves a reimbursed request's tokens in the contract for good, where
  `redeem.rst` line 343 says they are burned.
* `ExecuteIssue` and `ExecuteRedeem` do not ask whether the request has expired,
  where `issue.rst` line 228 and `redeem.rst` line 275 say they do.
* `ExecuteRedeem` releases 100% of the value (`CollateralFor`, `Redeem.sol` line
  118) of what `RequestIssue` marked at 150% (`CollateralForIssued`): a part
  stays used when all tokens are redeemed, where `vault-registry.rst` line 372
  says that collateral is locked while it backs tokens.
* `ReorgHeaders` demotes what it has just promoted, since the code's loop reads
  the tip's height each time and never uses `forkHeight`.
* `ExtendMain` makes its block the best one whatever its height (`Relay.sol` line
  169): after a reorganisation the old main chain's next block takes over again,
  at a lower height, where the comment on line 51 says "most accumulated work".
  `BestChainReplaced` allows for it.
* `NextEpoch` keeps one record of the difficulty period for all forks (`Relay.sol`
  line 148): the first to reach the next period uses it up, and the main chain's
  own next period is refused.
* `IsCorrectDifficultyTarget` accepts any target, where `retarget.test.ts` expects
  a wrong one to be refused.
* `SecondVersion` does not look at the age of the provider's rate, where
  `oracle.rst` line 208 refuses one older than the allowed delay.
* `Updated` does nothing once a lock is over, so that collateral locked later
  still earns for the time before, where the comment on the call that goes with
  every change of collateral (`VaultRegistry.sol` line 128) says that it brings
  the rewards up to date. `NotRetroactive` is about locks in force.
* `GetOpReturn` and `GetPaymentAmountTo` look at the first three outputs and at
  ids of 32 bytes, `ValidateTransaction` at all outputs and the first data of any
  size: `SidesAgree` holds of transactions that are `Plain`.
* `LoadWallet` takes every error to mean that the wallet does not exist.
* `WalletHasPublicKey` has the answers "true" and an error, never "false".
* `IntegerAt` reads three bytes, so longer lengths are an error, and
  `ScriptAddress` takes what follows one push as a whole: `InputAddressRead` is
  about spending by one signature, with pushes of up to 75 bytes.

### Bounds and why they are enough

* Three or four requests: two to contend for one vault's collateral or tokens
  and one to meet what they leave behind. Every order of opening, execution and
  cancellation occurs, with the vault's withdrawals between them.
* `Scale` is 2 where the code has 10^10: the least factor at which 150% of an
  amount is exact, as it is in the code. Amounts are 199 to 800, so that the fee
  of 0.5% is 0 for some and rounds for others; the vault has collateral for one
  or two of the requests and not for all.
* The clock starts at 1: no block has the time 0, which is the end of a lock that
  was never granted. The period is one block, so that requests expire within the 3 to 5 blocks of a
  run. There is one key: a vault can give it up and take it again, and two
  vaults can have the same, which is when addresses might coincide. `Funds` limits the ONE in play.
* Requesters are symmetric, and so are the two vaults of `vaults`: nothing
  orders either.
* Prices give quotients that are 0, equal, close and far apart; a rate lives for
  one moment and a feed's price for two, so that each can be old while the other
  is not.
* Eight headers are enough for a reorganisation through a fork of a fork, for
  forks of its result, and for a change of period; the violation takes up to
  nine. Two confirmations and a period of five headers stand for 6 and 2016.
* A month is one unit of time and a fortnight two, so that locks end within a
  fortnight; 7300 units of collateral make a fortnight's reward exact.
* Two calls are enough for the client: one to hold the lock or an output and one
  to want it. With four blocks and one confirmation a transaction's block, or
  the block waited for, can be confirmed and then lost to a higher branch, with
  the transaction in another block of it. A larger number of confirmations or
  retries only repeats steps.
* Two clients race for one wallet or use two, and one boot comes at any moment,
  among initial states with the daemon up or down. One reader: readers keep
  nothing in common.
* The group of order 7 has every product of two scalars; three outputs are as
  many as the client looks at; pushes of 1 to 75 bytes are those whose length is
  one byte, 33, 65 and 72 being keys and signatures.

`feeds`, `relay_verified` and `rewards` end when the bound on headers or on the clock is reached,
so they do not check deadlock, and `client` ends when every call has; the
others do: there is always an action.

### Fairness

Contracts: none is assumed and no liveness is stated. Nothing in them makes a
call happen: a request may stay pending for ever if nobody acts. What can be
asked is that whoever does act is not refused, and that is what the `ENABLED`
invariants of `books` and `vaults` say.

Payments: weak fairness of the steps of each call that has started
(`Running(c)`), as the executor runs a task that can proceed, the node answers,
and a backoff is finite. It includes that the owner of a `LockedTransaction`
sends or drops it. The lock is tokio's, which is handed on first come, first
served, so no strong fairness is needed. Not assumed: that blocks come, that
calls start, or that anything fails but what is retried; of `wait_for_block` a
return is asked only once the chain is high enough. The abstract `Reservations`
have weak fairness of `Pay \/ Drop`, which `client` checks to follow.

Session: weak fairness of the steps of each call that was made (`Run(c)`). The
daemon is not fair: it may never start, stop or catch up. `sync` has no timeout,
and is asked to end only if the daemon does not catch up for ever.

## What is proved

TLAPS checks every theorem for any values of the constants that satisfy the
modules' assumptions. Each rests on an inductive invariant, of which TLC checked
small instances first.

`OneBtcProofs`, for any accounts, vaults, rates, amounts and bounds:

* `TypeCorrect`: `Spec => []TypeOK`. `TypeOK` is inductive: each call's guards
  are the requires and SafeMath subtractions of the code, so every balance and
  book stays a natural number. One lemma for each call, on the types of what
  it assigns.
* `CollateralCovered`: `Spec => []UsedWithinBalance`. Inductive given `TypeOK`.
  The interesting calls change both sides: a request adds griefing collateral
  and used collateral, a reimbursement lowers the use and then releases.
* `RequestsSettleOnce`, `SupplyFollows`, `CollateralSpentTwoWays`: the three step
  properties `SettledOnce`, `SupplyFollowsRequests` and `VaultCollateralSpent`,
  call by call from `TypeOK` (and `UsedWithinBalance`, for what a withdrawal
  leaves).
* `CollateralHeld`: `Spec => []CollateralIsHeld`, and `TokenBooksAgree`:
  `Spec => []TokensAccounted`, which tie the books together by sums over accounts
  and over requests. That no vault promises more than it issued is part of the
  second: executing lowers both sides by one amount, and no other call lowers
  what is issued. Both are inductive given `TypeOK`. `SumFunction` is a fold, and
  the module starts with what is needed of it: the library's induction theorems
  cannot be used, so `NatSetInduction` and `SetInduction` derive induction over
  numbers and over finite sets from the existence of a least element, and
  the lemmas `Sum...` that a sum is a natural number, at least each of its
  parts, and changes by what one entry changes. They need the accounts to be finite (`AccountsFinite`: an
  address has 160 bits).
* `ImplementsLedger`: `Spec => LedgerImplemented`, a refinement. A request maps to
  its status, vault and amount, and each call to one action of `BridgeLedger` or
  to none. Partial payment and overpayment show in the ledger as the amount with
  which an issue completes. The lemmas are one for each call; that of
  `requestRedeem` needs `ReservedForPendingRedeems`, for the code compares a
  counter with what is issued where the ledger asks for the sum of the open
  promises (`LedgerPromises`). So it rests on `TokenBooksAgree`.
* `BridgeKeepsLocks`: `Spec => CollateralLocked`, the other refinement, from
  `TypeOK`: of the calls only those of the registry touch a vault's key, record or
  lock (`RequestsLeaveRecords`), and a new key for a registered vault is no step
  of the interface. TLC checks this property on `VaultReward` alone; with the
  theorem below it says that neither contract does to the other what the other
  is not modelled with.
* `SettlingIsCovered`: `Spec => []BooksSettleRequests`. One summand is at most the
  sum, so that whatever settling any one pending request subtracts from a book is
  there. It is `PendingCanBeSettled` and `PaidRedeemExecutable` as far as they do
  not say `ENABLED`, and a conjunct of the first.
* `AddressesNeverShared`: `Spec => []DepositAddressesDistinct`, with the invariant
  that every address was derived, whatever key its vault had, for the id of its
  request.
* `RecordsFollow`: `Spec => RecordFollowsCollateral`, call by call from `TypeOK`. The
  registry's record and the collateral held are written in different contracts; the
  four calls that add or withdraw write both by one amount, those that request,
  execute and cancel write neither for a vault that does not request itself, and
  a reimbursement is the case left over.

`ExchangeRateOracleProofs`, for any prices, delays and moment of the upgrade:

* `OracleTypeCorrect` (`OraclesTypeOK`), `UpgradeStops` (`UpgradeNeedsRate`) and
  `OraclesRefine`: `OraclesSpec => OracleImplemented`, every step of the two
  contracts being one of the abstract `Oracle` or none.

`RelayProofs`, for any number of headers, targets, timestamps and confirmations:

* `RelayTypeCorrect`, `ForksStayPaths`, `BestStaysMain`: `TypeOK`,
  `ForksArePaths` and `BestIsMain` are invariants. The invariant adds that
  blocks are stored in the order of their numbers, that a fork's entry is in use
  only up to `chainCounter`, that a live fork is a branch whose blocks are just
  those that carry its id, and that its ancestor is on the main chain, on an
  older fork or on one with nothing left to visit. The last is what a
  reorganisation needs to end and what it might destroy by moving blocks
  between chains.
* `MainStaysBestChain`: `Spec => []MainIsBestChain`, and `BestChainLeads`:
  `Spec => BestChainReplaced`. Both are about a block and all it builds on, which
  is defined by recursion (`Back`). The proofs describe it as the least set that
  holds the block and the parent of each of its blocks (`BackIsAncestors`, by
  well-founded induction over the numbers of blocks, parents being stored
  earlier). The invariant that is added says, while every fork is live, that the
  main chain is the best block's ancestors, that no other of its blocks is
  as high as the best, and that no block at all leads the best by the
  confirmations (`NobodyLeads`: a header that starts a fork is no higher than
  some stored block, as what it builds on is not a tip).

`VaultRewardProofs`, for any vaults, locks, collateral and lengths of time:

* `RewardTypeCorrect`, `CreditWithinLock`, `ReserveCounted`: the conjuncts of one
  inductive invariant; no subtraction of timestamps underflows since nothing is
  credited past the end of a lock or the present.
* `FortnightsCreditedOnce`: `Spec => CreditedOnce`, from that invariant and from
  arithmetic of whole fortnights.
* `ClaimableStays`: `Spec => ClaimableKept`, and `NothingRetroactive`:
  `Spec => NotRetroactive`, call by call. What is owed is a function of the lock,
  the time and the collateral, and grows with each: the lemmas are that quotients
  and products do.
* `RewardsKeepLocks`: `Spec => CollateralLocked`, a refinement: bringing rewards up
  to date and claiming them leave the end of every lock, an extension moves it by
  its period, and a reward that is locked is added to the record (it is a natural
  number, by `ClaimableIsNatural`).

`BitcoinClientProofs`, for any number of calls, outputs, blocks and retries:

* `FundedCanBeSent`: `Spec => []LockedUnspent`, and `NeverPaysTwice`:
  `Spec => []PaysOnce`. One inductive invariant gives both: a transaction not
  yet sent is its call's own, that call holds the lock, nothing accepted spends
  its output, and nothing of that call has been accepted. It is needed because
  either property alone says nothing of who holds the lock.
* `ClientReserves`: `Spec => R!Spec`. Every step of the client is one of the
  abstract reservations or changes none of what they see.
* `FoundIsTogether`: `Spec => []FoundTogether`, from a second invariant: blocks
  are a tree whose paths are closed under parents, every tip was higher than
  those before it, and each call has learnt, by the label it is at, only what
  was true of a block that was deep enough at some tip.

* `NothingSpentTwice` is what the abstract specification promises, and
  `ClientSpendsOnce` what follows for the client through the refinement.

`BitcoinSessionProofs`, for any clients, wallets, boots and timeouts:
`SessionTypeCorrect`, `ConnectWaitsForBoot` (`StartingIsNotFailure`) and
`RaceLeavesItLoaded` (`LoserFindsItLoaded`). The invariant says, of a client that
is past listing or loading in the daemon's present life, what it may find: that
the daemon no longer warms up, and that its wallet is loaded or does not exist.

`BitcoinReadsProofs`, for any mempool, blocks and readers: `IteratorComplete` and
`SeenStaysKnown`. The invariant is that blocks are a tree which holds all that was
read, and that what stayed since an iterator was made is still in the mempool.

`VaultWatchProofs`, for any group, generator, ids, requests, amounts and outputs:

* `DepositsCanBeSpent`: `Spec => []DepositsSpendable`. The arithmetic is that of
  remainders: a multiple of the generator times a scalar is the generator times
  the product.
* `OwnPaymentsAreAccepted`: `Spec => []OwnPaymentsAccepted`. The invariant says of
  the transaction looked at that its outputs are a sequence and, if the client
  made it, that one of them is the payment, one the id and the others change; the
  first output with a property is then the only one.
* `SidesAlwaysAgree`: `Spec => []SidesAgree`. For a plain transaction of any
  outputs the positions the client looks for are those the contract looks for.
  A set of positions that is not empty has a first one, which is where the
  well-foundedness of the numbers is used.
* `InputAddressesRead`: `Spec => []InputAddressRead`, for any pushes of 1 to 75
  bytes, the sizes that are pushed without an opcode of their own
  (`WatchConstants`). `TwoPushes` says what is where in a script, `SizeOfPush` that
  an integer read where a push starts is its size.

Only model-checked:

* the `ENABLED` invariants (`PendingCanBeSettled`, `PaidRedeemExecutable`) and
  all liveness: `CallsEnd`, `SessionCallsEnd`, and of `ReservationsImplemented`
  that reservations end;
* `UsedCoversIssued`, which is about one rate and no overpayment: the code guarantees
  neither, and for any rates it is false;
* the values of integers of more than one byte in a script (`LittleEndian`, a
  fold over the bytes), which no property reaches.

`TypeOK` of `Relay` and of `BitcoinSession`, `OraclesTypeOK`,
`ReserveIsCounted`, `BooksSettleRequests` and `CollateralLocked` of `OneBtc` are
proved and not by themselves among the runs' properties.
`TypeOK` of `BitcoinClient` and `ReadsTypeOK` say what the variables range over;
what is proved of them rests on invariants of their proof modules.

Assumed throughout: key derivation is injective in key and id (`OneBtc`; in
`VaultWatch` it need not be) and request ids do not collide; a receiver of ONE
accepts it and calls nothing; except in `own_requests` an address that requests
is not a vault; blocks have distinct timestamps; proofs of payment are right and
pay to the address they are checked for; no transaction is the value that stands
for none; the feeds answer positive prices.

## What is not modelled

* Liquidation and theft reports: `liquidateVault` cannot succeed, as it locks
  collateral in a call that carries no ONE, and every report ends in it. A model
  of them would have no step.
* Replace: disabled in `OneBtc.sol`.
* Transaction parsing, the arithmetic of the curve, Merkle proofs: pure
  computation on bytes. Of `validateTransaction` the check of one named output,
  which issue uses, is the amount transferred in `Issue`.
* The relay's list of authorised senders and its pause, which no code sets.
* Of the bitcoin client: `get_block_count`, `get_block`, `get_block_header`, `get_block_info` and
  `rescan_blockchain`, which only forward a call; the wallet's fee and dust; the
  options but for the network. A request whose connection broke is taken or not
  taken by the node by the time the error is seen, never later.
* Accounts that are contracts: calls from within a release of ONE, or a receiver
  that refuses it.
* A payment in a block that is replaced after the bridge has accepted it with one
  confirmation: `BestChainReplaced` says when a block may be replaced, and nothing
  in the contracts takes back what was issued.
* The btcrelay command, deployment, mocks and scripts, but for the oracle's
  upgrade.

## Plan

1. `Peg`: bitcoin payments, the relay and the bridge composed, for the last but
   one point above and for one payment used for two requests.
2. A header tree as an abstract specification, which `Relay` implements up to its
   first reorganisation.
3. Proofs: what the peg promises as a whole, from the theorems of its parts, once
   `Peg` is there; the refinement of point 2.
