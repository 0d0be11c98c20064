------------------------------- MODULE Harmony -------------------------------
(***************************************************************************)
(* The Harmony chain as the bridge contracts see it: addresses holding     *)
(* native ONE, and a block clock.  Everything here is external to the      *)
(* repository; it is modelled from how the contracts use msg.value,        *)
(* call{value: ...} and block.timestamp.  Every block has its own          *)
(* timestamp, so one number stands for both.                               *)
(***************************************************************************)
EXTENDS Integers, FiniteSets

CONSTANTS
  Accounts,     \* externally owned addresses that call the bridge
  This,         \* the address of the OneBtc contract
  VaultReward,  \* the address of the VaultReward contract
  Funds,        \* ONE every other address holds at the start
  MaxTime       \* bound on the block clock

ASSUME AddressesDistinct ==
  /\ This \notin Accounts
  /\ VaultReward \notin Accounts
  /\ This # VaultReward

ASSUME AccountsFinite == IsFiniteSet(Accounts)

ASSUME FundsAndClockNat == Funds \in Nat /\ MaxTime \in Nat \ {0}

VARIABLES
  balance,  \* native ONE held by each address
  now       \* block.timestamp, in blocks

Addresses == Accounts \cup {This, VaultReward}

Times == 1 .. MaxTime

HarmonyTypeOK ==
  /\ balance \in [Addresses -> Nat]
  /\ now \in Times

\* No block has the time 0, which is when a lock ends that was never granted.
HarmonyInit ==
  /\ balance = [a \in Addresses |-> IF a = This THEN 0 ELSE Funds]
  /\ now = 1

\* A payable call: `from` sends `amount` with the call.
PayContract(from, amount) ==
  /\ balance[from] >= amount
  /\ balance' = [balance EXCEPT ![from] = @ - amount, ![This] = @ + amount]

\* Two calls with value out of the contract, in this order.
PayOut(to, amount, to2, amount2) ==
  /\ balance[This] >= amount + amount2
  /\ balance' = [balance EXCEPT ![This] = @ - (amount + amount2),
                                ![to] = @ + amount,
                                ![to2] = @ + amount2]

\* The next block.
Tick ==
  /\ now < MaxTime
  /\ now' = now + 1
=============================================================================
