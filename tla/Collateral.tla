------------------------------ MODULE Collateral ------------------------------
(***************************************************************************)
(* Collateral.sol: the ONE the contract holds for each address.  A vault's *)
(* collateral and a requester's griefing collateral share the one mapping  *)
(* CollateralBalances; CollateralUsed is what backs a vault's tokens.      *)
(***************************************************************************)
EXTENDS Harmony

VARIABLES
  CollateralBalances,  \* ONE held for each address
  CollateralUsed       \* the part of it that backs issued tokens

collateralVars == <<balance, CollateralBalances, CollateralUsed>>

CollateralTypeOK ==
  /\ CollateralBalances \in [Accounts -> Nat]
  /\ CollateralUsed \in [Accounts -> Nat]

CollateralInit ==
  /\ CollateralBalances = [a \in Accounts |-> 0]
  /\ CollateralUsed = [a \in Accounts |-> 0]

FreeCollateral(a) == CollateralBalances[a] - CollateralUsed[a]

\* `payer` sends `amount`, which is credited to `sender`.
LockCollateral(payer, sender, amount) ==
  /\ PayContract(payer, amount)
  /\ CollateralBalances' = [CollateralBalances EXCEPT ![sender] = @ + amount]

\* Wrong: what is used may leave as well.
Release2IgnoringUsed(sender, used, to, amount, to2, amount2) ==
  /\ CollateralBalances[sender] >= amount + amount2
  /\ CollateralBalances' =
       [CollateralBalances EXCEPT ![sender] = @ - (amount + amount2)]
  /\ PayOut(to, amount, to2, amount2)

\* Wrong: the second release is not deducted.
Release2DeductingOnce(sender, used, to, amount, to2, amount2) ==
  /\ CollateralBalances[sender] - used[sender] >= amount + amount2
  /\ CollateralBalances' = [CollateralBalances EXCEPT ![sender] = @ - amount]
  /\ PayOut(to, amount, to2, amount2)

\* Two consecutive releases out of the collateral of `sender`, checked
\* against the used collateral `used` in force at the time of the calls.
Release2(sender, used, to, amount, to2, amount2) ==
  /\ CollateralBalances[sender] - used[sender] >= amount + amount2
  /\ CollateralBalances' =
       [CollateralBalances EXCEPT ![sender] = @ - (amount + amount2)]
  /\ PayOut(to, amount, to2, amount2)

Release(sender, used, to, amount) == Release2(sender, used, to, amount, to, 0)

\* Wrong: the amount replaces what was used before.
UseCollateralIncOverwriting(v, amount) ==
  /\ CollateralUsed' = [CollateralUsed EXCEPT ![v] = amount]
  /\ CollateralBalances'[v] >= CollateralUsed'[v]

\* The check reads the balance after whatever the same call did to it.
UseCollateralInc(v, amount) ==
  /\ CollateralUsed' = [CollateralUsed EXCEPT ![v] = @ + amount]
  /\ CollateralBalances'[v] >= CollateralUsed'[v]

\* Wrong: may fall below zero.
UseCollateralDecUnsaturated(v, amount) ==
  CollateralUsed' = [CollateralUsed EXCEPT ![v] = @ - amount]

\* Saturates at zero instead of reverting.
UseCollateralDec(v, amount) ==
  CollateralUsed' =
    [CollateralUsed EXCEPT ![v] = IF @ < amount THEN 0 ELSE @ - amount]
=============================================================================
