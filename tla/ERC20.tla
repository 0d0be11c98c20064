-------------------------------- MODULE ERC20 --------------------------------
(***************************************************************************)
(* The 1BTC token: the part of OpenZeppelin's ERC20Upgradeable that OneBtc *)
(* calls (_mint, _burn, _transfer).  External to the repository.           *)
(***************************************************************************)
EXTENDS Harmony

CONSTANT Claim   \* the fixed address transferToClaim pays

ASSUME ClaimDistinct == Claim \notin Accounts \cup {This}

VARIABLES
  tokens,       \* balanceOf
  totalSupply

tokenVars == <<tokens, totalSupply>>

Holders == Accounts \cup {This, Claim}

ERC20TypeOK ==
  /\ tokens \in [Holders -> Nat]
  /\ totalSupply \in Nat

ERC20Init ==
  /\ tokens = [h \in Holders |-> 0]
  /\ totalSupply = 0

\* Two mints, in this order.
Mint2(to, amount, to2, amount2) ==
  /\ tokens' = [tokens EXCEPT ![to] = @ + amount, ![to2] = @ + amount2]
  /\ totalSupply' = totalSupply + amount + amount2

Transfer(from, to, amount) ==
  /\ tokens[from] >= amount
  /\ tokens' = [tokens EXCEPT ![from] = @ - amount, ![to] = @ + amount]
  /\ UNCHANGED totalSupply
=============================================================================
