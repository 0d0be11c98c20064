------------------------------ MODULE MCVaultClient ------------------------------
(***************************************************************************)
(* What a vault reads through its client, for TLC: the chain and mempool   *)
(* of a small node, or its keys and payments, in a small group, with few   *)
(* ids and amounts, and pushes of the sizes at which scripts change.  The  *)
(* two share no state, so each behaviour follows one and the other stays   *)
(* as it began.  One reader is enough: readers do not see each other.      *)
(***************************************************************************)
EXTENDS VaultWatch, BitcoinReads

VARIABLE reads   \* whether the chain and mempool are followed

vaultClientVars == <<reads, vars, readsVars>>

VaultClientInit ==
  /\ reads \in BOOLEAN
  /\ Init
  /\ ReadsInit
  /\ reads => network = "Regtest"

VaultClientNext ==
  \/ reads /\ ReadsNext /\ UNCHANGED <<reads, vars>>
  \/ ~reads /\ Next /\ UNCHANGED <<reads, readsVars>>

VaultClientSpec == VaultClientInit /\ [][VaultClientNext]_vaultClientVars
=============================================================================
