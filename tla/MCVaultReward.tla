----------------------------- MODULE MCVaultReward -----------------------------
(***************************************************************************)
(* Small instances of the reward contracts for TLC: months of one block    *)
(* and fortnights of two, so that a lock ends within a fortnight.          *)
(***************************************************************************)
EXTENDS VaultReward

CONSTANT v1
=============================================================================
