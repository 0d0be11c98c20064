--------------------------- MODULE LockedCollateral ---------------------------
(***************************************************************************)
(* What VaultRegistry and VaultReward rely on in each other: the vault's   *)
(* record in the one and its lock in the other.  VaultRegistry and         *)
(* VaultReward are each modelled with a view of the other contract; both   *)
(* models implement this one, so that the two views agree.  Collateral is  *)
(* recorded and a lock granted for a registered vault only, collateral     *)
(* leaves only when the lock is over, and a lock only gets longer.         *)
(***************************************************************************)
EXTENDS Integers

CONSTANTS
  Vaults,
  Periods   \* lengths of time a vault can lock for

VARIABLES
  now,
  registered,    \* by vault: it has a public key
  collateral,    \* by vault: what the registry has recorded
  lockExpireAt   \* by vault: the last moment of its lock

vars == <<now, registered, collateral, lockExpireAt>>

Init ==
  /\ now \in Nat
  /\ registered = [v \in Vaults |-> FALSE]
  /\ collateral = [v \in Vaults |-> 0]
  /\ lockExpireAt = [v \in Vaults |-> 0]

\* Some collateral, or none, is added to what v has.
Added(v) ==
  /\ collateral'[v] >= collateral[v]
  /\ collateral' = [collateral EXCEPT ![v] = collateral'[v]]

Register(v) ==
  /\ ~registered[v]
  /\ registered' = [registered EXCEPT ![v] = TRUE]
  /\ Added(v)
  /\ UNCHANGED <<now, lockExpireAt>>

Add(v) ==
  /\ registered[v]
  /\ Added(v)
  /\ UNCHANGED <<now, registered, lockExpireAt>>

Withdraw(v) ==
  /\ registered[v]
  /\ lockExpireAt[v] < now
  /\ collateral'[v] \in 0 .. collateral[v]
  /\ collateral' = [collateral EXCEPT ![v] = collateral'[v]]
  /\ UNCHANGED <<now, registered, lockExpireAt>>

\* The collateral and the lock remain, for whoever registers v again.
Unregister(v) ==
  /\ registered[v]
  /\ registered' = [registered EXCEPT ![v] = FALSE]
  /\ UNCHANGED <<now, collateral, lockExpireAt>>

Lock(v, period) ==
  /\ registered[v]
  /\ lockExpireAt' =
       [lockExpireAt EXCEPT ![v] = IF @ < now THEN now + period ELSE @ + period]
  /\ UNCHANGED <<now, registered, collateral>>

Tick ==
  /\ now' = now + 1
  /\ UNCHANGED <<registered, collateral, lockExpireAt>>

Next ==
  \/ \E v \in Vaults :
       \/ Register(v) \/ Add(v) \/ Withdraw(v) \/ Unregister(v)
       \/ \E period \in Periods : Lock(v, period)
  \/ Tick

Spec == Init /\ [][Next]_vars
=============================================================================
