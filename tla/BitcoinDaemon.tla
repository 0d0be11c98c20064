----------------------------- MODULE BitcoinDaemon -----------------------------
(***************************************************************************)
(* The life of the bitcoin-core process behind clients/bitcoin: it is      *)
(* down, warms up, catches up with the chain, serves and is shut down or   *)
(* killed, any number of times.  Wallets are made once and stay on disk; a *)
(* boot loads none of them.  The daemon is not part of the repository.     *)
(***************************************************************************)
EXTENDS BitcoinErrors, FiniteSets

CONSTANTS
  Wallets,    \* wallet names
  MaxBoots    \* bound: boots of the daemon

ASSUME DaemonConstants == MaxBoots \in Nat

VARIABLES
  phase,      \* of the process
  directory,  \* wallets on disk
  loaded,     \* wallets loaded
  boots       \* boots so far

daemonVars == <<phase, directory, loaded, boots>>

Phases == {"down", "warmup", "syncing", "synced", "stopping"}

DaemonTypeOK ==
  /\ phase \in Phases
  /\ directory \subseteq Wallets
  /\ loaded \subseteq directory
  /\ boots \in 0 .. MaxBoots

DaemonInit ==
  /\ phase \in {"down", "synced"}
  /\ directory \in SUBSET Wallets
  /\ loaded \in SUBSET directory
  /\ phase = "down" => loaded = {}
  /\ boots = 0

Serving == phase \in {"syncing", "synced"}

\* The errors of a call that the daemon does not get to answer.
Errors ==
  CASE phase = "down"     -> {Io("refused")}
    [] phase = "warmup"   -> {Rpc(RpcInWarmup)}
    [] phase = "stopping" -> {Io("refused"), Io("aborted"), Json("syntax"),
                              Json("eof")}
    [] OTHER              -> {}

\* On regtest the initial download never ends, but is complete.
BlockchainInfo ==
  IF phase = "syncing"
    THEN {[initial_block_download |-> TRUE, complete |-> FALSE]}
    ELSE {[initial_block_download |-> FALSE, complete |-> FALSE],
          [initial_block_download |-> TRUE, complete |-> TRUE]}

Boot ==
  /\ phase = "down" /\ boots < MaxBoots
  /\ phase' = "warmup"
  /\ boots' = boots + 1
  /\ UNCHANGED <<directory, loaded>>

WarmedUp ==
  /\ phase = "warmup"
  /\ phase' \in {"syncing", "synced"}
  /\ UNCHANGED <<directory, loaded, boots>>

CaughtUp ==
  /\ phase = "syncing"
  /\ phase' = "synced"
  /\ UNCHANGED <<directory, loaded, boots>>

ShutDown ==
  /\ phase \in {"warmup", "syncing", "synced"}
  /\ phase' \in {"stopping", "down"}
  /\ loaded' = {}
  /\ UNCHANGED <<directory, boots>>

Exit ==
  /\ phase = "stopping"
  /\ phase' = "down"
  /\ UNCHANGED <<directory, loaded, boots>>

Daemon == Boot \/ WarmedUp \/ CaughtUp \/ ShutDown \/ Exit
=============================================================================
