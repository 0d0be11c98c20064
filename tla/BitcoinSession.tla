----------------------------- MODULE BitcoinSession -----------------------------
(***************************************************************************)
(* clients/bitcoin: how instances of BitcoinCore come to use a daemon that *)
(* boots, shuts down and forgets its wallets: connect, sync,               *)
(* create_or_load_wallet and the calls made through with_wallet, in any    *)
(* order and each call to the daemon a step of its own.  What a wallet     *)
(* call does is left to BitcoinClient and DepositKeys.                     *)
(***************************************************************************)
EXTENDS BitcoinDaemon

CONSTANTS
  Clients,     \* instances of BitcoinCore, or tasks that share one
  NoWallet,    \* no wallet_name
  Timeout,     \* connection_timeout, in units of RETRY_DURATION
  MaxRetries   \* bound: attempts a backoff allows after the first

ASSUME SessionConstants ==
  /\ NoWallet \notin Wallets
  /\ Timeout \in Nat \ {0}
  /\ MaxRetries \in Nat

VARIABLES
  wallet_name,  \* of each client, as it was made
  pc,           \* where the client is in its call
  result,       \* of its last call
  clock,        \* time since connect began
  retries,      \* of the backoff in with_wallet
  within,       \* TRUE if with_wallet called create_or_load_wallet
  since         \* boots when create_or_load_wallet was called, which only
                \* the properties read

locals == <<clock, retries, within, since>>
sessionVars == <<wallet_name, pc, result, locals>>
vars == <<daemonVars, sessionVars>>

Labels == {"idle", "asking", "sleeping", "checking", "resting", "list",
           "load", "create", "call", "backoff"}

Results == {"none", "Ok", "TimeElapsed", "ConnectionRefused",
            "WalletNotFound", "BitcoinError"}

TypeOK ==
  /\ DaemonTypeOK
  /\ wallet_name \in [Clients -> Wallets \cup {NoWallet}]
  /\ pc \in [Clients -> Labels]
  /\ result \in [Clients -> Results]
  /\ clock \in [Clients -> 0 .. Timeout]
  /\ retries \in [Clients -> 0 .. MaxRetries]
  /\ within \in [Clients -> BOOLEAN]
  /\ since \in [Clients -> 0 .. MaxBoots]

Init ==
  /\ DaemonInit
  /\ wallet_name \in [Clients -> Wallets \cup {NoWallet}]
  /\ pc = [c \in Clients |-> "idle"]
  /\ result = [c \in Clients |-> "none"]
  /\ clock = [c \in Clients |-> 0]
  /\ retries = [c \in Clients |-> 0]
  /\ within = [c \in Clients |-> FALSE]
  /\ since = [c \in Clients |-> 0]

-----------------------------------------------------------------------------
Goto(c, label) == pc' = [pc EXCEPT ![c] = label]

Enter(c, label) ==
  /\ pc[c] = "idle"
  /\ Goto(c, label)
  /\ result' = [result EXCEPT ![c] = "none"]
  /\ UNCHANGED <<daemonVars, wallet_name, locals>>

\* A call returns, and its locals are gone.
Return(c, r) ==
  /\ Goto(c, "idle")
  /\ result' = [result EXCEPT ![c] = r]
  /\ clock' = [clock EXCEPT ![c] = 0]
  /\ retries' = [retries EXCEPT ![c] = 0]
  /\ within' = [within EXCEPT ![c] = FALSE]
  /\ since' = [since EXCEPT ![c] = 0]

\* It goes on.
Proceed(c, label) == Goto(c, label) /\ UNCHANGED <<result, locals>>

\* A call to the daemon fails and its error is returned (the operator ?).
Propagate(c) == Errors # {} /\ Return(c, "BitcoinError")

-----------------------------------------------------------------------------
\* connect asks until the daemon answers, an error is not one of a daemon
\* that starts or stops, or the time is over.
Connect(c) == Enter(c, "asking")

\* Wrong: a daemon that warms up is not waited for.
WaitableButWarmup(e) == IsConnectionRefused(e) \/ e.kind = "syntax"

Waitable(e) ==
  \/ IsConnectionRefused(e)
  \/ IsRpc(e, RpcInWarmup)
  \/ e.kind = "syntax"

\* The call blocks the task for any time, and the timeout is only looked at
\* once the task awaits its sleep.
GetBlockchainInfo(c) ==
  /\ pc[c] = "asking"
  /\ \/ Serving /\ Return(c, "Ok")
     \/ \E e \in Errors : ~Waitable(e) /\ Return(c, "BitcoinError")
     \/ \E e \in Errors, now \in clock[c] .. Timeout :
          /\ Waitable(e)
          /\ IF now < Timeout
               THEN /\ Goto(c, "sleeping")
                    /\ clock' = [clock EXCEPT ![c] = now]
                    /\ UNCHANGED <<result, retries, within, since>>
               ELSE Return(c, "TimeElapsed")
  /\ UNCHANGED <<daemonVars, wallet_name>>

\* Wrong: the clock starts afresh with every attempt.
WakeAfresh(c) ==
  /\ pc[c] = "sleeping"
  /\ Goto(c, "asking")
  /\ clock' = [clock EXCEPT ![c] = 0]
  /\ UNCHANGED <<daemonVars, wallet_name, result, retries, within, since>>

\* When the sleep and the timeout end together either may be seen first.
Wake(c) ==
  /\ pc[c] = "sleeping"
  /\ \/ /\ Goto(c, "asking")
        /\ clock' = [clock EXCEPT ![c] = @ + 1]
        /\ UNCHANGED <<result, retries, within, since>>
     \/ clock[c] + 1 = Timeout /\ Return(c, "TimeElapsed")
  /\ UNCHANGED <<daemonVars, wallet_name>>

-----------------------------------------------------------------------------
\* sync has no timeout and takes every error for its own.
Sync(c) == Enter(c, "checking")

IsSynced(info) == ~info.initial_block_download \/ info.complete

CheckSynced(c) ==
  /\ pc[c] = "checking"
  /\ \/ /\ Serving
        /\ \E info \in BlockchainInfo :
             IF IsSynced(info) THEN Return(c, "Ok") ELSE Proceed(c, "resting")
     \/ Propagate(c)
  /\ UNCHANGED <<daemonVars, wallet_name>>

Rest(c) ==
  /\ pc[c] = "resting"
  /\ Proceed(c, "checking")
  /\ UNCHANGED <<daemonVars, wallet_name>>

-----------------------------------------------------------------------------
\* The next attempt of with_wallet, unless its backoff is exhausted.
Backoff(c) ==
  IF retries[c] < MaxRetries
    THEN /\ Goto(c, "backoff")
         /\ retries' = [retries EXCEPT ![c] = @ + 1]
         /\ within' = [within EXCEPT ![c] = FALSE]
         /\ since' = [since EXCEPT ![c] = 0]
         /\ UNCHANGED <<result, clock>>
    ELSE Return(c, "ConnectionRefused")

\* create_or_load_wallet ends well: in with_wallet the call is made again.
WalletLoaded(c) == IF within[c] THEN Backoff(c) ELSE Return(c, "Ok")

\* create_or_load_wallet up to its first call to the daemon.
LoadOrFail(c, caller) ==
  IF wallet_name[c] = NoWallet
    THEN Return(c, "WalletNotFound")
    ELSE /\ Goto(c, "list")
         /\ result' = [result EXCEPT ![c] = "none"]
         /\ within' = [within EXCEPT ![c] = caller = "with_wallet"]
         /\ since' = [since EXCEPT ![c] = boots]
         /\ UNCHANGED <<clock, retries>>

CreateOrLoadWallet(c) ==
  /\ pc[c] = "idle"
  /\ LoadOrFail(c, "anyone")
  /\ UNCHANGED <<daemonVars, wallet_name>>

\* Wrong: a wallet that is not loaded is taken not to exist.
ListAndCreate(c) ==
  /\ pc[c] = "list"
  /\ \/ /\ Serving
        /\ IF wallet_name[c] \in loaded
             THEN WalletLoaded(c)
             ELSE Proceed(c, "create")
     \/ Propagate(c)
  /\ UNCHANGED <<daemonVars, wallet_name>>

ListWallets(c) ==
  /\ pc[c] = "list"
  /\ \/ /\ Serving
        /\ IF wallet_name[c] \in loaded
             THEN WalletLoaded(c)
             ELSE Proceed(c, "load")
     \/ Propagate(c)
  /\ UNCHANGED <<daemonVars, wallet_name>>

\* Every error of loadwallet is taken to mean that there is no such wallet:
\* also that it is loaded by now, or that the daemon is away.
LoadWallet(c) ==
  /\ pc[c] = "load"
  /\ IF Serving /\ wallet_name[c] \in directory \ loaded
       THEN loaded' = loaded \cup {wallet_name[c]} /\ WalletLoaded(c)
       ELSE Proceed(c, "create") /\ UNCHANGED loaded
  /\ UNCHANGED <<phase, directory, boots, wallet_name>>

CreateWallet(c) ==
  /\ pc[c] = "create"
  /\ IF Serving /\ wallet_name[c] \notin directory
       THEN /\ directory' = directory \cup {wallet_name[c]}
            /\ loaded' = loaded \cup {wallet_name[c]}
            /\ WalletLoaded(c)
       ELSE Return(c, "BitcoinError") /\ UNCHANGED <<directory, loaded>>
  /\ UNCHANGED <<phase, boots, wallet_name>>

-----------------------------------------------------------------------------
\* with_wallet around one call to the daemon.
WithWallet(c) == Enter(c, "call")

\* A client without a name needs exactly one wallet loaded.
WalletUsable(c) ==
  /\ Serving
  /\ IF wallet_name[c] = NoWallet THEN Cardinality(loaded) = 1
                                 ELSE wallet_name[c] \in loaded

\* The errors of a wallet call: one that has its wallet may fail for want of
\* an estimate of the fee.
WalletErrors(c) ==
  CASE ~Serving        -> Errors
    [] WalletUsable(c) -> {Rpc(RpcWalletError)}
    [] wallet_name[c] = NoWallet /\ loaded # {} -> {Rpc(RpcWalletNotSpecified)}
    [] OTHER           -> {Rpc(RpcWalletNotFound)}

CallWallet(c) ==
  /\ pc[c] = "call" /\ WalletUsable(c)
  /\ Return(c, "Ok")
  /\ UNCHANGED <<daemonVars, wallet_name>>

WalletNotFound(c) ==
  /\ pc[c] = "call"
  /\ \E e \in WalletErrors(c) : IsWalletNotFound(e)
  /\ LoadOrFail(c, "with_wallet")
  /\ UNCHANGED <<daemonVars, wallet_name>>

WalletError(c) ==
  /\ pc[c] = "call"
  /\ \E e \in WalletErrors(c) : IsWalletError(e)
  /\ Backoff(c)
  /\ UNCHANGED <<daemonVars, wallet_name>>

\* Any other error, a refused connection too, is not retried.
OtherError(c) ==
  /\ pc[c] = "call"
  /\ \E e \in WalletErrors(c) : ~IsWalletNotFound(e) /\ ~IsWalletError(e)
  /\ Return(c, "BitcoinError")
  /\ UNCHANGED <<daemonVars, wallet_name>>

Retry(c) ==
  /\ pc[c] = "backoff"
  /\ Proceed(c, "call")
  /\ UNCHANGED <<daemonVars, wallet_name>>

-----------------------------------------------------------------------------
Call(c) == Connect(c) \/ Sync(c) \/ CreateOrLoadWallet(c) \/ WithWallet(c)

Run(c) ==
  \/ GetBlockchainInfo(c) \/ Wake(c)
  \/ CheckSynced(c) \/ Rest(c)
  \/ ListWallets(c) \/ LoadWallet(c) \/ CreateWallet(c)
  \/ CallWallet(c) \/ WalletNotFound(c) \/ WalletError(c) \/ OtherError(c)
  \/ Retry(c)

Next ==
  \/ \E c \in Clients : Call(c) \/ Run(c)
  \/ Daemon /\ UNCHANGED sessionVars

Spec == Init /\ [][Next]_vars

\* A call that was made runs on; nobody has to make one, and the daemon need
\* neither start nor catch up.
FairSpec == Spec /\ \A c \in Clients : WF_vars(Run(c))

-----------------------------------------------------------------------------
\* connect fails before its time only if the daemon is going away: one that
\* is down or warms up, in whatever order it does, is waited for (the three
\* arms of connect that sleep).
StartingIsNotFailure ==
  [][\A c \in Clients :
       pc[c] = "asking" /\ pc'[c] = "idle" /\ result'[c] = "BitcoinError"
         => phase = "stopping"]_vars

\* Clients that find the wallet gone race to load or make it, and the daemon
\* refuses the loser: but whoever is refused by a daemon that did not boot
\* meanwhile is refused because the wallet is loaded.
LoserFindsItLoaded ==
  [][\A c \in Clients :
       pc[c] = "create" /\ pc'[c] = "idle" /\ result'[c] = "BitcoinError"
         /\ Serving /\ since[c] = boots
         => wallet_name[c] \in loaded]_vars

Syncing(c) == pc[c] \in {"checking", "resting"}

\* Every call but sync ends, whatever the daemon does: connect by its
\* timeout, with_wallet when its backoff is exhausted.  And sync ends unless
\* the daemon catches up with the chain for ever, on regtest too where the
\* initial download is never over.
SessionCallsEnd ==
  \A c \in Clients :
    /\ (pc[c] # "idle" /\ ~Syncing(c)) ~> pc[c] = "idle"
    /\ <>[](phase # "syncing") => (Syncing(c) ~> pc[c] = "idle")
=============================================================================
