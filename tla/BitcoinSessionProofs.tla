-------------------------- MODULE BitcoinSessionProofs --------------------------
(***************************************************************************)
(* Theorems about the sessions of the bitcoin client, for any clients,     *)
(* wallets, timeout, boots of the daemon and length of the backoff.        *)
(***************************************************************************)
EXTENDS BitcoinSession, TLAPS

\* The type of what the clients keep.
SessionTypeOK ==
  /\ wallet_name \in [Clients -> Wallets \cup {NoWallet}]
  /\ pc \in [Clients -> Labels]
  /\ result \in [Clients -> Results]
  /\ clock \in [Clients -> 0 .. Timeout]
  /\ retries \in [Clients -> 0 .. MaxRetries]
  /\ within \in [Clients -> BOOLEAN]
  /\ since \in [Clients -> 0 .. MaxBoots]

\* A sleep starts only when there is time left for it.
SleepsInTime == \A c \in Clients : pc[c] = "sleeping" => clock[c] < Timeout

\* A call in create_or_load_wallet began before now.
SinceEarlier == \A c \in Clients : since[c] <= boots

\* Only a client with a name gets to load or make its wallet.
LoadsItsOwn ==
  \A c \in Clients :
    pc[c] \in {"list", "load", "create"} => wallet_name[c] \in Wallets

\* A call that got past listwallets in this life of the daemon finds it
\* serving or on its way out.
PastListing ==
  \A c \in Clients :
    pc[c] \in {"load", "create"} /\ since[c] = boots => phase # "warmup"

\* And once loadwallet has failed, the wallet is loaded or not on disk.
AfterLoading ==
  \A c \in Clients :
    pc[c] = "create" /\ since[c] = boots /\ Serving
      => wallet_name[c] \notin directory \/ wallet_name[c] \in loaded

IInv ==
  /\ DaemonTypeOK
  /\ SessionTypeOK
  /\ SleepsInTime
  /\ SinceEarlier
  /\ LoadsItsOwn
  /\ PastListing
  /\ AfterLoading

\* What holds of one client, and stays as long as only others move.
Good(c) ==
  /\ pc[c] = "sleeping" => clock[c] < Timeout
  /\ since[c] <= boots
  /\ pc[c] \in {"list", "load", "create"} => wallet_name[c] \in Wallets
  /\ pc[c] \in {"load", "create"} /\ since[c] = boots => phase # "warmup"
  /\ pc[c] = "create" /\ since[c] = boots /\ Serving
       => wallet_name[c] \notin directory \/ wallet_name[c] \in loaded

LEMMA IInvIsGood ==
  IInv <=> DaemonTypeOK /\ SessionTypeOK /\ \A c \in Clients : Good(c)
  BY DEF IInv, Good, SleepsInTime, SinceEarlier, LoadsItsOwn,
     PastListing, AfterLoading

LEMMA InitIInv == Init => IInv
  BY DaemonConstants, SessionConstants
     DEF Init, DaemonInit, IInv, DaemonTypeOK, SessionTypeOK, SleepsInTime,
         SinceEarlier, LoadsItsOwn, PastListing, AfterLoading, Phases, Labels, Results, Serving

\* A call that returns.
LEMMA ReturnKeeps ==
  ASSUME SessionTypeOK, NEW c \in Clients, NEW r \in Results,
         Return(c, r), wallet_name' = wallet_name, DaemonTypeOK'
  PROVE  SessionTypeOK' /\ Good(c)'
<1>1. SessionTypeOK'
  BY DaemonConstants, SessionConstants DEF SessionTypeOK, Return, Goto, Labels
<1>2. pc'[c] = "idle" /\ since'[c] = 0
  BY DEF SessionTypeOK, Return, Goto
<1>3. boots' \in Nat
  BY DaemonConstants DEF DaemonTypeOK
<1> QED
  BY <1>1, <1>2, <1>3 DEF Good

\* A call that backs off, or fails if it has done so often enough.
LEMMA BackoffKeeps ==
  ASSUME SessionTypeOK, NEW c \in Clients,
         Backoff(c), wallet_name' = wallet_name, DaemonTypeOK'
  PROVE  SessionTypeOK' /\ Good(c)'
<1>1. CASE Return(c, "ConnectionRefused")
  BY <1>1, ReturnKeeps DEF Results
<1>2. CASE ~Return(c, "ConnectionRefused")
  <2>1. /\ retries[c] < MaxRetries
        /\ pc' = [pc EXCEPT ![c] = "backoff"]
        /\ retries' = [retries EXCEPT ![c] = @ + 1]
        /\ within' = [within EXCEPT ![c] = FALSE]
        /\ since' = [since EXCEPT ![c] = 0]
        /\ UNCHANGED <<result, clock>>
    BY <1>2 DEF Backoff, Goto
  <2>2. SessionTypeOK'
    BY <2>1, DaemonConstants, SessionConstants DEF SessionTypeOK, Labels
  <2>3. pc'[c] = "backoff" /\ since'[c] = 0
    BY <2>1 DEF SessionTypeOK
  <2>4. boots' \in Nat
    BY DaemonConstants DEF DaemonTypeOK
  <2> QED
    BY <2>2, <2>3, <2>4 DEF Good
<1> QED
  BY <1>1, <1>2

\* create_or_load_wallet ends well.
LEMMA WalletLoadedKeeps ==
  ASSUME SessionTypeOK, NEW c \in Clients,
         WalletLoaded(c), wallet_name' = wallet_name, DaemonTypeOK'
  PROVE  SessionTypeOK' /\ Good(c)'
<1>1. CASE within[c]
  BY <1>1, BackoffKeeps DEF WalletLoaded
<1>2. CASE ~within[c]
  BY <1>2, ReturnKeeps DEF WalletLoaded, Results
<1> QED
  BY <1>1, <1>2

\* It begins, in this life of the daemon.
LEMMA LoadOrFailKeeps ==
  ASSUME SessionTypeOK, DaemonTypeOK, NEW c \in Clients, NEW caller,
         LoadOrFail(c, caller), wallet_name' = wallet_name,
         UNCHANGED daemonVars
  PROVE  SessionTypeOK' /\ Good(c)'
<1>1. DaemonTypeOK'
  BY DEF DaemonTypeOK, daemonVars
<1>2. CASE Return(c, "WalletNotFound")
  BY <1>1, <1>2, ReturnKeeps DEF Results
<1>3. CASE ~Return(c, "WalletNotFound")
  <2>1. /\ pc' = [pc EXCEPT ![c] = "list"]
        /\ result' = [result EXCEPT ![c] = "none"]
        /\ within' = [within EXCEPT ![c] = caller = "with_wallet"]
        /\ since' = [since EXCEPT ![c] = boots]
        /\ UNCHANGED <<clock, retries>>
    BY <1>3 DEF LoadOrFail, Goto
  <2>2. SessionTypeOK'
    BY <2>1 DEF SessionTypeOK, DaemonTypeOK, Labels, Results
  <2>3. pc'[c] = "list" /\ since'[c] = boots /\ boots' = boots
    BY <2>1 DEF SessionTypeOK, daemonVars
  <2>4. boots \in Nat
    BY DaemonConstants DEF DaemonTypeOK
  <2>5. wallet_name'[c] \in Wallets
    BY <1>3 DEF LoadOrFail, SessionTypeOK
  <2> QED
    BY <2>2, <2>3, <2>4, <2>5 DEF Good
<1> QED
  BY <1>2, <1>3

\* A step within a call that keeps its locals.
LEMMA ProceedKeeps ==
  ASSUME SessionTypeOK, NEW c \in Clients,
         NEW label \in Labels \ {"sleeping"},
         Proceed(c, label), wallet_name' = wallet_name,
         since[c] <= boots'
  PROVE  /\ SessionTypeOK'
         /\ pc'[c] = label /\ since'[c] = since[c]
         /\ label \notin {"list", "load", "create"} => Good(c)'
<1>1. SessionTypeOK'
  BY DEF SessionTypeOK, Proceed, Goto, locals
<1>2. pc'[c] = label /\ since' = since
  BY DEF SessionTypeOK, Proceed, Goto, locals
<1> QED
  BY <1>1, <1>2 DEF Good

\* What a step of one client leaves of the others: their locals, and their
\* wallet on disk only if it was, or is now loaded.
Apart(c) ==
  /\ wallet_name' = wallet_name /\ phase' = phase /\ boots' = boots
  /\ \A d \in Clients \ {c} :
       pc'[d] = pc[d] /\ clock'[d] = clock[d] /\ since'[d] = since[d]
  /\ loaded \subseteq loaded'
  /\ directory' \ directory \subseteq loaded'

LEMMA OthersStayGood ==
  ASSUME IInv, NEW c \in Clients, Apart(c), NEW d \in Clients \ {c}
  PROVE  Good(d)'
<1>1. Good(d)
  BY IInvIsGood
<1> QED
  BY <1>1 DEF Apart, Good, Serving

LEMMA StepOfOne ==
  ASSUME IInv, NEW c \in Clients, Apart(c),
         DaemonTypeOK', SessionTypeOK', Good(c)'
  PROVE  IInv'
<1>1. \A d \in Clients : Good(d)'
  BY OthersStayGood
<1> QED
  BY <1>1 DEF IInv, Good, SleepsInTime, SinceEarlier, LoadsItsOwn,
     PastListing, AfterLoading

\* Every way a call moves on touches only the caller's locals.
LEMMA Locals ==
  ASSUME SessionTypeOK, NEW c \in Clients,
         \/ \E r \in Results : Return(c, r)
         \/ \E label \in Labels : Proceed(c, label)
         \/ Backoff(c)
         \/ WalletLoaded(c)
         \/ \E caller \in {"anyone", "with_wallet"} : LoadOrFail(c, caller)
  PROVE  \A d \in Clients \ {c} :
           pc'[d] = pc[d] /\ clock'[d] = clock[d] /\ since'[d] = since[d]
<1>1. CASE \E r \in Results : Return(c, r)
  BY <1>1 DEF SessionTypeOK, Return, Goto
<1>2. CASE \E label \in Labels : Proceed(c, label)
  BY <1>2 DEF SessionTypeOK, Proceed, Goto, locals
<1>3. CASE Backoff(c)
  BY <1>3 DEF SessionTypeOK, Backoff, Return, Goto
<1>4. CASE WalletLoaded(c)
  BY <1>4 DEF SessionTypeOK, WalletLoaded, Backoff, Return, Goto
<1>5. CASE \E caller \in {"anyone", "with_wallet"} : LoadOrFail(c, caller)
  BY <1>5 DEF SessionTypeOK, LoadOrFail, Return, Goto
<1> QED
  BY <1>1, <1>2, <1>3, <1>4, <1>5

\* A step of a call that leaves the daemon alone and does not go on to load
\* or to make the wallet.
LEMMA QuietStep ==
  ASSUME IInv, NEW c \in Clients, UNCHANGED <<daemonVars, wallet_name>>,
         \/ \E r \in Results : Return(c, r)
         \/ \E label \in Labels \ {"sleeping", "list", "load", "create"} : Proceed(c, label)
         \/ Backoff(c)
         \/ WalletLoaded(c)
         \/ \E caller \in {"anyone", "with_wallet"} : LoadOrFail(c, caller)
  PROVE  IInv'
<1>1. DaemonTypeOK /\ SessionTypeOK /\ Good(c)
  BY IInvIsGood
<1>2. DaemonTypeOK'
  BY <1>1 DEF DaemonTypeOK, daemonVars
<1>3. Apart(c)
  <2>1. \A d \in Clients \ {c} :
          pc'[d] = pc[d] /\ clock'[d] = clock[d] /\ since'[d] = since[d]
    BY <1>1, Locals
  <2> QED
    BY <2>1 DEF Apart, daemonVars
<1>4. since[c] <= boots' /\ wallet_name' = wallet_name
  BY <1>1 DEF Good, daemonVars
<1>5. SessionTypeOK' /\ Good(c)'
  <2>1. CASE \E r \in Results : Return(c, r)
    BY <1>1, <1>2, <1>4, <2>1, ReturnKeeps
  <2>2. CASE \E label \in Labels \ {"sleeping", "list", "load", "create"} : Proceed(c, label)
    BY <1>1, <1>4, <2>2, ProceedKeeps
  <2>3. CASE Backoff(c)
    BY <1>1, <1>2, <1>4, <2>3, BackoffKeeps
  <2>4. CASE WalletLoaded(c)
    BY <1>1, <1>2, <1>4, <2>4, WalletLoadedKeeps
  <2>5. CASE \E caller \in {"anyone", "with_wallet"} : LoadOrFail(c, caller)
    BY <1>1, <1>4, <2>5, LoadOrFailKeeps
  <2> QED
    BY <2>1, <2>2, <2>3, <2>4, <2>5
<1> QED
  BY <1>2, <1>3, <1>5, StepOfOne

-----------------------------------------------------------------------------
\* connect: it sleeps only while there is time.
LEMMA ConnectKeepsIInv ==
  ASSUME IInv, NEW c \in Clients, GetBlockchainInfo(c) \/ Wake(c)
  PROVE  IInv'
<1>1. DaemonTypeOK /\ SessionTypeOK /\ Good(c)
  BY IInvIsGood
<1>2. UNCHANGED <<daemonVars, wallet_name>>
  BY DEF GetBlockchainInfo, Wake
<1>3. CASE \E r \in Results : Return(c, r)
  BY <1>2, <1>3, QuietStep
<1>4. CASE ~\E r \in Results : Return(c, r)
  <2>1. PICK label \in {"sleeping", "asking"}, now \in 0 .. Timeout :
          /\ label = "sleeping" => now < Timeout
          /\ pc' = [pc EXCEPT ![c] = label]
          /\ clock' = [clock EXCEPT ![c] = now]
          /\ UNCHANGED <<result, retries, within, since>>
    <3>1. CASE GetBlockchainInfo(c)
      BY <1>1, <1>4, <3>1, SessionConstants
         DEF GetBlockchainInfo, Goto, Results, SessionTypeOK
    <3>2. CASE Wake(c)
      <4>1. pc[c] = "sleeping" /\ clock[c] < Timeout /\ clock[c] \in 0 .. Timeout
        BY <1>1, <3>2 DEF Wake, Good, SessionTypeOK
      <4>2. clock[c] + 1 \in 0 .. Timeout
        BY <4>1, SessionConstants
      <4>3. /\ pc' = [pc EXCEPT ![c] = "asking"]
            /\ clock' = [clock EXCEPT ![c] = clock[c] + 1]
            /\ UNCHANGED <<result, retries, within, since>>
        BY <1>4, <3>2 DEF Wake, Goto, Results
      <4> QED
        BY <4>2, <4>3
    <3> QED
      BY <3>1, <3>2
  <2>2. SessionTypeOK'
    BY <1>1, <1>2, <2>1 DEF SessionTypeOK, Labels
  <2>3. DaemonTypeOK'
    BY <1>1, <1>2 DEF DaemonTypeOK, daemonVars
  <2>4. Apart(c)
    BY <1>1, <1>2, <2>1 DEF Apart, SessionTypeOK, daemonVars
  <2>5. pc'[c] = label /\ clock'[c] = now /\ since'[c] <= boots'
    BY <1>1, <1>2, <2>1 DEF SessionTypeOK, Good, daemonVars
  <2>6. Good(c)'
    BY <2>1, <2>5 DEF Good
  <2> QED
    BY <2>2, <2>3, <2>4, <2>6, StepOfOne
<1> QED
  BY <1>3, <1>4

\* create_or_load_wallet: a call goes on to load when the daemon serves, and
\* to make the wallet when there is none to load.
LEMMA LoadingKeepsIInv ==
  ASSUME IInv, NEW c \in Clients,
         ListWallets(c) \/ LoadWallet(c) \/ CreateWallet(c)
  PROVE  IInv'
<1>1. DaemonTypeOK /\ SessionTypeOK /\ Good(c)
  BY IInvIsGood
<1>2. CASE ListWallets(c)
  <2>1. UNCHANGED <<daemonVars, wallet_name>>
    BY <1>2 DEF ListWallets
  <2> wallet_name'[c] \in Wallets
    BY <1>1, <1>2, <2>1 DEF ListWallets, Good
  <2>2. CASE Proceed(c, "load") /\ Serving
    <3>1. since[c] <= boots'
      BY <1>1, <2>1 DEF Good, daemonVars
    <3>2. SessionTypeOK' /\ pc'[c] = "load"
      BY <1>1, <2>1, <2>2, <3>1, ProceedKeeps DEF Labels
    <3>3. DaemonTypeOK'
      BY <1>1, <2>1 DEF DaemonTypeOK, daemonVars
    <3>4. Apart(c)
      BY <1>1, <2>1, <2>2, Locals DEF Apart, daemonVars, Labels
    <3>5. since'[c] = since[c]
      BY <2>2 DEF Proceed, locals
    <3>6. Good(c)'
      BY <2>1, <2>2, <3>1, <3>2, <3>5 DEF Good, daemonVars, Serving
    <3> QED
      BY <3>2, <3>3, <3>4, <3>6, StepOfOne
  <2>3. CASE WalletLoaded(c) \/ Return(c, "BitcoinError")
    BY <2>1, <2>3, QuietStep DEF Results
  <2> QED
    BY <1>2, <2>2, <2>3 DEF ListWallets, Propagate
<1>3. CASE LoadWallet(c)
  <2>1. /\ pc[c] = "load"
        /\ UNCHANGED <<phase, directory, boots, wallet_name>>
    BY <1>3 DEF LoadWallet
  <2> wallet_name'[c] \in Wallets
    BY <1>1, <2>1 DEF Good
  <2>2. CASE Serving /\ wallet_name[c] \in directory \ loaded
    <3>1. loaded' = loaded \cup {wallet_name[c]} /\ WalletLoaded(c)
      BY <1>3, <2>2 DEF LoadWallet
    <3>2. DaemonTypeOK'
      BY <1>1, <2>1, <2>2, <3>1 DEF DaemonTypeOK
    <3>3. Apart(c)
      BY <1>1, <2>1, <3>1, Locals DEF Apart
    <3> QED
      BY <1>1, <2>1, <3>1, <3>2, <3>3, WalletLoadedKeeps, StepOfOne
  <2>3. CASE ~(Serving /\ wallet_name[c] \in directory \ loaded)
    <3>1. Proceed(c, "create") /\ loaded' = loaded
      BY <1>3, <2>3 DEF LoadWallet
    <3>2. since[c] <= boots'
      BY <1>1, <2>1 DEF Good
    <3>3. SessionTypeOK' /\ pc'[c] = "create" /\ since'[c] = since[c]
      BY <1>1, <2>1, <3>1, <3>2, ProceedKeeps DEF Labels
    <3>4. DaemonTypeOK'
      BY <1>1, <2>1, <3>1 DEF DaemonTypeOK
    <3>5. Apart(c)
      BY <1>1, <2>1, <3>1, Locals DEF Apart, Labels
    <3>6. Good(c)'
      BY <1>1, <2>1, <2>3, <3>1, <3>2, <3>3 DEF Good, Serving
    <3> QED
      BY <3>3, <3>4, <3>5, <3>6, StepOfOne
  <2> QED
    BY <2>2, <2>3
<1>4. CASE CreateWallet(c)
  <2>1. UNCHANGED <<phase, boots, wallet_name>>
    BY <1>4 DEF CreateWallet
  <2>2. CASE Serving /\ wallet_name[c] \notin directory
    <3>1. /\ directory' = directory \cup {wallet_name[c]}
          /\ loaded' = loaded \cup {wallet_name[c]}
          /\ WalletLoaded(c)
      BY <1>4, <2>2 DEF CreateWallet
    <3>2. wallet_name[c] \in Wallets
      BY <1>1, <1>4 DEF CreateWallet, Good
    <3>3. DaemonTypeOK'
      BY <1>1, <2>1, <3>1, <3>2 DEF DaemonTypeOK
    <3>4. Apart(c)
      BY <1>1, <2>1, <3>1, Locals DEF Apart
    <3> QED
      BY <1>1, <2>1, <3>1, <3>3, <3>4, WalletLoadedKeeps, StepOfOne
  <2>3. CASE ~(Serving /\ wallet_name[c] \notin directory)
    BY <1>4, <2>1, <2>3, QuietStep DEF CreateWallet, Results, daemonVars
  <2> QED
    BY <2>2, <2>3
<1> QED
  BY <1>2, <1>3, <1>4

\* Every step of every call keeps it.
LEMMA ClientKeepsIInv ==
  ASSUME IInv, NEW c \in Clients, Call(c) \/ Run(c)
  PROVE  IInv'
<1>1. CASE GetBlockchainInfo(c) \/ Wake(c)
  BY <1>1, ConnectKeepsIInv
<1>2. CASE ListWallets(c) \/ LoadWallet(c) \/ CreateWallet(c)
  BY <1>2, LoadingKeepsIInv
<1>3. CASE \E label \in {"asking", "checking", "call"} : Enter(c, label)
  <2>1. PICK label \in {"asking", "checking", "call"} : Enter(c, label)
    BY <1>3
  <2>2. /\ pc' = [pc EXCEPT ![c] = label]
        /\ result' = [result EXCEPT ![c] = "none"]
        /\ UNCHANGED <<daemonVars, wallet_name, locals>>
    BY <2>1 DEF Enter, Goto
  <2>3. DaemonTypeOK /\ SessionTypeOK /\ Good(c)
    BY IInvIsGood
  <2>4. DaemonTypeOK'
    BY <2>2, <2>3 DEF DaemonTypeOK, daemonVars
  <2>5. SessionTypeOK'
    BY <2>2, <2>3 DEF SessionTypeOK, Labels, Results, locals
  <2>6. Apart(c)
    BY <2>2, <2>3 DEF Apart, SessionTypeOK, daemonVars, locals
  <2>7. Good(c)'
    BY <2>2, <2>3 DEF Good, SessionTypeOK, daemonVars, locals
  <2> QED
    BY <2>4, <2>5, <2>6, <2>7, StepOfOne
<1>4. CASE CheckSynced(c) \/ Rest(c) \/ Retry(c)
  BY <1>4, QuietStep DEF CheckSynced, Rest, Retry, Propagate, Labels, Results
<1>5. CASE \/ CreateOrLoadWallet(c) \/ WalletNotFound(c)
           \/ WalletError(c) \/ OtherError(c) \/ CallWallet(c)
  BY <1>5, QuietStep DEF CreateOrLoadWallet, WalletNotFound, WalletError,
     OtherError, CallWallet, Results
<1> QED
  BY <1>1, <1>2, <1>3, <1>4, <1>5 DEF Call, Run, Connect, Sync, WithWallet

\* So does the daemon: a boot ends the life in which wallets were listed, and
\* only a boot leads to another.
LEMMA DaemonKeepsIInv == IInv /\ Daemon /\ UNCHANGED sessionVars => IInv'
<1> SUFFICES ASSUME IInv, Daemon, UNCHANGED sessionVars PROVE IInv'
  OBVIOUS
<1>1. DaemonTypeOK /\ SessionTypeOK /\ \A c \in Clients : Good(c)
  BY IInvIsGood
<1>2. DaemonTypeOK'
  BY <1>1, DaemonConstants DEF DaemonTypeOK, Daemon, Boot, WarmedUp, CaughtUp,
     ShutDown, Exit, Phases
<1>3. SessionTypeOK'
  BY <1>1 DEF SessionTypeOK, sessionVars, locals
<1>4. ASSUME NEW c \in Clients PROVE Good(c)'
  <2>1. Good(c) /\ since[c] \in Nat /\ boots \in Nat
    BY <1>1, DaemonConstants DEF SessionTypeOK, DaemonTypeOK
  <2>2. /\ pc' = pc /\ clock' = clock /\ since' = since
        /\ wallet_name' = wallet_name
    BY DEF sessionVars, locals
  <2>3. CASE Boot
    BY <2>1, <2>2, <2>3 DEF Good, Boot
  <2>4. CASE WarmedUp \/ CaughtUp
    BY <2>1, <2>2, <2>4 DEF Good, WarmedUp, CaughtUp, Serving
  <2>5. CASE ShutDown \/ Exit
    BY <2>1, <2>2, <2>5 DEF Good, ShutDown, Exit, Serving
  <2> QED
    BY <2>3, <2>4, <2>5 DEF Daemon
<1>5. IInv'
  BY <1>2, <1>3, <1>4 DEF IInv, Good, SleepsInTime, SinceEarlier, LoadsItsOwn,
     PastListing, AfterLoading
<1> QED
  BY <1>5

LEMMA StepKeepsIInv == IInv /\ [Next]_vars => IInv'
<1> SUFFICES ASSUME IInv, [Next]_vars PROVE IInv'
  OBVIOUS
<1>1. CASE UNCHANGED vars
  BY <1>1 DEF vars, daemonVars, sessionVars, locals, IInv, DaemonTypeOK,
     SessionTypeOK, SleepsInTime, SinceEarlier, LoadsItsOwn, PastListing,
     AfterLoading, Serving
<1>2. CASE Next
  BY <1>2, ClientKeepsIInv, DaemonKeepsIInv DEF Next
<1> QED
  BY <1>1, <1>2

LEMMA IInvAlways == Spec => []IInv
  BY InitIInv, StepKeepsIInv, PTL DEF Spec

-----------------------------------------------------------------------------
\* For any clients and any life of the daemon: time, attempts and labels stay
\* within their bounds; no sleep of connect outlives its timeout.
THEOREM SessionTypeCorrect == Spec => []TypeOK
<1>1. IInv => TypeOK
  BY DEF IInv, SessionTypeOK, TypeOK
<1> QED
  BY <1>1, IInvAlways, PTL

\* A client moves only its own label.
LEMMA OwnLabel ==
  ASSUME IInv, NEW d \in Clients, Call(d) \/ Run(d)
  PROVE  \A c \in Clients \ {d} : pc'[c] = pc[c]
<1>1. \E label \in Labels : Goto(d, label)
  <2>1. CASE Call(d)
    BY <2>1 DEF Call, Connect, Sync, CreateOrLoadWallet, WithWallet, Enter,
       LoadOrFail, Return, Labels
  <2>2. CASE GetBlockchainInfo(d) \/ Wake(d) \/ CheckSynced(d) \/ Rest(d)
    BY <2>2 DEF GetBlockchainInfo, Wake, CheckSynced, Rest, Propagate, Return,
       Proceed, Labels
  <2>3. CASE ListWallets(d) \/ LoadWallet(d) \/ CreateWallet(d)
    BY <2>3 DEF ListWallets, LoadWallet, CreateWallet, WalletLoaded, Backoff,
       Propagate, Return, Proceed, Labels
  <2>4. CASE \/ CallWallet(d) \/ WalletNotFound(d) \/ WalletError(d)
             \/ OtherError(d) \/ Retry(d)
    BY <2>4 DEF CallWallet, WalletNotFound, WalletError, OtherError, Retry,
       LoadOrFail, Backoff, Return, Proceed, Labels
  <2> QED
    BY <2>1, <2>2, <2>3, <2>4 DEF Run
<1> QED
  BY <1>1 DEF Goto, IInv, SessionTypeOK

\* The errors connect does not wait for are those of a daemon that stops.
LEMMA NotWaitable ==
  ASSUME DaemonTypeOK, NEW e \in Errors, ~Waitable(e)
  PROVE  phase = "stopping"
<1>1. CASE phase = "down"
  BY <1>1 DEF Errors, Io, Waitable, IsConnectionRefused
<1>2. CASE phase = "warmup"
  <2>1. e = [kind |-> "rpc", code |-> -28]
    BY <1>2 DEF Errors, Rpc, RpcInWarmup
  <2>2. -28 \in RpcCodes
    BY DEF RpcCodes
  <2> QED
    BY <2>1, <2>2 DEF Waitable, IsRpc, BitcoinRpcError, RpcInWarmup
<1>3. CASE phase \in {"syncing", "synced"}
  BY <1>3 DEF Errors
<1> QED
  BY <1>1, <1>2, <1>3 DEF DaemonTypeOK, Phases

\* For any timeout and any life of the daemon: connect gives up before its
\* time only on a daemon that is going away.
THEOREM ConnectWaitsForBoot == Spec => StartingIsNotFailure
<1>1. ASSUME IInv, [Next]_vars, NEW c \in Clients,
             pc[c] = "asking", pc'[c] = "idle", result'[c] = "BitcoinError"
      PROVE  phase = "stopping"
  <2>1. Call(c) \/ Run(c)
    BY <1>1, OwnLabel DEF Next, vars, sessionVars
  <2>2. GetBlockchainInfo(c)
    BY <1>1, <2>1 DEF Call, Connect, Sync, CreateOrLoadWallet, WithWallet, Enter,
       Run, Wake, CheckSynced, Rest, ListWallets, LoadWallet, CreateWallet,
       CallWallet, WalletNotFound, WalletError, OtherError, Retry
  <2>3. \E e \in Errors : ~Waitable(e)
    BY <1>1, <2>2 DEF GetBlockchainInfo, Return, Goto, IInv, SessionTypeOK
  <2> QED
    BY <1>1, <2>3, NotWaitable DEF IInv
<1>2. IInv /\ [Next]_vars
        => [\A c \in Clients :
              pc[c] = "asking" /\ pc'[c] = "idle" /\ result'[c] = "BitcoinError"
                => phase = "stopping"]_vars
  BY <1>1
<1> QED
  BY <1>2, IInvAlways, PTL DEF Spec, StartingIsNotFailure

\* For any clients in any race over a wallet: a client refused by a daemon
\* that did not boot meanwhile has its wallet loaded by another.
THEOREM RaceLeavesItLoaded == Spec => LoserFindsItLoaded
<1>1. ASSUME IInv, [Next]_vars, NEW c \in Clients,
             pc[c] = "create", pc'[c] = "idle", result'[c] = "BitcoinError",
             Serving, since[c] = boots
      PROVE  wallet_name[c] \in loaded
  <2>1. Call(c) \/ Run(c)
    BY <1>1, OwnLabel DEF Next, vars, sessionVars
  <2>2. CreateWallet(c)
    BY <1>1, <2>1 DEF Call, Connect, Sync, CreateOrLoadWallet, WithWallet, Enter,
       Run, GetBlockchainInfo, Wake, CheckSynced, Rest, ListWallets, LoadWallet,
       CallWallet, WalletNotFound, WalletError, OtherError, Retry
  <2>3. wallet_name[c] \in directory
    <3>1. SUFFICES ASSUME WalletLoaded(c) PROVE FALSE
      BY <1>1, <2>2 DEF CreateWallet
    <3>2. \/ Return(c, "ConnectionRefused") \/ Return(c, "Ok")
          \/ Goto(c, "backoff")
      BY <3>1 DEF WalletLoaded, Backoff
    <3> QED
      BY <1>1, <3>2 DEF Return, Goto, IInv, SessionTypeOK
  <2> QED
    BY <1>1, <2>3 DEF IInv, AfterLoading
<1>2. IInv /\ [Next]_vars
        => [\A c \in Clients :
              pc[c] = "create" /\ pc'[c] = "idle" /\ result'[c] = "BitcoinError"
                /\ Serving /\ since[c] = boots
                => wallet_name[c] \in loaded]_vars
  BY <1>1
<1> QED
  BY <1>2, IInvAlways, PTL DEF Spec, LoserFindsItLoaded
=============================================================================
