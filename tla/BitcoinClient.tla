----------------------------- MODULE BitcoinClient -----------------------------
(***************************************************************************)
(* clients/bitcoin: concurrent calls of send_to_address, which creates a   *)
(* transaction, sends it and waits for its confirmations, and calls of     *)
(* wait_for_block.  Each call to the node is a step of its own, so blocks, *)
(* reorganisations and restarts come between any two of them.              *)
(* create_and_send_transaction is the part up to "sent"; a caller of       *)
(* create_transaction has a LockedTransaction at "locked", which it sends  *)
(* or drops (GiveUp).                                                      *)
(***************************************************************************)
EXTENDS BitcoinNode, SequencesExt

CONSTANTS
  Calls,             \* calls of send_to_address and of wait_for_block
  NumConfirmations,  \* num_confirmations of every call
  Height,            \* the height wait_for_block is asked for
  MaxRetries         \* bound: attempts a backoff allows after the first

Nobody == "nobody"

ASSUME ClientConstants ==
  /\ Payers = Calls /\ Nobody \notin Calls
  /\ NumConfirmations \in Nat \ {0}
  /\ Height \in Nat \ {0}
  /\ MaxRetries \in Nat

NoTx == [payer |-> "none", coin |-> "none"]

ASSUME NoTxIsNone == NoTx \notin Transactions

VARIABLES
  pc,      \* how far each call is
  tx,      \* the transaction it has funded
  retries, \* attempts of the backoff it is in
  found,   \* what it has learnt: the transaction's block and height, and the
           \* blocks its proof and raw transaction were read from
  holder,  \* transaction_creation_lock: the call with the guard, or Nobody
  queue    \* and the calls that wait for it, first come, first served

lockVars == <<holder, queue>>
clientVars == <<pc, tx, retries, found, lockVars>>
vars == <<nodeVars, clientVars>>

NoBlock == 0
NothingFound == [block |-> NoBlock, height |-> 0, proof |-> NoBlock,
                 raw |-> NoBlock]
Ended == {"done", "failed"}

BlockIds == 0 .. MaxBlocks

Labels == {"idle", "backoff", "queued", "funded", "locked", "sent", "mined",
           "proved", "hash", "info", "block"} \cup Ended

TypeOK ==
  /\ NodeTypeOK
  /\ pc \in [Calls -> Labels]
  /\ tx \in [Calls -> Transactions \cup {NoTx}]
  /\ retries \in [Calls -> 0 .. MaxRetries]
  /\ found \in [Calls -> [block : BlockIds, height : Nat, proof : BlockIds,
                          raw : BlockIds]]
  /\ holder \in Calls \cup {Nobody}
  /\ queue \in Seq(Calls)

Init ==
  /\ NodeInit
  /\ pc = [c \in Calls |-> "idle"]
  /\ tx = [c \in Calls |-> NoTx]
  /\ retries = [c \in Calls |-> 0]
  /\ found = [c \in Calls |-> NothingFound]
  /\ holder = Nobody
  /\ queue = <<>>

-----------------------------------------------------------------------------
Goto(c, label) == pc' = [pc EXCEPT ![c] = label]

\* lock_owned: the guard, or a place in the queue.
Acquire(c) ==
  IF holder = Nobody
    THEN holder' = c /\ UNCHANGED queue
    ELSE queue' = Append(queue, c) /\ UNCHANGED holder

\* Dropping the guard hands it on; a dropped future leaves the queue.
Release(c) ==
  IF holder # c
    THEN queue' = Remove(queue, c) /\ UNCHANGED holder
    ELSE IF queue = <<>>
      THEN holder' = Nobody /\ UNCHANGED queue
      ELSE holder' = Head(queue) /\ queue' = Tail(queue)

\* A call returns an error or is dropped, and its guard and locals with it.
Fail(c) ==
  /\ Goto(c, "failed")
  /\ tx' = [tx EXCEPT ![c] = NoTx]
  /\ retries' = [retries EXCEPT ![c] = 0]
  /\ found' = [found EXCEPT ![c] = NothingFound]
  /\ Release(c)

\* A backoff's next attempt.
Again(c, label) ==
  /\ retries[c] < MaxRetries
  /\ Goto(c, label)
  /\ retries' = [retries EXCEPT ![c] = @ + 1]

Exhausted(c) == retries[c] = MaxRetries /\ Fail(c)

\* create_transaction: the lock is asked for only once the raw transaction is
\* made, and the lock's queue is first come, first served.
CreateTransaction(c) ==
  /\ pc[c] \in {"idle", "backoff"}
  /\ Goto(c, "queued")
  /\ Acquire(c)
  /\ UNCHANGED <<nodeVars, tx, retries, found>>

FundRawTransaction(c) ==
  /\ pc[c] = "queued" /\ holder = c
  /\ loaded
  /\ \E coin \in Unspent :
       tx' = [tx EXCEPT ![c] = [payer |-> c, coin |-> coin]]
  /\ Goto(c, "funded")
  /\ UNCHANGED <<nodeVars, retries, found, lockVars>>

\* Wrong: the transaction is returned without the lock.
SignAndUnlock(c) ==
  /\ pc[c] = "funded" /\ loaded
  /\ Goto(c, "locked")
  /\ retries' = [retries EXCEPT ![c] = 0]
  /\ Release(c)
  /\ UNCHANGED <<nodeVars, tx, found>>

SignRawTransaction(c) ==
  /\ pc[c] = "funded" /\ loaded
  /\ Goto(c, "locked")
  /\ retries' = [retries EXCEPT ![c] = 0]
  /\ UNCHANGED <<nodeVars, tx, found, lockVars>>

\* send_transaction: the node takes the transaction and answers.
SendRawTransaction(c) ==
  /\ pc[c] = "locked"
  /\ Accept(tx[c])
  /\ Goto(c, "sent")
  /\ retries' = [retries EXCEPT ![c] = 0]
  /\ Release(c)
  /\ UNCHANGED <<blocks, tip, loaded, tx, found>>

\* Wrong: the whole call is made again.
SendAfresh(c) ==
  /\ pc[c] = "locked"
  /\ Accept(tx[c])
  /\ \/ /\ Again(c, "backoff")
        /\ tx' = [tx EXCEPT ![c] = NoTx]
        /\ Release(c)
        /\ UNCHANGED found
     \/ Exhausted(c)
  /\ UNCHANGED <<blocks, tip, loaded>>

\* The node takes it and the answer is lost: an error with_wallet passes on.
AnswerLost(c) ==
  /\ pc[c] = "locked"
  /\ Accept(tx[c])
  /\ Fail(c)
  /\ UNCHANGED <<blocks, tip, loaded>>

\* create_or_load_wallet, called when the node has no wallet loaded.
LoadWallet == loaded' = TRUE

\* with_wallet: a wallet error, or no wallet, which is then loaded.  The
\* closure of create_transaction drops its guard; that of send_transaction
\* does not own it.
WalletErrorOnCreate(c) ==
  /\ pc[c] \in {"queued", "funded"} /\ holder = c
  /\ LoadWallet
  /\ \/ /\ Again(c, "backoff")
        /\ tx' = [tx EXCEPT ![c] = NoTx]
        /\ Release(c)
        /\ UNCHANGED found
     \/ Exhausted(c)
  /\ UNCHANGED <<blocks, tip, accepted>>

WalletErrorOnSend(c) ==
  /\ pc[c] = "locked"
  /\ LoadWallet
  /\ \/ Again(c, "locked") /\ UNCHANGED <<tx, found, lockVars>>
     \/ Exhausted(c)
  /\ UNCHANGED <<blocks, tip, accepted>>

\* Wrong: the guard outlives a call that failed.
FailedKeepingLock(c) ==
  /\ pc[c] \in {"backoff", "queued", "funded", "locked", "hash", "info", "block"}
  /\ pc[c] = "queued" => holder = c
  /\ Goto(c, "failed")
  /\ UNCHANGED <<nodeVars, tx, retries, found, lockVars>>

\* Any other error of a call to the node, or of loading the wallet.
Failed(c) ==
  /\ pc[c] \in {"backoff", "queued", "funded", "locked", "hash", "info", "block"}
  /\ pc[c] = "queued" => holder = c
  /\ Fail(c)
  /\ UNCHANGED nodeVars

\* The caller drops the LockedTransaction, or the future where it awaits the
\* lock or a retry.
GiveUp(c) ==
  /\ pc[c] \in {"backoff", "queued", "locked", "sent", "mined", "proved", "hash"}
  /\ Fail(c)
  /\ UNCHANGED nodeVars

-----------------------------------------------------------------------------
\* wait_for_transaction_metadata: the transaction's block, once it is deep
\* enough in the best chain of that moment.
Deep(b) == Confirmations(b) >= NumConfirmations

GetTransaction(c) ==
  /\ pc[c] = "sent"
  /\ \E b \in BlockOf(tx[c]) :
       /\ Deep(b)
       /\ found' = [found EXCEPT ![c].block = b,
                                 ![c].height = blocks[b].height]
  /\ Goto(c, "mined")
  /\ retries' = [retries EXCEPT ![c] = 0]
  /\ UNCHANGED <<nodeVars, tx, lockVars>>

\* Wrong: the proof is asked for without the block's hash.
GetProofNow(c) ==
  /\ pc[c] = "mined"
  /\ \E b \in BlockOf(tx[c]) : found' = [found EXCEPT ![c].proof = b]
  /\ Goto(c, "proved")
  /\ retries' = [retries EXCEPT ![c] = 0]
  /\ UNCHANGED <<nodeVars, tx, lockVars>>

\* A node has the blocks of branches it left, and proves from them too.
GetProof(c) ==
  /\ pc[c] = "mined"
  /\ tx[c] \in blocks[found[c].block].txs
  /\ found' = [found EXCEPT ![c].proof = found[c].block]
  /\ Goto(c, "proved")
  /\ retries' = [retries EXCEPT ![c] = 0]
  /\ UNCHANGED <<nodeVars, tx, lockVars>>

GetRawTx(c) ==
  /\ pc[c] = "proved"
  /\ tx[c] \in blocks[found[c].block].txs
  /\ found' = [found EXCEPT ![c].raw = found[c].block]
  /\ Goto(c, "done")
  /\ UNCHANGED <<nodeVars, tx, retries, lockVars>>

\* Too few confirmations or any error of these three calls.
RetryLater(c) ==
  /\ pc[c] \in {"sent", "mined", "proved"}
  /\ \/ Again(c, pc[c]) /\ UNCHANGED <<tx, found, lockVars>>
     \/ Exhausted(c)
  /\ UNCHANGED nodeVars

-----------------------------------------------------------------------------
\* wait_for_block: the hash at the height, if the chain is that high.
WaitForBlock(c) ==
  /\ pc[c] = "idle"
  /\ Goto(c, "hash")
  /\ UNCHANGED <<nodeVars, tx, retries, found, lockVars>>

GetBlockHash(c) ==
  /\ pc[c] = "hash"
  /\ \E b \in BlockAt(Height) : found' = [found EXCEPT ![c].block = b]
  /\ Goto(c, "info")
  /\ UNCHANGED <<nodeVars, tx, retries, lockVars>>

GetBlockInfo(c) ==
  /\ pc[c] = "info"
  /\ Goto(c, IF Deep(found[c].block) THEN "block" ELSE "hash")
  /\ UNCHANGED <<nodeVars, tx, retries, found, lockVars>>

GetBlock(c) ==
  /\ pc[c] = "block"
  /\ Goto(c, "done")
  /\ UNCHANGED <<nodeVars, tx, retries, found, lockVars>>

-----------------------------------------------------------------------------
Send(c) ==
  \/ CreateTransaction(c)
  \/ FundRawTransaction(c)
  \/ SignRawTransaction(c)
  \/ SendRawTransaction(c)
  \/ AnswerLost(c)
  \/ WalletErrorOnCreate(c)
  \/ WalletErrorOnSend(c)
  \/ GetTransaction(c)
  \/ GetProof(c)
  \/ GetRawTx(c)
  \/ RetryLater(c)

Poll(c) == WaitForBlock(c) \/ GetBlockHash(c) \/ GetBlockInfo(c) \/ GetBlock(c)

Step(c) == Send(c) \/ Poll(c) \/ Failed(c)

Node == (NewBlock \/ Restart) /\ UNCHANGED clientVars

Next == (\E c \in Calls : Step(c) \/ GiveUp(c)) \/ Node

Spec == Init /\ [][Next]_vars

\* A call that has started is run by the executor whenever it can take a
\* step: the node answers, backoffs end, a LockedTransaction is sent or
\* dropped.  No block need come, no call need start, and nothing need fail but
\* what is retried.
Running(c) == pc[c] # "idle" /\ (Send(c) \/ Poll(c))

FairSpec == Spec /\ \A c \in Calls : WF_vars(Running(c))

-----------------------------------------------------------------------------
Signed(c) == pc[c] \in {"funded", "locked"}

Waiting(c) == pc[c] \in {"hash", "info", "block"}

Payments(c) == {t \in accepted : t.payer = c}

\* A transaction that is made and not yet sent can be sent: nobody else has
\* funded or sent one that spends its output.  This is what the lock is kept
\* for from fundrawtransaction to sendrawtransaction (create_transaction).
LockedUnspent ==
  \A c \in Calls : Signed(c) =>
    /\ \A t \in accepted : t.coin = tx[c].coin => t = tx[c]
    /\ \A d \in Calls \ {c} : Signed(d) => tx[d].coin # tx[c].coin

\* Whatever is retried and whichever answers are lost, a call of
\* create_and_send_transaction pays once if it succeeds and at most once if
\* it fails.
PaysOnce ==
  \A c \in Calls :
    /\ \A s, t \in Payments(c) : s = t
    /\ tx[c] # NoTx /\ ~Signed(c) => Payments(c) = {tx[c]}

\* A block was deep enough when the chain had some earlier tip: a tip is a
\* block that was higher than every one before it.
WasDeep(b) ==
  \E t \in DOMAIN blocks :
    /\ \A a \in 1 .. (t - 1) : blocks[a].height < blocks[t].height
    /\ b \in blocks[t].path
    /\ blocks[t].height - blocks[b].height + 1 >= NumConfirmations

\* The metadata of a transaction are of one block that contains it and had
\* the confirmations, although three calls with any reorganisation between
\* them collect it (wait_for_transaction_metadata); and so has the block
\* wait_for_block returns, at the height it was asked for.
FoundTogether ==
  \A c \in Calls : pc[c] = "done" =>
    LET f == found[c] IN
    /\ WasDeep(f.block)
    /\ IF tx[c] = NoTx
         THEN blocks[f.block].height = Height
         ELSE /\ f.block = f.proof /\ f.block = f.raw
              /\ tx[c] \in blocks[f.block].txs
              /\ f.height = blocks[f.block].height

\* A payment that has started ends, and so nobody waits for the lock for
\* ever, however many calls fail or are dropped (LockedTransaction,
\* with_wallet, the backoffs).  And once the chain is high enough
\* wait_for_block ends, although the block it looked at may have been lost.
CallsEnd ==
  \A c \in Calls :
    /\ (pc[c] # "idle" /\ ~Waiting(c)) ~> pc[c] \in Ended
    /\ (Waiting(c) /\ blocks[tip].height >= Height + NumConfirmations - 1)
         ~> pc[c] \in Ended

-----------------------------------------------------------------------------
\* A call's transaction is reserved from funding it until it is sent.
R == INSTANCE Reservations
       WITH reserved <- {tx[c] : c \in {d \in Calls : Signed(d)}},
            payments <- accepted

\* The lock, the retries and the dropped futures of any number of calls come
\* to this: one reservation at a time of an unspent output, paid or dropped
\* in the end, and one payment of each call (transaction_creation_lock).
ReservationsImplemented == R!FairSpec
=============================================================================
