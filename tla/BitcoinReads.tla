------------------------------ MODULE BitcoinReads ------------------------------
(***************************************************************************)
(* clients/bitcoin: what a caller learns about the chain and the mempool   *)
(* by calls with blocks, reorganisations, new transactions and evictions   *)
(* between any two of them: get_best_block_hash, get_block_hash,           *)
(* is_block_known and the lazy iterator get_mempool_transactions returns.  *)
(* A reader does one of two things: it follows the chain or goes through   *)
(* the mempool.  The client keeps nothing between calls, so doing both     *)
(* adds nothing.                                                           *)
(***************************************************************************)
EXTENDS BitcoinNode, BitcoinErrors

CONSTANT Readers   \* callers

VARIABLES
  seen,      \* blocks a reader has had the hash of
  answer,    \* to a call just made: its error, or that a block is unknown
  txids,     \* what the iterator has still to fetch
  returned,  \* the transactions it has returned
  failed,    \* and those it has returned an error for
  listed,    \* the list it began with, and
  stayed     \* what has been in the mempool ever since: only the
             \* properties read these two

iteratorVars == <<txids, returned, failed, listed, stayed>>
readerVars == <<seen, answer, iteratorVars>>
readsVars == <<nodeVars, readerVars>>

BlockIds == 1 .. MaxBlocks
NoAnswer == [of |-> 0, is |-> "none"]

ReadsTypeOK ==
  /\ NodeTypeOK
  /\ seen \in [Readers -> SUBSET BlockIds]
  /\ answer \in [Readers -> [of : 0 .. (MaxBlocks + 1),
                             is : {"none", "InvalidBitcoinHeight", "unknown"}]]
  /\ txids \in [Readers -> SUBSET Transactions]
  /\ returned \in [Readers -> SUBSET Transactions]
  /\ failed \in [Readers -> SUBSET Transactions]
  /\ listed \in [Readers -> SUBSET Transactions]
  /\ stayed \in [Readers -> SUBSET Transactions]

ReadsInit ==
  /\ NodeInit
  /\ seen = [r \in Readers |-> {}]
  /\ answer = [r \in Readers |-> NoAnswer]
  /\ txids = [r \in Readers |-> {}]
  /\ returned = [r \in Readers |-> {}]
  /\ failed = [r \in Readers |-> {}]
  /\ listed = [r \in Readers |-> {}]
  /\ stayed = [r \in Readers |-> {}]

-----------------------------------------------------------------------------
Confirmed == UNION {blocks[b].txs : b \in MainChain}

Mempool == accepted \ Confirmed

\* Anybody's transactions come, and go for a better fee or for their age.
Submit ==
  /\ \E tx \in Transactions : tx \notin accepted /\ Accept(tx)
  /\ UNCHANGED <<blocks, tip, loaded>>

Evict ==
  /\ \E tx \in Mempool : accepted' = accepted \ {tx}
  /\ UNCHANGED <<blocks, tip, loaded>>

Silent == answer' = [r \in Readers |-> NoAnswer]

\* What the world does to the node, while stayed keeps its meaning.
Node ==
  /\ NewBlock \/ Submit \/ Evict
  /\ stayed' = [r \in Readers |-> stayed[r] \cap Mempool']
  /\ Silent
  /\ UNCHANGED <<seen, txids, returned, failed, listed>>

-----------------------------------------------------------------------------
Saw(r, bs) == seen' = [seen EXCEPT ![r] = @ \cup bs] /\ Silent

Answered(r, of, is) ==
  /\ answer' = [q \in Readers |-> IF q = r THEN [of |-> of, is |-> is] ELSE NoAnswer]
  /\ UNCHANGED seen

Following(r) ==
  listed[r] = {} /\ UNCHANGED <<nodeVars, iteratorVars>>

GetBestBlockHash(r) ==
  /\ Following(r)
  /\ Saw(r, {tip})

\* There is no block at the height if the daemon says RpcInvalidParameter.
GetBlockHash(r, h) ==
  /\ Following(r)
  /\ IF BlockAt(h) # {} THEN Saw(r, BlockAt(h))
                        ELSE Answered(r, h, "InvalidBitcoinHeight")

\* Wrong: a block is known if it is in the best chain.
IsBlockConfirmed(r, b) ==
  /\ Following(r)
  /\ IF b \in MainChain THEN Saw(r, {b}) ELSE Answered(r, b, "unknown")

\* A node keeps the blocks of the branches it left; for one that it never
\* had it says RpcInvalidAddressOrKey.
IsBlockKnown(r, b) ==
  /\ Following(r)
  /\ IF b \in DOMAIN blocks THEN Saw(r, {b}) ELSE Answered(r, b, "unknown")

-----------------------------------------------------------------------------
\* get_mempool_transactions lists the ids at once, and makes the iterator.
GetMempoolTransactions(r) ==
  /\ txids' = [txids EXCEPT ![r] = Mempool]
  /\ returned' = [returned EXCEPT ![r] = {}]
  /\ failed' = [failed EXCEPT ![r] = {}]
  /\ listed' = [listed EXCEPT ![r] = Mempool]
  /\ stayed' = [stayed EXCEPT ![r] = Mempool]
  /\ seen' = [seen EXCEPT ![r] = {}]
  /\ Silent
  /\ UNCHANGED nodeVars

\* Its next element is asked for by a call of its own.  What has left the
\* mempool is not found, unless it is confirmed and the node has an index of
\* transactions.
Found == [kind |-> "found", code |-> 0]

Answers(tx) ==
  (IF tx \in accepted THEN {Found} ELSE {})
    \cup (IF tx \in Mempool THEN {} ELSE {Rpc(RpcInvalidAddressOrKey)})
    \cup {Io("refused")}

\* Only what is not there any more is passed over; any other error is an
\* element of the iterator.
Fetched(r, tx, a) ==
  /\ returned' = [returned EXCEPT ![r] = IF a = Found THEN @ \cup {tx} ELSE @]
  /\ failed' = [failed EXCEPT ![r] =
                  IF a = Found \/ ErrNotInMempool(a) THEN @ ELSE @ \cup {tx}]
  /\ Silent
  /\ UNCHANGED <<nodeVars, seen, listed, stayed>>

\* Wrong: the list ends with what is not there any more.
FetchUntilMissing(r) ==
  \E tx \in txids[r] : \E a \in Answers(tx) :
    /\ Fetched(r, tx, a)
    /\ txids' = [txids EXCEPT ![r] = IF ErrNotInMempool(a) THEN {} ELSE @ \ {tx}]

FetchNext(r) ==
  \E tx \in txids[r] : \E a \in Answers(tx) :
    /\ Fetched(r, tx, a)
    /\ txids' = [txids EXCEPT ![r] = @ \ {tx}]

-----------------------------------------------------------------------------
Read(r) ==
  \/ GetBestBlockHash(r)
  \/ \E h \in 1 .. (MaxBlocks + 1) : GetBlockHash(r, h)
  \/ \E b \in BlockIds : IsBlockKnown(r, b)
  \/ GetMempoolTransactions(r)
  \/ FetchNext(r)

ReadsNext == (\E r \in Readers : Read(r)) \/ Node

ReadsSpec == ReadsInit /\ [][ReadsNext]_readsVars

-----------------------------------------------------------------------------
\* However long the iterator takes and whatever comes and goes meanwhile, it
\* returns no transaction that was not in the mempool when it was made, and
\* it has returned, still has or has failed on each that stayed there: one
\* that left is passed over without the rest (get_mempool_transactions).
ListingExact ==
  \A r \in Readers :
    /\ returned[r] \cup failed[r] \cup txids[r] \subseteq listed[r]
    /\ returned[r] \cap txids[r] = {} /\ failed[r] \cap txids[r] = {}
    /\ stayed[r] \subseteq returned[r] \cup failed[r] \cup txids[r]

\* A block a reader has had the hash of is known ever after, also when a
\* reorganisation has taken it out of the best chain: a caller that goes back
\* to it is never told that the node has not seen it (is_block_known).
SeenIsKnown ==
  \A r \in Readers : answer[r].is = "unknown" => answer[r].of \notin seen[r]
=============================================================================
