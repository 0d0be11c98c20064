--------------------------- MODULE BitcoinReadsProofs ---------------------------
(***************************************************************************)
(* Theorems about the reads of the bitcoin client, for any readers, blocks *)
(* and transactions.                                                       *)
(***************************************************************************)
EXTENDS BitcoinReads, TLAPS

Block == [height : Nat, path : SUBSET (1 .. MaxBlocks), txs : SUBSET Transactions]

\* The node has every block that its branches go through.
TreeOK ==
  /\ accepted \subseteq Transactions
  /\ blocks \in Seq(Block)
  /\ Len(blocks) <= MaxBlocks
  /\ tip \in 1 .. Len(blocks)
  /\ \A b \in 1 .. Len(blocks) : blocks[b].path \subseteq 1 .. Len(blocks)

LEMMA InitTree == NodeInit => TreeOK
<1> SUFFICES ASSUME NodeInit PROVE TreeOK
  OBVIOUS
<1>1. blocks = <<[height |-> 1, path |-> {1}, txs |-> {}]>> /\ tip = 1
  BY DEF NodeInit
<1>2. [height |-> 1, path |-> {1}, txs |-> {}] \in Block
  BY NodeConstants DEF Block
<1>3. Len(blocks) = 1 /\ blocks[1] = [height |-> 1, path |-> {1}, txs |-> {}]
  BY <1>1
<1>4. blocks \in Seq(Block)
  BY <1>1, <1>2
<1> QED
  BY <1>1, <1>3, <1>4, NodeConstants DEF TreeOK, NodeInit

\* A new block extends a branch, and no block is lost.
LEMMA NewBlockKeepsTree ==
  ASSUME TreeOK, NewBlock
  PROVE  TreeOK' /\ 1 .. Len(blocks) \subseteq 1 .. Len(blocks')
<1> DEFINE new == Len(blocks) + 1
<1>1. PICK p \in DOMAIN blocks :
        /\ \E txs \in SUBSET (accepted \ UNION {blocks[b].txs : b \in blocks[p].path}) :
             blocks' = Append(blocks, [height |-> blocks[p].height + 1,
                                       txs |-> txs,
                                       path |-> blocks[p].path \cup {new}])
        /\ tip' = IF blocks[p].height + 1 > blocks[tip].height THEN new ELSE tip
  BY DEF NewBlock
<1>2. /\ p \in 1 .. Len(blocks) /\ Len(blocks) \in Nat /\ Len(blocks) < MaxBlocks
      /\ blocks[p] \in Block /\ blocks[p].path \subseteq 1 .. Len(blocks)
  BY DEF NewBlock, TreeOK
<1>3. PICK txs \in SUBSET Transactions :
        blocks' = Append(blocks, [height |-> blocks[p].height + 1, txs |-> txs,
                                  path |-> blocks[p].path \cup {new}])
  BY <1>1 DEF TreeOK
<1> DEFINE block == [height |-> blocks[p].height + 1, txs |-> txs,
                     path |-> blocks[p].path \cup {new}]
<1>4. block \in Block /\ block.path \subseteq 1 .. new
  BY <1>2, NodeConstants DEF Block
<1>5. /\ blocks' \in Seq(Block) /\ Len(blocks') = new
      /\ \A b \in 1 .. Len(blocks) : blocks'[b] = blocks[b]
      /\ blocks'[new] = block
  BY <1>3, <1>4 DEF TreeOK
<1> HIDE DEF block
<1>6. tip' \in 1 .. new /\ 1 .. Len(blocks) \subseteq 1 .. new
  BY <1>1, <1>2 DEF TreeOK
<1>7. ASSUME NEW b \in 1 .. new PROVE blocks'[b].path \subseteq 1 .. new
  <2>1. CASE b = new
    BY <1>4, <1>5, <2>1
  <2>2. CASE b # new
    <3>1. b \in 1 .. Len(blocks)
      BY <1>2, <2>2
    <3>2. blocks[b].path \subseteq 1 .. Len(blocks)
      BY <3>1 DEF TreeOK
    <3> QED
      BY <1>5, <1>6, <3>1, <3>2
  <2> QED
    BY <2>1, <2>2
<1>8. accepted' = accepted
  BY DEF NewBlock
<1>9. new <= MaxBlocks
  BY <1>2, NodeConstants
<1> HIDE DEF new
<1> QED
  BY <1>5, <1>6, <1>7, <1>8, <1>9 DEF TreeOK

-----------------------------------------------------------------------------
\* What a reader has heard of the chain.
ChainHeard ==
  /\ seen \in [Readers -> SUBSET (1 .. Len(blocks))]
  /\ SeenIsKnown

\* What the iterators have gone through, of what still is where it was.
Listing ==
  /\ txids \in [Readers -> SUBSET Transactions]
  /\ returned \in [Readers -> SUBSET Transactions]
  /\ failed \in [Readers -> SUBSET Transactions]
  /\ listed \in [Readers -> SUBSET Transactions]
  /\ stayed \in [Readers -> SUBSET Transactions]
  /\ \A r \in Readers : stayed[r] \subseteq Mempool
  /\ ListingExact

IInv == TreeOK /\ ChainHeard /\ Listing

LEMMA InitIInv == ReadsInit => IInv
<1> SUFFICES ASSUME ReadsInit PROVE IInv
  OBVIOUS
<1>1. TreeOK
  BY InitTree DEF ReadsInit
<1>3. ChainHeard
  BY DEF ReadsInit, ChainHeard, SeenIsKnown, NoAnswer
<1>4. Listing
  BY DEF ReadsInit, Listing, ListingExact
<1> QED
  BY <1>1, <1>3, <1>4 DEF IInv

\* Blocks, transactions and evictions only take from what stayed, and leave
\* what was read.
LEMMA NodeKeepsIInv == IInv /\ Node => IInv'
<1> SUFFICES ASSUME IInv, Node PROVE IInv'
  OBVIOUS
<1>1. /\ stayed' = [r \in Readers |-> stayed[r] \cap Mempool']
      /\ answer' = [r \in Readers |-> NoAnswer]
      /\ UNCHANGED <<seen, txids, returned, failed, listed>>
  BY DEF Node, Silent
<1>2. TreeOK' /\ 1 .. Len(blocks) \subseteq 1 .. Len(blocks')
  <2>1. CASE NewBlock
    BY <2>1, NewBlockKeepsTree DEF IInv
  <2>2. CASE Submit \/ Evict
    <3>1. blocks' = blocks /\ tip' = tip /\ accepted' \subseteq Transactions
      BY <2>2 DEF Submit, Evict, Accept, IInv, TreeOK
    <3> QED
      BY <3>1 DEF IInv, TreeOK
  <2> QED
    BY <2>1, <2>2 DEF Node
<1>3. ChainHeard'
  BY <1>1, <1>2 DEF IInv, ChainHeard, SeenIsKnown, NoAnswer
<1>4. Listing'
  BY <1>1 DEF IInv, Listing, ListingExact
<1> QED
  BY <1>2, <1>3, <1>4 DEF IInv

\* The calls that follow the chain hear of blocks the node has.
LEMMA FollowingKeepsIInv ==
  ASSUME IInv, NEW r \in Readers,
         \/ GetBestBlockHash(r)
         \/ \E h \in 1 .. (MaxBlocks + 1) : GetBlockHash(r, h)
         \/ \E b \in BlockIds : IsBlockKnown(r, b)
  PROVE  IInv'
<1>1. UNCHANGED <<nodeVars, iteratorVars>>
  BY DEF GetBestBlockHash, GetBlockHash, IsBlockKnown, Following
<1>2. TreeOK' /\ Listing'
  BY <1>1 DEF IInv, TreeOK, Listing, ListingExact, Mempool, Confirmed, MainChain,
     nodeVars, iteratorVars
<1>3. blocks' = blocks
  BY <1>1 DEF nodeVars
<1>4. /\ MainChain \subseteq 1 .. Len(blocks)
      /\ tip \in 1 .. Len(blocks)
      /\ DOMAIN blocks = 1 .. Len(blocks)
  BY DEF IInv, TreeOK, MainChain
<1>5. ASSUME NEW bs \in SUBSET (1 .. Len(blocks)), Saw(r, bs)
      PROVE  IInv'
  <2>1. /\ seen' = [seen EXCEPT ![r] = @ \cup bs]
        /\ answer' = [q \in Readers |-> NoAnswer]
    BY <1>5 DEF Saw, Silent
  <2>2. seen' \in [Readers -> SUBSET (1 .. Len(blocks))]
    BY <2>1 DEF IInv, ChainHeard
  <2>3. ChainHeard'
    BY <1>3, <2>1, <2>2 DEF ChainHeard, SeenIsKnown, NoAnswer
  <2> QED
    BY <1>2, <2>3 DEF IInv
<1>6. CASE GetBestBlockHash(r)
  BY <1>4, <1>5, <1>6 DEF GetBestBlockHash
<1>7. ASSUME NEW h \in 1 .. (MaxBlocks + 1), GetBlockHash(r, h) PROVE IInv'
  <2>1. CASE BlockAt(h) # {}
    <3>1. BlockAt(h) \in SUBSET (1 .. Len(blocks)) /\ Saw(r, BlockAt(h))
      BY <1>4, <1>7, <2>1 DEF GetBlockHash, BlockAt
    <3> QED
      BY <1>5, <3>1
  <2>2. CASE BlockAt(h) = {}
    <3>1. Answered(r, h, "InvalidBitcoinHeight")
      BY <1>7, <2>2 DEF GetBlockHash
    <3>2. ChainHeard'
      BY <1>3, <3>1 DEF Answered, IInv, ChainHeard, SeenIsKnown, NoAnswer
    <3> QED
      BY <1>2, <3>2 DEF IInv
  <2> QED
    BY <2>1, <2>2
<1>8. ASSUME NEW b \in BlockIds, IsBlockKnown(r, b) PROVE IInv'
  <2>1. CASE b \in DOMAIN blocks
    <3>1. {b} \in SUBSET (1 .. Len(blocks)) /\ Saw(r, {b})
      BY <1>4, <1>8, <2>1 DEF IsBlockKnown
    <3> QED
      BY <1>5, <3>1
  <2>2. CASE b \notin DOMAIN blocks
    <3>1. Answered(r, b, "unknown") /\ b \notin seen[r]
      BY <1>4, <1>8, <2>2 DEF IsBlockKnown, IInv, ChainHeard
    <3>2. ChainHeard'
      BY <1>3, <3>1 DEF Answered, IInv, ChainHeard, SeenIsKnown, NoAnswer
    <3> QED
      BY <1>2, <3>2 DEF IInv
  <2> QED
    BY <2>1, <2>2
<1> QED
  BY <1>6, <1>7, <1>8

\* The iterator: what it passes over has left the mempool.
LEMMA ListingKeepsIInv ==
  ASSUME IInv, NEW r \in Readers, GetMempoolTransactions(r) \/ FetchNext(r)
  PROVE  IInv'
<1>1. blocks' = blocks /\ tip' = tip /\ accepted' = accepted
  BY DEF GetMempoolTransactions, FetchNext, Fetched, nodeVars
<1>2. TreeOK'
  BY <1>1 DEF IInv, TreeOK
<1>4. answer' = [q \in Readers |-> NoAnswer]
  BY DEF GetMempoolTransactions, FetchNext, Fetched, Silent
<1>5. Mempool' = Mempool /\ Mempool \subseteq Transactions
  BY <1>1 DEF Mempool, Confirmed, MainChain, IInv, TreeOK
<1>6. CASE GetMempoolTransactions(r)
  <2>1. seen' = [seen EXCEPT ![r] = {}]
    BY <1>6 DEF GetMempoolTransactions
  <2>2. ChainHeard'
    BY <1>1, <1>4, <2>1 DEF IInv, ChainHeard,
       SeenIsKnown, NoAnswer
  <2>3. Listing'
    BY <1>5, <1>6 DEF GetMempoolTransactions, IInv, Listing, ListingExact
  <2> QED
    BY <1>2, <2>2, <2>3 DEF IInv
<1>7. CASE FetchNext(r)
  <2> PICK tx \in txids[r] : \E a \in Answers(tx) :
        /\ Fetched(r, tx, a)
        /\ txids' = [txids EXCEPT ![r] = @ \ {tx}]
    BY <1>7 DEF FetchNext
  <2>1. PICK a \in Answers(tx) :
          /\ Fetched(r, tx, a)
          /\ txids' = [txids EXCEPT ![r] = @ \ {tx}]
    OBVIOUS
  <2>2. ChainHeard'
    BY <1>1, <1>4, <2>1 DEF Fetched, IInv, ChainHeard,
       SeenIsKnown, NoAnswer
  <2>3. a # Found /\ ErrNotInMempool(a) => tx \notin stayed[r]
    <3>1. ErrNotInMempool(a) => tx \notin Mempool
      BY DEF Answers, Found, Io, ErrNotInMempool
    <3> QED
      BY <3>1 DEF IInv, Listing
  <2>4. tx \in Transactions /\ tx \in listed[r]
    BY DEF IInv, Listing, ListingExact
  <2>5. /\ returned' = [returned EXCEPT ![r] = IF a = Found THEN @ \cup {tx} ELSE @]
        /\ failed' = [failed EXCEPT ![r] =
                        IF a = Found \/ ErrNotInMempool(a) THEN @ ELSE @ \cup {tx}]
        /\ listed' = listed /\ stayed' = stayed
    BY <2>1 DEF Fetched
  <2>6. Listing'
    BY <1>5, <2>1, <2>3, <2>4, <2>5 DEF IInv, Listing, ListingExact
  <2> QED
    BY <1>2, <2>2, <2>6 DEF IInv
<1> QED
  BY <1>6, <1>7

LEMMA StepKeepsIInv == IInv /\ [ReadsNext]_readsVars => IInv'
<1> SUFFICES ASSUME IInv, [ReadsNext]_readsVars PROVE IInv'
  OBVIOUS
<1>1. CASE UNCHANGED readsVars
  BY <1>1 DEF readsVars, nodeVars, readerVars, iteratorVars, IInv, TreeOK, ChainHeard,
     SeenIsKnown, Listing, ListingExact, Mempool, Confirmed,
     MainChain
<1>2. CASE ReadsNext
  BY <1>2, NodeKeepsIInv, FollowingKeepsIInv, ListingKeepsIInv DEF ReadsNext, Read
<1> QED
  BY <1>1, <1>2

LEMMA IInvAlways == ReadsSpec => []IInv
  BY InitIInv, StepKeepsIInv, PTL DEF ReadsSpec

\* For any mempool that changes in any way: the iterator returns nothing that
\* was not listed and passes over nothing that stayed.
THEOREM IteratorComplete == ReadsSpec => []ListingExact
<1>1. IInv => ListingExact
  BY DEF IInv, Listing
<1> QED
  BY <1>1, IInvAlways, PTL

\* For any tree of blocks and any reorganisations: a block whose hash a reader
\* has had is never answered to be unknown.
THEOREM SeenStaysKnown == ReadsSpec => []SeenIsKnown
<1>1. IInv => SeenIsKnown
  BY DEF IInv, ChainHeard
<1> QED
  BY <1>1, IInvAlways, PTL
=============================================================================
