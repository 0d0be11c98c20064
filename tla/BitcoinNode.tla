------------------------------ MODULE BitcoinNode ------------------------------
(***************************************************************************)
(* The bitcoin-core node behind clients/bitcoin, as its client sees it: a  *)
(* tree of blocks with a best chain that may be reorganised, a wallet that *)
(* is unloaded when the daemon restarts, and the transactions its mempool  *)
(* has accepted (a reorganisation puts those of lost blocks back there).   *)
(* A block carries its height, its transactions and its path, which is the *)
(* set of its ancestors and itself; block 1 is the first, and blocks are   *)
(* numbered as they come.  The node is not part of the repository.         *)
(***************************************************************************)
EXTENDS Integers, Sequences

CONSTANTS
  Payers,      \* who the wallet's transactions pay for
  Coins,       \* outputs the wallet can spend
  MaxBlocks    \* bound: blocks in the tree

ASSUME NodeConstants == MaxBlocks \in Nat \ {0}

VARIABLES blocks, tip, accepted, loaded

nodeVars == <<blocks, tip, accepted, loaded>>

\* A transaction pays for one call and spends one output.
Transactions == [payer : Payers, coin : Coins]

NodeTypeOK ==
  /\ blocks \in Seq([height : Nat, path : SUBSET (1 .. MaxBlocks),
                     txs : SUBSET Transactions])
  /\ Len(blocks) \in 1 .. MaxBlocks
  /\ tip \in DOMAIN blocks
  /\ accepted \subseteq Transactions
  /\ loaded \in BOOLEAN

NodeInit ==
  /\ blocks = <<[height |-> 1, path |-> {1}, txs |-> {}]>>
  /\ tip = 1
  /\ accepted = {}
  /\ loaded = TRUE

MainChain == blocks[tip].path

\* -1 for a block that is not in the best chain.
Confirmations(b) ==
  IF b \in MainChain THEN blocks[tip].height - blocks[b].height + 1 ELSE -1

BlockAt(h) == {b \in MainChain : blocks[b].height = h}

BlockOf(tx) == {b \in MainChain : tx \in blocks[b].txs}

Unspent == Coins \ {tx.coin : tx \in accepted}

\* Accepting a transaction, or one it already has.
Accept(tx) ==
  /\ tx \in accepted \/ tx.coin \in Unspent
  /\ accepted' = accepted \cup {tx}

\* A block on any known one, with some of the transactions not yet in its
\* chain; the node follows it if it is higher than the best.
NewBlock ==
  /\ Len(blocks) < MaxBlocks
  /\ \E p \in DOMAIN blocks :
       LET new == Len(blocks) + 1
           height == blocks[p].height + 1
           confirmed == UNION {blocks[b].txs : b \in blocks[p].path}
       IN /\ \E txs \in SUBSET (accepted \ confirmed) :
               blocks' = Append(blocks, [height |-> height, txs |-> txs,
                                         path |-> blocks[p].path \cup {new}])
          /\ tip' = IF height > blocks[tip].height THEN new ELSE tip
  /\ UNCHANGED <<accepted, loaded>>

\* A restarted daemon has no wallet loaded.
Restart ==
  /\ loaded
  /\ loaded' = FALSE
  /\ UNCHANGED <<blocks, tip, accepted>>
=============================================================================
