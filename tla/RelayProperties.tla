---------------------------- MODULE RelayProperties ----------------------------
(***************************************************************************)
(* What the relay keeps true of the blocks and forks it was given.         *)
(***************************************************************************)
EXTENDS Relay

\* A block and the blocks it builds on.
Back[b \in Blocks] ==
  IF parent[b] = NoBlock THEN {b} ELSE {b} \cup Back[parent[b]]

BestChain == Back[bestBlock]

LiveForks == {id \in ChainIds : forks[id].descendants # <<>>}

\* Every header counts one more than the one it names, whatever fork it
\* went to, and a height looks up a block of that height.
HeightsAreDepths ==
  /\ \A b \in Stored \ {Genesis} :
       headers[b].height = headers[parent[b]].height + 1
  /\ \A h \in Heights :
       chain[h] # NoBlock => headers[chain[h]].height = h

\* A fork is a path of blocks from its ancestor to the height it records.
BranchesArePaths ==
  \A id \in LiveForks :
    LET branch == <<forks[id].ancestor>> \o forks[id].descendants
    IN  /\ \A i \in 2 .. Len(branch) : parent[branch[i]] = branch[i - 1]
        /\ headers[Last(branch)].height = forks[id].height

\* The loop of a reorganisation ends: a fork's ancestor is on the main
\* chain, on an older fork, or on one left with nothing to visit.
ReorgLoopEnds ==
  \A id \in LiveForks :
    LET next == headers[forks[id].ancestor].chainId
    IN  next = MAIN_CHAIN_ID \/ next < id \/ next \notin LiveForks

\* However headers arrive and whatever is reorganised, what a later
\* reorganisation visits is one branch down to a block of another chain.
ForksArePaths ==
  HeightsAreDepths /\ BranchesArePaths /\ ReorgLoopEnds

\* The best block is a main-chain block of the best height, before and after
\* reorganisations.
BestIsMain ==
  headers[bestBlock] = [height |-> bestHeight, chainId |-> MAIN_CHAIN_ID]

\* Before the first reorganisation, which leaves a fork without an entry,
\* the main chain is one path from the first block to the best, and no block
\* leads it by the required confirmations: a fork that would is adopted with
\* the header that makes it long enough.
MainIsOnePath ==
  (\A id \in 1 .. chainCounter : id \in LiveForks) =>
    /\ {b \in Stored : headers[b].chainId = MAIN_CHAIN_ID} = BestChain
    /\ forks[MAIN_CHAIN_ID].height = bestHeight
    /\ \A b \in Stored : headers[b].height < bestHeight + CONFIRMATIONS

\* The main chain ends in the best block, and is its chain.
MainIsBestChain == BestIsMain /\ MainIsOnePath

\* A block leaves the best chain only for a branch that is longer by the
\* required confirmations, or, after a reorganisation, for the main chain
\* that one replaced.
BestChainReplacedStep ==
  \A b \in BestChain \ BestChain' :
    \/ bestHeight' >= bestHeight + CONFIRMATIONS
    \/ /\ headers[parent'[bestBlock']].chainId = MAIN_CHAIN_ID
       /\ \E id \in 1 .. chainCounter : id \notin LiveForks

BestChainReplaced == [][BestChainReplacedStep]_vars

------------------------------------------------------------------------------
\* What comments, tests and documents say and the code does not do.

\* A block that verifyTx accepts, with all the confirmations, is on the chain
\* of the best block.
VerifiedIsBest ==
  \A h \in Heights, b \in Blocks :
    VerifyTx(h, b, CONFIRMATIONS, FALSE) => b \in BestChain
=============================================================================
