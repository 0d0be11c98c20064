--------------------------------- MODULE Relay ---------------------------------
(***************************************************************************)
(* Relay.sol: the bitcoin block headers the relay was given, the forks it  *)
(* tracks, and the block it takes for bitcoin's best.  Hashes are numbers  *)
(* (0 is the zero hash of an empty slot); a header is its previous block,  *)
(* its difficulty target and its timestamp.  The sender of every header is *)
(* authorised and the relay is not paused: no code here sets either.       *)
(***************************************************************************)
EXTENDS Integers, Sequences, SequencesExt

CONSTANTS
  CONFIRMATIONS,                   \* 6 in the code
  DIFFICULTY_ADJUSTMENT_INTERVAL,  \* 2016 in the code
  GenesisHeight,                   \* height initialize is given
  Targets,                         \* difficulty targets of headers
  Timestamps,                      \* timestamps of headers
  MaxBlocks                        \* bound: headers ever stored

ASSUME RelayConstants ==
  /\ CONFIRMATIONS \in Nat \ {0}
  /\ DIFFICULTY_ADJUSTMENT_INTERVAL \in Nat \ {0, 1}
  /\ GenesisHeight \in Nat \ {0}
  /\ Targets \subseteq Nat \ {0} /\ Timestamps \subseteq Nat \ {0}
  /\ MaxBlocks \in Nat \ {0}

VARIABLES
  parent,        \* the previous block each header names
  headers,       \* _headers: height (0: not stored) and fork of each block
  chain,         \* _chain: a block at each height
  forks,         \* _forks
  chainCounter,  \* _chainCounter
  epoch,         \* the difficulty period's first and last target and time
  bestHeight, bestBlock

vars == <<parent, headers, chain, forks, chainCounter, epoch, bestHeight,
          bestBlock>>

MAIN_CHAIN_ID == 0
NoBlock == 0
Genesis == 1
Blocks == 1 .. MaxBlocks
Heights == GenesisHeight .. (GenesisHeight + MaxBlocks - 1)
ChainIds == 0 .. (MaxBlocks - 1)

NoHeader == [height |-> 0, chainId |-> MAIN_CHAIN_ID]
NoFork == [height |-> 0, ancestor |-> NoBlock, descendants |-> <<>>]

Stored == {b \in Blocks : headers[b].height > 0}

TypeOK ==
  /\ parent \in [Blocks -> Blocks \cup {NoBlock}]
  /\ headers \in [Blocks \cup {NoBlock} ->
                    [height : Heights \cup {0}, chainId : ChainIds]]
  /\ chain \in [Heights -> Blocks \cup {NoBlock}]
  /\ forks \in [ChainIds -> [height : Heights \cup {0},
                             ancestor : Blocks \cup {NoBlock},
                             descendants : Seq(Blocks)]]
  /\ chainCounter \in ChainIds
  /\ epoch \in [startTarget : Targets, endTarget : Targets \cup {0},
                startTime : Timestamps, endTime : Timestamps \cup {0}]
  /\ bestHeight \in Heights
  /\ bestBlock \in Blocks

\* __Relay__initialize, with some block's header.
Init ==
  /\ parent = [b \in Blocks |-> NoBlock]
  /\ headers = [b \in Blocks \cup {NoBlock} |->
                  IF b = Genesis THEN [NoHeader EXCEPT !.height = GenesisHeight]
                                 ELSE NoHeader]
  /\ chain = [h \in Heights |-> IF h = GenesisHeight THEN Genesis ELSE NoBlock]
  /\ forks = [id \in ChainIds |->
                IF id = MAIN_CHAIN_ID
                  THEN [NoFork EXCEPT !.height = GenesisHeight] ELSE NoFork]
  /\ chainCounter = 0
  /\ \E target \in Targets, time \in Timestamps :
       epoch = [startTarget |-> target, startTime |-> time,
                endTarget |-> target, endTime |-> time]
  /\ bestHeight = GenesisHeight
  /\ bestBlock = Genesis

------------------------------------------------------------------------------
\* Difficulty periods

IsPeriodStart(height) == height % DIFFICULTY_ADJUSTMENT_INTERVAL = 0

IsPeriodEnd(height) ==
  height % DIFFICULTY_ADJUSTMENT_INTERVAL = DIFFICULTY_ADJUSTMENT_INTERVAL - 1

\* isCorrectDifficultyTarget.  It reverts when the period is incomplete
\* (calculateDifficulty divides by the target), when its two targets differ,
\* and when the period ends before it starts.  The comparison of the next
\* target with the result of retargetAlgorithm is commented out.
IsCorrectDifficultyTarget(nextTarget) ==
  /\ epoch.endTarget # 0
  /\ epoch.startTarget = epoch.endTarget
  /\ epoch.endTime >= epoch.startTime

NextEpoch(height, target, time) ==
  \/ /\ IsPeriodStart(height)
     /\ IsCorrectDifficultyTarget(target)
     /\ epoch' = [startTarget |-> target, startTime |-> time,
                  endTarget |-> 0, endTime |-> 0]
  \/ /\ IsPeriodEnd(height)
     /\ epoch' = [epoch EXCEPT !.endTarget = target, !.endTime = time]
  \/ /\ ~IsPeriodStart(height)
     /\ ~IsPeriodEnd(height)
     /\ UNCHANGED epoch

------------------------------------------------------------------------------
\* Storing a header

\* _storeBlockHeader writes _chain for a header of any fork.
StoreBlockHeader(block, height, id) ==
  /\ headers' = [headers EXCEPT ![block] = [height |-> height, chainId |-> id]]
  /\ chain' = [chain EXCEPT ![height] = block]

IncrementChainCounter == chainCounter' = chainCounter + 1

InitializeFork(block, prev, height) ==
  /\ IncrementChainCounter
  /\ forks' = [forks EXCEPT ![chainCounter'] =
                 [height |-> height, ancestor |-> prev,
                  descendants |-> <<block>>]]
  /\ StoreBlockHeader(block, height, chainCounter')
  /\ UNCHANGED <<bestHeight, bestBlock>>

\* Wrong: the height of the main chain is not updated.
ExtendMainOnly(block, height) ==
  /\ StoreBlockHeader(block, height, MAIN_CHAIN_ID)
  /\ bestBlock' = block
  /\ bestHeight' = height
  /\ UNCHANGED <<chainCounter, forks>>

ExtendMain(block, height) ==
  /\ StoreBlockHeader(block, height, MAIN_CHAIN_ID)
  /\ forks' = [forks EXCEPT ![MAIN_CHAIN_ID].height = height]
  /\ bestBlock' = block
  /\ bestHeight' = height
  /\ UNCHANGED chainCounter

\* Wrong: the height of the fork is not updated.
ExtendForkOnly(block, height, id) ==
  /\ StoreBlockHeader(block, height, id)
  /\ forks' = [forks EXCEPT ![id].descendants = Append(@, block)]
  /\ UNCHANGED <<chainCounter, bestHeight, bestBlock>>

ExtendFork(block, height, id) ==
  /\ StoreBlockHeader(block, height, id)
  /\ forks' = [forks EXCEPT ![id].height = height,
                            ![id].descendants = Append(@, block)]
  /\ UNCHANGED <<chainCounter, bestHeight, bestBlock>>

\* The blocks a reorganisation to fork id visits, in its order: newest first,
\* fork after fork, until an ancestor is on the main chain.
Visited ==
  LET visit[id \in ChainIds] ==
        IF id = MAIN_CHAIN_ID THEN <<>>
        ELSE Reverse(forks[id].descendants)
               \o visit[headers[forks[id].ancestor].chainId]
  IN  visit

\* The loop of _reorgChain, which visits the blocks of the new branch below
\* its tip `block`.  It swaps _chain[height] at the height of the tip every
\* time, so each block is promoted to the main chain and then demoted to the
\* new fork when the next one is; only the last one visited stays promoted.
ReorgHeaders(block, height, visited) ==
  [b \in DOMAIN headers |->
     IF b = block THEN [height |-> height, chainId |-> MAIN_CHAIN_ID]
     ELSE IF b = Last(visited) THEN [headers[b] EXCEPT !.chainId = MAIN_CHAIN_ID]
     ELSE IF b \in ToSet(visited) THEN [headers[b] EXCEPT !.chainId = chainCounter']
     ELSE headers[b]]

\* _reorgChain, after _storeBlockHeader.  The new fork, which holds blocks of
\* the branch and none of the old main chain's, gets no entry in _forks.
ReorgChain(block, height, id) ==
  /\ IncrementChainCounter
  /\ headers' = ReorgHeaders(block, height, Visited[id])
  /\ chain' = [chain EXCEPT ![height] = block]
  /\ forks' = [forks EXCEPT ![id] = NoFork]
  /\ bestBlock' = block
  /\ bestHeight' = height

\* Wrong: one block more is enough.
LeadsBestByOne(height) == height > bestHeight

LeadsBest(height) == height >= bestHeight + CONFIRMATIONS

\* _submitBlockHeader, past the checks of the header's size and work.
SubmitBlockHeader(block, prev, target, time) ==
  LET height == headers[prev].height + 1
      id == headers[prev].chainId
      isNewFork == forks[id].height # headers[prev].height
  IN  /\ headers[block].height = 0
      /\ headers[prev].height > 0
      /\ parent' = [parent EXCEPT ![block] = prev]
      /\ NextEpoch(height, target, time)
      /\ \/ /\ isNewFork
            /\ InitializeFork(block, prev, height)
         \/ /\ ~isNewFork
            /\ id = MAIN_CHAIN_ID
            /\ ExtendMain(block, height)
         \/ /\ ~isNewFork
            /\ id # MAIN_CHAIN_ID
            /\ LeadsBest(height)
            /\ ReorgChain(block, height, id)
         \/ /\ ~isNewFork
            /\ id # MAIN_CHAIN_ID
            /\ ~LeadsBest(height)
            /\ ExtendFork(block, height, id)

\* Blocks are numbered in the order they are stored.
Next ==
  \E block \in Blocks, prev \in Blocks,
     target \in Targets, time \in Timestamps :
    /\ \A b \in 1 .. (block - 1) : b \in Stored
    /\ SubmitBlockHeader(block, prev, target, time)

Spec == Init /\ [][Next]_vars

\* verifyTx accepts a transaction of this block at this height.  The bridge
\* asks for one confirmation, as an insecure check.
VerifyTx(height, block, confirmations, insecure) ==
  /\ height + (IF insecure THEN confirmations ELSE CONFIRMATIONS) <= bestHeight
  /\ chain[height] = block
=============================================================================
