------------------------------ MODULE RelayProofs ------------------------------
(***************************************************************************)
(* Theorems about Relay: whatever headers arrive in whatever order, what   *)
(* is stored stays a forest, each fork stays one branch of it, and the     *)
(* best block stays on the main chain, through every reorganisation.       *)
(***************************************************************************)
EXTENDS RelayProperties, WellFoundedInduction, TLAPS

AllBlocks == Blocks \cup {NoBlock}

\* Blocks are stored in the order of their numbers, on blocks stored before.
StoredInOrder ==
  /\ Genesis \in Stored
  /\ \A b \in Stored : 1 .. b \subseteq Stored
  /\ \A b \in Stored : headers[b].height <= GenesisHeight + b - 1
  /\ \A b \in Stored \ {Genesis} : parent[b] \in Stored

\* Each fork counted has a block of its own, and none beyond is in use.
CountedForks ==
  /\ \A b \in Blocks \ Stored : chainCounter + 2 <= b
  /\ \A b \in AllBlocks : headers[b].chainId <= chainCounter
  /\ forks[MAIN_CHAIN_ID].descendants = <<>>
  /\ \A id \in ChainIds : id > chainCounter => forks[id].descendants = <<>>
  /\ \A id \in ChainIds \ {MAIN_CHAIN_ID} :
       forks[id].descendants = <<>> => forks[id].height = 0

\* A fork that can be visited is its ancestor and, one above the other, its
\* blocks up to the height it records.
Branch(id) ==
  LET anc == forks[id].ancestor
      desc == forks[id].descendants
  IN  /\ anc \in Stored
      /\ \A i \in 1 .. Len(desc) :
           /\ desc[i] \in Stored
           /\ headers[desc[i]].height = headers[anc].height + i
           /\ parent[desc[i]] = IF i = 1 THEN anc ELSE desc[i - 1]
      /\ forks[id].height = headers[anc].height + Len(desc)

\* A block that says it is of such a fork is one of its blocks.
Members ==
  \A b \in Stored :
    headers[b].chainId \in LiveForks =>
      \E i \in 1 .. Len(forks[headers[b].chainId].descendants) :
        b = forks[headers[b].chainId].descendants[i]

IInv ==
  /\ TypeOK
  /\ StoredInOrder
  /\ HeightsAreDepths
  /\ CountedForks
  /\ \A id \in LiveForks : Branch(id)
  /\ Members
  /\ ReorgLoopEnds
  /\ BestIsMain

USE DEF MAIN_CHAIN_ID, NoBlock, Genesis

-----------------------------------------------------------------------------
\* The first block

LEMMA InitIInv == Init => IInv
<1> SUFFICES ASSUME Init PROVE IInv
  OBVIOUS
<1>1. /\ Genesis \in Blocks /\ GenesisHeight \in Heights /\ 0 \in ChainIds
      /\ GenesisHeight > 0
  BY RelayConstants DEF Blocks, Heights, ChainIds
<1>2. \A b \in AllBlocks :
        /\ headers[b].height = (IF b = Genesis THEN GenesisHeight ELSE 0)
        /\ headers[b].chainId = 0
  BY DEF Init, NoHeader, AllBlocks
<1>3. Stored = {Genesis}
  <2>1. \A b \in Blocks : headers[b].height > 0 <=> b = Genesis
    BY <1>1, <1>2 DEF AllBlocks
  <2> QED
    BY <1>1, <2>1 DEF Stored
<1>4. \A id \in ChainIds :
        /\ forks[id].descendants = <<>>
        /\ id # MAIN_CHAIN_ID => forks[id].height = 0
  BY DEF Init, NoFork
<1>5. LiveForks = {}
  BY <1>4 DEF LiveForks
<1>6. TypeOK
  <2>1. /\ parent \in [Blocks -> Blocks \cup {NoBlock}]
        /\ chain \in [Heights -> Blocks \cup {NoBlock}]
        /\ bestHeight \in Heights /\ bestBlock \in Blocks /\ chainCounter \in ChainIds
    BY <1>1 DEF Init
  <2>2. headers \in [AllBlocks -> [height : Heights \cup {0}, chainId : ChainIds]]
    BY <1>1 DEF Init, NoHeader, AllBlocks
  <2>3. <<>> \in Seq(Blocks)
    OBVIOUS
  <2>4. forks \in [ChainIds -> [height : Heights \cup {0},
                             ancestor : Blocks \cup {NoBlock},
                             descendants : Seq(Blocks)]]
    BY <1>1, <2>3 DEF Init, NoFork
  <2>5. epoch \in [startTarget : Targets, endTarget : Targets \cup {0},
                  startTime : Timestamps, endTime : Timestamps \cup {0}]
    BY DEF Init
  <2> QED
    BY <2>1, <2>2, <2>4, <2>5 DEF TypeOK, AllBlocks
<1>7. StoredInOrder
  <2>1. 1 .. Genesis = {Genesis}
    OBVIOUS
  <2>2. headers[Genesis].height = GenesisHeight
    BY <1>1, <1>2 DEF AllBlocks
  <2>3. headers[Genesis].height <= GenesisHeight + Genesis - 1
    BY <2>2, RelayConstants
  <2> QED
    BY <1>3, <2>1, <2>3 DEF StoredInOrder
<1>8. HeightsAreDepths
  BY <1>1, <1>2, <1>3 DEF Init, HeightsAreDepths, AllBlocks, Heights
<1>9. CountedForks
  <2>1. chainCounter = 0
    BY DEF Init
  <2>2. \A b \in Blocks \ Stored : chainCounter + 2 <= b
    BY <1>3, <2>1, RelayConstants DEF Blocks
  <2>3. \A b \in AllBlocks : headers[b].chainId <= chainCounter
    BY <1>2, <2>1
  <2> QED
    BY <1>1, <1>4, <2>2, <2>3 DEF CountedForks
<1>10. BestIsMain
  BY <1>1 DEF Init, BestIsMain, NoHeader
<1> QED
  BY <1>2, <1>3, <1>5, <1>6, <1>7, <1>8, <1>9, <1>10
  DEF IInv, Members, ReorgLoopEnds, AllBlocks

-----------------------------------------------------------------------------
\* What each outcome of a header does to the headers and the heights

\* What is stored of a header, whichever fork it goes to.
Submitted(block, prev) ==
  LET height == headers[prev].height + 1
  IN  /\ block \in Blocks \ Stored /\ prev \in Stored /\ prev < block
      /\ height \in Heights
      /\ parent' = [parent EXCEPT ![block] = prev]
      /\ chain' = [chain EXCEPT ![height] = block]
      /\ headers' \in [AllBlocks -> [height : Heights \cup {0}, chainId : ChainIds]]
      /\ headers'[block].height = height
      /\ \A b \in AllBlocks \ {block} : headers'[b].height = headers[b].height
      /\ chainCounter' \in {chainCounter, chainCounter + 1}
      /\ chainCounter' \in ChainIds

\* The four outcomes.
NewFork(block, prev) ==
  /\ forks[headers[prev].chainId].height # headers[prev].height
  /\ InitializeFork(block, prev, headers[prev].height + 1)
OnMain(block, prev) ==
  /\ headers[prev].chainId = MAIN_CHAIN_ID
  /\ forks[MAIN_CHAIN_ID].height = headers[prev].height
  /\ ExtendMain(block, headers[prev].height + 1)
OnFork(block, prev) ==
  /\ headers[prev].chainId # MAIN_CHAIN_ID
  /\ forks[headers[prev].chainId].height = headers[prev].height
  /\ ~LeadsBest(headers[prev].height + 1)
  /\ ExtendFork(block, headers[prev].height + 1, headers[prev].chainId)
Reorganised(block, prev) ==
  /\ headers[prev].chainId # MAIN_CHAIN_ID
  /\ LeadsBest(headers[prev].height + 1)
  /\ ReorgChain(block, headers[prev].height + 1, headers[prev].chainId)

Outcomes(block, prev) ==
  \/ NewFork(block, prev)
  \/ OnMain(block, prev)
  \/ OnFork(block, prev)
  \/ Reorganised(block, prev)

LEMMA SubmitOutcomes ==
  ASSUME NEW block \in Blocks, NEW prev \in Blocks,
         NEW target \in Targets, NEW time \in Timestamps,
         SubmitBlockHeader(block, prev, target, time)
  PROVE  Outcomes(block, prev)
  BY DEF SubmitBlockHeader, Outcomes, NewFork, OnMain, OnFork, Reorganised

LEMMA SubmitStores ==
  ASSUME IInv, NEW block \in Blocks, NEW prev \in Blocks,
         NEW target \in Targets, NEW time \in Timestamps,
         \A b \in 1 .. (block - 1) : b \in Stored,
         SubmitBlockHeader(block, prev, target, time)
  PROVE  Submitted(block, prev)
<1> DEFINE height == headers[prev].height + 1
           id == headers[prev].chainId
<1>1. /\ headers \in [AllBlocks -> [height : Heights \cup {0}, chainId : ChainIds]]
      /\ chainCounter \in ChainIds /\ chainCounter \in Nat
  BY DEF IInv, TypeOK, AllBlocks, ChainIds
<1>2. block \in Blocks \ Stored /\ prev \in Stored
  BY DEF SubmitBlockHeader, Stored
<1>3. block \in Nat /\ prev \in Nat /\ block >= 1 /\ prev >= 1
      /\ block <= MaxBlocks /\ MaxBlocks \in Nat
  BY RelayConstants DEF Blocks
<1>4. prev < block
  <2>1. block \notin 1 .. prev
    BY <1>2 DEF IInv, StoredInOrder
  <2> QED
    BY <1>3, <2>1
<1>5. height \in Heights
  <2>1. headers[prev].height <= GenesisHeight + prev - 1
    BY <1>2 DEF IInv, StoredInOrder
  <2>2. headers[prev].height \in Heights /\ GenesisHeight \in Nat
    BY <1>1, <1>2, RelayConstants DEF Stored, AllBlocks
  <2> QED
    BY <1>3, <1>4, <2>1, <2>2 DEF Heights
<1>6. chainCounter + 1 \in ChainIds
  <2>1. chainCounter + 2 <= block
    BY <1>2 DEF IInv, CountedForks
  <2> QED
    BY <1>1, <1>3, <2>1 DEF ChainIds
<1>7. parent' = [parent EXCEPT ![block] = prev]
  BY DEF SubmitBlockHeader
<1>8. block \in AllBlocks /\ id \in ChainIds /\ 0 \in ChainIds
  BY <1>1, RelayConstants DEF AllBlocks, ChainIds, Blocks
<1> HIDE DEF height
<1>9. ASSUME NEW i \in ChainIds, StoreBlockHeader(block, height, i)
      PROVE  /\ chain' = [chain EXCEPT ![height] = block]
             /\ headers' \in [AllBlocks -> [height : Heights \cup {0}, chainId : ChainIds]]
             /\ headers'[block].height = height
             /\ \A b \in AllBlocks \ {block} : headers'[b] = headers[b]
  BY <1>1, <1>5, <1>8, <1>9 DEF StoreBlockHeader
<1> DEFINE Goal ==
      /\ chain' = [chain EXCEPT ![height] = block]
      /\ headers' \in [AllBlocks -> [height : Heights \cup {0}, chainId : ChainIds]]
      /\ headers'[block].height = height
      /\ \A b \in AllBlocks \ {block} : headers'[b].height = headers[b].height
      /\ chainCounter' \in {chainCounter, chainCounter + 1}
      /\ chainCounter' \in ChainIds
<1>10. ASSUME NewFork(block, prev) PROVE Goal
  <2>1. StoreBlockHeader(block, height, chainCounter') /\ chainCounter' = chainCounter + 1
    BY <1>10 DEF NewFork, InitializeFork, IncrementChainCounter, height
  <2> QED
    BY <1>6, <1>9, <2>1
<1>11. ASSUME OnMain(block, prev) PROVE Goal
  <2>1. StoreBlockHeader(block, height, 0) /\ chainCounter' = chainCounter
    BY <1>11 DEF OnMain, ExtendMain, height
  <2> QED
    BY <1>1, <1>8, <1>9, <2>1
<1>12. ASSUME OnFork(block, prev) PROVE Goal
  <2>1. StoreBlockHeader(block, height, id) /\ chainCounter' = chainCounter
    BY <1>12 DEF OnFork, ExtendFork, height
  <2> QED
    BY <1>1, <1>8, <1>9, <2>1
<1>13. ASSUME Reorganised(block, prev) PROVE Goal
  <2>1. /\ chain' = [chain EXCEPT ![height] = block]
        /\ chainCounter' = chainCounter + 1
        /\ headers' = ReorgHeaders(block, height, Visited[id])
    BY <1>13 DEF Reorganised, ReorgChain, IncrementChainCounter, height
  <2>2. \A b \in AllBlocks :
          \/ headers'[b] = [height |-> height, chainId |-> 0]
          \/ headers'[b] = [headers[b] EXCEPT !.chainId = 0]
          \/ headers'[b] = [headers[b] EXCEPT !.chainId = chainCounter']
          \/ headers'[b] = headers[b]
    BY <1>1, <2>1 DEF ReorgHeaders
  <2>3. /\ DOMAIN headers' = AllBlocks
        /\ headers' = [b \in AllBlocks |-> headers'[b]]
    BY <1>1, <2>1 DEF ReorgHeaders
  <2>4. \A b \in AllBlocks :
          headers'[b] \in [height : Heights \cup {0}, chainId : ChainIds]
    <3>1. TAKE b \in AllBlocks
    <3>2. /\ headers[b] \in [height : Heights \cup {0}, chainId : ChainIds]
          /\ chainCounter' \in ChainIds
      BY <1>1, <1>6, <2>1
    <3>3. CASE headers'[b] = [height |-> height, chainId |-> 0]
      BY <1>5, <1>8, <3>3
    <3>4. CASE headers'[b] = [headers[b] EXCEPT !.chainId = 0]
      BY <1>8, <3>2, <3>4
    <3>5. CASE headers'[b] = [headers[b] EXCEPT !.chainId = chainCounter']
      BY <3>2, <3>5
    <3> QED
      BY <2>2, <3>2, <3>3, <3>4, <3>5
  <2>5. headers'[block].height = height
    BY <1>1, <1>8, <2>1 DEF ReorgHeaders
  <2>6. \A b \in AllBlocks \ {block} : headers'[b].height = headers[b].height
    BY <1>1, <2>1 DEF ReorgHeaders
  <2> QED
    BY <1>6, <2>1, <2>3, <2>4, <2>5, <2>6
<1>14. Goal
  BY <1>10, <1>11, <1>12, <1>13, SubmitOutcomes DEF Outcomes
<1> QED
  BY <1>2, <1>4, <1>5, <1>7, <1>14 DEF Submitted, height

-----------------------------------------------------------------------------
\* What a header changes whichever fork it goes to

LEMMA StoredGrows ==
  ASSUME IInv, NEW block, NEW prev, Submitted(block, prev)
  PROVE  Stored' = Stored \cup {block}
<1>1. GenesisHeight \in Nat \ {0}
  BY RelayConstants
<1>2. headers'[block].height > 0
  BY <1>1 DEF Submitted, Heights
<1>3. \A b \in Blocks : headers'[b].height > 0 <=> headers[b].height > 0 \/ b = block
  BY <1>2 DEF Submitted, AllBlocks
<1> QED
  BY <1>3 DEF Stored, Submitted

LEMMA SubmitOrder ==
  ASSUME IInv, NEW block, NEW prev, Submitted(block, prev),
         \A b \in 1 .. (block - 1) : b \in Stored
  PROVE  StoredInOrder'
<1>1. Stored' = Stored \cup {block}
  BY StoredGrows
<1>2. block \in Nat /\ prev \in Nat /\ block >= 1 /\ prev >= 1 /\ GenesisHeight \in Nat
  BY RelayConstants DEF Submitted, Blocks, Stored
<1>3. \A b \in Stored' : 1 .. b \subseteq Stored'
  <2>1. 1 .. block \subseteq Stored \cup {block}
    BY <1>2
  <2> QED
    BY <1>1, <2>1 DEF IInv, StoredInOrder
<1>4. \A b \in Stored' : headers'[b].height <= GenesisHeight + b - 1
  <2>1. \A b \in Stored : b # block /\ b \in AllBlocks
    BY DEF Submitted, Stored, AllBlocks
  <2>2. \A b \in Stored : headers'[b].height <= GenesisHeight + b - 1
    BY <2>1 DEF IInv, StoredInOrder, Submitted
  <2>3. /\ headers[prev].height <= GenesisHeight + prev - 1
        /\ headers[prev].height \in Int
        /\ headers'[block].height = headers[prev].height + 1
        /\ prev < block
    BY DEF IInv, StoredInOrder, Submitted, TypeOK, Heights, Stored
  <2>4. headers'[block].height <= GenesisHeight + block - 1
    BY <1>2, <2>3
  <2> QED
    BY <1>1, <2>2, <2>4
<1>5. \A b \in Stored' \ {Genesis} : parent'[b] \in Stored'
  <2>1. parent \in [Blocks -> AllBlocks] /\ Stored \subseteq Blocks
    BY DEF IInv, TypeOK, AllBlocks, Stored
  <2>2. parent'[block] = prev /\ \A b \in Stored : parent'[b] = parent[b]
    BY <2>1 DEF Submitted
  <2> QED
    BY <1>1, <2>2 DEF IInv, StoredInOrder, Submitted
<1> QED
  BY <1>1, <1>3, <1>4, <1>5 DEF IInv, StoredInOrder

LEMMA SubmitHeights ==
  ASSUME IInv, NEW block, NEW prev, Submitted(block, prev)
  PROVE  HeightsAreDepths'
<1>1. Stored' = Stored \cup {block}
  BY StoredGrows
<1>2. /\ parent \in [Blocks -> AllBlocks] /\ Stored \subseteq Blocks
      /\ chain \in [Heights -> AllBlocks] /\ Blocks \subseteq AllBlocks
  BY DEF IInv, TypeOK, AllBlocks, Stored
<1>3. \A b \in Stored : headers'[b].height = headers[b].height
  BY <1>2 DEF Submitted
<1>4. \A b \in Stored' \ {Genesis} :
        headers'[b].height = headers'[parent'[b]].height + 1
  <2>1. parent'[block] = prev /\ \A b \in Stored : parent'[b] = parent[b]
    BY <1>2 DEF Submitted
  <2>2. \A b \in Stored \ {Genesis} :
          parent[b] \in Stored /\ headers[b].height = headers[parent[b]].height + 1
    BY DEF IInv, StoredInOrder, HeightsAreDepths
  <2>3. headers'[block].height = headers[prev].height + 1 /\ prev \in Stored
    BY DEF Submitted
  <2> QED
    BY <1>1, <1>3, <2>1, <2>2, <2>3
<1>5. ASSUME NEW h \in Heights, chain'[h] # NoBlock
      PROVE  headers'[chain'[h]].height = h
  <2>1. CASE chain'[h] = block /\ h = headers[prev].height + 1
    BY <2>1 DEF Submitted
  <2>2. CASE chain'[h] = chain[h]
    <3>1. chain[h] \in Blocks /\ headers[chain[h]].height = h
      BY <1>2, <1>5, <2>2 DEF IInv, HeightsAreDepths, AllBlocks
    <3>2. chain[h] \in Stored
      BY <3>1, RelayConstants DEF Stored, Heights
    <3> QED
      BY <1>3, <2>2, <3>1, <3>2
  <2> QED
    BY <1>2, <1>5, <2>1, <2>2 DEF Submitted
<1> QED
  BY <1>4, <1>5 DEF HeightsAreDepths

LEMMA SubmitTypes ==
  ASSUME IInv, NEW block \in Blocks, NEW prev \in Blocks,
         NEW target \in Targets, NEW time \in Timestamps,
         Submitted(block, prev), SubmitBlockHeader(block, prev, target, time)
  PROVE  TypeOK'
<1> DEFINE height == headers[prev].height + 1
           id == headers[prev].chainId
           ForkType == [height : Heights \cup {0}, ancestor : AllBlocks,
                        descendants : Seq(Blocks)]
<1>1. /\ headers \in [AllBlocks -> [height : Heights \cup {0}, chainId : ChainIds]]
      /\ forks \in [ChainIds -> ForkType] /\ Blocks \subseteq AllBlocks
      /\ epoch \in [startTarget : Targets, endTarget : Targets \cup {0},
                    startTime : Timestamps, endTime : Timestamps \cup {0}]
  BY DEF IInv, TypeOK, AllBlocks
<1>2. /\ height \in Heights /\ id \in ChainIds /\ chainCounter' \in ChainIds
  BY <1>1 DEF Submitted
<1>3. parent' \in [Blocks -> Blocks \cup {NoBlock}]
  BY DEF IInv, TypeOK, Submitted
<1>4. chain' \in [Heights -> Blocks \cup {NoBlock}]
  BY DEF IInv, TypeOK, Submitted
<1>5. epoch' \in [startTarget : Targets, endTarget : Targets \cup {0},
                 startTime : Timestamps, endTime : Timestamps \cup {0}]
  <2>1. NextEpoch(height, target, time)
    BY DEF SubmitBlockHeader
  <2> HIDE DEF height
  <2>2. CASE epoch' = [startTarget |-> target, startTime |-> time,
                       endTarget |-> 0, endTime |-> 0]
    BY <2>2
  <2>3. CASE epoch' = [epoch EXCEPT !.endTarget = target, !.endTime = time]
    BY <1>1, <2>3
  <2>4. CASE UNCHANGED epoch
    BY <1>1, <2>4
  <2> QED
    BY <2>1, <2>2, <2>3, <2>4 DEF NextEpoch
<1> DEFINE Goal == /\ forks' \in [ChainIds -> ForkType]
                   /\ bestHeight' \in Heights /\ bestBlock' \in Blocks
<1>6. bestHeight \in Heights /\ bestBlock \in Blocks
  BY DEF IInv, TypeOK
<1> HIDE DEF height, id
<1>7. ASSUME NewFork(block, prev) PROVE Goal
  <2>1. /\ forks' = [forks EXCEPT ![chainCounter'] =
                      [height |-> height, ancestor |-> prev, descendants |-> <<block>>]]
        /\ UNCHANGED <<bestHeight, bestBlock>>
    BY <1>7 DEF NewFork, InitializeFork, height
  <2>2. [height |-> height, ancestor |-> prev, descendants |-> <<block>>] \in ForkType
    BY <1>1, <1>2
  <2> QED
    BY <1>1, <1>2, <1>6, <2>1, <2>2
<1>8. ASSUME OnMain(block, prev) PROVE Goal
  <2>1. /\ forks' = [forks EXCEPT ![0].height = height]
        /\ bestHeight' = height /\ bestBlock' = block
    BY <1>8 DEF OnMain, ExtendMain, height
  <2> QED
    BY <1>1, <1>2, <2>1
<1>9. ASSUME OnFork(block, prev) PROVE Goal
  <2>1. /\ forks' = [forks EXCEPT ![id].height = height,
                                 ![id].descendants = Append(@, block)]
        /\ UNCHANGED <<bestHeight, bestBlock>>
    BY <1>9 DEF OnFork, ExtendFork, height, id
  <2>2. Append(forks[id].descendants, block) \in Seq(Blocks)
    BY <1>1, <1>2
  <2> QED
    BY <1>1, <1>2, <1>6, <2>1, <2>2
<1>10. ASSUME Reorganised(block, prev) PROVE Goal
  <2>1. /\ forks' = [forks EXCEPT ![id] = NoFork]
        /\ bestHeight' = height /\ bestBlock' = block
    BY <1>10 DEF Reorganised, ReorgChain, height, id
  <2>2. NoFork \in ForkType
    BY DEF NoFork, AllBlocks
  <2> QED
    BY <1>1, <1>2, <2>1, <2>2
<1>11. Goal
  BY <1>7, <1>8, <1>9, <1>10, SubmitOutcomes DEF Outcomes
<1> QED
  BY <1>3, <1>4, <1>5, <1>11 DEF TypeOK, AllBlocks, Submitted

LEMMA SubmitBest ==
  ASSUME IInv, NEW block \in Blocks, NEW prev \in Blocks,
         Submitted(block, prev), Outcomes(block, prev)
  PROVE  BestIsMain'
<1>1. /\ headers \in [AllBlocks -> [height : Heights \cup {0}, chainId : ChainIds]]
      /\ Blocks \subseteq AllBlocks /\ bestBlock \in Blocks /\ bestHeight \in Heights
  BY DEF IInv, TypeOK, AllBlocks
<1>2. bestBlock # block
  <2>1. bestBlock \in Stored
    BY <1>1, RelayConstants DEF IInv, BestIsMain, Stored, Heights
  <2> QED
    BY <2>1 DEF Submitted
<1>0. ASSUME NEW id, StoreBlockHeader(block, headers[prev].height + 1, id),
             UNCHANGED <<bestHeight, bestBlock>>
      PROVE  BestIsMain'
  <2>1. headers'[bestBlock] = headers[bestBlock]
    BY <1>0, <1>1, <1>2 DEF StoreBlockHeader
  <2> QED
    BY <1>0, <2>1 DEF IInv, BestIsMain
<1>3. CASE NewFork(block, prev)
  BY <1>0, <1>3 DEF NewFork, InitializeFork
<1>4. CASE OnMain(block, prev)
  BY <1>1, <1>4 DEF OnMain, ExtendMain, StoreBlockHeader, BestIsMain
<1>5. CASE OnFork(block, prev)
  BY <1>0, <1>5 DEF OnFork, ExtendFork
<1>6. CASE Reorganised(block, prev)
  <2>1. headers'[block] = [height |-> headers[prev].height + 1, chainId |-> 0]
    BY <1>1, <1>6 DEF Reorganised, ReorgChain, ReorgHeaders
  <2> QED
    BY <1>6, <2>1 DEF Reorganised, ReorgChain, BestIsMain
<1> QED
  BY <1>3, <1>4, <1>5, <1>6 DEF Outcomes

-----------------------------------------------------------------------------
\* Forks

ForksInv ==
  /\ CountedForks
  /\ \A id \in LiveForks : Branch(id)
  /\ Members
  /\ ReorgLoopEnds

LEMMA RelayTypes ==
  ASSUME IInv
  PROVE  /\ headers \in [AllBlocks -> [height : Heights \cup {0}, chainId : ChainIds]]
         /\ forks \in [ChainIds -> [height : Heights \cup {0}, ancestor : AllBlocks,
                                    descendants : Seq(Blocks)]]
         /\ Stored \subseteq Blocks /\ Blocks \subseteq AllBlocks
         /\ parent \in [Blocks -> AllBlocks]
         /\ ChainIds \subseteq Nat /\ LiveForks \subseteq ChainIds \ {0}
         /\ chainCounter \in Nat /\ 0 \in ChainIds
  BY RelayConstants DEF IInv, TypeOK, CountedForks, AllBlocks, Stored, ChainIds, LiveForks

LEMMA NatHeights ==
  ASSUME IInv, NEW b \in Stored
  PROVE  headers[b].height \in Nat
<1>1. headers[b].height \in Heights \cup {0}
  BY RelayTypes
<1>2. Heights \cup {0} \subseteq Nat
  BY RelayConstants DEF Heights
<1> QED
  BY <1>1, <1>2

\* A new block changes nothing of a stored one but its fork, and that only
\* in a reorganisation.
LEMMA StoredStay ==
  ASSUME IInv, NEW block, NEW prev, Submitted(block, prev), NEW b \in Stored
  PROVE  /\ b \in Stored' /\ b # block
         /\ headers'[b].height = headers[b].height
         /\ parent'[b] = parent[b]
  BY StoredGrows, RelayTypes DEF Submitted

LEMMA BranchKept ==
  ASSUME IInv, NEW block, NEW prev, Submitted(block, prev),
         NEW id \in LiveForks, forks'[id] = forks[id]
  PROVE  Branch(id)'
<1>1. Branch(id)
  BY DEF IInv
<1> DEFINE anc == forks[id].ancestor
           desc == forks[id].descendants
<1>2. /\ anc \in Stored /\ forks[id].height = headers[anc].height + Len(desc)
      /\ \A i \in 1 .. Len(desc) :
           /\ desc[i] \in Stored
           /\ headers[desc[i]].height = headers[anc].height + i
           /\ parent[desc[i]] = IF i = 1 THEN anc ELSE desc[i - 1]
  BY <1>1 DEF Branch
<1>3. forks'[id].ancestor = anc /\ forks'[id].descendants = desc
      /\ forks'[id].height = forks[id].height
  OBVIOUS
<1> HIDE DEF anc, desc
<1>4. anc \in Stored' /\ forks'[id].height = headers'[anc].height + Len(desc)
  BY <1>2, <1>3, StoredStay
<1>5. \A i \in 1 .. Len(desc) :
        /\ desc[i] \in Stored'
        /\ headers'[desc[i]].height = headers'[anc].height + i
        /\ parent'[desc[i]] = IF i = 1 THEN anc ELSE desc[i - 1]
  <2>1. TAKE i \in 1 .. Len(desc)
  <2>2. desc[i] \in Stored /\ headers[desc[i]].height = headers[anc].height + i
        /\ parent[desc[i]] = IF i = 1 THEN anc ELSE desc[i - 1]
    BY <1>2
  <2> QED
    BY <1>2, <2>2, StoredStay
<1> QED
  BY <1>3, <1>4, <1>5 DEF Branch

\* A block is the first unstored one, so its fork is counted before it.
LEMMA CountsKept ==
  ASSUME IInv, NEW block \in Blocks, NEW prev, Submitted(block, prev),
         \A b \in 1 .. (block - 1) : b \in Stored
  PROVE  \A b \in Blocks \ Stored' : chainCounter' + 2 <= b
<1>1. TAKE b \in Blocks \ Stored'
<1>2. b \in Blocks \ Stored /\ b # block
  BY <1>1, StoredGrows
<1>3. b \in Nat /\ b >= 1 /\ block \in Nat /\ block >= 1
  BY <1>2, RelayConstants DEF Blocks
<1>4. b > block
  <2>1. b \notin 1 .. (block - 1)
    BY <1>2
  <2> QED
    BY <1>2, <1>3, <2>1
<1>5. chainCounter + 2 <= block
  BY DEF IInv, CountedForks, Submitted
<1>6. /\ chainCounter \in Nat
      /\ chainCounter' = chainCounter \/ chainCounter' = chainCounter + 1
  BY RelayTypes DEF Submitted
<1> QED
  BY <1>3, <1>4, <1>5, <1>6

LEMMA NewForkForks ==
  ASSUME IInv, NEW block \in Blocks, NEW prev \in Blocks, Submitted(block, prev),
         \A b \in 1 .. (block - 1) : b \in Stored, NewFork(block, prev)
  PROVE  ForksInv'
<1> DEFINE height == headers[prev].height + 1
           n == chainCounter + 1
<1>1. /\ chainCounter' = n /\ n \in ChainIds
      /\ forks' = [forks EXCEPT ![n] = [height |-> height, ancestor |-> prev,
                                        descendants |-> <<block>>]]
      /\ headers' = [headers EXCEPT ![block] = [height |-> height, chainId |-> n]]
  BY DEF NewFork, InitializeFork, IncrementChainCounter, StoreBlockHeader, Submitted
<1>2. /\ n \in Nat /\ n > 0 /\ n > chainCounter /\ n \notin LiveForks
  <2>1. chainCounter \in Nat
    BY RelayTypes
  <2>2. n \in Nat /\ n > 0 /\ n > chainCounter
    BY <2>1
  <2>3. forks[n].descendants = <<>>
    BY <1>1, <2>2 DEF IInv, CountedForks
  <2> QED
    BY <2>2, <2>3 DEF LiveForks
<1>3. /\ \A id \in ChainIds \ {n} : forks'[id] = forks[id]
      /\ forks'[n] = [height |-> height, ancestor |-> prev, descendants |-> <<block>>]
  BY <1>1, RelayTypes
<1>4. /\ \A b \in AllBlocks \ {block} : headers'[b] = headers[b]
      /\ headers'[block].chainId = n
  BY <1>1, RelayTypes
<1>5. \A b \in AllBlocks : headers[b].chainId <= chainCounter /\ headers[b].chainId \in ChainIds
  BY RelayTypes DEF IInv, CountedForks
<1> HIDE DEF n
<1>6. LiveForks' = LiveForks \cup {n}
  <2>1. <<block>> # <<>>
    OBVIOUS
  <2> QED
    BY <1>1, <1>3, <2>1 DEF LiveForks
<1>7. CountedForks'
  <2>1. \A b \in AllBlocks : headers'[b].chainId <= chainCounter'
    <3>1. TAKE b \in AllBlocks
    <3>2. headers[b].chainId \in Nat /\ headers[b].chainId <= chainCounter
      BY <1>5, RelayTypes
    <3> QED
      BY <1>1, <1>2, <1>4, <3>2, RelayTypes
  <2>2. forks'[0].descendants = <<>>
    <3>1. 0 # n /\ 0 \in ChainIds
      BY <1>2, RelayTypes
    <3> QED
      BY <1>3, <3>1 DEF IInv, CountedForks
  <2>3. \A id \in ChainIds : id > chainCounter' => forks'[id].descendants = <<>>
    <3>1. TAKE id \in ChainIds
    <3>2. id \in Nat /\ chainCounter \in Nat
      BY RelayTypes
    <3>3. id > n => id # n /\ id > chainCounter
      BY <1>2, <3>2
    <3> QED
      BY <1>1, <1>3, <3>3 DEF IInv, CountedForks
  <2>4. \A id \in ChainIds \ {0} :
          forks'[id].descendants = <<>> => forks'[id].height = 0
    <3>1. <<block>> # <<>>
      OBVIOUS
    <3> QED
      BY <1>3, <3>1 DEF IInv, CountedForks
  <2> QED
    BY <2>1, <2>2, <2>3, <2>4, CountsKept DEF CountedForks, AllBlocks
<1>8. ASSUME NEW id \in LiveForks' PROVE Branch(id)'
  <2>1. CASE id \in LiveForks
    BY <1>2, <1>3, <2>1, BranchKept, RelayTypes
  <2>2. CASE id = n
    <3>1. /\ forks'[n].ancestor = prev /\ forks'[n].height = height
          /\ Len(forks'[n].descendants) = 1 /\ forks'[n].descendants[1] = block
      BY <1>3
    <3>2. prev \in Stored' /\ block \in Stored' /\ headers'[prev].height = headers[prev].height
      BY StoredStay, StoredGrows DEF Submitted
    <3>3. headers'[block].height = height /\ parent'[block] = prev
      BY RelayTypes DEF Submitted
    <3> QED
      BY <2>2, <3>1, <3>2, <3>3 DEF Branch
  <2> QED
    BY <1>6, <1>8, <2>1, <2>2
<1>9. Members'
  <2>1. ASSUME NEW b \in Stored', headers'[b].chainId \in LiveForks'
        PROVE  \E i \in 1 .. Len(forks'[headers'[b].chainId].descendants) :
                 b = forks'[headers'[b].chainId].descendants[i]
    <3>1. CASE b = block
      BY <1>3, <1>4, <3>1
    <3>2. CASE b \in Stored /\ b # block
      <4>1. headers'[b].chainId = headers[b].chainId
        BY <1>4, <3>2, RelayTypes
      <4>2. headers[b].chainId # n
        BY <1>2, <1>5, <3>2, RelayTypes
      <4>3. headers[b].chainId \in LiveForks
        BY <1>6, <2>1, <4>1, <4>2
      <4>4. forks'[headers[b].chainId] = forks[headers[b].chainId]
        BY <1>3, <4>2, <4>3, RelayTypes
      <4> QED
        BY <3>2, <4>1, <4>3, <4>4 DEF IInv, Members
    <3> QED
      BY <2>1, <3>1, <3>2, StoredGrows
  <2> QED
    BY <2>1 DEF Members
<1>10. ReorgLoopEnds'
  <2>1. ASSUME NEW id \in LiveForks'
        PROVE  LET next == headers'[forks'[id].ancestor].chainId
               IN  next = 0 \/ next < id \/ next \notin LiveForks'
    <3>1. CASE id = n
      <4>1. forks'[id].ancestor = prev
        BY <1>3, <3>1
      <4>2. headers'[prev].chainId = headers[prev].chainId
        BY <1>4, StoredStay, RelayTypes DEF Submitted
      <4>3. headers[prev].chainId < n
        BY <1>2, <1>5, RelayTypes
      <4> QED
        BY <3>1, <4>1, <4>2, <4>3
    <3>2. CASE id \in LiveForks
      <4>1. forks'[id] = forks[id] /\ forks[id].ancestor \in Stored
        BY <1>2, <1>3, <3>2, RelayTypes DEF IInv, Branch
      <4>2. headers'[forks[id].ancestor].chainId = headers[forks[id].ancestor].chainId
        <5>1. forks[id].ancestor # block /\ forks[id].ancestor \in AllBlocks
          BY <4>1, RelayTypes DEF Submitted
        <5> QED
          BY <1>4, <5>1
      <4>3. headers[forks[id].ancestor].chainId # n
        <5>1. forks[id].ancestor \in AllBlocks
          BY <4>1, RelayTypes
        <5>2. headers[forks[id].ancestor].chainId \in Nat
          BY <1>5, <5>1, RelayTypes
        <5> QED
          <6>1. headers[forks[id].ancestor].chainId <= chainCounter
            BY <1>5, <5>1
          <6>2. chainCounter \in Nat
            BY RelayTypes
          <6> QED
            BY <1>2, <5>2, <6>1, <6>2
      <4> QED
        BY <1>6, <3>2, <4>1, <4>2, <4>3 DEF IInv, ReorgLoopEnds
    <3> QED
      BY <1>6, <2>1, <3>1, <3>2
  <2> QED
    BY <2>1 DEF ReorgLoopEnds
<1> QED
  BY <1>7, <1>8, <1>9, <1>10 DEF ForksInv

LEMMA OnMainForks ==
  ASSUME IInv, NEW block \in Blocks, NEW prev \in Blocks, Submitted(block, prev),
         \A b \in 1 .. (block - 1) : b \in Stored, OnMain(block, prev)
  PROVE  ForksInv'
<1> DEFINE height == headers[prev].height + 1
<1>1. /\ chainCounter' = chainCounter
      /\ forks' = [forks EXCEPT ![0].height = height]
      /\ headers' = [headers EXCEPT ![block] = [height |-> height, chainId |-> 0]]
  BY DEF OnMain, ExtendMain, StoreBlockHeader
<1>2. /\ \A id \in ChainIds \ {0} : forks'[id] = forks[id]
      /\ forks'[0].descendants = forks[0].descendants
  BY <1>1, RelayTypes
<1>3. /\ \A b \in AllBlocks \ {block} : headers'[b] = headers[b]
      /\ headers'[block].chainId = 0
  BY <1>1, RelayTypes
<1> HIDE DEF height
<1>4. LiveForks' = LiveForks /\ 0 \notin LiveForks
  BY <1>2, RelayTypes DEF LiveForks
<1>5. \A id \in LiveForks : forks'[id] = forks[id]
  BY <1>2, RelayTypes
<1>6. CountedForks'
  <2>1. \A b \in AllBlocks : headers'[b].chainId <= chainCounter'
    BY <1>1, <1>3, RelayTypes DEF IInv, CountedForks
  <2>2. \A id \in ChainIds : forks'[id].descendants = forks[id].descendants
    BY <1>2
  <2>3. forks'[0].descendants = <<>>
        /\ \A id \in ChainIds : id > chainCounter' => forks'[id].descendants = <<>>
    BY <1>1, <2>2, RelayTypes DEF IInv, CountedForks
  <2>4. \A id \in ChainIds \ {0} :
          forks'[id].descendants = <<>> => forks'[id].height = 0
    BY <1>2 DEF IInv, CountedForks
  <2> QED
    BY <2>1, <2>3, <2>4, CountsKept DEF CountedForks, AllBlocks
<1>7. \A id \in LiveForks' : Branch(id)'
  BY <1>4, <1>5, BranchKept
<1>8. Members'
  <2>1. ASSUME NEW b \in Stored', headers'[b].chainId \in LiveForks'
        PROVE  \E i \in 1 .. Len(forks'[headers'[b].chainId].descendants) :
                 b = forks'[headers'[b].chainId].descendants[i]
    <3>1. b # block
      BY <1>3, <1>4, <2>1
    <3>2. b \in Stored /\ b \in AllBlocks
      BY <3>1, StoredGrows, RelayTypes
    <3>3. headers'[b].chainId = headers[b].chainId
      BY <1>3, <3>1, <3>2
    <3> QED
      BY <1>4, <1>5, <2>1, <3>2, <3>3 DEF IInv, Members
  <2> QED
    BY <2>1 DEF Members
<1>9. ReorgLoopEnds'
  <2>1. ASSUME NEW id \in LiveForks
        PROVE  /\ forks'[id].ancestor = forks[id].ancestor
               /\ headers'[forks[id].ancestor].chainId = headers[forks[id].ancestor].chainId
    <3>1. forks[id].ancestor \in Stored
      BY DEF IInv, Branch
    <3>2. forks[id].ancestor # block /\ forks[id].ancestor \in AllBlocks
      BY <3>1, RelayTypes DEF Submitted
    <3> QED
      BY <1>3, <1>5, <3>2
  <2> QED
    BY <1>4, <2>1 DEF IInv, ReorgLoopEnds
<1> QED
  BY <1>6, <1>7, <1>8, <1>9 DEF ForksInv

\* The header's previous block is the last of the fork it goes to.
LEMMA PrevIsTip ==
  ASSUME IInv, NEW prev \in Stored, headers[prev].chainId # MAIN_CHAIN_ID,
         forks[headers[prev].chainId].height = headers[prev].height
  PROVE  LET id == headers[prev].chainId
             desc == forks[id].descendants
         IN  id \in LiveForks /\ Len(desc) \in Nat \ {0} /\ prev = desc[Len(desc)]
<1> DEFINE id == headers[prev].chainId
           desc == forks[id].descendants
           anc == forks[id].ancestor
<1>1. id \in ChainIds \ {0} /\ headers[prev].height # 0
  BY RelayTypes DEF Stored
<1>2. id \in LiveForks
  <2>1. desc # <<>>
    BY <1>1 DEF IInv, CountedForks
  <2> QED
    BY <1>1, <2>1 DEF LiveForks
<1>3. desc \in Seq(Blocks)
  BY <1>1, RelayTypes
<1>4. PICK i \in 1 .. Len(desc) : prev = desc[i]
  BY <1>2 DEF IInv, Members
<1>5. /\ headers[desc[i]].height = headers[anc].height + i
      /\ forks[id].height = headers[anc].height + Len(desc)
      /\ anc \in Stored
  BY <1>2 DEF IInv, Branch
<1>6. headers[anc].height \in Nat
  BY <1>5, NatHeights
<1> HIDE DEF id, desc, anc
<1>7. Len(desc) \in Nat
  BY <1>3
<1>8. headers[anc].height + i = headers[anc].height + Len(desc)
  BY <1>4, <1>5 DEF id
<1>9. i = Len(desc)
  BY <1>4, <1>6, <1>7, <1>8
<1> QED
  BY <1>2, <1>4, <1>7, <1>9 DEF id, desc

LEMMA OnForkForks ==
  ASSUME IInv, NEW block \in Blocks, NEW prev \in Blocks, Submitted(block, prev),
         \A b \in 1 .. (block - 1) : b \in Stored, OnFork(block, prev)
  PROVE  ForksInv'
<1> DEFINE height == headers[prev].height + 1
           id == headers[prev].chainId
           desc == forks[id].descendants
<1>1. /\ chainCounter' = chainCounter
      /\ forks' = [forks EXCEPT ![id].height = height, ![id].descendants = Append(@, block)]
      /\ headers' = [headers EXCEPT ![block] = [height |-> height, chainId |-> id]]
  BY DEF OnFork, ExtendFork, StoreBlockHeader
<1>2. id \in LiveForks /\ Len(desc) \in Nat \ {0} /\ prev = desc[Len(desc)]
  BY PrevIsTip DEF OnFork, Submitted
<1>3. id \in ChainIds \ {0} /\ desc \in Seq(Blocks)
  BY <1>2, RelayTypes
<1>4. /\ \A i \in ChainIds \ {id} : forks'[i] = forks[i]
      /\ forks'[id].ancestor = forks[id].ancestor
      /\ forks'[id].height = height
      /\ forks'[id].descendants = Append(desc, block)
  BY <1>1, <1>3, RelayTypes
<1>5. /\ \A b \in AllBlocks \ {block} : headers'[b] = headers[b]
      /\ headers'[block].chainId = id
  BY <1>1, RelayTypes
<1>6. id <= chainCounter
  BY RelayTypes DEF IInv, CountedForks
<1>7. headers'[block].height = height /\ parent'[block] = prev
  BY RelayTypes DEF Submitted
<1>8. height = headers[prev].height + 1 /\ prev \in Stored
  BY DEF Submitted
<1> HIDE DEF height, id, desc
<1> DEFINE longer == Append(desc, block)
<1>9. /\ Len(longer) = Len(desc) + 1 /\ longer[Len(desc) + 1] = block
      /\ \A i \in 1 .. Len(desc) : longer[i] = desc[i]
      /\ longer # <<>>
  BY <1>3
<1> HIDE DEF longer
<1>10. LiveForks' = LiveForks
  BY <1>2, <1>3, <1>4, <1>9 DEF LiveForks, longer
<1>11. CountedForks'
  <2>1. \A b \in AllBlocks : headers'[b].chainId <= chainCounter'
    BY <1>1, <1>5, <1>6 DEF IInv, CountedForks
  <2>2. forks'[0].descendants = <<>>
    BY <1>3, <1>4, RelayTypes DEF IInv, CountedForks
  <2>3. \A i \in ChainIds : i > chainCounter' => forks'[i].descendants = <<>>
    <3>1. TAKE i \in ChainIds
    <3>2. i > chainCounter => i # id
      BY <1>3, <1>6, RelayTypes
    <3> QED
      BY <1>1, <1>4, <3>2 DEF IInv, CountedForks
  <2>4. \A i \in ChainIds \ {0} :
          forks'[i].descendants = <<>> => forks'[i].height = 0
    BY <1>4, <1>9 DEF IInv, CountedForks, longer
  <2> QED
    BY <2>1, <2>2, <2>3, <2>4, CountsKept DEF CountedForks, AllBlocks
<1>12. ASSUME NEW j, j = id PROVE Branch(j)'
  <2> DEFINE anc == forks[id].ancestor
  <2>1. /\ anc \in Stored
        /\ \A i \in 1 .. Len(desc) :
             /\ desc[i] \in Stored
             /\ headers[desc[i]].height = headers[anc].height + i
             /\ parent[desc[i]] = IF i = 1 THEN anc ELSE desc[i - 1]
    BY <1>2 DEF IInv, Branch, desc
  <2> HIDE DEF anc
  <2>2. headers[anc].height \in Nat
    BY <2>1, NatHeights
  <2>3. anc \in Stored' /\ headers'[anc].height = headers[anc].height
    BY <2>1, StoredStay
  <2>4. height = headers[anc].height + Len(longer)
    <3>1. headers[prev].height = headers[anc].height + Len(desc)
      BY <1>2, <2>1
    <3> QED
      BY <1>2, <1>8, <1>9, <2>2, <3>1
  <2>5. ASSUME NEW i \in 1 .. Len(longer)
        PROVE  /\ longer[i] \in Stored'
               /\ headers'[longer[i]].height = headers'[anc].height + i
               /\ parent'[longer[i]] = IF i = 1 THEN anc ELSE longer[i - 1]
    <3>1. CASE i \in 1 .. Len(desc)
      <4>1. /\ longer[i] = desc[i] /\ desc[i] \in Stored
            /\ headers[desc[i]].height = headers[anc].height + i
            /\ parent[desc[i]] = IF i = 1 THEN anc ELSE desc[i - 1]
        BY <1>9, <2>1, <3>1
      <4>2. i # 1 => longer[i - 1] = desc[i - 1]
        BY <1>2, <1>9, <3>1
      <4>3. /\ desc[i] \in Stored' /\ headers'[desc[i]].height = headers[desc[i]].height
            /\ parent'[desc[i]] = parent[desc[i]]
        BY <4>1, StoredStay
      <4> QED
        BY <2>3, <4>1, <4>2, <4>3
    <3>2. CASE i = Len(desc) + 1
      <4>1. longer[i] = block /\ i # 1 /\ longer[i - 1] = prev
        BY <1>2, <1>9, <3>2
      <4>2. block \in Stored'
        BY StoredGrows
      <4>3. headers'[block].height = headers'[anc].height + i
        BY <1>7, <1>9, <2>3, <2>4, <3>2
      <4> QED
        BY <1>7, <4>1, <4>2, <4>3
    <3> QED
      BY <1>2, <1>9, <2>5, <3>1, <3>2
  <2>6. forks'[j].ancestor = anc /\ forks'[j].descendants = longer
        /\ forks'[j].height = headers'[anc].height + Len(longer)
    BY <1>4, <1>12, <2>3, <2>4 DEF anc, longer
  <2> QED
    BY <2>3, <2>5, <2>6 DEF Branch
<1>13. ASSUME NEW i \in LiveForks' PROVE Branch(i)'
  <2>1. CASE i = id
    BY <1>12, <2>1
  <2>2. CASE i # id
    <3>1. i \in LiveForks
      BY <1>10, <1>13
    <3>2. forks'[i] = forks[i]
      BY <1>4, <2>2, <3>1, RelayTypes
    <3> QED
      BY <3>1, <3>2, BranchKept
  <2> QED
    BY <2>1, <2>2
<1>14. Members'
  <2>1. ASSUME NEW b \in Stored', headers'[b].chainId \in LiveForks'
        PROVE  \E i \in 1 .. Len(forks'[headers'[b].chainId].descendants) :
                 b = forks'[headers'[b].chainId].descendants[i]
    <3>1. CASE b = block
      <4>1. Len(desc) + 1 \in 1 .. Len(longer) /\ block = longer[Len(desc) + 1]
        BY <1>2, <1>9
      <4> QED
        BY <1>4, <1>5, <3>1, <4>1 DEF longer
    <3>2. CASE b \in Stored
      <4>1. b # block /\ b \in AllBlocks
        BY <3>2, StoredStay, RelayTypes
      <4>2. headers'[b].chainId = headers[b].chainId
        BY <1>5, <4>1
      <4>3. PICK i \in 1 .. Len(forks[headers[b].chainId].descendants) :
              b = forks[headers[b].chainId].descendants[i]
        BY <1>10, <2>1, <3>2, <4>2 DEF IInv, Members
      <4>4. CASE headers[b].chainId = id
        <5>1. i \in 1 .. Len(longer) /\ b = longer[i]
          BY <1>2, <1>9, <4>3, <4>4 DEF desc
        <5> QED
          BY <1>4, <4>2, <4>4, <5>1 DEF longer
      <4>5. CASE headers[b].chainId # id
        <5>1. forks'[headers[b].chainId] = forks[headers[b].chainId]
          BY <1>4, <1>10, <2>1, <4>2, <4>5, RelayTypes
        <5> QED
          BY <4>2, <4>3, <5>1
      <4> QED
        BY <4>4, <4>5
    <3> QED
      BY <2>1, <3>1, <3>2, StoredGrows
  <2> QED
    BY <2>1 DEF Members
<1>15. ReorgLoopEnds'
  <2>1. ASSUME NEW i \in LiveForks
        PROVE  /\ forks'[i].ancestor = forks[i].ancestor
               /\ headers'[forks[i].ancestor].chainId = headers[forks[i].ancestor].chainId
    <3>1. forks[i].ancestor \in Stored
      BY DEF IInv, Branch
    <3>2. forks[i].ancestor # block /\ forks[i].ancestor \in AllBlocks
      BY <3>1, RelayTypes DEF Submitted
    <3>3. forks'[i].ancestor = forks[i].ancestor
      BY <1>4, RelayTypes
    <3> QED
      BY <1>5, <3>2, <3>3
  <2> QED
    BY <1>10, <2>1 DEF IInv, ReorgLoopEnds
<1> QED
  BY <1>11, <1>13, <1>14, <1>15 DEF ForksInv

\* A reorganisation may demote blocks to a fork that nothing visits.
LEMMA ReorganisedForks ==
  ASSUME IInv, NEW block \in Blocks, NEW prev \in Blocks, Submitted(block, prev),
         \A b \in 1 .. (block - 1) : b \in Stored, Reorganised(block, prev)
  PROVE  ForksInv'
<1> DEFINE id == headers[prev].chainId
           n == chainCounter + 1
<1>1. /\ chainCounter' = n /\ n \in ChainIds
      /\ forks' = [forks EXCEPT ![id] = NoFork]
      /\ headers' = ReorgHeaders(block, headers[prev].height + 1, Visited[id])
      /\ id # 0
  BY DEF Reorganised, ReorgChain, IncrementChainCounter, Submitted
<1>2. /\ \A b \in AllBlocks : headers'[b].chainId \in {headers[b].chainId, 0, n}
      /\ headers'[block].chainId = 0
  BY <1>1, RelayTypes DEF ReorgHeaders
<1>3. /\ \A i \in ChainIds \ {id} : forks'[i] = forks[i]
      /\ id \in ChainIds /\ forks'[id] = NoFork
  BY <1>1, RelayTypes
<1>4. n \in Nat /\ n > 0 /\ n > chainCounter /\ chainCounter \in Nat
  <2>1. chainCounter \in Nat
    BY RelayTypes
  <2> QED
    BY <2>1
<1>5. n \notin LiveForks
  BY <1>1, <1>4 DEF IInv, CountedForks, LiveForks
<1> HIDE DEF id, n
<1>6. LiveForks' = LiveForks \ {id}
  BY <1>3 DEF LiveForks, NoFork
<1>7. CountedForks'
  <2>1. \A b \in AllBlocks : headers'[b].chainId <= chainCounter'
    <3>1. TAKE b \in AllBlocks
    <3>2. headers[b].chainId <= chainCounter /\ headers[b].chainId \in Nat
      BY RelayTypes DEF IInv, CountedForks
    <3> QED
      BY <1>1, <1>2, <1>4, <3>2
  <2>2. forks'[0].descendants = <<>>
    BY <1>1, <1>3, RelayTypes DEF IInv, CountedForks
  <2>3. \A i \in ChainIds : i > chainCounter' => forks'[i].descendants = <<>>
    <3>1. TAKE i \in ChainIds
    <3>2. i \in Nat
      BY RelayTypes
    <3>3. i > n => i > chainCounter
      BY <1>4, <3>2
    <3> QED
      BY <1>1, <1>3, <3>3 DEF IInv, CountedForks, NoFork
  <2>4. \A i \in ChainIds \ {0} :
          forks'[i].descendants = <<>> => forks'[i].height = 0
    BY <1>3 DEF IInv, CountedForks, NoFork
  <2> QED
    BY <2>1, <2>2, <2>3, <2>4, CountsKept DEF CountedForks, AllBlocks
<1>8. \A i \in LiveForks' : i \in LiveForks /\ forks'[i] = forks[i]
  BY <1>3, <1>6, RelayTypes
<1>9. \A i \in LiveForks' : Branch(i)'
  BY <1>8, BranchKept
<1>10. 0 \notin LiveForks'
  BY <1>6, RelayTypes
<1>11. Members'
  <2>1. ASSUME NEW b \in Stored', headers'[b].chainId \in LiveForks'
        PROVE  \E i \in 1 .. Len(forks'[headers'[b].chainId].descendants) :
                 b = forks'[headers'[b].chainId].descendants[i]
    <3>1. b # block /\ b \in Stored /\ b \in AllBlocks
      <4>1. b # block
        BY <1>2, <1>10, <2>1
      <4>2. b \in Stored
        BY <2>1, <4>1, StoredGrows
      <4> QED
        BY <4>1, <4>2, RelayTypes
    <3>2. headers'[b].chainId = headers[b].chainId
      BY <1>2, <1>5, <1>6, <1>10, <2>1, <3>1
    <3> QED
      BY <1>8, <2>1, <3>1, <3>2 DEF IInv, Members
  <2> QED
    BY <2>1 DEF Members
<1>12. ReorgLoopEnds'
  <2>1. ASSUME NEW i \in LiveForks'
        PROVE  LET next == headers'[forks'[i].ancestor].chainId
               IN  next = 0 \/ next < i \/ next \notin LiveForks'
    <3>1. i \in LiveForks /\ forks'[i] = forks[i] /\ forks[i].ancestor \in AllBlocks
      BY <1>8, <2>1, RelayTypes
    <3> DEFINE next == headers[forks[i].ancestor].chainId
    <3>2. next = 0 \/ next < i \/ next \notin LiveForks
      BY <3>1 DEF IInv, ReorgLoopEnds
    <3>3. headers'[forks[i].ancestor].chainId \in {next, 0, n}
      BY <1>2, <3>1
    <3> QED
      BY <1>5, <1>6, <3>1, <3>2, <3>3
  <2> QED
    BY <2>1 DEF ReorgLoopEnds
<1> QED
  BY <1>7, <1>9, <1>11, <1>12 DEF ForksInv

-----------------------------------------------------------------------------
\* The theorems

LEMMA NextIInv == IInv /\ [Next]_vars => IInv'
<1>1. ASSUME IInv, NEW block \in Blocks, NEW prev \in Blocks,
             NEW target \in Targets, NEW time \in Timestamps,
             \A b \in 1 .. (block - 1) : b \in Stored,
             SubmitBlockHeader(block, prev, target, time)
      PROVE  IInv'
  <2>1. Submitted(block, prev)
    BY <1>1, SubmitStores
  <2>2. Outcomes(block, prev)
    BY <1>1, SubmitOutcomes
  <2>3. ForksInv'
    BY <1>1, <2>1, <2>2, NewForkForks, OnMainForks, OnForkForks, ReorganisedForks
    DEF Outcomes
  <2>4. StoredInOrder' /\ HeightsAreDepths' /\ BestIsMain'
    BY <1>1, <2>1, <2>2, SubmitOrder, SubmitHeights, SubmitBest
  <2>5. TypeOK'
    BY <1>1, <2>1, SubmitTypes
  <2> QED
    BY <2>3, <2>4, <2>5 DEF IInv, ForksInv
<1>2. IInv /\ UNCHANGED vars => IInv'
  BY DEF IInv, vars, TypeOK, StoredInOrder, HeightsAreDepths, CountedForks,
         Branch, Members, ReorgLoopEnds, BestIsMain, Stored, LiveForks
<1> QED
  BY <1>1, <1>2 DEF Next

LEMMA IInvAlways == Spec => []IInv
  BY InitIInv, NextIInv, PTL DEF Spec

\* A branch, written as a sequence, is one path.
LEMMA BranchIsPath ==
  ASSUME IInv, NEW id \in LiveForks
  PROVE  LET branch == <<forks[id].ancestor>> \o forks[id].descendants
         IN  /\ \A i \in 2 .. Len(branch) : parent[branch[i]] = branch[i - 1]
             /\ headers[Last(branch)].height = forks[id].height
<1> DEFINE anc == forks[id].ancestor
           desc == forks[id].descendants
           branch == <<anc>> \o desc
<1>1. /\ anc \in Stored /\ desc \in Seq(AllBlocks)
      /\ forks[id].height = headers[anc].height + Len(desc)
      /\ \A i \in 1 .. Len(desc) :
           /\ headers[desc[i]].height = headers[anc].height + i
           /\ parent[desc[i]] = IF i = 1 THEN anc ELSE desc[i - 1]
  <2>1. Branch(id)
    BY DEF IInv
  <2>2. id \in ChainIds /\ forks[id].descendants \in Seq(Blocks)
    BY RelayTypes
  <2>3. \A i \in 1 .. Len(desc) : desc[i] \in AllBlocks
    BY <2>2, RelayTypes
  <2>4. desc \in Seq(AllBlocks) /\ anc \in AllBlocks /\ anc \in Stored
    BY <2>1, <2>2, RelayTypes DEF Branch
  <2> QED
    BY <2>1, <2>4 DEF Branch
<1>2. headers[anc].height \in Nat
  BY <1>1, NatHeights
<1> HIDE DEF anc, desc
<1>3. /\ Len(desc) \in Nat /\ Len(branch) = Len(desc) + 1
      /\ branch[1] = anc
      /\ \A i \in 1 .. Len(desc) : branch[i + 1] = desc[i]
  BY <1>1
<1> HIDE DEF branch
<1>4. ASSUME NEW i \in 2 .. Len(branch)
      PROVE  parent[branch[i]] = branch[i - 1]
  <2>1. i - 1 \in 1 .. Len(desc) /\ (i - 1) + 1 = i
    BY <1>3
  <2>2. branch[i] = desc[i - 1]
    BY <1>3, <2>1
  <2>3. CASE i - 1 = 1
    BY <1>1, <1>3, <2>1, <2>2, <2>3
  <2>4. CASE i - 1 # 1
    <3>1. (i - 1) - 1 \in 1 .. Len(desc) /\ ((i - 1) - 1) + 1 = i - 1
      BY <1>3, <2>1, <2>4
    <3>2. branch[i - 1] = desc[(i - 1) - 1]
      BY <1>3, <3>1
    <3> QED
      BY <1>1, <2>1, <2>2, <2>4, <3>2
  <2> QED
    BY <2>3, <2>4
<1>5. headers[branch[Len(branch)]].height = forks[id].height
  <2>1. CASE Len(desc) = 0
    BY <1>1, <1>2, <1>3, <2>1
  <2>2. CASE Len(desc) # 0
    <3>1. Len(desc) \in 1 .. Len(desc)
      BY <1>3, <2>2
    <3> QED
      BY <1>1, <1>3, <3>1
  <2> QED
    BY <2>1, <2>2
<1> QED
  BY <1>4, <1>5 DEF branch, desc, anc, Last

\* Whatever headers arrive, every height, fork and map stays within what the
\* relay has stored.
THEOREM RelayTypeCorrect == Spec => []TypeOK
  BY IInvAlways, PTL DEF IInv

\* Whatever headers arrive in whatever order and whatever is reorganised,
\* what the loop of _reorgChain visits is one branch of blocks down to a
\* block of another chain, each one higher than the one it names.
THEOREM ForksStayPaths == Spec => []ForksArePaths
<1>1. IInv => ForksArePaths
  BY BranchIsPath DEF IInv, ForksArePaths, BranchesArePaths
<1> QED
  BY <1>1, IInvAlways, PTL

\* The block the relay takes for bitcoin's best is stored as one of the main
\* chain at the best height, before and after reorganisations.
THEOREM BestStaysMain == Spec => []BestIsMain
  BY IInvAlways, PTL DEF IInv

LEMMA BlockNumbers ==
  /\ Blocks \subseteq Nat \ {0} /\ AllBlocks \subseteq Nat
  /\ Genesis \in Blocks /\ NoBlock \notin Blocks
  BY RelayConstants DEF Blocks, AllBlocks

-----------------------------------------------------------------------------
\* The best chain.  It is defined by recursion along the parents; what follows
\* describes it as the least set of blocks that holds its tip and is closed
\* under parents, which needs no induction to reason about.

ClosedUnder(p, S) == \A b \in S : p[b] # NoBlock => p[b] \in S

Ancestors(p, tip) ==
  {b \in Blocks : \A S \in SUBSET Blocks :
                    tip \in S /\ ClosedUnder(p, S) => b \in S}

\* The least closed set satisfies the recursion.
LEMMA AncestorsUnfold ==
  ASSUME NEW p \in [Blocks -> AllBlocks], NEW tip \in Blocks
  PROVE  /\ p[tip] = NoBlock => Ancestors(p, tip) = {tip}
         /\ p[tip] # NoBlock => Ancestors(p, tip) = {tip} \cup Ancestors(p, p[tip])
<1>1. tip \in Ancestors(p, tip) /\ Ancestors(p, tip) \in SUBSET Blocks
  BY DEF Ancestors
<1>2. ASSUME p[tip] = NoBlock PROVE Ancestors(p, tip) \subseteq {tip}
  <2>1. ClosedUnder(p, {tip})
    BY <1>2 DEF ClosedUnder
  <2> QED
    BY <2>1 DEF Ancestors
<1>3. ASSUME p[tip] # NoBlock
      PROVE  Ancestors(p, tip) = {tip} \cup Ancestors(p, p[tip])
  <2> DEFINE P == Ancestors(p, p[tip])
  <2>1. p[tip] \in Blocks
    BY <1>3 DEF AllBlocks
  <2>2. p[tip] \in P /\ P \in SUBSET Blocks
    BY <2>1 DEF Ancestors
  <2>3. ASSUME NEW b \in P, p[b] # NoBlock PROVE p[b] \in P
    <3>1. b \in Blocks /\ p[b] \in Blocks
      BY <2>2, <2>3 DEF AllBlocks
    <3>2. ASSUME NEW S \in SUBSET Blocks, p[tip] \in S, ClosedUnder(p, S)
          PROVE  p[b] \in S
      BY <2>3, <3>2 DEF Ancestors, ClosedUnder
    <3> QED
      BY <3>1, <3>2 DEF Ancestors
  <2>4. Ancestors(p, tip) \subseteq {tip} \cup P
    <3>1. ClosedUnder(p, {tip} \cup P)
      BY <2>2, <2>3 DEF ClosedUnder
    <3>2. {tip} \cup P \in SUBSET Blocks
      BY <2>2
    <3> HIDE DEF P
    <3> QED
      BY <3>1, <3>2 DEF Ancestors
  <2>5. ASSUME NEW b \in P PROVE b \in Ancestors(p, tip)
    <3>1. b \in Blocks
      BY <2>2
    <3>2. ASSUME NEW S \in SUBSET Blocks, tip \in S, ClosedUnder(p, S)
          PROVE  b \in S
      <4>1. p[tip] \in S
        BY <1>3, <3>2 DEF ClosedUnder
      <4> QED
        BY <3>2, <4>1 DEF Ancestors
    <3> QED
      BY <3>1, <3>2 DEF Ancestors
  <2> QED
    BY <1>1, <2>4, <2>5
<1> QED
  BY <1>1, <1>2, <1>3

\* What is outside a closed set plays no part.
LEMMA AncestorsWithin ==
  ASSUME NEW p, NEW q, NEW S \in SUBSET Blocks, NEW tip \in S,
         ClosedUnder(p, S), \A b \in S : q[b] = p[b]
  PROVE  Ancestors(p, tip) \subseteq Ancestors(q, tip) /\ Ancestors(p, tip) \subseteq S
<1> SUFFICES ASSUME NEW b \in Ancestors(p, tip)
             PROVE  b \in Ancestors(q, tip) /\ b \in S
  OBVIOUS
<1>1. b \in S /\ b \in Blocks
  BY DEF Ancestors
<1>2. ASSUME NEW T \in SUBSET Blocks, tip \in T, ClosedUnder(q, T)
      PROVE  b \in T
  <2>1. ClosedUnder(p, S \cap T)
    BY <1>2 DEF ClosedUnder
  <2>2. S \cap T \in SUBSET Blocks /\ tip \in S \cap T
    BY <1>2
  <2> QED
    BY <2>1, <2>2 DEF Ancestors
<1> QED
  BY <1>1, <1>2 DEF Ancestors

LEMMA AncestorsKept ==
  ASSUME NEW p, NEW q, NEW S \in SUBSET Blocks, NEW tip \in S,
         ClosedUnder(p, S), \A b \in S : q[b] = p[b]
  PROVE  Ancestors(p, tip) = Ancestors(q, tip)
<1>1. ClosedUnder(q, S)
  BY DEF ClosedUnder
<1>2. Ancestors(p, tip) \subseteq Ancestors(q, tip)
  BY AncestorsWithin
<1>3. \A b \in S : p[b] = q[b]
  OBVIOUS
<1>4. Ancestors(q, tip) \subseteq Ancestors(p, tip)
  BY <1>1, <1>3, AncestorsWithin
<1> QED
  BY <1>2, <1>4

\* A set with 0 and every successor of its numbers holds every number.
LEMMA NatSetInduction ==
  ASSUME NEW T, 0 \in T, \A n \in Nat : n \in T => n + 1 \in T
  PROVE  Nat \subseteq T
<1> SUFFICES ASSUME ~(Nat \subseteq T) PROVE FALSE
  OBVIOUS
<1> DEFINE R == OpToRel(<, Nat)
           M == Nat \ T
<1>1. IsWellFoundedOn(R, Nat)
  BY NatLessThanWellFounded
<1>2. M \subseteq Nat /\ M # {}
  OBVIOUS
<1>3. PICK x \in M : \A y \in M : ~(<<y, x>> \in R)
  <2> HIDE DEF R, M
  <2> QED BY <1>1, <1>2, WFMin
<1>4. \A a, b \in Nat : a < b => <<a, b>> \in R
  BY DEF OpToRel
<1>5. x \in Nat /\ x # 0
  OBVIOUS
<1>6. x - 1 \in Nat /\ x - 1 < x /\ (x - 1) + 1 = x
  BY <1>5
<1>7. x - 1 \in T
  BY <1>3, <1>4, <1>5, <1>6
<1> QED
  BY <1>5, <1>6, <1>7

\* Parents are stored before their children, so the recursion has a solution
\* and only one.
ParentsEarlier == \A b \in Blocks : parent[b] < b

LEMMA BackIsAncestors ==
  ASSUME parent \in [Blocks -> AllBlocks], ParentsEarlier, NEW tip \in Blocks
  PROVE  Back[tip] = Ancestors(parent, tip)
<1> DEFINE Solves(f) ==
             f = [b \in Blocks |-> IF parent[b] = NoBlock THEN {b}
                                   ELSE {b} \cup f[parent[b]]]
           anc == [b \in Blocks |-> Ancestors(parent, b)]
<1>0. Blocks \subseteq Nat \ {0} /\ AllBlocks \subseteq Nat
  BY BlockNumbers
<1>1. Solves(anc)
  <2>1. ASSUME NEW b \in Blocks
        PROVE  anc[b] = IF parent[b] = NoBlock THEN {b} ELSE {b} \cup anc[parent[b]]
    <3>1. parent[b] # NoBlock => parent[b] \in Blocks
      BY DEF AllBlocks
    <3> QED
      BY <3>1, AncestorsUnfold
  <2> QED
    BY <2>1
<1>2. Back = CHOOSE f : Solves(f)
  BY DEF Back
<1>3. Solves(Back)
  <2> HIDE DEF Solves, anc
  <2> QED
    BY <1>1, <1>2
<1> DEFINE T == {n \in Nat : \A b \in Blocks : b <= n => Back[b] = anc[b]}
<1>4. 0 \in T
  BY <1>0
<1>5. ASSUME NEW n \in Nat, n \in T PROVE n + 1 \in T
  <2> SUFFICES ASSUME NEW b \in Blocks, b <= n + 1 PROVE Back[b] = anc[b]
    BY <1>5
  <2>1. b \in Nat /\ parent[b] \in Nat /\ parent[b] < b
    BY <1>0 DEF ParentsEarlier
  <2>2. parent[b] # NoBlock => parent[b] \in Blocks /\ parent[b] <= n
    BY <2>1 DEF AllBlocks
  <2>3. parent[b] # NoBlock => Back[parent[b]] = anc[parent[b]]
    BY <1>5, <2>2
  <2>4. Back[b] = IF parent[b] = NoBlock THEN {b} ELSE {b} \cup Back[parent[b]]
    BY <1>3
  <2>5. anc[b] = IF parent[b] = NoBlock THEN {b} ELSE {b} \cup anc[parent[b]]
    BY <1>1
  <2> HIDE DEF anc
  <2> QED
    BY <2>3, <2>4, <2>5
<1>6. Nat \subseteq T
  <2> HIDE DEF T
  <2> QED
    BY <1>4, <1>5, NatSetInduction
<1>7. tip \in T /\ tip <= tip
  BY <1>0, <1>6
<1> QED
  BY <1>7

-----------------------------------------------------------------------------
\* The main chain is one path until the first reorganisation

AllLive == \A id \in 1 .. chainCounter : id \in LiveForks

Main == {b \in Stored : headers[b].chainId = MAIN_CHAIN_ID}

\* No other block of the main chain is as high as the best: only the best
\* one can be extended.
BestLeadsMain ==
  /\ Main = Ancestors(parent, bestBlock)
  /\ forks[MAIN_CHAIN_ID].height = bestHeight
  /\ \A b \in Main \ {bestBlock} : headers[b].height < bestHeight

\* No block leads the best by the required confirmations.
NoForkLeads == \A b \in Stored : headers[b].height < bestHeight + CONFIRMATIONS

PathInv ==
  /\ ParentsEarlier
  /\ AllLive => BestLeadsMain /\ NoForkLeads

LEMMA InitPath == Init => PathInv
<1> SUFFICES ASSUME Init PROVE PathInv
  OBVIOUS
<1>0. IInv
  BY InitIInv
<1>1. /\ Genesis \in Blocks /\ 0 \in ChainIds /\ Blocks \subseteq Nat \ {0}
      /\ GenesisHeight > 0 /\ parent \in [Blocks -> AllBlocks]
  BY <1>0, RelayConstants, RelayTypes, BlockNumbers
<1>2. \A b \in Blocks : parent[b] = NoBlock
  BY DEF Init
<1>3. ParentsEarlier
  BY <1>1, <1>2 DEF ParentsEarlier
<1>4. Main = {Genesis}
  <2>1. \A b \in Blocks :
          /\ headers[b].height = (IF b = Genesis THEN GenesisHeight ELSE 0)
          /\ headers[b].chainId = 0
    BY DEF Init, NoHeader
  <2>2. \A b \in Blocks : headers[b].height > 0 <=> b = Genesis
    <3>1. ~(0 > 0)
      OBVIOUS
    <3> QED
      BY <1>1, <2>1, <3>1
  <2> QED
    BY <1>1, <2>1, <2>2 DEF Main, Stored
<1>5. Ancestors(parent, Genesis) = {Genesis}
  BY <1>1, <1>2, AncestorsUnfold
<1>6. bestBlock = Genesis /\ forks[0].height = bestHeight
  BY <1>1 DEF Init, NoFork
<1>7. NoForkLeads
  <2>1. \A b \in Blocks : headers[b].height \in {0, GenesisHeight}
    BY DEF Init, NoHeader
  <2>2. bestHeight = GenesisHeight
    BY DEF Init
  <2> QED
    BY <2>1, <2>2, RelayConstants DEF NoForkLeads, Stored
<1> QED
  BY <1>3, <1>4, <1>5, <1>6, <1>7 DEF PathInv, BestLeadsMain

\* Whatever is stored builds on what is stored.
LEMMA StoredClosed ==
  ASSUME IInv, ParentsEarlier
  PROVE  Stored \in SUBSET Blocks /\ ClosedUnder(parent, Stored)
<1>1. parent[Genesis] = NoBlock
  <2>1. Genesis \in Blocks /\ parent[Genesis] \in Nat
    BY BlockNumbers, RelayTypes
  <2> QED
    BY <2>1 DEF ParentsEarlier
<1> QED
  BY <1>1, RelayTypes DEF IInv, StoredInOrder, ClosedUnder

LEMMA BestIsStored ==
  ASSUME IInv
  PROVE  bestBlock \in Stored /\ bestBlock \in Main /\ headers[bestBlock].height = bestHeight
         /\ bestHeight \in Nat
<1>1. bestBlock \in Blocks /\ bestHeight \in Heights
  BY DEF IInv, TypeOK
<1>2. bestHeight \in Nat /\ bestHeight > 0
  BY <1>1, RelayConstants DEF Heights
<1> QED
  BY <1>1, <1>2 DEF IInv, BestIsMain, Stored, Main

\* A new block leaves the ancestors of every stored one as they were.
LEMMA SubmitAncestors ==
  ASSUME IInv, ParentsEarlier, NEW block, NEW prev, Submitted(block, prev),
         NEW tip \in Stored
  PROVE  Ancestors(parent', tip) = Ancestors(parent, tip)
<1>1. \A b \in Stored : parent'[b] = parent[b]
  BY StoredStay
<1> QED
  BY <1>1, StoredClosed, AncestorsKept

LEMMA SubmitEarlier ==
  ASSUME IInv, ParentsEarlier, NEW block, NEW prev, Submitted(block, prev)
  PROVE  ParentsEarlier'
  BY RelayTypes DEF ParentsEarlier, Submitted

\* A fork that was emptied stays empty, and a reorganisation empties one.
LEMMA LiveBefore ==
  ASSUME IInv, NEW block \in Blocks, NEW prev \in Blocks, Submitted(block, prev),
         Outcomes(block, prev), AllLive'
  PROVE  AllLive /\ ~Reorganised(block, prev)
<1>1. /\ chainCounter \in Nat /\ chainCounter' \in {chainCounter, chainCounter + 1}
      /\ chainCounter' \in ChainIds /\ 1 .. chainCounter' \subseteq ChainIds
  <2>1. /\ chainCounter \in Nat /\ chainCounter' \in {chainCounter, chainCounter + 1}
        /\ chainCounter' \in ChainIds
    BY RelayTypes DEF Submitted
  <2>2. 1 .. chainCounter' \subseteq ChainIds
    BY <2>1, RelayConstants DEF ChainIds
  <2> QED
    BY <2>1, <2>2
<1>2. 1 .. chainCounter \subseteq 1 .. chainCounter'
  BY <1>1
<1>3. \A id \in 1 .. chainCounter : id \in ChainIds /\ forks'[id].descendants # <<>>
  BY <1>1, <1>2 DEF AllLive, LiveForks
<1>4. ~Reorganised(block, prev)
  <2> SUFFICES ASSUME Reorganised(block, prev) PROVE FALSE
    OBVIOUS
  <2> DEFINE id == headers[prev].chainId
  <2>1. forks'[id].descendants = <<>> /\ id # 0
    BY RelayTypes DEF Reorganised, ReorgChain, NoFork
  <2>2. id \in ChainIds /\ id <= chainCounter
    BY RelayTypes DEF IInv, CountedForks
  <2>3. id \in 1 .. chainCounter
    BY <1>1, <2>1, <2>2, RelayTypes
  <2> QED
    BY <1>3, <2>1, <2>3
<1>5. ASSUME NEW id \in 1 .. chainCounter PROVE forks[id].descendants # <<>>
  <2>1. id \in ChainIds /\ forks'[id].descendants # <<>> /\ id # 0
    BY <1>3
  <2>2. CASE NewFork(block, prev)
    <3>1. id # chainCounter + 1
      BY <1>1
    <3>2. /\ chainCounter' = chainCounter + 1
          /\ forks' = [forks EXCEPT ![chainCounter'] =
                         [height |-> headers[prev].height + 1, ancestor |-> prev,
                          descendants |-> <<block>>]]
      BY <2>2 DEF NewFork, InitializeFork, IncrementChainCounter
    <3>3. forks'[id] = forks[id]
      BY <2>1, <3>1, <3>2, RelayTypes
    <3> QED
      BY <2>1, <3>3
  <2>3. CASE OnMain(block, prev)
    <3>1. forks'[id] = forks[id]
      BY <2>1, <2>3, RelayTypes DEF OnMain, ExtendMain
    <3> QED
      BY <2>1, <3>1
  <2>4. CASE OnFork(block, prev)
    <3>1. headers[prev].chainId \in LiveForks
      BY <2>4, PrevIsTip DEF OnFork, Submitted
    <3>2. id # headers[prev].chainId => forks'[id] = forks[id]
      BY <2>1, <2>4, RelayTypes DEF OnFork, ExtendFork
    <3> QED
      BY <2>1, <3>1, <3>2 DEF LiveForks
  <2> QED
    BY <1>4, <2>2, <2>3, <2>4 DEF Outcomes
<1>6. AllLive
  BY <1>3, <1>5 DEF AllLive, LiveForks
<1> QED
  BY <1>4, <1>6

\* On one path, the block that is extended is the best one.
LEMMA MainTipIsBest ==
  ASSUME IInv, BestLeadsMain, NEW block, NEW prev, Submitted(block, prev),
         OnMain(block, prev)
  PROVE  prev = bestBlock
<1>1. prev \in Main /\ headers[prev].height = bestHeight
  BY DEF BestLeadsMain, OnMain, Main, Submitted
<1> QED
  BY <1>1, BestIsStored DEF BestLeadsMain

LEMMA OnMainPath ==
  ASSUME IInv, ParentsEarlier, BestLeadsMain, NEW block \in Blocks,
         NEW prev \in Blocks, Submitted(block, prev), OnMain(block, prev)
  PROVE  /\ BestLeadsMain'
         /\ Ancestors(parent', bestBlock')
              = {block} \cup Ancestors(parent, bestBlock)
<1> DEFINE height == headers[prev].height + 1
<1>1. prev = bestBlock
  BY MainTipIsBest
<1>2. height = bestHeight + 1
  BY <1>1, BestIsStored
<1>3. /\ bestBlock' = block /\ bestHeight' = height
      /\ forks' = [forks EXCEPT ![0].height = height]
      /\ headers' = [headers EXCEPT ![block] = [height |-> height, chainId |-> 0]]
  BY DEF OnMain, ExtendMain, StoreBlockHeader
<1> HIDE DEF height
<1>4. /\ parent' \in [Blocks -> AllBlocks] /\ parent'[block] = prev
      /\ prev # NoBlock
  <2>1. prev \in AllBlocks /\ prev # NoBlock
    BY BlockNumbers, RelayTypes
  <2>2. parent \in [Blocks -> AllBlocks] /\ parent' = [parent EXCEPT ![block] = prev]
    BY RelayTypes DEF Submitted
  <2> QED
    BY <2>1, <2>2
<1>5. Ancestors(parent', block) = {block} \cup Ancestors(parent', prev)
  BY <1>4, AncestorsUnfold
<1>6. Ancestors(parent', block) = {block} \cup Ancestors(parent, bestBlock)
  BY <1>1, <1>5, BestIsStored, SubmitAncestors
<1>7. /\ \A b \in Stored : headers'[b] = headers[b] /\ b # block
      /\ headers'[block].chainId = 0 /\ Stored' = Stored \cup {block}
  BY <1>3, RelayTypes, StoredGrows, StoredStay
<1>8. Main' = Main \cup {block}
  BY <1>7 DEF Main
<1>9. forks'[0].height = height
  BY <1>3, RelayTypes
<1>10. ASSUME NEW b \in Main' \ {block} PROVE headers'[b].height < height
  <2>1. b \in Main /\ b \in Stored
    BY <1>8, <1>10 DEF Main
  <2>2. headers[b].height \in Nat /\ headers[b].height <= bestHeight
    BY <2>1, NatHeights, BestIsStored DEF BestLeadsMain
  <2> QED
    BY <1>2, <1>7, <2>1, <2>2, BestIsStored
<1>11. BestLeadsMain'
  BY <1>3, <1>6, <1>8, <1>9, <1>10 DEF BestLeadsMain
<1> QED
  BY <1>3, <1>6, <1>11

\* A block that goes to a fork leaves the main chain alone.
LEMMA OffMainPath ==
  ASSUME IInv, ParentsEarlier, NEW block \in Blocks, NEW prev \in Blocks,
         Submitted(block, prev), NewFork(block, prev) \/ OnFork(block, prev)
  PROVE  /\ bestBlock' = bestBlock
         /\ Ancestors(parent', bestBlock') = Ancestors(parent, bestBlock)
         /\ BestLeadsMain => BestLeadsMain'
<1>1. /\ bestBlock' = bestBlock /\ bestHeight' = bestHeight
      /\ forks'[0] = forks[0]
      /\ \A b \in Stored : headers'[b] = headers[b] /\ b # block
      /\ headers'[block].chainId # 0
  <2>1. CASE NewFork(block, prev)
    <3>1. /\ chainCounter' = chainCounter + 1
          /\ headers' = [headers EXCEPT ![block] =
                           [height |-> headers[prev].height + 1, chainId |-> chainCounter']]
          /\ forks' = [forks EXCEPT ![chainCounter'] =
                         [height |-> headers[prev].height + 1, ancestor |-> prev,
                          descendants |-> <<block>>]]
          /\ UNCHANGED <<bestHeight, bestBlock>>
      BY <2>1 DEF NewFork, InitializeFork, IncrementChainCounter, StoreBlockHeader
    <3>2. chainCounter' # 0
      BY <3>1, RelayTypes
    <3> QED
      BY <3>1, <3>2, RelayTypes, StoredStay
  <2>2. CASE OnFork(block, prev)
    <3>1. /\ headers[prev].chainId # 0
          /\ headers' = [headers EXCEPT ![block] =
                           [height |-> headers[prev].height + 1,
                            chainId |-> headers[prev].chainId]]
          /\ forks' = [forks EXCEPT ![headers[prev].chainId].height = headers[prev].height + 1,
                                   ![headers[prev].chainId].descendants = Append(@, block)]
          /\ UNCHANGED <<bestHeight, bestBlock>>
      BY <2>2 DEF OnFork, ExtendFork, StoreBlockHeader
    <3> QED
      BY <3>1, RelayTypes, StoredStay
  <2> QED
    BY <2>1, <2>2
<1>2. Ancestors(parent', bestBlock') = Ancestors(parent, bestBlock)
  BY <1>1, BestIsStored, SubmitAncestors
<1>3. Main' = Main
  BY <1>1, StoredGrows DEF Main
<1>4. \A b \in Main : headers'[b] = headers[b]
  BY <1>1 DEF Main
<1> QED
  BY <1>1, <1>2, <1>3, <1>4 DEF BestLeadsMain

\* A header that is not a tip's successor is no higher than a stored one, a
\* fork is extended only as long as it does not lead, and a block on the main
\* chain raises the best height.
LEMMA NobodyLeads ==
  ASSUME IInv, AllLive, BestLeadsMain, NoForkLeads, NEW block \in Blocks,
         NEW prev \in Blocks, Submitted(block, prev),
         NewFork(block, prev) \/ OnMain(block, prev) \/ OnFork(block, prev)
  PROVE  NoForkLeads'
<1> DEFINE id == headers[prev].chainId
           desc == forks[id].descendants
           anc == forks[id].ancestor
           height == headers[prev].height
<1>1. /\ height \in Nat /\ bestHeight \in Nat /\ CONFIRMATIONS \in Nat \ {0}
      /\ prev \in Stored /\ id \in ChainIds /\ id <= chainCounter
      /\ chainCounter \in Nat /\ ChainIds \subseteq Nat
  <2>1. prev \in Stored
    BY DEF Submitted
  <2> QED
    BY <2>1, NatHeights, BestIsStored, RelayConstants, RelayTypes
    DEF IInv, CountedForks
<1>2. /\ Stored' = Stored \cup {block} /\ headers'[block].height = height + 1
      /\ \A b \in Stored : headers'[b].height = headers[b].height
      /\ \A b \in Stored : headers[b].height \in Nat
  BY StoredGrows, StoredStay, NatHeights DEF Submitted
<1> SUFFICES /\ bestHeight' \in Nat /\ bestHeight' >= bestHeight
             /\ height + 1 < bestHeight' + CONFIRMATIONS
  BY <1>1, <1>2 DEF NoForkLeads
<1>3. CASE OnMain(block, prev)
  <2>1. prev = bestBlock
    BY <1>3, MainTipIsBest
  <2>2. bestHeight' = height + 1
    BY <1>3 DEF OnMain, ExtendMain
  <2>3. height = bestHeight
    BY <2>1, BestIsStored
  <2> QED
    BY <1>1, <2>2, <2>3
<1>4. CASE OnFork(block, prev)
  <2>1. bestHeight' = bestHeight /\ ~(height + 1 >= bestHeight + CONFIRMATIONS)
    BY <1>4 DEF OnFork, ExtendFork, LeadsBest
  <2> QED
    BY <1>1, <2>1
<1>5. CASE NewFork(block, prev)
  <2>1. bestHeight' = bestHeight /\ forks[id].height # height
    BY <1>5 DEF NewFork, InitializeFork
  <2>2. CASE id = 0
    <3>1. prev \in Main /\ forks[0].height = bestHeight
      BY <1>1, <2>2 DEF Main, BestLeadsMain
    <3>2. prev # bestBlock
      BY <2>1, <2>2, <3>1, BestIsStored
    <3>3. height < bestHeight
      BY <3>1, <3>2 DEF BestLeadsMain
    <3> QED
      BY <1>1, <2>1, <3>3
  <2>3. CASE id # 0
    <3>1. id \in LiveForks
      <4> HIDE DEF id
      <4>1. id \in 1 .. chainCounter
        BY <1>1, <2>3
      <4> QED
        BY <4>1 DEF AllLive
    <3>2. PICK i \in 1 .. Len(desc) : prev = desc[i]
      BY <1>1, <3>1 DEF IInv, Members
    <3>3. /\ anc \in Stored /\ forks[id].height = headers[anc].height + Len(desc)
          /\ \A j \in 1 .. Len(desc) :
               /\ desc[j] \in Stored
               /\ headers[desc[j]].height = headers[anc].height + j
      BY <3>1 DEF IInv, Branch
    <3>4. headers[anc].height \in Nat /\ Len(desc) \in Nat
      <4>1. desc \in Seq(Blocks)
        BY <1>1, RelayTypes
      <4> QED
        BY <3>3, <4>1, NatHeights
    <3>5. height = headers[anc].height + i
      BY <3>2, <3>3
    <3> HIDE DEF desc, anc, height, id
    <3>6. i + 1 \in 1 .. Len(desc)
      BY <2>1, <3>2, <3>3, <3>4, <3>5
    <3>7. /\ desc[i + 1] \in Stored
          /\ headers[desc[i + 1]].height = headers[anc].height + (i + 1)
      BY <3>3, <3>6
    <3>8. headers[anc].height + (i + 1) = height + 1
      BY <3>4, <3>5, <3>6
    <3> QED
      BY <1>1, <2>1, <3>7, <3>8 DEF NoForkLeads
  <2> QED
    BY <2>2, <2>3
<1> QED
  BY <1>3, <1>4, <1>5

LEMMA NextPath == IInv /\ PathInv /\ [Next]_vars => PathInv'
<1>1. ASSUME IInv, PathInv, NEW block \in Blocks, NEW prev \in Blocks,
             NEW target \in Targets, NEW time \in Timestamps,
             \A b \in 1 .. (block - 1) : b \in Stored,
             SubmitBlockHeader(block, prev, target, time)
      PROVE  PathInv'
  <2>1. Submitted(block, prev) /\ Outcomes(block, prev) /\ ParentsEarlier
    BY <1>1, SubmitStores, SubmitOutcomes DEF PathInv
  <2>2. ASSUME AllLive' PROVE BestLeadsMain' /\ NoForkLeads'
    <3>1. AllLive /\ ~Reorganised(block, prev)
      BY <1>1, <2>1, <2>2, LiveBefore
    <3>2. BestLeadsMain /\ NoForkLeads
      BY <1>1, <3>1 DEF PathInv
    <3>3. NoForkLeads'
      BY <1>1, <2>1, <3>1, <3>2, NobodyLeads DEF Outcomes
    <3> QED
      BY <1>1, <2>1, <3>1, <3>2, <3>3, OnMainPath, OffMainPath DEF Outcomes
  <2>3. ParentsEarlier'
    BY <1>1, <2>1, SubmitEarlier
  <2> QED
    BY <2>2, <2>3 DEF PathInv
<1>2. PathInv /\ UNCHANGED vars => PathInv'
  BY DEF vars, PathInv, ParentsEarlier, AllLive, BestLeadsMain, NoForkLeads,
         Main, Stored, LiveForks
<1> QED
  BY <1>1, <1>2 DEF Next

LEMMA PathAlways == Spec => [](IInv /\ PathInv)
<1>1. Init => IInv /\ PathInv
  BY InitIInv, InitPath
<1>2. IInv /\ PathInv /\ [Next]_vars => (IInv /\ PathInv)'
  BY NextIInv, NextPath
<1> QED
  BY <1>1, <1>2, PTL DEF Spec

LEMMA BestChainIs ==
  IInv /\ PathInv => BestChain = Ancestors(parent, bestBlock)
<1> SUFFICES ASSUME IInv, PathInv PROVE BestChain = Ancestors(parent, bestBlock)
  OBVIOUS
<1>1. bestBlock \in Blocks /\ parent \in [Blocks -> AllBlocks]
  BY BestIsStored, RelayTypes
<1> QED
  BY <1>1, BackIsAncestors DEF BestChain, PathInv

\* However headers arrive, the main chain ends in the best block; until the
\* first reorganisation it is also just the path of blocks down from there,
\* the only block of it that a header can extend is the best, and no stored
\* block leads the best by the required confirmations.
THEOREM MainStaysBestChain == Spec => []MainIsBestChain
<1>1. IInv /\ PathInv => MainIsBestChain
  BY BestChainIs
  DEF MainIsBestChain, MainIsOnePath, IInv, PathInv, AllLive, BestLeadsMain,
      NoForkLeads, Main
<1> QED
  BY <1>1, PathAlways, PTL

\* However headers arrive, a block leaves the best chain only when another
\* branch leads by the required confirmations or, once a reorganisation has
\* left a fork without its entry, when the old main chain is continued.
THEOREM BestChainLeads == Spec => BestChainReplaced
<1>1. ASSUME IInv, PathInv, NEW block \in Blocks, NEW prev \in Blocks,
             NEW target \in Targets, NEW time \in Timestamps,
             \A b \in 1 .. (block - 1) : b \in Stored,
             SubmitBlockHeader(block, prev, target, time),
             BestChain = Ancestors(parent, bestBlock),
             BestChain' = Ancestors(parent', bestBlock')
      PROVE  BestChainReplacedStep
  <2>1. Submitted(block, prev) /\ Outcomes(block, prev) /\ ParentsEarlier
    BY <1>1, SubmitStores, SubmitOutcomes DEF PathInv
  <2>2. CASE NewFork(block, prev) \/ OnFork(block, prev)
    <3>1. BestChain' = BestChain
      BY <1>1, <2>1, <2>2, OffMainPath
    <3> QED
      BY <3>1 DEF BestChainReplacedStep
  <2>3. CASE Reorganised(block, prev)
    BY <2>3 DEF Reorganised, LeadsBest, ReorgChain, BestChainReplacedStep
  <2>4. CASE OnMain(block, prev) /\ AllLive
    <3>1. BestChain \subseteq BestChain'
      BY <1>1, <2>1, <2>4, OnMainPath DEF PathInv
    <3> QED
      BY <3>1 DEF BestChainReplacedStep
  <2>5. CASE OnMain(block, prev) /\ ~AllLive
    <3>1. bestBlock' = block /\ parent'[block] = prev
      BY <1>1, <2>1, <2>5, RelayTypes DEF OnMain, ExtendMain, Submitted
    <3>2. headers[prev].chainId = MAIN_CHAIN_ID
      BY <2>5 DEF OnMain
    <3> QED
      BY <2>5, <3>1, <3>2 DEF BestChainReplacedStep, AllLive
  <2> QED
    BY <2>1, <2>2, <2>3, <2>4, <2>5 DEF Outcomes
<1>2. ASSUME IInv, PathInv, BestChain = Ancestors(parent, bestBlock),
             (BestChain = Ancestors(parent, bestBlock))', [Next]_vars
      PROVE  [BestChainReplacedStep]_vars
  <2>1. CASE UNCHANGED vars
    BY <2>1
  <2>2. CASE Next
    BY <1>1, <1>2, <2>2 DEF Next
  <2> QED
    BY <1>2, <2>1, <2>2
<1> QED
  BY <1>2, PathAlways, BestChainIs, PTL DEF Spec, BestChainReplaced
=============================================================================
