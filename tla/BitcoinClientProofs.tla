-------------------------- MODULE BitcoinClientProofs --------------------------
(***************************************************************************)
(* Theorems about the bitcoin client, for any number of calls, outputs,    *)
(* blocks and retries: what is funded under the lock can be sent, a call   *)
(* pays at most once, what a wait returns belongs together, and the calls  *)
(* do what Reservations promises.                                          *)
(***************************************************************************)
EXTENDS BitcoinClient, TLAPS

\* What of the type the arguments below need.
Shape ==
  /\ pc \in [Calls -> Labels]
  /\ tx \in [Calls -> Transactions \cup {NoTx}]
  /\ accepted \subseteq Transactions

\* A transaction that is not yet sent belongs to the holder of the lock and
\* spends an output that nothing accepted spends.
FundedUnderLock ==
  \A c \in Calls : Signed(c) =>
    /\ holder = c
    /\ tx[c].payer = c
    /\ \A t \in accepted : t.coin # tx[c].coin

\* A call has a transaction from funding it until it fails.
HasTransaction ==
  \A c \in Calls :
    /\ Signed(c) => tx[c] \in Transactions
    /\ pc[c] \notin {"funded", "locked", "sent", "mined", "proved", "done"}
         => tx[c] = NoTx

\* Before it is sent nothing of the call has been accepted.
NotYetPaid ==
  \A c \in Calls : pc[c] \in {"idle", "backoff", "queued", "funded", "locked"}
                     => \A t \in accepted : t.payer # c

\* Afterwards its own transaction has been, and only that.
PaidIt ==
  \A c \in Calls : pc[c] \in {"sent", "mined", "proved", "done"} /\ tx[c] # NoTx
                     => tx[c] \in accepted /\ tx[c].payer = c

PaidOnce == \A s, t \in accepted : s.payer = t.payer => s = t

IInv ==
  /\ Shape
  /\ FundedUnderLock
  /\ HasTransaction
  /\ NotYetPaid
  /\ PaidIt
  /\ PaidOnce

LEMMA InitIInv == Init => IInv
  BY DEF Init, NodeInit, IInv, Shape, FundedUnderLock, HasTransaction,
         NotYetPaid, PaidIt, PaidOnce, Signed, Labels

\* A call that fails or is dropped takes its transaction with it; whatever
\* had been accepted stays.
LEMMA FailKeepsIInv ==
  ASSUME IInv, NEW c \in Calls, Fail(c), UNCHANGED accepted
  PROVE  IInv'
<1> USE DEF IInv
<1>1. pc' = [pc EXCEPT ![c] = "failed"] /\ tx' = [tx EXCEPT ![c] = NoTx]
  BY DEF Fail, Goto
<1>2. \A d \in Calls \ {c} : Signed(d) => holder' = holder
  BY DEF Fail, Release, FundedUnderLock
<1>3. Shape'
  BY <1>1 DEF Shape, Labels, Ended
<1>4. FundedUnderLock'
  BY <1>1, <1>2 DEF Shape, FundedUnderLock, Signed
<1>5. HasTransaction'
  BY <1>1 DEF Shape, HasTransaction, Signed
<1>6. NotYetPaid' /\ PaidIt' /\ PaidOnce'
  BY <1>1 DEF Shape, NotYetPaid, PaidIt, PaidOnce
<1> QED
  BY <1>3, <1>4, <1>5, <1>6

\* Accepting the holder's transaction is its call's first payment.
LEMMA AcceptPaysFirst ==
  ASSUME IInv, NEW c \in Calls, pc[c] = "locked",
         accepted' = accepted \cup {tx[c]}
  PROVE  /\ accepted' \subseteq Transactions
         /\ PaidOnce'
         /\ tx[c].payer = c
         /\ \A d \in Calls \ {c} : ~Signed(d)
<1> USE DEF IInv
<1>1. Signed(c)
  BY DEF Signed
<1>2. tx[c] \in Transactions /\ tx[c].payer = c /\ holder = c
  BY <1>1 DEF HasTransaction, FundedUnderLock
<1>3. \A t \in accepted : t.payer # c
  BY DEF NotYetPaid
<1> QED
  BY <1>2, <1>3 DEF Shape, PaidOnce, FundedUnderLock

\* Every step of a payment up to sending it.
LEMMA SendingKeepsIInv ==
  ASSUME IInv, NEW c \in Calls,
         \/ CreateTransaction(c) \/ FundRawTransaction(c)
         \/ SignRawTransaction(c) \/ SendRawTransaction(c) \/ AnswerLost(c)
         \/ WalletErrorOnCreate(c) \/ WalletErrorOnSend(c)
  PROVE  IInv'
<1> USE DEF IInv
<1>1. CASE CreateTransaction(c)
  <2>1. \A d \in Calls : Signed(d) => d # c /\ holder' = holder
    BY <1>1, ClientConstants DEF CreateTransaction, Acquire, Signed, FundedUnderLock
  <2> QED
    BY <1>1, <2>1 DEF CreateTransaction, Goto, Shape, Labels, FundedUnderLock,
       HasTransaction, NotYetPaid, PaidIt, PaidOnce, Signed, nodeVars
<1>2. CASE FundRawTransaction(c)
  <2>1. PICK coin \in Unspent : tx' = [tx EXCEPT ![c] = [payer |-> c, coin |-> coin]]
    BY <1>2 DEF FundRawTransaction
  <2>2. pc' = [pc EXCEPT ![c] = "funded"] /\ accepted' = accepted /\ holder' = holder
    BY <1>2 DEF FundRawTransaction, Goto, nodeVars, lockVars
  <2>3. /\ [payer |-> c, coin |-> coin] \in Transactions
        /\ \A t \in accepted : t.coin # coin
    BY ClientConstants DEF Unspent, Transactions
  <2>4. \A d \in Calls \ {c} : ~Signed(d)
    BY <1>2 DEF FundRawTransaction, FundedUnderLock
  <2>5. pc[c] = "queued" /\ holder = c
    BY <1>2 DEF FundRawTransaction
  <2> QED
    BY <2>1, <2>2, <2>3, <2>4, <2>5 DEF Shape, Labels, FundedUnderLock,
       HasTransaction, NotYetPaid, PaidIt, PaidOnce, Signed
<1>3. CASE SignRawTransaction(c)
  BY <1>3 DEF SignRawTransaction, Goto, Shape, Labels, FundedUnderLock,
     HasTransaction, NotYetPaid, PaidIt, PaidOnce, Signed, nodeVars, lockVars
<1>4. CASE SendRawTransaction(c)
  <2>1. /\ pc[c] = "locked" /\ pc' = [pc EXCEPT ![c] = "sent"] /\ tx' = tx
        /\ accepted' = accepted \cup {tx[c]}
    BY <1>4 DEF SendRawTransaction, Goto, Accept
  <2>2. /\ accepted' \subseteq Transactions
        /\ PaidOnce'
        /\ tx[c].payer = c
        /\ \A d \in Calls \ {c} : ~Signed(d)
    BY <2>1, AcceptPaysFirst
  <2>3. Shape' /\ HasTransaction'
    BY <2>1, <2>2 DEF Shape, Labels, HasTransaction, Signed
  <2>4. FundedUnderLock'
    BY <2>1, <2>2 DEF Shape, FundedUnderLock, Signed
  <2>5. NotYetPaid' /\ PaidIt'
    BY <2>1, <2>2 DEF Shape, NotYetPaid, PaidIt
  <2> QED
    BY <2>2, <2>3, <2>4, <2>5
<1>5. CASE AnswerLost(c)
  <2>1. /\ pc[c] = "locked" /\ pc' = [pc EXCEPT ![c] = "failed"]
        /\ tx' = [tx EXCEPT ![c] = NoTx]
        /\ accepted' = accepted \cup {tx[c]}
    BY <1>5 DEF AnswerLost, Fail, Goto, Accept
  <2>2. /\ accepted' \subseteq Transactions
        /\ PaidOnce'
        /\ tx[c].payer = c
        /\ \A d \in Calls \ {c} : ~Signed(d)
    BY <2>1, AcceptPaysFirst
  <2>3. Shape' /\ HasTransaction'
    BY <2>1, <2>2 DEF Shape, Labels, Ended, HasTransaction, Signed
  <2>4. FundedUnderLock'
    BY <2>1, <2>2 DEF Shape, FundedUnderLock, Signed
  <2>5. NotYetPaid' /\ PaidIt'
    BY <2>1, <2>2 DEF Shape, NotYetPaid, PaidIt
  <2> QED
    BY <2>2, <2>3, <2>4, <2>5
<1>6. CASE WalletErrorOnCreate(c)
  <2>1. CASE Exhausted(c)
    BY <1>6, <2>1, FailKeepsIInv DEF WalletErrorOnCreate, Exhausted
  <2>2. CASE ~Exhausted(c)
    <3>1. /\ pc[c] \in {"queued", "funded"} /\ pc' = [pc EXCEPT ![c] = "backoff"]
          /\ tx' = [tx EXCEPT ![c] = NoTx] /\ accepted' = accepted
          /\ holder = c
      BY <1>6, <2>2 DEF WalletErrorOnCreate, Again, Goto
    <3>2. \A d \in Calls \ {c} : ~Signed(d)
      BY <3>1 DEF FundedUnderLock
    <3> QED
      BY <3>1, <3>2 DEF Shape, Labels, FundedUnderLock, HasTransaction,
         NotYetPaid, PaidIt, PaidOnce, Signed
  <2> QED
    BY <2>1, <2>2
<1>7. CASE WalletErrorOnSend(c)
  <2>1. CASE Exhausted(c)
    BY <1>7, <2>1, FailKeepsIInv DEF WalletErrorOnSend, Exhausted
  <2>2. CASE ~Exhausted(c)
    <3>1. /\ pc[c] = "locked" /\ pc' = [pc EXCEPT ![c] = "locked"]
          /\ tx' = tx /\ accepted' = accepted /\ holder' = holder
      BY <1>7, <2>2 DEF WalletErrorOnSend, Again, Goto, lockVars
    <3>2. pc' = pc
      BY <3>1 DEF Shape
    <3> QED
      BY <3>1, <3>2 DEF Shape, FundedUnderLock, HasTransaction, NotYetPaid,
         PaidIt, PaidOnce, Signed
  <2> QED
    BY <2>1, <2>2
<1> QED
  BY <1>1, <1>2, <1>3, <1>4, <1>5, <1>6, <1>7

\* The steps that only read the chain: they leave the lock, the transactions
\* and what was accepted alone, and stay outside the part under the lock.
LEMMA ReadingMoves ==
  ASSUME NEW c \in Calls,
         \/ GetTransaction(c) \/ GetProof(c) \/ GetRawTx(c)
         \/ WaitForBlock(c) \/ GetBlockHash(c) \/ GetBlockInfo(c) \/ GetBlock(c)
  PROVE  /\ tx' = tx /\ accepted' = accepted /\ holder' = holder
         /\ \E label \in {"mined", "proved", "done", "hash", "info", "block"} :
              /\ pc' = [pc EXCEPT ![c] = label]
              /\ \/ /\ pc[c] \in {"sent", "mined", "proved"}
                    /\ label \in {"mined", "proved", "done"}
                 \/ /\ pc[c] \in {"idle", "hash", "info", "block"}
                    /\ label \in {"hash", "info", "block", "done"}
<1>1. \/ pc[c] = "sent" /\ Goto(c, "mined")
      \/ pc[c] = "mined" /\ Goto(c, "proved")
      \/ pc[c] = "proved" /\ Goto(c, "done")
      \/ pc[c] = "idle" /\ Goto(c, "hash")
      \/ pc[c] = "hash" /\ Goto(c, "info")
      \/ pc[c] = "info" /\ \E next \in {"block", "hash"} : Goto(c, next)
      \/ pc[c] = "block" /\ Goto(c, "done")
  <2>1. CASE GetTransaction(c) BY <2>1, Zenon DEF GetTransaction
  <2>2. CASE GetProof(c) BY <2>2, Zenon DEF GetProof
  <2>3. CASE GetRawTx(c) BY <2>3, Zenon DEF GetRawTx
  <2>4. CASE WaitForBlock(c) BY <2>4, Zenon DEF WaitForBlock
  <2>5. CASE GetBlockHash(c) BY <2>5, Zenon DEF GetBlockHash
  <2>6. CASE GetBlockInfo(c) BY <2>6 DEF GetBlockInfo
  <2>7. CASE GetBlock(c) BY <2>7, Zenon DEF GetBlock
  <2> QED BY <2>1, <2>2, <2>3, <2>4, <2>5, <2>6, <2>7
<1>2. tx' = tx /\ accepted' = accepted /\ holder' = holder
  BY Zenon DEF GetTransaction, GetProof, GetRawTx, WaitForBlock, GetBlockHash,
     GetBlockInfo, GetBlock, nodeVars, lockVars
<1> QED
  BY <1>1, <1>2 DEF Goto

LEMMA ReadingKeepsIInv ==
  ASSUME IInv, NEW c \in Calls,
         \/ GetTransaction(c) \/ GetProof(c) \/ GetRawTx(c)
         \/ WaitForBlock(c) \/ GetBlockHash(c) \/ GetBlockInfo(c) \/ GetBlock(c)
  PROVE  IInv'
<1> USE DEF IInv
<1>1. tx' = tx /\ accepted' = accepted /\ holder' = holder
  BY ReadingMoves
<1>2. PICK label \in {"mined", "proved", "done", "hash", "info", "block"} :
        /\ pc' = [pc EXCEPT ![c] = label]
        /\ \/ /\ pc[c] \in {"sent", "mined", "proved"}
              /\ label \in {"mined", "proved", "done"}
           \/ /\ pc[c] \in {"idle", "hash", "info", "block"}
              /\ label \in {"hash", "info", "block", "done"}
  BY ReadingMoves
<1>3. Shape'
  BY <1>1, <1>2 DEF Shape, Labels, Ended
<1>4. FundedUnderLock' /\ HasTransaction'
  BY <1>1, <1>2 DEF Shape, FundedUnderLock, HasTransaction, Signed
<1>5. NotYetPaid' /\ PaidIt' /\ PaidOnce'
  BY <1>1, <1>2 DEF Shape, NotYetPaid, PaidIt, PaidOnce, HasTransaction
<1> QED
  BY <1>3, <1>4, <1>5

LEMMA StepKeepsIInv == IInv /\ [Next]_vars => IInv'
<1> SUFFICES ASSUME IInv, [Next]_vars PROVE IInv'
  OBVIOUS
<1>1. ASSUME NEW c \in Calls, Send(c) PROVE IInv'
  <2>1. CASE RetryLater(c)
    <3>1. CASE Exhausted(c)
      BY <2>1, <3>1, FailKeepsIInv DEF RetryLater, Exhausted, nodeVars
    <3>2. CASE ~Exhausted(c)
      <4>1. pc' = [pc EXCEPT ![c] = pc[c]] /\ tx' = tx /\ accepted' = accepted
            /\ holder' = holder
        BY <2>1, <3>2 DEF RetryLater, Again, Goto, nodeVars, lockVars
      <4>2. pc' = pc
        BY <4>1 DEF IInv, Shape
      <4> QED
        BY <4>1, <4>2 DEF IInv, Shape, FundedUnderLock, HasTransaction,
           NotYetPaid, PaidIt, PaidOnce, Signed
    <3> QED
      BY <3>1, <3>2
  <2>2. CASE ~RetryLater(c)
    BY <1>1, <2>2, SendingKeepsIInv, ReadingKeepsIInv DEF Send
  <2> QED
    BY <2>1, <2>2
<1>2. ASSUME NEW c \in Calls, Poll(c) PROVE IInv'
  BY <1>2, ReadingKeepsIInv DEF Poll
<1>3. ASSUME NEW c \in Calls, Failed(c) \/ GiveUp(c) PROVE IInv'
  BY <1>3, FailKeepsIInv DEF Failed, GiveUp, nodeVars
<1>4. CASE Node \/ UNCHANGED vars
  BY <1>4 DEF Node, NewBlock, Restart, vars, nodeVars, clientVars, lockVars,
     IInv, Shape, FundedUnderLock, HasTransaction, NotYetPaid, PaidIt, PaidOnce,
     Signed
<1> QED
  BY <1>1, <1>2, <1>3, <1>4 DEF Next, Step

LEMMA IInvAlways == Spec => []IInv
  BY InitIInv, StepKeepsIInv, PTL DEF Spec

\* For any calls, outputs and faults: what a call has funded and not yet sent
\* is spent by no other transaction, funded or accepted, so it can be sent.
THEOREM FundedCanBeSent == Spec => []LockedUnspent
<1>1. IInv => LockedUnspent
  BY DEF IInv, FundedUnderLock, LockedUnspent
<1> QED
  BY <1>1, IInvAlways, PTL

\* For any calls, outputs and faults: a call pays once if it succeeds and at
\* most once if it fails.
THEOREM NeverPaysTwice == Spec => []PaysOnce
<1>1. IInv => PaysOnce
  <2> SUFFICES ASSUME IInv, NEW c \in Calls
               PROVE  /\ \A s, t \in Payments(c) : s = t
                      /\ tx[c] # NoTx /\ ~Signed(c) => Payments(c) = {tx[c]}
    BY DEF PaysOnce
  <2>1. \A s, t \in Payments(c) : s = t
    BY DEF IInv, PaidOnce, Payments
  <2>2. ASSUME tx[c] # NoTx, ~Signed(c) PROVE tx[c] \in Payments(c)
    BY <2>2 DEF IInv, HasTransaction, PaidIt, Signed, Payments
  <2> QED
    BY <2>1, <2>2
<1> QED
  BY <1>1, IInvAlways, PTL

-----------------------------------------------------------------------------
\* The refinement: what each step does to the reservations.
Reserved == {tx[c] : c \in {d \in Calls : Signed(d)}}

\* The lock's holder has the only reservation.
LEMMA OneReservation ==
  ASSUME IInv, NEW c \in Calls, Signed(c)
  PROVE  Reserved = {tx[c]}
<1>1. \A d \in Calls : Signed(d) => d = c
  BY DEF IInv, FundedUnderLock
<1> QED
  BY <1>1 DEF Reserved

\* A step that leaves every transaction that is not yet sent alone, and pays
\* nothing, changes nothing of the reservations.
LEMMA SameReservations ==
  ASSUME \A d \in Calls : Signed(d)' = Signed(d),
         \A d \in Calls : Signed(d) => tx'[d] = tx[d]
  PROVE  Reserved' = Reserved
<1>1. {d \in Calls : Signed(d)}' = {d \in Calls : Signed(d)}
  OBVIOUS
<1> QED
  BY <1>1 DEF Reserved

\* A call that leaves the part between funding and sending gives its
\* reservation back.
LEMMA ReservationEnds ==
  ASSUME IInv, NEW c \in Calls, NEW label \in Labels \ {"funded", "locked"},
         pc' = [pc EXCEPT ![c] = label],
         \A d \in Calls \ {c} : tx'[d] = tx[d]
  PROVE  IF Signed(c) THEN Reserved = {tx[c]} /\ Reserved' = {}
                      ELSE Reserved' = Reserved
<1>1. /\ ~Signed(c)'
      /\ \A d \in Calls \ {c} : Signed(d)' = Signed(d)
  BY DEF IInv, Shape, Signed
<1>2. CASE Signed(c)
  <2>1. \A d \in Calls \ {c} : ~Signed(d)
    BY <1>2 DEF IInv, FundedUnderLock
  <2>2. Reserved' = {}
    BY <1>1, <2>1 DEF Reserved
  <2> QED
    BY <1>2, <2>2, OneReservation
<1>3. CASE ~Signed(c)
  <2>1. \A d \in Calls : Signed(d)' = Signed(d)
    BY <1>1, <1>3 DEF Signed
  <2>2. \A d \in Calls : Signed(d) => tx'[d] = tx[d]
    BY <1>3
  <2> QED
    BY <1>3, <2>1, <2>2, SameReservations
<1> QED
  BY <1>2, <1>3

\* A call that fails drops its reservation, if it has one.
LEMMA FailDrops ==
  ASSUME IInv, NEW c \in Calls, Fail(c), UNCHANGED accepted
  PROVE  [R!Next]_R!vars
<1>1. /\ pc' = [pc EXCEPT ![c] = "failed"]
      /\ \A d \in Calls \ {c} : tx'[d] = tx[d]
  BY DEF Fail, Goto, IInv, Shape
<1>2. IF Signed(c) THEN Reserved = {tx[c]} /\ Reserved' = {}
                   ELSE Reserved' = Reserved
  BY <1>1, ReservationEnds DEF Labels, Ended
<1>3. Reserved = {tx[c]} => Reserved # {}
  OBVIOUS
<1> QED
  BY <1>2, <1>3 DEF Reserved, R!Next, R!Drop, R!vars

\* A call that sends its transaction pays what was reserved.
LEMMA SendPays ==
  ASSUME IInv, NEW c \in Calls, pc[c] = "locked",
         NEW label \in {"sent", "failed"}, pc' = [pc EXCEPT ![c] = label],
         \A d \in Calls \ {c} : tx'[d] = tx[d],
         accepted' = accepted \cup {tx[c]}
  PROVE  [R!Next]_R!vars
<1>1. Signed(c)
  BY DEF Signed
<1>2. Reserved = {tx[c]} /\ Reserved' = {}
  BY <1>1, ReservationEnds DEF Labels, Ended
<1>3. Reserved # {} /\ accepted' = accepted \cup Reserved
  BY <1>2
<1> QED
  BY <1>2, <1>3 DEF Reserved, R!Next, R!Pay

\* Every step of a payment up to sending it: funding reserves, sending pays,
\* a wallet error drops.
LEMMA SendingRefines ==
  ASSUME IInv, NEW c \in Calls,
         \/ CreateTransaction(c) \/ FundRawTransaction(c)
         \/ SignRawTransaction(c) \/ SendRawTransaction(c) \/ AnswerLost(c)
         \/ WalletErrorOnCreate(c) \/ WalletErrorOnSend(c)
  PROVE  [R!Next]_R!vars
<1>1. CASE CreateTransaction(c)
  <2>1. /\ pc[c] \in {"idle", "backoff"} /\ pc' = [pc EXCEPT ![c] = "queued"]
        /\ tx' = tx /\ accepted' = accepted
    BY <1>1 DEF CreateTransaction, Goto, nodeVars
  <2>2. Reserved' = Reserved
    BY <2>1, ReservationEnds DEF Labels, Signed
  <2> QED
    BY <2>1, <2>2 DEF Reserved, R!vars
<1>2. CASE FundRawTransaction(c)
  <2>1. PICK coin \in Unspent : tx' = [tx EXCEPT ![c] = [payer |-> c, coin |-> coin]]
    BY <1>2 DEF FundRawTransaction
  <2>2. /\ pc[c] = "queued" /\ holder = c
        /\ pc' = [pc EXCEPT ![c] = "funded"] /\ accepted' = accepted
    BY <1>2 DEF FundRawTransaction, Goto, nodeVars
  <2>3. \A d \in Calls : ~Signed(d)
    BY <2>2 DEF IInv, FundedUnderLock, Signed
  <2>4. Reserved = {}
    BY <2>3 DEF Reserved
  <2>5. \A d \in Calls : Signed(d)' <=> d = c
    BY <2>2, <2>3 DEF IInv, Shape, Signed
  <2>6. tx'[c] = [payer |-> c, coin |-> coin]
    BY <2>1 DEF IInv, Shape
  <2>7. Reserved' = {[payer |-> c, coin |-> coin]}
    BY <2>5, <2>6 DEF Reserved
  <2>8. \A t \in accepted : t.payer # c
    BY <2>2 DEF IInv, NotYetPaid
  <2>9. c \in Payers /\ coin \in Coins \ {t.coin : t \in accepted}
    BY ClientConstants DEF Unspent
  <2>10. R!Reserve(c)
    BY <2>2, <2>4, <2>7, <2>8, <2>9 DEF Reserved, R!Reserve
  <2> QED
    BY <2>9, <2>10 DEF R!Next
<1>3. CASE SignRawTransaction(c)
  <2>1. /\ pc[c] = "funded" /\ pc' = [pc EXCEPT ![c] = "locked"]
        /\ tx' = tx /\ accepted' = accepted
    BY <1>3 DEF SignRawTransaction, Goto, nodeVars
  <2>2. \A d \in Calls : Signed(d)' = Signed(d)
    BY <2>1 DEF IInv, Shape, Signed
  <2>3. Reserved' = Reserved
    BY <2>1, <2>2, SameReservations
  <2> QED
    BY <2>1, <2>3 DEF Reserved, R!vars
<1>4. CASE SendRawTransaction(c)
  BY <1>4, SendPays DEF SendRawTransaction, Goto, Accept
<1>5. CASE AnswerLost(c)
  <2>1. /\ pc[c] = "locked" /\ pc' = [pc EXCEPT ![c] = "failed"]
        /\ tx' = [tx EXCEPT ![c] = NoTx]
        /\ accepted' = accepted \cup {tx[c]}
    BY <1>5 DEF AnswerLost, Fail, Goto, Accept
  <2>2. \A d \in Calls \ {c} : tx'[d] = tx[d]
    BY <2>1 DEF IInv, Shape
  <2> QED
    BY <2>1, <2>2, SendPays
<1>6. CASE WalletErrorOnCreate(c)
  <2>1. CASE Exhausted(c)
    BY <1>6, <2>1, FailDrops DEF WalletErrorOnCreate, Exhausted
  <2>2. CASE ~Exhausted(c)
    <3>1. /\ pc' = [pc EXCEPT ![c] = "backoff"]
          /\ tx' = [tx EXCEPT ![c] = NoTx] /\ accepted' = accepted
      BY <1>6, <2>2 DEF WalletErrorOnCreate, Again, Goto
    <3>2. \A d \in Calls \ {c} : tx'[d] = tx[d]
      BY <3>1 DEF IInv, Shape
    <3>3. IF Signed(c) THEN Reserved = {tx[c]} /\ Reserved' = {}
                       ELSE Reserved' = Reserved
      BY <3>1, <3>2, ReservationEnds DEF Labels
    <3>4. Reserved = {tx[c]} => Reserved # {}
      OBVIOUS
    <3> QED
      BY <3>1, <3>3, <3>4 DEF Reserved, R!Next, R!Drop, R!vars
  <2> QED
    BY <2>1, <2>2
<1>7. CASE WalletErrorOnSend(c)
  <2>1. CASE Exhausted(c)
    BY <1>7, <2>1, FailDrops DEF WalletErrorOnSend, Exhausted
  <2>2. CASE ~Exhausted(c)
    <3>1. /\ pc[c] = "locked" /\ pc' = [pc EXCEPT ![c] = "locked"]
          /\ tx' = tx /\ accepted' = accepted
      BY <1>7, <2>2 DEF WalletErrorOnSend, Again, Goto
    <3>2. pc' = pc
      BY <3>1 DEF IInv, Shape
    <3> QED
      BY <3>1, <3>2 DEF R!vars, Signed
  <2> QED
    BY <2>1, <2>2
<1> QED
  BY <1>1, <1>2, <1>3, <1>4, <1>5, <1>6, <1>7

\* The steps that only read the chain are no steps of the reservations.
LEMMA ReadingRefines ==
  ASSUME IInv, NEW c \in Calls,
         \/ GetTransaction(c) \/ GetProof(c) \/ GetRawTx(c)
         \/ WaitForBlock(c) \/ GetBlockHash(c) \/ GetBlockInfo(c) \/ GetBlock(c)
  PROVE  [R!Next]_R!vars
<1>1. tx' = tx /\ accepted' = accepted
  BY ReadingMoves
<1>2. PICK label \in {"mined", "proved", "done", "hash", "info", "block"} :
        pc' = [pc EXCEPT ![c] = label] /\ pc[c] \notin {"funded", "locked"}
  BY ReadingMoves
<1>3. Reserved' = Reserved
  BY <1>1, <1>2, ReservationEnds DEF Labels, Ended, Signed
<1> QED
  BY <1>1, <1>3 DEF Reserved, R!vars

LEMMA StepRefines == IInv /\ [Next]_vars => [R!Next]_R!vars
<1> SUFFICES ASSUME IInv, [Next]_vars PROVE [R!Next]_R!vars
  OBVIOUS
<1>1. ASSUME NEW c \in Calls, Send(c) PROVE [R!Next]_R!vars
  <2>1. CASE RetryLater(c)
    <3>1. CASE Exhausted(c)
      BY <2>1, <3>1, FailDrops DEF RetryLater, Exhausted, nodeVars
    <3>2. CASE ~Exhausted(c)
      <4>1. pc' = [pc EXCEPT ![c] = pc[c]] /\ tx' = tx /\ accepted' = accepted
        BY <2>1, <3>2 DEF RetryLater, Again, Goto, nodeVars
      <4>2. pc' = pc
        BY <4>1 DEF IInv, Shape
      <4> QED
        BY <4>1, <4>2 DEF R!vars, Signed
    <3> QED
      BY <3>1, <3>2
  <2>2. CASE ~RetryLater(c)
    BY <1>1, <2>2, SendingRefines, ReadingRefines DEF Send
  <2> QED
    BY <2>1, <2>2
<1>2. ASSUME NEW c \in Calls, Poll(c) PROVE [R!Next]_R!vars
  BY <1>2, ReadingRefines DEF Poll
<1>3. ASSUME NEW c \in Calls, Failed(c) \/ GiveUp(c) PROVE [R!Next]_R!vars
  BY <1>3, FailDrops DEF Failed, GiveUp, nodeVars
<1>4. CASE Node \/ UNCHANGED vars
  <2>1. pc' = pc /\ tx' = tx /\ accepted' = accepted
    BY <1>4 DEF Node, NewBlock, Restart, vars, nodeVars, clientVars
  <2> QED
    BY <2>1 DEF R!vars, Signed
<1> QED
  BY <1>1, <1>2, <1>3, <1>4 DEF Next, Step

\* For any calls, outputs and faults: the client implements reservations of
\* outputs, one at a time (the safety part of ReservationsImplemented; that
\* reservations end is left to TLC).
THEOREM ClientReserves == Spec => R!Spec
<1>1. Init => R!Init
  BY DEF Init, NodeInit, R!Init, Signed
<1> QED
  BY <1>1, IInvAlways, StepRefines, PTL DEF Spec, R!Spec

\* What follows from reservations alone: what is reserved is one transaction
\* that could be paid next.
ReservedFresh ==
  /\ \A s, t \in Reserved : s = t
  /\ \A s \in Reserved, t \in accepted : s.coin # t.coin /\ s.payer # t.payer

ReservationsInv == ReservedFresh /\ R!SpentOnce

\* A reservation keeps it: its coin is unspent and its payer has not paid.
LEMMA ReserveKeepsFresh ==
  ASSUME ReservationsInv, NEW p \in Payers, R!Reserve(p)
  PROVE  ReservationsInv'
<1>1. PICK coin \in Coins \ {t.coin : t \in accepted} :
        Reserved' = {[payer |-> p, coin |-> coin]}
  BY DEF R!Reserve, Reserved
<1>2. accepted' = accepted /\ \A t \in accepted : t.payer # p
  BY DEF R!Reserve
<1>3. ReservedFresh'
  BY <1>1, <1>2 DEF ReservedFresh
<1> QED
  BY <1>2, <1>3 DEF ReservationsInv, R!SpentOnce

\* So does paying: the one reservation joins the payments.
LEMMA PayKeepsFresh == ReservationsInv /\ R!Pay => ReservationsInv'
<1> SUFFICES ASSUME ReservationsInv, R!Pay PROVE ReservationsInv'
  OBVIOUS
<1>1. accepted' = accepted \cup Reserved /\ Reserved' = {}
  BY DEF R!Pay, Reserved
<1>2. R!SpentOnce'
  BY <1>1 DEF ReservationsInv, ReservedFresh, R!SpentOnce
<1> QED
  BY <1>1, <1>2 DEF ReservationsInv, ReservedFresh

LEMMA ReservationsKeepFresh ==
  ReservationsInv /\ [R!Next]_R!vars => ReservationsInv'
<1> SUFFICES ASSUME ReservationsInv, [R!Next]_R!vars PROVE ReservationsInv'
  OBVIOUS
<1>1. CASE \E p \in Payers : R!Reserve(p)
  BY <1>1, ReserveKeepsFresh
<1>2. CASE R!Pay
  BY <1>2, PayKeepsFresh
<1>3. CASE R!Drop
  <2>1. Reserved' = {} /\ accepted' = accepted
    BY <1>3 DEF R!Drop, Reserved
  <2> QED
    BY <2>1 DEF ReservationsInv, ReservedFresh, R!SpentOnce
<1>4. CASE UNCHANGED R!vars
  <2>1. Reserved' = Reserved /\ accepted' = accepted
    BY <1>4 DEF R!vars, Reserved
  <2> QED
    BY <2>1 DEF ReservationsInv, ReservedFresh, R!SpentOnce
<1> QED
  BY <1>1, <1>2, <1>3, <1>4 DEF R!Next

\* One reservation at a time is enough for no output to be spent twice and
\* nobody to pay twice, whatever is dropped.
THEOREM NothingSpentTwice == R!Spec => []R!SpentOnce
<1>1. R!Init => ReservationsInv
  BY DEF R!Init, ReservationsInv, ReservedFresh, R!SpentOnce, Reserved
<1>2. ReservationsInv => R!SpentOnce
  BY DEF ReservationsInv
<1> QED
  BY <1>1, <1>2, ReservationsKeepFresh, PTL DEF R!Spec

\* So the client's calls, however many pay at once and whatever is retried,
\* lost or dropped, never send two transactions that spend one output.
THEOREM ClientSpendsOnce == Spec => []R!SpentOnce
  BY ClientReserves, NothingSpentTwice, PTL

-----------------------------------------------------------------------------
\* What is learnt of the chain
AnyBlock == [height : Nat, path : SUBSET Nat, txs : SUBSET Transactions]

\* A block's path is of known blocks, and the tip is higher than every block
\* that came before it and as high as any.
Tree ==
  /\ blocks \in Seq(AnyBlock)
  /\ tip \in 1 .. Len(blocks)
  /\ \A a \in 1 .. Len(blocks) :
       /\ blocks[a].path \subseteq 1 .. Len(blocks)
       /\ blocks[a].height <= blocks[tip].height
  /\ \A a \in 1 .. (tip - 1) : blocks[a].height < blocks[tip].height

FoundShape ==
  found \in [Calls -> [block : Nat, height : Nat, proof : Nat, raw : Nat]]

Known(b) == b \in 1 .. Len(blocks)

\* What a call has learnt so far is of one block, which it has seen deep
\* enough once it is past that check.
Learnt(c) ==
  LET f == found[c]
      b == f.block
  IN  /\ pc[c] \in {"sent", "mined", "proved"} => tx[c] # NoTx
      /\ (pc[c] \in {"mined", "proved", "done"} /\ tx[c] # NoTx) =>
           /\ Known(b) /\ WasDeep(b)
           /\ f.height = blocks[b].height
      /\ (pc[c] \in {"proved", "done"} /\ tx[c] # NoTx) =>
           f.proof = b /\ tx[c] \in blocks[b].txs
      /\ (pc[c] = "done" /\ tx[c] # NoTx) => f.raw = b
      /\ (pc[c] \in {"info", "block", "done"} /\ tx[c] = NoTx) =>
           Known(b) /\ blocks[b].height = Height
      /\ (pc[c] \in {"block", "done"} /\ tx[c] = NoTx) => WasDeep(b)

FInv ==
  /\ Tree
  /\ FoundShape
  /\ \A c \in Calls : Learnt(c)

LEMMA InitFInv == Init => FInv
<1> SUFFICES ASSUME Init PROVE FInv
  OBVIOUS
<1>1. blocks = <<[height |-> 1, path |-> {1}, txs |-> {}]>> /\ tip = 1
  BY DEF Init, NodeInit
<1>2. [height |-> 1, path |-> {1}, txs |-> {}] \in AnyBlock
  BY DEF AnyBlock
<1>3. Tree
  BY <1>1, <1>2 DEF Tree
<1>4. FoundShape
  BY DEF Init, FoundShape, NothingFound, NoBlock
<1>5. \A c \in Calls : Learnt(c)
  BY DEF Init, Learnt
<1> QED
  BY <1>3, <1>4, <1>5 DEF FInv

\* The tip of the moment is one of those WasDeep asks about.
LEMMA DeepWasDeep ==
  ASSUME Tree, NEW b, Deep(b)
  PROVE  Known(b) /\ WasDeep(b)
<1>1. b \in MainChain
  <2>1. SUFFICES ASSUME b \notin MainChain PROVE FALSE
    OBVIOUS
  <2>2. Confirmations(b) = -1
    BY <2>1 DEF Confirmations
  <2> QED
    BY <2>2, ClientConstants DEF Deep
<1>2. tip \in 1 .. Len(blocks) /\ b \in blocks[tip].path /\ Known(b)
  BY <1>1 DEF MainChain, Tree, Known
<1>3. blocks[tip].height - blocks[b].height + 1 >= NumConfirmations
  BY <1>1 DEF Deep, Confirmations
<1>4. tip \in DOMAIN blocks
  BY <1>2 DEF Tree
<1> QED
  BY <1>2, <1>3, <1>4 DEF WasDeep, Tree

\* A new block changes nothing of those before it.
LEMMA NewBlockTree ==
  ASSUME Shape, Tree, NewBlock
  PROVE  /\ Tree'
         /\ Len(blocks') = Len(blocks) + 1
         /\ \A b \in 1 .. Len(blocks) : blocks'[b] = blocks[b]
<1> DEFINE n == Len(blocks)
<1>1. PICK p \in DOMAIN blocks, txs \in SUBSET accepted :
        /\ blocks' = Append(blocks, [height |-> blocks[p].height + 1, txs |-> txs,
                                     path |-> blocks[p].path \cup {n + 1}])
        /\ tip' = IF blocks[p].height + 1 > blocks[tip].height THEN n + 1 ELSE tip
  BY DEF NewBlock
<1> DEFINE new == [height |-> blocks[p].height + 1, txs |-> txs,
                   path |-> blocks[p].path \cup {n + 1}]
<1>2. /\ blocks \in Seq(AnyBlock) /\ n \in Nat /\ p \in 1 .. n /\ tip \in 1 .. n
      /\ \A a \in 1 .. n : blocks[a] \in AnyBlock
  BY <1>1 DEF Tree
<1>3. \A a \in 1 .. n : blocks[a].height \in Nat /\ blocks[a].path \subseteq 1 .. n
  BY <1>2 DEF AnyBlock, Tree
<1>4. new \in AnyBlock
  <2>1. blocks[p].path \cup {n + 1} \in SUBSET Nat /\ blocks[p].height + 1 \in Nat
    BY <1>2, <1>3
  <2>2. txs \in SUBSET Transactions
    BY <1>1 DEF Shape
  <2> QED
    BY <2>1, <2>2 DEF AnyBlock
<1>5. new.height = blocks[p].height + 1 /\ new.path = blocks[p].path \cup {n + 1}
  OBVIOUS
<1> HIDE DEF new
<1>6. /\ blocks' \in Seq(AnyBlock) /\ Len(blocks') = n + 1
      /\ blocks'[n + 1] = new
      /\ \A b \in 1 .. n : blocks'[b] = blocks[b]
  BY <1>1, <1>2, <1>4 DEF new
<1> HIDE DEF n
<1>7. \A a \in 1 .. (n + 1) : a \in 1 .. n \/ a = n + 1
  BY <1>2
<1>8. \A a \in 1 .. (n + 1) : blocks'[a].path \subseteq 1 .. (n + 1)
  <2>1. 1 .. n \subseteq 1 .. (n + 1) /\ n + 1 \in 1 .. (n + 1)
    BY <1>2
  <2> QED
    BY <1>2, <1>3, <1>5, <1>6, <1>7, <2>1
<1>9. /\ \A a \in 1 .. n : blocks[a].height <= blocks[tip].height
      /\ \A a \in 1 .. (tip - 1) : blocks[a].height < blocks[tip].height
      /\ blocks[tip].height \in Nat /\ blocks[p].height \in Nat
  BY <1>2, <1>3 DEF Tree, n
<1>10. CASE blocks[p].height + 1 > blocks[tip].height
  <2>1. tip' = n + 1 /\ blocks'[tip'].height = blocks[p].height + 1
    BY <1>1, <1>5, <1>6, <1>10 DEF n
  <2>2. \A a \in 1 .. n : blocks'[a].height < blocks'[tip'].height
    BY <1>3, <1>6, <1>9, <1>10, <2>1
  <2>3. \A a \in 1 .. (tip' - 1) : blocks'[a].height < blocks'[tip'].height
    <3>1. tip' - 1 = n
      BY <1>2, <2>1
    <3> QED
      BY <2>2, <3>1
  <2>4. \A a \in 1 .. (n + 1) : blocks'[a].height <= blocks'[tip'].height
    <3>1. TAKE a \in 1 .. (n + 1)
    <3>2. CASE a = n + 1
      BY <1>9, <2>1, <3>2
    <3>3. CASE a \in 1 .. n
      BY <1>3, <1>6, <1>9, <2>1, <2>2, <3>3
    <3> QED
      BY <1>7, <3>2, <3>3
  <2>5. tip' \in 1 .. (n + 1)
    BY <1>2, <2>1
  <2> QED
    BY <1>6, <1>8, <2>3, <2>4, <2>5 DEF Tree, n
<1>11. CASE ~(blocks[p].height + 1 > blocks[tip].height)
  <2>1. tip' = tip /\ blocks'[tip'] = blocks[tip] /\ tip' \in 1 .. (n + 1)
    BY <1>1, <1>2, <1>6, <1>11
  <2>2. \A a \in 1 .. (n + 1) : blocks'[a].height <= blocks'[tip'].height
    BY <1>5, <1>6, <1>7, <1>9, <1>11, <2>1
  <2>3. \A a \in 1 .. (tip' - 1) : blocks'[a].height < blocks'[tip'].height
    BY <1>2, <1>6, <1>9, <2>1
  <2> QED
    BY <1>6, <1>8, <2>1, <2>2, <2>3 DEF Tree, n
<1> QED
  BY <1>10, <1>11

\* What was learnt stays true when the tree grows.
LEMMA LearntStays ==
  ASSUME Tree, NEW c \in Calls, Learnt(c),
         pc'[c] = pc[c], tx'[c] = tx[c], found'[c] = found[c],
         Len(blocks') >= Len(blocks), Len(blocks') \in Nat,
         blocks' \in Seq(AnyBlock),
         \A b \in 1 .. Len(blocks) : blocks'[b] = blocks[b]
  PROVE  Learnt(c)'
<1> DEFINE b == found[c].block
<1>1. blocks \in Seq(AnyBlock) /\ Len(blocks) \in Nat
  BY DEF Tree
<1>2. ASSUME Known(b)
      PROVE  Known(b)' /\ blocks'[b] = blocks[b]
  BY <1>1, <1>2 DEF Known
<1>3. ASSUME Known(b), WasDeep(b)
      PROVE  WasDeep(b)'
  <2>1. PICK t \in DOMAIN blocks :
          /\ \A a \in 1 .. (t - 1) : blocks[a].height < blocks[t].height
          /\ b \in blocks[t].path
          /\ blocks[t].height - blocks[b].height + 1 >= NumConfirmations
    BY <1>3 DEF WasDeep
  <2>2. t \in 1 .. Len(blocks) /\ t \in DOMAIN blocks' /\ blocks'[t] = blocks[t]
    BY <1>1, <2>1
  <2>3. \A a \in 1 .. (t - 1) : blocks'[a] = blocks[a]
    BY <1>1, <2>2
  <2>4. found'[c].block = b
    OBVIOUS
  <2> QED
    BY <1>2, <1>3, <2>1, <2>2, <2>3, <2>4 DEF WasDeep
<1> QED
  BY <1>2, <1>3 DEF Learnt

LEMMA StepLearns ==
  ASSUME FInv, NEW c \in Calls, UNCHANGED <<blocks, tip>>, FoundShape',
         \A d \in Calls \ {c} :
           pc'[d] = pc[d] /\ tx'[d] = tx[d] /\ found'[d] = found[d],
         Learnt(c)'
  PROVE  FInv'
<1>1. Tree'
  BY DEF FInv, Tree
<1>2. blocks \in Seq(AnyBlock) /\ Len(blocks) \in Nat
  BY DEF FInv, Tree
<1>3. ASSUME NEW d \in Calls \ {c} PROVE Learnt(d)'
  BY <1>2, LearntStays DEF FInv
<1> QED
  BY <1>1, <1>3 DEF FInv

\* A call that has failed has learnt nothing.
LEMMA FailLearns ==
  ASSUME IInv, FInv, NEW c \in Calls, Fail(c), UNCHANGED <<blocks, tip>>
  PROVE  FInv'
<1>1. pc'[c] = "failed"
  BY DEF Fail, Goto, IInv, Shape
<1>2. \A d \in Calls \ {c} :
        pc'[d] = pc[d] /\ tx'[d] = tx[d] /\ found'[d] = found[d]
  BY DEF Fail, Goto, IInv, Shape, FInv, FoundShape
<1>3. FoundShape'
  <2>1. NothingFound \in [block : Nat, height : Nat, proof : Nat, raw : Nat]
    BY DEF NothingFound, NoBlock
  <2> QED
    BY <2>1 DEF Fail, FInv, FoundShape
<1>4. Learnt(c)'
  BY <1>1 DEF Learnt
<1> QED
  BY <1>2, <1>3, <1>4, StepLearns

\* Up to sending, a call learns nothing of the chain.
LEMMA SendingLearns ==
  ASSUME IInv, FInv, NEW c \in Calls,
         \/ CreateTransaction(c) \/ FundRawTransaction(c)
         \/ SignRawTransaction(c) \/ SendRawTransaction(c) \/ AnswerLost(c)
         \/ WalletErrorOnCreate(c) \/ WalletErrorOnSend(c)
  PROVE  FInv'
<1>1. UNCHANGED <<blocks, tip>>
  BY DEF CreateTransaction, FundRawTransaction, SignRawTransaction,
         SendRawTransaction, AnswerLost, WalletErrorOnCreate, WalletErrorOnSend,
         nodeVars
<1>2. CASE Fail(c)
  BY <1>1, <1>2, FailLearns
<1>3. CASE ~Fail(c)
  <2>1. /\ found' = found
        /\ \A d \in Calls \ {c} : tx'[d] = tx[d]
        /\ \E label \in {"queued", "funded", "locked", "sent", "backoff"} :
             /\ pc' = [pc EXCEPT ![c] = label]
             /\ label = "sent" => pc[c] = "locked" /\ tx'[c] = tx[c]
    BY <1>3 DEF CreateTransaction, FundRawTransaction, SignRawTransaction,
         SendRawTransaction, AnswerLost, WalletErrorOnCreate, WalletErrorOnSend,
         Exhausted, Again, Goto, IInv, Shape
  <2>2. PICK label \in {"queued", "funded", "locked", "sent", "backoff"} :
          /\ pc' = [pc EXCEPT ![c] = label]
          /\ label = "sent" => pc[c] = "locked" /\ tx'[c] = tx[c]
    BY <2>1
  <2>3. pc'[c] = label /\ \A d \in Calls \ {c} : pc'[d] = pc[d]
    BY <2>2 DEF IInv, Shape
  <2>4. label = "sent" => tx'[c] # NoTx
    BY <2>2, NoTxIsNone DEF IInv, HasTransaction, Signed
  <2>5. Learnt(c)'
    BY <2>3, <2>4 DEF Learnt
  <2>6. FoundShape'
    BY <2>1 DEF FInv, FoundShape
  <2> QED
    BY <1>1, <2>1, <2>3, <2>5, <2>6, StepLearns
<1> QED
  BY <1>2, <1>3

\* The steps of wait_for_transaction_metadata and of wait_for_block.
LEMMA ReadingLearns ==
  ASSUME IInv, FInv, NEW c \in Calls,
         \/ GetTransaction(c) \/ GetProof(c) \/ GetRawTx(c)
         \/ WaitForBlock(c) \/ GetBlockHash(c) \/ GetBlockInfo(c) \/ GetBlock(c)
  PROVE  FInv'
<1>1. /\ blocks' = blocks /\ tip' = tip /\ tx' = tx
      /\ \E label \in Labels : pc' = [pc EXCEPT ![c] = label]
  <2>1. blocks' = blocks /\ tip' = tip
    BY DEF GetTransaction, GetProof, GetRawTx, WaitForBlock, GetBlockHash,
       GetBlockInfo, GetBlock, nodeVars
  <2> QED
    BY <2>1, ReadingMoves DEF Labels, Ended
<1>2. \A d \in Calls \ {c} : pc'[d] = pc[d] /\ tx'[d] = tx[d]
  BY <1>1 DEF IInv, Shape
<1>3. \A label : Goto(c, label) => pc'[c] = label
  BY DEF Goto, IInv, Shape
<1>4. /\ found \in [Calls -> [block : Nat, height : Nat, proof : Nat, raw : Nat]]
      /\ Learnt(c) /\ Tree
  BY DEF FInv, FoundShape
<1>5. \A b : Known(b) => b \in Nat /\ blocks[b].height \in Nat
  <2>1. blocks \in Seq(AnyBlock) /\ Len(blocks) \in Nat
    BY <1>4 DEF Tree
  <2>2. ASSUME NEW b \in 1 .. Len(blocks)
        PROVE  b \in Nat /\ blocks[b] \in AnyBlock
    BY <2>1
  <2> QED
    BY <2>2 DEF Known, AnyBlock
<1> DEFINE Goal == /\ FoundShape' /\ Learnt(c)'
                   /\ \A d \in Calls \ {c} : found'[d] = found[d]
<1>6. ASSUME GetTransaction(c) PROVE Goal
  <2>1. PICK b \in BlockOf(tx[c]) :
          /\ Deep(b)
          /\ found' = [found EXCEPT ![c].block = b, ![c].height = blocks[b].height]
    BY <1>6 DEF GetTransaction
  <2>2. pc[c] = "sent" /\ pc'[c] = "mined"
    BY <1>3, <1>6 DEF GetTransaction
  <2>3. Known(b) /\ WasDeep(b)
    BY <1>4, <2>1, DeepWasDeep
  <2>4. /\ found'[c].block = b /\ found'[c].height = blocks[b].height
        /\ \A d \in Calls \ {c} : found'[d] = found[d]
    BY <1>4, <2>1
  <2>5. FoundShape'
    BY <1>4, <1>5, <2>1, <2>3 DEF FoundShape
  <2>6. tx[c] # NoTx
    BY <1>4, <2>2 DEF Learnt
  <2>7. (Known(b) /\ WasDeep(b))'
    BY <1>1, <2>3 DEF Known, WasDeep
  <2> QED
    BY <1>1, <2>2, <2>3, <2>4, <2>5, <2>6 DEF Learnt, Known, WasDeep
<1>7. ASSUME GetProof(c) PROVE Goal
  <2>1. /\ pc[c] = "mined" /\ pc'[c] = "proved"
        /\ tx[c] \in blocks[found[c].block].txs
        /\ found' = [found EXCEPT ![c].proof = found[c].block]
    BY <1>3, <1>7 DEF GetProof
  <2>2. /\ found'[c].block = found[c].block /\ found'[c].height = found[c].height
        /\ found'[c].proof = found[c].block
        /\ \A d \in Calls \ {c} : found'[d] = found[d]
    BY <1>4, <2>1
  <2>3. FoundShape'
    BY <1>4, <2>1 DEF FoundShape
  <2> QED
    BY <1>1, <1>4, <2>1, <2>2, <2>3 DEF Learnt, Known, WasDeep
<1>8. ASSUME GetRawTx(c) PROVE Goal
  <2>1. /\ pc[c] = "proved" /\ pc'[c] = "done"
        /\ found' = [found EXCEPT ![c].raw = found[c].block]
    BY <1>3, <1>8 DEF GetRawTx
  <2>2. /\ found'[c].block = found[c].block /\ found'[c].height = found[c].height
        /\ found'[c].proof = found[c].proof /\ found'[c].raw = found[c].block
        /\ \A d \in Calls \ {c} : found'[d] = found[d]
    BY <1>4, <2>1
  <2>3. FoundShape'
    BY <1>4, <2>1 DEF FoundShape
  <2> QED
    BY <1>1, <1>4, <2>1, <2>2, <2>3 DEF Learnt, Known, WasDeep
<1>9. ASSUME GetBlockHash(c) PROVE Goal
  <2>1. PICK b \in BlockAt(Height) : found' = [found EXCEPT ![c].block = b]
    BY <1>9 DEF GetBlockHash
  <2>2. pc'[c] = "info"
    BY <1>3, <1>9 DEF GetBlockHash
  <2>3. Known(b) /\ blocks[b].height = Height
    BY <1>4, <2>1 DEF BlockAt, MainChain, Tree, Known
  <2>4. found'[c].block = b /\ \A d \in Calls \ {c} : found'[d] = found[d]
    BY <1>4, <2>1
  <2>5. FoundShape'
    BY <1>4, <1>5, <2>1, <2>3 DEF FoundShape
  <2> QED
    BY <1>1, <2>2, <2>3, <2>4, <2>5 DEF Learnt, Known
<1>10. ASSUME GetBlockInfo(c) PROVE Goal
  <2>1. /\ pc[c] = "info" /\ found' = found
        /\ pc'[c] = IF Deep(found[c].block) THEN "block" ELSE "hash"
    BY <1>3, <1>10 DEF GetBlockInfo
  <2>2. FoundShape'
    BY <1>4, <2>1 DEF FoundShape
  <2>3. CASE Deep(found[c].block)
    <3>1. WasDeep(found[c].block)
      BY <1>4, <2>3, DeepWasDeep
    <3> QED
      BY <1>1, <1>4, <2>1, <2>2, <2>3, <3>1 DEF Learnt, Known, WasDeep
  <2>4. CASE ~Deep(found[c].block)
    BY <2>1, <2>2, <2>4 DEF Learnt
  <2> QED
    BY <2>3, <2>4
<1>11. ASSUME WaitForBlock(c) PROVE Goal
  <2>1. pc'[c] = "hash" /\ found' = found
    BY <1>3, <1>11 DEF WaitForBlock
  <2> QED
    BY <1>4, <2>1 DEF Learnt, FoundShape
<1>12. ASSUME GetBlock(c) PROVE Goal
  <2>1. pc[c] = "block" /\ pc'[c] = "done" /\ found' = found
    BY <1>3, <1>12 DEF GetBlock
  <2>2. tx[c] = NoTx
    BY <2>1 DEF IInv, HasTransaction
  <2> QED
    BY <1>1, <1>4, <2>1, <2>2 DEF Learnt, FoundShape, Known, WasDeep
<1>13. Goal
  BY <1>6, <1>7, <1>8, <1>9, <1>10, <1>11, <1>12
<1> QED
  BY <1>1, <1>2, <1>13, StepLearns

LEMMA StepKeepsFInv == IInv /\ FInv /\ [Next]_vars => FInv'
<1> SUFFICES ASSUME IInv, FInv, [Next]_vars PROVE FInv'
  OBVIOUS
<1>1. ASSUME UNCHANGED <<blocks, tip, pc, tx, found>> PROVE FInv'
  <2>1. Len(blocks) \in Nat /\ blocks \in Seq(AnyBlock)
    BY DEF FInv, Tree
  <2>2. \A d \in Calls : Learnt(d)'
    BY <1>1, <2>1, LearntStays DEF FInv
  <2> QED
    BY <1>1, <2>2 DEF FInv, Tree, FoundShape
<1>2. ASSUME NEW c \in Calls, Send(c) PROVE FInv'
  <2>1. CASE RetryLater(c)
    <3>1. CASE Exhausted(c)
      BY <2>1, <3>1, FailLearns DEF RetryLater, Exhausted, nodeVars
    <3>2. CASE ~Exhausted(c)
      <4>1. /\ pc' = [pc EXCEPT ![c] = pc[c]] /\ tx' = tx /\ found' = found
            /\ blocks' = blocks /\ tip' = tip
        BY <2>1, <3>2 DEF RetryLater, Again, Goto, nodeVars
      <4>2. pc' = pc
        BY <4>1 DEF IInv, Shape
      <4> QED
        BY <1>1, <4>1, <4>2
    <3> QED
      BY <3>1, <3>2
  <2>2. CASE ~RetryLater(c)
    BY <1>2, <2>2, SendingLearns, ReadingLearns DEF Send
  <2> QED
    BY <2>1, <2>2
<1>3. ASSUME NEW c \in Calls, Poll(c) PROVE FInv'
  BY <1>3, ReadingLearns DEF Poll
<1>4. ASSUME NEW c \in Calls, Failed(c) \/ GiveUp(c) PROVE FInv'
  BY <1>4, FailLearns DEF Failed, GiveUp, nodeVars
<1>5. CASE NewBlock /\ UNCHANGED clientVars
  <2>1. /\ Tree' /\ Len(blocks') = Len(blocks) + 1
        /\ \A b \in 1 .. Len(blocks) : blocks'[b] = blocks[b]
    BY <1>5, NewBlockTree DEF IInv, FInv
  <2>2. Len(blocks) \in Nat /\ blocks' \in Seq(AnyBlock) /\ Tree
    BY <2>1 DEF FInv, Tree
  <2>3. Len(blocks') >= Len(blocks) /\ Len(blocks') \in Nat
    BY <2>1, <2>2
  <2>4. UNCHANGED <<pc, tx, found>>
    BY <1>5 DEF clientVars
  <2>5. \A d \in Calls : Learnt(d)'
    BY <2>1, <2>2, <2>3, <2>4, LearntStays DEF FInv
  <2> QED
    BY <2>1, <2>4, <2>5 DEF FInv, FoundShape
<1>6. CASE (Restart /\ UNCHANGED clientVars) \/ UNCHANGED vars
  BY <1>1, <1>6 DEF Restart, vars, nodeVars, clientVars
<1> QED
  BY <1>2, <1>3, <1>4, <1>5, <1>6 DEF Next, Step, Node

\* For any tree of blocks, any number of calls and any confirmations asked
\* for: what wait_for_transaction_metadata returns is of one block that
\* contains the transaction and was deep enough, and what wait_for_block
\* returns was deep enough at its height, through every reorganisation.
THEOREM FoundIsTogether == Spec => []FoundTogether
<1>1. FInv => FoundTogether
  <2> SUFFICES ASSUME FInv, NEW c \in Calls, pc[c] = "done"
               PROVE  LET f == found[c] IN
                      /\ WasDeep(f.block)
                      /\ IF tx[c] = NoTx
                           THEN blocks[f.block].height = Height
                           ELSE /\ f.block = f.proof /\ f.block = f.raw
                                /\ tx[c] \in blocks[f.block].txs
                                /\ f.height = blocks[f.block].height
    BY DEF FoundTogether
  <2> QED
    BY DEF FInv, Learnt
<1> QED
  BY <1>1, InitFInv, StepKeepsFInv, IInvAlways, PTL DEF Spec
=============================================================================
