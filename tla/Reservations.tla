------------------------------ MODULE Reservations ------------------------------
(***************************************************************************)
(* What the lock of clients/bitcoin promises, and nothing of how: a payer  *)
(* reserves an output that is not spent, one payer at a time; what is      *)
(* reserved is paid or dropped, and a payer that has paid reserves nothing *)
(* any more.  BitcoinClient implements it.                                 *)
(***************************************************************************)
CONSTANTS Payers, Coins

VARIABLES
  reserved,   \* the transaction that is made and not yet sent, if there is one
  payments    \* transactions that were sent

vars == <<reserved, payments>>

Init == reserved = {} /\ payments = {}

Reserve(p) ==
  /\ reserved = {}
  /\ \A t \in payments : t.payer # p
  /\ \E coin \in Coins \ {t.coin : t \in payments} :
       reserved' = {[payer |-> p, coin |-> coin]}
  /\ UNCHANGED payments

Pay ==
  /\ reserved # {}
  /\ payments' = payments \cup reserved
  /\ reserved' = {}

Drop ==
  /\ reserved # {}
  /\ reserved' = {}
  /\ UNCHANGED payments

Next == (\E p \in Payers : Reserve(p)) \/ Pay \/ Drop

Spec == Init /\ [][Next]_vars

\* Nobody keeps a reservation for ever.
FairSpec == Spec /\ WF_vars(Pay \/ Drop)

\* No output is spent twice and nobody pays twice.
SpentOnce ==
  \A s, t \in payments : s.coin = t.coin \/ s.payer = t.payer => s = t
=============================================================================
