----------------------------- MODULE BridgeLedger -----------------------------
(***************************************************************************)
(* What the bridge promises of its tokens, and nothing of collateral,      *)
(* exchange rates, keys, fees or time.  Tokens come into existence only    *)
(* once for each open issue request, as a debt of its vault; a vault's     *)
(* open redeem requests never ask more than it owes; a debt is paid, and   *)
(* tokens disappear, only once for each open redeem request; and what is   *)
(* settled stays settled.  OneBtc implements it.                           *)
(***************************************************************************)
EXTENDS Integers, Functions

CONSTANTS
  Vaults,   \* who owes bitcoin
  Slots,    \* where a request can be opened, an issue and a redeem in each
  Amounts   \* the amounts of tokens that requests and payments are for

VARIABLES
  issues,   \* the issue request in each slot
  redeems,  \* the redeem request in each slot
  debts,    \* by vault: the bitcoin its issued tokens stand for
  supply    \* tokens in existence

vars == <<issues, redeems, debts, supply>>

Unopened == [status |-> "None"]

OpenRequest == [status : {"Pending"}, vault : Vaults, amount : Amounts]

IsOpen(request) == request.status = "Pending"

\* What the open redeem requests of a vault ask of it.
Promised(v) ==
  SumFunction([k \in Slots |-> IF IsOpen(redeems[k]) /\ redeems[k].vault = v
                               THEN redeems[k].amount ELSE 0])

Init ==
  /\ issues = [k \in Slots |-> Unopened]
  /\ redeems = [k \in Slots |-> Unopened]
  /\ debts = [v \in Vaults |-> 0]
  /\ supply = 0

OpenIssue(k) ==
  /\ issues[k] = Unopened
  /\ issues'[k] \in OpenRequest
  /\ issues' = [issues EXCEPT ![k] = issues'[k]]
  /\ UNCHANGED <<redeems, debts, supply>>

\* The request is for what was paid from then on, more or less as it may be.
CompleteIssue(k) ==
  /\ IsOpen(issues[k])
  /\ \E paid \in Amounts :
       /\ supply' = supply + paid
       /\ debts' = [debts EXCEPT ![issues[k].vault] = @ + paid]
       /\ issues' = [issues EXCEPT ![k] =
            [status |-> "Completed", vault |-> @.vault, amount |-> paid]]
  /\ UNCHANGED redeems

CancelIssue(k) ==
  /\ IsOpen(issues[k])
  /\ issues' = [issues EXCEPT ![k].status = "Cancelled"]
  /\ UNCHANGED <<redeems, debts, supply>>

OpenRedeem(k) ==
  /\ redeems[k] = Unopened
  /\ redeems'[k] \in OpenRequest
  /\ redeems' = [redeems EXCEPT ![k] = redeems'[k]]
  /\ Promised(redeems'[k].vault) + redeems'[k].amount
       <= debts[redeems'[k].vault]
  /\ UNCHANGED <<issues, debts, supply>>

CompleteRedeem(k) ==
  /\ IsOpen(redeems[k])
  /\ redeems' = [redeems EXCEPT ![k].status = "Completed"]
  /\ debts' = [debts EXCEPT ![redeems[k].vault] = @ - redeems[k].amount]
  /\ supply' = supply - redeems[k].amount
  /\ UNCHANGED issues

\* The tokens remain, and with them the debt.
CancelRedeem(k) ==
  /\ IsOpen(redeems[k])
  /\ redeems' = [redeems EXCEPT ![k].status = "Cancelled"]
  /\ UNCHANGED <<issues, debts, supply>>

\* One request is opened or settled at a time.
Next ==
  \E k \in Slots :
    /\ issues'[k] # issues[k] \/ redeems'[k] # redeems[k]
    /\ \/ OpenIssue(k) \/ CompleteIssue(k) \/ CancelIssue(k)
       \/ OpenRedeem(k) \/ CompleteRedeem(k) \/ CancelRedeem(k)

Spec == Init /\ [][Next]_vars
=============================================================================
