----------------------------- MODULE TransactionExt -----------------------------
(***************************************************************************)
(* What the two sides read in a transaction: clients/bitcoin by            *)
(* TransactionExt, when it matches payments to requests, and the bridge by *)
(* TxValidate, when it is shown one; and the transactions the client makes *)
(* itself.  An output is its value and its script, which is "op_return"    *)
(* with data, or pays to a hash of some kind.  Data and hashes are short   *)
(* sequences that name what they stand for; size is their real size.       *)
(***************************************************************************)
EXTENDS Scripts

Return(id, size) == [kind |-> "op_return", hash |-> id, size |-> size]
PayTo(payload) == [kind |-> payload.kind, hash |-> payload.hash, size |-> 20]
Output(script, value) == [script |-> script, value |-> value]

None == 0
NoId == <<>>

IsPayTo(script, dest) == script.kind = dest.kind /\ script.hash = dest.hash

First3(outputs) == SubSeq(outputs, 1, IF Len(outputs) < 3 THEN Len(outputs) ELSE 3)

\* The first of a set of positions, if there is one, and the first position
\* of an output with the property.
FirstIn(at) == IF at = {} THEN None ELSE CHOOSE i \in at : \A j \in at : i <= j
FirstOf(outputs, P(_)) == FirstIn({i \in DOMAIN outputs : P(outputs[i])})

\* The hash of the first OP_RETURN that has exactly 32 bytes.
GetOpReturn(tx) ==
  LET first == First3(tx.output)
      i == FirstOf(first, LAMBDA o : o.script.kind = "op_return" /\ o.script.size = 32)
  IN IF i = None THEN NoId ELSE first[i].script.hash

\* The value of the first payment to dest.
GetPaymentAmountTo(tx, dest) ==
  LET first == First3(tx.output)
      i == FirstOf(first, LAMBDA o : IsPayTo(o.script, dest))
  IN IF i = None THEN None ELSE first[i].value

\* The addresses inputs are spent from, where they can be read.  What these
\* two collect is taken as a set: nobody asks for its order.
ExtractInputAddresses(tx) ==
  {VinToAddress(tx.input[i]) : i \in DOMAIN tx.input} \ {NoPayload}

\* The addresses that are paid something.
ExtractOutputAddresses(tx) ==
  {[kind |-> tx.output[i].script.kind, hash |-> tx.output[i].script.hash] :
     i \in {j \in DOMAIN tx.output : /\ tx.output[j].value > 0
                                    /\ tx.output[j].script.kind # "op_return"}}

-----------------------------------------------------------------------------
\* Wrong: the id is left out.
CreateRawTransactionNoId(dest, amount, request_id) ==
  {<<Output(PayTo(dest), amount)>>}

\* create_raw_transaction_hex: a map of outputs, so in either order.
CreateRawTransaction(dest, amount, request_id) ==
  LET payment == Output(PayTo(dest), amount)
      id == Output(Return(request_id, 32), 0)
  IN IF request_id = NoId THEN {<<payment>>}
                          ELSE {<<payment, id>>, <<id, payment>>}

\* fundrawtransaction adds an input, and no change or change anywhere.
FundRawTransaction(outputs, change) ==
  {outputs} \cup {InsertAt(outputs, i, change) : i \in 1 .. (Len(outputs) + 1)}

-----------------------------------------------------------------------------
Rejected == -1

Pays(o, recipient) == o.script.kind # "op_return" /\ o.script.hash = recipient

OpReturnData(outputs) ==
  LET i == FirstOf(outputs, LAMBDA o : o.script.kind = "op_return")
  IN IF i = None THEN NoId ELSE outputs[i].script.hash

\* Wrong: only the first output is looked at for the payment.
ValidateFirstOutput(outputs, minimum, recipient, opReturnId) ==
  IF OpReturnData(outputs) = opReturnId /\ Pays(outputs[1], recipient)
       /\ outputs[1].value >= minimum
    THEN outputs[1].value ELSE Rejected

\* validateTransaction with an id: the first OP_RETURN, of any size, and the
\* first payment to the hash, in any kind of script, among all outputs.
ValidateTransaction(outputs, minimum, recipient, opReturnId) ==
  LET i == FirstOf(outputs, LAMBDA o : Pays(o, recipient))
  IN IF OpReturnData(outputs) = opReturnId /\ i # None
          /\ outputs[i].value >= minimum
       THEN outputs[i].value
       ELSE Rejected
=============================================================================
