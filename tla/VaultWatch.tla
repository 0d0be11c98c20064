------------------------------- MODULE VaultWatch -------------------------------
(***************************************************************************)
(* A vault and the bridge over bitcoin payments: the bridge gives deposit  *)
(* addresses to issue requests, the vault imports their keys and looks for *)
(* payments to them, and pays redeem requests with their id, which the     *)
(* bridge then reads.  Each side has code of its own for the same keys and *)
(* the same outputs.  Payments are looked at one at a time.                *)
(***************************************************************************)
EXTENDS DepositKeys, TransactionExt, FiniteSets

CONSTANTS
  Ids,         \* ids of issue and redeem requests
  Networks,    \* the network option of the client
  Amounts,     \* satoshis
  MaxOutputs,  \* bound: outputs of anybody's transaction
  PushSizes    \* sizes of the pushes in inputs

\* A push of up to 75 bytes starts with its size.
ASSUME WatchConstants ==
  Ids \subseteq Nat /\ Amounts \subseteq Nat \ {0} /\ PushSizes \subseteq 1 .. 75

VARIABLES
  network,   \* of the vault's client
  vault,     \* the vault's key as the bridge knows it, 0 before it registers
  keys,      \* secret keys in the vault's wallet
  deposits,  \* ids with a deposit address, with the address
  added,     \* ids whose key the vault has imported
  tx,        \* the transaction that is looked at
  made       \* and what it was made for: a redeem request, or anything

keyVars == <<network, vault, keys, deposits, added>>
vars == <<keyVars, tx, made>>

NoTx == [input |-> <<>>, output |-> <<>>]
Anything == [id |-> NoId, dest |-> NoPayload, amount |-> 0]

Init ==
  /\ network \in {ParseNetwork(s) : s \in Networks}
  /\ vault = 0
  /\ keys = {}
  /\ deposits = [id \in {} |-> 0]
  /\ added = {}
  /\ tx = NoTx
  /\ made = Anything

-----------------------------------------------------------------------------
\* get_new_public_key and registerVault.
Register ==
  /\ vault = 0
  /\ \E k \in NewPublicKeys(keys) :
       vault' = k.public /\ keys' = ImportPrivateKey(keys, k.secret)
  /\ UNCHANGED <<network, deposits, added, tx, made>>

\* registerDepositAddress.
RequestIssue ==
  /\ vault # 0
  /\ \E id \in Ids \ DOMAIN deposits :
       deposits' = [i \in DOMAIN deposits \cup {id} |->
                      IF i = id THEN Derivate(vault, id) ELSE deposits[i]]
  /\ UNCHANGED <<network, vault, keys, added, tx, made>>

\* The vault hears of the request.
AddDepositKey ==
  /\ network # "InvalidBitcoinNetwork"
  /\ \E id \in DOMAIN deposits \ added :
       /\ KeysOf(keys, P2wpkh(vault, network)) # {}
       /\ keys' = AddNewDepositKey(keys, vault, DepositSecret(vault, id), network)
       /\ added' = added \cup {id}
  /\ UNCHANGED <<network, vault, deposits, tx, made>>

-----------------------------------------------------------------------------
Kinds == {"p2wpkh", "p2pkh"}
Change == Output(PayTo(Payload("p2wpkh", <<101>>)), 1)
User == <<100>>

\* The vault pays a redeem request.
PayRedeem ==
  /\ tx = NoTx
  /\ \E id \in Ids, kind \in Kinds, amount \in Amounts :
       LET dest == Payload(kind, User) IN
       /\ \E raw \in CreateRawTransaction(dest, amount, <<id>>) :
            \E outputs \in FundRawTransaction(raw, Change) :
              tx' = [input |-> <<>>, output |-> outputs]
       /\ made' = [id |-> <<id>>, dest |-> dest, amount |-> amount]
  /\ UNCHANGED keyVars

\* Anybody's transaction.
Outputs ==
  {Output(PayTo(Payload(kind, User)), amount) : kind \in Kinds, amount \in Amounts}
    \cup {Output(Return(<<id>>, 32), 0) : id \in Ids}
    \cup {Output(Return(<<102>>, 4), 0), Change}

PayAnything ==
  /\ tx = NoTx
  /\ \E n \in 1 .. MaxOutputs : \E outputs \in [1 .. n -> Outputs] :
       tx' = [input |-> <<>>, output |-> outputs]
  /\ made' = Anything
  /\ UNCHANGED keyVars

-----------------------------------------------------------------------------
Bytes(byte, n) == [i \in 1 .. n |-> byte]
Push(bytes) == <<Len(bytes)>> \o bytes

\* Inputs that spend an output of the spender, and the payload it had: a key
\* hash, a key hash with a witness, or a script hash of one signature.
Spends ==
  {[vin |-> [witness |-> <<>>, script_sig |-> Push(Bytes(48, m)) \o Push(Bytes(2, n))],
    of |-> Payload("p2pkh", Bytes(2, n))] : m, n \in PushSizes}
  \cup
  {[vin |-> [witness |-> <<Bytes(48, m), Bytes(2, n)>>, script_sig |-> <<>>],
    of |-> Payload("p2wpkh", Bytes(2, n))] : m, n \in PushSizes}
  \cup
  {[vin |-> [witness |-> <<>>,
             script_sig |-> <<0>> \o Push(Bytes(48, m)) \o Push(Bytes(81, n))],
    of |-> Payload("p2sh", Bytes(81, n))] : m, n \in PushSizes}

Spend ==
  /\ tx = NoTx
  /\ \E s \in Spends :
       /\ tx' = [input |-> <<s.vin>>, output |-> <<Change>>]
       /\ made' = [Anything EXCEPT !.dest = s.of]
  /\ UNCHANGED keyVars

\* Both sides are done with the transaction.
Done ==
  /\ tx # NoTx
  /\ tx' = NoTx
  /\ made' = Anything
  /\ UNCHANGED keyVars

Next ==
  \/ Register \/ RequestIssue \/ AddDepositKey
  \/ PayRedeem \/ PayAnything \/ Spend \/ Done

Spec == Init /\ [][Next]_vars

-----------------------------------------------------------------------------
\* The key the vault imports for an issue request is the key of the address
\* the bridge gave to it: what users pay in, the vault can pay out
\* (calculate_deposit_secret_key, BitcoinKeyDerivation.derivate).
DepositsSpendable ==
  \A id \in added :
    /\ KeysOf(keys, P2wpkh(deposits[id], NodeNetwork)) # {}
    /\ WalletHasPublicKey(keys, deposits[id], network) = "true"

\* What the client itself pays for a redeem request is found again by the
\* client and accepted by the bridge, wherever the daemon puts the change
\* and in whichever order the outputs are (create_raw_transaction_hex).
OwnPaymentsAccepted ==
  made.id # NoId =>
    /\ GetOpReturn(tx) = made.id
    /\ GetPaymentAmountTo(tx, made.dest) = made.amount
    /\ ValidateTransaction(tx.output, made.amount, made.dest.hash, made.id)
         = made.amount

\* A transaction the two sides cannot read differently: three outputs at
\* most, no data but one whole id, one kind of script per hash.
Plain(t) ==
  /\ Len(t.output) <= 3
  /\ \A i, j \in DOMAIN t.output :
       LET p == t.output[i].script
           q == t.output[j].script
       IN /\ p.kind = "op_return" => p.size = 32
          /\ p.kind = "op_return" /\ q.kind = "op_return" => i = j
          /\ p.hash = q.hash => p.kind = q.kind

\* On anybody's plain transaction the client matches a payment to a request
\* exactly if the bridge accepts it for the request, and for as much.
SidesAgree ==
  Plain(tx) =>
    \A id \in Ids, kind \in Kinds, minimum \in Amounts :
      LET paid == GetPaymentAmountTo(tx, Payload(kind, User))
          accepted == ValidateTransaction(tx.output, minimum, User, <<id>>)
      IN Payload(kind, User) \in ExtractOutputAddresses(tx) =>
           IF GetOpReturn(tx) = <<id>> /\ paid >= minimum
             THEN accepted = paid
             ELSE accepted = Rejected

\* The address of an input that spends by one signature is read from it,
\* whatever the sizes of its pushes (vin_to_address).
InputAddressRead ==
  tx.input # <<>> => ExtractInputAddresses(tx) = {made.dest}
=============================================================================
