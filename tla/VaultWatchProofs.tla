---------------------------- MODULE VaultWatchProofs ----------------------------
(***************************************************************************)
(* Theorems about VaultWatch: the vault can spend from every deposit       *)
(* address it has imported a key for; and the two sides read alike what    *)
(* they should: the vault's own payments, anybody's plain transaction, and *)
(* the addresses of inputs.                                                *)
(***************************************************************************)
EXTENDS VaultWatch, SequenceTheorems, WellFoundedInduction, TLAPS

\* Euclid: a natural number is a multiple of n and what is left of it.
LEMMA Division ==
  ASSUME NEW n \in Nat \ {0}, NEW a \in Nat
  PROVE  /\ a % n \in 0 .. (n - 1)
         /\ a \div n \in Nat
         /\ a = n * (a \div n) + (a % n)
OBVIOUS

\* A greater multiple is greater by n at least.
LEMMA Apart ==
  ASSUME NEW n \in Nat \ {0}, NEW p \in Nat, NEW q \in Nat, p > q
  PROVE  n * p >= n * q + n
<1> DEFINE d == p - q - 1
<1>1. d \in Nat /\ p = q + 1 + d  OBVIOUS
<1> HIDE DEF d
<1>2. n * (q + 1 + d) = n * q + n + n * d  BY <1>1
<1>3. n * d >= 0  BY <1>1
<1>4. n * p = n * q + n + n * d  BY <1>1, <1>2
<1>5. n * q \in Int /\ n * d \in Int /\ n * p \in Int  BY <1>1
<1> QED  BY <1>3, <1>4, <1>5

\* What is left is determined: numbers that differ by a multiple of n leave
\* the same.
LEMMA SameRest ==
  ASSUME NEW n \in Nat \ {0}, NEW a \in Nat, NEW q \in Nat
  PROVE  (n * q + a) % n = a % n
<1> DEFINE x == n * q + a
           r == a % n       p == a \div n
           s == x % n       t == x \div n
<1>1. r \in 0 .. (n - 1) /\ p \in Nat /\ a = n * p + r  BY Division
<1>2. x \in Nat  OBVIOUS
<1>3. s \in 0 .. (n - 1) /\ t \in Nat /\ x = n * t + s  BY <1>2, Division
<1>4. x = n * (q + p) + r  BY <1>1
<1> HIDE DEF x, r, p, s, t
<1>5. q + p \in Nat  BY <1>1
<1>6. n * t \in Int /\ n * (q + p) \in Int  BY <1>3, <1>5
<1>7. ~(t > q + p)
  <2>1. SUFFICES ASSUME t > q + p PROVE FALSE  OBVIOUS
  <2>2. n * t >= n * (q + p) + n  BY <1>3, <1>5, <2>1, Apart
  <2> QED  BY <1>1, <1>3, <1>4, <1>6, <2>2
<1>8. ~(q + p > t)
  <2>1. SUFFICES ASSUME q + p > t PROVE FALSE  OBVIOUS
  <2>2. n * (q + p) >= n * t + n  BY <1>3, <1>5, <2>1, Apart
  <2> QED  BY <1>1, <1>3, <1>4, <1>6, <2>2
<1>9. t = q + p  BY <1>3, <1>5, <1>7, <1>8
<1>10. s = r  BY <1>1, <1>3, <1>4, <1>6, <1>9
<1> QED  BY <1>10 DEF s, r, x

\* In the group a point times a scalar is the point of the product: the
\* contract's public computation and the client's secret one agree.
LEMMA ProductOfKeys ==
  ASSUME NEW s \in Nat, NEW c \in Nat
  PROVE  PublicKey(CalculateDepositSecretKey(s, c)) = (PublicKey(s) * c) % GroupOrder
<1> DEFINE n == GroupOrder    g == Generator
<1>0. n \in Nat \ {0} /\ g \in Nat  BY KeyConstants
<1> HIDE DEF n, g
<1> DEFINE sc == s * c    u == sc % n    i == sc \div n
           gs == g * s    v == gs % n    j == gs \div n
<1>1. sc \in Nat /\ gs \in Nat  BY <1>0
<1> HIDE DEF sc, gs
<1>2. u \in Nat /\ i \in Nat /\ sc = n * i + u  BY <1>0, <1>1, Division
<1>3. v \in Nat /\ j \in Nat /\ gs = n * j + v  BY <1>0, <1>1, Division
<1> HIDE DEF u, i, v, j
<1>4. g * sc = n * (g * i) + g * u  BY <1>0, <1>2
<1>5. gs * c = n * (j * c) + v * c  BY <1>0, <1>3
<1>6. g * sc = gs * c  BY <1>0 DEF sc, gs
<1>7. g * i \in Nat /\ g * u \in Nat /\ j * c \in Nat /\ v * c \in Nat  BY <1>0, <1>2, <1>3
<1>8. (n * (g * i) + g * u) % n = (g * u) % n  BY <1>0, <1>7, SameRest
<1>9. (n * (j * c) + v * c) % n = (v * c) % n  BY <1>0, <1>7, SameRest
<1>10. (g * u) % n = (v * c) % n  BY <1>4, <1>5, <1>6, <1>8, <1>9
<1> QED  BY <1>10 DEF u, v, sc, gs, n, g, PublicKey, CalculateDepositSecretKey

-----------------------------------------------------------------------------
\* Every address was given out for the vault's registered key, and a vault
\* that has imported a key is of the daemon's network and has its own key.
DepositsFollow ==
  /\ keys \subseteq Nat
  /\ vault \in Nat
  /\ added \subseteq DOMAIN deposits
  /\ \A id \in DOMAIN deposits :
       id \in Nat /\ vault # 0 /\ deposits[id] = Derivate(vault, id)
  /\ added # {} => network = NodeNetwork
  /\ \A id \in added : \E s \in keys : PublicKey(s) = deposits[id]

LEMMA SameAddress ==
  ASSUME NEW p, NEW q, NEW m, NEW n, P2wpkh(p, m) = P2wpkh(q, n)
  PROVE  p = q /\ m = n
<1>1. P2wpkh(p, m).network = m /\ P2wpkh(q, n).network = n  BY DEF P2wpkh
<1>2. P2wpkh(p, m).payload.hash[1] = p  BY DEF P2wpkh, Payload
<1>3. P2wpkh(q, n).payload.hash[1] = q  BY DEF P2wpkh, Payload
<1> QED  BY <1>1, <1>2, <1>3

LEMMA DepositSecretType ==
  ASSUME NEW v \in Nat, NEW id \in Nat
  PROVE  DepositSecret(v, id) \in SecretKeys
<1> DEFINE m == GroupOrder - 1    sum == v + id    rest == sum % m
<1>1. m \in Nat \ {0} /\ sum \in Nat  BY KeyConstants
<1> HIDE DEF m, sum
<1>2. rest \in 0 .. (m - 1)  BY <1>1, Division
<1> HIDE DEF rest
<1>3. 1 + rest \in 1 .. m  BY <1>1, <1>2
<1> QED  BY <1>3 DEF DepositSecret, SecretKeys, m, sum, rest

LEMMA DepositsFollowInit == Init => DepositsFollow
BY DEF Init, DepositsFollow

LEMMA DepositsFollowRegister ==
  ASSUME DepositsFollow, Register
  PROVE  DepositsFollow'
<1>1. DOMAIN deposits = {} /\ added = {}  BY DEF DepositsFollow, Register
<1>2. PICK k \in NewPublicKeys(keys) :
        vault' = k.public /\ keys' = ImportPrivateKey(keys, k.secret)
      BY DEF Register
<1>3. PICK s \in SecretKeys : k = [secret |-> s, public |-> PublicKey(s)]
      BY <1>2 DEF NewPublicKeys
<1>4. s \in Nat /\ Generator * s \in Nat  BY <1>3, KeyConstants DEF SecretKeys
<1>5. vault' \in Nat /\ keys' \subseteq Nat
      BY <1>2, <1>3, <1>4, KeyConstants DEF PublicKey, ImportPrivateKey, DepositsFollow
<1> QED  BY <1>1, <1>5 DEF DepositsFollow, Register

LEMMA DepositsFollowRequestIssue ==
  ASSUME DepositsFollow, RequestIssue
  PROVE  DepositsFollow'
<1>1. PICK id \in Ids \ DOMAIN deposits :
        deposits' = [i \in DOMAIN deposits \cup {id} |->
                       IF i = id THEN Derivate(vault, id) ELSE deposits[i]]
      BY DEF RequestIssue
<1>2. id \in Nat  BY WatchConstants
<1>3. \A i \in added : deposits'[i] = deposits[i]  BY <1>1 DEF DepositsFollow
<1>4. \A i \in DOMAIN deposits' :
        i \in Nat /\ vault # 0 /\ deposits'[i] = Derivate(vault, i)
      BY <1>1, <1>2 DEF DepositsFollow, RequestIssue
<1> QED  BY <1>1, <1>3, <1>4 DEF DepositsFollow, RequestIssue

\* The new key is a key of the new address.
LEMMA DepositsFollowAddDepositKey ==
  ASSUME DepositsFollow, AddDepositKey
  PROVE  DepositsFollow'
<1>1. PICK id \in DOMAIN deposits \ added :
        /\ KeysOf(keys, P2wpkh(vault, network)) # {}
        /\ keys' = AddNewDepositKey(keys, vault, DepositSecret(vault, id), network)
        /\ added' = added \cup {id}
      BY DEF AddDepositKey
<1> DEFINE c == DepositSecret(vault, id)
           own == KeysOf(keys, P2wpkh(vault, network))
<1>2. c \in SecretKeys  BY DepositSecretType DEF DepositsFollow
<1> HIDE DEF c
<1>3. keys' = keys \cup {CalculateDepositSecretKey(s, c) : s \in own}
      BY <1>1, <1>2 DEF AddNewDepositKey, c
<1>4. \A s \in own : s \in keys /\ PublicKey(s) = vault /\ network = NodeNetwork
      BY SameAddress DEF KeysOf
<1>5. PICK s \in own : TRUE  BY <1>1
<1>6. GroupOrder \in Nat \ {0} /\ Generator \in Nat  BY KeyConstants
<1>7. c \in Nat /\ s \in Nat
  <2>1. c \in Nat  BY <1>2, <1>6 DEF SecretKeys
  <2>2. s \in keys  BY <1>4, <1>5
  <2>3. s \in Nat  BY <2>2 DEF DepositsFollow
  <2> QED  BY <2>1, <2>3
<1>8. PublicKey(CalculateDepositSecretKey(s, c)) = (vault * c) % GroupOrder
  <2>1. PublicKey(CalculateDepositSecretKey(s, c)) = (PublicKey(s) * c) % GroupOrder
        BY <1>7, ProductOfKeys
  <2>2. PublicKey(s) = vault  BY <1>4, <1>5
  <2> QED  BY <2>1, <2>2
<1>9. deposits[id] = (vault * c) % GroupOrder
      BY <1>1 DEF DepositsFollow, Derivate, c
<1>10. \E k \in keys' : PublicKey(k) = deposits[id]
       BY <1>3, <1>5, <1>8, <1>9
<1>11. keys' \subseteq Nat
  <2>1. \A k \in own : (k * c) % GroupOrder \in Nat
    <3>1. TAKE k \in own
    <3>2. k \in Nat  BY <1>4 DEF DepositsFollow
    <3>3. k * c \in Nat  BY <1>7, <3>2
    <3> QED  BY <1>6, <3>3
  <2> QED  BY <1>3, <2>1 DEF DepositsFollow, CalculateDepositSecretKey
<1>12. UNCHANGED <<network, vault, deposits>>  BY DEF AddDepositKey
<1>13. \A i \in added' : \E k \in keys' : PublicKey(k) = deposits'[i]
       BY <1>1, <1>3, <1>10, <1>12 DEF DepositsFollow
<1> QED  BY <1>1, <1>4, <1>5, <1>11, <1>12, <1>13 DEF DepositsFollow, Derivate

LEMMA DepositsFollowNext == DepositsFollow /\ [Next]_vars => DepositsFollow'
<1> SUFFICES ASSUME DepositsFollow, [Next]_vars PROVE DepositsFollow'
    OBVIOUS
<1>1. CASE Register  BY <1>1, DepositsFollowRegister
<1>2. CASE RequestIssue  BY <1>2, DepositsFollowRequestIssue
<1>3. CASE AddDepositKey  BY <1>3, DepositsFollowAddDepositKey
<1>4. CASE UNCHANGED keyVars  BY <1>4 DEF keyVars, DepositsFollow
<1>5. CASE PayRedeem \/ PayAnything \/ Spend \/ Done
      BY <1>4, <1>5 DEF PayRedeem, PayAnything, Spend, Done
<1>6. CASE UNCHANGED vars  BY <1>4, <1>6 DEF vars
<1> QED  BY <1>1, <1>2, <1>3, <1>5, <1>6 DEF Next

LEMMA FollowSpendable == DepositsFollow => DepositsSpendable
<1> SUFFICES ASSUME DepositsFollow, NEW id \in added
             PROVE  /\ KeysOf(keys, P2wpkh(deposits[id], NodeNetwork)) # {}
                    /\ WalletHasPublicKey(keys, deposits[id], network) = "true"
    BY DEF DepositsSpendable
<1>1. PICK s \in keys : PublicKey(s) = deposits[id]  BY DEF DepositsFollow
<1>2. network = NodeNetwork  BY DEF DepositsFollow
<1>3. s \in KeysOf(keys, P2wpkh(deposits[id], NodeNetwork))  BY <1>1 DEF KeysOf
<1> QED  BY <1>2, <1>3 DEF WalletHasPublicKey

\* Whatever the group, the generator, the ids and the requests, the vault has
\* the key of every deposit address it has imported one for: the secret
\* computation of the client and the public one of the contract agree
\* (calculate_deposit_secret_key, BitcoinKeyDerivation.derivate).
THEOREM DepositsCanBeSpent == Spec => []DepositsSpendable
BY DepositsFollowInit, DepositsFollowNext, FollowSpendable, PTL DEF Spec

-----------------------------------------------------------------------------
\* Positions

LEMMA FirstInOne ==
  ASSUME NEW i \in Nat
  PROVE  FirstIn({i}) = i
BY DEF FirstIn

\* A set of positions that is not empty has a first one.
LEMMA FirstInSome ==
  ASSUME NEW at, at \subseteq Nat, at # {}
  PROVE  FirstIn(at) \in at
<1> DEFINE R == OpToRel(<, Nat)
<1>1. IsWellFoundedOn(R, Nat)  BY NatLessThanWellFounded
<1>2. PICK x \in at : \A y \in at : ~(<<y, x>> \in R)
  <2> HIDE DEF R
  <2> QED  BY <1>1, WFMin
<1>3. \A y \in at : x <= y
  <2>1. TAKE y \in at
  <2>2. x \in Nat /\ y \in Nat  OBVIOUS
  <2>3. y < x => <<y, x>> \in R  BY <2>2 DEF OpToRel
  <2> HIDE DEF R
  <2> QED  BY <1>2, <2>2, <2>3
<1> QED  BY <1>3 DEF FirstIn

LEMMA First3All ==
  ASSUME NEW S, NEW outputs \in Seq(S), Len(outputs) <= 3
  PROVE  First3(outputs) = outputs
<1> DEFINE n == IF Len(outputs) < 3 THEN Len(outputs) ELSE 3
<1>1. Len(outputs) \in Nat  BY LenProperties
<1>2. n = Len(outputs)
  <2>1. \A m \in Nat : m <= 3 => (IF m < 3 THEN m ELSE 3) = m  OBVIOUS
  <2>2. Len(outputs) <= 3  OBVIOUS
  <2> QED  BY ONLY <1>1, <2>1, <2>2
<1> HIDE DEF n
<1>3. First3(outputs) = SubSeq(outputs, 1, n)  BY DEF First3, n
<1>4. SubSeq(outputs, 1, Len(outputs)) = outputs  BY SubSeqFull
<1> QED  BY <1>2, <1>3, <1>4

\* t is s with e at position i, where it was inserted.
IsInsertion(t, s, i, e, S) ==
  /\ t \in Seq(S)
  /\ Len(t) = Len(s) + 1
  /\ \A k \in 1 .. (Len(s) + 1) :
       t[k] = IF k < i THEN s[k] ELSE IF k = i THEN e ELSE s[k - 1]

LEMMA InsertAtInserts ==
  ASSUME NEW S, NEW s \in Seq(S), NEW e \in S, NEW i \in 1 .. (Len(s) + 1)
  PROVE  IsInsertion(InsertAt(s, i, e), s, i, e, S)
<1> DEFINE n == Len(s)
           before == SubSeq(s, 1, i - 1)
           after == SubSeq(s, i, n)
           mid == before \o <<e>>
<1>1. n \in Nat /\ \A k \in 1 .. n : s[k] \in S  BY LenProperties
<1>2. i \in Nat /\ i >= 1 /\ i <= n + 1  BY <1>1
<1>3. /\ before \in Seq(S)
      /\ Len(before) = i - 1
      /\ \A k \in 1 .. (i - 1) : before[k] = s[k]
  <2>1. \A k \in 1 .. (i - 1) : s[k] \in S  BY <1>1, <1>2
  <2>2. 1 \in Int /\ i - 1 \in Int  BY <1>2
  <2>3. /\ before \in Seq(S)
        /\ Len(before) = IF 1 <= i - 1 THEN (i - 1) - 1 + 1 ELSE 0
        /\ \A k \in 1 .. ((i - 1) - 1 + 1) : before[k] = s[1 + k - 1]
        BY ONLY <2>1, <2>2, SubSeqProperties
  <2> HIDE DEF before
  <2> QED  BY <1>2, <2>3
<1>4. /\ after \in Seq(S)
      /\ Len(after) = n - i + 1
      /\ \A k \in 1 .. (n - i + 1) : after[k] = s[i + k - 1]
  <2>1. \A k \in i .. n : s[k] \in S  BY <1>1, <1>2
  <2>2. i \in Int /\ n \in Int  BY <1>1, <1>2
  <2>3. /\ after \in Seq(S)
        /\ Len(after) = IF i <= n THEN n - i + 1 ELSE 0
        /\ \A k \in 1 .. (n - i + 1) : after[k] = s[i + k - 1]
        BY ONLY <2>1, <2>2, SubSeqProperties
  <2> HIDE DEF after, n
  <2> QED  BY <1>1, <1>2, <2>3
<1>5. <<e>> \in Seq(S) /\ Len(<<e>>) = 1 /\ <<e>>[1] = e  OBVIOUS
<1> HIDE DEF before, after, n
<1>6. /\ mid \in Seq(S)
      /\ Len(mid) = i
      /\ \A k \in 1 .. i : mid[k] = IF k < i THEN s[k] ELSE e
  <2>1. /\ mid \in Seq(S)
        /\ Len(mid) = Len(before) + Len(<<e>>)
        /\ \A k \in 1 .. (Len(before) + Len(<<e>>)) :
             mid[k] = IF k <= Len(before) THEN before[k] ELSE <<e>>[k - Len(before)]
        BY <1>3, <1>5, ConcatProperties
  <2> HIDE DEF mid
  <2> QED  BY <1>2, <1>3, <1>5, <2>1
<1>8. InsertAt(s, i, e) = mid \o after  BY DEF InsertAt, before, after, mid, n
<1> HIDE DEF mid
<1>7. /\ mid \o after \in Seq(S)
      /\ Len(mid \o after) = Len(mid) + Len(after)
      /\ \A k \in 1 .. (Len(mid) + Len(after)) :
           (mid \o after)[k] = IF k <= Len(mid) THEN mid[k] ELSE after[k - Len(mid)]
      BY <1>4, <1>6, ConcatProperties
<1>9. \A k \in 1 .. (n + 1) :
        (mid \o after)[k] = IF k < i THEN s[k] ELSE IF k = i THEN e ELSE s[k - 1]
  <2>1. TAKE k \in 1 .. (n + 1)
  <2>2. k \in Nat /\ k >= 1 /\ k <= Len(mid) + Len(after)  BY <1>1, <1>2, <1>4, <1>6
  <2>3. CASE k <= i  BY <1>2, <1>6, <1>7, <2>2, <2>3
  <2>4. CASE k > i
    <3>1. (mid \o after)[k] = after[k - i]  BY <1>2, <1>6, <1>7, <2>2, <2>4
    <3>2. k - i \in 1 .. (n - i + 1)  BY <1>1, <1>2, <2>1, <2>2, <2>4
    <3>3. i + (k - i) - 1 = k - 1  BY <1>2, <2>2
    <3> QED  BY <1>2, <1>4, <2>2, <2>4, <3>1, <3>2, <3>3
  <2> QED  BY <1>2, <2>2, <2>3, <2>4
<1>10. Len(mid \o after) = n + 1  BY <1>1, <1>2, <1>4, <1>6, <1>7
<1> QED  BY <1>7, <1>8, <1>9, <1>10 DEF n, IsInsertion

-----------------------------------------------------------------------------
\* The two sides on plain transactions

\* The outputs are a sequence, whoever made the transaction.
OutputsAreSequence == \E S : tx.output \in Seq(S)

LEMMA PlainReadsAlike ==
  ASSUME NEW t, NEW S, t.output \in Seq(S), Plain(t),
         NEW dest, dest \in ExtractOutputAddresses(t)
  PROVE  /\ GetOpReturn(t) = OpReturnData(t.output)
         /\ \E i \in DOMAIN t.output :
              /\ i # None
              /\ i = FirstIn({k \in DOMAIN t.output : Pays(t.output[k], dest.hash)})
              /\ GetPaymentAmountTo(t, dest) = t.output[i].value
<1> DEFINE outputs == t.output
           ids == {i \in DOMAIN outputs : outputs[i].script.kind = "op_return"}
           paid == {i \in DOMAIN outputs : Pays(outputs[i], dest.hash)}
<1>1. First3(outputs) = outputs  BY First3All DEF Plain
<1>2. DOMAIN outputs = 1 .. Len(outputs) /\ Len(outputs) \in Nat  BY LenProperties
<1>3. {i \in DOMAIN outputs : outputs[i].script.kind = "op_return"
                               /\ outputs[i].script.size = 32} = ids
      BY DEF Plain
<1>4. PICK k \in DOMAIN outputs :
        /\ outputs[k].script.kind # "op_return"
        /\ dest = [kind |-> outputs[k].script.kind, hash |-> outputs[k].script.hash]
      BY DEF ExtractOutputAddresses
<1>5. {i \in DOMAIN outputs : IsPayTo(outputs[i].script, dest)} = paid
  <2>1. dest.kind = outputs[k].script.kind /\ dest.hash = outputs[k].script.hash  BY <1>4
  <2>2. \A i \in DOMAIN outputs :
          outputs[i].script.hash = dest.hash => outputs[i].script.kind = dest.kind
        BY <1>4, <2>1 DEF Plain
  <2> QED  BY <1>4, <2>1, <2>2 DEF IsPayTo, Pays
<1>6. k \in paid  BY <1>4 DEF Pays
<1>7. FirstIn(paid) \in paid
  <2>1. paid \subseteq Nat /\ paid # {}  BY <1>2, <1>6
  <2> HIDE DEF paid
  <2> QED  BY <2>1, FirstInSome
<1>8. GetOpReturn(t) = OpReturnData(outputs)
  <2>1. GetOpReturn(t) = IF FirstIn(ids) = None THEN NoId
                                                ELSE outputs[FirstIn(ids)].script.hash
        BY <1>1, <1>3 DEF GetOpReturn, FirstOf
  <2>2. OpReturnData(outputs) = IF FirstIn(ids) = None THEN NoId
                                                ELSE outputs[FirstIn(ids)].script.hash
        BY DEF OpReturnData, FirstOf
  <2> QED  BY <2>1, <2>2
<1>9. FirstIn(paid) # None  BY <1>2, <1>7 DEF None
<1>10. GetPaymentAmountTo(t, dest) = outputs[FirstIn(paid)].value
       BY <1>1, <1>5, <1>9 DEF GetPaymentAmountTo, FirstOf
<1> QED  BY <1>7, <1>8, <1>9, <1>10

LEMMA SequenceAgrees == OutputsAreSequence => SidesAgree
<1> SUFFICES ASSUME OutputsAreSequence, Plain(tx),
                    NEW id \in Ids, NEW kind \in Kinds, NEW minimum \in Amounts,
                    Payload(kind, User) \in ExtractOutputAddresses(tx)
             PROVE  IF GetOpReturn(tx) = <<id>>
                         /\ GetPaymentAmountTo(tx, Payload(kind, User)) >= minimum
                      THEN ValidateTransaction(tx.output, minimum, User, <<id>>)
                             = GetPaymentAmountTo(tx, Payload(kind, User))
                      ELSE ValidateTransaction(tx.output, minimum, User, <<id>>)
                             = Rejected
    BY DEF SidesAgree
<1> DEFINE dest == Payload(kind, User)
           i == FirstIn({k \in DOMAIN tx.output : Pays(tx.output[k], User)})
           paid == GetPaymentAmountTo(tx, dest)
<1>1. dest.hash = User  BY DEF Payload
<1>2. PICK S : tx.output \in Seq(S)  BY DEF OutputsAreSequence
<1>3. /\ GetOpReturn(tx) = OpReturnData(tx.output)
      /\ i # None
      /\ paid = tx.output[i].value
  <2>1. dest \in ExtractOutputAddresses(tx)  OBVIOUS
  <2> HIDE DEF dest
  <2>2. /\ GetOpReturn(tx) = OpReturnData(tx.output)
        /\ \E j \in DOMAIN tx.output :
             /\ j # None
             /\ j = FirstIn({k \in DOMAIN tx.output : Pays(tx.output[k], dest.hash)})
             /\ GetPaymentAmountTo(tx, dest) = tx.output[j].value
        BY <1>2, <2>1, PlainReadsAlike
  <2> QED  BY <1>1, <2>2
<1>4. ValidateTransaction(tx.output, minimum, User, <<id>>) =
        IF OpReturnData(tx.output) = <<id>> /\ i # None /\ tx.output[i].value >= minimum
          THEN tx.output[i].value ELSE Rejected
      BY DEF ValidateTransaction, FirstOf
<1> HIDE DEF dest, i, paid
<1>5. IF GetOpReturn(tx) = <<id>> /\ paid >= minimum
        THEN ValidateTransaction(tx.output, minimum, User, <<id>>) = paid
        ELSE ValidateTransaction(tx.output, minimum, User, <<id>>) = Rejected
      BY <1>3, <1>4
<1> QED  BY <1>5 DEF paid, dest

-----------------------------------------------------------------------------
\* The vault's own payments

\* One payment, one id and nothing else but change, in any order.
IsOwnPayment(outputs, m) ==
  /\ \E S : outputs \in Seq(S)
  /\ Len(outputs) <= 3
  /\ m.dest.hash = User
  /\ m.dest.kind # "op_return"
  /\ \E i, j \in DOMAIN outputs :
       /\ i # j
       /\ outputs[i] = Output(PayTo(m.dest), m.amount)
       /\ outputs[j] = Output(Return(m.id, 32), 0)
       /\ \A k \in DOMAIN outputs \ {i, j} : outputs[k] = Change

LEMMA OwnPaymentRead ==
  ASSUME IsOwnPayment(tx.output, made), made.amount \in Amounts
  PROVE  /\ GetOpReturn(tx) = made.id
         /\ GetPaymentAmountTo(tx, made.dest) = made.amount
         /\ ValidateTransaction(tx.output, made.amount, made.dest.hash, made.id)
              = made.amount
<1> DEFINE outputs == tx.output
<1>1. PICK S : outputs \in Seq(S)  BY DEF IsOwnPayment
<1>2. First3(outputs) = outputs  BY <1>1, First3All DEF IsOwnPayment
<1>3. DOMAIN outputs = 1 .. Len(outputs) /\ Len(outputs) \in Nat  BY <1>1, LenProperties
<1>4. PICK i \in DOMAIN outputs, j \in DOMAIN outputs :
        /\ i # j
        /\ outputs[i] = Output(PayTo(made.dest), made.amount)
        /\ outputs[j] = Output(Return(made.id, 32), 0)
        /\ \A k \in DOMAIN outputs \ {i, j} : outputs[k] = Change
      BY DEF IsOwnPayment
<1> HIDE DEF outputs
<1>5. i \in Nat \ {0} /\ j \in Nat \ {0}  BY <1>3, <1>4
<1>6. /\ outputs[i].value = made.amount
      /\ outputs[i].script.kind = made.dest.kind
      /\ outputs[i].script.hash = made.dest.hash
      BY <1>4 DEF Output, PayTo
<1>7. /\ outputs[j].script.kind = "op_return"
      /\ outputs[j].script.hash = made.id
      /\ outputs[j].script.size = 32
      BY <1>4 DEF Output, Return
<1>8. \A k \in DOMAIN outputs \ {i, j} :
        outputs[k].script.kind = "p2wpkh" /\ outputs[k].script.hash = << 101 >>
      BY <1>4 DEF Change, Output, PayTo, Payload
<1>9. made.dest.kind # "op_return" /\ made.dest.hash = << 100 >>  BY DEF IsOwnPayment, User
<1>10. << 100 >> # << 101 >>
  <2>1. << 100 >>[1] = 100 /\ << 101 >>[1] = 101  OBVIOUS
  <2> QED  BY <2>1
<1>11. {k \in DOMAIN outputs : outputs[k].script.kind = "op_return"} = {j}
       BY <1>4, <1>6, <1>7, <1>8, <1>9
<1>12. {k \in DOMAIN outputs : outputs[k].script.kind = "op_return"
                                /\ outputs[k].script.size = 32} = {j}
       BY <1>7, <1>11
<1>13. {k \in DOMAIN outputs : IsPayTo(outputs[k].script, made.dest)} = {i}
       BY <1>4, <1>6, <1>7, <1>8, <1>9, <1>10 DEF IsPayTo
<1>14. {k \in DOMAIN outputs : Pays(outputs[k], made.dest.hash)} = {i}
       BY <1>4, <1>6, <1>7, <1>8, <1>9, <1>10 DEF Pays
<1>15. FirstIn({i}) = i /\ FirstIn({j}) = j  BY <1>5, FirstInOne
<1>16. i # None /\ j # None  BY <1>5 DEF None
<1>17. GetOpReturn(tx) = made.id
       BY <1>2, <1>7, <1>12, <1>15, <1>16 DEF GetOpReturn, FirstOf, outputs
<1>18. GetPaymentAmountTo(tx, made.dest) = made.amount
       BY <1>2, <1>6, <1>13, <1>15, <1>16 DEF GetPaymentAmountTo, FirstOf, outputs
<1>19. OpReturnData(outputs) = made.id
       BY <1>7, <1>11, <1>15, <1>16 DEF OpReturnData, FirstOf
<1>20. made.amount >= made.amount
  <2>1. made.amount \in Nat  BY WatchConstants
  <2>2. \A n \in Nat : n >= n  OBVIOUS
  <2> QED  BY ONLY <2>1, <2>2
<1>21. ValidateTransaction(outputs, made.amount, made.dest.hash, made.id) = made.amount
       BY <1>6, <1>14, <1>15, <1>16, <1>19, <1>20 DEF ValidateTransaction, FirstOf
<1> QED  BY <1>17, <1>18, <1>21 DEF outputs

\* What the daemon makes of either order, with or without change, is one.
LEMMA FundedIsOwnPayment ==
  ASSUME NEW id, NEW kind \in Kinds, NEW amount,
         NEW raw \in CreateRawTransaction(Payload(kind, User), amount, <<id>>),
         NEW outputs \in FundRawTransaction(raw, Change)
  PROVE  IsOwnPayment(outputs, [id |-> <<id>>, dest |-> Payload(kind, User),
                                amount |-> amount])
<1> DEFINE dest == Payload(kind, User)
           m == [id |-> <<id>>, dest |-> dest, amount |-> amount]
           a == Output(PayTo(dest), amount)
           b == Output(Return(<<id>>, 32), 0)
           S == {a, b, Change}
<1>1. m.dest = dest /\ m.id = <<id>> /\ m.amount = amount  OBVIOUS
<1>2. dest.hash = User /\ dest.kind # "op_return"  BY DEF Payload, Kinds
<1>3. raw = <<a, b>> \/ raw = <<b, a>>
  <2>1. <<id>> # NoId  BY DEF NoId
  <2> QED  BY <2>1 DEF CreateRawTransaction
<1> HIDE DEF dest, m, a, b
<1>4. raw \in Seq(S) /\ Len(raw) = 2
  <2>1. a \in S /\ b \in S  OBVIOUS
  <2> HIDE DEF S
  <2>2. <<a, b>> \in Seq(S) /\ <<b, a>> \in Seq(S)  BY <2>1
  <2>3. Len(<<a, b>>) = 2 /\ Len(<<b, a>>) = 2  OBVIOUS
  <2> QED  BY <1>3, <2>2, <2>3
<1>5. PICK x \in 1 .. 2, y \in 1 .. 2 :
        x # y /\ raw[x] = a /\ raw[y] = b
  <2>1. CASE raw = <<a, b>>
    <3>1. raw[1] = a /\ raw[2] = b  BY <2>1
    <3> QED  BY <3>1
  <2>2. CASE raw = <<b, a>>
    <3>1. raw[2] = a /\ raw[1] = b  BY <2>2
    <3> QED  BY <3>1
  <2> QED  BY <1>3, <2>1, <2>2
<1>6. SUFFICES /\ outputs \in Seq(S)
               /\ Len(outputs) <= 3
               /\ \E i, j \in 1 .. Len(outputs) :
                    /\ i # j /\ outputs[i] = a /\ outputs[j] = b
                    /\ \A k \in 1 .. Len(outputs) \ {i, j} : outputs[k] = Change
  <2>1. ASSUME outputs \in Seq(S) PROVE DOMAIN outputs = 1 .. Len(outputs)
        BY <2>1, LenProperties
  <2>2. a = Output(PayTo(m.dest), m.amount) /\ b = Output(Return(m.id, 32), 0)
        BY <1>1 DEF a, b
  <2>3. dest = Payload(kind, User) /\ m = [id |-> <<id>>, dest |-> Payload(kind, User),
                                           amount |-> amount]
        BY DEF m, dest
  <2> QED  BY <1>1, <1>2, <2>1, <2>2, <2>3 DEF IsOwnPayment
<1>7. CASE outputs = raw
  <2>1. 1 .. Len(outputs) \ {x, y} = {}
    <3>1. Len(outputs) = 2  BY <1>4, <1>7
    <3>2. {x, y} = {1, 2} /\ 1 .. 2 = {1, 2}  BY <1>5
    <3> QED  BY <3>1, <3>2
  <2>2. outputs \in Seq(S) /\ Len(outputs) = 2  BY <1>4, <1>7
  <2>3. x \in 1 .. Len(outputs) /\ y \in 1 .. Len(outputs)  BY <1>5, <2>2
  <2>4. outputs[x] = a /\ outputs[y] = b /\ x # y  BY <1>5, <1>7
  <2> HIDE DEF S
  <2>5. \A k \in 1 .. Len(outputs) \ {x, y} : outputs[k] = Change  BY <2>1
  <2>6. Len(outputs) <= 3  BY <2>2
  <2> QED  BY <2>2, <2>3, <2>4, <2>5, <2>6
<1>8. CASE outputs \in {InsertAt(raw, i, Change) : i \in 1 .. (Len(raw) + 1)}
  <2>1. PICK p \in 1 .. 3 : outputs = InsertAt(raw, p, Change)  BY <1>4, <1>8
  <2>2. Change \in S  OBVIOUS
  <2>3. /\ outputs \in Seq(S)
        /\ Len(outputs) = 3
        /\ \A k \in 1 .. 3 :
             outputs[k] = IF k < p THEN raw[k] ELSE IF k = p THEN Change ELSE raw[k - 1]
    <3> HIDE DEF S
    <3>1. p \in 1 .. (Len(raw) + 1)  BY <1>4
    <3>2. IsInsertion(InsertAt(raw, p, Change), raw, p, Change, S)
      <4>1. raw \in Seq(S)  BY <1>4
      <4> QED  BY ONLY <2>2, <3>1, <4>1, InsertAtInserts
    <3>3. Len(raw) + 1 = 3  BY <1>4
    <3> QED  BY <2>1, <3>2, <3>3 DEF IsInsertion
  <2> DEFINE at(k) == IF k < p THEN k ELSE k + 1
  <2>4. \A k \in 1 .. 2 : at(k) \in 1 .. 3 /\ at(k) # p /\ outputs[at(k)] = raw[k]
    <3>1. TAKE k \in 1 .. 2
    <3>2. CASE k < p  BY <2>3, <3>2
    <3>3. CASE ~(k < p)  BY <2>3, <3>3
    <3> QED  BY <3>2, <3>3
  <2>5. at(x) # at(y)  BY <1>5
  <2>6. at(x) \in 1 .. 3 /\ at(y) \in 1 .. 3 /\ at(x) # p /\ at(y) # p
        /\ outputs[at(x)] = a /\ outputs[at(y)] = b
        BY <1>5, <2>4
  <2> HIDE DEF at
  <2>7. 1 .. 3 \ {at(x), at(y)} = {p}  BY <2>5, <2>6
  <2>8. outputs[p] = Change  BY <2>3
  <2> QED  BY <2>3, <2>5, <2>6, <2>7, <2>8
<1> QED  BY <1>7, <1>8 DEF FundRawTransaction

-----------------------------------------------------------------------------
\* The addresses of inputs

\* Where a push starts, its size is read.
LEMMA SizeOfPush ==
  ASSUME NEW script \in Seq(Nat), NEW pos \in Nat, pos < Len(script),
         script[pos + 1] \in 0 .. 75
  PROVE  IntegerAt(script, pos) = [value |-> script[pos + 1], length |-> 1]
<1> DEFINE last == IF pos + 3 < Len(script) THEN pos + 3 ELSE Len(script)
           bytes == SubSeq(script, pos + 1, last)
<1>1. Len(script) \in Nat /\ \A i \in 1 .. Len(script) : script[i] \in Nat
      BY LenProperties
<1>2. last \in Nat /\ last <= Len(script) /\ pos + 1 <= last
  <2>1. CASE pos + 3 < Len(script)  BY <1>1, <2>1
  <2>2. CASE ~(pos + 3 < Len(script))  BY <1>1, <2>2
  <2> QED  BY <2>1, <2>2
<1>3. IntegerAt(script, pos) = ParseCompactUint(bytes)  BY <1>2 DEF IntegerAt
<1> HIDE DEF last
<1>4. /\ bytes \in Seq(Nat)
      /\ Len(bytes) = last - (pos + 1) + 1
      /\ bytes[1] = script[pos + 1]
  <2>1. pos + 1 \in Int /\ last \in Int  BY <1>2
  <2>2. \A i \in (pos + 1) .. last : script[i] \in Nat  BY <1>1, <1>2
  <2>3. /\ bytes \in Seq(Nat)
        /\ Len(bytes) = IF pos + 1 <= last THEN last - (pos + 1) + 1 ELSE 0
        /\ \A i \in 1 .. (last - (pos + 1) + 1) : bytes[i] = script[(pos + 1) + i - 1]
        BY ONLY <2>1, <2>2, SubSeqProperties
  <2> HIDE DEF bytes
  <2>4. 1 \in 1 .. (last - (pos + 1) + 1)  BY <1>2
  <2>5. (pos + 1) + 1 - 1 = pos + 1  OBVIOUS
  <2> QED  BY <1>2, <2>3, <2>4, <2>5
<1> HIDE DEF bytes
<1>5. bytes # <<>> /\ Len(bytes) >= 1  BY <1>2, <1>4
<1>6. Width(bytes[1]) = 0
  <2>1. ASSUME NEW m \in 0 .. 75 PROVE Width(m) = 0
    <3>1. m # 253 /\ m # 254 /\ m # 255  OBVIOUS
    <3> QED  BY ONLY <3>1 DEF Width
  <2> QED  BY <1>4, <2>1
<1>7. ParseCompactUint(bytes) = [value |-> bytes[1], length |-> 1]
  <2>1. ~(bytes = <<>> \/ Len(bytes) < 1 + Width(bytes[1]))  BY <1>4, <1>5, <1>6
  <2> QED  BY <1>6, <2>1 DEF ParseCompactUint
<1> QED  BY <1>3, <1>4, <1>7

\* A push, another one after it, and what they start with.
TwoPush(head, a, b) == head \o Push(a) \o Push(b)

LEMMA TwoPushes ==
  ASSUME NEW head \in Seq(Nat), NEW a \in Seq(Nat), NEW b \in Seq(Nat)
  PROVE  LET script == TwoPush(head, a, b) IN
         /\ script \in Seq(Nat)
         /\ Len(script) = Len(head) + Len(a) + Len(b) + 2
         /\ \A i \in 1 .. Len(head) : script[i] = head[i]
         /\ script[Len(head) + 1] = Len(a)
         /\ script[Len(head) + Len(a) + 2] = Len(b)
         /\ SubSeq(script, Len(head) + Len(a) + 3, Len(script)) = b
<1> DEFINE script == TwoPush(head, a, b)
           p == Push(a)    q == Push(b)    front == head \o p
           h == Len(head)    k == Len(a)    l == Len(b)
<1>1. h \in Nat /\ k \in Nat /\ l \in Nat  BY LenProperties
<1>2. \A c \in Seq(Nat) : /\ Push(c) \in Seq(Nat)
                          /\ Len(Push(c)) = 1 + Len(c)
                          /\ Push(c)[1] = Len(c)
                          /\ \A i \in 1 .. Len(c) : Push(c)[1 + i] = c[i]
  <2>1. TAKE c \in Seq(Nat)
  <2>2. Len(c) \in Nat  BY LenProperties
  <2>3. <<Len(c)>> \in Seq(Nat) /\ Len(<<Len(c)>>) = 1 /\ <<Len(c)>>[1] = Len(c)
        BY <2>2
  <2> DEFINE one == <<Len(c)>>
  <2> HIDE DEF one
  <2>4. one \in Seq(Nat) /\ Len(one) = 1 /\ one[1] = Len(c)  BY <2>3 DEF one
  <2>5. /\ one \o c \in Seq(Nat)
        /\ Len(one \o c) = Len(one) + Len(c)
        /\ \A i \in 1 .. (Len(one) + Len(c)) :
             (one \o c)[i] = IF i <= Len(one) THEN one[i] ELSE c[i - Len(one)]
        BY <2>4, ConcatProperties
  <2>6. Push(c) = one \o c  BY DEF Push, one
  <2>7. 1 \in 1 .. (1 + Len(c)) /\ (one \o c)[1] = Len(c)  BY <2>2, <2>4, <2>5
  <2>8. ASSUME NEW i \in 1 .. Len(c) PROVE (one \o c)[1 + i] = c[i]
    <3>1. 1 + i \in 1 .. (Len(one) + Len(c))  BY <2>2, <2>4
    <3>2. ~(1 + i <= Len(one)) /\ (1 + i) - Len(one) = i  BY <2>2, <2>4
    <3> QED  BY <2>5, <3>1, <3>2
  <2> QED  BY <2>4, <2>5, <2>6, <2>7, <2>8
<1>3. p \in Seq(Nat) /\ Len(p) = 1 + k /\ p[1] = k  BY <1>2
<1>4. q \in Seq(Nat) /\ Len(q) = 1 + l /\ q[1] = l /\ \A i \in 1 .. l : q[1 + i] = b[i]
      BY <1>2
<1>5. script = front \o q  BY DEF TwoPush
<1> HIDE DEF script, p, q, front, h, k, l
<1>6. /\ front \in Seq(Nat)
      /\ Len(front) = h + (1 + k)
      /\ \A i \in 1 .. (h + (1 + k)) : front[i] = IF i <= h THEN head[i] ELSE p[i - h]
  <2>1. /\ head \o p \in Seq(Nat)
        /\ Len(head \o p) = Len(head) + Len(p)
        /\ \A i \in 1 .. (Len(head) + Len(p)) :
             (head \o p)[i] = IF i <= Len(head) THEN head[i] ELSE p[i - Len(head)]
        BY <1>3, ConcatProperties
  <2> QED  BY <1>3, <2>1 DEF front, h
<1>7. /\ script \in Seq(Nat)
      /\ Len(script) = (h + (1 + k)) + (1 + l)
      /\ \A i \in 1 .. ((h + (1 + k)) + (1 + l)) :
           script[i] = IF i <= h + (1 + k) THEN front[i] ELSE q[i - (h + (1 + k))]
  <2>1. /\ front \o q \in Seq(Nat)
        /\ Len(front \o q) = Len(front) + Len(q)
        /\ \A i \in 1 .. (Len(front) + Len(q)) :
             (front \o q)[i] = IF i <= Len(front) THEN front[i] ELSE q[i - Len(front)]
        BY <1>4, <1>6, ConcatProperties
  <2> QED  BY <1>4, <1>5, <1>6, <2>1
<1>8. \A i \in 1 .. h : script[i] = head[i]
  <2>1. TAKE i \in 1 .. h
  <2>2. i \in 1 .. (h + (1 + k)) /\ i \in 1 .. ((h + (1 + k)) + (1 + l))
        /\ i <= h + (1 + k) /\ i <= h
        BY <1>1
  <2>3. script[i] = front[i]  BY <1>7, <2>2
  <2>4. front[i] = head[i]  BY <1>6, <2>2
  <2> QED  BY <2>3, <2>4
<1>9. script[h + 1] = k
  <2>1. h + 1 \in 1 .. (h + (1 + k)) /\ h + 1 \in 1 .. ((h + (1 + k)) + (1 + l))
        /\ h + 1 <= h + (1 + k) /\ ~(h + 1 <= h) /\ (h + 1) - h = 1
        BY <1>1
  <2> QED  BY <1>3, <1>6, <1>7, <2>1
<1>10. \A i \in 1 .. (1 + l) : script[(h + (1 + k)) + i] = q[i]
  <2>1. TAKE i \in 1 .. (1 + l)
  <2>2. (h + (1 + k)) + i \in 1 .. ((h + (1 + k)) + (1 + l))
        /\ ~((h + (1 + k)) + i <= h + (1 + k))
        /\ ((h + (1 + k)) + i) - (h + (1 + k)) = i
        BY <1>1
  <2> QED  BY <1>7, <2>2
<1>11. script[h + k + 2] = l
  <2>1. h + k + 2 = (h + (1 + k)) + 1 /\ 1 \in 1 .. (1 + l)  BY <1>1
  <2> QED  BY <1>4, <1>10, <2>1
<1>12. SubSeq(script, h + k + 3, Len(script)) = b
  <2> DEFINE rest == SubSeq(script, h + k + 3, Len(script))
             m == h + k + 3
             n == Len(script)
  <2>1. m \in Int /\ n \in Int /\ n - m + 1 = l /\ m >= 1  BY <1>1, <1>7
  <2>2. \A i \in m .. n : script[i] \in Nat
    <3>1. \A i \in 1 .. Len(script) : script[i] \in Nat  BY <1>7, LenProperties
    <3> QED  BY <2>1, <3>1
  <2> HIDE DEF m, n
  <2>3. /\ SubSeq(script, m, n) \in Seq(Nat)
        /\ Len(SubSeq(script, m, n)) = IF m <= n THEN n - m + 1 ELSE 0
        /\ \A i \in 1 .. (n - m + 1) : SubSeq(script, m, n)[i] = script[m + i - 1]
        BY ONLY <2>1, <2>2, SubSeqProperties
  <2>4. rest = SubSeq(script, m, n)  BY DEF m, n
  <2> HIDE DEF rest
  <2>5. rest \in Seq(Nat) /\ Len(rest) = l
    <3>1. (IF m <= n THEN n - m + 1 ELSE 0) = l  BY <1>1, <2>1
    <3> QED  BY <2>3, <2>4, <3>1
  <2>6. \A i \in 1 .. l : rest[i] = b[i]
    <3>1. TAKE i \in 1 .. l
    <3>2. m + i - 1 = (h + (1 + k)) + (1 + i) /\ 1 + i \in 1 .. (1 + l)  BY <1>1 DEF m
    <3>3. rest[i] = script[m + i - 1]  BY <2>1, <2>3, <2>4
    <3> QED  BY <1>4, <1>10, <3>2, <3>3
  <2>7. b \in Seq(Nat) /\ Len(b) = l  BY DEF l
  <2>8. rest = b  BY <2>5, <2>6, <2>7, SeqEqual
  <2> QED  BY <2>8 DEF rest
<1>13. Len(script) = h + k + l + 2  BY <1>1, <1>7
<1> QED  BY <1>7, <1>8, <1>9, <1>11, <1>12, <1>13 DEF script, h, k, l

\* The bytes after the second size are what the address is made of.
LEMMA ScriptRead ==
  ASSUME NEW head, head = <<>> \/ head = << 0 >>, NEW a \in Seq(Nat), NEW b \in Seq(Nat),
         Len(a) \in 1 .. 75, Len(b) \in 1 .. 75
  PROVE  LET script == TwoPush(head, a, b) IN
         /\ script # <<>>
         /\ ScriptAddress(script) = Payload(IF head = << 0 >> THEN "p2sh" ELSE "p2pkh", b)
<1> DEFINE script == TwoPush(head, a, b)
           h == Len(head)    k == Len(a)    l == Len(b)
<1>1. head \in Seq(Nat)
  <2>1. <<>> \in Seq(Nat) /\ << 0 >> \in Seq(Nat)  OBVIOUS
  <2> QED  BY <2>1
<1>2. (head = <<>> /\ h = 0) \/ (head = << 0 >> /\ h = 1 /\ head[1] = 0)  OBVIOUS
<1>3. /\ script \in Seq(Nat)
      /\ Len(script) = h + k + l + 2
      /\ \A i \in 1 .. h : script[i] = head[i]
      /\ script[h + 1] = k
      /\ script[h + k + 2] = l
      /\ SubSeq(script, h + k + 3, Len(script)) = b
  <2>1. a \in Seq(Nat) /\ b \in Seq(Nat)  OBVIOUS
  <2>2. /\ script \in Seq(Nat)
        /\ Len(script) = Len(head) + Len(a) + Len(b) + 2
        /\ \A i \in 1 .. Len(head) : script[i] = head[i]
        /\ script[Len(head) + 1] = Len(a)
        /\ script[Len(head) + Len(a) + 2] = Len(b)
        /\ SubSeq(script, Len(head) + Len(a) + 3, Len(script)) = b
        BY ONLY <1>1, <2>1, TwoPushes
  <2> QED  BY ONLY <2>2 DEF h, k, l
<1>4. k \in 1 .. 75 /\ l \in 1 .. 75 /\ h \in Nat  BY <1>2
<1> HIDE DEF script, h, k, l
<1>5. script[1] = 0 <=> head = << 0 >>
  <2>1. CASE head = <<>> /\ h = 0
    <3>1. script[1] = k
      <4>1. h + 1 = 1  BY <2>1
      <4> QED  BY ONLY <1>3, <4>1
    <3>2. head # << 0 >>  BY <2>1
    <3> QED  BY <1>4, <3>1, <3>2
  <2>2. CASE head = << 0 >> /\ h = 1 /\ head[1] = 0
    <3>1. 1 \in 1 .. h  BY <2>2
    <3> QED  BY <1>3, <2>2, <3>1
  <2> QED  BY <1>2, <2>1, <2>2
<1>6. IntegerAt(script, h) = [value |-> k, length |-> 1]
  <2>1. h < Len(script) /\ script[h + 1] \in 0 .. 75  BY <1>3, <1>4
  <2> QED  BY <1>3, <1>4, <2>1, SizeOfPush
<1>7. IntegerAt(script, h + 1 + k) = [value |-> l, length |-> 1]
  <2> DEFINE pos == h + 1 + k
  <2>1. pos \in Nat /\ pos < Len(script) /\ pos + 1 = h + k + 2  BY <1>3, <1>4
  <2> HIDE DEF pos
  <2>2. script[pos + 1] = l  BY ONLY <1>3, <2>1
  <2>3. l \in 0 .. 75  BY <1>4
  <2>4. IntegerAt(script, pos) = [value |-> script[pos + 1], length |-> 1]
        BY <1>3, <2>1, <2>2, <2>3, SizeOfPush
  <2> QED  BY <2>2, <2>4 DEF pos
<1>8. (IF script[1] = 0 THEN 1 ELSE 0) = h
  <2>1. head = <<>> => head # << 0 >>  OBVIOUS
  <2> QED  BY <1>2, <1>5, <2>1
<1>9. [value |-> k, length |-> 1] # ParsingError /\ [value |-> l, length |-> 1] # ParsingError
  <2>1. \A r \in Nat : [value |-> r, length |-> 1] # ParsingError
    <3>1. TAKE r \in Nat
    <3>2. [value |-> r, length |-> 1].length = 1 /\ ParsingError.length = 0
          BY DEF ParsingError
    <3> QED  BY <3>2
  <2>2. k \in Nat /\ l \in Nat  BY <1>4
  <2> QED  BY ONLY <2>1, <2>2
<1>10. ScriptAddress(script) =
         Payload(IF script[1] = 0 THEN "p2sh" ELSE "p2pkh",
                 SubSeq(script, (h + 1 + k) + 1 + 1, Len(script)))
  <2> DEFINE sig == IntegerAt(script, h)
             next == h + sig.length + sig.value
             rest == IntegerAt(script, next)
  <2>1. sig.length = 1 /\ sig.value = k /\ sig # ParsingError  BY <1>6, <1>9
  <2> HIDE DEF sig
  <2>2. next = h + 1 + k  BY <2>1
  <2> HIDE DEF next
  <2>3. rest.length = 1 /\ rest # ParsingError  BY <1>7, <1>9, <2>2
  <2>4. ScriptAddress(script) =
          IF sig = ParsingError \/ rest = ParsingError THEN NoPayload
          ELSE Payload(IF script[1] = 0 THEN "p2sh" ELSE "p2pkh",
                       SubSeq(script, next + rest.length + 1, Len(script)))
        BY <1>8 DEF ScriptAddress, sig, next
  <2> HIDE DEF rest
  <2> QED  BY <2>1, <2>2, <2>3, <2>4
<1>11. (h + 1 + k) + 1 + 1 = h + k + 3  BY <1>4
<1>12. script # <<>>
  <2>1. Len(script) # 0  BY <1>3, <1>4
  <2> QED  BY <2>1
<1> QED  BY <1>3, <1>5, <1>10, <1>11, <1>12 DEF script

LEMMA BytesType ==
  ASSUME NEW byte \in Nat, NEW n \in Nat
  PROVE  Bytes(byte, n) \in Seq(Nat) /\ Len(Bytes(byte, n)) = n
<1>1. Bytes(byte, n) \in [1 .. n -> Nat]  BY DEF Bytes
<1> QED  BY <1>1, IsASeq, LenProperties

\* The address of each input is read, and is not taken for an error.
LEMMA SpendRead ==
  ASSUME NEW s \in Spends
  PROVE  VinToAddress(s.vin) = s.of /\ s.of # NoPayload
<1>1. \A n \in PushSizes : n \in 1 .. 75  BY WatchConstants
<1>2. \A n \in PushSizes, byte \in {2, 48, 81} :
        Bytes(byte, n) \in Seq(Nat) /\ Len(Bytes(byte, n)) \in 1 .. 75
  <2>1. TAKE n \in PushSizes, byte \in {2, 48, 81}
  <2>2. n \in Nat /\ byte \in Nat  BY <1>1
  <2> QED  BY <1>1, <2>2, BytesType
<1>3. \A kind \in {"p2pkh", "p2wpkh", "p2sh"} : \A bytes : Payload(kind, bytes) # NoPayload
  <2>1. \A kind, bytes : Payload(kind, bytes).kind = kind  BY DEF Payload
  <2>2. NoPayload.kind = "none"  BY DEF NoPayload
  <2> QED  BY <2>1, <2>2
<1>4. ASSUME NEW m \in PushSizes, NEW n \in PushSizes,
             s = [vin |-> [witness |-> <<>>,
                           script_sig |-> Push(Bytes(48, m)) \o Push(Bytes(2, n))],
                  of |-> Payload("p2pkh", Bytes(2, n))]
      PROVE  VinToAddress(s.vin) = s.of /\ s.of # NoPayload
  <2> DEFINE a == Bytes(48, m)    b == Bytes(2, n)    script == Push(a) \o Push(b)
  <2>1. /\ a \in Seq(Nat) /\ Len(a) \in 1 .. 75
        /\ b \in Seq(Nat) /\ Len(b) \in 1 .. 75
        BY <1>2
  <2>2. s.vin.witness = <<>> /\ s.vin.script_sig = script /\ s.of = Payload("p2pkh", b)
        BY <1>4
  <2> HIDE DEF a, b
  <2>3. <<>> \o Push(a) = Push(a)
    <3>1. <<Len(a)>> \in Seq(Nat)  BY <2>1
    <3>2. Push(a) \in Seq(Nat)  BY <2>1, <3>1, ConcatProperties DEF Push
    <3> QED  BY <3>2, ConcatEmptySeq
  <2>4. script = TwoPush(<<>>, a, b)  BY <2>3 DEF TwoPush
  <2> HIDE DEF script
  <2>5. <<>> # << 0 >>  OBVIOUS
  <2>6. /\ script # <<>>
        /\ ScriptAddress(script) = Payload(IF <<>> = << 0 >> THEN "p2sh" ELSE "p2pkh", b)
        BY ONLY <2>1, <2>4, ScriptRead
  <2>7. ~(Len(<<>>) >= 2)  OBVIOUS
  <2> QED  BY <1>3, <2>2, <2>5, <2>6, <2>7 DEF VinToAddress
<1>5. ASSUME NEW m \in PushSizes, NEW n \in PushSizes,
             s = [vin |-> [witness |-> <<Bytes(48, m), Bytes(2, n)>>, script_sig |-> <<>>],
                  of |-> Payload("p2wpkh", Bytes(2, n))]
      PROVE  VinToAddress(s.vin) = s.of /\ s.of # NoPayload
  <2> DEFINE a == Bytes(48, m)    b == Bytes(2, n)
  <2>1. s.vin.witness = <<a, b>> /\ s.of = Payload("p2wpkh", b)  BY <1>5
  <2> HIDE DEF a, b
  <2>2. Len(<<a, b>>) >= 2 /\ <<a, b>>[2] = b  OBVIOUS
  <2> QED  BY <1>3, <2>1, <2>2 DEF VinToAddress
<1>6. ASSUME NEW m \in PushSizes, NEW n \in PushSizes,
             s = [vin |-> [witness |-> <<>>,
                           script_sig |-> << 0 >> \o Push(Bytes(48, m)) \o Push(Bytes(81, n))],
                  of |-> Payload("p2sh", Bytes(81, n))]
      PROVE  VinToAddress(s.vin) = s.of /\ s.of # NoPayload
  <2> DEFINE a == Bytes(48, m)    b == Bytes(81, n)
             script == << 0 >> \o Push(a) \o Push(b)
  <2>1. /\ a \in Seq(Nat) /\ Len(a) \in 1 .. 75
        /\ b \in Seq(Nat) /\ Len(b) \in 1 .. 75
        BY <1>2
  <2>2. s.vin.witness = <<>> /\ s.vin.script_sig = script /\ s.of = Payload("p2sh", b)
        BY <1>6
  <2> HIDE DEF a, b
  <2>3. script # <<>> /\ ScriptAddress(script) = Payload("p2sh", b)
    <3>1. script = TwoPush(<< 0 >>, a, b)  BY DEF TwoPush
    <3> HIDE DEF script
    <3> QED  BY <2>1, <3>1, ScriptRead
  <2>4. ~(Len(<<>>) >= 2)  OBVIOUS
  <2> QED  BY <1>3, <2>2, <2>3, <2>4 DEF VinToAddress
<1> QED  BY <1>4, <1>5, <1>6 DEF Spends

-----------------------------------------------------------------------------
\* What is known of the transaction that is looked at.
TransactionKnown ==
  /\ OutputsAreSequence
  /\ made.id # NoId => made.amount \in Amounts /\ IsOwnPayment(tx.output, made)
  /\ tx.input # <<>> => \E s \in Spends : tx.input = <<s.vin>> /\ made.dest = s.of

LEMMA NoTransactionKnown ==
  ASSUME tx = NoTx, made = Anything
  PROVE  TransactionKnown
<1>1. tx.output = <<>> /\ tx.input = <<>> /\ made.id = NoId  BY DEF NoTx, Anything
<1>2. <<>> \in Seq({})  OBVIOUS
<1> QED  BY <1>1, <1>2 DEF TransactionKnown, OutputsAreSequence

LEMMA TransactionKnownNext ==
  ASSUME TransactionKnown, [Next]_vars
  PROVE  TransactionKnown'
<1>1. CASE UNCHANGED <<tx, made>>
      BY <1>1 DEF TransactionKnown, OutputsAreSequence, IsOwnPayment
<1>2. CASE PayRedeem
  <2>1. PICK id \in Ids, kind \in Kinds, amount \in Amounts :
          /\ \E raw \in CreateRawTransaction(Payload(kind, User), amount, <<id>>) :
               \E outputs \in FundRawTransaction(raw, Change) :
                 tx' = [input |-> <<>>, output |-> outputs]
          /\ made' = [id |-> <<id>>, dest |-> Payload(kind, User), amount |-> amount]
        BY <1>2 DEF PayRedeem
  <2>2. PICK raw \in CreateRawTransaction(Payload(kind, User), amount, <<id>>) :
          \E outputs \in FundRawTransaction(raw, Change) :
            tx' = [input |-> <<>>, output |-> outputs]
        BY <2>1
  <2>3. PICK outputs \in FundRawTransaction(raw, Change) :
          tx' = [input |-> <<>>, output |-> outputs]
        BY <2>2
  <2>4. tx'.output = outputs /\ tx'.input = <<>> /\ made'.amount \in Amounts
        BY <2>1, <2>3
  <2>5. IsOwnPayment(tx'.output, made')  BY <2>1, <2>4, FundedIsOwnPayment
  <2>6. \E S : tx'.output \in Seq(S)  BY <2>5 DEF IsOwnPayment
  <2> QED  BY <2>4, <2>5, <2>6 DEF TransactionKnown, OutputsAreSequence, IsOwnPayment
<1>3. CASE PayAnything
  <2>1. PICK n \in 1 .. MaxOutputs : \E outputs \in [1 .. n -> Outputs] :
          tx' = [input |-> <<>>, output |-> outputs]
        BY <1>3 DEF PayAnything
  <2>2. PICK outputs \in [1 .. n -> Outputs] : tx' = [input |-> <<>>, output |-> outputs]
        BY <2>1
  <2>3. outputs \in Seq(Outputs)
    <3> HIDE DEF Outputs
    <3> QED  BY <2>2, IsASeq
  <2>4. tx'.input = <<>> /\ tx'.output = outputs /\ made'.id = NoId
        BY <1>3, <2>2 DEF PayAnything, Anything
  <2> QED  BY <2>3, <2>4 DEF TransactionKnown, OutputsAreSequence
<1>4. CASE Spend
  <2>1. PICK s \in Spends : /\ tx' = [input |-> <<s.vin>>, output |-> <<Change>>]
                            /\ made' = [Anything EXCEPT !.dest = s.of]
        BY <1>4 DEF Spend
  <2>2. tx'.input = <<s.vin>> /\ tx'.output = <<Change>>  BY <2>1
  <2>3. made'.id = NoId /\ made'.dest = s.of  BY <2>1 DEF Anything
  <2>4. <<Change>> \in Seq({Change})  OBVIOUS
  <2> QED  BY <2>2, <2>3, <2>4 DEF TransactionKnown, OutputsAreSequence
<1>5. CASE Done
  <2>1. tx' = NoTx /\ made' = Anything  BY <1>5 DEF Done
  <2>2. tx'.output = <<>> /\ tx'.input = <<>> /\ made'.id = NoId
        BY <2>1 DEF NoTx, Anything
  <2>3. <<>> \in Seq({})  OBVIOUS
  <2> QED  BY <2>2, <2>3 DEF TransactionKnown, OutputsAreSequence
<1>6. CASE Register \/ RequestIssue \/ AddDepositKey
      BY <1>1, <1>6 DEF Register, RequestIssue, AddDepositKey
<1>7. CASE UNCHANGED vars  BY <1>1, <1>7 DEF vars
<1> QED  BY <1>2, <1>3, <1>4, <1>5, <1>6, <1>7 DEF Next

LEMMA TransactionAlwaysKnown == Spec => []TransactionKnown
<1>1. Init => TransactionKnown  BY NoTransactionKnown DEF Init
<1> QED  BY <1>1, TransactionKnownNext, PTL DEF Spec

\* Whatever the ids and amounts and wherever the daemon puts the change, what
\* the client pays for a redeem request is found again by the client and
\* accepted by the bridge (create_raw_transaction_hex, validateTransaction).
THEOREM OwnPaymentsAreAccepted == Spec => []OwnPaymentsAccepted
<1>1. TransactionKnown => OwnPaymentsAccepted
      BY OwnPaymentRead DEF TransactionKnown, OwnPaymentsAccepted
<1> QED  BY <1>1, TransactionAlwaysKnown, PTL

\* On any plain transaction the client matches a payment to a request exactly
\* if the bridge accepts it for the request, and for as much (get_op_return,
\* get_payment_amount_to, validateTransaction).
THEOREM SidesAlwaysAgree == Spec => []SidesAgree
<1>1. TransactionKnown => SidesAgree  BY SequenceAgrees DEF TransactionKnown
<1> QED  BY <1>1, TransactionAlwaysKnown, PTL

\* The address of an input of one signature is read, whatever the sizes of
\* its pushes up to 75 bytes (vin_to_address, parse_compact_uint).
THEOREM InputAddressesRead == Spec => []InputAddressRead
<1>1. ASSUME TransactionKnown, tx.input # <<>>
      PROVE  ExtractInputAddresses(tx) = {made.dest}
  <2>1. PICK s \in Spends : tx.input = <<s.vin>> /\ made.dest = s.of
        BY <1>1 DEF TransactionKnown
  <2>2. DOMAIN tx.input = {1} /\ tx.input[1] = s.vin  BY <2>1
  <2>3. ExtractInputAddresses(tx) = {VinToAddress(s.vin)} \ {NoPayload}
        BY <2>2 DEF ExtractInputAddresses
  <2>4. VinToAddress(s.vin) = s.of /\ s.of # NoPayload  BY SpendRead
  <2> QED  BY <2>1, <2>3, <2>4
<1>2. TransactionKnown => InputAddressRead  BY <1>1 DEF InputAddressRead
<1> QED  BY <1>2, TransactionAlwaysKnown, PTL
=============================================================================
