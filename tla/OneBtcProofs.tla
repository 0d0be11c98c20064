----------------------------- MODULE OneBtcProofs -----------------------------
(***************************************************************************)
(* Theorems about the bridge, for any vaults, users, amounts, rates and    *)
(* bounds: its state keeps its type, the collateral that backs tokens is   *)
(* always there, a vault never promises to redeem more than it issued, a   *)
(* request is settled once, supply and collateral change only with         *)
(* requests and withdrawals, and the books of collateral and of tokens,    *)
(* which are sums over accounts and requests, agree after every call.      *)
(***************************************************************************)
EXTENDS OneBtcProperties, FiniteSetTheorems, WellFoundedInduction, TLAPS

------------------------------------------------------------------------------
\* Sums over finite sets

\* A set with 0 and every successor of its numbers holds every number: were
\* one missing, the least missing one would have a predecessor in the set.
LEMMA NatSetInduction ==
  ASSUME NEW T, 0 \in T, \A n \in Nat : n \in T => n + 1 \in T
  PROVE  Nat \subseteq T
<1> SUFFICES ASSUME ~(Nat \subseteq T) PROVE FALSE
  OBVIOUS
<1> DEFINE R == OpToRel(<, Nat)
           M == Nat \ T
<1>1. IsWellFoundedOn(R, Nat)
  BY NatLessThanWellFounded
<1>2. M \subseteq Nat /\ M # {}
  OBVIOUS
<1>3. PICK x \in M : \A y \in M : ~(<<y, x>> \in R)
  <2> HIDE DEF R, M
  <2> QED BY <1>1, <1>2, WFMin
<1>4. \A a, b \in Nat : a < b => <<a, b>> \in R
  BY DEF OpToRel
<1>5. x \in Nat /\ x # 0
  OBVIOUS
<1>6. x - 1 \in Nat /\ x - 1 < x /\ (x - 1) + 1 = x
  BY <1>5
<1>7. x - 1 \in T
  BY <1>3, <1>4, <1>5, <1>6
<1> QED
  BY <1>5, <1>6, <1>7

\* What holds of {} and of every part with one element more holds of S.
LEMMA SetInduction ==
  ASSUME NEW S, IsFiniteSet(S), NEW D,
         {} \in D,
         \A A \in SUBSET S, x \in S : A \in D /\ x \notin A => A \cup {x} \in D
  PROVE  S \in D
<1> DEFINE T == {n \in Nat : \A A \in SUBSET S : Cardinality(A) = n => A \in D}
<1>1. \A A \in SUBSET S : IsFiniteSet(A) /\ Cardinality(A) \in Nat
  BY FS_Subset, FS_CardinalityType
<1>2. 0 \in T
  BY <1>1, FS_EmptySet
<1>3. ASSUME NEW n \in Nat, n \in T PROVE n + 1 \in T
  <2>1. ASSUME NEW A \in SUBSET S, Cardinality(A) = n + 1 PROVE A \in D
    <3>1. PICK x \in A : TRUE
      BY <2>1, <1>1, FS_EmptySet
    <3>2. Cardinality(A \ {x}) = n
      <4>1. Cardinality(A \ {x}) = Cardinality(A) - 1
        BY <1>1, <3>1, FS_RemoveElement
      <4> QED
        BY <2>1, <4>1
    <3>3. A \ {x} \in D /\ A \ {x} \in SUBSET S
      BY <1>3, <3>2
    <3>4. (A \ {x}) \cup {x} = A
      BY <3>1
    <3> QED
      BY <3>1, <3>3, <3>4
  <2> QED
    BY <2>1
<1>4. Nat \subseteq T
  <2> HIDE DEF T
  <2> QED BY <1>2, <1>3, NatSetInduction
<1> QED
  BY <1>1, <1>4

\* g is the fold of `fun` over every part of S.
Iterates(fun, S, g) ==
  g = [A \in SUBSET S |-> IF A = {} THEN 0
         ELSE fun[CHOOSE x \in A : TRUE] + g[A \ {CHOOSE x \in A : TRUE}]]

\* There is such a function, so that the fold's CHOOSE chooses one.
LEMMA IteratesExists ==
  ASSUME NEW S, IsFiniteSet(S), NEW fun
  PROVE  \E g : Iterates(fun, S, g)
<1> DEFINE c(A) == CHOOSE x \in A : TRUE
           Body(g, A) == IF A = {} THEN 0 ELSE fun[c(A)] + g[A \ {c(A)}]
           T == {n \in Nat : \E g : \A A \in SUBSET S :
                   Cardinality(A) <= n => g[A] = Body(g, A)}
<1>1. \A A \in SUBSET S : /\ IsFiniteSet(A) /\ Cardinality(A) \in Nat
                          /\ Cardinality(A) = 0 <=> A = {}
  BY FS_Subset, FS_CardinalityType, FS_EmptySet
<1>2. 0 \in T
  <2> DEFINE g0 == [A \in SUBSET S |-> 0]
  <2>1. \A A \in SUBSET S : Cardinality(A) <= 0 => g0[A] = Body(g0, A)
    BY <1>1
  <2> QED
    BY <2>1
<1>3. ASSUME NEW n \in Nat, n \in T PROVE n + 1 \in T
  <2>1. PICK g : \A A \in SUBSET S : Cardinality(A) <= n => g[A] = Body(g, A)
    BY <1>3
  <2> DEFINE h == [A \in SUBSET S |-> Body(g, A)]
  <2>2. ASSUME NEW A \in SUBSET S, Cardinality(A) <= n + 1
        PROVE  h[A] = Body(h, A)
    <3>1. CASE A = {}
      BY <3>1
    <3>2. CASE A # {}
      <4> DEFINE B == A \ {c(A)}
      <4>1. c(A) \in A
        BY <3>2
      <4>2. Cardinality(B) = Cardinality(A) - 1 /\ B \in SUBSET S
        BY <1>1, <4>1, FS_RemoveElement
      <4>3. Cardinality(B) <= n
        BY <1>1, <2>2, <4>2
      <4>4. g[B] = Body(g, B)
        BY <2>1, <4>2, <4>3
      <4>5. h[B] = g[B]
        BY <4>2, <4>4
      <4> HIDE DEF c, h
      <4>6. Body(g, A) = fun[c(A)] + g[B] /\ Body(h, A) = fun[c(A)] + h[B]
        BY <3>2
      <4>7. h[A] = Body(g, A)
        BY DEF h
      <4> QED
        BY <4>5, <4>6, <4>7
    <3> QED
      BY <3>1, <3>2
  <2> QED
    <3> HIDE DEF h, Body
    <3> QED BY <2>2
<1>4. Nat \subseteq T
  <2> HIDE DEF T
  <2> QED BY <1>2, <1>3, NatSetInduction
<1>5. PICK g : \A A \in SUBSET S : Cardinality(A) <= Cardinality(S) => g[A] = Body(g, A)
  <2>1. Cardinality(S) \in T
    BY <1>1, <1>4
  <2> QED BY <2>1
<1>6. \A A \in SUBSET S : g[A] = Body(g, A)
  BY <1>5, <1>1, FS_Subset
<1> DEFINE h == [A \in SUBSET S |-> Body(g, A)]
<1>7. \A A \in SUBSET S : h[A] = Body(h, A)
   <2> SUFFICES ASSUME NEW A \in SUBSET S PROVE h[A] = Body(h, A)
     OBVIOUS
   <2>1. \A B \in SUBSET S : h[B] = g[B]
     BY <1>6
   <2>2. A \ {c(A)} \in SUBSET S
     OBVIOUS
   <2>3. Body(g, A) = Body(h, A)
     <3> HIDE DEF h, c
     <3> QED BY <2>1, <2>2
   <2> QED
     BY <2>3
<1>8. h = [A \in SUBSET S |-> Body(h, A)]
   <2>1. DOMAIN h = SUBSET S
     OBVIOUS
   <2>2. \A A \in SUBSET S : h[A] = [B \in SUBSET S |-> Body(h, B)][A]
     <3> HIDE DEF h, Body
     <3> QED BY <1>7
   <2>3. h = [A \in SUBSET S |-> h[A]]
     OBVIOUS
   <2> HIDE DEF h, Body
   <2> QED BY <2>2, <2>3
<1> QED
  BY <1>8 DEF Iterates

\* A sum is what the iteration comes to.
LEMMA SumIs ==
  ASSUME NEW S, IsFiniteSet(S), NEW fun
  PROVE  \E g : Iterates(fun, S, g) /\ SumFunctionOnSet(fun, S) = g[S]
<1> DEFINE g == CHOOSE g : Iterates(fun, S, g)
<1>1. Iterates(fun, S, g)
  BY IteratesExists
<1>2. SumFunctionOnSet(fun, S) = g[S]
  BY Zenon DEF SumFunctionOnSet, FoldFunctionOnSet, MapThenFoldSet, Iterates
<1> QED
  BY <1>1, <1>2

\* Iterating over more than T gives the same on the parts of T.
LEMMA IteratesAgree ==
  ASSUME NEW S, IsFiniteSet(S), NEW T \in SUBSET S, NEW fun, NEW g, NEW h,
         Iterates(fun, S, g), Iterates(fun, T, h)
  PROVE  g[T] = h[T]
<1> DEFINE c(A) == CHOOSE x \in A : TRUE
           N == {n \in Nat : \A A \in SUBSET T : Cardinality(A) = n => g[A] = h[A]}
<1>1. \A A \in SUBSET S : /\ IsFiniteSet(A) /\ Cardinality(A) \in Nat
                          /\ Cardinality(A) = 0 <=> A = {}
  BY FS_Subset, FS_CardinalityType, FS_EmptySet
<1>2. ASSUME NEW A \in SUBSET T
      PROVE  /\ A = {} => g[A] = 0 /\ h[A] = 0
             /\ A # {} => /\ g[A] = fun[c(A)] + g[A \ {c(A)}]
                          /\ h[A] = fun[c(A)] + h[A \ {c(A)}]
  BY <1>2 DEF Iterates
<1>3. 0 \in N
  BY <1>1, <1>2
<1>4. ASSUME NEW n \in Nat, n \in N PROVE n + 1 \in N
  <2>1. ASSUME NEW A \in SUBSET T, Cardinality(A) = n + 1 PROVE g[A] = h[A]
    <3>1. A # {} /\ c(A) \in A
      BY <1>1, <2>1
    <3>2. Cardinality(A \ {c(A)}) = Cardinality(A) - 1 /\ A \ {c(A)} \in SUBSET T
      BY <1>1, <3>1, FS_RemoveElement
    <3>3. Cardinality(A \ {c(A)}) = n
      BY <2>1, <3>2
    <3>4. g[A \ {c(A)}] = h[A \ {c(A)}]
      BY <1>4, <3>2, <3>3
    <3> QED
      BY <1>2, <3>1, <3>4
  <2> QED
    BY <2>1
<1>5. Nat \subseteq N
  <2> HIDE DEF N
  <2> QED BY <1>3, <1>4, NatSetInduction
<1> QED
  BY <1>1, <1>5

\* The sum over no index.
LEMMA SumEmpty ==
  ASSUME NEW fun
  PROVE  SumFunctionOnSet(fun, {}) = 0
<1>1. PICK g : Iterates(fun, {}, g) /\ SumFunctionOnSet(fun, {}) = g[{}]
  BY SumIs, FS_EmptySet
<1> QED
  BY <1>1 DEF Iterates

\* One step of the fold.
LEMMA SumUnfold ==
  ASSUME NEW S, IsFiniteSet(S), S # {}, NEW fun
  PROVE  \E x \in S :
           SumFunctionOnSet(fun, S) = fun[x] + SumFunctionOnSet(fun, S \ {x})
<1> DEFINE x == CHOOSE x \in S : TRUE
<1>1. x \in S
  OBVIOUS
<1>2. IsFiniteSet(S \ {x}) /\ S \ {x} \in SUBSET S
  BY FS_Subset
<1>3. PICK g : Iterates(fun, S, g) /\ SumFunctionOnSet(fun, S) = g[S]
  BY SumIs
<1>4. PICK h : /\ Iterates(fun, S \ {x}, h)
               /\ SumFunctionOnSet(fun, S \ {x}) = h[S \ {x}]
  BY <1>2, SumIs
<1>5. g[S \ {x}] = h[S \ {x}]
  <2> HIDE DEF x
  <2> QED BY <1>2, <1>3, <1>4, IteratesAgree
<1>6. g[S] = fun[x] + g[S \ {x}]
  BY <1>3 DEF Iterates
<1> QED
  BY <1>1, <1>3, <1>4, <1>5, <1>6

\* A sum of natural numbers is one.
LEMMA SumNat ==
  ASSUME NEW S, IsFiniteSet(S), NEW fun, \A x \in S : fun[x] \in Nat
  PROVE  SumFunctionOnSet(fun, S) \in Nat
<1> DEFINE sum(A) == SumFunctionOnSet(fun, A)
           N == {n \in Nat : \A A \in SUBSET S : Cardinality(A) = n => sum(A) \in Nat}
<1>1. \A A \in SUBSET S : /\ IsFiniteSet(A) /\ Cardinality(A) \in Nat
                          /\ Cardinality(A) = 0 <=> A = {}
  BY FS_Subset, FS_CardinalityType, FS_EmptySet
<1>2. 0 \in N
  BY <1>1, SumEmpty
<1>3. ASSUME NEW n \in Nat, n \in N PROVE n + 1 \in N
  <2>1. ASSUME NEW A \in SUBSET S, Cardinality(A) = n + 1 PROVE sum(A) \in Nat
    <3>1. A # {}
      BY <1>1, <2>1
    <3>2. PICK x \in A : sum(A) = fun[x] + sum(A \ {x})
      BY <1>1, <3>1, SumUnfold
    <3>3. Cardinality(A \ {x}) = Cardinality(A) - 1 /\ A \ {x} \in SUBSET S
      BY <1>1, FS_RemoveElement
    <3>4. Cardinality(A \ {x}) = n
      BY <2>1, <3>3
    <3>5. sum(A \ {x}) \in Nat /\ fun[x] \in Nat
      BY <1>3, <3>3, <3>4
    <3> HIDE DEF sum
    <3> QED
      BY <3>2, <3>5
  <2> QED
    BY <2>1
<1>4. Nat \subseteq N
  <2> HIDE DEF N
  <2> QED BY <1>2, <1>3, NatSetInduction
<1> QED
  BY <1>1, <1>4

\* Whichever element is taken out first.
LEMMA SumElement ==
  ASSUME NEW S, IsFiniteSet(S), NEW fun, \A x \in S : fun[x] \in Nat, NEW e \in S
  PROVE  SumFunctionOnSet(fun, S) = fun[e] + SumFunctionOnSet(fun, S \ {e})
<1> DEFINE sum(A) == SumFunctionOnSet(fun, A)
           N == {n \in Nat : \A A \in SUBSET S : Cardinality(A) = n =>
                   \A x \in A : sum(A) = fun[x] + sum(A \ {x})}
<1>1. \A A \in SUBSET S : /\ IsFiniteSet(A) /\ Cardinality(A) \in Nat
                          /\ Cardinality(A) = 0 <=> A = {}
                          /\ sum(A) \in Nat
  BY FS_Subset, FS_CardinalityType, FS_EmptySet, SumNat
<1>2. 0 \in N
  BY <1>1
<1>3. ASSUME NEW n \in Nat, n \in N PROVE n + 1 \in N
  <2>1. ASSUME NEW A \in SUBSET S, Cardinality(A) = n + 1, NEW x \in A
        PROVE  sum(A) = fun[x] + sum(A \ {x})
    <3>1. PICK c \in A : sum(A) = fun[c] + sum(A \ {c})
      BY <1>1, SumUnfold
    <3>2. CASE x = c
      BY <3>1, <3>2
    <3>3. CASE x # c
      <4> DEFINE B == (A \ {c}) \ {x}
      <4>1. /\ Cardinality(A \ {c}) = Cardinality(A) - 1
            /\ Cardinality(A \ {x}) = Cardinality(A) - 1
        BY <1>1, FS_RemoveElement
      <4>2. Cardinality(A \ {c}) = n /\ Cardinality(A \ {x}) = n
        BY <2>1, <4>1
      <4>3. sum(A \ {c}) = fun[x] + sum(B)
        BY <1>3, <3>3, <4>2
      <4>4. (A \ {x}) \ {c} = B
        OBVIOUS
      <4>5. sum(A \ {x}) = fun[c] + sum((A \ {x}) \ {c})
        BY <1>3, <3>3, <4>2
      <4>6. sum(A \ {x}) = fun[c] + sum(B)
        BY <4>4, <4>5
      <4>7. sum(B) \in Nat /\ fun[c] \in Nat /\ fun[x] \in Nat
        BY <1>1
      <4> HIDE DEF sum, B
      <4> QED
        BY <3>1, <4>3, <4>6, <4>7
    <3> QED
      BY <3>2, <3>3
  <2> QED
    BY <2>1
<1>4. Nat \subseteq N
  <2> HIDE DEF N
  <2> QED BY <1>2, <1>3, NatSetInduction
<1> QED
  BY <1>1, <1>4

\* Only the values on the set matter.
LEMMA SumSame ==
  ASSUME NEW S, IsFiniteSet(S), NEW f, NEW g,
         \A x \in S : f[x] \in Nat /\ g[x] = f[x]
  PROVE  SumFunctionOnSet(g, S) = SumFunctionOnSet(f, S)
<1> DEFINE D == {A \in SUBSET S : SumFunctionOnSet(g, A) = SumFunctionOnSet(f, A)}
<1>1. {} \in D
  BY SumEmpty
<1>2. ASSUME NEW A \in SUBSET S, NEW x \in S, A \in D, x \notin A
      PROVE  A \cup {x} \in D
  <2> DEFINE B == A \cup {x}
  <2>1. IsFiniteSet(B) /\ B \in SUBSET S /\ x \in B /\ B \ {x} = A
    BY <1>2, FS_Subset
  <2>2. \A y \in B : f[y] \in Nat /\ g[y] \in Nat
    OBVIOUS
  <2> HIDE DEF B
  <2>3. /\ SumFunctionOnSet(f, B) = f[x] + SumFunctionOnSet(f, A)
        /\ SumFunctionOnSet(g, B) = g[x] + SumFunctionOnSet(g, A)
    BY <2>1, <2>2, SumElement
  <2>4. SumFunctionOnSet(g, B) = SumFunctionOnSet(f, B)
    BY <1>2, <2>3
  <2> QED
    BY <2>1, <2>4 DEF B
<1>3. S \in D
  <2> HIDE DEF D
  <2> QED BY <1>1, <1>2, SetInduction
<1> QED
  BY <1>3

\* A sum of zeros.
LEMMA SumZero ==
  ASSUME NEW S, IsFiniteSet(S), NEW f, \A x \in S : f[x] = 0
  PROVE  SumFunctionOnSet(f, S) = 0
<1> DEFINE D == {A \in SUBSET S : SumFunctionOnSet(f, A) = 0}
<1>1. {} \in D
  BY SumEmpty
<1>2. ASSUME NEW A \in SUBSET S, NEW x \in S, A \in D, x \notin A
      PROVE  A \cup {x} \in D
  <2> DEFINE B == A \cup {x}
  <2>1. IsFiniteSet(B) /\ B \in SUBSET S /\ x \in B /\ B \ {x} = A
    BY <1>2, FS_Subset
  <2>2. SumFunctionOnSet(f, B) = f[x] + SumFunctionOnSet(f, A)
    BY <2>1, SumElement
  <2> QED
    BY <1>2, <2>1, <2>2
<1>3. S \in D
  <2> HIDE DEF D
  <2> QED BY <1>1, <1>2, SetInduction
<1> QED
  BY <1>3

\* What one changed value does to a sum.
LEMMA SumUpdate ==
  ASSUME NEW S, IsFiniteSet(S), NEW f \in [S -> Nat], NEW g \in [S -> Nat],
         NEW k \in S, \A x \in S \ {k} : g[x] = f[x]
  PROVE  SumFunction(g) = (SumFunction(f) - f[k]) + g[k]
<1> DEFINE R == S \ {k}
<1>1. IsFiniteSet(R) /\ f[k] \in Nat /\ g[k] \in Nat
  BY FS_Subset
<1>2. SumFunctionOnSet(g, R) = SumFunctionOnSet(f, R)
  BY <1>1, SumSame
<1>3. SumFunctionOnSet(f, R) \in Nat
  BY <1>1, SumNat
<1>4. /\ SumFunctionOnSet(f, S) = f[k] + SumFunctionOnSet(f, R)
      /\ SumFunctionOnSet(g, S) = g[k] + SumFunctionOnSet(g, R)
  BY SumElement
<1>5. SumFunction(f) = SumFunctionOnSet(f, S) /\ SumFunction(g) = SumFunctionOnSet(g, S)
  BY DEF SumFunction
<1> HIDE DEF R
<1> QED
  BY <1>1, <1>2, <1>3, <1>4, <1>5

\* A part of a sum is at most the sum.
LEMMA SumBounds ==
  ASSUME NEW S, IsFiniteSet(S), NEW f \in [S -> Nat], NEW k \in S
  PROVE  SumFunction(f) \in Nat /\ f[k] <= SumFunction(f)
<1>1. IsFiniteSet(S \ {k}) /\ f[k] \in Nat
  BY FS_Subset
<1>2. SumFunctionOnSet(f, S \ {k}) \in Nat
  BY <1>1, SumNat
<1>3. SumFunctionOnSet(f, S) = f[k] + SumFunctionOnSet(f, S \ {k})
  BY SumElement
<1>4. SumFunction(f) = SumFunctionOnSet(f, S)
  BY DEF SumFunction
<1> QED
  BY <1>1, <1>2, <1>3, <1>4

------------------------------------------------------------------------------
\* Arithmetic

\* A conversion of a natural amount at an available rate is a natural amount.
LEMMA WrappedNat ==
  ASSUME OracleTypeOK, RateAvailable, NEW amount \in Nat
  PROVE  /\ WrappedToCollateral(amount) \in Nat
         /\ CollateralForIssued(amount) \in Nat
         /\ CollateralFor(amount) \in Nat
<1>1. exchangeRate \in Nat
  BY RatesNat DEF OracleTypeOK, RateAvailable
<1>2. amount * exchangeRate \in Nat
  BY <1>1
<1>3. WrappedToCollateral(amount) \in Nat
  BY <1>2, ScalePositive DEF WrappedToCollateral
<1> QED
  BY <1>3 DEF CollateralForIssued, CollateralFor

\* The fee is a part of the total it is taken from.
LEMMA FeeWithin ==
  ASSUME NEW total \in Nat
  PROVE  /\ Fee(total) \in Nat
         /\ total - Fee(total) \in Nat
  BY DEF Fee

\* What a reimbursed holder receives is a natural amount.
LEMMA PunishedNat ==
  ASSUME OracleTypeOK, RateAvailable, NEW total \in Nat
  PROVE  Punished(total) \in Nat
  BY WrappedNat DEF Punished

\* The griefing collateral given back is a part of it.
LEMMA GriefingWithin ==
  ASSUME NEW griefing \in Nat, NEW transferred \in Nat, NEW expected \in Nat
  PROVE  /\ GriefingReturned(griefing, transferred, expected) \in Nat
         /\ griefing - GriefingReturned(griefing, transferred, expected) \in Nat
<1>1. CASE transferred < expected
  <2> DEFINE q == (griefing * transferred) \div expected
  <2>1. griefing * transferred \in Nat
    OBVIOUS
  <2>2. q \in Nat /\ q * expected <= griefing * transferred
    BY <1>1, <2>1
  <2>3. griefing * transferred <= griefing * expected
    BY <1>1
  <2>4. q <= griefing
    BY <1>1, <2>2, <2>3
  <2> QED
    BY <1>1, <2>2, <2>4 DEF GriefingReturned
<1>2. CASE ~(transferred < expected)
  BY <1>2 DEF GriefingReturned
<1> QED
  BY <1>1, <1>2

------------------------------------------------------------------------------
\* Types of what the helpers assign

LEMMA AccountsAreAddresses ==
  /\ Accounts \subseteq Addresses
  /\ This \in Addresses
  /\ VaultReward \in Addresses
  /\ Vaults \subseteq Accounts
  /\ Users \subseteq Accounts
  BY VaultsAreAccounts, UsersAreAccounts DEF Addresses

LEMMA PayContractType ==
  ASSUME HarmonyTypeOK, NEW from \in Addresses, NEW amount \in Nat,
         PayContract(from, amount)
  PROVE  balance' \in [Addresses -> Nat]
<1>1. /\ balance \in [Addresses -> Nat]
      /\ This \in Addresses
      /\ balance[from] - amount \in Nat
  BY DEF HarmonyTypeOK, PayContract, Addresses
<1> QED
  BY <1>1 DEF PayContract

LEMMA PayOutType ==
  ASSUME HarmonyTypeOK, NEW to \in Addresses, NEW to2 \in Addresses,
         NEW amount \in Nat, NEW amount2 \in Nat,
         PayOut(to, amount, to2, amount2)
  PROVE  balance' \in [Addresses -> Nat]
<1>1. /\ balance \in [Addresses -> Nat]
      /\ This \in Addresses
      /\ balance[This] - (amount + amount2) \in Nat
  BY DEF HarmonyTypeOK, PayOut, Addresses
<1> QED
  BY <1>1 DEF PayOut

LEMMA LockCollateralType ==
  ASSUME HarmonyTypeOK, CollateralTypeOK, NEW payer \in Addresses,
         NEW sender \in Accounts, NEW amount \in Nat,
         LockCollateral(payer, sender, amount)
  PROVE  /\ balance' \in [Addresses -> Nat]
         /\ CollateralBalances' \in [Accounts -> Nat]
  BY PayContractType DEF LockCollateral, CollateralTypeOK

LEMMA Release2Type ==
  ASSUME HarmonyTypeOK, CollateralTypeOK, NEW sender \in Accounts,
         NEW used, used[sender] \in Nat,
         NEW to \in Accounts, NEW to2 \in Accounts,
         NEW amount \in Nat, NEW amount2 \in Nat,
         Release2(sender, used, to, amount, to2, amount2)
  PROVE  /\ balance' \in [Addresses -> Nat]
         /\ CollateralBalances' \in [Accounts -> Nat]
<1>1. balance' \in [Addresses -> Nat]
  BY PayOutType, AccountsAreAddresses DEF Release2
<1>2. CollateralBalances[sender] - (amount + amount2) \in Nat
  BY DEF Release2, CollateralTypeOK
<1> QED
  BY <1>1, <1>2 DEF Release2, CollateralTypeOK

LEMMA ReleaseType ==
  ASSUME HarmonyTypeOK, CollateralTypeOK, NEW sender \in Accounts,
         NEW used, used[sender] \in Nat,
         NEW to \in Accounts, NEW amount \in Nat,
         Release(sender, used, to, amount)
  PROVE  /\ balance' \in [Addresses -> Nat]
         /\ CollateralBalances' \in [Accounts -> Nat]
  BY Release2Type DEF Release

LEMMA UseCollateralType ==
  ASSUME CollateralTypeOK, NEW v \in Accounts, NEW amount \in Nat,
         UseCollateralInc(v, amount) \/ UseCollateralDec(v, amount)
  PROVE  CollateralUsed' \in [Accounts -> Nat]
  BY DEF CollateralTypeOK, UseCollateralInc, UseCollateralDec

LEMMA TransferType ==
  ASSUME ERC20TypeOK, NEW from \in Holders, NEW to \in Holders,
         NEW amount \in Nat, Transfer(from, to, amount)
  PROVE  ERC20TypeOK'
<1>1. tokens[from] - amount \in Nat
  BY DEF ERC20TypeOK, Transfer
<1> QED
  BY <1>1 DEF ERC20TypeOK, Transfer

\* The requests a call reads are requests.
LEMMA PendingIssueType ==
  ASSUME IssueTypeOK, NEW u \in Users, NEW t \in Times,
         IsPending(issueRequests[u][t])
  PROVE  issueRequests[u][t] \in IssueRequest
  BY DEF IssueTypeOK, IsPending, NoRequest

LEMMA PendingRedeemType ==
  ASSUME RedeemTypeOK, NEW u \in Users, NEW t \in Times,
         IsPending(redeemRequests[u][t])
  PROVE  redeemRequests[u][t] \in RedeemRequest
  BY DEF RedeemTypeOK, IsPending, NoRequest

LEMMA OpeningTimes ==
  ASSUME HarmonyTypeOK
  PROVE  /\ now \in Times
         /\ 1 .. now \subseteq Times
  BY FundsAndClockNat DEF HarmonyTypeOK, Times

------------------------------------------------------------------------------
\* Types of what the calls assign

LEMMA RegistryType ==
  ASSUME TypeOK, VaultRegistryNext,
         UNCHANGED <<tokenVars, issueRequests, redeemRequests,
                     exchangeRate, now>>
  PROVE  TypeOK'
<1> USE DEF TypeOK, tokenVars, tokenDebtVars
<1>1. /\ ERC20TypeOK' /\ IssueTypeOK' /\ RedeemTypeOK' /\ OracleTypeOK'
      /\ now' \in Times
  BY DEF ERC20TypeOK, IssueTypeOK, RedeemTypeOK, OracleTypeOK, HarmonyTypeOK
<1>2. PICK v \in Vaults :
        \/ \E amount \in OneAmounts, key \in Keys : RegisterVault(v, key, amount)
        \/ \E amount \in OneAmounts : LockAdditionalCollateral(v, amount)
        \/ \E amount \in OneAmounts :
             LockAdditionalCollateralFromVaultReward(v, amount)
        \/ \E amount \in OneAmounts : WithdrawCollateral(v, amount)
        \/ \E key \in Keys \cup {NoKey} : UpdatePublicKey(v, key)
        \/ \E period \in LockPeriods : ExtendVaultLockPeriod(v, period)
  BY DEF VaultRegistryNext
<1>3. /\ v \in Accounts /\ v \in Addresses /\ VaultReward \in Addresses
      /\ collateral \in [Vaults -> Nat]
  BY AccountsAreAddresses DEF VaultRegistryTypeOK
<1>4. ASSUME NEW payer \in Addresses, NEW amount \in OneAmounts,
             AddCollateral(payer, v, amount),
             btcPublicKey' \in [Vaults -> Keys \cup {NoKey}]
      PROVE  TypeOK'
  <2>1. amount \in Nat
    BY OneAmountsNat
  <2>2. /\ balance' \in [Addresses -> Nat]
        /\ CollateralBalances' \in [Accounts -> Nat]
    BY <1>3, <1>4, <2>1, LockCollateralType DEF AddCollateral
  <2> QED
    BY <1>1, <1>3, <1>4, <2>1, <2>2
    DEF AddCollateral, HarmonyTypeOK, CollateralTypeOK, VaultRegistryTypeOK
<1>5. ASSUME NEW amount \in OneAmounts, NEW key \in Keys,
             RegisterVault(v, key, amount)
      PROVE  TypeOK'
  BY <1>3, <1>4, <1>5 DEF RegisterVault, VaultRegistryTypeOK
<1>6. ASSUME NEW amount \in OneAmounts, LockAdditionalCollateral(v, amount)
      PROVE  TypeOK'
  BY <1>3, <1>4, <1>6 DEF LockAdditionalCollateral, VaultRegistryTypeOK
<1>7. ASSUME NEW amount \in OneAmounts,
             LockAdditionalCollateralFromVaultReward(v, amount)
      PROVE  TypeOK'
  BY <1>3, <1>4, <1>7
  DEF LockAdditionalCollateralFromVaultReward, VaultRegistryTypeOK
<1>8. ASSUME NEW amount \in OneAmounts, WithdrawCollateral(v, amount)
      PROVE  TypeOK'
  <2>1. amount \in Nat /\ CollateralUsed[v] \in Nat
    BY <1>3, OneAmountsNat DEF CollateralTypeOK
  <2>2. Release(v, CollateralUsed, v, amount)
    BY <1>8 DEF WithdrawCollateral
  <2>3. /\ balance' \in [Addresses -> Nat]
        /\ CollateralBalances' \in [Accounts -> Nat]
    BY <1>3, <2>1, <2>2, ReleaseType
  <2>4. collateral' \in [Vaults -> Nat]
    BY <1>3, <1>8, <2>1 DEF WithdrawCollateral
  <2> QED
    BY <1>1, <1>8, <2>3, <2>4
    DEF WithdrawCollateral, HarmonyTypeOK, CollateralTypeOK,
        VaultRegistryTypeOK
<1>9. ASSUME NEW key \in Keys \cup {NoKey}, UpdatePublicKey(v, key)
      PROVE  TypeOK'
  BY <1>1, <1>9
  DEF UpdatePublicKey, collateralVars, HarmonyTypeOK, CollateralTypeOK,
      VaultRegistryTypeOK
<1>10. ASSUME NEW period \in LockPeriods, ExtendVaultLockPeriod(v, period)
       PROVE  TypeOK'
  <2>1. period \in Nat /\ now \in Nat
    BY LockPeriodsNat, FundsAndClockNat DEF HarmonyTypeOK, Times
  <2>2. lockExpireAt' \in [Vaults -> Nat]
    BY <1>10, <2>1 DEF ExtendVaultLockPeriod, VaultRegistryTypeOK
  <2> QED
    BY <1>1, <1>10, <2>2
    DEF ExtendVaultLockPeriod, collateralVars, HarmonyTypeOK,
        CollateralTypeOK, VaultRegistryTypeOK
<1> QED
  BY <1>2, <1>5, <1>6, <1>7, <1>8, <1>9, <1>10

LEMMA RequestIssueType ==
  ASSUME TypeOK, NEW u \in Users, NEW v \in Vaults,
         NEW amount \in IssueAmounts, NEW griefing \in GriefingAmounts,
         RequestIssue(u, amount, v, griefing),
         UNCHANGED <<redeemRequests, exchangeRate, now>>
  PROVE  TypeOK'
<1> USE DEF TypeOK
<1>1. /\ amount \in Nat /\ griefing \in Nat
      /\ u \in Accounts /\ v \in Accounts /\ u \in Addresses
  BY IssueInputsNat, AccountsAreAddresses
<1>2. /\ now \in Times
      /\ RequestId(u, now) \in Accounts \X Times
      /\ Derivate(btcPublicKey[v], RequestId(u, now)) \in DepositAddresses
  BY <1>1, OpeningTimes
  DEF VaultRegistryTypeOK, RequestId, Derivate, DepositAddresses
<1>3. /\ balance' \in [Addresses -> Nat]
      /\ CollateralBalances' \in [Accounts -> Nat]
  BY <1>1, LockCollateralType DEF RequestIssue
<1>4. CollateralUsed' \in [Accounts -> Nat]
  <2>1. OracleTypeOK /\ RateAvailable
    BY DEF RequestIssue, CanPrice, RateAvailable
  <2>2. CollateralForIssued(amount) \in Nat
    BY <1>1, <2>1, WrappedNat
  <2> QED
    BY <1>1, <2>2, UseCollateralType DEF RequestIssue
<1>5. VaultRegistryTypeOK'
  BY <1>1, <1>2
  DEF RequestIssue, RegisterDepositAddress, VaultRegistryTypeOK
<1>6. IssueTypeOK'
  <2>1. [status |-> "Pending",
         vault |-> v,
         btcAddress |-> Derivate(btcPublicKey[v], RequestId(u, now)),
         amount |-> amount - Fee(amount),
         fee |-> Fee(amount),
         griefingCollateral |-> griefing] \in IssueRequest
    BY <1>1, <1>2, FeeWithin DEF IssueRequest
  <2> QED
    BY <1>2, <2>1 DEF RequestIssue, IssueTypeOK
<1> QED
  BY <1>3, <1>4, <1>5, <1>6
  DEF RequestIssue, HarmonyTypeOK, CollateralTypeOK, OracleTypeOK,
      ERC20TypeOK, RedeemTypeOK, tokenVars

LEMMA ExecuteIssueType ==
  ASSUME TypeOK, NEW caller \in Users, NEW u \in Users, NEW opentime \in Times,
         NEW transferred \in TransferredAmounts,
         ExecuteIssue(caller, u, opentime, transferred),
         UNCHANGED <<redeemRequests, exchangeRate, now>>
  PROVE  TypeOK'
<1> USE DEF TypeOK
<1> DEFINE request  == issueRequests[u][opentime]
           v        == request.vault
           griefing == request.griefingCollateral
           expected == Total(request)
           returned == GriefingReturned(griefing, transferred, expected)
<1>1. request \in IssueRequest
  BY PendingIssueType DEF ExecuteIssue
<1>2. /\ u \in Accounts /\ v \in Accounts /\ v \in Vaults
      /\ griefing \in Nat /\ expected \in Nat /\ transferred \in Nat
  BY <1>1, IssueInputsNat, AccountsAreAddresses DEF IssueRequest, Total
<1>3. returned \in Nat /\ griefing - returned \in Nat
  BY <1>2, GriefingWithin
<1>4. Fee(transferred) \in Nat /\ transferred - Fee(transferred) \in Nat
  BY <1>2, FeeWithin
<1>5. /\ balance' \in [Addresses -> Nat]
      /\ CollateralBalances' \in [Accounts -> Nat]
  <2>1. Release2(u, CollateralUsed, u, returned, v, griefing - returned)
    BY DEF ExecuteIssue
  <2>2. CollateralUsed[u] \in Nat
    BY <1>2 DEF CollateralTypeOK
  <2> HIDE DEF v, griefing, returned
  <2> QED
    BY <1>2, <1>3, <2>1, <2>2, Release2Type
<1>6. VaultRegistryTypeOK'
  <2>1. IssueTokens(v, expected, transferred)
    BY DEF ExecuteIssue
  <2> HIDE DEF v, expected
  <2>2. toBeIssued' \in [Vaults -> Nat] /\ issued' \in [Vaults -> Nat]
    BY <1>2, <2>1 DEF IssueTokens, DecreaseToBeIssued, VaultRegistryTypeOK
  <2> QED
    BY <2>2 DEF ExecuteIssue, VaultRegistryTypeOK
<1>7. ERC20TypeOK'
  <2>1. IssueOneBTC(v, u, transferred)
    BY DEF ExecuteIssue
  <2> HIDE DEF v
  <2> QED
    BY <1>2, <1>4, <2>1 DEF IssueOneBTC, Mint2, ERC20TypeOK, Holders
<1>8. IssueTypeOK'
  <2>1. [request EXCEPT !.status = "Completed",
                        !.fee = Fee(transferred),
                        !.amount = transferred - Fee(transferred)]
          \in IssueRequest
    BY <1>1, <1>4 DEF IssueRequest
  <2> QED
    BY <2>1 DEF ExecuteIssue, IssueTypeOK
<1> QED
  BY <1>5, <1>6, <1>7, <1>8
  DEF ExecuteIssue, HarmonyTypeOK, CollateralTypeOK, OracleTypeOK,
      RedeemTypeOK

LEMMA CancelIssueType ==
  ASSUME TypeOK, NEW u \in Users, NEW opentime \in Times,
         CancelIssue(u, opentime),
         UNCHANGED <<redeemRequests, exchangeRate, now>>
  PROVE  TypeOK'
<1> USE DEF TypeOK
<1> DEFINE request  == issueRequests[u][opentime]
           v        == request.vault
           griefing == request.griefingCollateral
           total    == Total(request)
<1>1. request \in IssueRequest
  BY PendingIssueType DEF CancelIssue
<1>2. /\ u \in Accounts /\ v \in Accounts /\ v \in Vaults
      /\ griefing \in Nat /\ total \in Nat
  BY <1>1, AccountsAreAddresses DEF IssueRequest, Total
<1>3. /\ Release(u, CollateralUsed, v, griefing)
      /\ DecreaseToBeIssued(v, total)
      /\ UseCollateralDec(v, CollateralForIssued(total))
      /\ RateAvailable
  BY DEF CancelIssue
<1>4. IssueTypeOK'
  <2>1. [request EXCEPT !.status = "Cancelled"] \in IssueRequest
    BY <1>1 DEF IssueRequest
  <2> QED
    BY <2>1 DEF CancelIssue, IssueTypeOK
<1>5. CollateralUsed[u] \in Nat
  BY <1>2 DEF CollateralTypeOK
<1> HIDE DEF v, griefing, total
<1>6. /\ balance' \in [Addresses -> Nat]
      /\ CollateralBalances' \in [Accounts -> Nat]
  BY <1>2, <1>3, <1>5, ReleaseType
<1>7. CollateralUsed' \in [Accounts -> Nat]
  BY <1>2, <1>3, WrappedNat, UseCollateralType
<1>8. toBeIssued' \in [Vaults -> Nat]
  BY <1>2, <1>3 DEF DecreaseToBeIssued, VaultRegistryTypeOK
<1> QED
  BY <1>4, <1>6, <1>7, <1>8
  DEF CancelIssue, HarmonyTypeOK, CollateralTypeOK, OracleTypeOK,
      VaultRegistryTypeOK, ERC20TypeOK, RedeemTypeOK, tokenVars

LEMMA RequestRedeemType ==
  ASSUME TypeOK, NEW u \in Users, NEW v \in Vaults, NEW amount \in RedeemAmounts,
         RequestRedeem(u, amount, v),
         UNCHANGED <<issueRequests, exchangeRate, now>>
  PROVE  TypeOK'
<1> USE DEF TypeOK
<1>1. /\ amount \in Nat /\ now \in Times
      /\ u \in Holders /\ This \in Holders
  BY RedeemInputs, OpeningTimes, AccountsAreAddresses DEF Holders
<1>2. Fee(amount) \in Nat /\ amount - Fee(amount) \in Nat
  BY <1>1, FeeWithin
<1>3. ERC20TypeOK'
  BY <1>1, TransferType DEF RequestRedeem, LockOneBTC
<1>4. VaultRegistryTypeOK'
  BY <1>2 DEF RequestRedeem, VaultRegistryTypeOK
<1>5. RedeemTypeOK'
  <2>1. [status |-> "Pending",
         vault |-> v,
         amountBtc |-> amount - Fee(amount),
         fee |-> Fee(amount)] \in RedeemRequest
    BY <1>2 DEF RedeemRequest
  <2> QED
    BY <1>1, <2>1 DEF RequestRedeem, RedeemTypeOK
<1> QED
  BY <1>3, <1>4, <1>5
  DEF RequestRedeem, HarmonyTypeOK, CollateralTypeOK, OracleTypeOK,
      IssueTypeOK, collateralVars

LEMMA ExecuteRedeemType ==
  ASSUME TypeOK, NEW u \in Users, NEW opentime \in Times,
         ExecuteRedeem(u, opentime),
         UNCHANGED <<issueRequests, exchangeRate, now>>
  PROVE  TypeOK'
<1> USE DEF TypeOK
<1> DEFINE request == redeemRequests[u][opentime]
           v       == request.vault
           amount  == request.amountBtc
           fee     == request.fee
<1>1. request \in RedeemRequest
  BY PendingRedeemType DEF ExecuteRedeem
<1>2. /\ v \in Accounts /\ v \in Vaults /\ v \in Holders
      /\ amount \in Nat /\ fee \in Nat
  BY <1>1, AccountsAreAddresses DEF RedeemRequest, Holders
<1>3. /\ BurnAndReleaseLocked(amount, v, fee)
      /\ UseCollateralDec(v, CollateralFor(amount))
      /\ RedeemTokens(v, amount)
      /\ RateAvailable
  BY DEF ExecuteRedeem
<1>4. RedeemTypeOK'
  <2>1. [request EXCEPT !.status = "Completed"] \in RedeemRequest
    BY <1>1 DEF RedeemRequest
  <2> QED
    BY <2>1 DEF ExecuteRedeem, RedeemTypeOK
<1> HIDE DEF v, amount, fee
<1>5. ERC20TypeOK'
  <2>1. tokens[This] - (amount + fee) \in Nat /\ totalSupply - amount \in Nat
    BY <1>2, <1>3 DEF BurnAndReleaseLocked, ERC20TypeOK, Holders
  <2> QED
    BY <1>2, <1>3, <2>1 DEF BurnAndReleaseLocked, ERC20TypeOK
<1>6. CollateralUsed' \in [Accounts -> Nat]
  BY <1>2, <1>3, WrappedNat, UseCollateralType
<1>7. toBeRedeemed' \in [Vaults -> Nat] /\ issued' \in [Vaults -> Nat]
  BY <1>2, <1>3 DEF RedeemTokens, DecreaseToBeRedeemed, VaultRegistryTypeOK
<1> QED
  BY <1>4, <1>5, <1>6, <1>7
  DEF ExecuteRedeem, HarmonyTypeOK, CollateralTypeOK, OracleTypeOK,
      VaultRegistryTypeOK, IssueTypeOK

LEMMA CancelRedeemType ==
  ASSUME TypeOK, NEW u \in Users, NEW opentime \in Times,
         NEW reimburse \in BOOLEAN, CancelRedeem(u, opentime, reimburse),
         UNCHANGED <<issueRequests, exchangeRate, now>>
  PROVE  TypeOK'
<1> USE DEF TypeOK
<1> DEFINE request == redeemRequests[u][opentime]
           v       == request.vault
           amount  == request.amountBtc
           total   == request.amountBtc + request.fee
<1>1. request \in RedeemRequest
  BY PendingRedeemType DEF CancelRedeem
<1>2. /\ u \in Accounts /\ v \in Accounts /\ v \in Vaults
      /\ u \in Holders /\ This \in Holders
      /\ amount \in Nat /\ total \in Nat
  BY <1>1, AccountsAreAddresses DEF RedeemRequest, Holders
<1>3. /\ Reimburse(u, v, total) \/ ReturnTokens(u, total)
      /\ DecreaseToBeRedeemed(v, amount)
  BY DEF CancelRedeem
<1>4. RedeemTypeOK'
  <2>1. [request EXCEPT !.status = "Cancelled"] \in RedeemRequest
    BY <1>1 DEF RedeemRequest
  <2> QED
    BY <2>1 DEF CancelRedeem, RedeemTypeOK
<1> HIDE DEF v, amount, total
<1>5. /\ balance' \in [Addresses -> Nat]
      /\ CollateralTypeOK'
      /\ ERC20TypeOK'
  <2>1. CASE Reimburse(u, v, total)
    <3>1. Punished(total) \in Nat
      BY <1>2, <2>1, PunishedNat DEF Reimburse
    <3>2. CollateralUsed' \in [Accounts -> Nat]
      BY <1>2, <2>1, <3>1, UseCollateralType DEF Reimburse
    <3>3. CollateralUsed'[v] \in Nat
      BY <1>2, <3>2
    <3>4. Release(v, CollateralUsed', u, Punished(total))
      BY <2>1 DEF Reimburse
    <3>5. /\ balance' \in [Addresses -> Nat]
          /\ CollateralBalances' \in [Accounts -> Nat]
      BY <1>2, <3>1, <3>3, <3>4, ReleaseType
    <3> QED
      BY <2>1, <3>2, <3>5
      DEF Reimburse, CollateralTypeOK, ERC20TypeOK, tokenVars
  <2>2. CASE ReturnTokens(u, total)
    BY <1>2, <2>2, TransferType
    DEF ReturnTokens, CollateralTypeOK, HarmonyTypeOK, collateralVars
  <2> QED
    BY <1>3, <2>1, <2>2
<1>6. toBeRedeemed' \in [Vaults -> Nat]
  BY <1>2, <1>3 DEF DecreaseToBeRedeemed, VaultRegistryTypeOK
<1> QED
  BY <1>4, <1>5, <1>6
  DEF CancelRedeem, HarmonyTypeOK, OracleTypeOK, VaultRegistryTypeOK,
      IssueTypeOK

------------------------------------------------------------------------------
\* Every step is one of these

LEMMA NextCases ==
  ASSUME HarmonyTypeOK, Next
  PROVE
    \/ /\ VaultRegistryNext
       /\ UNCHANGED <<tokenVars, issueRequests, redeemRequests, exchangeRate, now>>
    \/ /\ \E u \in Users, v \in Vaults, amount \in IssueAmounts,
             griefing \in GriefingAmounts : RequestIssue(u, amount, v, griefing)
       /\ UNCHANGED <<redeemRequests, exchangeRate, now>>
    \/ /\ \E caller \in Users, u \in Users, opentime \in Times,
             transferred \in TransferredAmounts :
            ExecuteIssue(caller, u, opentime, transferred)
       /\ UNCHANGED <<redeemRequests, exchangeRate, now>>
    \/ /\ \E u \in Users, opentime \in Times : CancelIssue(u, opentime)
       /\ UNCHANGED <<redeemRequests, exchangeRate, now>>
    \/ /\ \E u \in Users, v \in Vaults, amount \in RedeemAmounts :
            RequestRedeem(u, amount, v)
       /\ UNCHANGED <<issueRequests, exchangeRate, now>>
    \/ /\ \E u \in Users, opentime \in Times : ExecuteRedeem(u, opentime)
       /\ UNCHANGED <<issueRequests, exchangeRate, now>>
    \/ /\ \E u \in Users, opentime \in Times, reimburse \in BOOLEAN :
            /\ CancelRedeem(u, opentime, reimburse)
            /\ reimburse \in ReimburseChoices
       /\ UNCHANGED <<issueRequests, exchangeRate, now>>
    \/ /\ TokenNext
       /\ UNCHANGED <<collateralVars, vaultVars, issueRequests, redeemRequests,
                      exchangeRate, now>>
    \/ /\ OracleNext
       /\ UNCHANGED <<bridgeVars, now>>
    \/ /\ Tick
       /\ UNCHANGED <<bridgeVars, exchangeRate>>
<1>1. CASE /\ Call
           /\ UNCHANGED <<exchangeRate, now>>
  <2>1. CASE IssueNext /\ UNCHANGED redeemRequests
    BY <1>1, <2>1, OpeningTimes DEF IssueNext
  <2>2. CASE RedeemNext /\ UNCHANGED issueRequests
    BY <1>1, <2>2, OpeningTimes, RedeemInputs DEF RedeemNext
  <2> QED
    BY <1>1, <2>1, <2>2 DEF Call
<1> QED
  BY <1>1 DEF Next

LEMMA TokenType ==
  ASSUME TypeOK, TokenNext,
         UNCHANGED <<collateralVars, vaultVars, issueRequests, redeemRequests,
                     exchangeRate, now>>
  PROVE  TypeOK'
<1>1. PICK from \in Accounts, to \in Holders, amount \in TransferAmounts :
        Transfer(from, to, amount)
  BY DEF TokenNext, TransferToClaim, Holders
<1>2. from \in Holders /\ amount \in Nat
  BY TransferAmountsNat DEF Holders
<1>3. ERC20TypeOK'
  BY <1>1, <1>2, TransferType DEF TypeOK
<1> QED
  BY <1>3
  DEF TypeOK, HarmonyTypeOK, CollateralTypeOK, OracleTypeOK, IssueTypeOK,
      VaultRegistryTypeOK, RedeemTypeOK, collateralVars, vaultVars

LEMMA OracleStepType ==
  ASSUME TypeOK, OracleNext, UNCHANGED <<bridgeVars, now>>
  PROVE  TypeOK'
<1>1. OracleTypeOK'
  BY DEF OracleNext, SetExchangeRate, RateExpires, OracleTypeOK
<1> QED
  BY <1>1
  DEF TypeOK, HarmonyTypeOK, CollateralTypeOK, ERC20TypeOK, IssueTypeOK,
      VaultRegistryTypeOK, RedeemTypeOK, collateralVars, vaultVars, tokenVars,
      bridgeVars

LEMMA TickType ==
  ASSUME TypeOK, Tick, UNCHANGED <<bridgeVars, exchangeRate>>
  PROVE  TypeOK'
<1>1. now' \in Times
  BY FundsAndClockNat DEF TypeOK, HarmonyTypeOK, Times, Tick
<1> QED
  BY <1>1
  DEF TypeOK, HarmonyTypeOK, CollateralTypeOK, ERC20TypeOK, IssueTypeOK,
      VaultRegistryTypeOK, RedeemTypeOK, OracleTypeOK, collateralVars,
      vaultVars, tokenVars, bridgeVars

\* Every step keeps the type.
LEMMA TypeStep == TypeOK /\ [Next]_vars => TypeOK'
<1> SUFFICES ASSUME TypeOK, [Next]_vars PROVE TypeOK'
  OBVIOUS
<1>1. CASE UNCHANGED vars
  BY <1>1
  DEF vars, collateralVars, vaultVars, tokenVars, TypeOK, HarmonyTypeOK,
      CollateralTypeOK, OracleTypeOK, VaultRegistryTypeOK, ERC20TypeOK,
      IssueTypeOK, RedeemTypeOK
<1>2. CASE Next
  <2>1. HarmonyTypeOK
    BY DEF TypeOK
  <2> QED
    BY <1>2, <2>1, NextCases, RegistryType, RequestIssueType,
       ExecuteIssueType, CancelIssueType, RequestRedeemType,
       ExecuteRedeemType, CancelRedeemType, TokenType, OracleStepType,
       TickType
<1> QED
  BY <1>1, <1>2

\* The bridge's state keeps its type: in particular every balance, book and
\* request amount stays a natural number, so no SafeMath subtraction the code
\* performs on them is ever rescued by wrapping.
THEOREM TypeCorrect == Spec => []TypeOK
<1>1. Init => TypeOK
  <2>1. /\ 1 \in Times /\ Funds \in Nat
        /\ NoKey \in Keys \cup {NoKey}
    BY FundsAndClockNat DEF Times
  <2> QED
    BY <2>1
    DEF Init, TypeOK, HarmonyInit, HarmonyTypeOK, CollateralInit,
        CollateralTypeOK, OracleInit, OracleTypeOK, VaultRegistryInit,
        VaultRegistryTypeOK, ERC20Init, ERC20TypeOK, IssueInit, IssueTypeOK,
        RedeemInit, RedeemTypeOK
<1>2. TypeOK /\ [Next]_vars => TypeOK'
  BY TypeStep
<1> QED
  BY <1>1, <1>2, PTL DEF Spec

------------------------------------------------------------------------------
\* The collateral that backs tokens is there

LEMMA LockCovers ==
  ASSUME CollateralTypeOK, UsedWithinBalance, NEW payer, NEW sender \in Accounts,
         NEW amount \in Nat, LockCollateral(payer, sender, amount)
  PROVE  \A a \in Accounts : CollateralUsed[a] <= CollateralBalances'[a]
  BY DEF LockCollateral, CollateralTypeOK, UsedWithinBalance

LEMMA Release2Covers ==
  ASSUME CollateralTypeOK, NEW sender \in Accounts,
         NEW used \in [Accounts -> Nat],
         \A a \in Accounts : used[a] <= CollateralBalances[a],
         NEW to, NEW to2, NEW amount \in Nat, NEW amount2 \in Nat,
         Release2(sender, used, to, amount, to2, amount2)
  PROVE  \A a \in Accounts : used[a] <= CollateralBalances'[a]
  BY DEF Release2, CollateralTypeOK

\* Using less of a collateral that covers what was used keeps it covered.
LEMMA DecCovers ==
  ASSUME CollateralTypeOK, NEW v \in Accounts, NEW amount \in Nat,
         UseCollateralDec(v, amount)
  PROVE  \A a \in Accounts : CollateralUsed'[a] <= CollateralUsed[a]
  BY DEF UseCollateralDec, CollateralTypeOK

LEMMA RegistryCovers ==
  ASSUME TypeOK, UsedWithinBalance, VaultRegistryNext
  PROVE  UsedWithinBalance'
<1>1. CollateralTypeOK /\ CollateralUsed \in [Accounts -> Nat]
  BY DEF TypeOK, CollateralTypeOK
<1>2. PICK v \in Vaults :
        \/ \E payer \in Addresses, amount \in OneAmounts :
             AddCollateral(payer, v, amount)
        \/ \E amount \in OneAmounts : WithdrawCollateral(v, amount)
        \/ UNCHANGED collateralVars
  BY AccountsAreAddresses
  DEF VaultRegistryNext, RegisterVault, LockAdditionalCollateral,
      LockAdditionalCollateralFromVaultReward, UpdatePublicKey,
      ExtendVaultLockPeriod
<1>3. v \in Accounts
  BY AccountsAreAddresses
<1>4. ASSUME NEW payer \in Addresses, NEW amount \in OneAmounts,
             AddCollateral(payer, v, amount)
      PROVE  UsedWithinBalance'
  <2>1. amount \in Nat
    BY OneAmountsNat
  <2> QED
    BY <1>1, <1>3, <1>4, <2>1, LockCovers
    DEF AddCollateral, UsedWithinBalance
<1>5. ASSUME NEW amount \in OneAmounts, WithdrawCollateral(v, amount)
      PROVE  UsedWithinBalance'
  <2>1. amount \in Nat
    BY OneAmountsNat
  <2>2. /\ Release2(v, CollateralUsed, v, amount, v, 0)
        /\ UNCHANGED CollateralUsed
    BY <1>5 DEF WithdrawCollateral, Release
  <2> QED
    BY <1>1, <1>3, <2>1, <2>2, Release2Covers DEF UsedWithinBalance
<1>6. CASE UNCHANGED collateralVars
  BY <1>6 DEF collateralVars, UsedWithinBalance
<1> QED
  BY <1>2, <1>4, <1>5, <1>6

LEMMA RequestIssueCovers ==
  ASSUME TypeOK, UsedWithinBalance, NEW u \in Users, NEW v \in Vaults,
         NEW amount \in IssueAmounts, NEW griefing \in GriefingAmounts,
         RequestIssue(u, amount, v, griefing)
  PROVE  UsedWithinBalance'
<1>1. u \in Accounts /\ v \in Accounts /\ griefing \in Nat
  BY IssueInputsNat, AccountsAreAddresses
<1>2. \A a \in Accounts : CollateralUsed[a] <= CollateralBalances'[a]
  BY <1>1, LockCovers DEF TypeOK, RequestIssue
<1>3. /\ CollateralBalances'[v] >= CollateralUsed'[v]
      /\ \A a \in Accounts \ {v} : CollateralUsed'[a] = CollateralUsed[a]
      /\ CollateralBalances' \in [Accounts -> Nat]
      /\ CollateralUsed'[v] \in Int
  <2>1. CollateralBalances' \in [Accounts -> Nat]
    BY <1>1, AccountsAreAddresses, LockCollateralType DEF TypeOK, RequestIssue
  <2>2. CollateralForIssued(amount) \in Nat
    BY IssueInputsNat, WrappedNat
    DEF TypeOK, RequestIssue, CanPrice, RateAvailable
  <2>3. UseCollateralInc(v, CollateralForIssued(amount))
    BY DEF RequestIssue
  <2> QED
    BY <1>1, <2>1, <2>2, <2>3
    DEF UseCollateralInc, TypeOK, CollateralTypeOK
<1> QED
  BY <1>1, <1>2, <1>3 DEF UsedWithinBalance

LEMMA ExecuteIssueCovers ==
  ASSUME TypeOK, UsedWithinBalance, NEW caller \in Users, NEW u \in Users,
         NEW opentime \in Times, NEW transferred \in TransferredAmounts,
         ExecuteIssue(caller, u, opentime, transferred)
  PROVE  UsedWithinBalance'
<1> DEFINE request  == issueRequests[u][opentime]
           griefing == request.griefingCollateral
           returned == GriefingReturned(griefing, transferred, Total(request))
<1>1. request \in IssueRequest
  BY PendingIssueType DEF ExecuteIssue, TypeOK
<1>2. /\ u \in Accounts /\ griefing \in Nat /\ transferred \in Nat
      /\ Total(request) \in Nat
  BY <1>1, IssueInputsNat, AccountsAreAddresses DEF IssueRequest, Total
<1>3. returned \in Nat /\ griefing - returned \in Nat
  BY <1>2, GriefingWithin
<1>4. /\ Release2(u, CollateralUsed, u, returned,
                  request.vault, griefing - returned)
      /\ UNCHANGED CollateralUsed
  BY DEF ExecuteIssue
<1>5. CollateralTypeOK /\ CollateralUsed \in [Accounts -> Nat]
  BY DEF TypeOK, CollateralTypeOK
<1> HIDE DEF request, griefing, returned
<1> QED
  BY <1>2, <1>3, <1>4, <1>5, Release2Covers DEF UsedWithinBalance

LEMMA CancelIssueCovers ==
  ASSUME TypeOK, UsedWithinBalance, NEW u \in Users, NEW opentime \in Times,
         CancelIssue(u, opentime)
  PROVE  UsedWithinBalance'
<1> DEFINE request  == issueRequests[u][opentime]
           v        == request.vault
           griefing == request.griefingCollateral
           total    == Total(request)
<1>1. request \in IssueRequest
  BY PendingIssueType DEF CancelIssue, TypeOK
<1>2. /\ u \in Accounts /\ v \in Accounts
      /\ griefing \in Nat /\ total \in Nat
  BY <1>1, AccountsAreAddresses DEF IssueRequest, Total
<1>3. /\ Release2(u, CollateralUsed, v, griefing, v, 0)
      /\ UseCollateralDec(v, CollateralForIssued(total))
      /\ RateAvailable
  BY DEF CancelIssue, Release
<1>4. /\ CollateralTypeOK /\ OracleTypeOK
      /\ CollateralUsed \in [Accounts -> Nat]
  BY DEF TypeOK, CollateralTypeOK
<1> HIDE DEF request, v, griefing, total
<1>5. CollateralForIssued(total) \in Nat
  BY <1>2, <1>3, <1>4, WrappedNat
<1>6. \A a \in Accounts : CollateralUsed[a] <= CollateralBalances'[a]
  BY <1>2, <1>3, <1>4, Release2Covers DEF UsedWithinBalance
<1>7. /\ \A a \in Accounts : CollateralUsed'[a] <= CollateralUsed[a]
      /\ CollateralUsed' \in [Accounts -> Nat]
  BY <1>2, <1>3, <1>4, <1>5, DecCovers, UseCollateralType
<1>8. CollateralBalances' \in [Accounts -> Int]
  BY <1>2, <1>3, <1>4 DEF Release2, CollateralTypeOK
<1> QED
  BY <1>4, <1>6, <1>7, <1>8 DEF UsedWithinBalance

LEMMA ExecuteRedeemCovers ==
  ASSUME TypeOK, UsedWithinBalance, NEW u \in Users, NEW opentime \in Times,
         ExecuteRedeem(u, opentime)
  PROVE  UsedWithinBalance'
<1> DEFINE request == redeemRequests[u][opentime]
           v       == request.vault
           amount  == request.amountBtc
<1>1. request \in RedeemRequest
  BY PendingRedeemType DEF ExecuteRedeem, TypeOK
<1>2. v \in Accounts /\ amount \in Nat
  BY <1>1, AccountsAreAddresses DEF RedeemRequest
<1>3. /\ UseCollateralDec(v, CollateralFor(amount))
      /\ RateAvailable
      /\ UNCHANGED CollateralBalances
  BY DEF ExecuteRedeem
<1>4. /\ CollateralTypeOK /\ OracleTypeOK
      /\ CollateralUsed \in [Accounts -> Nat]
      /\ CollateralBalances \in [Accounts -> Nat]
  BY DEF TypeOK, CollateralTypeOK
<1> HIDE DEF request, v, amount
<1>5. CollateralFor(amount) \in Nat
  BY <1>2, <1>3, <1>4, WrappedNat
<1>6. /\ \A a \in Accounts : CollateralUsed'[a] <= CollateralUsed[a]
      /\ CollateralUsed' \in [Accounts -> Nat]
  BY <1>2, <1>3, <1>4, <1>5, DecCovers, UseCollateralType
<1> QED
  BY <1>3, <1>4, <1>6 DEF UsedWithinBalance

LEMMA CancelRedeemCovers ==
  ASSUME TypeOK, UsedWithinBalance, NEW u \in Users, NEW opentime \in Times,
         NEW reimburse \in BOOLEAN, CancelRedeem(u, opentime, reimburse)
  PROVE  UsedWithinBalance'
<1> DEFINE request == redeemRequests[u][opentime]
           v       == request.vault
           total   == request.amountBtc + request.fee
<1>1. request \in RedeemRequest
  BY PendingRedeemType DEF CancelRedeem, TypeOK
<1>2. v \in Accounts /\ total \in Nat
  BY <1>1, AccountsAreAddresses DEF RedeemRequest
<1>3. Reimburse(u, v, total) \/ ReturnTokens(u, total)
  BY DEF CancelRedeem
<1>4. /\ CollateralTypeOK /\ OracleTypeOK
      /\ CollateralUsed \in [Accounts -> Nat]
      /\ CollateralBalances \in [Accounts -> Nat]
  BY DEF TypeOK, CollateralTypeOK
<1> HIDE DEF request, v, total
<1>5. CASE Reimburse(u, v, total)
  <2>1. Punished(total) \in Nat
    BY <1>2, <1>4, <1>5, PunishedNat DEF Reimburse
  <2>2. /\ \A a \in Accounts : CollateralUsed'[a] <= CollateralUsed[a]
        /\ CollateralUsed' \in [Accounts -> Nat]
    BY <1>2, <1>4, <1>5, <2>1, DecCovers, UseCollateralType DEF Reimburse
  <2>3. \A a \in Accounts : CollateralUsed'[a] <= CollateralBalances[a]
    BY <1>4, <2>2 DEF UsedWithinBalance
  <2>4. Release2(v, CollateralUsed', u, Punished(total), u, 0)
    BY <1>5 DEF Reimburse, Release
  <2> QED
    BY <1>2, <1>4, <2>1, <2>2, <2>3, <2>4, Release2Covers
    DEF UsedWithinBalance
<1>6. CASE ReturnTokens(u, total)
  BY <1>6 DEF ReturnTokens, collateralVars, UsedWithinBalance
<1> QED
  BY <1>3, <1>5, <1>6

\* At no time, whatever the rate did since, is more of a vault's collateral
\* marked as backing tokens than the contract holds for it: no withdrawal,
\* refund of griefing collateral or slashing can take it.
THEOREM CollateralCovered == Spec => []UsedWithinBalance
<1>1. Init => UsedWithinBalance
  <2>1. ASSUME CollateralInit, NEW a \in Accounts
        PROVE  CollateralUsed[a] <= CollateralBalances[a]
    <3>1. CollateralUsed[a] = 0 /\ CollateralBalances[a] = 0
      BY <2>1 DEF CollateralInit
    <3> QED
      BY <3>1
  <2> QED
    BY <2>1 DEF Init, UsedWithinBalance
<1>2. TypeOK /\ UsedWithinBalance /\ [Next]_vars => UsedWithinBalance'
  <2> SUFFICES ASSUME TypeOK, UsedWithinBalance, [Next]_vars
               PROVE  UsedWithinBalance'
    OBVIOUS
  <2>1. CASE UNCHANGED collateralVars
    BY <2>1 DEF collateralVars, UsedWithinBalance
  <2>2. CASE Next
    <3>1. HarmonyTypeOK
      BY DEF TypeOK
    <3>2. CASE \E u \in Users, v \in Vaults, amount \in RedeemAmounts :
                 RequestRedeem(u, amount, v)
      BY <2>1, <3>2 DEF RequestRedeem
    <3> QED
      BY <2>1, <2>2, <3>1, <3>2, NextCases, RegistryCovers,
         RequestIssueCovers, ExecuteIssueCovers, CancelIssueCovers,
         ExecuteRedeemCovers, CancelRedeemCovers
      DEF bridgeVars
  <2> QED
    BY <2>1, <2>2 DEF vars
<1> QED
  BY <1>1, <1>2, TypeCorrect, PTL DEF Spec

------------------------------------------------------------------------------
\* Promises to redeem are covered by what is issued

LEMMA ExecuteIssueBooks ==
  ASSUME TypeOK, NEW caller \in Users, NEW u \in Users, NEW opentime \in Times,
         NEW transferred \in TransferredAmounts,
         ExecuteIssue(caller, u, opentime, transferred)
  PROVE  \E v \in Vaults :
           /\ issued' = [issued EXCEPT ![v] = @ + transferred]
           /\ UNCHANGED toBeRedeemed
           /\ totalSupply' = totalSupply + transferred
<1> DEFINE request == issueRequests[u][opentime]
           v       == request.vault
<1>1. request \in IssueRequest
  BY PendingIssueType DEF ExecuteIssue, TypeOK
<1>2. v \in Vaults /\ transferred \in Nat /\ Fee(transferred) \in Nat
  BY <1>1, IssueInputsNat, FeeWithin DEF IssueRequest
<1>3. /\ IssueTokens(v, Total(request), transferred)
      /\ IssueOneBTC(v, u, transferred)
      /\ UNCHANGED toBeRedeemed
  BY DEF ExecuteIssue
<1>4. totalSupply' = totalSupply + transferred
  BY <1>2, <1>3 DEF IssueOneBTC, Mint2, TypeOK, ERC20TypeOK
<1>5. issued' = [issued EXCEPT ![v] = @ + transferred]
  BY <1>3 DEF IssueTokens
<1> QED
  BY <1>2, <1>3, <1>4, <1>5

LEMMA ExecuteRedeemBooks ==
  ASSUME TypeOK, NEW u \in Users, NEW opentime \in Times,
         ExecuteRedeem(u, opentime)
  PROVE  \E v \in Vaults, amount \in Nat :
           /\ issued' = [issued EXCEPT ![v] = @ - amount]
           /\ toBeRedeemed' = [toBeRedeemed EXCEPT ![v] = @ - amount]
           /\ totalSupply' = totalSupply - amount
<1>1. redeemRequests[u][opentime] \in RedeemRequest
  BY PendingRedeemType DEF ExecuteRedeem, TypeOK
<1> QED
  BY <1>1
  DEF ExecuteRedeem, RedeemTokens, DecreaseToBeRedeemed, RedeemRequest,
      BurnAndReleaseLocked

LEMMA CancelRedeemBooks ==
  ASSUME TypeOK, NEW u \in Users, NEW opentime \in Times,
         NEW reimburse \in BOOLEAN, CancelRedeem(u, opentime, reimburse)
  PROVE  /\ UNCHANGED <<issued, totalSupply>>
         /\ \E v \in Vaults, amount \in Nat :
              toBeRedeemed' = [toBeRedeemed EXCEPT ![v] = @ - amount]
<1>1. redeemRequests[u][opentime] \in RedeemRequest
  BY PendingRedeemType DEF CancelRedeem, TypeOK
<1> QED
  BY <1>1
  DEF CancelRedeem, DecreaseToBeRedeemed, RedeemRequest, Reimburse,
      ReturnTokens, Transfer, tokenVars

LEMMA RegistryBooks ==
  ASSUME VaultRegistryNext
  PROVE  UNCHANGED tokenDebtVars
  BY DEF VaultRegistryNext, RegisterVault, LockAdditionalCollateral,
         LockAdditionalCollateralFromVaultReward, AddCollateral,
         WithdrawCollateral, UpdatePublicKey, ExtendVaultLockPeriod

LEMMA StepKeepsPromises ==
  TypeOK /\ RedeemWithinIssued /\ [Next]_vars => RedeemWithinIssued'
<1> SUFFICES ASSUME TypeOK, RedeemWithinIssued, [Next]_vars
             PROVE  RedeemWithinIssued'
  OBVIOUS
<1>1. /\ issued \in [Vaults -> Nat] /\ toBeRedeemed \in [Vaults -> Nat]
      /\ HarmonyTypeOK
  BY DEF TypeOK, VaultRegistryTypeOK
<1>2. CASE UNCHANGED <<issued, toBeRedeemed>>
  BY <1>2 DEF RedeemWithinIssued
<1>3. ASSUME NEW u \in Users, NEW v \in Vaults, NEW amount \in RedeemAmounts,
             RequestRedeem(u, amount, v)
      PROVE  RedeemWithinIssued'
  <2>1. amount - Fee(amount) \in Nat
    BY RedeemInputs, FeeWithin
  <2> QED
    BY <1>1, <1>3, <2>1
    DEF RequestRedeem, RedeemableTokens, RedeemWithinIssued
<1>4. ASSUME NEW caller \in Users, NEW u \in Users, NEW opentime \in Times,
             NEW transferred \in TransferredAmounts,
             ExecuteIssue(caller, u, opentime, transferred)
      PROVE  RedeemWithinIssued'
  <2>1. transferred \in Nat
    BY IssueInputsNat
  <2>2. PICK v \in Vaults :
          /\ issued' = [issued EXCEPT ![v] = @ + transferred]
          /\ UNCHANGED toBeRedeemed
    BY <1>4, ExecuteIssueBooks
  <2> QED
    BY <1>1, <2>1, <2>2 DEF RedeemWithinIssued
<1>5. ASSUME NEW u \in Users, NEW opentime \in Times,
             ExecuteRedeem(u, opentime)
      PROVE  RedeemWithinIssued'
  BY <1>1, <1>5, ExecuteRedeemBooks DEF RedeemWithinIssued
<1>6. ASSUME NEW u \in Users, NEW opentime \in Times,
             NEW reimburse \in BOOLEAN, CancelRedeem(u, opentime, reimburse)
      PROVE  RedeemWithinIssued'
  BY <1>1, <1>6, CancelRedeemBooks DEF RedeemWithinIssued
<1>7. CASE \/ \E u \in Users, v \in Vaults, amount \in IssueAmounts,
                 griefing \in GriefingAmounts :
                RequestIssue(u, amount, v, griefing)
           \/ \E u \in Users, opentime \in Times : CancelIssue(u, opentime)
           \/ VaultRegistryNext
  BY <1>2, <1>7, RegistryBooks DEF RequestIssue, CancelIssue, tokenDebtVars
<1> QED
  BY <1>1, <1>2, <1>3, <1>4, <1>5, <1>6, <1>7, NextCases
  DEF vars, vaultVars, bridgeVars

------------------------------------------------------------------------------
\* A request is settled once

\* The one issue request a call changes was not opened before, or was pending
\* and keeps what it was opened with.
LEMMA IssueChangeSettles ==
  ASSUME TypeOK, NEW u \in Users, NEW t \in Times, NEW r,
         issueRequests' = [issueRequests EXCEPT ![u][t] = r],
         UNCHANGED redeemRequests,
         \/ issueRequests[u][t].status = "None"
         \/ /\ issueRequests[u][t].status = "Pending"
            /\ r.status # "None"
            /\ r.vault = issueRequests[u][t].vault
            /\ r.btcAddress = issueRequests[u][t].btcAddress
            /\ r.griefingCollateral = issueRequests[u][t].griefingCollateral
  PROVE  SettledOnceStep
<1>1. SUFFICES ASSUME NEW k \in Slots
               PROVE  /\ IssueAt(k).status \in {"Completed", "Cancelled"}
                           => IssueAt(k)' = IssueAt(k)
                      /\ IssueAt(k).status = "Pending" =>
                           /\ IssueAt(k)'.status # "None"
                           /\ IssueAt(k)'.vault = IssueAt(k).vault
                           /\ IssueAt(k)'.btcAddress = IssueAt(k).btcAddress
                           /\ IssueAt(k)'.griefingCollateral
                                = IssueAt(k).griefingCollateral
  BY DEF SettledOnceStep, RedeemAt
<1>2. k[1] \in Users /\ k[2] \in Times
  BY DEF Slots
<1>3. issueRequests \in [Users -> [Times -> IssueRequest \cup {NoRequest}]]
  BY DEF TypeOK, IssueTypeOK
<1>4. CASE k[1] = u /\ k[2] = t
  <2>1. IssueAt(k)' = r /\ IssueAt(k) = issueRequests[u][t]
    BY <1>3, <1>4 DEF IssueAt
  <2> QED
    BY <2>1
<1>5. CASE ~(k[1] = u /\ k[2] = t)
  <2>1. issueRequests'[k[1]][k[2]] = issueRequests[k[1]][k[2]]
    BY <1>2, <1>3, <1>5
  <2>2. IssueAt(k)' = IssueAt(k)
    BY <2>1 DEF IssueAt
  <2>3. IssueAt(k) \in IssueRequest \cup {NoRequest}
    BY <1>2, <1>3 DEF IssueAt
  <2> QED
    BY <2>2
<1> QED
  BY <1>4, <1>5

\* The same of the one redeem request a call changes.
LEMMA RedeemChangeSettles ==
  ASSUME TypeOK, NEW u \in Users, NEW t \in Times, NEW r,
         redeemRequests' = [redeemRequests EXCEPT ![u][t] = r],
         UNCHANGED issueRequests,
         redeemRequests[u][t].status \in {"None", "Pending"}
  PROVE  SettledOnceStep
<1>1. UNCHANGED issueRequests => \A k \in Slots : IssueAt(k)' = IssueAt(k)
  BY DEF IssueAt
<1>2. SUFFICES ASSUME NEW k \in Slots,
                      RedeemAt(k).status \in {"Completed", "Cancelled"}
               PROVE  RedeemAt(k)' = RedeemAt(k)
  BY <1>1 DEF SettledOnceStep
<1>3. k[1] \in Users /\ k[2] \in Times
  BY DEF Slots
<1>4. redeemRequests \in [Users -> [Times -> RedeemRequest \cup {NoRequest}]]
  BY DEF TypeOK, RedeemTypeOK
<1>5. ~(k[1] = u /\ k[2] = t)
  BY <1>2 DEF RedeemAt
<1>6. redeemRequests'[k[1]][k[2]] = redeemRequests[k[1]][k[2]]
  BY <1>3, <1>4, <1>5
<1> QED
  BY <1>6 DEF RedeemAt

LEMMA UnchangedSettles ==
  UNCHANGED <<issueRequests, redeemRequests>> => SettledOnceStep
  BY DEF SettledOnceStep, IssueAt, RedeemAt

LEMMA NextSettles == TypeOK /\ [Next]_vars => [SettledOnceStep]_vars
<1> SUFFICES ASSUME TypeOK, Next PROVE SettledOnceStep
  OBVIOUS
<1>1. HarmonyTypeOK /\ now \in Times
  BY DEF TypeOK, HarmonyTypeOK
<1>2. ASSUME NEW u \in Users, NEW v \in Vaults, NEW amount \in IssueAmounts,
             NEW griefing \in GriefingAmounts,
             RequestIssue(u, amount, v, griefing), UNCHANGED redeemRequests
      PROVE  SettledOnceStep
  BY <1>1, <1>2, IssueChangeSettles DEF RequestIssue
<1>3. ASSUME NEW caller \in Users, NEW u \in Users, NEW t \in Times,
             NEW transferred \in TransferredAmounts,
             ExecuteIssue(caller, u, t, transferred), UNCHANGED redeemRequests
      PROVE  SettledOnceStep
  <2> DEFINE request == issueRequests[u][t]
             r == [request EXCEPT !.status = "Completed",
                                  !.fee = Fee(transferred),
                                  !.amount = transferred - Fee(transferred)]
  <2>1. request.status = "Pending" /\ request \in IssueRequest
    BY <1>3, PendingIssueType DEF ExecuteIssue, TypeOK, IsPending
  <2>2. issueRequests' = [issueRequests EXCEPT ![u][t] = r]
    BY <1>3 DEF ExecuteIssue
  <2>3. /\ r.status = "Completed" /\ r.vault = request.vault
        /\ r.btcAddress = request.btcAddress
        /\ r.griefingCollateral = request.griefingCollateral
    BY <2>1 DEF IssueRequest
  <2> HIDE DEF r
  <2>4. r.status # "None"
    BY <2>3
  <2> QED
    BY <1>3, <2>1, <2>2, <2>3, <2>4, IssueChangeSettles
<1>4. ASSUME NEW u \in Users, NEW t \in Times,
             CancelIssue(u, t), UNCHANGED redeemRequests
      PROVE  SettledOnceStep
  <2> DEFINE request == issueRequests[u][t]
             r == [request EXCEPT !.status = "Cancelled"]
  <2>1. request.status = "Pending" /\ request \in IssueRequest
    BY <1>4, PendingIssueType DEF CancelIssue, TypeOK, IsPending
  <2>2. issueRequests' = [issueRequests EXCEPT ![u][t] = r]
    BY <1>4 DEF CancelIssue
  <2>3. /\ r.status = "Cancelled" /\ r.vault = request.vault
        /\ r.btcAddress = request.btcAddress
        /\ r.griefingCollateral = request.griefingCollateral
    BY <2>1 DEF IssueRequest
  <2> HIDE DEF r
  <2>4. r.status # "None"
    BY <2>3
  <2> QED
    BY <1>4, <2>1, <2>2, <2>3, <2>4, IssueChangeSettles
<1>5. ASSUME NEW u \in Users, NEW v \in Vaults, NEW amount \in RedeemAmounts,
             RequestRedeem(u, amount, v), UNCHANGED issueRequests
      PROVE  SettledOnceStep
  BY <1>1, <1>5, RedeemChangeSettles DEF RequestRedeem
<1>6. ASSUME NEW u \in Users, NEW t \in Times, UNCHANGED issueRequests,
             \/ ExecuteRedeem(u, t)
             \/ \E reimburse \in BOOLEAN : CancelRedeem(u, t, reimburse)
      PROVE  SettledOnceStep
  <2>1. redeemRequests[u][t].status = "Pending"
    BY <1>6 DEF ExecuteRedeem, CancelRedeem, IsPending
  <2>2. PICK status \in {"Completed", "Cancelled"} :
          redeemRequests' = [redeemRequests EXCEPT ![u][t].status = status]
    BY <1>6 DEF ExecuteRedeem, CancelRedeem
  <2> DEFINE r == [redeemRequests[u][t] EXCEPT !.status = status]
  <2>3. redeemRequests' = [redeemRequests EXCEPT ![u][t] = r]
    BY <2>2
  <2> HIDE DEF r
  <2> QED
    BY <1>6, <2>1, <2>3, RedeemChangeSettles
<1> QED
  BY <1>1, <1>2, <1>3, <1>4, <1>5, <1>6, NextCases, UnchangedSettles DEF bridgeVars

\* Whoever calls what in whatever order, for any amounts and rates: a settled
\* request stays settled, and a pending one keeps its vault, its address and
\* its griefing collateral.
THEOREM RequestsSettleOnce == Spec => SettledOnce
  BY NextSettles, TypeCorrect, PTL DEF Spec, SettledOnce

------------------------------------------------------------------------------
\* The supply follows the requests

LEMMA ExecuteIssueMints ==
  ASSUME TypeOK, NEW caller \in Users, NEW u \in Users, NEW t \in Times,
         NEW transferred \in TransferredAmounts,
         ExecuteIssue(caller, u, t, transferred)
  PROVE  SupplyFollowsRequestsStep
<1> DEFINE request == issueRequests[u][t]
           fee == Fee(transferred)
           r == [request EXCEPT !.status = "Completed", !.fee = fee,
                                !.amount = transferred - fee]
           k == <<u, t>>
<1>1. request.status = "Pending" /\ request \in IssueRequest
  BY PendingIssueType DEF ExecuteIssue, TypeOK, IsPending
<1>2. transferred \in Nat /\ fee \in Nat /\ transferred - fee \in Nat
  BY IssueInputsNat, FeeWithin
<1>3. totalSupply' = totalSupply + transferred /\ totalSupply \in Nat
  BY ExecuteIssueBooks DEF TypeOK, ERC20TypeOK
<1>4. issueRequests \in [Users -> [Times -> IssueRequest \cup {NoRequest}]]
  BY DEF TypeOK, IssueTypeOK
<1>5. issueRequests' = [issueRequests EXCEPT ![u][t] = r]
  BY DEF ExecuteIssue
<1> HIDE DEF fee
<1>6. issueRequests'[u][t] = r
  BY <1>4, <1>5
<1>7. r.status = "Completed" /\ r.fee = fee /\ r.amount = transferred - fee
  BY <1>1 DEF IssueRequest
<1>8. k \in Slots /\ IssueAt(k) = request /\ IssueAt(k)' = r
  BY <1>6 DEF Slots, IssueAt
<1> HIDE DEF r, k
<1>9. Total(IssueAt(k))' = transferred
  BY <1>2, <1>7, <1>8 DEF Total
<1>10. totalSupply' - totalSupply = transferred /\ ~(totalSupply' < totalSupply)
  BY <1>2, <1>3
<1> QED
  BY <1>1, <1>7, <1>8, <1>9, <1>10 DEF SupplyFollowsRequestsStep

LEMMA ExecuteRedeemBurns ==
  ASSUME TypeOK, NEW u \in Users, NEW t \in Times, ExecuteRedeem(u, t)
  PROVE  SupplyFollowsRequestsStep
<1> DEFINE request == redeemRequests[u][t]
           k == <<u, t>>
<1>1. request.status = "Pending" /\ request \in RedeemRequest
  BY PendingRedeemType DEF ExecuteRedeem, TypeOK, IsPending
<1>2. request.amountBtc \in Nat /\ totalSupply \in Nat
  BY <1>1 DEF RedeemRequest, TypeOK, ERC20TypeOK
<1>3. totalSupply' = totalSupply - request.amountBtc
  BY DEF ExecuteRedeem, BurnAndReleaseLocked
<1>4. redeemRequests \in [Users -> [Times -> RedeemRequest \cup {NoRequest}]]
  BY DEF TypeOK, RedeemTypeOK
<1>5. redeemRequests'[u][t].status = "Completed"
  BY <1>1, <1>4 DEF ExecuteRedeem, RedeemRequest
<1>6. /\ k \in Slots /\ RedeemAt(k) = request
      /\ RedeemAt(k)' = redeemRequests'[u][t]
  BY DEF Slots, RedeemAt
<1> HIDE DEF k
<1>7. /\ ~(totalSupply' > totalSupply)
      /\ totalSupply - totalSupply' = request.amountBtc
  BY <1>2, <1>3
<1> QED
  BY <1>1, <1>5, <1>6, <1>7 DEF SupplyFollowsRequestsStep

LEMMA NextSupplies == TypeOK /\ [Next]_vars => [SupplyFollowsRequestsStep]_vars
<1> SUFFICES ASSUME TypeOK, Next PROVE SupplyFollowsRequestsStep
  OBVIOUS
<1>1. HarmonyTypeOK /\ totalSupply \in Nat
  BY DEF TypeOK, ERC20TypeOK
<1>2. CASE totalSupply' = totalSupply
  BY <1>1, <1>2 DEF SupplyFollowsRequestsStep
<1>3. ASSUME NEW u \in Users, NEW t \in Times, NEW reimburse \in BOOLEAN,
             CancelRedeem(u, t, reimburse)
      PROVE  SupplyFollowsRequestsStep
  BY <1>2, <1>3, CancelRedeemBooks
<1> QED
  BY <1>1, <1>2, <1>3, NextCases, ExecuteIssueMints, ExecuteRedeemBurns
  DEF RequestIssue, CancelIssue, RequestRedeem, LockOneBTC, Transfer, tokenVars,
      TokenNext, TransferToClaim, bridgeVars

\* Tokens are minted only for a payment to a pending issue request and burned
\* only for a pending redeem request, by what the request says, whatever the
\* amounts and whoever executes it.
THEOREM SupplyFollows == Spec => SupplyFollowsRequests
  BY NextSupplies, TypeCorrect, PTL DEF Spec, SupplyFollowsRequests

------------------------------------------------------------------------------
\* Where a vault's collateral goes

\* Only the sender of a release has less collateral after it.
LEMMA ReleaseLowersSender ==
  ASSUME CollateralTypeOK, NEW sender \in Accounts, NEW used, NEW to, NEW to2,
         NEW amount \in Nat, NEW amount2 \in Nat,
         Release2(sender, used, to, amount, to2, amount2),
         NEW v \in Accounts, CollateralBalances'[v] < CollateralBalances[v]
  PROVE  v = sender
  BY DEF Release2, CollateralTypeOK

LEMMA LockLowersNobody ==
  ASSUME CollateralTypeOK, NEW payer, NEW sender \in Accounts,
         NEW amount \in Nat, LockCollateral(payer, sender, amount),
         NEW v \in Accounts
  PROVE  ~(CollateralBalances'[v] < CollateralBalances[v])
  BY DEF LockCollateral, CollateralTypeOK

LEMMA WithdrawalSpends ==
  ASSUME TypeOK, NEW w \in Vaults, NEW amount \in OneAmounts,
         WithdrawCollateral(w, amount), NEW v \in Vaults,
         CollateralBalances'[v] < CollateralBalances[v]
  PROVE  /\ lockExpireAt[v] < now
         /\ CollateralBalances'[v] >= CollateralUsed[v]
         /\ balance'[v] - balance[v] = CollateralBalances[v] - CollateralBalances'[v]
<1>1. /\ CollateralTypeOK /\ balance \in [Addresses -> Nat]
      /\ v \in Accounts /\ w \in Accounts /\ amount \in Nat
  BY VaultsAreAccounts, OneAmountsNat DEF TypeOK, HarmonyTypeOK
<1>2. Release2(w, CollateralUsed, w, amount, w, 0) /\ lockExpireAt[w] < now
  BY DEF WithdrawCollateral, Release, LockExpired
<1>3. v = w
  BY <1>1, <1>2, ReleaseLowersSender
<1>4. w # This /\ w \in Addresses /\ This \in Addresses
  BY <1>1, AddressesDistinct DEF Addresses
<1>5. balance'[w] = balance[w] + amount
  BY <1>1, <1>2, <1>4 DEF Release2, PayOut
<1>6. /\ CollateralBalances'[w] = CollateralBalances[w] - amount
      /\ CollateralBalances[w] - CollateralUsed[w] >= amount
      /\ CollateralBalances[w] \in Nat /\ CollateralUsed[w] \in Nat
      /\ balance[w] \in Nat
  BY <1>1, <1>2, <1>4 DEF Release2, CollateralTypeOK
<1> QED
  BY <1>1, <1>2, <1>3, <1>5, <1>6

LEMMA RegistrySpends ==
  ASSUME TypeOK, VaultRegistryNext
  PROVE  VaultCollateralSpentStep
<1>1. SUFFICES ASSUME NEW v \in Vaults \ Users,
                      CollateralBalances'[v] < CollateralBalances[v]
               PROVE  /\ lockExpireAt[v] < now
                      /\ CollateralBalances'[v] >= CollateralUsed[v]
                      /\ balance'[v] - balance[v] =
                           CollateralBalances[v] - CollateralBalances'[v]
  BY DEF VaultCollateralSpentStep
<1>2. CollateralTypeOK /\ v \in Accounts /\ CollateralBalances[v] \in Nat
  BY VaultsAreAccounts DEF TypeOK, CollateralTypeOK
<1>3. PICK w \in Vaults :
        \/ \E payer \in Addresses, amount \in OneAmounts :
             LockCollateral(payer, w, amount)
        \/ \E amount \in OneAmounts : WithdrawCollateral(w, amount)
        \/ UNCHANGED CollateralBalances
  BY VaultsAreAccounts
  DEF VaultRegistryNext, RegisterVault, LockAdditionalCollateral,
      LockAdditionalCollateralFromVaultReward, AddCollateral, UpdatePublicKey,
      ExtendVaultLockPeriod, collateralVars, Addresses
<1>4. CASE \E payer \in Addresses, amount \in OneAmounts :
             LockCollateral(payer, w, amount)
  BY <1>1, <1>2, <1>4, LockLowersNobody, VaultsAreAccounts, OneAmountsNat
<1>5. CASE \E amount \in OneAmounts : WithdrawCollateral(w, amount)
  BY <1>1, <1>5, WithdrawalSpends
<1>6. CASE UNCHANGED CollateralBalances
  BY <1>1, <1>2, <1>6
<1> QED
  BY <1>3, <1>4, <1>5, <1>6

\* A requester's own collateral is all that settling an issue request moves.
LEMMA IssueSpends ==
  ASSUME TypeOK, NEW u \in Users, NEW t \in Times,
         \/ \E caller \in Users, transferred \in TransferredAmounts :
              ExecuteIssue(caller, u, t, transferred)
         \/ CancelIssue(u, t)
  PROVE  VaultCollateralSpentStep
<1> DEFINE request == issueRequests[u][t]
<1>1. request \in IssueRequest
  BY PendingIssueType DEF ExecuteIssue, CancelIssue, TypeOK
<1>2. /\ request.griefingCollateral \in Nat /\ Total(request) \in Nat
      /\ u \in Accounts /\ request.vault \in Accounts /\ CollateralTypeOK
  BY <1>1, UsersAreAccounts, VaultsAreAccounts DEF IssueRequest, Total, TypeOK
<1>3. \E to, to2 \in Accounts, amount, amount2 \in Nat :
        Release2(u, CollateralUsed, to, amount, to2, amount2)
  <2>1. CASE CancelIssue(u, t)
    <3>1. Release2(u, CollateralUsed, request.vault, request.griefingCollateral,
                   request.vault, 0)
      BY <2>1 DEF CancelIssue, Release
    <3> QED
      BY <1>2, <3>1
  <2>2. ASSUME NEW caller \in Users, NEW transferred \in TransferredAmounts,
               ExecuteIssue(caller, u, t, transferred)
        PROVE  \E to, to2 \in Accounts, amount, amount2 \in Nat :
                 Release2(u, CollateralUsed, to, amount, to2, amount2)
    <3> DEFINE griefing == request.griefingCollateral
               returned == GriefingReturned(griefing, transferred, Total(request))
    <3>1. returned \in Nat /\ griefing - returned \in Nat
      BY <1>2, GriefingWithin, IssueInputsNat
    <3>2. Release2(u, CollateralUsed, u, returned, request.vault, griefing - returned)
      BY <2>2 DEF ExecuteIssue
    <3> QED
      BY <1>2, <3>1, <3>2
  <2> QED
    BY <2>1, <2>2
<1>4. ASSUME NEW v \in Vaults \ Users,
             CollateralBalances'[v] < CollateralBalances[v]
      PROVE  FALSE
  BY <1>2, <1>3, <1>4, ReleaseLowersSender, VaultsAreAccounts
<1> QED
  BY <1>4 DEF VaultCollateralSpentStep

LEMMA CancelRedeemSpends ==
  ASSUME TypeOK, NEW u \in Users, NEW t \in Times, NEW reimburse \in BOOLEAN,
         CancelRedeem(u, t, reimburse)
  PROVE  VaultCollateralSpentStep
<1> DEFINE request == redeemRequests[u][t]
           k == <<u, t>>
           total == request.amountBtc + request.fee
<1>1. request.status = "Pending" /\ request \in RedeemRequest
  BY PendingRedeemType DEF CancelRedeem, TypeOK, IsPending
<1>2. /\ request.vault \in Vaults /\ total \in Nat
      /\ CollateralTypeOK /\ OracleTypeOK
  BY <1>1 DEF RedeemRequest, TypeOK
<1>3. redeemRequests \in [Users -> [Times -> RedeemRequest \cup {NoRequest}]]
  BY DEF TypeOK, RedeemTypeOK
<1>4. redeemRequests'[u][t].status = "Cancelled"
  BY <1>1, <1>3 DEF CancelRedeem, RedeemRequest
<1>5. k \in PendingRedeems /\ RedeemAt(k).vault = request.vault
      /\ RedeemAt(k).status' = "Cancelled" /\ Expired(k[2])
  BY <1>1, <1>4 DEF PendingRedeems, Slots, RedeemAt, CancelRedeem
<1>6. ASSUME NEW v \in Vaults \ Users,
             CollateralBalances'[v] < CollateralBalances[v]
      PROVE  v = request.vault
  <2>1. CASE Reimburse(u, request.vault, total)
    <3>1. Punished(total) \in Nat
      BY <1>2, <2>1, PunishedNat DEF Reimburse
    <3>2. Release2(request.vault, CollateralUsed', u, Punished(total), u, 0)
      BY <2>1 DEF Reimburse, Release
    <3> QED
      BY <1>2, <1>6, <3>1, <3>2, ReleaseLowersSender, VaultsAreAccounts
  <2>2. CASE ReturnTokens(u, total)
    <3>1. CollateralBalances' = CollateralBalances /\ CollateralBalances[v] \in Nat
      BY <1>2, <2>2, VaultsAreAccounts DEF ReturnTokens, collateralVars, CollateralTypeOK
    <3> QED
      BY <1>6, <3>1
  <2> QED
    BY <2>1, <2>2 DEF CancelRedeem
<1> HIDE DEF k
<1> QED
  BY <1>5, <1>6 DEF VaultCollateralSpentStep

LEMMA NextSpends == TypeOK /\ [Next]_vars => [VaultCollateralSpentStep]_vars
<1> SUFFICES ASSUME TypeOK, Next PROVE VaultCollateralSpentStep
  OBVIOUS
<1>1. HarmonyTypeOK /\ CollateralTypeOK
  BY DEF TypeOK
<1>2. CASE CollateralBalances' = CollateralBalances
  BY <1>1, <1>2, VaultsAreAccounts DEF VaultCollateralSpentStep, CollateralTypeOK
<1>3. ASSUME NEW u \in Users, NEW v \in Vaults, NEW amount \in IssueAmounts,
             NEW griefing \in GriefingAmounts,
             RequestIssue(u, amount, v, griefing)
      PROVE  VaultCollateralSpentStep
  <2>1. /\ LockCollateral(u, u, griefing) /\ griefing \in Nat /\ u \in Accounts
    BY <1>3, IssueInputsNat, UsersAreAccounts DEF RequestIssue
  <2> QED
    BY <1>1, <2>1, LockLowersNobody, VaultsAreAccounts DEF VaultCollateralSpentStep
<1> QED
  BY <1>1, <1>2, <1>3, NextCases, RegistrySpends, IssueSpends, CancelRedeemSpends
  DEF RequestRedeem, ExecuteRedeem, collateralVars, bridgeVars

\* Whatever is requested, paid or left to expire, at whatever rates: the
\* collateral of a vault that requests nothing itself goes to the vault when
\* its lock is over, and never what backs tokens, or to the holder of a
\* redeem request that it let expire.
THEOREM CollateralSpentTwoWays == Spec => VaultCollateralSpent
  BY NextSpends, TypeCorrect, PTL DEF Spec, VaultCollateralSpent

------------------------------------------------------------------------------
\* The ONE in the contract is what it owes

\* The indices of the books are finitely many.
LEMMA FiniteIndices ==
  /\ IsFiniteSet(Accounts) /\ IsFiniteSet(Vaults) /\ IsFiniteSet(Users)
  /\ IsFiniteSet(Slots)
<1>1. IsFiniteSet(Vaults) /\ IsFiniteSet(Users)
  BY AccountsFinite, VaultsAreAccounts, UsersAreAccounts, FS_Subset
<1>2. IsFiniteSet(Times)
  BY FundsAndClockNat, FS_Interval DEF Times
<1>3. IsFiniteSet(Slots)
  BY <1>1, <1>2, FS_Product DEF Slots
<1> QED
  BY <1>1, <1>3, AccountsFinite

BalanceIsOwed == balance[This] = SumFunction(CollateralBalances)

\* What is locked is both received and credited.
LEMMA LockKeepsOwed ==
  ASSUME HarmonyTypeOK, CollateralTypeOK, BalanceIsOwed,
         NEW payer \in Addresses \ {This}, NEW sender \in Accounts,
         NEW amount \in Nat, LockCollateral(payer, sender, amount)
  PROVE  BalanceIsOwed'
<1>1. /\ balance'[This] = balance[This] + amount
      /\ balance[This] \in Nat
  BY DEF LockCollateral, PayContract, HarmonyTypeOK, Addresses
<1>2. /\ CollateralBalances \in [Accounts -> Nat]
      /\ CollateralBalances' \in [Accounts -> Nat]
      /\ CollateralBalances'[sender] = CollateralBalances[sender] + amount
      /\ \A a \in Accounts \ {sender} :
           CollateralBalances'[a] = CollateralBalances[a]
  BY DEF LockCollateral, CollateralTypeOK
<1>3. SumFunction(CollateralBalances') =
        (SumFunction(CollateralBalances) - CollateralBalances[sender])
          + CollateralBalances'[sender]
  BY <1>2, AccountsFinite, SumUpdate
<1>4. CollateralBalances[sender] \in Nat
  BY <1>2
<1> QED
  BY <1>1, <1>2, <1>3, <1>4 DEF BalanceIsOwed

\* What is released is both paid out and debited.
LEMMA ReleaseKeepsOwed ==
  ASSUME HarmonyTypeOK, CollateralTypeOK, BalanceIsOwed,
         NEW sender \in Accounts, NEW used \in [Accounts -> Nat],
         NEW to \in Accounts, NEW to2 \in Accounts,
         NEW amount \in Nat, NEW amount2 \in Nat,
         Release2(sender, used, to, amount, to2, amount2)
  PROVE  BalanceIsOwed'
<1>1. /\ balance'[This] = balance[This] - (amount + amount2)
      /\ balance[This] \in Nat
  BY AddressesDistinct DEF Release2, PayOut, HarmonyTypeOK, Addresses
<1>2. /\ CollateralBalances \in [Accounts -> Nat]
      /\ CollateralBalances'[sender] =
           CollateralBalances[sender] - (amount + amount2)
      /\ \A a \in Accounts \ {sender} :
           CollateralBalances'[a] = CollateralBalances[a]
  BY DEF Release2, CollateralTypeOK
<1>3. used[sender] \in Nat
  OBVIOUS
<1>4. CollateralBalances' \in [Accounts -> Nat]
  BY <1>3, AccountsAreAddresses, Release2Type
<1>5. SumFunction(CollateralBalances') =
        (SumFunction(CollateralBalances) - CollateralBalances[sender])
          + CollateralBalances'[sender]
  BY <1>2, <1>4, AccountsFinite, SumUpdate
<1>6. CollateralBalances[sender] \in Nat
  BY <1>2
<1> QED
  BY <1>1, <1>2, <1>5, <1>6 DEF BalanceIsOwed

\* Every call locks collateral, releases some, or moves none.
LEMMA CollateralMoves ==
  ASSUME TypeOK, Next
  PROVE  \/ \E payer \in Addresses \ {This}, sender \in Accounts, amount \in Nat :
              LockCollateral(payer, sender, amount)
         \/ \E sender, to, to2 \in Accounts, amount, amount2 \in Nat,
               used \in [Accounts -> Nat] :
              Release2(sender, used, to, amount, to2, amount2)
         \/ UNCHANGED <<balance, CollateralBalances>>
<1> DEFINE Locks ==
             \E payer \in Addresses \ {This}, sender \in Accounts, amount \in Nat :
               LockCollateral(payer, sender, amount)
           Releases ==
             \E sender, to, to2 \in Accounts, amount, amount2 \in Nat,
                used \in [Accounts -> Nat] :
               Release2(sender, used, to, amount, to2, amount2)
           Rests == UNCHANGED <<balance, CollateralBalances>>
<1>1. /\ HarmonyTypeOK /\ OracleTypeOK /\ CollateralTypeOK
      /\ CollateralUsed \in [Accounts -> Nat]
  BY DEF TypeOK, CollateralTypeOK
<1>2. /\ Accounts \subseteq Addresses \ {This}
      /\ VaultReward \in Addresses \ {This}
      /\ Vaults \subseteq Accounts /\ Users \subseteq Accounts
  BY AccountsAreAddresses, AddressesDistinct
<1>3. ASSUME NEW u \in Users, NEW t \in Times, IsPending(issueRequests[u][t])
      PROVE  /\ issueRequests[u][t].vault \in Accounts
             /\ issueRequests[u][t].griefingCollateral \in Nat
             /\ Total(issueRequests[u][t]) \in Nat
  BY <1>2, <1>3, PendingIssueType DEF TypeOK, IssueRequest, Total
<1>4. ASSUME VaultRegistryNext PROVE Locks \/ Releases \/ Rests
  <2>1. PICK v \in Vaults :
          \/ \E amount \in OneAmounts :
               \/ LockCollateral(v, v, amount)
               \/ LockCollateral(VaultReward, v, amount)
               \/ Release2(v, CollateralUsed, v, amount, v, 0)
          \/ Rests
    BY <1>4
    DEF VaultRegistryNext, RegisterVault, LockAdditionalCollateral,
        LockAdditionalCollateralFromVaultReward, AddCollateral,
        WithdrawCollateral, Release, UpdatePublicKey, ExtendVaultLockPeriod,
        collateralVars
  <2> QED
    BY <1>1, <1>2, <2>1, OneAmountsNat
<1>5. ASSUME NEW u \in Users, NEW v \in Vaults, NEW amount \in IssueAmounts,
             NEW griefing \in GriefingAmounts,
             RequestIssue(u, amount, v, griefing)
      PROVE  Locks
  BY <1>2, <1>5, IssueInputsNat DEF RequestIssue
<1>6. ASSUME NEW caller \in Users, NEW u \in Users, NEW t \in Times,
             NEW transferred \in TransferredAmounts,
             ExecuteIssue(caller, u, t, transferred)
      PROVE  Releases
  <2> DEFINE request == issueRequests[u][t]
             griefing == request.griefingCollateral
             returned == GriefingReturned(griefing, transferred, Total(request))
  <2>1. /\ IsPending(request)
        /\ Release2(u, CollateralUsed, u, returned,
                    request.vault, griefing - returned)
    BY <1>6 DEF ExecuteIssue
  <2>2. returned \in Nat /\ griefing - returned \in Nat
    BY <1>3, <2>1, GriefingWithin, IssueInputsNat
  <2> HIDE DEF returned
  <2> QED
    BY <1>1, <1>2, <1>3, <2>1, <2>2
<1>7. ASSUME NEW u \in Users, NEW t \in Times, CancelIssue(u, t)
      PROVE  Releases
  <2>1. /\ IsPending(issueRequests[u][t])
        /\ Release2(u, CollateralUsed, issueRequests[u][t].vault,
                    issueRequests[u][t].griefingCollateral,
                    issueRequests[u][t].vault, 0)
    BY <1>7 DEF CancelIssue, Release
  <2> QED
    BY <1>1, <1>2, <1>3, <2>1
<1>8. ASSUME NEW u \in Users, NEW t \in Times, NEW reimburse \in BOOLEAN,
             CancelRedeem(u, t, reimburse)
      PROVE  Releases \/ Rests
  <2> DEFINE request == redeemRequests[u][t]
             v == request.vault
             total == request.amountBtc + request.fee
  <2>1. request \in RedeemRequest
    BY <1>8, PendingRedeemType DEF CancelRedeem, TypeOK
  <2>2. v \in Accounts /\ u \in Accounts /\ total \in Nat
    BY <1>2, <2>1 DEF RedeemRequest
  <2>3. Reimburse(u, v, total) \/ ReturnTokens(u, total)
    BY <1>8 DEF CancelRedeem
  <2> HIDE DEF v, total
  <2>4. CASE Reimburse(u, v, total)
    <3>1. Punished(total) \in Nat
      BY <1>1, <2>2, <2>4, PunishedNat DEF Reimburse
    <3>2. CollateralUsed' \in [Accounts -> Nat]
      BY <1>1, <2>2, <2>4, <3>1, UseCollateralType DEF Reimburse
    <3>3. Release2(v, CollateralUsed', u, Punished(total), u, 0)
      BY <2>4 DEF Reimburse, Release
    <3> QED
      BY <2>2, <3>1, <3>2, <3>3
  <2>5. CASE ReturnTokens(u, total)
    BY <2>5 DEF ReturnTokens, collateralVars
  <2> QED
    BY <2>3, <2>4, <2>5
<1>9. CASE Rests
  BY <1>9
<1> HIDE DEF Locks, Releases
<1>10. Locks \/ Releases \/ Rests
  BY <1>1, <1>4, <1>5, <1>6, <1>7, <1>8, NextCases
  DEF RequestRedeem, ExecuteRedeem, collateralVars, bridgeVars
<1> QED
  BY <1>10 DEF Locks, Releases

LEMMA StepKeepsOwed ==
  ASSUME TypeOK, BalanceIsOwed, [Next]_vars
  PROVE  BalanceIsOwed'
<1>1. HarmonyTypeOK /\ CollateralTypeOK
  BY DEF TypeOK
<1>2. CASE UNCHANGED <<balance, CollateralBalances>>
  BY <1>2 DEF BalanceIsOwed
<1>3. CASE Next
  BY <1>1, <1>2, <1>3, CollateralMoves, LockKeepsOwed, ReleaseKeepsOwed
<1> QED
  BY <1>2, <1>3 DEF vars, collateralVars

------------------------------------------------------------------------------
\* The griefing collateral of pending requests is held

LEMMA IssueBookTypes ==
  ASSUME IssueTypeOK, NEW w
  PROVE  /\ GriefingOf(w) \in [Slots -> Nat]
         /\ ReservedFor(w) \in [Slots -> Nat]
<1>1. ASSUME NEW k \in Slots, IsPending(IssueAt(k))
      PROVE  IssueAt(k).griefingCollateral \in Nat /\ Total(IssueAt(k)) \in Nat
  <2>1. k[1] \in Users /\ k[2] \in Times
    BY DEF Slots
  <2>2. IssueAt(k) \in IssueRequest
    BY <1>1, <2>1, PendingIssueType DEF IssueAt
  <2> QED
    BY <2>2 DEF IssueRequest, Total
<1> QED
  BY <1>1 DEF GriefingOf, ReservedFor

LEMMA RedeemBookTypes ==
  ASSUME RedeemTypeOK, NEW w
  PROVE  /\ BurnedBy(w) \in [Slots -> Nat]
         /\ Escrowed \in [Slots -> Nat]
<1>1. ASSUME NEW k \in Slots, IsPending(RedeemAt(k))
      PROVE  RedeemAt(k).amountBtc \in Nat /\ RedeemAt(k).fee \in Nat
  <2>1. k[1] \in Users /\ k[2] \in Times
    BY DEF Slots
  <2>2. RedeemAt(k) \in RedeemRequest
    BY <1>1, <2>1, PendingRedeemType DEF RedeemAt
  <2> QED
    BY <2>2 DEF RedeemRequest
<1> QED
  BY <1>1 DEF BurnedBy, Escrowed

\* One issue request is opened or settled; one redeem request is.
IssueWritten(u, t, r) == issueRequests' = [issueRequests EXCEPT ![u][t] = r]

RedeemWritten(u, t, r) == redeemRequests' = [redeemRequests EXCEPT ![u][t] = r]

\* Writing one issue request changes one term of each sum over them.
LEMMA IssueSumsChange ==
  ASSUME IssueTypeOK, IssueTypeOK', NEW u \in Users, NEW t \in Times, NEW r,
         IssueWritten(u, t, r), NEW w
  PROVE  /\ SumFunction(GriefingOf(w))' =
              (SumFunction(GriefingOf(w)) - GriefingOf(w)[<<u, t>>]) + GriefingOf(w)'[<<u, t>>]
         /\ SumFunction(ReservedFor(w))' =
              (SumFunction(ReservedFor(w)) - ReservedFor(w)[<<u, t>>]) + ReservedFor(w)'[<<u, t>>]
         /\ SumFunction(GriefingOf(w)) \in Nat
         /\ SumFunction(ReservedFor(w)) \in Nat
         /\ GriefingOf(w)[<<u, t>>] = IF IsPending(issueRequests[u][t]) /\ u = w
                               THEN issueRequests[u][t].griefingCollateral ELSE 0
         /\ GriefingOf(w)'[<<u, t>>] = IF IsPending(r) /\ u = w
                                THEN r.griefingCollateral ELSE 0
         /\ ReservedFor(w)[<<u, t>>] =
              IF IsPending(issueRequests[u][t]) /\ issueRequests[u][t].vault = w
              THEN Total(issueRequests[u][t]) ELSE 0
         /\ ReservedFor(w)'[<<u, t>>] =
              IF IsPending(r) /\ r.vault = w THEN Total(r) ELSE 0
         /\ GriefingOf(w)'[<<u, t>>] \in Nat /\ ReservedFor(w)'[<<u, t>>] \in Nat
         /\ GriefingOf(w)[<<u, t>>] \in Nat /\ ReservedFor(w)[<<u, t>>] \in Nat
<1> DEFINE k == <<u, t>>
<1>1. k \in Slots /\ k[1] = u
  BY DEF Slots
<1>2. IssueAt(k) = issueRequests[u][t] /\ IssueAt(k)' = r
  BY DEF IssueAt, IssueTypeOK, IssueWritten
<1>3. ASSUME NEW j \in Slots \ {k} PROVE IssueAt(j)' = IssueAt(j)
  <2>1. j[1] \in Users /\ j[2] \in Times /\ (j[1] # u \/ j[2] # t)
    BY DEF Slots
  <2> QED
    BY <2>1 DEF IssueAt, IssueTypeOK, IssueWritten
<1>4. /\ GriefingOf(w) \in [Slots -> Nat] /\ ReservedFor(w) \in [Slots -> Nat]
  BY IssueBookTypes
<1>5. ASSUME NEW j \in Slots, IsPending(IssueAt(j)')
      PROVE  IssueAt(j).griefingCollateral' \in Nat /\ Total(IssueAt(j))' \in Nat
  <2>1. j[1] \in Users /\ j[2] \in Times
    BY DEF Slots
  <2>2. IssueAt(j)' \in IssueRequest
    BY <1>5, <2>1 DEF IssueAt, IssueTypeOK, IsPending, NoRequest
  <2> QED
    BY <2>2 DEF IssueRequest, Total
<1>6. GriefingOf(w)' \in [Slots -> Nat] /\ ReservedFor(w)' \in [Slots -> Nat]
  BY <1>5 DEF GriefingOf, ReservedFor, IsPending
<1>7. /\ \A j \in Slots \ {k} : GriefingOf(w)'[j] = GriefingOf(w)[j]
      /\ \A j \in Slots \ {k} : ReservedFor(w)'[j] = ReservedFor(w)[j]
  BY <1>3 DEF GriefingOf, ReservedFor, IsPending, Total
<1>8. /\ GriefingOf(w)[k] = IF IsPending(issueRequests[u][t]) /\ u = w
                            THEN issueRequests[u][t].griefingCollateral ELSE 0
      /\ GriefingOf(w)'[k] = IF IsPending(r) /\ u = w
                             THEN r.griefingCollateral ELSE 0
  BY <1>1, <1>2 DEF GriefingOf, IsPending
<1>9. /\ ReservedFor(w)[k] =
           IF IsPending(issueRequests[u][t]) /\ issueRequests[u][t].vault = w
           THEN Total(issueRequests[u][t]) ELSE 0
      /\ ReservedFor(w)'[k] = IF IsPending(r) /\ r.vault = w THEN Total(r) ELSE 0
  BY <1>1, <1>2 DEF ReservedFor, IsPending, Total
<1> HIDE DEF k
<1>10. /\ SumFunction(GriefingOf(w)') =
            (SumFunction(GriefingOf(w)) - GriefingOf(w)[k]) + GriefingOf(w)'[k]
       /\ SumFunction(ReservedFor(w)') =
            (SumFunction(ReservedFor(w)) - ReservedFor(w)[k]) + ReservedFor(w)'[k]
  BY <1>1, <1>4, <1>6, <1>7, FiniteIndices, SumUpdate
<1>11. SumFunction(GriefingOf(w)) \in Nat /\ SumFunction(ReservedFor(w)) \in Nat
  BY <1>1, <1>4, FiniteIndices, SumBounds
<1> QED
  BY <1>1, <1>4, <1>6, <1>8, <1>9, <1>10, <1>11 DEF k

\* Opening an issue request adds its terms.
LEMMA IssueOpens ==
  ASSUME IssueTypeOK, IssueTypeOK', NEW u \in Users, NEW t \in Times, NEW r,
         IssueWritten(u, t, r),
         ~IsPending(issueRequests[u][t]), IsPending(r), NEW w
  PROVE  /\ SumFunction(GriefingOf(w))' =
              SumFunction(GriefingOf(w)) + (IF u = w THEN r.griefingCollateral ELSE 0)
         /\ SumFunction(ReservedFor(w))' =
              SumFunction(ReservedFor(w)) + (IF r.vault = w THEN Total(r) ELSE 0)
         /\ SumFunction(GriefingOf(w)) \in Nat
         /\ SumFunction(ReservedFor(w)) \in Nat
<1> DEFINE k == <<u, t>>
<1>1. /\ GriefingOf(w)[k] = 0 /\ GriefingOf(w)'[k] = IF u = w THEN r.griefingCollateral ELSE 0
      /\ GriefingOf(w)'[k] \in Nat
  BY IssueSumsChange
<1>2. /\ ReservedFor(w)[k] = 0 /\ ReservedFor(w)'[k] = IF r.vault = w THEN Total(r) ELSE 0
      /\ ReservedFor(w)'[k] \in Nat
  BY IssueSumsChange
<1>3. /\ SumFunction(GriefingOf(w))' =
           (SumFunction(GriefingOf(w)) - GriefingOf(w)[k]) + GriefingOf(w)'[k]
      /\ SumFunction(GriefingOf(w)) \in Nat
      /\ SumFunction(ReservedFor(w))' =
           (SumFunction(ReservedFor(w)) - ReservedFor(w)[k]) + ReservedFor(w)'[k]
      /\ SumFunction(ReservedFor(w)) \in Nat
  BY IssueSumsChange
<1> HIDE DEF k
<1> QED
  BY <1>1, <1>2, <1>3

\* Settling one takes them away.
LEMMA IssueSettles ==
  ASSUME IssueTypeOK, IssueTypeOK', NEW u \in Users, NEW t \in Times, NEW r,
         IssueWritten(u, t, r),
         IsPending(issueRequests[u][t]), ~IsPending(r), NEW w
  PROVE  /\ SumFunction(GriefingOf(w))' =
              SumFunction(GriefingOf(w))
                - (IF u = w THEN issueRequests[u][t].griefingCollateral ELSE 0)
         /\ SumFunction(ReservedFor(w))' =
              SumFunction(ReservedFor(w))
                - (IF issueRequests[u][t].vault = w
                   THEN Total(issueRequests[u][t]) ELSE 0)
         /\ SumFunction(GriefingOf(w)) \in Nat
         /\ SumFunction(ReservedFor(w)) \in Nat
<1> DEFINE k == <<u, t>>
<1>1. /\ GriefingOf(w)[k] = IF u = w THEN issueRequests[u][t].griefingCollateral ELSE 0
      /\ GriefingOf(w)'[k] = 0 /\ GriefingOf(w)[k] \in Nat
  BY IssueSumsChange
<1>2. /\ ReservedFor(w)[k] = IF issueRequests[u][t].vault = w THEN Total(issueRequests[u][t]) ELSE 0
      /\ ReservedFor(w)'[k] = 0 /\ ReservedFor(w)[k] \in Nat
  BY IssueSumsChange
<1>3. /\ SumFunction(GriefingOf(w))' =
           (SumFunction(GriefingOf(w)) - GriefingOf(w)[k]) + GriefingOf(w)'[k]
      /\ SumFunction(GriefingOf(w)) \in Nat
      /\ SumFunction(ReservedFor(w))' =
           (SumFunction(ReservedFor(w)) - ReservedFor(w)[k]) + ReservedFor(w)'[k]
      /\ SumFunction(ReservedFor(w)) \in Nat
  BY IssueSumsChange
<1> HIDE DEF k
<1> QED
  BY <1>1, <1>2, <1>3

LEMMA RedeemSumsChange ==
  ASSUME RedeemTypeOK, RedeemTypeOK', NEW u \in Users, NEW t \in Times, NEW r,
         RedeemWritten(u, t, r), NEW w
  PROVE  /\ SumFunction(BurnedBy(w))' =
              (SumFunction(BurnedBy(w)) - BurnedBy(w)[<<u, t>>]) + BurnedBy(w)'[<<u, t>>]
         /\ SumFunction(Escrowed)' =
              (SumFunction(Escrowed) - Escrowed[<<u, t>>]) + Escrowed'[<<u, t>>]
         /\ SumFunction(BurnedBy(w)) \in Nat
         /\ SumFunction(Escrowed) \in Nat
         /\ BurnedBy(w)[<<u, t>>] =
              IF IsPending(redeemRequests[u][t]) /\ redeemRequests[u][t].vault = w
              THEN redeemRequests[u][t].amountBtc ELSE 0
         /\ BurnedBy(w)'[<<u, t>>] =
              IF IsPending(r) /\ r.vault = w THEN r.amountBtc ELSE 0
         /\ Escrowed[<<u, t>>] =
              IF IsPending(redeemRequests[u][t])
              THEN redeemRequests[u][t].amountBtc + redeemRequests[u][t].fee ELSE 0
         /\ Escrowed'[<<u, t>>] = IF IsPending(r) THEN r.amountBtc + r.fee ELSE 0
         /\ BurnedBy(w)'[<<u, t>>] \in Nat /\ Escrowed'[<<u, t>>] \in Nat
         /\ BurnedBy(w)[<<u, t>>] \in Nat /\ Escrowed[<<u, t>>] \in Nat
<1> DEFINE k == <<u, t>>
<1>1. k \in Slots
  BY DEF Slots
<1>2. RedeemAt(k) = redeemRequests[u][t] /\ RedeemAt(k)' = r
  BY DEF RedeemAt, RedeemTypeOK, RedeemWritten
<1>3. ASSUME NEW j \in Slots \ {k} PROVE RedeemAt(j)' = RedeemAt(j)
  <2>1. j[1] \in Users /\ j[2] \in Times /\ (j[1] # u \/ j[2] # t)
    BY DEF Slots
  <2> QED
    BY <2>1 DEF RedeemAt, RedeemTypeOK, RedeemWritten
<1>4. BurnedBy(w) \in [Slots -> Nat] /\ Escrowed \in [Slots -> Nat]
  BY RedeemBookTypes
<1>5. ASSUME NEW j \in Slots, IsPending(RedeemAt(j)')
      PROVE  RedeemAt(j).amountBtc' \in Nat /\ RedeemAt(j).fee' \in Nat
  <2>1. j[1] \in Users /\ j[2] \in Times
    BY DEF Slots
  <2>2. RedeemAt(j)' \in RedeemRequest
    BY <1>5, <2>1 DEF RedeemAt, RedeemTypeOK, IsPending, NoRequest
  <2> QED
    BY <2>2 DEF RedeemRequest
<1>6. BurnedBy(w)' \in [Slots -> Nat] /\ Escrowed' \in [Slots -> Nat]
  BY <1>5 DEF BurnedBy, Escrowed, IsPending
<1>7. /\ \A j \in Slots \ {k} : BurnedBy(w)'[j] = BurnedBy(w)[j]
      /\ \A j \in Slots \ {k} : Escrowed'[j] = Escrowed[j]
  BY <1>3 DEF BurnedBy, Escrowed, IsPending
<1>8. /\ BurnedBy(w)[k] =
           IF IsPending(redeemRequests[u][t]) /\ redeemRequests[u][t].vault = w
           THEN redeemRequests[u][t].amountBtc ELSE 0
      /\ BurnedBy(w)'[k] = IF IsPending(r) /\ r.vault = w THEN r.amountBtc ELSE 0
  BY <1>1, <1>2 DEF BurnedBy, IsPending
<1>9. /\ Escrowed[k] =
           IF IsPending(redeemRequests[u][t])
           THEN redeemRequests[u][t].amountBtc + redeemRequests[u][t].fee ELSE 0
      /\ Escrowed'[k] = IF IsPending(r) THEN r.amountBtc + r.fee ELSE 0
  BY <1>1, <1>2 DEF Escrowed, IsPending
<1> HIDE DEF k
<1>10. /\ SumFunction(BurnedBy(w)') =
            (SumFunction(BurnedBy(w)) - BurnedBy(w)[k]) + BurnedBy(w)'[k]
       /\ SumFunction(Escrowed') =
            (SumFunction(Escrowed) - Escrowed[k]) + Escrowed'[k]
  BY <1>1, <1>4, <1>6, <1>7, FiniteIndices, SumUpdate
<1>11. SumFunction(BurnedBy(w)) \in Nat /\ SumFunction(Escrowed) \in Nat
  BY <1>1, <1>4, FiniteIndices, SumBounds
<1> QED
  BY <1>1, <1>4, <1>6, <1>8, <1>9, <1>10, <1>11 DEF k

\* The same of redeem requests.
LEMMA RedeemOpens ==
  ASSUME RedeemTypeOK, RedeemTypeOK', NEW u \in Users, NEW t \in Times, NEW r,
         RedeemWritten(u, t, r),
         ~IsPending(redeemRequests[u][t]), IsPending(r), NEW w
  PROVE  /\ SumFunction(BurnedBy(w))' =
              SumFunction(BurnedBy(w)) + (IF r.vault = w THEN r.amountBtc ELSE 0)
         /\ SumFunction(Escrowed)' = SumFunction(Escrowed) + (r.amountBtc + r.fee)
         /\ SumFunction(BurnedBy(w)) \in Nat
         /\ SumFunction(Escrowed) \in Nat
<1> DEFINE k == <<u, t>>
<1>1. /\ BurnedBy(w)[k] = 0 /\ BurnedBy(w)'[k] = IF r.vault = w THEN r.amountBtc ELSE 0
      /\ BurnedBy(w)'[k] \in Nat
  BY RedeemSumsChange
<1>2. /\ Escrowed[k] = 0 /\ Escrowed'[k] = r.amountBtc + r.fee
      /\ Escrowed'[k] \in Nat
  BY RedeemSumsChange
<1>3. /\ SumFunction(BurnedBy(w))' =
           (SumFunction(BurnedBy(w)) - BurnedBy(w)[k]) + BurnedBy(w)'[k]
      /\ SumFunction(BurnedBy(w)) \in Nat
      /\ SumFunction(Escrowed)' =
           (SumFunction(Escrowed) - Escrowed[k]) + Escrowed'[k]
      /\ SumFunction(Escrowed) \in Nat
  BY RedeemSumsChange
<1> HIDE DEF k
<1> QED
  BY <1>1, <1>2, <1>3

LEMMA RedeemSettles ==
  ASSUME RedeemTypeOK, RedeemTypeOK', NEW u \in Users, NEW t \in Times, NEW r,
         RedeemWritten(u, t, r),
         IsPending(redeemRequests[u][t]), ~IsPending(r), NEW w
  PROVE  /\ SumFunction(BurnedBy(w))' =
              SumFunction(BurnedBy(w))
                - (IF redeemRequests[u][t].vault = w
                   THEN redeemRequests[u][t].amountBtc ELSE 0)
         /\ SumFunction(Escrowed)' =
              SumFunction(Escrowed)
                - (redeemRequests[u][t].amountBtc + redeemRequests[u][t].fee)
         /\ SumFunction(BurnedBy(w)) \in Nat
         /\ SumFunction(Escrowed) \in Nat
<1> DEFINE k == <<u, t>>
<1>1. /\ BurnedBy(w)[k] = IF redeemRequests[u][t].vault = w THEN redeemRequests[u][t].amountBtc ELSE 0
      /\ BurnedBy(w)'[k] = 0 /\ BurnedBy(w)[k] \in Nat
  BY RedeemSumsChange
<1>2. /\ Escrowed[k] = redeemRequests[u][t].amountBtc + redeemRequests[u][t].fee
      /\ Escrowed'[k] = 0 /\ Escrowed[k] \in Nat
  BY RedeemSumsChange
<1>3. /\ SumFunction(BurnedBy(w))' =
           (SumFunction(BurnedBy(w)) - BurnedBy(w)[k]) + BurnedBy(w)'[k]
      /\ SumFunction(BurnedBy(w)) \in Nat
      /\ SumFunction(Escrowed)' =
           (SumFunction(Escrowed) - Escrowed[k]) + Escrowed'[k]
      /\ SumFunction(Escrowed) \in Nat
  BY RedeemSumsChange
<1> HIDE DEF k
<1> QED
  BY <1>1, <1>2, <1>3

\* Where no issue request changes, neither do the sums over them.
LEMMA IssueSumsStay ==
  ASSUME UNCHANGED issueRequests, NEW w
  PROVE  /\ SumFunction(GriefingOf(w))' = SumFunction(GriefingOf(w))
         /\ SumFunction(ReservedFor(w))' = SumFunction(ReservedFor(w))
<1>1. GriefingOf(w)' = GriefingOf(w) /\ ReservedFor(w)' = ReservedFor(w)
  BY DEF GriefingOf, ReservedFor, IssueAt, IsPending, Total
<1> QED
  BY <1>1

LEMMA RedeemSumsStay ==
  ASSUME UNCHANGED redeemRequests, NEW w
  PROVE  /\ SumFunction(BurnedBy(w))' = SumFunction(BurnedBy(w))
         /\ SumFunction(Escrowed)' = SumFunction(Escrowed)
<1>1. BurnedBy(w)' = BurnedBy(w) /\ Escrowed' = Escrowed
  BY DEF BurnedBy, Escrowed, RedeemAt, IsPending
<1> QED
  BY <1>1

\* No collateral of a requester that is no vault is ever used.
LEMMA RequestersUseNothing ==
  ASSUME TypeOK, Next, NEW w \in Users \ Vaults, CollateralUsed[w] = 0
  PROVE  CollateralUsed'[w] = 0
<1>1. /\ CollateralUsed \in [Accounts -> Nat] /\ w \in Accounts
      /\ HarmonyTypeOK /\ OracleTypeOK
  BY UsersAreAccounts DEF TypeOK, CollateralTypeOK
<1>2. ASSUME NEW v \in Vaults, NEW amount, UseCollateralInc(v, amount)
      PROVE  CollateralUsed'[w] = 0
  BY <1>1, <1>2 DEF UseCollateralInc
<1>3. ASSUME NEW v \in Vaults, NEW amount, UseCollateralDec(v, amount)
      PROVE  CollateralUsed'[w] = 0
  BY <1>1, <1>3 DEF UseCollateralDec
<1>4. ASSUME NEW u \in Users, NEW t \in Times, CancelIssue(u, t)
      PROVE  CollateralUsed'[w] = 0
  <2>1. issueRequests[u][t].vault \in Vaults
    BY <1>4, PendingIssueType DEF CancelIssue, TypeOK, IssueRequest
  <2> QED
    BY <1>3, <1>4, <2>1 DEF CancelIssue
<1>5. ASSUME NEW u \in Users, NEW t \in Times,
             \/ ExecuteRedeem(u, t)
             \/ \E reimburse \in BOOLEAN : CancelRedeem(u, t, reimburse)
      PROVE  CollateralUsed'[w] = 0
  <2> DEFINE v == redeemRequests[u][t].vault
  <2>1. v \in Vaults
    BY <1>5, PendingRedeemType DEF ExecuteRedeem, CancelRedeem, TypeOK, RedeemRequest
  <2>2. (\E amount : UseCollateralDec(v, amount)) \/ UNCHANGED CollateralUsed
    BY <1>5
    DEF ExecuteRedeem, CancelRedeem, Reimburse, ReturnTokens, collateralVars
  <2> HIDE DEF v
  <2> QED
    BY <1>3, <2>1, <2>2
<1>6. ASSUME NEW u \in Users, NEW v \in Vaults, NEW amount, NEW griefing,
             RequestIssue(u, amount, v, griefing)
      PROVE  CollateralUsed'[w] = 0
  BY <1>2, <1>6 DEF RequestIssue
<1>7. ASSUME VaultRegistryNext
      PROVE  UNCHANGED CollateralUsed
  BY <1>7
  DEF VaultRegistryNext, RegisterVault, LockAdditionalCollateral,
      LockAdditionalCollateralFromVaultReward, AddCollateral,
      WithdrawCollateral, UpdatePublicKey, ExtendVaultLockPeriod,
      collateralVars
<1>8. ASSUME NEW caller, NEW u, NEW t, NEW transferred,
             ExecuteIssue(caller, u, t, transferred)
      PROVE  UNCHANGED CollateralUsed
  BY <1>8 DEF ExecuteIssue
<1>9. CASE UNCHANGED CollateralUsed
  BY <1>9
<1> QED
  BY <1>1, <1>4, <1>5, <1>6, <1>7, <1>8, <1>9, NextCases
  DEF RequestRedeem, collateralVars, bridgeVars

\* A settled issue request frees its requester's griefing collateral: the
\* part returned and the part slashed together.
LEMMA SettlingFreesGriefing ==
  ASSUME TypeOK, NEW u \in Users, NEW t \in Times,
         \/ \E caller \in Users, transferred \in TransferredAmounts :
              ExecuteIssue(caller, u, t, transferred)
         \/ CancelIssue(u, t)
  PROVE  /\ IsPending(issueRequests[u][t])
         /\ issueRequests[u][t].griefingCollateral \in Nat
         /\ CollateralBalances' = [CollateralBalances EXCEPT ![u] =
              @ - issueRequests[u][t].griefingCollateral]
         /\ \E r : IssueWritten(u, t, r) /\ ~IsPending(r)
<1> DEFINE request == issueRequests[u][t]
           griefing == request.griefingCollateral
<1>1. IsPending(request) /\ request \in IssueRequest
  BY PendingIssueType DEF ExecuteIssue, CancelIssue, TypeOK
<1>2. /\ griefing \in Nat /\ u \in Accounts /\ Total(request) \in Nat
      /\ CollateralBalances \in [Accounts -> Nat]
  BY <1>1, UsersAreAccounts DEF IssueRequest, Total, TypeOK, CollateralTypeOK
<1>3. CASE CancelIssue(u, t)
  <2> DEFINE r == [request EXCEPT !.status = "Cancelled"]
  <2>1. IssueWritten(u, t, r)
    BY <1>3 DEF CancelIssue, IssueWritten
  <2>2. ~IsPending(r)
    BY <1>1 DEF IsPending, IssueRequest
  <2>3. CollateralBalances' =
          [CollateralBalances EXCEPT ![u] = @ - (griefing + 0)]
    BY <1>3 DEF CancelIssue, Release, Release2
  <2>4. griefing + 0 = griefing
    BY <1>2
  <2>5. CollateralBalances' = [CollateralBalances EXCEPT ![u] = @ - griefing]
    <3> HIDE DEF griefing
    <3> QED BY <2>3, <2>4
  <2> HIDE DEF r
  <2> QED
    BY <1>1, <1>2, <2>1, <2>2, <2>5
<1>4. ASSUME NEW caller \in Users, NEW transferred \in TransferredAmounts,
             ExecuteIssue(caller, u, t, transferred)
      PROVE  /\ CollateralBalances' = [CollateralBalances EXCEPT ![u] = @ - griefing]
             /\ \E r : IssueWritten(u, t, r) /\ ~IsPending(r)
  <2> DEFINE r == [request EXCEPT !.status = "Completed",
                                  !.fee = Fee(transferred),
                                  !.amount = transferred - Fee(transferred)]
             returned == GriefingReturned(griefing, transferred, Total(request))
  <2>1. IssueWritten(u, t, r)
    BY <1>4 DEF ExecuteIssue, IssueWritten
  <2>2. ~IsPending(r)
    BY <1>1 DEF IsPending, IssueRequest
  <2>3. returned \in Nat /\ griefing - returned \in Nat
    BY <1>2, GriefingWithin, IssueInputsNat
  <2>4. CollateralBalances' = [CollateralBalances EXCEPT ![u] =
          @ - (returned + (griefing - returned))]
    BY <1>4 DEF ExecuteIssue, Release2
  <2> HIDE DEF r, returned
  <2>5. returned + (griefing - returned) = griefing
    BY <1>2, <2>3
  <2> QED
    BY <2>1, <2>2, <2>4, <2>5
<1> QED
  BY <1>1, <1>2, <1>3, <1>4

\* What registering, locking, withdrawing and redeeming move is a vault's.
LEMMA OthersMoveVaults ==
  ASSUME TypeOK, NEW w \in Users \ Vaults,
         \/ VaultRegistryNext
         \/ \E u \in Users, t \in Times, reimburse \in BOOLEAN :
              CancelRedeem(u, t, reimburse)
  PROVE  CollateralBalances'[w] = CollateralBalances[w]
<1>1. CollateralBalances \in [Accounts -> Nat] /\ w \in Accounts
  BY UsersAreAccounts DEF TypeOK, CollateralTypeOK
<1>2. CASE VaultRegistryNext
  BY <1>1, <1>2
  DEF VaultRegistryNext, RegisterVault, LockAdditionalCollateral,
      LockAdditionalCollateralFromVaultReward, AddCollateral, LockCollateral,
      WithdrawCollateral, Release, Release2, UpdatePublicKey,
      ExtendVaultLockPeriod, collateralVars
<1>3. ASSUME NEW u \in Users, NEW t \in Times, NEW reimburse \in BOOLEAN,
             CancelRedeem(u, t, reimburse)
      PROVE  CollateralBalances'[w] = CollateralBalances[w]
  <2>1. redeemRequests[u][t].vault \in Vaults
    BY <1>3, PendingRedeemType DEF CancelRedeem, TypeOK, RedeemRequest
  <2> QED
    BY <1>1, <1>3, <2>1
    DEF CancelRedeem, Reimburse, ReturnTokens, Release, Release2, collateralVars
<1> QED
  BY <1>2, <1>3

LEMMA StepKeepsGriefing ==
  ASSUME TypeOK, TypeOK', GriefingIsHeld, [Next]_vars
  PROVE  GriefingIsHeld'
<1> SUFFICES ASSUME NEW w \in Users \ Vaults
             PROVE  /\ CollateralUsed'[w] = 0
                    /\ CollateralBalances'[w] = SumFunction(GriefingOf(w))'
  BY DEF GriefingIsHeld
<1>1. /\ CollateralUsed[w] = 0
      /\ CollateralBalances[w] = SumFunction(GriefingOf(w))
  BY DEF GriefingIsHeld
<1>2. /\ HarmonyTypeOK /\ IssueTypeOK /\ IssueTypeOK'
      /\ CollateralBalances \in [Accounts -> Nat] /\ w \in Accounts
  BY UsersAreAccounts DEF TypeOK, CollateralTypeOK
<1>3. CASE UNCHANGED vars
  BY <1>1, <1>3, IssueSumsStay DEF vars, collateralVars
<1>4. CASE Next
  <2>1. CollateralUsed'[w] = 0
    BY <1>1, <1>4, RequestersUseNothing
  <2>2. ASSUME UNCHANGED issueRequests,
               CollateralBalances'[w] = CollateralBalances[w]
        PROVE  CollateralBalances'[w] = SumFunction(GriefingOf(w))'
    BY <1>1, <2>2, IssueSumsStay
  <2>3. ASSUME NEW u \in Users, NEW v \in Vaults, NEW amount \in IssueAmounts,
               NEW griefing \in GriefingAmounts,
               RequestIssue(u, amount, v, griefing)
        PROVE  CollateralBalances'[w] = SumFunction(GriefingOf(w))'
    <3> DEFINE r == [status |-> "Pending",
                     vault |-> v,
                     btcAddress |-> Derivate(btcPublicKey[v], RequestId(u, now)),
                     amount |-> amount - Fee(amount),
                     fee |-> Fee(amount),
                     griefingCollateral |-> griefing]
    <3>1. /\ IssueWritten(u, now, r)
          /\ IsPending(r) /\ r.griefingCollateral = griefing
      BY <2>3 DEF RequestIssue, IsPending, IssueWritten
    <3> HIDE DEF r
    <3>2. ~IsPending(issueRequests[u][now]) /\ now \in Times
      BY <1>2, <2>3, OpeningTimes DEF RequestIssue, IsPending
    <3>3. /\ SumFunction(GriefingOf(w))' =
               SumFunction(GriefingOf(w)) + (IF u = w THEN griefing ELSE 0)
          /\ SumFunction(GriefingOf(w)) \in Nat
      BY <1>2, <3>1, <3>2, IssueOpens
    <3>4. /\ CollateralBalances' = [CollateralBalances EXCEPT ![u] = @ + griefing]
          /\ griefing \in Nat /\ u \in Accounts
      BY <2>3, IssueInputsNat, UsersAreAccounts DEF RequestIssue, LockCollateral
    <3>5. CollateralBalances'[w] =
            IF u = w THEN CollateralBalances[w] + griefing
            ELSE CollateralBalances[w]
      BY <1>2, <3>4
    <3> QED
      BY <1>1, <3>3, <3>4, <3>5
  <2>4. ASSUME NEW u \in Users, NEW t \in Times,
               \/ \E caller \in Users, transferred \in TransferredAmounts :
                    ExecuteIssue(caller, u, t, transferred)
               \/ CancelIssue(u, t)
        PROVE  CollateralBalances'[w] = SumFunction(GriefingOf(w))'
    <3> DEFINE griefing == issueRequests[u][t].griefingCollateral
    <3>1. /\ IsPending(issueRequests[u][t]) /\ griefing \in Nat
          /\ CollateralBalances' = [CollateralBalances EXCEPT ![u] = @ - griefing]
      BY <2>4, SettlingFreesGriefing
    <3>2. PICK r : IssueWritten(u, t, r) /\ ~IsPending(r)
      BY <2>4, SettlingFreesGriefing
    <3>3. /\ SumFunction(GriefingOf(w))' =
               SumFunction(GriefingOf(w)) - (IF u = w THEN griefing ELSE 0)
          /\ SumFunction(GriefingOf(w)) \in Nat
      BY <1>2, <3>1, <3>2, IssueSettles
    <3>4. CollateralBalances'[w] =
            IF u = w THEN CollateralBalances[w] - griefing
            ELSE CollateralBalances[w]
      BY <1>2, <3>1
    <3> HIDE DEF griefing
    <3> QED
      BY <1>1, <3>1, <3>3, <3>4
  <2>5. CollateralBalances'[w] = SumFunction(GriefingOf(w))'
    BY <1>2, <1>4, <2>2, <2>3, <2>4, NextCases, OthersMoveVaults
    DEF RequestRedeem, ExecuteRedeem, collateralVars, bridgeVars
  <2> QED
    BY <2>1, <2>5
<1> QED
  BY <1>3, <1>4

\* The contract holds exactly what it owes its accounts, and a requester that
\* is no vault is owed the griefing collateral of its pending requests, no
\* more and no less: for any accounts, amounts and rates, whatever is slashed,
\* reimbursed, withdrawn or paid short.
THEOREM CollateralHeld == Spec => []CollateralIsHeld
<1>1. Init => CollateralIsHeld
  <2> SUFFICES ASSUME Init PROVE CollateralIsHeld
    OBVIOUS
  <2>1. /\ CollateralBalances = [a \in Accounts |-> 0]
        /\ CollateralUsed = [a \in Accounts |-> 0]
        /\ balance[This] = 0
    BY DEF Init, CollateralInit, HarmonyInit, Addresses
  <2>2. SumFunction(CollateralBalances) = 0
    <3>1. /\ DOMAIN CollateralBalances = Accounts
          /\ \A a \in Accounts : CollateralBalances[a] = 0
      BY <2>1
    <3> QED
      BY <3>1, AccountsFinite, SumZero DEF SumFunction
  <2>3. ASSUME NEW u \in Users PROVE SumFunction(GriefingOf(u)) = 0
    <3>1. ASSUME NEW k \in Slots PROVE ~IsPending(IssueAt(k))
      BY DEF Init, IssueInit, IssueAt, IsPending, NoRequest, Slots
    <3>2. /\ DOMAIN GriefingOf(u) = Slots
          /\ \A k \in Slots : GriefingOf(u)[k] = 0
      BY <3>1 DEF GriefingOf
    <3> QED
      BY <3>2, FiniteIndices, SumZero DEF SumFunction
  <2> QED
    BY <2>1, <2>2, <2>3, UsersAreAccounts DEF CollateralIsHeld, GriefingIsHeld
<1>2. TypeOK /\ TypeOK' /\ CollateralIsHeld /\ [Next]_vars => CollateralIsHeld'
  BY StepKeepsOwed, StepKeepsGriefing DEF CollateralIsHeld, BalanceIsOwed
<1> QED
  BY <1>1, <1>2, TypeCorrect, PTL DEF Spec

------------------------------------------------------------------------------
\* The books of tokens agree

LEMMA SettlingFreesReserved ==
  ASSUME TypeOK, NEW u \in Users, NEW t \in Times,
         \/ \E caller \in Users, transferred \in TransferredAmounts :
              ExecuteIssue(caller, u, t, transferred)
         \/ CancelIssue(u, t)
  PROVE  /\ issueRequests[u][t].vault \in Vaults
         /\ Total(issueRequests[u][t]) \in Nat
         /\ toBeIssued' = [toBeIssued EXCEPT ![issueRequests[u][t].vault] =
              @ - Total(issueRequests[u][t])]
<1>1. issueRequests[u][t] \in IssueRequest
  BY PendingIssueType DEF ExecuteIssue, CancelIssue, TypeOK
<1>2. DecreaseToBeIssued(issueRequests[u][t].vault, Total(issueRequests[u][t]))
  BY DEF ExecuteIssue, CancelIssue, IssueTokens
<1> QED
  BY <1>1, <1>2 DEF DecreaseToBeIssued, IssueRequest, Total

LEMMA StepKeepsReserved ==
  ASSUME TypeOK, TypeOK', ReservedForPendingIssues, [Next]_vars
  PROVE  ReservedForPendingIssues'
<1> SUFFICES ASSUME NEW w \in Vaults
             PROVE  toBeIssued'[w] = SumFunction(ReservedFor(w))'
  BY DEF ReservedForPendingIssues
<1>1. toBeIssued[w] = SumFunction(ReservedFor(w))
  BY DEF ReservedForPendingIssues
<1>2. /\ HarmonyTypeOK /\ IssueTypeOK /\ IssueTypeOK'
      /\ toBeIssued \in [Vaults -> Nat]
  BY DEF TypeOK, VaultRegistryTypeOK
<1>3. CASE UNCHANGED <<issueRequests, toBeIssued>>
  BY <1>1, <1>3, IssueSumsStay
<1>4. ASSUME NEW u \in Users, NEW v \in Vaults, NEW amount \in IssueAmounts,
             NEW griefing \in GriefingAmounts,
             RequestIssue(u, amount, v, griefing)
      PROVE  toBeIssued'[w] = SumFunction(ReservedFor(w))'
  <2> DEFINE r == [status |-> "Pending",
                   vault |-> v,
                   btcAddress |-> Derivate(btcPublicKey[v], RequestId(u, now)),
                   amount |-> amount - Fee(amount),
                   fee |-> Fee(amount),
                   griefingCollateral |-> griefing]
  <2>1. amount \in Nat /\ Fee(amount) \in Nat
    BY IssueInputsNat, FeeWithin
  <2>2. IssueWritten(u, now, r) /\ IsPending(r) /\ r.vault = v
    BY <1>4 DEF RequestIssue, IsPending, IssueWritten
  <2>3. Total(r) = amount
    BY <2>1 DEF Total
  <2>4. ~IsPending(issueRequests[u][now]) /\ now \in Times
    BY <1>2, <1>4, OpeningTimes DEF RequestIssue, IsPending
  <2> HIDE DEF r
  <2>5. /\ SumFunction(ReservedFor(w))' =
             SumFunction(ReservedFor(w)) + (IF v = w THEN amount ELSE 0)
        /\ SumFunction(ReservedFor(w)) \in Nat
    BY <1>2, <2>2, <2>3, <2>4, IssueOpens
  <2>6. toBeIssued'[w] = IF v = w THEN toBeIssued[w] + amount ELSE toBeIssued[w]
    BY <1>2, <1>4 DEF RequestIssue
  <2> QED
    BY <1>1, <2>1, <2>5, <2>6
<1>5. ASSUME NEW u \in Users, NEW t \in Times,
             \/ \E caller \in Users, transferred \in TransferredAmounts :
                  ExecuteIssue(caller, u, t, transferred)
             \/ CancelIssue(u, t)
      PROVE  toBeIssued'[w] = SumFunction(ReservedFor(w))'
  <2> DEFINE v == issueRequests[u][t].vault
             total == Total(issueRequests[u][t])
  <2>1. IsPending(issueRequests[u][t])
    BY <1>5, SettlingFreesGriefing
  <2>2. PICK r : IssueWritten(u, t, r) /\ ~IsPending(r)
    BY <1>5, SettlingFreesGriefing
  <2>3. /\ v \in Vaults /\ total \in Nat
        /\ toBeIssued' = [toBeIssued EXCEPT ![v] = @ - total]
    BY <1>5, SettlingFreesReserved
  <2>4. /\ SumFunction(ReservedFor(w))' =
             SumFunction(ReservedFor(w)) - (IF v = w THEN total ELSE 0)
        /\ SumFunction(ReservedFor(w)) \in Nat
    BY <1>2, <2>1, <2>2, IssueSettles
  <2> HIDE DEF v, total
  <2>5. toBeIssued'[w] = IF v = w THEN toBeIssued[w] - total ELSE toBeIssued[w]
    BY <1>2, <2>3
  <2> QED
    BY <1>1, <2>3, <2>4, <2>5
<1>6. ASSUME VaultRegistryNext PROVE UNCHANGED toBeIssued
  BY <1>6
  DEF VaultRegistryNext, RegisterVault, LockAdditionalCollateral,
      LockAdditionalCollateralFromVaultReward, AddCollateral,
      WithdrawCollateral, UpdatePublicKey, ExtendVaultLockPeriod, tokenDebtVars
<1> QED
  BY <1>2, <1>3, <1>4, <1>5, <1>6, NextCases
  DEF RequestRedeem, ExecuteRedeem, CancelRedeem, vars, vaultVars, bridgeVars

\* A settled redeem request frees what its vault was to redeem.
LEMMA SettlingFreesBurned ==
  ASSUME TypeOK, NEW u \in Users, NEW t \in Times,
         \/ ExecuteRedeem(u, t)
         \/ \E reimburse \in BOOLEAN : CancelRedeem(u, t, reimburse)
  PROVE  /\ IsPending(redeemRequests[u][t])
         /\ redeemRequests[u][t].vault \in Vaults
         /\ redeemRequests[u][t].amountBtc \in Nat
         /\ redeemRequests[u][t].fee \in Nat
         /\ toBeRedeemed' = [toBeRedeemed EXCEPT ![redeemRequests[u][t].vault] =
              @ - redeemRequests[u][t].amountBtc]
         /\ \E r : RedeemWritten(u, t, r) /\ ~IsPending(r)
<1> DEFINE request == redeemRequests[u][t]
           done == [request EXCEPT !.status = "Completed"]
           cancelled == [request EXCEPT !.status = "Cancelled"]
<1>1. IsPending(request) /\ request \in RedeemRequest
  BY PendingRedeemType DEF ExecuteRedeem, CancelRedeem, TypeOK
<1>2. /\ request.vault \in Vaults /\ request.amountBtc \in Nat
      /\ request.fee \in Nat
  BY <1>1 DEF RedeemRequest
<1>3. toBeRedeemed' = [toBeRedeemed EXCEPT ![request.vault] =
        @ - request.amountBtc]
  BY DEF ExecuteRedeem, CancelRedeem, RedeemTokens, DecreaseToBeRedeemed
<1>4. RedeemWritten(u, t, done) \/ RedeemWritten(u, t, cancelled)
  BY DEF ExecuteRedeem, CancelRedeem, RedeemWritten
<1>5. ~IsPending(done) /\ ~IsPending(cancelled)
  BY <1>1 DEF RedeemRequest, IsPending
<1> HIDE DEF done, cancelled
<1> QED
  BY <1>1, <1>2, <1>3, <1>4, <1>5

LEMMA StepKeepsBurned ==
  ASSUME TypeOK, TypeOK', ReservedForPendingRedeems, [Next]_vars
  PROVE  ReservedForPendingRedeems'
<1> SUFFICES ASSUME NEW w \in Vaults
             PROVE  toBeRedeemed'[w] = SumFunction(BurnedBy(w))'
  BY DEF ReservedForPendingRedeems
<1>1. toBeRedeemed[w] = SumFunction(BurnedBy(w))
  BY DEF ReservedForPendingRedeems
<1>2. /\ HarmonyTypeOK /\ RedeemTypeOK /\ RedeemTypeOK'
      /\ toBeRedeemed \in [Vaults -> Nat]
  BY DEF TypeOK, VaultRegistryTypeOK
<1>3. CASE UNCHANGED <<redeemRequests, toBeRedeemed>>
  BY <1>1, <1>3, RedeemSumsStay
<1>4. ASSUME NEW u \in Users, NEW v \in Vaults, NEW amount \in RedeemAmounts,
             RequestRedeem(u, amount, v)
      PROVE  toBeRedeemed'[w] = SumFunction(BurnedBy(w))'
  <2> DEFINE burned == amount - Fee(amount)
             r == [status |-> "Pending", vault |-> v,
                   amountBtc |-> burned, fee |-> Fee(amount)]
  <2>1. burned \in Nat
    BY RedeemInputs, FeeWithin
  <2>2. /\ RedeemWritten(u, now, r)
        /\ IsPending(r) /\ r.vault = v /\ r.amountBtc = burned
    BY <1>4 DEF RequestRedeem, IsPending, RedeemWritten
  <2>3. ~IsPending(redeemRequests[u][now]) /\ now \in Times
    BY <1>2, <1>4, OpeningTimes DEF RequestRedeem, IsPending
  <2>4. toBeRedeemed' = [toBeRedeemed EXCEPT ![v] = @ + burned]
    BY <1>4 DEF RequestRedeem
  <2> HIDE DEF r, burned
  <2>5. /\ SumFunction(BurnedBy(w))' =
             SumFunction(BurnedBy(w)) + (IF v = w THEN burned ELSE 0)
        /\ SumFunction(BurnedBy(w)) \in Nat
    BY <1>2, <2>2, <2>3, RedeemOpens
  <2>6. toBeRedeemed'[w] =
          IF v = w THEN toBeRedeemed[w] + burned ELSE toBeRedeemed[w]
    BY <1>2, <2>4
  <2> QED
    BY <1>1, <2>1, <2>5, <2>6
<1>5. ASSUME NEW u \in Users, NEW t \in Times,
             \/ ExecuteRedeem(u, t)
             \/ \E reimburse \in BOOLEAN : CancelRedeem(u, t, reimburse)
      PROVE  toBeRedeemed'[w] = SumFunction(BurnedBy(w))'
  <2> DEFINE v == redeemRequests[u][t].vault
             amount == redeemRequests[u][t].amountBtc
  <2>1. /\ IsPending(redeemRequests[u][t])
        /\ v \in Vaults /\ amount \in Nat
        /\ toBeRedeemed' = [toBeRedeemed EXCEPT ![v] = @ - amount]
    BY <1>5, SettlingFreesBurned
  <2>2. PICK r : RedeemWritten(u, t, r) /\ ~IsPending(r)
    BY <1>5, SettlingFreesBurned
  <2>3. /\ SumFunction(BurnedBy(w))' =
             SumFunction(BurnedBy(w)) - (IF v = w THEN amount ELSE 0)
        /\ SumFunction(BurnedBy(w)) \in Nat
    BY <1>2, <2>1, <2>2, RedeemSettles
  <2> HIDE DEF v, amount
  <2>4. toBeRedeemed'[w] =
          IF v = w THEN toBeRedeemed[w] - amount ELSE toBeRedeemed[w]
    BY <1>2, <2>1
  <2> QED
    BY <1>1, <2>1, <2>3, <2>4
<1>6. ASSUME VaultRegistryNext PROVE UNCHANGED toBeRedeemed
  BY <1>6
  DEF VaultRegistryNext, RegisterVault, LockAdditionalCollateral,
      LockAdditionalCollateralFromVaultReward, AddCollateral,
      WithdrawCollateral, UpdatePublicKey, ExtendVaultLockPeriod, tokenDebtVars
<1>7. ASSUME NEW u, NEW v, NEW amount, NEW griefing,
             RequestIssue(u, amount, v, griefing)
      PROVE  UNCHANGED toBeRedeemed
  BY <1>7 DEF RequestIssue
<1>10. ASSUME NEW caller, NEW u, NEW t, NEW transferred,
              \/ ExecuteIssue(caller, u, t, transferred)
              \/ CancelIssue(u, t)
       PROVE  UNCHANGED toBeRedeemed
  BY <1>10 DEF ExecuteIssue, CancelIssue
<1>8. CASE UNCHANGED vars
  BY <1>3, <1>8 DEF vars, vaultVars
<1>9. CASE Next
  BY <1>2, <1>3, <1>4, <1>5, <1>6, <1>7, <1>9, <1>10, NextCases
  DEF vaultVars, bridgeVars
<1> QED
  BY <1>8, <1>9

\* Issued tokens are minted and redeemed ones burned.
LEMMA StepKeepsSupply ==
  ASSUME TypeOK, TypeOK', SupplyIsIssued, [Next]_vars
  PROVE  SupplyIsIssued'
<1>1. /\ HarmonyTypeOK /\ totalSupply \in Nat
      /\ issued \in [Vaults -> Nat] /\ issued' \in [Vaults -> Nat]
      /\ IsFiniteSet(Vaults)
  BY FiniteIndices DEF TypeOK, ERC20TypeOK, VaultRegistryTypeOK
<1>2. CASE UNCHANGED <<issued, totalSupply>>
  BY <1>2 DEF SupplyIsIssued
<1>3. ASSUME NEW v \in Vaults, \A x \in Vaults \ {v} : issued'[x] = issued[x],
             totalSupply' = totalSupply + (issued'[v] - issued[v])
      PROVE  SupplyIsIssued'
  <2>1. issued[v] \in Nat /\ issued'[v] \in Nat
    BY <1>1
  <2>2. SumFunction(issued') = (SumFunction(issued) - issued[v]) + issued'[v]
    BY <1>1, <1>3, SumUpdate
  <2>3. SumFunction(issued) \in Nat
    BY <1>1, SumBounds
  <2> QED
    BY <1>1, <1>3, <2>1, <2>2, <2>3 DEF SupplyIsIssued
<1>4. ASSUME NEW caller \in Users, NEW u \in Users, NEW t \in Times,
             NEW transferred \in TransferredAmounts,
             ExecuteIssue(caller, u, t, transferred)
      PROVE  SupplyIsIssued'
  <2>1. PICK v \in Vaults : /\ issued' = [issued EXCEPT ![v] = @ + transferred]
                            /\ totalSupply' = totalSupply + transferred
    BY <1>4, ExecuteIssueBooks
  <2>2. /\ \A x \in Vaults \ {v} : issued'[x] = issued[x]
        /\ issued'[v] = issued[v] + transferred
        /\ transferred \in Nat /\ issued[v] \in Nat
    BY <1>1, <2>1, IssueInputsNat
  <2> QED
    BY <1>1, <1>3, <2>1, <2>2
<1>5. ASSUME NEW u \in Users, NEW t \in Times, ExecuteRedeem(u, t)
      PROVE  SupplyIsIssued'
  <2> DEFINE v == redeemRequests[u][t].vault
             amount == redeemRequests[u][t].amountBtc
  <2>1. v \in Vaults /\ amount \in Nat
    BY <1>5, SettlingFreesBurned
  <2>2. /\ issued' = [issued EXCEPT ![v] = @ - amount]
        /\ totalSupply' = totalSupply - amount
    BY <1>5 DEF ExecuteRedeem, RedeemTokens, BurnAndReleaseLocked
  <2> HIDE DEF v, amount
  <2>3. /\ \A x \in Vaults \ {v} : issued'[x] = issued[x]
        /\ issued'[v] = issued[v] - amount
        /\ issued[v] \in Nat
    BY <1>1, <2>1, <2>2
  <2> QED
    BY <1>1, <1>3, <2>1, <2>2, <2>3
<1>6. ASSUME VaultRegistryNext PROVE UNCHANGED issued
  BY <1>6
  DEF VaultRegistryNext, RegisterVault, LockAdditionalCollateral,
      LockAdditionalCollateralFromVaultReward, AddCollateral,
      WithdrawCollateral, UpdatePublicKey, ExtendVaultLockPeriod, tokenDebtVars
<1>7. ASSUME NEW u \in Users, NEW t \in Times, NEW reimburse \in BOOLEAN,
             CancelRedeem(u, t, reimburse)
      PROVE  UNCHANGED <<issued, totalSupply>>
  BY <1>7
  DEF CancelRedeem, Reimburse, ReturnTokens, Transfer, tokenVars
<1>8. ASSUME TokenNext PROVE UNCHANGED totalSupply
  BY <1>8 DEF TokenNext, Transfer, TransferToClaim
<1> QED
  BY <1>1, <1>2, <1>4, <1>5, <1>6, <1>7, <1>8, NextCases
  DEF RequestIssue, CancelIssue, RequestRedeem, LockOneBTC, Transfer, vars,
      vaultVars, tokenVars, bridgeVars

\* Only settling a redeem request takes tokens from the contract.
LEMMA StepKeepsEscrow ==
  ASSUME TypeOK, TypeOK', RedeemsAreEscrowed, [Next]_vars
  PROVE  RedeemsAreEscrowed'
<1>1. /\ HarmonyTypeOK /\ RedeemTypeOK /\ RedeemTypeOK'
      /\ tokens \in [Holders -> Nat]
      /\ This \in Holders /\ Users \subseteq Holders \ {This}
      /\ Vaults \subseteq Holders \ {This} /\ Accounts \subseteq Holders \ {This}
      /\ Claim \in Holders \ {This}
  BY UsersAreAccounts, VaultsAreAccounts, AddressesDistinct, ClaimDistinct
  DEF TypeOK, ERC20TypeOK, Holders
<1>2. ASSUME UNCHANGED redeemRequests, tokens'[This] >= tokens[This],
             tokens'[This] \in Nat
      PROVE  RedeemsAreEscrowed'
  <2>1. SumFunction(Escrowed)' = SumFunction(Escrowed)
    BY <1>2, RedeemSumsStay
  <2>2. SumFunction(Escrowed) \in Nat
    <3>1. Escrowed \in [Slots -> Nat]
      BY <1>1, RedeemBookTypes
    <3> QED
      BY <3>1, FiniteIndices, SumNat DEF SumFunction
  <2> QED
    BY <1>1, <1>2, <2>1, <2>2 DEF RedeemsAreEscrowed
<1>3. ASSUME NEW from \in Holders \ {This}, NEW to \in Holders,
             NEW amount \in Nat, Transfer(from, to, amount)
      PROVE  tokens'[This] >= tokens[This] /\ tokens'[This] \in Nat
  BY <1>1, <1>3 DEF Transfer
<1>4. CASE UNCHANGED <<redeemRequests, tokens>>
  BY <1>1, <1>2, <1>4
<1>5. ASSUME NEW caller \in Users, NEW u \in Users, NEW t \in Times,
             NEW transferred \in TransferredAmounts,
             ExecuteIssue(caller, u, t, transferred)
      PROVE  tokens'[This] = tokens[This]
  <2>1. issueRequests[u][t].vault \in Vaults
    BY <1>5, SettlingFreesReserved
  <2>2. IssueOneBTC(issueRequests[u][t].vault, u, transferred)
    BY <1>5 DEF ExecuteIssue
  <2> QED
    BY <1>1, <2>1, <2>2 DEF IssueOneBTC, Mint2
<1>6. ASSUME NEW u \in Users, NEW v \in Vaults, NEW amount \in RedeemAmounts,
             RequestRedeem(u, amount, v)
      PROVE  RedeemsAreEscrowed'
  <2> DEFINE burned == amount - Fee(amount)
             r == [status |-> "Pending", vault |-> v,
                   amountBtc |-> burned, fee |-> Fee(amount)]
  <2>1. amount \in Nat /\ burned \in Nat /\ Fee(amount) \in Nat
        /\ burned + Fee(amount) = amount
    BY RedeemInputs, FeeWithin
  <2>2. /\ RedeemWritten(u, now, r)
        /\ IsPending(r) /\ r.amountBtc + r.fee = amount
    BY <1>6, <2>1 DEF RequestRedeem, IsPending, RedeemWritten
  <2>3. ~IsPending(redeemRequests[u][now]) /\ now \in Times
    BY <1>1, <1>6, OpeningTimes DEF RequestRedeem, IsPending
  <2>4. tokens'[This] = tokens[This] + amount
    BY <1>1, <1>6 DEF RequestRedeem, LockOneBTC, Transfer
  <2> HIDE DEF r, burned
  <2>5. /\ SumFunction(Escrowed)' = SumFunction(Escrowed) + amount
        /\ SumFunction(Escrowed) \in Nat
    BY <1>1, <2>2, <2>3, RedeemOpens
  <2> QED
    BY <1>1, <2>1, <2>4, <2>5 DEF RedeemsAreEscrowed
<1>7. ASSUME NEW u \in Users, NEW t \in Times,
             \/ ExecuteRedeem(u, t)
             \/ \E reimburse \in BOOLEAN : CancelRedeem(u, t, reimburse)
      PROVE  RedeemsAreEscrowed'
  <2> DEFINE v == redeemRequests[u][t].vault
             amount == redeemRequests[u][t].amountBtc
             fee == redeemRequests[u][t].fee
  <2>1. /\ IsPending(redeemRequests[u][t])
        /\ v \in Vaults /\ amount \in Nat /\ fee \in Nat
    BY <1>7, SettlingFreesBurned
  <2>2. PICK r : RedeemWritten(u, t, r) /\ ~IsPending(r)
    BY <1>7, SettlingFreesBurned
  <2>3. /\ SumFunction(Escrowed)' =
             SumFunction(Escrowed) - (amount + fee)
        /\ SumFunction(Escrowed) \in Nat
    BY <1>1, <2>1, <2>2, RedeemSettles
  <2>4. \/ tokens'[This] = tokens[This] - (amount + fee)
        \/ tokens'[This] = tokens[This]
    <3>1. CASE ExecuteRedeem(u, t)
      <4>1. BurnAndReleaseLocked(amount, v, fee)
        BY <3>1 DEF ExecuteRedeem
      <4> HIDE DEF v, amount, fee
      <4> QED
        BY <1>1, <2>1, <4>1 DEF BurnAndReleaseLocked
    <3>2. ASSUME NEW reimburse \in BOOLEAN, CancelRedeem(u, t, reimburse)
          PROVE  \/ tokens'[This] = tokens[This] - (amount + fee)
                 \/ tokens'[This] = tokens[This]
      <4>1. \/ UNCHANGED tokens
            \/ Transfer(This, u, amount + fee)
        BY <3>2 DEF CancelRedeem, Reimburse, ReturnTokens, tokenVars
      <4> HIDE DEF amount, fee
      <4> QED
        BY <1>1, <2>1, <4>1 DEF Transfer
    <3> QED
      BY <1>7, <3>1, <3>2
  <2> HIDE DEF amount, fee
  <2> QED
    BY <1>1, <2>1, <2>3, <2>4 DEF RedeemsAreEscrowed
<1>8. ASSUME TokenNext
      PROVE  tokens'[This] >= tokens[This] /\ tokens'[This] \in Nat
  <2>1. PICK from \in Accounts, to \in Holders, amount \in TransferAmounts :
          Transfer(from, to, amount)
    BY <1>8 DEF TokenNext, TransferToClaim, Holders
  <2> QED
    BY <1>1, <1>3, <2>1, TransferAmountsNat
<1> QED
  BY <1>1, <1>2, <1>4, <1>5, <1>6, <1>7, <1>8, NextCases
  DEF RequestIssue, CancelIssue, vars, vaultVars, tokenVars, bridgeVars

\* Supply, what vaults have issued, what they have promised either way and
\* what the contract holds for redeem requests agree after every call, for any
\* users, vaults, amounts and payments.
THEOREM TokenBooksAgree == Spec => []TokensAccounted
<1>1. Init => TokensAccounted
  <2> SUFFICES ASSUME Init PROVE TokensAccounted
    OBVIOUS
  <2>1. ASSUME NEW k \in Slots
        PROVE  ~IsPending(IssueAt(k)) /\ ~IsPending(RedeemAt(k))
    BY DEF Init, IssueInit, RedeemInit, IssueAt, RedeemAt, IsPending, NoRequest,
           Slots
  <2>2. ASSUME NEW v
        PROVE  SumFunction(ReservedFor(v)) = 0 /\ SumFunction(BurnedBy(v)) = 0
    <3>1. /\ DOMAIN ReservedFor(v) = Slots /\ DOMAIN BurnedBy(v) = Slots
          /\ \A k \in Slots : ReservedFor(v)[k] = 0 /\ BurnedBy(v)[k] = 0
      BY <2>1 DEF ReservedFor, BurnedBy
    <3> QED
      BY <3>1, FiniteIndices, SumZero DEF SumFunction
  <2>3. SumFunction(Escrowed) = 0
    <3>1. /\ DOMAIN Escrowed = Slots
          /\ \A k \in Slots : Escrowed[k] = 0
      BY <2>1 DEF Escrowed
    <3> QED
      BY <3>1, FiniteIndices, SumZero DEF SumFunction
  <2>4. SumFunction(issued) = 0
    <3>1. DOMAIN issued = Vaults /\ \A v \in Vaults : issued[v] = 0
      BY DEF Init, VaultRegistryInit
    <3> QED
      BY <3>1, FiniteIndices, SumZero DEF SumFunction
  <2> QED
    BY <2>2, <2>3, <2>4
    DEF Init, VaultRegistryInit, ERC20Init, Holders, TokensAccounted,
        RedeemWithinIssued, ReservedForPendingIssues,
        ReservedForPendingRedeems, SupplyIsIssued, RedeemsAreEscrowed
<1>2. TypeOK /\ TypeOK' /\ TokensAccounted /\ [Next]_vars => TokensAccounted'
  BY StepKeepsPromises, StepKeepsReserved, StepKeepsBurned, StepKeepsSupply,
     StepKeepsEscrow
  DEF TokensAccounted
<1> QED
  BY <1>1, <1>2, TypeCorrect, PTL DEF Spec

------------------------------------------------------------------------------
\* To the tokens a call does one thing of the ledger's, or nothing

LEMMA LedgerIssueWritten ==
  ASSUME IssueTypeOK, NEW u \in Users, NEW t \in Times, NEW r,
         IssueWritten(u, t, r)
  PROVE  /\ <<u, t>> \in Slots
         /\ LedgerIssues[<<u, t>>] =
              LedgerRequest(issueRequests[u][t], Total(issueRequests[u][t]))
         /\ LedgerIssues'[<<u, t>>] = LedgerRequest(r, Total(r))
         /\ LedgerIssues' =
              [LedgerIssues EXCEPT ![<<u, t>>] = LedgerIssues'[<<u, t>>]]
<1> DEFINE k == <<u, t>>
<1>1. k \in Slots /\ k[1] = u /\ k[2] = t
  BY DEF Slots
<1>2. IssueAt(k) = issueRequests[u][t] /\ IssueAt(k)' = r
  BY DEF IssueAt, IssueTypeOK, IssueWritten
<1>3. ASSUME NEW j \in Slots \ {k} PROVE IssueAt(j)' = IssueAt(j)
  <2>1. j[1] \in Users /\ j[2] \in Times /\ (j[1] # u \/ j[2] # t)
    BY DEF Slots
  <2> QED
    BY <2>1 DEF IssueAt, IssueTypeOK, IssueWritten
<1> HIDE DEF k
<1>4. /\ LedgerIssues[k] =
           LedgerRequest(issueRequests[u][t], Total(issueRequests[u][t]))
      /\ LedgerIssues'[k] = LedgerRequest(r, Total(r))
  BY <1>1, <1>2 DEF LedgerIssues, LedgerRequest, Total
<1>5. \A j \in Slots \ {k} : LedgerIssues'[j] = LedgerIssues[j]
  BY <1>3 DEF LedgerIssues, LedgerRequest, Total
<1>6. /\ LedgerIssues = [j \in Slots |-> LedgerIssues[j]]
      /\ LedgerIssues' = [j \in Slots |-> LedgerIssues'[j]]
  BY DEF LedgerIssues
<1> HIDE DEF LedgerIssues
<1>7. LedgerIssues' = [LedgerIssues EXCEPT ![k] = LedgerIssues'[k]]
  BY <1>1, <1>5, <1>6
<1> QED
  BY <1>1, <1>4, <1>7 DEF k

LEMMA LedgerRedeemWritten ==
  ASSUME RedeemTypeOK, NEW u \in Users, NEW t \in Times, NEW r,
         RedeemWritten(u, t, r)
  PROVE  /\ <<u, t>> \in Slots
         /\ LedgerRedeems[<<u, t>>] =
              LedgerRequest(redeemRequests[u][t], redeemRequests[u][t].amountBtc)
         /\ LedgerRedeems'[<<u, t>>] = LedgerRequest(r, r.amountBtc)
         /\ LedgerRedeems' =
              [LedgerRedeems EXCEPT ![<<u, t>>] = LedgerRedeems'[<<u, t>>]]
<1> DEFINE k == <<u, t>>
<1>1. k \in Slots /\ k[1] = u /\ k[2] = t
  BY DEF Slots
<1>2. RedeemAt(k) = redeemRequests[u][t] /\ RedeemAt(k)' = r
  BY DEF RedeemAt, RedeemTypeOK, RedeemWritten
<1>3. ASSUME NEW j \in Slots \ {k} PROVE RedeemAt(j)' = RedeemAt(j)
  <2>1. j[1] \in Users /\ j[2] \in Times /\ (j[1] # u \/ j[2] # t)
    BY DEF Slots
  <2> QED
    BY <2>1 DEF RedeemAt, RedeemTypeOK, RedeemWritten
<1> HIDE DEF k
<1>4. /\ LedgerRedeems[k] =
           LedgerRequest(redeemRequests[u][t], redeemRequests[u][t].amountBtc)
      /\ LedgerRedeems'[k] = LedgerRequest(r, r.amountBtc)
  BY <1>1, <1>2 DEF LedgerRedeems, LedgerRequest
<1>5. \A j \in Slots \ {k} : LedgerRedeems'[j] = LedgerRedeems[j]
  BY <1>3 DEF LedgerRedeems, LedgerRequest
<1>6. /\ LedgerRedeems = [j \in Slots |-> LedgerRedeems[j]]
      /\ LedgerRedeems' = [j \in Slots |-> LedgerRedeems'[j]]
  BY DEF LedgerRedeems
<1> HIDE DEF LedgerRedeems
<1>7. LedgerRedeems' = [LedgerRedeems EXCEPT ![k] = LedgerRedeems'[k]]
  BY <1>1, <1>5, <1>6
<1> QED
  BY <1>1, <1>4, <1>7 DEF k

\* The ledger's sums are these sums.
LEMMA LedgerSum ==
  ASSUME NEW fun
  PROVE  L!SumFunction(fun) = SumFunction(fun)
  BY Zenon
  DEF SumFunction, SumFunctionOnSet, FoldFunctionOnSet, MapThenFoldSet,
      L!SumFunction, L!SumFunctionOnSet, L!FoldFunctionOnSet, L!MapThenFoldSet

\* What the ledger promises is the sum the code keeps in a counter.
LEMMA LedgerPromises ==
  ASSUME RedeemTypeOK, NEW v
  PROVE  L!Promised(v) = SumFunction(BurnedBy(v))
<1>1. ASSUME NEW k \in Slots
      PROVE  /\ L!IsOpen(LedgerRedeems[k]) <=> IsPending(RedeemAt(k))
             /\ IsPending(RedeemAt(k)) =>
                  /\ LedgerRedeems[k].vault = RedeemAt(k).vault
                  /\ LedgerRedeems[k].amount = RedeemAt(k).amountBtc
  <2>1. LedgerRedeems[k] = LedgerRequest(RedeemAt(k), RedeemAt(k).amountBtc)
    BY DEF LedgerRedeems
  <2> QED
    BY <2>1 DEF LedgerRequest, L!IsOpen, IsPending, NoRequest
<1>2. BurnedBy(v) =
        [k \in Slots |->
           IF L!IsOpen(LedgerRedeems[k]) /\ LedgerRedeems[k].vault = v
           THEN LedgerRedeems[k].amount ELSE 0]
  BY <1>1 DEF BurnedBy
<1> QED
  BY <1>2, LedgerSum DEF L!Promised

LEMMA RequestIssueInLedger ==
  ASSUME TypeOK, NEW u \in Users, NEW v \in Vaults, NEW amount \in IssueAmounts,
         NEW griefing \in GriefingAmounts, RequestIssue(u, amount, v, griefing),
         UNCHANGED redeemRequests
  PROVE  L!Next
<1> DEFINE r == [status |-> "Pending",
                 vault |-> v,
                 btcAddress |-> Derivate(btcPublicKey[v], RequestId(u, now)),
                 amount |-> amount - Fee(amount),
                 fee |-> Fee(amount),
                 griefingCollateral |-> griefing]
           k == <<u, now>>
<1>1. now \in Times /\ IssueTypeOK
  BY DEF TypeOK, HarmonyTypeOK
<1>2. /\ IssueWritten(u, now, r)
      /\ issueRequests[u][now].status = "None"
      /\ UNCHANGED <<issued, tokenVars>>
  BY DEF RequestIssue, IssueWritten
<1>3. /\ r.status = "Pending" /\ r.vault = v /\ Total(r) = amount
  <2>1. amount \in Nat /\ Fee(amount) \in Nat
    BY IssueInputsNat, FeeWithin
  <2> QED
    BY <2>1 DEF Total
<1> HIDE DEF r
<1>4. /\ k \in Slots
      /\ LedgerIssues[k] = NoRequest
      /\ LedgerIssues'[k] = [status |-> "Pending", vault |-> v, amount |-> amount]
      /\ LedgerIssues' = [LedgerIssues EXCEPT ![k] = LedgerIssues'[k]]
  <2>1. /\ k \in Slots
        /\ LedgerIssues[k] = LedgerRequest(issueRequests[u][now],
                                           Total(issueRequests[u][now]))
        /\ LedgerIssues'[k] = LedgerRequest(r, Total(r))
        /\ LedgerIssues' = [LedgerIssues EXCEPT ![k] = LedgerIssues'[k]]
    BY <1>1, <1>2, LedgerIssueWritten
  <2> QED
    BY <1>2, <1>3, <2>1 DEF LedgerRequest
<1>5. UNCHANGED <<LedgerRedeems, issued, totalSupply>>
  BY <1>2 DEF tokenVars, LedgerRedeems, LedgerRequest, RedeemAt
<1>6. amount \in LedgerAmounts
  BY DEF LedgerAmounts
<1> HIDE DEF k
<1>7. L!OpenIssue(k)
  BY <1>4, <1>5, <1>6 DEF L!OpenIssue, L!OpenRequest, L!Unopened, NoRequest
<1>8. LedgerIssues'[k] # LedgerIssues[k]
  BY <1>4 DEF NoRequest
<1> QED
  BY <1>4, <1>7, <1>8 DEF L!Next

LEMMA ExecuteIssueInLedger ==
  ASSUME TypeOK, NEW caller \in Users, NEW u \in Users, NEW t \in Times,
         NEW transferred \in TransferredAmounts,
         ExecuteIssue(caller, u, t, transferred), UNCHANGED redeemRequests
  PROVE  L!Next
<1> DEFINE request == issueRequests[u][t]
           fee == Fee(transferred)
           r == [request EXCEPT !.status = "Completed", !.fee = fee,
                                !.amount = transferred - fee]
           k == <<u, t>>
<1>1. request.status = "Pending" /\ request \in IssueRequest
  BY PendingIssueType DEF ExecuteIssue, TypeOK, IsPending
<1>2. transferred \in Nat /\ fee \in Nat
  BY IssueInputsNat, FeeWithin
<1>3. /\ IssueTypeOK /\ issued \in [Vaults -> Nat] /\ totalSupply \in Nat
  BY DEF TypeOK, VaultRegistryTypeOK, ERC20TypeOK
<1>4. IssueWritten(u, t, r)
  BY DEF ExecuteIssue, IssueWritten
<1>5. /\ issued' = [issued EXCEPT ![request.vault] = @ + transferred]
      /\ totalSupply' = totalSupply + fee + (transferred - fee)
  BY DEF ExecuteIssue, IssueTokens, IssueOneBTC, Mint2
<1> HIDE DEF fee
<1>6. totalSupply' = totalSupply + transferred
  BY <1>2, <1>3, <1>5
<1>7. /\ r.status = "Completed" /\ r.vault = request.vault
      /\ Total(r) = transferred
  <2>1. r.fee = fee /\ r.amount = transferred - fee
    BY <1>1 DEF IssueRequest
  <2>2. Total(r) = transferred
    BY <1>2, <2>1 DEF Total
  <2> QED
    BY <1>1, <2>2 DEF IssueRequest
<1> HIDE DEF r
<1>8. /\ k \in Slots
      /\ LedgerIssues[k] = [status |-> "Pending", vault |-> request.vault,
                            amount |-> Total(request)]
      /\ LedgerIssues'[k] = [status |-> "Completed", vault |-> request.vault,
                             amount |-> transferred]
      /\ LedgerIssues' = [LedgerIssues EXCEPT ![k] = LedgerIssues'[k]]
  BY <1>1, <1>3, <1>4, <1>7, LedgerIssueWritten DEF LedgerRequest
<1>9. UNCHANGED LedgerRedeems
  BY DEF LedgerRedeems, LedgerRequest, RedeemAt
<1>10. transferred \in LedgerAmounts
  BY DEF LedgerAmounts
<1> HIDE DEF k, request
<1>11. L!CompleteIssue(k)
  <2>1. L!IsOpen(LedgerIssues[k]) /\ LedgerIssues[k].vault = request.vault
    BY <1>8 DEF L!IsOpen
  <2>2. LedgerIssues' = [LedgerIssues EXCEPT ![k] =
          [status |-> "Completed", vault |-> LedgerIssues[k].vault,
           amount |-> transferred]]
    BY <1>8, <2>1
  <2> HIDE DEF LedgerIssues
  <2> QED
    BY <1>5, <1>6, <1>9, <1>10, <2>1, <2>2 DEF L!CompleteIssue
<1>12. LedgerIssues'[k] # LedgerIssues[k]
  BY <1>8
<1> QED
  BY <1>8, <1>11, <1>12 DEF L!Next

LEMMA CancelIssueInLedger ==
  ASSUME TypeOK, NEW u \in Users, NEW t \in Times, CancelIssue(u, t),
         UNCHANGED redeemRequests
  PROVE  L!Next
<1> DEFINE request == issueRequests[u][t]
           r == [request EXCEPT !.status = "Cancelled"]
           k == <<u, t>>
<1>1. request.status = "Pending" /\ request \in IssueRequest
  BY PendingIssueType DEF CancelIssue, TypeOK, IsPending
<1>2. /\ IssueTypeOK /\ IssueWritten(u, t, r)
      /\ UNCHANGED <<issued, tokenVars>>
  BY DEF TypeOK, CancelIssue, IssueWritten
<1>3. r.status = "Cancelled" /\ r.vault = request.vault /\ Total(r) = Total(request)
  BY <1>1 DEF IssueRequest, Total
<1> HIDE DEF r
<1>4. /\ k \in Slots
      /\ LedgerIssues[k] = [status |-> "Pending", vault |-> request.vault,
                            amount |-> Total(request)]
      /\ LedgerIssues'[k] = [status |-> "Cancelled", vault |-> request.vault,
                             amount |-> Total(request)]
      /\ LedgerIssues' = [LedgerIssues EXCEPT ![k] = LedgerIssues'[k]]
  BY <1>1, <1>2, <1>3, LedgerIssueWritten DEF LedgerRequest
<1>5. UNCHANGED <<LedgerRedeems, issued, totalSupply>>
  BY <1>2 DEF tokenVars, LedgerRedeems, LedgerRequest, RedeemAt
<1> HIDE DEF k, request
<1>6. LedgerIssues' = [LedgerIssues EXCEPT ![k].status = "Cancelled"]
  <2>1. k \in DOMAIN LedgerIssues
    BY <1>4 DEF LedgerIssues
  <2> QED
    BY <1>4, <2>1
<1>7. L!CancelIssue(k)
  BY <1>4, <1>5, <1>6 DEF L!CancelIssue, L!IsOpen
<1>8. LedgerIssues'[k] # LedgerIssues[k]
  BY <1>4
<1> QED
  BY <1>4, <1>7, <1>8 DEF L!Next

\* The counter the code compares is the ledger's sum.
LEMMA RequestRedeemInLedger ==
  ASSUME TypeOK, ReservedForPendingRedeems, NEW u \in Users, NEW v \in Vaults,
         NEW amount \in RedeemAmounts, RequestRedeem(u, amount, v),
         UNCHANGED issueRequests
  PROVE  L!Next
<1> DEFINE burned == amount - Fee(amount)
           r == [status |-> "Pending", vault |-> v,
                 amountBtc |-> burned, fee |-> Fee(amount)]
           k == <<u, now>>
<1>1. now \in Times /\ RedeemTypeOK
  BY DEF TypeOK, HarmonyTypeOK
<1>2. /\ RedeemWritten(u, now, r)
      /\ redeemRequests[u][now].status = "None"
      /\ burned <= issued[v] - toBeRedeemed[v]
      /\ UNCHANGED <<issued, totalSupply>>
  BY DEF RequestRedeem, RedeemWritten, RedeemableTokens, LockOneBTC, Transfer
<1>3. r.status = "Pending" /\ r.vault = v /\ r.amountBtc = burned
  OBVIOUS
<1>4. burned \in Nat /\ burned \in LedgerAmounts
  BY RedeemInputs, FeeWithin DEF LedgerAmounts
<1> HIDE DEF r, burned
<1>5. /\ k \in Slots
      /\ LedgerRedeems[k] = NoRequest
      /\ LedgerRedeems'[k] = [status |-> "Pending", vault |-> v, amount |-> burned]
      /\ LedgerRedeems' = [LedgerRedeems EXCEPT ![k] = LedgerRedeems'[k]]
  <2>1. /\ k \in Slots
        /\ LedgerRedeems[k] = LedgerRequest(redeemRequests[u][now],
                                            redeemRequests[u][now].amountBtc)
        /\ LedgerRedeems'[k] = LedgerRequest(r, r.amountBtc)
        /\ LedgerRedeems' = [LedgerRedeems EXCEPT ![k] = LedgerRedeems'[k]]
    BY <1>1, <1>2, LedgerRedeemWritten
  <2> QED
    BY <1>2, <1>3, <2>1 DEF LedgerRequest
<1>6. UNCHANGED <<LedgerIssues, issued, totalSupply>>
  BY <1>2 DEF LedgerIssues, LedgerRequest, IssueAt, Total
<1>7. L!Promised(v) + burned <= issued[v]
  <2>1. L!Promised(v) = toBeRedeemed[v]
    BY <1>1, LedgerPromises DEF ReservedForPendingRedeems
  <2>2. toBeRedeemed[v] \in Nat /\ issued[v] \in Nat
    BY DEF TypeOK, VaultRegistryTypeOK
  <2> QED
    BY <1>2, <1>4, <2>1, <2>2
<1> HIDE DEF k
<1>8. L!OpenRedeem(k)
  BY <1>4, <1>5, <1>6, <1>7
  DEF L!OpenRedeem, L!OpenRequest, L!Unopened, NoRequest
<1>9. LedgerRedeems'[k] # LedgerRedeems[k]
  BY <1>5 DEF NoRequest
<1> QED
  BY <1>5, <1>8, <1>9 DEF L!Next

LEMMA ExecuteRedeemInLedger ==
  ASSUME TypeOK, NEW u \in Users, NEW t \in Times, ExecuteRedeem(u, t),
         UNCHANGED issueRequests
  PROVE  L!Next
<1> DEFINE request == redeemRequests[u][t]
           r == [request EXCEPT !.status = "Completed"]
           k == <<u, t>>
<1>1. request.status = "Pending" /\ request \in RedeemRequest
  BY PendingRedeemType DEF ExecuteRedeem, TypeOK, IsPending
<1>2. /\ RedeemTypeOK /\ RedeemWritten(u, t, r)
      /\ issued' = [issued EXCEPT ![request.vault] = @ - request.amountBtc]
      /\ totalSupply' = totalSupply - request.amountBtc
  BY DEF TypeOK, ExecuteRedeem, RedeemWritten, RedeemTokens,
         BurnAndReleaseLocked
<1>3. /\ r.status = "Completed" /\ r.vault = request.vault
      /\ r.amountBtc = request.amountBtc
  BY <1>1 DEF RedeemRequest
<1> HIDE DEF r
<1>4. /\ k \in Slots
      /\ LedgerRedeems[k] = [status |-> "Pending", vault |-> request.vault,
                             amount |-> request.amountBtc]
      /\ LedgerRedeems'[k] = [status |-> "Completed", vault |-> request.vault,
                              amount |-> request.amountBtc]
      /\ LedgerRedeems' = [LedgerRedeems EXCEPT ![k] = LedgerRedeems'[k]]
  BY <1>1, <1>2, <1>3, LedgerRedeemWritten DEF LedgerRequest
<1>5. UNCHANGED LedgerIssues
  BY DEF LedgerIssues, LedgerRequest, IssueAt, Total
<1> HIDE DEF k, request
<1>6. LedgerRedeems' = [LedgerRedeems EXCEPT ![k].status = "Completed"]
  <2>1. k \in DOMAIN LedgerRedeems
    BY <1>4 DEF LedgerRedeems
  <2> QED
    BY <1>4, <2>1
<1>7. L!CompleteRedeem(k)
  BY <1>2, <1>4, <1>5, <1>6 DEF L!CompleteRedeem, L!IsOpen
<1>8. LedgerRedeems'[k] # LedgerRedeems[k]
  BY <1>4
<1> QED
  BY <1>4, <1>7, <1>8 DEF L!Next

LEMMA CancelRedeemInLedger ==
  ASSUME TypeOK, NEW u \in Users, NEW t \in Times, NEW reimburse \in BOOLEAN,
         CancelRedeem(u, t, reimburse), UNCHANGED issueRequests
  PROVE  L!Next
<1> DEFINE request == redeemRequests[u][t]
           r == [request EXCEPT !.status = "Cancelled"]
           k == <<u, t>>
<1>1. request.status = "Pending" /\ request \in RedeemRequest
  BY PendingRedeemType DEF CancelRedeem, TypeOK, IsPending
<1>2. RedeemTypeOK /\ RedeemWritten(u, t, r)
  BY DEF TypeOK, CancelRedeem, RedeemWritten
<1>3. /\ r.status = "Cancelled" /\ r.vault = request.vault
      /\ r.amountBtc = request.amountBtc
  BY <1>1 DEF RedeemRequest
<1> HIDE DEF r
<1>4. /\ k \in Slots
      /\ LedgerRedeems[k] = [status |-> "Pending", vault |-> request.vault,
                             amount |-> request.amountBtc]
      /\ LedgerRedeems'[k] = [status |-> "Cancelled", vault |-> request.vault,
                              amount |-> request.amountBtc]
      /\ LedgerRedeems' = [LedgerRedeems EXCEPT ![k] = LedgerRedeems'[k]]
  BY <1>1, <1>2, <1>3, LedgerRedeemWritten DEF LedgerRequest
<1>5. UNCHANGED <<LedgerIssues, issued, totalSupply>>
  BY CancelRedeemBooks DEF LedgerIssues, LedgerRequest, IssueAt, Total
<1> HIDE DEF k, request
<1>6. LedgerRedeems' = [LedgerRedeems EXCEPT ![k].status = "Cancelled"]
  <2>1. k \in DOMAIN LedgerRedeems
    BY <1>4 DEF LedgerRedeems
  <2> QED
    BY <1>4, <2>1
<1>7. L!CancelRedeem(k)
  BY <1>4, <1>5, <1>6 DEF L!CancelRedeem, L!IsOpen
<1>8. LedgerRedeems'[k] # LedgerRedeems[k]
  BY <1>4
<1> QED
  BY <1>4, <1>7, <1>8 DEF L!Next

LEMMA StepInLedger ==
  TypeOK /\ ReservedForPendingRedeems /\ [Next]_vars => [L!Next]_(L!vars)
<1> SUFFICES ASSUME TypeOK, ReservedForPendingRedeems, [Next]_vars
             PROVE  L!Next \/ UNCHANGED L!vars
  OBVIOUS
<1>1. HarmonyTypeOK
  BY DEF TypeOK
<1>2. CASE UNCHANGED <<issueRequests, redeemRequests, issued, totalSupply>>
  BY <1>2
  DEF L!vars, LedgerIssues, LedgerRedeems, LedgerRequest, IssueAt, RedeemAt,
      Total
<1>3. ASSUME VaultRegistryNext PROVE UNCHANGED issued
  BY <1>3, RegistryBooks DEF tokenDebtVars
<1>4. ASSUME TokenNext PROVE UNCHANGED totalSupply
  BY <1>4 DEF TokenNext, Transfer, TransferToClaim
<1>5. CASE UNCHANGED vars
  BY <1>2, <1>5 DEF vars, vaultVars, tokenVars
<1>6. CASE Next
  BY <1>1, <1>2, <1>3, <1>4, <1>6, NextCases, RequestIssueInLedger,
     ExecuteIssueInLedger, CancelIssueInLedger, RequestRedeemInLedger,
     ExecuteRedeemInLedger, CancelRedeemInLedger
  DEF vaultVars, tokenVars, bridgeVars
<1> QED
  BY <1>5, <1>6

\* The whole bridge implements the ledger of its tokens: whatever is called, in
\* whatever order, at any rates, with any amounts, payments, withdrawals and
\* reimbursements, to the tokens each call opens, completes or cancels one
\* request of the ledger, or does nothing.  The step that opens a redeem
\* request needs the books to agree: the ledger asks for the sum of the open
\* promises, of which the code keeps only a counter.
THEOREM ImplementsLedger == Spec => LedgerImplemented
<1>1. Init => L!Init
  <2> SUFFICES ASSUME Init PROVE L!Init
    OBVIOUS
  <2>1. ASSUME NEW k \in Slots
        PROVE  IssueAt(k) = NoRequest /\ RedeemAt(k) = NoRequest
    BY DEF Init, IssueInit, RedeemInit, IssueAt, RedeemAt, Slots
  <2>2. /\ LedgerIssues = [k \in Slots |-> NoRequest]
        /\ LedgerRedeems = [k \in Slots |-> NoRequest]
    BY <2>1 DEF LedgerIssues, LedgerRedeems, LedgerRequest, NoRequest
  <2> QED
    BY <2>2 DEF Init, VaultRegistryInit, ERC20Init, L!Init, L!Unopened, NoRequest
<1>2. TokensAccounted => ReservedForPendingRedeems
  BY DEF TokensAccounted
<1> QED
  BY <1>1, <1>2, StepInLedger, TypeCorrect, TokenBooksAgree, PTL
  DEF Spec, LedgerImplemented, L!Spec

------------------------------------------------------------------------------
\* The books hold what settling a request asks

LEMMA IssueBooksSettle ==
  ASSUME TypeOK, CollateralIsHeld, ReservedForPendingIssues,
         NEW k \in PendingIssues, k[1] \notin Vaults
  PROVE  IssueSettleable(k)
<1> DEFINE u == k[1]
           request == IssueAt(k)
           v == request.vault
<1>1. /\ k \in Slots /\ IsPending(request)
      /\ u \in Users \ Vaults /\ u \in Accounts
  BY UsersAreAccounts DEF PendingIssues, Slots, IsPending, IssueAt
<1>2. /\ request \in IssueRequest
      /\ HarmonyTypeOK /\ IssueTypeOK
      /\ CollateralBalances \in [Accounts -> Nat]
  BY <1>1, PendingIssueType DEF TypeOK, CollateralTypeOK, Slots, IssueAt
<1>3. v \in Vaults /\ request.griefingCollateral \in Nat /\ Total(request) \in Nat
  BY <1>2 DEF IssueRequest, Total
<1>4. /\ GriefingOf(u)[k] = request.griefingCollateral
      /\ ReservedFor(v)[k] = Total(request)
  BY <1>1 DEF GriefingOf, ReservedFor
<1>5. /\ GriefingOf(u) \in [Slots -> Nat] /\ ReservedFor(v) \in [Slots -> Nat]
  BY <1>2, IssueBookTypes
<1>6. /\ CollateralUsed[u] = 0
      /\ CollateralBalances[u] = SumFunction(GriefingOf(u))
      /\ balance[This] = SumFunction(CollateralBalances)
      /\ toBeIssued[v] = SumFunction(ReservedFor(v))
  BY <1>1, <1>3
  DEF CollateralIsHeld, GriefingIsHeld, ReservedForPendingIssues
<1> HIDE DEF u, v, request
<1>7. /\ CollateralBalances[u] \in Nat
      /\ CollateralBalances[u] >= request.griefingCollateral
  BY <1>1, <1>3, <1>4, <1>5, <1>6, FiniteIndices, SumBounds
<1>8. balance[This] >= CollateralBalances[u] /\ balance[This] \in Nat
  BY <1>1, <1>2, <1>6, AccountsFinite, SumBounds
<1>9. toBeIssued[v] >= Total(request)
  BY <1>1, <1>3, <1>4, <1>5, <1>6, FiniteIndices, SumBounds
<1>10. /\ CollateralBalances[u] - CollateralUsed[u] >= request.griefingCollateral
       /\ balance[This] >= request.griefingCollateral
  BY <1>3, <1>6, <1>7, <1>8
<1> QED
  BY <1>9, <1>10 DEF IssueSettleable, FreeCollateral, u, v, request

LEMMA RedeemBooksSettle ==
  ASSUME TypeOK, TokensAccounted, NEW k \in PendingRedeems
  PROVE  RedeemSettleable(k)
<1> DEFINE request == RedeemAt(k)
           v == request.vault
<1>1. /\ k \in Slots /\ k[1] \in Users /\ k[2] \in Times /\ IsPending(request)
  BY DEF PendingRedeems, Slots, IsPending, RedeemAt
<1>2. /\ request \in RedeemRequest
      /\ RedeemTypeOK
      /\ tokens[This] \in Nat /\ totalSupply \in Nat
      /\ issued \in [Vaults -> Nat] /\ toBeRedeemed \in [Vaults -> Nat]
  BY <1>1, PendingRedeemType
  DEF TypeOK, RedeemAt, ERC20TypeOK, Holders, VaultRegistryTypeOK
<1>3. v \in Vaults /\ request.amountBtc \in Nat /\ request.fee \in Nat
  BY <1>2 DEF RedeemRequest
<1>4. /\ BurnedBy(v)[k] = request.amountBtc
      /\ Escrowed[k] = request.amountBtc + request.fee
  BY <1>1 DEF BurnedBy, Escrowed
<1>5. BurnedBy(v) \in [Slots -> Nat] /\ Escrowed \in [Slots -> Nat]
  BY <1>2, RedeemBookTypes
<1>6. /\ toBeRedeemed[v] = SumFunction(BurnedBy(v))
      /\ tokens[This] >= SumFunction(Escrowed)
      /\ totalSupply = SumFunction(issued)
      /\ toBeRedeemed[v] <= issued[v]
  BY <1>3
  DEF TokensAccounted, ReservedForPendingRedeems, RedeemsAreEscrowed,
      SupplyIsIssued, RedeemWithinIssued
<1> HIDE DEF v, request
<1>7. toBeRedeemed[v] >= request.amountBtc
  BY <1>1, <1>3, <1>4, <1>5, <1>6, FiniteIndices, SumBounds
<1>8. tokens[This] >= request.amountBtc + request.fee
  <2>1. /\ SumFunction(Escrowed) \in Nat
        /\ SumFunction(Escrowed) >= request.amountBtc + request.fee
    BY <1>1, <1>3, <1>4, <1>5, FiniteIndices, SumBounds
  <2> QED
    BY <1>2, <1>3, <1>6, <2>1
<1>9. totalSupply >= issued[v]
  BY <1>2, <1>3, <1>6, FiniteIndices, SumBounds
<1>10. issued[v] >= request.amountBtc /\ totalSupply >= request.amountBtc
  BY <1>2, <1>3, <1>6, <1>7, <1>9
<1> QED
  BY <1>7, <1>8, <1>10 DEF RedeemSettleable, v, request

\* Settling any one pending request never fails for want of collateral, ONE,
\* reserved, issued or locked tokens that other requests took: for any users,
\* vaults, amounts, payments and rates.
THEOREM SettlingIsCovered == Spec => []BooksSettleRequests
<1>1. TypeOK /\ CollateralIsHeld /\ TokensAccounted => BooksSettleRequests
  BY IssueBooksSettle, RedeemBooksSettle
  DEF BooksSettleRequests, TokensAccounted
<1> QED
  BY <1>1, TypeCorrect, CollateralHeld, TokenBooksAgree, PTL

------------------------------------------------------------------------------
\* No two requests share a deposit address

\* The address of a request tells whose it is and when it was opened.
AddressOfItsRequest ==
  \A u \in Users, t \in Times :
    issueRequests[u][t] # NoRequest =>
      \E key : issueRequests[u][t].btcAddress = Derivate(key, RequestId(u, t))

LEMMA StepKeepsAddresses ==
  ASSUME TypeOK, AddressOfItsRequest, [Next]_vars
  PROVE  AddressOfItsRequest'
<1>1. HarmonyTypeOK /\ IssueTypeOK
  BY DEF TypeOK
<1>2. CASE UNCHANGED issueRequests
  BY <1>2 DEF AddressOfItsRequest, Derivate, RequestId
<1>3. ASSUME NEW u \in Users, NEW t \in Times, NEW r, NEW key,
             IssueWritten(u, t, r),
             r.btcAddress = Derivate(key, RequestId(u, t))
      PROVE  AddressOfItsRequest'
  <2> SUFFICES ASSUME NEW x \in Users, NEW y \in Times,
                      issueRequests'[x][y] # NoRequest
               PROVE  \E kk : issueRequests'[x][y].btcAddress
                                = Derivate(kk, RequestId(x, y))
    BY DEF AddressOfItsRequest, Derivate, RequestId
  <2>1. CASE x = u /\ y = t
    <3>1. issueRequests'[x][y] = r
      BY <1>1, <1>3, <2>1 DEF IssueWritten, IssueTypeOK
    <3> QED
      BY <1>3, <2>1, <3>1
  <2>2. CASE ~(x = u /\ y = t)
    <3>1. issueRequests'[x][y] = issueRequests[x][y]
      BY <1>1, <1>3, <2>2 DEF IssueWritten, IssueTypeOK
    <3> QED
      BY <3>1 DEF AddressOfItsRequest
  <2> QED
    BY <2>1, <2>2
<1>4. ASSUME NEW u \in Users, NEW v \in Vaults, NEW amount, NEW griefing,
             RequestIssue(u, amount, v, griefing)
      PROVE  AddressOfItsRequest'
  <2> DEFINE r == [status |-> "Pending",
                   vault |-> v,
                   btcAddress |-> Derivate(btcPublicKey[v], RequestId(u, now)),
                   amount |-> amount - Fee(amount),
                   fee |-> Fee(amount),
                   griefingCollateral |-> griefing]
  <2>1. IssueWritten(u, now, r)
    BY <1>4 DEF RequestIssue, IssueWritten
  <2>2. r.btcAddress = Derivate(btcPublicKey[v], RequestId(u, now))
    OBVIOUS
  <2> HIDE DEF r
  <2> QED
    BY <1>1, <1>3, <2>1, <2>2 DEF HarmonyTypeOK
<1>5. ASSUME NEW u \in Users, NEW t \in Times, NEW r,
             issueRequests[u][t] # NoRequest, IssueWritten(u, t, r),
             r.btcAddress = issueRequests[u][t].btcAddress
      PROVE  AddressOfItsRequest'
  <2>1. PICK key : issueRequests[u][t].btcAddress = Derivate(key, RequestId(u, t))
    BY <1>5 DEF AddressOfItsRequest
  <2> QED
    BY <1>3, <1>5, <2>1
<1>6. ASSUME NEW u \in Users, NEW t \in Times,
             IsPending(issueRequests[u][t]),
             \/ issueRequests' =
                  [issueRequests EXCEPT ![u][t].status = "Cancelled"]
             \/ \E fee, amount :
                  issueRequests' = [issueRequests EXCEPT ![u][t] =
                    [issueRequests[u][t] EXCEPT !.status = "Completed",
                                                !.fee = fee,
                                                !.amount = amount]]
      PROVE  AddressOfItsRequest'
  <2>1. issueRequests[u][t] \in IssueRequest
    BY <1>1, <1>6, PendingIssueType
  <2>2. issueRequests[u][t] # NoRequest
    <3>1. ~IsPending(NoRequest)
      BY DEF IsPending, NoRequest
    <3> QED
      BY <1>6, <3>1, Zenon
  <2>3. CASE issueRequests' =
               [issueRequests EXCEPT ![u][t].status = "Cancelled"]
    <3> DEFINE r == [issueRequests[u][t] EXCEPT !.status = "Cancelled"]
    <3>1. IssueWritten(u, t, r)
      BY <2>3 DEF IssueWritten
    <3>2. r.btcAddress = issueRequests[u][t].btcAddress
      BY <2>1 DEF IssueRequest
    <3> HIDE DEF r
    <3> QED
      BY <1>5, <2>2, <3>1, <3>2
  <2>4. ASSUME NEW fee, NEW amount,
               issueRequests' = [issueRequests EXCEPT ![u][t] =
                 [issueRequests[u][t] EXCEPT !.status = "Completed",
                                             !.fee = fee, !.amount = amount]]
        PROVE  AddressOfItsRequest'
    <3> DEFINE r == [issueRequests[u][t] EXCEPT !.status = "Completed",
                                             !.fee = fee, !.amount = amount]
    <3>1. IssueWritten(u, t, r)
      BY <2>4 DEF IssueWritten
    <3>2. r.btcAddress = issueRequests[u][t].btcAddress
      BY <2>1 DEF IssueRequest
    <3> HIDE DEF r
    <3> QED
      BY <1>5, <2>2, <3>1, <3>2
  <2> QED
    BY <1>6, <2>3, <2>4
<1>7. ASSUME NEW u \in Users, NEW t \in Times, CancelIssue(u, t)
      PROVE  AddressOfItsRequest'
  BY <1>6, <1>7 DEF CancelIssue
<1>8. ASSUME NEW caller, NEW u \in Users, NEW t \in Times, NEW transferred,
             ExecuteIssue(caller, u, t, transferred)
      PROVE  AddressOfItsRequest'
  <2> DEFINE f == Fee(transferred)
             a == transferred - Fee(transferred)
  <2>1. issueRequests' = [issueRequests EXCEPT ![u][t] =
          [issueRequests[u][t] EXCEPT !.status = "Completed",
                                      !.fee = f, !.amount = a]]
    BY <1>8 DEF ExecuteIssue
  <2>2. IsPending(issueRequests[u][t])
    BY <1>8 DEF ExecuteIssue
  <2> HIDE DEF f, a
  <2> QED
    BY <1>6, <2>1, <2>2
<1> QED
  BY <1>1, <1>2, <1>4, <1>7, <1>8, NextCases DEF vars, bridgeVars

\* However many requests are open at once, of whichever vaults and keys, and
\* whatever keys vaults change to: two requests never share an address.
THEOREM AddressesNeverShared == Spec => []DepositAddressesDistinct
<1>1. Init => AddressOfItsRequest
  BY DEF Init, IssueInit, AddressOfItsRequest
<1>2. TypeOK /\ AddressOfItsRequest /\ [Next]_vars => AddressOfItsRequest'
  BY StepKeepsAddresses
<1>3. AddressOfItsRequest => DepositAddressesDistinct
  <2> SUFFICES ASSUME AddressOfItsRequest,
                      NEW j \in Slots, IssueAt(j) # NoRequest,
                      NEW k \in Slots, IssueAt(k) # NoRequest,
                      IssueAt(j).btcAddress = IssueAt(k).btcAddress
               PROVE  j = k
    BY DEF DepositAddressesDistinct
  <2>1. /\ j = <<j[1], j[2]>> /\ j[1] \in Users /\ j[2] \in Times
        /\ k = <<k[1], k[2]>> /\ k[1] \in Users /\ k[2] \in Times
    BY DEF Slots
  <2>2. PICK a : IssueAt(j).btcAddress = <<a, <<j[1], j[2]>>>>
    BY <2>1 DEF AddressOfItsRequest, IssueAt, Derivate, RequestId
  <2>3. PICK b : IssueAt(k).btcAddress = <<b, <<k[1], k[2]>>>>
    BY <2>1 DEF AddressOfItsRequest, IssueAt, Derivate, RequestId
  <2> QED
    <3>1. <<a, <<j[1], j[2]>>>> = <<b, <<k[1], k[2]>>>>
      BY <2>2, <2>3
    <3>2. j[1] = k[1] /\ j[2] = k[2]
      BY <3>1
    <3> QED
      BY <2>1, <3>2, Zenon
<1> QED
  BY <1>1, <1>2, <1>3, TypeCorrect, PTL DEF Spec

------------------------------------------------------------------------------
\* The registry's record of a vault's collateral

\* Settling or opening an issue request moves none of a vault's collateral.
LEMMA IssuesMoveRequesters ==
  ASSUME TypeOK, NEW w \in Vaults \ Users, NEW u \in Users,
         \/ \E v, amount, griefing : RequestIssue(u, amount, v, griefing)
         \/ \E t \in Times, caller \in Users, transferred \in TransferredAmounts :
              ExecuteIssue(caller, u, t, transferred)
         \/ \E t \in Times : CancelIssue(u, t)
  PROVE  /\ UNCHANGED collateral
         /\ CollateralBalances'[w] = CollateralBalances[w]
<1>1. CollateralBalances \in [Accounts -> Nat] /\ w \in Accounts
  BY VaultsAreAccounts DEF TypeOK, CollateralTypeOK
<1>2. ASSUME NEW v, NEW amount, NEW griefing,
             RequestIssue(u, amount, v, griefing)
      PROVE  UNCHANGED collateral /\ CollateralBalances'[w] = CollateralBalances[w]
  BY <1>1, <1>2 DEF RequestIssue, LockCollateral
<1>3. ASSUME NEW t \in Times, NEW caller \in Users,
             NEW transferred \in TransferredAmounts,
             ExecuteIssue(caller, u, t, transferred)
      PROVE  UNCHANGED collateral /\ CollateralBalances'[w] = CollateralBalances[w]
  <2>1. UNCHANGED collateral
    BY <1>3 DEF ExecuteIssue
  <2> QED
    BY <1>1, <1>3, <2>1, SettlingFreesGriefing
<1>4. ASSUME NEW t \in Times, CancelIssue(u, t)
      PROVE  UNCHANGED collateral /\ CollateralBalances'[w] = CollateralBalances[w]
  <2>1. UNCHANGED collateral
    BY <1>4 DEF CancelIssue
  <2> QED
    BY <1>1, <1>4, <2>1, SettlingFreesGriefing
<1> QED
  BY <1>2, <1>3, <1>4

\* What a vault locks and withdraws is recorded as it is moved.
LEMMA RegistryRecords ==
  ASSUME TypeOK, NEW w \in Vaults, VaultRegistryNext
  PROVE  collateral'[w] - collateral[w]
           = CollateralBalances'[w] - CollateralBalances[w]
<1>1. /\ CollateralBalances \in [Accounts -> Nat] /\ collateral \in [Vaults -> Nat]
      /\ Vaults \subseteq Accounts
  BY VaultsAreAccounts DEF TypeOK, CollateralTypeOK, VaultRegistryTypeOK
<1>2. ASSUME NEW v \in Vaults, NEW payer, NEW amount \in Nat,
             AddCollateral(payer, v, amount)
      PROVE  collateral'[w] - collateral[w]
               = CollateralBalances'[w] - CollateralBalances[w]
  BY <1>1, <1>2 DEF AddCollateral, LockCollateral
<1>3. ASSUME NEW v \in Vaults, NEW amount \in OneAmounts,
             WithdrawCollateral(v, amount)
      PROVE  collateral'[w] - collateral[w]
               = CollateralBalances'[w] - CollateralBalances[w]
  <2>1. /\ collateral' = [collateral EXCEPT ![v] = @ - amount]
        /\ CollateralBalances' = [CollateralBalances EXCEPT ![v] = @ - (amount + 0)]
        /\ amount \in Nat
    BY <1>3, OneAmountsNat DEF WithdrawCollateral, Release, Release2
  <2> QED
    BY <1>1, <2>1
<1>4. CASE UNCHANGED <<collateral, CollateralBalances>>
  BY <1>1, <1>4
<1> QED
  BY <1>2, <1>3, <1>4, OneAmountsNat
  DEF VaultRegistryNext, RegisterVault, LockAdditionalCollateral,
      LockAdditionalCollateralFromVaultReward, UpdatePublicKey,
      ExtendVaultLockPeriod, collateralVars

\* A reimbursement is taken from what is held, and not from the record.
LEMMA CancelRedeemRecords ==
  ASSUME TypeOK, NEW u \in Users, NEW t \in Times, NEW reimburse \in BOOLEAN,
         CancelRedeem(u, t, reimburse)
  PROVE  RecordFollowsCollateralStep
<1> DEFINE request == redeemRequests[u][t]
           k == <<u, t>>
           total == request.amountBtc + request.fee
<1>1. request.status = "Pending" /\ request \in RedeemRequest
  BY PendingRedeemType DEF CancelRedeem, TypeOK, IsPending
<1>2. /\ request.vault \in Vaults /\ total \in Nat
      /\ CollateralTypeOK /\ OracleTypeOK /\ HarmonyTypeOK
      /\ collateral \in [Vaults -> Nat]
  BY <1>1 DEF RedeemRequest, TypeOK, VaultRegistryTypeOK
<1>3. redeemRequests'[u][t].status = "Cancelled"
  BY <1>1 DEF CancelRedeem, RedeemRequest, TypeOK, RedeemTypeOK
<1>4. /\ k \in PendingRedeems /\ k[1] = u
      /\ RedeemAt(k).vault = request.vault /\ RedeemAt(k).status' = "Cancelled"
  BY <1>1, <1>3 DEF PendingRedeems, Slots, RedeemAt
<1>5. UNCHANGED collateral
  BY DEF CancelRedeem
<1>6. CASE ReturnTokens(u, total)
  BY <1>2, <1>5, <1>6, VaultsAreAccounts
  DEF ReturnTokens, RecordFollowsCollateralStep, collateralVars, CollateralTypeOK
<1>7. CASE Reimburse(u, request.vault, total)
  <2> DEFINE p == Punished(total)
  <2>1. p \in Nat
    BY <1>2, <1>7, PunishedNat DEF Reimburse
  <2>2. /\ CollateralBalances' =
             [CollateralBalances EXCEPT ![request.vault] = @ - (p + 0)]
        /\ balance' = [balance EXCEPT ![This] = @ - (p + 0),
                                      ![u] = @ + p, ![u] = @ + 0]
    BY <1>7 DEF Reimburse, Release, Release2, PayOut
  <2>3. /\ balance \in [Addresses -> Nat] /\ u \in Addresses /\ u # This
        /\ CollateralBalances \in [Accounts -> Nat]
    BY <1>2, AccountsAreAddresses, UsersAreAccounts, AddressesDistinct
    DEF HarmonyTypeOK, CollateralTypeOK
  <2> HIDE DEF p, k, request
  <2>4. balance'[u] - balance[u] = p
    BY <2>1, <2>2, <2>3
  <2>5. ASSUME NEW v \in Vaults \ Users, v # request.vault
        PROVE  collateral'[v] - collateral[v]
                 = CollateralBalances'[v] - CollateralBalances[v]
    BY <1>2, <1>5, <2>1, <2>2, <2>3, <2>5, VaultsAreAccounts
  <2>6. LET v == request.vault
        IN  /\ CollateralBalances'[v] <= CollateralBalances[v]
            /\ CollateralBalances[v] - CollateralBalances'[v] = p
    BY <1>2, <2>1, <2>2, <2>3, VaultsAreAccounts
  <2> QED
    BY <1>4, <1>5, <2>4, <2>5, <2>6 DEF RecordFollowsCollateralStep
<1> QED
  BY <1>6, <1>7 DEF CancelRedeem

LEMMA NextRecords == TypeOK /\ [Next]_vars => [RecordFollowsCollateralStep]_vars
<1> SUFFICES ASSUME TypeOK, Next PROVE RecordFollowsCollateralStep
  OBVIOUS
<1>1. /\ CollateralBalances \in [Accounts -> Nat] /\ collateral \in [Vaults -> Nat]
      /\ Vaults \subseteq Accounts
  BY VaultsAreAccounts DEF TypeOK, CollateralTypeOK, VaultRegistryTypeOK
<1>2. CASE UNCHANGED <<collateral, CollateralBalances>>
  BY <1>1, <1>2 DEF RecordFollowsCollateralStep
<1>3. CASE VaultRegistryNext
  BY <1>3, RegistryRecords DEF RecordFollowsCollateralStep
<1>4. ASSUME NEW u \in Users,
             \/ \E v, amount, griefing : RequestIssue(u, amount, v, griefing)
             \/ \E t \in Times, caller \in Users,
                   transferred \in TransferredAmounts :
                  ExecuteIssue(caller, u, t, transferred)
             \/ \E t \in Times : CancelIssue(u, t)
      PROVE  RecordFollowsCollateralStep
  <2> SUFFICES ASSUME NEW w \in Vaults \ Users
               PROVE  collateral'[w] - collateral[w]
                        = CollateralBalances'[w] - CollateralBalances[w]
    BY DEF RecordFollowsCollateralStep
  <2>1. UNCHANGED collateral /\ CollateralBalances'[w] = CollateralBalances[w]
    BY <1>4, IssuesMoveRequesters
  <2> QED
    BY <1>1, <2>1
<1>5. CASE \/ \E u \in Users, v \in Vaults, amount \in RedeemAmounts :
                RequestRedeem(u, amount, v)
           \/ \E u \in Users, t \in Times : ExecuteRedeem(u, t)
  BY <1>2, <1>5 DEF RequestRedeem, ExecuteRedeem, collateralVars
<1>6. CASE \E u \in Users, t \in Times, reimburse \in BOOLEAN :
             CancelRedeem(u, t, reimburse)
  BY <1>6, CancelRedeemRecords
<1>7. CASE UNCHANGED <<collateralVars, vaultVars>> \/ UNCHANGED bridgeVars
  BY <1>2, <1>7 DEF collateralVars, vaultVars, bridgeVars
<1>8. HarmonyTypeOK
  BY DEF TypeOK
<1> QED
  BY <1>2, <1>3, <1>4, <1>5, <1>6, <1>7, <1>8, NextCases

\* Whatever is locked, withdrawn, requested, paid, cancelled and reimbursed, by
\* whomever and at whatever rates: the registry's record of a vault's
\* collateral, which rewards are paid on, moves with what the contract holds
\* for it, and only reimbursements of its redeem requests part the two.
THEOREM RecordsFollow == Spec => RecordFollowsCollateral
  BY NextRecords, TypeCorrect, PTL DEF Spec, RecordFollowsCollateral

------------------------------------------------------------------------------
\* The registry's record and the lock, as VaultReward relies on them

\* Issuing and redeeming touch neither the record nor the lock nor the key.
LEMMA RequestsLeaveRecords ==
  ASSUME \/ \E u, v, amount, griefing : RequestIssue(u, amount, v, griefing)
         \/ \E caller, u, t, transferred : ExecuteIssue(caller, u, t, transferred)
         \/ \E u, t : CancelIssue(u, t)
         \/ \E u, v, amount : RequestRedeem(u, amount, v)
         \/ \E u, t : ExecuteRedeem(u, t)
         \/ \E u, t, reimburse : CancelRedeem(u, t, reimburse)
  PROVE  UNCHANGED <<btcPublicKey, collateral, lockExpireAt>>
<1>1. ASSUME NEW u, NEW v, NEW amount, NEW griefing,
             RequestIssue(u, amount, v, griefing)
      PROVE  UNCHANGED <<btcPublicKey, collateral, lockExpireAt>>
  BY <1>1 DEF RequestIssue
<1>2. ASSUME NEW caller, NEW u, NEW t, NEW transferred,
             ExecuteIssue(caller, u, t, transferred)
      PROVE  UNCHANGED <<btcPublicKey, collateral, lockExpireAt>>
  BY <1>2 DEF ExecuteIssue
<1>3. ASSUME NEW u, NEW t, CancelIssue(u, t)
      PROVE  UNCHANGED <<btcPublicKey, collateral, lockExpireAt>>
  BY <1>3 DEF CancelIssue
<1>4. ASSUME NEW u, NEW v, NEW amount, RequestRedeem(u, amount, v)
      PROVE  UNCHANGED <<btcPublicKey, collateral, lockExpireAt>>
  BY <1>4 DEF RequestRedeem
<1>5. ASSUME NEW u, NEW t, ExecuteRedeem(u, t)
      PROVE  UNCHANGED <<btcPublicKey, collateral, lockExpireAt>>
  BY <1>5 DEF ExecuteRedeem
<1>6. ASSUME NEW u, NEW t, NEW reimburse, CancelRedeem(u, t, reimburse)
      PROVE  UNCHANGED <<btcPublicKey, collateral, lockExpireAt>>
  BY <1>6 DEF CancelRedeem
<1> QED
  BY <1>1, <1>2, <1>3, <1>4, <1>5, <1>6

\* A call of the registry is one step of the interface, or none: a new key
\* for a registered vault is none.
LEMMA RegistryStepInInterface ==
  ASSUME TypeOK, VaultRegistryNext, now' = now
  PROVE  C!Next \/ UNCHANGED C!vars
<1>1. /\ btcPublicKey \in [Vaults -> Keys \cup {NoKey}]
      /\ collateral \in [Vaults -> Nat] /\ lockExpireAt \in [Vaults -> Nat]
  BY DEF TypeOK, VaultRegistryTypeOK
<1>2. \A v \in Vaults : Registered[v] = VaultExists(v)
  BY DEF Registered
<1>3. btcPublicKey' = btcPublicKey => Registered' = Registered
  BY DEF Registered, VaultExists
<1>4. ASSUME NEW v \in Vaults, NEW payer, NEW amount \in OneAmounts,
             AddCollateral(payer, v, amount)
      PROVE  C!Added(v) /\ lockExpireAt' = lockExpireAt
  BY <1>1, <1>4, OneAmountsNat DEF AddCollateral, C!Added
<1>5. ASSUME NEW v \in Vaults, NEW amount \in OneAmounts, NEW key \in Keys,
             RegisterVault(v, key, amount)
      PROVE  C!Next
  <2>1. ~VaultExists(v) /\ btcPublicKey' = [btcPublicKey EXCEPT ![v] = key]
        /\ AddCollateral(v, v, amount)
    BY <1>5 DEF RegisterVault
  <2>2. Registered' = [Registered EXCEPT ![v] = TRUE]
    BY <1>1, <2>1, NoKeyIsNoKey DEF Registered, VaultExists
  <2>3. C!Register(v)
    BY <1>2, <1>4, <2>1, <2>2 DEF C!Register
  <2> QED
    BY <2>3 DEF C!Next
<1>6. ASSUME NEW v \in Vaults, NEW amount \in OneAmounts,
             \/ LockAdditionalCollateral(v, amount)
             \/ LockAdditionalCollateralFromVaultReward(v, amount)
      PROVE  C!Next
  <2>1. VaultExists(v) /\ btcPublicKey' = btcPublicKey
        /\ \E payer : AddCollateral(payer, v, amount)
    BY <1>6 DEF LockAdditionalCollateral, LockAdditionalCollateralFromVaultReward
  <2>2. C!Add(v)
    BY <1>2, <1>3, <1>4, <2>1 DEF C!Add
  <2> QED
    BY <2>2 DEF C!Next
<1>7. ASSUME NEW v \in Vaults, NEW amount \in OneAmounts,
             WithdrawCollateral(v, amount)
      PROVE  C!Next
  <2>1. /\ VaultExists(v) /\ lockExpireAt[v] < now
        /\ collateral[v] >= amount
        /\ collateral' = [collateral EXCEPT ![v] = @ - amount]
        /\ UNCHANGED <<btcPublicKey, lockExpireAt>>
    BY <1>7 DEF WithdrawCollateral, LockExpired
  <2>2. collateral'[v] \in 0 .. collateral[v]
        /\ collateral' = [collateral EXCEPT ![v] = collateral'[v]]
    BY <1>1, <2>1, OneAmountsNat
  <2>3. C!Withdraw(v)
    BY <1>2, <1>3, <2>1, <2>2 DEF C!Withdraw
  <2> QED
    BY <2>3 DEF C!Next
<1>8. ASSUME NEW v \in Vaults, NEW key \in Keys \cup {NoKey},
             UpdatePublicKey(v, key)
      PROVE  C!Next \/ UNCHANGED C!vars
  <2>1. /\ VaultExists(v) /\ btcPublicKey' = [btcPublicKey EXCEPT ![v] = key]
        /\ UNCHANGED <<collateral, lockExpireAt>>
    BY <1>8 DEF UpdatePublicKey
  <2>2. CASE key = NoKey
    <3>1. Registered' = [Registered EXCEPT ![v] = FALSE]
      BY <1>1, <2>1, <2>2 DEF Registered, VaultExists
    <3>2. C!Unregister(v)
      BY <1>2, <2>1, <3>1 DEF C!Unregister
    <3> QED
      BY <3>2 DEF C!Next
  <2>3. CASE key # NoKey
    <3>1. Registered' = Registered
      BY <1>1, <2>1, <2>3 DEF Registered, VaultExists
    <3> QED
      BY <2>1, <3>1 DEF C!vars
  <2> QED
    BY <2>2, <2>3
<1>9. ASSUME NEW v \in Vaults, NEW period \in LockPeriods,
             ExtendVaultLockPeriod(v, period)
      PROVE  C!Next
  <2>1. C!Lock(v, period)
    BY <1>2, <1>3, <1>9 DEF ExtendVaultLockPeriod, C!Lock
  <2> QED
    BY <2>1 DEF C!Next
<1> QED
  BY <1>5, <1>6, <1>7, <1>8, <1>9 DEF VaultRegistryNext

LEMMA StepInInterface == TypeOK /\ [Next]_vars => [C!Next]_(C!vars)
<1> SUFFICES ASSUME TypeOK, [Next]_vars PROVE C!Next \/ UNCHANGED C!vars
  OBVIOUS
<1>1. HarmonyTypeOK
  BY DEF TypeOK
<1>2. CASE UNCHANGED <<btcPublicKey, collateral, lockExpireAt, now>>
  BY <1>2 DEF C!vars, Registered, VaultExists
<1>3. CASE UNCHANGED vars
  BY <1>2, <1>3 DEF vars, vaultVars
<1>4. CASE Next
  <2>1. CASE Tick /\ UNCHANGED bridgeVars
    <3>1. C!Tick
      BY <2>1 DEF Tick, C!Tick, bridgeVars, vaultVars, Registered, VaultExists
    <3> QED
      BY <3>1 DEF C!Next
  <2>2. CASE VaultRegistryNext /\ now' = now
    BY <2>2, RegistryStepInInterface
  <2>3. CASE UNCHANGED <<vaultVars, now>>
    BY <1>2, <2>3 DEF vaultVars
  <2>4. ASSUME now' = now,
               \/ \E u, v, amount, griefing : RequestIssue(u, amount, v, griefing)
               \/ \E caller, u, t, transferred :
                    ExecuteIssue(caller, u, t, transferred)
               \/ \E u, t : CancelIssue(u, t)
               \/ \E u, v, amount : RequestRedeem(u, amount, v)
               \/ \E u, t : ExecuteRedeem(u, t)
               \/ \E u, t, reimburse : CancelRedeem(u, t, reimburse)
        PROVE  C!Next \/ UNCHANGED C!vars
    BY <1>2, <2>4, RequestsLeaveRecords
  <2> QED
    BY <1>1, <1>4, <2>1, <2>2, <2>3, <2>4, NextCases DEF bridgeVars
<1> QED
  BY <1>3, <1>4

\* The bridge keeps to the interface it shares with VaultReward, for any
\* vaults, keys, amounts and periods: whatever is requested, paid, redeemed or
\* reimbursed, the recorded collateral and the lock of a vault change only as
\* VaultReward takes for granted.
THEOREM BridgeKeepsLocks == Spec => CollateralLocked
<1>1. Init => C!Init
  <2> SUFFICES ASSUME Init PROVE C!Init
    OBVIOUS
  <2>1. \A v \in Vaults : VaultExists(v) = FALSE
    BY DEF Init, VaultRegistryInit, VaultExists
  <2>2. Registered = [v \in Vaults |-> FALSE]
    BY <2>1 DEF Registered
  <2> QED
    BY <2>2 DEF Init, HarmonyInit, VaultRegistryInit, C!Init
<1> QED
  BY <1>1, StepInInterface, TypeCorrect, PTL DEF Spec, CollateralLocked, C!Spec
=============================================================================
