----------------------- MODULE ExchangeRateOracleProofs -----------------------
(***************************************************************************)
(* Theorems about the two oracles, for any prices, delays and bound on the *)
(* clock: what the bridge may rely on, before and after the upgrade.       *)
(***************************************************************************)
EXTENDS ExchangeRateOracle, TLAPS

------------------------------------------------------------------------------
\* Arithmetic

LEMMA Quotients ==
  ASSUME NEW btc \in BtcPrices, NEW one \in OnePrices
  PROVE  btc \div one \in Rates /\ btc \div one \in Nat
<1>1. btc \in Nat /\ one \in Nat \ {0}
  BY OracleConstants
<1> QED
  BY <1>1 DEF Rates

LEMMA RatesAreNat == Rates \subseteq Nat
  BY Quotients DEF Rates

LEMMA GreaterAndLess ==
  ASSUME NEW a \in Int, NEW b \in Int
  PROVE  /\ Max({a, b}) = IF a >= b THEN a ELSE b
         /\ Min({a, b}) = IF a >= b THEN b ELSE a
<1> DEFINE great == IF a >= b THEN a ELSE b
           less == IF a >= b THEN b ELSE a
<1>1. /\ great \in {a, b} /\ \A y \in {a, b} : great >= y
      /\ less \in {a, b} /\ \A y \in {a, b} : less <= y
  OBVIOUS
<1>2. ASSUME NEW x \in {a, b}, \A y \in {a, b} : x >= y PROVE x = great
  BY <1>2
<1>3. ASSUME NEW x \in {a, b}, \A y \in {a, b} : x <= y PROVE x = less
  BY <1>3
<1> HIDE DEF great, less
<1>4. Max({a, b}) = great
  BY <1>1, <1>2 DEF Max
<1>5. Min({a, b}) = less
  BY <1>1, <1>3 DEF Min
<1> QED
  BY <1>4, <1>5 DEF great, less

\* A limit of less than one whole allows any two rates but 0.
LEMMA LimitsRefuseZero ==
  ASSUME NEW a \in Nat, NEW b \in Nat
  PROVE  /\ Within(a, b, 10 \div 100) <=> a # 0 /\ b # 0
         /\ Within(a, b, 5 \div 1000) <=> a # 0 /\ b # 0
<1>1. 10 \div 100 = 0 /\ 5 \div 1000 = 0
  OBVIOUS
<1>2. ASSUME NEW g \in Nat, NEW l \in Nat, l <= g, g # 0
      PROVE  (g - l) \div g <= 0 <=> l # 0
  BY <1>2
<1>3. Within(a, b, 0) <=> a # 0 /\ b # 0
  BY <1>2, GreaterAndLess DEF Within
<1> QED
  BY <1>1, <1>3

------------------------------------------------------------------------------
\* Types

\* Until the upgrade the second version's variable is 0.
IInv ==
  /\ OraclesTypeOK
  /\ version = 1 => prevExchangeRate = 0

LEMMA StepKeepsIInv == IInv /\ [OraclesNext]_oraclesVars => IInv'
<1> SUFFICES ASSUME IInv, [OraclesNext]_oraclesVars PROVE IInv'
  OBVIOUS
<1>1. now \in Nat /\ MaxTime \in Nat
  BY OracleConstants DEF IInv, OraclesTypeOK, Times
<1>2. ASSUME NEW btc \in BtcPrices, NEW one \in OnePrices,
             SetExchangeRate(btc, one)
      PROVE  IInv'
  BY <1>1, <1>2, Quotients DEF SetExchangeRate, IInv, OraclesTypeOK, feedVars
<1>3. CASE Upgrade
  BY <1>3 DEF Upgrade, IInv, OraclesTypeOK, rateVars, feedVars
<1>4. CASE Round
  BY <1>1, <1>4 DEF Round, IInv, OraclesTypeOK, rateVars
<1>5. CASE Tick
  <2>1. now' \in Times /\ 0 .. now \subseteq 0 .. now'
    BY <1>1, <1>5 DEF Tick, Times
  <2> QED
    BY <1>5, <2>1 DEF Tick, IInv, OraclesTypeOK, rateVars, feedVars
<1>6. CASE UNCHANGED oraclesVars
  BY <1>6 DEF oraclesVars, IInv, OraclesTypeOK, rateVars, feedVars
<1> QED
  BY <1>2, <1>3, <1>4, <1>5, <1>6 DEF OraclesNext

\* The rates an oracle holds are quotients of prices, or not set yet, and its
\* times lie in the past.
THEOREM OracleTypeCorrect == OraclesSpec => []OraclesTypeOK
<1>1. OraclesInit => IInv
  BY OracleConstants DEF OraclesInit, IInv, OraclesTypeOK, Times
<1>2. IInv => OraclesTypeOK
  BY DEF IInv
<1> QED
  BY <1>1, <1>2, StepKeepsIInv, PTL DEF OraclesSpec

LEMMA IInvAlways == OraclesSpec => []IInv
<1>1. OraclesInit => IInv
  BY OracleConstants DEF OraclesInit, IInv, OraclesTypeOK, Times
<1> QED
  BY <1>1, StepKeepsIInv, PTL DEF OraclesSpec

------------------------------------------------------------------------------
\* The second version

\* When the second version answers.
LEMMA Answers ==
  ASSUME OraclesTypeOK
  PROVE  /\ LinkRate \in Rates /\ LinkRate \in Nat
         /\ SecondVersion # Reverts => SecondVersion = LinkRate
         /\ SecondVersion # Reverts <=>
              /\ now - btcUSD.time <= SECONDS_IN_A_DAY
              /\ now - oneUSD.time <= SECONDS_IN_A_DAY
              /\ 0 \notin {prevExchangeRate, exchangeRate, LinkRate}
<1>1. LinkRate \in Rates /\ LinkRate \in Nat
  BY Quotients DEF OraclesTypeOK, LinkRate
<1>2. /\ prevExchangeRate \in Nat /\ exchangeRate \in Nat
      /\ now \in Int /\ btcUSD.time \in Int /\ oneUSD.time \in Int
      /\ SECONDS_IN_A_DAY \in Int
  <2>1. {prevExchangeRate, exchangeRate} \subseteq Rates \cup {0}
    BY DEF OraclesTypeOK
  <2>2. Rates \cup {0} \subseteq Nat
    BY RatesAreNat
  <2>3. prevExchangeRate \in Nat /\ exchangeRate \in Nat
    BY <2>1, <2>2
  <2>4. now \in Int /\ btcUSD.time \in Int /\ oneUSD.time \in Int
    BY OracleConstants DEF OraclesTypeOK, Times
  <2> QED
    BY <2>3, <2>4, OracleConstants
<1>3. Fresh <=> /\ now - btcUSD.time <= SECONDS_IN_A_DAY
                /\ now - oneUSD.time <= SECONDS_IN_A_DAY
  <2>1. Min({btcUSD.time, oneUSD.time}) =
          IF btcUSD.time >= oneUSD.time THEN oneUSD.time ELSE btcUSD.time
    BY <1>2, GreaterAndLess, Zenon
  <2> QED
    BY <1>2, <2>1 DEF Fresh
<1>4. /\ Within(prevExchangeRate, exchangeRate, 10 \div 100)
           <=> prevExchangeRate # 0 /\ exchangeRate # 0
      /\ Within(LinkRate, exchangeRate, 5 \div 1000)
           <=> LinkRate # 0 /\ exchangeRate # 0
  <2>1. ASSUME NEW a \in Nat, NEW b \in Nat
        PROVE  /\ Within(a, b, 10 \div 100) <=> a # 0 /\ b # 0
               /\ Within(a, b, 5 \div 1000) <=> a # 0 /\ b # 0
    BY LimitsRefuseZero
  <2> QED
    BY <1>1, <1>2, <2>1
<1>5. LinkRate # Reverts
  BY <1>1 DEF Reverts
<1> HIDE DEF Reverts
<1> QED
  BY <1>1, <1>3, <1>4, <1>5 DEF SecondVersion

\* The same of the state after a step.
LEMMA NextAnswers ==
  OraclesTypeOK' =>
    /\ LinkRate' \in Rates
    /\ SecondVersion' # Reverts => prevExchangeRate' # 0
<1>1. OraclesTypeOK =>
        /\ LinkRate \in Rates
        /\ SecondVersion # Reverts => prevExchangeRate # 0
  BY Answers
<1>2. OraclesTypeOK' =>
        (/\ LinkRate \in Rates
         /\ SecondVersion # Reverts => prevExchangeRate # 0)'
  BY <1>1, PTL
<1> QED
  BY <1>2 DEF Reverts, Rates

\* After the upgrade nothing is answered until the provider has set a rate
\* with the second version, for any prices and delays.
THEOREM UpgradeStops == OraclesSpec => UpgradeNeedsRate
<1>1. IInv /\ IInv' /\ [OraclesNext]_oraclesVars =>
        [version' = 2 /\ (version = 1 \/ prevExchangeRate = 0)
           /\ GetExchangeRate' # Reverts
             => version = 2 /\ prevExchangeRate' # prevExchangeRate]_oraclesVars
  <2> SUFFICES ASSUME IInv, OraclesTypeOK', OraclesNext, version' = 2,
                      version = 1 \/ prevExchangeRate = 0,
                      GetExchangeRate' # Reverts
               PROVE  version = 2 /\ prevExchangeRate' # prevExchangeRate
    BY DEF IInv
  <2>1. prevExchangeRate = 0 /\ version \in {1, 2}
    BY DEF IInv, OraclesTypeOK
  <2>2. SecondVersion' # Reverts
    BY DEF GetExchangeRate, Reverts
  <2>3. prevExchangeRate' # 0
    BY <2>2, NextAnswers
  <2>4. ASSUME version = 1 PROVE FALSE
    BY <2>1, <2>3, <2>4
    DEF OraclesNext, SetExchangeRate, Upgrade, Round, Tick, rateVars
  <2> QED
    BY <2>1, <2>3, <2>4
<1> QED
  BY <1>1, IInvAlways, PTL DEF OraclesSpec, UpgradeNeedsRate

------------------------------------------------------------------------------
\* The oracle the bridge sees

LEMMA StepRefines == IInv /\ IInv' /\ [OraclesNext]_oraclesVars => [O!OracleNext]_GetExchangeRate
<1> SUFFICES ASSUME IInv, IInv', [OraclesNext]_oraclesVars,
                    GetExchangeRate' # GetExchangeRate
             PROVE  O!OracleNext
  OBVIOUS
<1>1. /\ {version, version'} \subseteq {1, 2}
      /\ LinkRate' \in Rates
      /\ exchangeRate' \in Rates \cup {0}
  BY NextAnswers DEF IInv, OraclesTypeOK
<1>2. CASE GetExchangeRate' = Reverts
  BY <1>2 DEF O!OracleNext, O!RateExpires, Reverts
<1>3. CASE GetExchangeRate' \in Rates
  BY <1>3 DEF O!OracleNext, O!SetExchangeRate, Rates
<1>4. CASE version' = 2
  BY <1>1, <1>2, <1>3, <1>4 DEF GetExchangeRate, SecondVersion, Reverts
<1>5. CASE version' = 1
  <2>1. GetExchangeRate' = Reverts \/ GetExchangeRate' = exchangeRate'
    BY <1>5 DEF GetExchangeRate, FirstVersion, Reverts
  <2>2. ASSUME NEW btc \in BtcPrices, NEW one \in OnePrices,
               SetExchangeRate(btc, one)
        PROVE  GetExchangeRate' = Reverts \/ GetExchangeRate' \in Rates
    BY <2>1, <2>2, Quotients DEF SetExchangeRate
  <2>3. CASE Round \/ UNCHANGED oraclesVars
    BY <1>5, <2>3
    DEF Round, oraclesVars, rateVars, GetExchangeRate, FirstVersion, Reverts
  <2>4. CASE Tick
    <3>1. /\ now \in Int /\ lastExchangeRateTime \in Int /\ MAX_DELAY \in Int
          /\ now' = now + 1
          /\ UNCHANGED <<version, exchangeRate, lastExchangeRateTime>>
      BY <2>4, OracleConstants DEF Tick, rateVars, IInv, OraclesTypeOK, Times
    <3> QED
      BY <1>2, <1>5, <3>1 DEF GetExchangeRate, FirstVersion, Reverts
  <2> QED
    BY <1>2, <1>3, <1>5, <2>2, <2>3, <2>4 DEF OraclesNext, Upgrade
<1> QED
  BY <1>1, <1>4, <1>5

\* Before, during and after the upgrade the contracts behind the proxy are the
\* Oracle the bridge's theorems are about, for any prices and delays.
THEOREM OraclesRefine == OraclesSpec => OracleImplemented
<1>1. OraclesInit => O!OracleInit
  BY OracleConstants DEF OraclesInit, O!OracleInit, GetExchangeRate, FirstVersion
<1> QED
  BY <1>1, IInvAlways, StepRefines, PTL
  DEF OraclesSpec, OracleImplemented, O!OracleSpec
=============================================================================
