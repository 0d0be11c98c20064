--------------------------- MODULE ExchangeRateOracle ---------------------------
(***************************************************************************)
(* ExchangeRateOracle.sol, and ExchangeRateOracleV2.sol, which its proxy   *)
(* is upgraded to with its storage kept (oracle_upgrade.js).  A provider   *)
(* sets a rate.  The first contract answers that rate while it is recent;  *)
(* the second answers the rate of two price feeds, which it compares with  *)
(* the provider's last two.  To the bridge both are an Oracle.             *)
(***************************************************************************)
EXTENDS Integers, FiniteSetsExt

CONSTANTS
  BtcPrices,         \* prices of 1 BTC,
  OnePrices,         \* and of 1 ONE, that the provider and the feeds give
  MAX_DELAY,         \* life of the provider's rate
  SECONDS_IN_A_DAY,  \* life of a feed's price
  Scale,             \* as in Oracle
  MaxTime            \* bound on the clock

ASSUME OracleConstants ==
  /\ BtcPrices \subseteq Nat \ {0} /\ OnePrices \subseteq Nat \ {0}
  /\ MAX_DELAY \in Nat /\ SECONDS_IN_A_DAY \in Nat /\ MaxTime \in Nat

VARIABLES
  version,               \* of the contract behind the proxy
  now,                   \* block.timestamp
  exchangeRate,          \* the provider's last rate,
  prevExchangeRate,      \* the one before it, in the second version,
  lastExchangeRateTime,  \* and when the last one was set
  btcUSD, oneUSD         \* the last rounds of the feeds

rateVars == <<exchangeRate, prevExchangeRate, lastExchangeRateTime>>
feedVars == <<btcUSD, oneUSD>>
oraclesVars == <<version, now, rateVars, feedVars>>

Rates == {btc \div one : btc \in BtcPrices, one \in OnePrices}

Times == 0 .. MaxTime

OraclesTypeOK ==
  /\ version \in {1, 2}
  /\ now \in Times
  /\ {exchangeRate, prevExchangeRate} \subseteq Rates \cup {0}
  /\ lastExchangeRateTime \in 0 .. now
  /\ btcUSD \in [price : BtcPrices, time : 0 .. now]
  /\ oneUSD \in [price : OnePrices, time : 0 .. now]

OraclesInit ==
  /\ version = 1
  /\ now = 0
  /\ exchangeRate = 0
  /\ prevExchangeRate = 0
  /\ lastExchangeRateTime = 0
  /\ btcUSD \in [price : BtcPrices, time : {0}]
  /\ oneUSD \in [price : OnePrices, time : {0}]

-----------------------------------------------------------------------------
\* Wrong: the rate is not divided by the price of ONE.
SetExchangeRateUndivided(btcPrice, onePrice) ==
  /\ exchangeRate' = btcPrice
  /\ prevExchangeRate' = IF version = 2 THEN exchangeRate ELSE prevExchangeRate
  /\ lastExchangeRateTime' = now
  /\ UNCHANGED <<version, now, feedVars>>

\* The provider's call; the second version keeps the rate before.
SetExchangeRate(btcPrice, onePrice) ==
  /\ exchangeRate' = btcPrice \div onePrice
  /\ prevExchangeRate' = IF version = 2 THEN exchangeRate ELSE prevExchangeRate
  /\ lastExchangeRateTime' = now
  /\ UNCHANGED <<version, now, feedVars>>

\* Wrong: the rate that is there counts as the one before, too.
UpgradeCopyingRate ==
  /\ version = 1
  /\ version' = 2
  /\ prevExchangeRate' = exchangeRate
  /\ UNCHANGED <<now, exchangeRate, lastExchangeRateTime, feedVars>>

\* No initializer runs: what the second version adds is 0.
Upgrade ==
  /\ version = 1
  /\ version' = 2
  /\ UNCHANGED <<now, rateVars, feedVars>>

\* A feed's next round.
Round ==
  /\ \/ \E price \in BtcPrices :
          btcUSD' = [price |-> price, time |-> now] /\ UNCHANGED oneUSD
     \/ \E price \in OnePrices :
          oneUSD' = [price |-> price, time |-> now] /\ UNCHANGED btcUSD
  /\ UNCHANGED <<version, now, rateVars>>

Tick ==
  /\ now < MaxTime
  /\ now' = now + 1
  /\ UNCHANGED <<version, rateVars, feedVars>>

OraclesNext ==
  \/ \E btc \in BtcPrices, one \in OnePrices : SetExchangeRate(btc, one)
  \/ Upgrade
  \/ Round
  \/ Tick

OraclesSpec == OraclesInit /\ [][OraclesNext]_oraclesVars

-----------------------------------------------------------------------------
\* Stands for a call that reverts.
Reverts == -1

FirstVersion ==
  IF now - lastExchangeRateTime <= MAX_DELAY THEN exchangeRate ELSE Reverts

\* The difference of two rates is divided by the greater one before it is
\* compared; two rates of 0 revert.
Within(a, b, limit) ==
  /\ Max({a, b}) # 0
  /\ (Max({a, b}) - Min({a, b})) \div Max({a, b}) <= limit

LinkRate == btcUSD.price \div oneUSD.price

Fresh == now - Min({btcUSD.time, oneUSD.time}) <= SECONDS_IN_A_DAY

\* When the provider set its rate plays no part.
SecondVersion ==
  IF /\ Fresh
     /\ Within(prevExchangeRate, exchangeRate, 10 \div 100)
     /\ Within(LinkRate, exchangeRate, 5 \div 1000)
    THEN LinkRate
    ELSE Reverts

GetExchangeRate == IF version = 1 THEN FirstVersion ELSE SecondVersion

-----------------------------------------------------------------------------
O == INSTANCE Oracle WITH exchangeRate <- GetExchangeRate, Stale <- Reverts

\* To the bridge the contracts are the Oracle its own modules are checked
\* with, before, during and after the upgrade, whatever the provider and the
\* feeds do in between.
OracleImplemented == O!OracleSpec

\* An upgrade stops every conversion: the first one after it is answered
\* needs the provider to set a rate again, however recent the last one is.
UpgradeNeedsRate ==
  [][version' = 2 /\ (version = 1 \/ prevExchangeRate = 0)
       /\ GetExchangeRate' # Reverts
         => version = 2 /\ prevExchangeRate' # prevExchangeRate]_oraclesVars
------------------------------------------------------------------------------
\* What the second version's comments say and its integer quotients do not do.

\* a and b differ by at most num / den of the greater.
Close(a, b, num, den) == den * (Max({a, b}) - Min({a, b})) <= num * Max({a, b})

\* A rate is answered only while the provider's last two rates are within 10%
\* of each other and the feeds' rate is within 0.5% of the last one.
WithinLimits ==
  version = 2 /\ GetExchangeRate # Reverts =>
    /\ Close(prevExchangeRate, exchangeRate, 10, 100)
    /\ Close(LinkRate, exchangeRate, 5, 1000)
=============================================================================
