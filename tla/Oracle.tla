-------------------------------- MODULE Oracle --------------------------------
(***************************************************************************)
(* What the bridge sees of ExchangeRateOracle.sol: getExchangeRate either  *)
(* answers the last rate or reverts because that rate is too old, and the  *)
(* two conversions round down.  Between two calls of the bridge the oracle *)
(* may move in any way; that the two contracts behind it do no more is     *)
(* shown in ExchangeRateOracle.                                            *)
(***************************************************************************)
EXTENDS Integers

CONSTANTS
  Rates,   \* the rates the provider may set, in ONE per BTC
  Scale,   \* 10^18 / 10^8: units of ONE per unit of BTC at rate 1
  Stale    \* stands for a rate older than MAX_DELAY

ASSUME RatesNat == Rates \subseteq Nat
ASSUME ScalePositive == Scale \in Nat \ {0}
ASSUME StaleIsNoRate == Stale \notin Nat

VARIABLE exchangeRate

OracleTypeOK == exchangeRate \in Rates \cup {0, Stale}

\* initialize() sets the time but no rate.
OracleInit == exchangeRate = 0

\* getExchangeRate() does not revert.
RateAvailable == exchangeRate # Stale

SetExchangeRate(rate) == exchangeRate' = rate

\* More than MAX_DELAY since the last SetExchangeRate.
RateExpires ==
  /\ exchangeRate # Stale
  /\ exchangeRate' = Stale

OracleNext ==
  \/ \E rate \in Rates : SetExchangeRate(rate)
  \/ RateExpires

OracleSpec == OracleInit /\ [][OracleNext]_exchangeRate

WrappedToCollateral(amount) == amount * exchangeRate * Scale

\* Divides by the rate first: reverts at rate 0, so callers require CanPrice.
CollateralToWrapped(amount) == (amount \div exchangeRate) \div Scale

CanPrice == exchangeRate \notin {0, Stale}
=============================================================================
