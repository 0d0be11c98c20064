------------------------- MODULE MCExchangeRateOracle -------------------------
(***************************************************************************)
(* A small instance of the oracles for TLC: prices of which some quotients *)
(* are 0, some equal and some far apart.                                   *)
(***************************************************************************)
EXTENDS ExchangeRateOracle
=============================================================================
