-------------------------------- MODULE MCFeeds --------------------------------
(***************************************************************************)
(* The two feeds of the bridge for TLC: bitcoin's headers and the exchange *)
(* rate.  They share no storage and neither calls the other, so each       *)
(* behaviour follows one of them, and the other stays as it began.  Prices *)
(* are such that some quotients are 0, some equal and some far apart.  A   *)
(* relay holding MaxBlocks headers has no step left, so deadlock is not    *)
(* checked.                                                                *)
(***************************************************************************)
EXTENDS RelayProperties, ExchangeRateOracle

VARIABLE feed   \* the one that is followed

feedsVars == <<feed, vars, oraclesVars>>

FeedsInit ==
  /\ feed \in {"relay", "oracle"}
  /\ Init
  /\ OraclesInit
  /\ feed = "relay" => btcUSD.price = Min(BtcPrices) /\ oneUSD.price = Min(OnePrices)
  /\ feed = "oracle" => epoch.startTarget = Min(Targets) /\ epoch.startTime = Min(Timestamps)

FeedsNext ==
  \/ feed = "relay" /\ Next /\ UNCHANGED <<feed, oraclesVars>>
  \/ feed = "oracle" /\ OraclesNext /\ UNCHANGED <<feed, vars>>

FeedsSpec == FeedsInit /\ [][FeedsNext]_feedsVars
=============================================================================
