-------------------------------- MODULE OneBtc --------------------------------
(***************************************************************************)
(* OneBtc.sol: the whole bridge contract, which inherits Issue, Redeem and *)
(* VaultRegistry, on the chain it runs on.  Every action is one call (a    *)
(* transaction, so it happens entirely or not at all), a move of the       *)
(* oracle, or a new block.                                                 *)
(***************************************************************************)
EXTENDS Redeem

CONSTANTS
  TransferAmounts,  \* amounts of 1BTC a holder sends to another
  MaxRequests       \* bound: requests ever opened, issue and redeem together

ASSUME TransferAmountsNat == TransferAmounts \subseteq Nat

vars == <<collateralVars, vaultVars, tokenVars, issueRequests, redeemRequests,
          exchangeRate, now>>

TypeOK ==
  /\ HarmonyTypeOK
  /\ CollateralTypeOK
  /\ OracleTypeOK
  /\ VaultRegistryTypeOK
  /\ ERC20TypeOK
  /\ IssueTypeOK
  /\ RedeemTypeOK

Init ==
  /\ HarmonyInit
  /\ CollateralInit
  /\ OracleInit
  /\ VaultRegistryInit
  /\ ERC20Init
  /\ IssueInit
  /\ RedeemInit

TransferToClaim(from, amount) == Transfer(from, Claim, amount)

\* The inherited ERC20 transfer, and transferToClaim.
TokenNext ==
  \E from \in Accounts, amount \in TransferAmounts :
    \/ \E to \in Accounts \cup {This} : Transfer(from, to, amount)
    \/ TransferToClaim(from, amount)

RequestsOpened ==
  LET Opened(requests) ==
        Cardinality({k \in Users \X Times : requests[k[1]][k[2]] # NoRequest})
  IN  Opened(issueRequests) + Opened(redeemRequests)

Call ==
  \/ /\ VaultRegistryNext
     /\ UNCHANGED <<tokenVars, issueRequests, redeemRequests>>
  \/ /\ IssueNext
     /\ UNCHANGED redeemRequests
  \/ /\ RedeemNext
     /\ UNCHANGED issueRequests
  \/ /\ TokenNext
     /\ UNCHANGED <<collateralVars, vaultVars, issueRequests, redeemRequests>>

bridgeVars == <<collateralVars, vaultVars, tokenVars, issueRequests,
                redeemRequests>>

Next ==
  \/ /\ Call
     /\ RequestsOpened' <= MaxRequests   \* bound
     /\ UNCHANGED <<exchangeRate, now>>
  \/ /\ OracleNext
     /\ UNCHANGED <<bridgeVars, now>>
  \/ /\ Tick
     /\ UNCHANGED <<bridgeVars, exchangeRate>>

Spec == Init /\ [][Next]_vars
=============================================================================
