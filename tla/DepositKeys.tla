------------------------------ MODULE DepositKeys ------------------------------
(***************************************************************************)
(* Bitcoin keys as the two sides compute them: the bridge derives the      *)
(* deposit address of an issue request from its vault's public key, and    *)
(* clients/bitcoin the key that spends it from the vault's secret key.     *)
(* The curve is the cyclic group of order GroupOrder, written additively.  *)
(***************************************************************************)
EXTENDS Scripts

CONSTANTS
  GroupOrder,   \* a prime
  Generator,    \* a point that generates the group
  NodeNetwork   \* the network of the daemon

ASSUME KeyConstants ==
  /\ GroupOrder \in Nat \ {0, 1}
  /\ \A d \in 2 .. (GroupOrder - 1) : GroupOrder % d # 0
  /\ Generator \in 1 .. (GroupOrder - 1)

SecretKeys == 1 .. (GroupOrder - 1)

PublicKey(secret) == (Generator * secret) % GroupOrder

\* keccak256 of a public key and a request's id, as a scalar: some function of
\* both.  The program that uses the client computes it as the contract does.
DepositSecret(public, id) == 1 + ((public + id) % (GroupOrder - 1))

\* derivate of the contract, up to the address of the key.
Derivate(public, id) == (public * DepositSecret(public, id)) % GroupOrder

\* Wrong: the keys are added.
AddDepositSecretKey(vault_key, issue_key) == (vault_key + issue_key) % GroupOrder

\* mul_assign.
CalculateDepositSecretKey(vault_key, issue_key) ==
  (vault_key * issue_key) % GroupOrder

\* FromStr for BitcoinNetwork, of the options on the command line.
ParseNetwork(s) ==
  CASE s = "mainnet" -> "Bitcoin" [] s = "testnet" -> "Testnet"
    [] s = "regtest" -> "Regtest" [] OTHER -> "InvalidBitcoinNetwork"

\* The address of a key, on the network of the client.
P2wpkh(public, network) ==
  [payload |-> Payload("p2wpkh", <<public>>), network |-> network]

\* dumpprivkey and getaddressinfo know the wallet's own addresses.
KeysOf(keys, address) ==
  {s \in keys : P2wpkh(PublicKey(s), NodeNetwork) = address}

\* get_new_public_key: a key the wallet did not have.
NewPublicKeys(keys) == {[secret |-> s, public |-> PublicKey(s)] : s \in SecretKeys \ keys}

\* add_new_deposit_key: the wallet's keys after it, the same if it fails.
AddNewDepositKey(keys, public_key, secret_key, network) ==
  IF secret_key \notin SecretKeys
    THEN keys
    ELSE keys \cup {CalculateDepositSecretKey(s, secret_key) :
                      s \in KeysOf(keys, P2wpkh(public_key, network))}

ImportPrivateKey(keys, privkey) == keys \cup {privkey}

\* wallet_has_public_key: a key that is not the wallet's is an error.
WalletHasPublicKey(keys, public_key, network) ==
  IF KeysOf(keys, P2wpkh(public_key, network)) = {} THEN "MissingPublicKey"
                                                    ELSE "true"
=============================================================================
