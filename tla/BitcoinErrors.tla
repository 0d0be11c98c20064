----------------------------- MODULE BitcoinErrors -----------------------------
(***************************************************************************)
(* clients/bitcoin/src/error.rs: the errors of a call to bitcoin-core, and *)
(* how the client tells them apart.  An error is a tagged union: one of    *)
(* the daemon's own has kind "rpc" and a code; the others have the kind of *)
(* what went wrong below it, and the code of no error.                     *)
(***************************************************************************)
EXTENDS Integers

RpcUnknownError        == 0
RpcWalletError         == -4
RpcInvalidAddressOrKey == -5
RpcInvalidParameter    == -8
RpcWalletNotFound      == -18
RpcWalletNotSpecified  == -19
RpcInWarmup            == -28

\* The codes of enum BitcoinRpcError.
RpcCodes == ((-33 .. 0) \ {-21}) \cup (-32603 .. -32600) \cup {-32700}

\* A code that is not among them is the unknown error.
BitcoinRpcError(code) == IF code \in RpcCodes THEN code ELSE RpcUnknownError

Rpc(code)  == [kind |-> "rpc", code |-> code]
Io(kind)   == [kind |-> kind, code |-> 0]   \* "refused" or "aborted"
Json(kind) == [kind |-> kind, code |-> 0]   \* "syntax" or "eof"

IsRpc(e, code) == e.kind = "rpc" /\ BitcoinRpcError(e.code) = code

IsConnectionRefused(e) == e.kind = "refused"
IsConnectionAborted(e) == e.kind = "aborted"
IsJsonDecodeError(e)   == e.kind \in {"syntax", "eof"}
IsWalletError(e)       == IsRpc(e, RpcWalletError)
IsWalletNotFound(e)    == IsRpc(e, RpcWalletNotFound)
IsInvalidParameter(e)  == IsRpc(e, RpcInvalidParameter)

\* The item asked for is not in the mempool: the code is compared as it is.
ErrNotInMempool(e) == e.kind = "rpc" /\ e.code = RpcInvalidAddressOrKey
=============================================================================
