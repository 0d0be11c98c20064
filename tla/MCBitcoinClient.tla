---------------------------- MODULE MCBitcoinClient ----------------------------
(***************************************************************************)
(* Small instances of the bitcoin client for TLC.  When every call has     *)
(* ended and the tree is full the system stops, so deadlock is not checked. *)
(***************************************************************************)
EXTENDS BitcoinClient
=============================================================================
