---------------------------- MODULE MCBitcoinSession ----------------------------
(***************************************************************************)
(* Small instances of clients and a daemon for TLC.  Every client can      *)
(* always make a call, so the system never stops.                          *)
(***************************************************************************)
EXTENDS BitcoinSession
=============================================================================
