-------------------------------- MODULE MCRelay --------------------------------
(***************************************************************************)
(* Small instances of the relay for TLC.  A relay holding MaxBlocks        *)
(* headers has no step left, so deadlock is not checked.                   *)
(***************************************************************************)
EXTENDS RelayProperties
=============================================================================
