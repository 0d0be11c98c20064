------------------------------- MODULE MCOneBtc -------------------------------
(***************************************************************************)
(* Small instances of the bridge for TLC.  The conversion factor is 2, the *)
(* least at which 150% of any amount is exact as it is with 10^10.         *)
(***************************************************************************)
EXTENDS OneBtcProperties, TLC

CONSTANTS v1, v2, u1, u2

\* Requesters are interchangeable: nothing orders them.
UserSymmetry == Permutations({u1, u2})

\* Nor vaults, where there are two.
Symmetry == UserSymmetry \cup Permutations({v1, v2})
=============================================================================
