------------------------- MODULE MCMainnetPayClient -------------------------
(***************************************************************************)
(* Small instances of MainnetPayClient.                                    *)
(***************************************************************************)
EXTENDS MainnetPayClient, TLC

CONSTANTS p1, p2, s1, s2

ClientSymmetry == Permutations(Ids) \cup Permutations(Slots)
=============================================================================
