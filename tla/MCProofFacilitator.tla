------------------------- MODULE MCProofFacilitator -------------------------
(***************************************************************************)
(* Small instances of ProofFacilitator.                                    *)
(***************************************************************************)
EXTENDS ProofFacilitator, TLC

CONSTANTS c1, c2

CallSymmetry == Permutations(Calls)
=============================================================================
