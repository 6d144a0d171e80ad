-------------------------- MODULE MCTestnetWorker --------------------------
(***************************************************************************)
(* Small instances of TestnetWorker.                                       *)
(***************************************************************************)
EXTENDS TestnetWorker, TLC

CONSTANTS r1, r2, r3, a1, a2

RequestSymmetry == Permutations(Requests)
=============================================================================
