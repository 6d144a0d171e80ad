------------------------------ MODULE MCPayPage -----------------------------
(***************************************************************************)
(* Small instances of PayPage and what it displays.                        *)
(***************************************************************************)
EXTENDS PayPageDisplay

CONSTANTS a1, a2, s1, s2

PageSymmetry == Permutations(Accounts) \cup Permutations(Slots)
=============================================================================
