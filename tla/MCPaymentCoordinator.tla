------------------------ MODULE MCPaymentCoordinator ------------------------
(***************************************************************************)
(* Small instances of PaymentCoordinator.  No definition distinguishes two *)
(* identifiers, terms, authorizations, details, tokens or stageable bodies,*)
(* so each of these sets may be permuted when only invariants are checked. *)
(***************************************************************************)
EXTENDS PaymentCoordinator, TLC

CONSTANTS p1, p2, t1, t2, a1, a2, d1, d2, k1, k2, k3, k4, b1, b2, bad, r1, junk

CallerSymmetry ==
  UNION {Permutations(S) :
    S \in {PaymentIds, Terms, Auths, Details, Tokens, StageableBodies}}
=============================================================================
