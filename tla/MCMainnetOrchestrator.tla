----------------------- MODULE MCMainnetOrchestrator -----------------------
(***************************************************************************)
(* Small instances of MainnetOrchestrator.                                 *)
(***************************************************************************)
EXTENDS MainnetOrchestrator, TLC

CONSTANTS w1, w2, w3, p1, p2, t1, t2, a1, a2, d1, k1, k2, k3, k4, b1, b2, bad, r1, junk

CallerSymmetry ==
  UNION {Permutations(S) :
    S \in {Requests, PaymentIds, Terms, Auths, Tokens, StageableBodies}}
=============================================================================
