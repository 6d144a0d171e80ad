------------------------- MODULE MCMainnetPaidRoute -------------------------
(***************************************************************************)
(* A small instance of MainnetPaidRoute: a Worker that is deployed for one *)
(* seller, anew with the address spelt differently, for another seller,    *)
(* and with a facilitator that supports no kind of payment.                *)
(***************************************************************************)
EXTENDS MainnetPaidRoute, TLC

CONSTANTS i1, i2, n1, v1, v2, k1, k2, r1, s1, s2

Worker(seller, spelling, supported) ==
  [sellerAddress |-> <<seller, spelling>>, facilitator |-> supported]

MCDeployments ==
  { Worker(s1, "checksum", "base"), Worker(s1, "lower", "base"),
    Worker(s2, "checksum", "base"), Worker(s2, "checksum", "none") }

MCTerms ==
  {[requirement |-> ConfiguredRequirement(d), query |-> v] : d \in MCDeployments, v \in {v1, v2}}

MCAuths ==
  [ to : {s1, s2} \X Spellings, value : {"1000", "999"}, nonce : {n1},
    contract : {"baseUSDC", "other"} ]

MCDetails == [query : {v1, v2}, nonce : {n1}, amount : {"1000", "999"}]

RouteSymmetry ==
  Permutations({i1, i2}) \cup Permutations({k1, k2})
=============================================================================
