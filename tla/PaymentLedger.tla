--------------------------- MODULE PaymentLedger ---------------------------
(***************************************************************************)
(* What the payment coordinator promises its callers, without leases,      *)
(* generations, tokens or time.  An attempt is a payment identifier with   *)
(* terms.  Binding an attempt takes its identifier and its authorization   *)
(* for itself; at most one decision to settle follows, which fixes the     *)
(* answer; the attempt ends settled, with that answer, or failed, and an   *)
(* attempt whose settlement was lost sight of can no longer fail.  Nothing *)
(* else happens to it until it is forgotten.                               *)
(***************************************************************************)
CONSTANTS
  PaymentIds, Terms, Auths, Bodies,
  None,     \* no answer decided yet
  Unbound   \* no entry for an attempt

Attempts == PaymentIds \X Terms

Outcomes == {"open", "settling", "unresolved", "settled", "failed"}

Entry == [auth : Auths, outcome : Outcomes, answer : Bodies \cup {None}]

VARIABLE ledger

Bound == {a \in Attempts : ledger[a] # Unbound}

Bind(a, auth) ==
  /\ \A b \in Bound : b[1] # a[1] /\ ledger[b].auth # auth
  /\ ledger' = [ledger EXCEPT ![a] = [auth |-> auth, outcome |-> "open", answer |-> None]]

Move(a, from, to) ==
  /\ a \in Bound
  /\ ledger[a].outcome \in from
  /\ ledger' = [ledger EXCEPT ![a].outcome = to]

(* The only way to a settlement, taken with the answer it pays for.        *)
DecideToSettle(a, answer) ==
  /\ a \in Bound
  /\ ledger[a].outcome = "open"
  /\ ledger' = [ledger EXCEPT ![a].outcome = "settling", ![a].answer = answer]

LoseSight(a) == Move(a, {"settling"}, "unresolved")

Settle(a) == Move(a, {"settling", "unresolved"}, "settled")

(* An attempt that was never settled gives no answer.                      *)
Fail(a) ==
  /\ a \in Bound
  /\ ledger[a].outcome \in {"open", "settling"}
  /\ ledger' = [ledger EXCEPT ![a].outcome = "failed", ![a].answer = None]

Forget(S) == ledger' = [a \in Attempts |-> IF a \in S THEN Unbound ELSE ledger[a]]

Init == ledger = [a \in Attempts |-> Unbound]

Next ==
  \/ \E a \in Attempts, auth \in Auths : Bind(a, auth)
  \/ \E a \in Attempts, answer \in Bodies : DecideToSettle(a, answer)
  \/ \E a \in Attempts : LoseSight(a) \/ Settle(a) \/ Fail(a)
  \/ \E S \in SUBSET Attempts : Forget(S)

Spec == Init /\ [][Next]_ledger
=============================================================================
