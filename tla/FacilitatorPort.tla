-------------------------- MODULE FacilitatorPort --------------------------
(***************************************************************************)
(* What the mainnet orchestrator relies on when it asks the facilitator.   *)
(* A call asks once; the facilitator may act on it at any time after, or   *)
(* never, also when the caller has given up; the call ends once, with what *)
(* the facilitator decided or with an exception, and an exception says     *)
(* nothing about what was or will be done.                                 *)
(***************************************************************************)
EXTENDS Naturals

CONSTANT Calls

Decisions == {"done", "refused"}

VARIABLES
  asked,     \* how often the facilitator was asked for each call
  decision,  \* what it decided, "open" before
  outcome    \* what the caller was told, "open" before

port == <<asked, decision, outcome>>

Ask(c) ==
  /\ asked[c] = 0
  /\ asked' = [asked EXCEPT ![c] = 1]
  /\ UNCHANGED <<decision, outcome>>

Act(c, d) ==
  /\ asked[c] = 1
  /\ decision[c] = "open"
  /\ decision' = [decision EXCEPT ![c] = d]
  /\ UNCHANGED <<asked, outcome>>

Tell(c) ==
  /\ outcome[c] = "open"
  /\ decision[c] \in Decisions
  /\ outcome' = [outcome EXCEPT ![c] = decision[c]]
  /\ UNCHANGED <<asked, decision>>

GiveUp(c) ==
  /\ asked[c] = 1
  /\ outcome[c] = "open"
  /\ outcome' = [outcome EXCEPT ![c] = "thrown"]
  /\ UNCHANGED <<asked, decision>>

Init ==
  /\ asked = [c \in Calls |-> 0]
  /\ decision = [c \in Calls |-> "open"]
  /\ outcome = [c \in Calls |-> "open"]

Next ==
  \E c \in Calls : Ask(c) \/ Tell(c) \/ GiveUp(c) \/ \E d \in Decisions : Act(c, d)

Spec == Init /\ [][Next]_port
=============================================================================
