------------------------------ MODULE BuyerRun ------------------------------
(***************************************************************************)
(* The two commands of the buyer against one seller: the preflight         *)
(* (buyer-preflight.ts, "npm run buyer:diagnose") and the payment run      *)
(* (buyer-run.ts, "npm run buy"), each invoked at most once, in any order  *)
(* or at the same time.                                                    *)
(*                                                                         *)
(* The seller, the chain and wrapFetchWithPayment of @x402/fetch are       *)
(* external: the wrapper fetches, signs the option the client selects from *)
(* a 402, and fetches once more with the payment.  The seller settles what *)
(* it offered if the buyer's balance covers it.  What it offers and what   *)
(* the buyer owns may change once, at any time (changed), and any request  *)
(* may fail (trouble).  Steps between two awaits are one action.           *)
(***************************************************************************)
EXTENDS BuyerPolicy

CONSTANTS
  Layers,    \* environments: [process, envBuyer, env], each from keys to values
  Faces,     \* how a seller answers a request without a payment
  Balances,  \* what the buyer may own, in the token's smallest unit
  Decimals   \* what the token's contract may say

(* What a seller may offer, as PaymentRequirements.                        *)
Options ==
  [ scheme : STRING, network : STRING, amount : Nat, asset : STRING, payTo : STRING,
    maxTimeoutSeconds : Nat, name : {NULL} \cup STRING, version : {NULL} \cup STRING ]

ASSUME RunAssumption ==
  /\ \A f \in Faces : f.offer \in Seq(Options)
  /\ \A f \in Faces : f.status \in Nat
  /\ Balances \subseteq Nat /\ Decimals \subseteq Nat
  /\ NULL \notin Nat /\ NULL \notin {"ok", "failed"} /\ NULL \notin PayTo

VARIABLES
  layers,    \* process.env, .env.buyer and .env
  face,      \* [status, header, offer, redirects] of the seller
  balance, decimals, chain,
  check,     \* the preflight's local state and report
  run,       \* the payment run's local state and report
  sent,      \* payments sent: [to, terms]
  changed,   \* did the seller or the balance change?
  trouble    \* did a request fail?

world == <<layers, face, balance, decimals, chain>>
vars == <<world, check, run, sent, changed, trouble>>

env == LoadBuyerEnv(layers)
ExpectedPayTo == env["EXPECTED_PAY_TO_ADDRESS"]

BuyerStages ==
  { "validate_guards", "construct_account", "initial_unpaid_request",
    "decode_payment_requirements", "create_payment_payload",
    "submit_paid_request", "read_resource_response" }

Phases ==
  { "before_account_construction", "before_signing", "during_local_signing",
    "during_paid_submission", "during_settlement_parsing" }

RunState ==
  [ pc         : {"idle", "unpaid", "paying", "settled", "refused", "body", "done"},
    stage      : BuyerStages \cup {NULL},
    status     : Nat \cup {NULL},
    result     : {"ok", "failed", NULL},
    likelySent : BOOLEAN,
    phase      : Phases \cup {NULL} ]

TypeOK ==
  /\ layers \in Layers /\ face \in Faces
  /\ balance \in Nat /\ decimals \in Decimals /\ chain \in BOOLEAN
  /\ check.pc \in {"idle", "unpaid", "rpc", "decimals", "balance", "done"}
  /\ run \in RunState
  /\ \A p \in sent : p.to[2] \in Hosts
  /\ {changed, trouble} \subseteq BOOLEAN

-----------------------------------------------------------------------------
(* Reports of a failed run (buyer-diagnostics.ts).                         *)

(* inferStageFromError: errors of the wrapper name their stage, others are *)
(* of the stage the run is in.                                             *)
InferStageFromError(error, stage) ==
  CASE error = "parse"   -> "decode_payment_requirements"
    [] error = "payload" -> "create_payment_payload"
    [] OTHER             -> stage

ResolveFailurePhase(stage) ==
  CASE stage = "validate_guards" -> "before_account_construction"
    [] stage \in {"construct_account", "initial_unpaid_request",
                  "decode_payment_requirements"} -> "before_signing"
    [] stage = "create_payment_payload" -> "during_local_signing"
    [] stage = "submit_paid_request"    -> "during_paid_submission"
    [] stage = "read_resource_response" -> "during_settlement_parsing"
    [] OTHER -> "before_signing"

LikelySentOnceRead(stage) == stage = "read_resource_response"

PaymentBearingRequestLikelySent(stage) ==
  stage \in {"submit_paid_request", "read_resource_response"}

RunFails(error, stage) ==
  LET s == InferStageFromError(error, stage)
  IN run' = [run EXCEPT !.pc = "done", !.result = "failed", !.stage = s,
                        !.phase = ResolveFailurePhase(s),
                        !.likelySent = PaymentBearingRequestLikelySent(s)]

-----------------------------------------------------------------------------
(* The payment run.                                                        *)

Start ==
  /\ run.pc = "idle"
  /\ CASE ~ EvaluateBuyerGuards(env) -> RunFails("other", "validate_guards")
       [] EvaluateBuyerGuards(env) /\ env["EVM_PRIVATE_KEY"] = "offCurve" ->
            RunFails("other", "construct_account")
       [] OTHER -> run' = [run EXCEPT !.pc = "unpaid", !.stage = "initial_unpaid_request"]
  /\ UNCHANGED <<world, check, sent, changed, trouble>>

(* fetch throws: the network, or a redirect (redirect: "error").           *)
UnpaidThrows ==
  /\ run.pc = "unpaid"
  /\ trouble' = (trouble \/ ~ face.redirects)
  /\ RunFails("other", run.stage)
  /\ UNCHANGED <<world, check, sent, changed>>

(* The request with the payment goes out once, and follows no redirect.    *)
Pay(u, r) == sent' = sent \cup {[to |-> Origin(u), terms |-> r]}

(* The wrapper's way from the first answer to the second request; the      *)
(* instrumented fetch names the stage of each.                             *)
UnpaidAnswers ==
  LET kept == CreateBaseSepoliaPaymentPolicy(face.offer, ExpectedPayTo)
  IN /\ run.pc = "unpaid"
     /\ ~ face.redirects
     /\ \/ /\ face.status # 402
           /\ run' = [run EXCEPT !.pc = "body", !.status = face.status,
                                 !.stage = "read_resource_response"]
           /\ UNCHANGED sent
        \/ /\ face.status = 402 /\ face.header # "terms"
           /\ RunFails("parse", run.stage)
           /\ UNCHANGED sent
        \/ /\ face.status = 402 /\ face.header = "terms" /\ kept = {}
           /\ RunFails("payload", run.stage)
           /\ UNCHANGED sent
        \/ /\ face.status = 402 /\ face.header = "terms"
           /\ run' = [run EXCEPT !.pc = "paying", !.stage = "submit_paid_request"]
           /\ \E i \in SelectBaseSepoliaPaymentRequirement(kept) :
                Pay(env["API_URL"], face.offer[i])
     /\ UNCHANGED <<world, check, changed, trouble>>

(* The seller settles the payment, or refuses it.                          *)
SellerDecides ==
  /\ run.pc = "paying"
  /\ ~ face.redirects
  /\ \/ /\ balance >= 1000
        /\ balance' = balance - 1000
        /\ run' = [run EXCEPT !.pc = "settled"]
     \/ /\ balance < 1000
        /\ run' = [run EXCEPT !.pc = "refused"]
        /\ UNCHANGED balance
  /\ UNCHANGED <<layers, face, decimals, chain, check, sent, changed, trouble>>

PaidAnswers ==
  /\ run.pc \in {"settled", "refused"}
  /\ run' = [run EXCEPT !.pc = "body", !.stage = "read_resource_response",
                        !.status = IF run.pc = "settled" THEN 200 ELSE 402]
  /\ UNCHANGED <<world, check, sent, changed, trouble>>

(* No answer: the request or its answer is lost, or it is redirected.      *)
PaidThrows ==
  /\ run.pc \in {"paying", "settled", "refused"}
  /\ trouble' = (trouble \/ ~ (run.pc = "paying" /\ face.redirects))
  /\ RunFails("other", run.stage)
  /\ UNCHANGED <<world, check, sent, changed>>

(* A body that breaks off fails the run; one that is no JSON, and a        *)
(* settlement header that cannot be decoded, do not.                       *)
ReadBody ==
  /\ run.pc = "body"
  /\ \/ /\ run' = [run EXCEPT !.pc = "done", !.result = "ok"]
        /\ UNCHANGED trouble
     \/ /\ RunFails("other", run.stage)
        /\ trouble' = TRUE
  /\ UNCHANGED <<world, check, sent, changed>>

RunNext ==
  \/ Start \/ UnpaidThrows \/ UnpaidAnswers
  \/ SellerDecides \/ PaidAnswers \/ PaidThrows \/ ReadBody

-----------------------------------------------------------------------------
(* The world changes once.                                                 *)
SellerChanges ==
  /\ ~ changed /\ changed' = TRUE
  /\ face' \in Faces
  /\ UNCHANGED <<layers, balance, decimals, chain, check, run, sent, trouble>>

BalanceChanges ==
  /\ ~ changed /\ changed' = TRUE
  /\ balance' \in Balances
  /\ UNCHANGED <<layers, face, decimals, chain, check, run, sent, trouble>>
=============================================================================
