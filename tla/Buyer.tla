------------------------------- MODULE Buyer -------------------------------
(***************************************************************************)
(* The preflight (buyer-preflight.ts) and its composition with the payment *)
(* run.  A report is the set of the results the stages have pushed; what   *)
(* needs no await after a step's is pushed by that step.                   *)
(*                                                                         *)
(* The chain is external: a node that answers with its chain id, the       *)
(* token's decimals and the buyer's balance, or fails.                     *)
(***************************************************************************)
EXTENDS BuyerRun

BASE_SEPOLIA_USDC_DECIMALS == 6
MIN_PAYMENT_UNITS == 1000

Result(stage, status) == [stage |-> stage, status |-> status]

Failure(stage) == Result(stage, "FAIL")

PassIf(ok, stage) == IF ok THEN Result(stage, "PASS") ELSE Failure(stage)

Push(pc, results) == check' = [pc |-> pc, stages |-> check.stages \cup results]

(* finalizePreflight                                                       *)
Overall == IF \E s \in check.stages : s.status = "FAIL" THEN "FAIL" ELSE "PASS"

CheckGuards ==
  /\ check.pc = "idle"
  /\ IF EvaluateBuyerGuards(env)
       THEN Push("unpaid", {Result("environment_validation", "PASS"),
                            Result("api_url_guard", "PASS"),
                            Result("remote_origin_guard", "PASS")})
       ELSE Push("done", {Failure("environment_validation")})
  /\ UNCHANGED <<world, run, sent, changed, trouble>>

CheckUnpaidThrows ==
  /\ check.pc = "unpaid"
  /\ trouble' = (trouble \/ ~ face.redirects)
  /\ Push("done", {Failure("unpaid_http_request")})
  /\ UNCHANGED <<world, run, sent, changed>>

(* Without a header there is nothing to validate; an answer that has one   *)
(* and another status is reported as if it had none.                       *)
CheckHeader ==
  /\ face.status # 402 \/ face.header = "none"
  /\ Push("done", {PassIf(face.status = 402, "unpaid_http_request"),
                   Failure("payment_term_validation")})

CheckGarbled ==
  /\ face.status = 402 /\ face.header = "garbled"
  /\ Push("done", {Result("unpaid_http_request", "PASS"),
                   Failure("payment_term_validation")})

(* A failed validation leaves no requirement to check prerequisites of.    *)
CheckTerms ==
  LET ok      == ValidateBaseSepoliaPaymentRequirements(face.offer, ExpectedPayTo)
      account == env["EVM_PRIVATE_KEY"] # "offCurve"
  IN /\ face.status = 402 /\ face.header = "terms"
     /\ Push(IF account THEN "rpc" ELSE "done",
             {Result("unpaid_http_request", "PASS"),
              PassIf(ok, "payment_term_validation"),
              PassIf(ok /\ PaymentPayloadPrerequisites(face.offer[1]),
                     "payment_payload_prerequisites"),
              PassIf(account, "local_account_construction")})

CheckUnpaid ==
  /\ check.pc = "unpaid"
  /\ ~ face.redirects
  /\ CheckHeader \/ CheckGarbled \/ CheckTerms
  /\ UNCHANGED <<world, run, sent, changed, trouble>>

CheckChain ==
  /\ check.pc = "rpc"
  /\ \/ /\ Push("decimals", {Result("base_sepolia_rpc_connection", "PASS"),
                             PassIf(chain, "chain_id_verification")})
        /\ UNCHANGED trouble
     \/ /\ Push("done", {Failure("base_sepolia_rpc_connection"),
                         Result("chain_id_verification", "SKIP")})
        /\ trouble' = TRUE
  /\ UNCHANGED <<world, run, sent, changed>>

CheckMetadata ==
  /\ check.pc = "decimals"
  /\ \/ /\ Push("balance", {Result("test_usdc_metadata_query", "PASS")})
        /\ UNCHANGED trouble
     \/ /\ Push("done", {Failure("test_usdc_metadata_query"),
                         Result("buyer_balance_sufficient", "SKIP")})
        /\ trouble' = TRUE
  /\ UNCHANGED <<world, run, sent, changed>>

MinimumUnitsScaled ==
  IF decimals >= BASE_SEPOLIA_USDC_DECIMALS THEN MIN_PAYMENT_UNITS
  ELSE MIN_PAYMENT_UNITS \div 10 ^ (BASE_SEPOLIA_USDC_DECIMALS - decimals)

MinimumUnits ==
  IF decimals >= BASE_SEPOLIA_USDC_DECIMALS THEN MIN_PAYMENT_UNITS
  ELSE MIN_PAYMENT_UNITS * 10 ^ (BASE_SEPOLIA_USDC_DECIMALS - decimals)

Attempts ==
  {Result(s, "NOT_ATTEMPTED") : s \in {"live_signing", "paid_request", "settlement"}}

(* A failing read of the balance does not end the preflight.               *)
CheckBalance ==
  /\ check.pc = "balance"
  /\ \/ /\ Push("done",
                {PassIf(balance >= MinimumUnits, "buyer_balance_sufficient")}
                \cup {Result("x402_client_construction", "PASS"),
                      Result("facilitator_read_only_check", "SKIP")} \cup Attempts)
        /\ UNCHANGED trouble
     \/ /\ Push("done",
                {Failure("buyer_balance_sufficient")}
                \cup {Result("x402_client_construction", "PASS"),
                      Result("facilitator_read_only_check", "SKIP")} \cup Attempts)
        /\ trouble' = TRUE
  /\ UNCHANGED <<world, run, sent, changed>>

-----------------------------------------------------------------------------
Init ==
  /\ layers \in Layers /\ face \in Faces
  /\ balance \in Balances /\ decimals \in Decimals /\ chain \in BOOLEAN
  /\ check = [pc |-> "idle", stages |-> {}]
  /\ run = [pc |-> "idle", stage |-> NULL, status |-> NULL, result |-> NULL,
            likelySent |-> FALSE, phase |-> NULL]
  /\ sent = {}
  /\ changed = FALSE /\ trouble = FALSE

Next ==
  \/ CheckGuards \/ CheckUnpaidThrows \/ CheckUnpaid
  \/ CheckChain \/ CheckMetadata \/ CheckBalance
  \/ RunNext
  \/ SellerChanges \/ BalanceChanges

Spec == Init /\ [][Next]_vars

-----------------------------------------------------------------------------
(* Properties.                                                             *)

Configured(to) ==
  \/ to \in {<<"http", h, "8787">> : h \in LocalHosts}
  \/ /\ to = Origin(Setting(env, "EXPECTED_REMOTE_API_ORIGIN"))
     /\ to[1] = "https" /\ to[2] \in WorkersDev

(* "One explicit click authorizes at most one testnet payment attempt":    *)
(* a run sends one payment at most, to the local Worker or to the remote   *)
(* one the operator named, whatever the seller does in between; what it    *)
(* signs is what the policy asks for, in favour of the seller the operator *)
(* expects.                                                                *)
PaymentAsConfigured ==
  \A p \in sent :
    /\ sent = {p}
    /\ p.terms = Requirement(Setting(env, "EXPECTED_PAY_TO_ADDRESS"))
    /\ Configured(p.to)

(* A refusal in the process's own environment stands, whatever the files   *)
(* .env.buyer and .env allow.                                              *)
RefusalStands ==
  sent # {} =>
    \/ "ALLOW_TESTNET_PAYMENT" \notin DOMAIN layers.process
    \/ layers.process["ALLOW_TESTNET_PAYMENT"] = "true"

(* A run pays what the operator configured, and only if he lets it pay.    *)
OperatorObeyed == PaymentAsConfigured /\ RefusalStands

(* A report of failure that denies that a payment was sent, by             *)
(* paymentBearingRequestLikelySent or by its phase, is right: running      *)
(* again is safe then.                                                     *)
NothingSentIsTrue ==
  run.result = "failed"
    /\ (~ run.likelySent \/ run.phase \in {"before_account_construction",
                                           "before_signing", "during_local_signing"})
    => sent = {}

(* A preflight that passes has made every check: no early return passes.   *)
PassMeansChecked ==
  check.pc = "done" /\ Overall = "PASS" =>
    \A s \in {"environment_validation", "unpaid_http_request",
              "payment_term_validation", "payment_payload_prerequisites",
              "local_account_construction", "chain_id_verification",
              "buyer_balance_sufficient", "x402_client_construction"} :
      Result(s, "PASS") \in check.stages

(* The preflight is a rehearsal of the run: if it passes and neither the   *)
(* seller nor the balance changes nor a request fails, the run pays and is *)
(* served.                                                                 *)
PreflightPredicts ==
  /\ check.pc = "done" /\ Overall = "PASS" /\ run.pc = "done"
  /\ ~ changed /\ ~ trouble
  => run.result = "ok" /\ run.status = 200 /\ sent # {}

(* A pass of the preflight has been earned by every check and foretells    *)
(* what the run will do.                                                   *)
PassIsReliable == PassMeansChecked /\ PreflightPredicts
=============================================================================
