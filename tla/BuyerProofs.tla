---------------------------- MODULE BuyerProofs ----------------------------
(***************************************************************************)
(* What a run of the buyer signs and reports, and what a preflight that    *)
(* passes foretells of it, for any environment, any seller, any balance    *)
(* and any decimals.                                                       *)
(***************************************************************************)
EXTENDS Buyer, TLAPS

(* Where the run stands, its stage is.                                     *)
StageFits ==
  /\ run.pc = "unpaid" => run.stage = "initial_unpaid_request"
  /\ run.pc \in {"paying", "settled", "refused"} => run.stage = "submit_paid_request"
  /\ run.pc = "body" => run.stage = "read_resource_response"

(* Past the guards the environment is one they admit; a payment is sent    *)
(* only from there, and a failure after it has a stage that says so.       *)
Guarded == run.pc \notin {"idle", "done"} \/ sent # {} => EvaluateBuyerGuards(env)

SentLate ==
  /\ run.pc \in {"idle", "unpaid"} => sent = {}
  /\ run.result = "failed" => run.pc = "done"
  /\ run.pc = "done" /\ run.result = "failed" /\ sent # {} =>
       /\ run.likelySent
       /\ run.phase \in {"during_paid_submission", "during_settlement_parsing"}

IInv ==
  /\ run \in RunState /\ face \in Faces
  /\ StageFits /\ Guarded /\ SentLate
  /\ PaymentAsConfigured

LEMMA MatchIsRequirement ==
  ASSUME NEW r \in Options, NEW p, MatchesBaseSepoliaPaymentTerms(r, p)
  PROVE  r = Requirement(p)
BY DEF Options, MatchesBaseSepoliaPaymentTerms, Requirement

(* The client selects an option that matches.                              *)
LEMMA SelectedMatches ==
  ASSUME NEW f \in Faces, NEW p,
         NEW i \in SelectBaseSepoliaPaymentRequirement(
                      CreateBaseSepoliaPaymentPolicy(f.offer, p))
  PROVE  f.offer[i] = Requirement(p)
<1>1. f.offer \in Seq(Options)
  BY RunAssumption
<1>2. i \in DOMAIN f.offer /\ MatchesBaseSepoliaPaymentTerms(f.offer[i], p)
  BY DEF CreateBaseSepoliaPaymentPolicy, SelectBaseSepoliaPaymentRequirement
<1>3. f.offer[i] \in Options
  BY <1>1, <1>2
<1> QED BY <1>2, <1>3, MatchIsRequirement

(* A URL the guards admit is local, or of the origin that is configured.   *)
LEMMA AdmittedUrl ==
  ASSUME EvaluateBuyerGuards(env)
  PROVE  /\ Configured(Origin(env["API_URL"]))
         /\ Setting(env, "EXPECTED_PAY_TO_ADDRESS") = ExpectedPayTo
<1> DEFINE u == Setting(env, "API_URL")
           o == Setting(env, "EXPECTED_REMOTE_API_ORIGIN")
<1>1. ValidateApiUrl(u, o) /\ Setting(env, "EXPECTED_PAY_TO_ADDRESS") \in PayTo
  BY DEF EvaluateBuyerGuards, ValidateExpectedPayToAddress
<1>2. u # NULL /\ Setting(env, "EXPECTED_PAY_TO_ADDRESS") # NULL
  BY <1>1, RunAssumption DEF ValidateApiUrl
<1>3. u = env["API_URL"]
  BY <1>2 DEF Setting
<1>4. Setting(env, "EXPECTED_PAY_TO_ADDRESS") = ExpectedPayTo
  BY <1>2 DEF Setting, ExpectedPayTo
<1> HIDE DEF u, o
<1>5. CASE IsLocal(u)
  BY <1>3, <1>4, <1>5 DEF IsLocal, Configured, Origin
<1>6. CASE u.scheme = "https" /\ Origin(u) = Origin(o) /\ u.host \in WorkersDev
  <2>1. Origin(u)[1] = "https" /\ Origin(u)[2] \in WorkersDev
    BY <1>6 DEF Origin
  <2> QED BY <1>3, <1>4, <1>6, <2>1 DEF Configured, o
<1> QED BY <1>1, <1>5, <1>6 DEF ValidateApiUrl

-----------------------------------------------------------------------------
(* A run that fails before it has sent anything, or from a stage after it. *)
LEMMA FailsInv ==
  ASSUME IInv, NEW error \in {"parse", "payload", "other"}, NEW stage \in BuyerStages,
         RunFails(error, stage), UNCHANGED <<layers, sent>>, face' \in Faces,
         \/ run.pc \in {"idle", "unpaid"}
         \/ error = "other" /\ stage \in {"submit_paid_request", "read_resource_response"}
  PROVE  IInv'
<1> DEFINE s == InferStageFromError(error, stage)
<1>1. run \in RunState
  BY DEF IInv
<1>2. s \in BuyerStages
  BY DEF InferStageFromError, BuyerStages
<1>3. sent # {} => s \in {"submit_paid_request", "read_resource_response"}
  BY DEF InferStageFromError, IInv, SentLate
<1> HIDE DEF s
<1>4. ResolveFailurePhase(s) \in Phases
  BY <1>2 DEF ResolveFailurePhase, BuyerStages, Phases
<1>5. sent # {} => ResolveFailurePhase(s) \in {"during_paid_submission",
                                              "during_settlement_parsing"}
  BY <1>3 DEF ResolveFailurePhase
<1>6. sent # {} => PaymentBearingRequestLikelySent(s)
  BY <1>3 DEF PaymentBearingRequestLikelySent
<1>7. PaymentBearingRequestLikelySent(s) \in BOOLEAN
  BY DEF PaymentBearingRequestLikelySent
<1>8. run' = [run EXCEPT !.pc = "done", !.result = "failed", !.stage = s,
                         !.phase = ResolveFailurePhase(s),
                         !.likelySent = PaymentBearingRequestLikelySent(s)]
  BY DEF RunFails, s
<1>9. /\ run'.pc = "done" /\ run'.result = "failed"
      /\ run'.phase = ResolveFailurePhase(s)
      /\ run'.likelySent = PaymentBearingRequestLikelySent(s)
  BY <1>1, <1>8 DEF RunState
<1>10. run' \in RunState
  BY <1>1, <1>2, <1>4, <1>7, <1>8 DEF RunState
<1>11. StageFits' /\ SentLate'
  BY <1>5, <1>6, <1>9 DEF StageFits, SentLate
<1>12. env' = env
  BY DEF env
<1>13. Guarded'
  BY <1>9, <1>12 DEF IInv, Guarded
<1>14. PaymentAsConfigured'
  BY <1>12 DEF IInv, PaymentAsConfigured, Configured
<1> QED BY <1>10, <1>11, <1>13, <1>14 DEF IInv

LEMMA RunInv ==
  ASSUME IInv, RunNext
  PROVE  IInv'
<1>1. run \in RunState /\ face \in Faces /\ StageFits /\ Guarded /\ SentLate
      /\ PaymentAsConfigured
  BY DEF IInv
<1> USE DEF BuyerStages
<1>2. UNCHANGED layers /\ env' = env /\ face' \in Faces
  BY <1>1 DEF RunNext, Start, UnpaidThrows, UnpaidAnswers, SellerDecides, PaidAnswers,
              PaidThrows, ReadBody, world, env
<1>3. \A to : Configured(to)' = Configured(to)
  BY <1>2 DEF Configured
<1>4. UNCHANGED sent => PaymentAsConfigured'
  BY <1>1, <1>2, <1>3 DEF PaymentAsConfigured
<1>5. CASE Start
  <2>1. run.pc = "idle" /\ sent = {} /\ UNCHANGED sent /\ run.result # "failed"
    BY <1>1, <1>5 DEF Start, SentLate
  <2>2. CASE EvaluateBuyerGuards(env) /\ env["EVM_PRIVATE_KEY"] # "offCurve"
    <3>1. run' = [run EXCEPT !.pc = "unpaid", !.stage = "initial_unpaid_request"]
      BY <1>5, <2>2 DEF Start
    <3>2. run' \in RunState /\ run'.pc = "unpaid" /\ run'.stage = "initial_unpaid_request"
          /\ run'.result = run.result
      BY <1>1, <3>1 DEF RunState, BuyerStages
    <3> QED BY <1>2, <1>4, <2>1, <2>2, <3>2 DEF IInv, StageFits, Guarded, SentLate
  <2>3. CASE ~ EvaluateBuyerGuards(env)
    <3>1. RunFails("other", "validate_guards")
      BY <1>5, <2>3 DEF Start
    <3> QED BY <1>2, <2>1, <3>1, FailsInv DEF BuyerStages
  <2>4. CASE EvaluateBuyerGuards(env) /\ env["EVM_PRIVATE_KEY"] = "offCurve"
    <3>1. RunFails("other", "construct_account")
      BY <1>5, <2>4 DEF Start
    <3> QED BY <1>2, <2>1, <3>1, FailsInv DEF BuyerStages
  <2> QED BY <2>2, <2>3, <2>4
<1>6. CASE UnpaidThrows
  <2>1. run.pc = "unpaid" /\ UNCHANGED sent /\ RunFails("other", run.stage)
        /\ run.stage = "initial_unpaid_request"
    BY <1>1, <1>6 DEF UnpaidThrows, SentLate, StageFits
  <2> QED BY <1>2, <2>1, FailsInv DEF BuyerStages
<1>7. CASE UnpaidAnswers
  <2>1. run.pc = "unpaid" /\ sent = {} /\ run.stage = "initial_unpaid_request"
        /\ EvaluateBuyerGuards(env)
        /\ run.result # "failed"
    BY <1>1, <1>7 DEF UnpaidAnswers, SentLate, StageFits, Guarded
  <2>2. ASSUME NEW error \in {"parse", "payload"}, RunFails(error, run.stage),
               UNCHANGED sent
        PROVE  IInv'
    BY <1>2, <2>1, <2>2, FailsInv DEF BuyerStages
  <2>3. ASSUME run' = [run EXCEPT !.pc = "body", !.status = face.status,
                                  !.stage = "read_resource_response"],
               UNCHANGED sent
        PROVE  IInv'
    <3>1. face.status \in Nat
      BY <1>1, RunAssumption
    <3>2. run' \in RunState /\ run'.pc = "body" /\ run'.stage = "read_resource_response"
          /\ run'.result = run.result
      BY <1>1, <2>3, <3>1 DEF RunState, BuyerStages
    <3> QED BY <1>2, <1>4, <2>1, <2>3, <3>2 DEF IInv, StageFits, Guarded, SentLate
  <2>4. ASSUME run' = [run EXCEPT !.pc = "paying", !.stage = "submit_paid_request"],
               NEW i \in SelectBaseSepoliaPaymentRequirement(
                            CreateBaseSepoliaPaymentPolicy(face.offer, ExpectedPayTo)),
               Pay(env["API_URL"], face.offer[i])
        PROVE  IInv'
    <3>1. run' \in RunState /\ run'.pc = "paying" /\ run'.stage = "submit_paid_request"
          /\ run'.result = run.result
      BY <1>1, <2>4 DEF RunState, BuyerStages
    <3>2. sent' = {[to |-> Origin(env["API_URL"]), terms |-> Requirement(ExpectedPayTo)]}
      <4>1. face.offer[i] = Requirement(ExpectedPayTo)
        BY <1>1, SelectedMatches
      <4> QED BY <2>1, <2>4, <4>1 DEF Pay
    <3>3. PaymentAsConfigured'
      BY <1>2, <1>3, <2>1, <3>2, AdmittedUrl DEF PaymentAsConfigured
    <3> QED BY <1>2, <2>1, <3>1, <3>3 DEF IInv, StageFits, Guarded, SentLate
  <2> QED BY <1>7, <2>2, <2>3, <2>4 DEF UnpaidAnswers
<1>8. CASE SellerDecides
  <2>1. PICK pc \in {"settled", "refused"} : run' = [run EXCEPT !.pc = pc]
    BY <1>8 DEF SellerDecides
  <2>2. run.pc = "paying" /\ UNCHANGED sent
    BY <1>8 DEF SellerDecides
  <2>3. run' \in RunState /\ run'.pc = pc /\ run'.stage = run.stage
        /\ run'.result = run.result
    BY <1>1, <2>1 DEF RunState
  <2> QED BY <1>1, <1>2, <1>4, <2>2, <2>3 DEF IInv, StageFits, Guarded, SentLate
<1>11. CASE PaidAnswers
  <2> DEFINE answered == IF run.pc = "settled" THEN 200 ELSE 402
  <2>0. answered \in Nat
    OBVIOUS
  <2>1. run' = [run EXCEPT !.pc = "body", !.stage = "read_resource_response",
                           !.status = answered]
    BY <1>11 DEF PaidAnswers
  <2> HIDE DEF answered
  <2>2. run.pc \in {"settled", "refused"} /\ UNCHANGED sent
    BY <1>11 DEF PaidAnswers
  <2>3. run' \in RunState /\ run'.pc = "body" /\ run'.result = run.result
        /\ run'.stage = "read_resource_response"
    BY <1>1, <2>0, <2>1 DEF RunState
  <2> QED BY <1>1, <1>2, <1>4, <2>2, <2>3 DEF IInv, StageFits, Guarded, SentLate
<1>9. CASE PaidThrows
  <2>1. UNCHANGED sent /\ RunFails("other", run.stage) /\ run.stage = "submit_paid_request"
    BY <1>1, <1>9 DEF PaidThrows, StageFits
  <2> QED BY <1>2, <2>1, FailsInv DEF BuyerStages
<1>10. CASE ReadBody
  <2>1. UNCHANGED sent /\ run.pc = "body" /\ run.stage = "read_resource_response"
    BY <1>1, <1>10 DEF ReadBody, StageFits
  <2>2. CASE run' = [run EXCEPT !.pc = "done", !.result = "ok"]
    <3>1. run' \in RunState /\ run'.pc = "done" /\ run'.result = "ok"
      BY <1>1, <2>2 DEF RunState
    <3> QED BY <1>1, <1>2, <1>4, <2>1, <3>1 DEF IInv, StageFits, Guarded, SentLate
  <2>3. CASE RunFails("other", run.stage)
    BY <1>2, <2>1, <2>3, FailsInv DEF BuyerStages
  <2> QED BY <1>10, <2>2, <2>3 DEF ReadBody
<1> QED BY <1>5, <1>6, <1>7, <1>8, <1>9, <1>10, <1>11 DEF RunNext

LEMMA InitInv == Init => IInv
<1> SUFFICES ASSUME Init PROVE IInv
  OBVIOUS
<1>0. run = [pc |-> "idle", stage |-> NULL, status |-> NULL, result |-> NULL,
             likelySent |-> FALSE, phase |-> NULL]
  BY DEF Init
<1>1. run \in RunState
  BY <1>0 DEF RunState
<1>3. run.pc = "idle" /\ run.result = NULL /\ sent = {} /\ face \in Faces
  BY <1>0 DEF Init
<1>2. NULL # "failed"
  BY RunAssumption
<1>4. StageFits /\ SentLate
  BY <1>2, <1>3 DEF StageFits, SentLate
<1>5. Guarded
  BY <1>3 DEF Guarded
<1>6. PaymentAsConfigured
  BY <1>3 DEF PaymentAsConfigured
<1> QED BY <1>1, <1>3, <1>4, <1>5, <1>6 DEF IInv

LEMMA NextInv == IInv /\ [Next]_vars => IInv'
<1> SUFFICES ASSUME IInv, [Next]_vars PROVE IInv'
  OBVIOUS
<1>1. CASE RunNext
  BY <1>1, RunInv
<1>2. CASE UNCHANGED <<layers, run, sent>> /\ face' \in Faces
  <2>1. env' = env
    BY <1>2 DEF env
  <2> QED BY <1>2, <2>1 DEF IInv, StageFits, Guarded, SentLate, PaymentAsConfigured,
                            Configured
<1>3. CASE \/ CheckGuards \/ CheckUnpaidThrows \/ CheckUnpaid
           \/ CheckChain \/ CheckMetadata \/ CheckBalance
  BY <1>2, <1>3 DEF IInv, CheckGuards, CheckUnpaidThrows, CheckUnpaid, CheckChain,
                    CheckMetadata, CheckBalance, world
<1>4. CASE SellerChanges \/ BalanceChanges \/ UNCHANGED vars
  BY <1>2, <1>4 DEF IInv, SellerChanges, BalanceChanges, vars, world
<1> QED BY <1>1, <1>3, <1>4 DEF Next

-----------------------------------------------------------------------------
(* The invariant holds in every behaviour.                                 *)
THEOREM BuyerInvariance == Spec => []IInv
BY InitInv, NextInv, PTL DEF Spec

(* A process that is told not to pay does not, whatever its files say      *)
(* (loadEnvFile).                                                          *)
LEMMA RefusalInv == IInv => RefusalStands
<1> SUFFICES ASSUME IInv, sent # {}, "ALLOW_TESTNET_PAYMENT" \in DOMAIN layers.process
             PROVE  layers.process["ALLOW_TESTNET_PAYMENT"] = "true"
  BY DEF RefusalStands
<1> DEFINE k == "ALLOW_TESTNET_PAYMENT"
           e == LoadEnvFile(layers.process, layers.envBuyer)
<1>1. Setting(env, k) = "true"
  BY DEF IInv, Guarded, EvaluateBuyerGuards, ParseBoolFlag
<1>2. k \in DOMAIN e /\ e[k] = layers.process[k]
  BY DEF LoadEnvFile
<1>3. env = LoadEnvFile(e, layers.env)
  BY DEF env, LoadBuyerEnv
<1> HIDE DEF e, k
<1>4. k \in DOMAIN env /\ env[k] = layers.process[k]
  BY <1>2, <1>3 DEF LoadEnvFile
<1> QED BY <1>1, <1>4 DEF Setting, k

(* Whatever the seller offers and however often it changes its mind, a run *)
(* sends one payment at most, of the expected terms, where it is           *)
(* configured to, and only if it may pay (payment-policy.ts,               *)
(* buyer-guards.ts, loadEnvFile).                                          *)
THEOREM BuyerObeysOperator == Spec => []OperatorObeyed
<1>1. IInv => OperatorObeyed
  BY RefusalInv DEF IInv, OperatorObeyed
<1> QED BY <1>1, BuyerInvariance, PTL

(* A failed run that says it sent nothing sent nothing                     *)
(* (paymentBearingRequestLikelySent, resolveFailurePhase).                 *)
THEOREM BuyerReportsTruly == Spec => []NothingSentIsTrue
<1>1. IInv => NothingSentIsTrue
  <2> SUFFICES ASSUME IInv, run.result = "failed", sent # {}
               PROVE  /\ run.likelySent
                      /\ run.phase \notin {"before_account_construction",
                                           "before_signing", "during_local_signing"}
    BY DEF NothingSentIsTrue
  <2>1. CASE run.pc = "done"
    BY <2>1 DEF IInv, SentLate
  <2>2. CASE run.pc # "done"
    BY <2>2 DEF IInv, SentLate
  <2> QED BY <2>1, <2>2
<1> QED BY <1>1, BuyerInvariance, PTL

-----------------------------------------------------------------------------
(* What a pass of the preflight is worth.                                  *)

Passed(stage) == Result(stage, "PASS") \in check.stages
NoFailure == \A s \in check.stages : s.status # "FAIL"

TermsPassed ==
  /\ Passed("environment_validation") /\ Passed("unpaid_http_request")
  /\ Passed("payment_term_validation") /\ Passed("payment_payload_prerequisites")
  /\ Passed("local_account_construction")

AllPassed ==
  /\ TermsPassed /\ Passed("chain_id_verification")
  /\ Passed("buyer_balance_sufficient") /\ Passed("x402_client_construction")

(* A report without a failure has every check in it that the preflight has *)
(* come past.                                                              *)
Complete ==
  NoFailure =>
    /\ check.pc = "unpaid" => Passed("environment_validation")
    /\ check.pc = "rpc" => TermsPassed
    /\ check.pc \in {"decimals", "balance"} => TermsPassed /\ Passed("chain_id_verification")
    /\ check.pc = "done" => AllPassed

(* The environment and the seller that the preflight has seen pay.         *)
Account == env["EVM_PRIVATE_KEY"] # "offCurve"

Offers ==
  /\ ~ face.redirects /\ face.status = 402 /\ face.header = "terms"
  /\ ValidateBaseSepoliaPaymentRequirements(face.offer, ExpectedPayTo)

Settled == run.pc = "settled" \/ (run.pc \in {"body", "done"} /\ run.status = 200)

(* What has passed is so, as long as nothing changes.                      *)
PassedIsSo ==
  /\ Passed("environment_validation") => EvaluateBuyerGuards(env)
  /\ Passed("local_account_construction") => Account
  /\ ~ changed /\ Passed("payment_term_validation") => Offers
  /\ ~ changed /\ ~ trouble /\ Passed("buyer_balance_sufficient") =>
       balance >= 1000 \/ Settled

(* With such an environment and such a seller the run gets as far as the   *)
(* seller's decision.                                                      *)
GetsPaid ==
  /\ run.pc \notin {"idle", "unpaid"} => sent # {}
  /\ run.pc = "refused" => balance < 1000
  /\ run.pc \in {"body", "done"} =>
       run.status = 200 \/ (run.status = 402 /\ balance < 1000)
  /\ run.pc = "done" => run.result = "ok"

RunFollows ==
  ~ changed /\ ~ trouble /\ EvaluateBuyerGuards(env) /\ Account /\ Offers => GetsPaid

Amounts == balance \in Nat /\ decimals \in Nat

PassInv == Amounts /\ Complete /\ PassedIsSo /\ RunFollows

LEMMA PowersOfTen ==
  ASSUME NEW n \in 1 .. 6
  PROVE  10 ^ n \in Nat \ {0}
<1>1. CASE n = 1
  BY <1>1
<1>2. CASE n = 2
  BY <1>2
<1>3. CASE n = 3
  BY <1>3
<1>4. CASE n = 4
  BY <1>4
<1>5. CASE n = 5
  BY <1>5
<1>6. CASE n = 6
  BY <1>6
<1> QED
  BY <1>1, <1>2, <1>3, <1>4, <1>5, <1>6

(* The minimum the preflight asks for covers the payment, whatever number  *)
(* of decimals the token says it has.                                      *)
LEMMA MinimumCovers ==
  ASSUME decimals \in Nat
  PROVE  MinimumUnits \in Nat /\ MinimumUnits >= 1000
<1>1. CASE decimals >= 6
  BY <1>1 DEF MinimumUnits, BASE_SEPOLIA_USDC_DECIMALS, MIN_PAYMENT_UNITS
<1>2. CASE decimals < 6
  <2> DEFINE p == 10 ^ (6 - decimals)
  <2>1. 6 - decimals \in 1 .. 6
    BY <1>2
  <2>2. p \in Nat \ {0}
    BY <2>1, PowersOfTen
  <2>3. MinimumUnits = 1000 * p
    BY <1>2 DEF MinimumUnits, BASE_SEPOLIA_USDC_DECIMALS, MIN_PAYMENT_UNITS
  <2> HIDE DEF p
  <2> QED
    BY <2>2, <2>3
<1> QED
  BY <1>1, <1>2

(* What a step of the preflight pushes stays; a failure never passes.      *)
LEMMA Pushed ==
  ASSUME Amounts, NEW pc, NEW results, Push(pc, results)
  PROVE  /\ check'.pc = pc /\ check'.stages = check.stages \cup results
         /\ \A s : Passed(s)' <=> Passed(s) \/ Result(s, "PASS") \in results
         /\ NoFailure' <=> NoFailure /\ \A r \in results : r.status # "FAIL"
BY DEF Push, Passed, NoFailure

LEMMA ResultParts ==
  ASSUME NEW s, NEW t
  PROVE  /\ Result(s, t).stage = s /\ Result(s, t).status = t
         /\ \A s2, t2 : Result(s, t) = Result(s2, t2) <=> s = s2 /\ t = t2
<1>1. Result(s, t).stage = s /\ Result(s, t).status = t
  BY DEF Result
<1>2. ASSUME NEW s2, NEW t2
      PROVE  Result(s, t) = Result(s2, t2) <=> s = s2 /\ t = t2
  <2>1. Result(s2, t2).stage = s2 /\ Result(s2, t2).status = t2
    BY DEF Result
  <2> QED
    BY <1>1, <2>1
<1> QED
  BY <1>1, <1>2

(* A step of the preflight keeps the invariant if its report is complete   *)
(* and what it passes is so.                                               *)
LEMMA CheckStep ==
  ASSUME PassInv, NEW pc, NEW results, Push(pc, results),
         UNCHANGED <<world, run, sent, changed>>, trouble => trouble',
         Complete',
         Result("environment_validation", "PASS") \in results => EvaluateBuyerGuards(env),
         Result("local_account_construction", "PASS") \in results => Account,
         Result("payment_term_validation", "PASS") \in results => Offers,
         Result("buyer_balance_sufficient", "PASS") \in results => balance >= 1000
  PROVE  PassInv'
<1> USE DEF PassInv, world
<1>1. Amounts'
  BY DEF Amounts
<1>2. env' = env /\ (Account' <=> Account) /\ (Offers' <=> Offers) /\ (Settled' <=> Settled)
  BY DEF env, Account, Offers, Settled, ExpectedPayTo
<1>3. \A s : Passed(s)' <=> Passed(s) \/ Result(s, "PASS") \in results
  BY Pushed
<1>4. PassedIsSo'
  BY <1>2, <1>3 DEF PassedIsSo
<1>5. RunFollows'
  BY <1>2 DEF RunFollows, GetsPaid
<1> QED
  BY <1>1, <1>4, <1>5

LEMMA CheckGuardsKeeps == PassInv /\ CheckGuards => PassInv'
<1> SUFFICES ASSUME PassInv, CheckGuards PROVE PassInv'
  OBVIOUS
<1>1. Amounts /\ UNCHANGED <<world, run, sent, changed, trouble>>
  BY DEF PassInv, CheckGuards
<1>2. CASE EvaluateBuyerGuards(env)
  <2> DEFINE results == {Result("environment_validation", "PASS"),
                         Result("api_url_guard", "PASS"),
                         Result("remote_origin_guard", "PASS")}
  <2>1. Push("unpaid", results)
    BY <1>2 DEF CheckGuards
  <2>2. /\ Result("environment_validation", "PASS") \in results
        /\ Result("local_account_construction", "PASS") \notin results
        /\ Result("payment_term_validation", "PASS") \notin results
        /\ Result("buyer_balance_sufficient", "PASS") \notin results
    BY ResultParts
  <2> HIDE DEF results
  <2>3. check'.pc = "unpaid" /\ Passed("environment_validation")'
    BY <1>1, <2>1, <2>2, Pushed
  <2>4. Complete'
    BY <2>3 DEF Complete
  <2> QED
    BY <1>1, <1>2, <2>1, <2>2, <2>4, CheckStep
<1>3. CASE ~ EvaluateBuyerGuards(env)
  <2>1. Push("done", {Failure("environment_validation")})
    BY <1>3 DEF CheckGuards
  <2>2. \A s : Result(s, "PASS") \notin {Failure("environment_validation")}
    BY ResultParts DEF Failure
  <2>3. ~ NoFailure'
    BY <1>1, <2>1, Pushed, ResultParts DEF Failure
  <2> QED
    BY <1>1, <2>1, <2>2, <2>3, CheckStep DEF Complete
<1> QED
  BY <1>2, <1>3

(* A step that reports a failure and passes nothing that it has not seen.  *)
LEMMA FailingStep ==
  ASSUME PassInv, NEW pc, NEW results, Push(pc, results),
         UNCHANGED <<world, run, sent, changed>>, trouble => trouble',
         \E r \in results : r.status = "FAIL",
         Result("environment_validation", "PASS") \notin results,
         Result("local_account_construction", "PASS") \notin results,
         Result("payment_term_validation", "PASS") \notin results,
         Result("buyer_balance_sufficient", "PASS") \notin results
  PROVE  PassInv'
<1>1. ~ NoFailure'
  BY Pushed DEF PassInv
<1> QED
  BY <1>1, CheckStep DEF Complete

LEMMA CheckUnpaidKeeps == PassInv /\ (CheckUnpaidThrows \/ CheckUnpaid) => PassInv'
<1> SUFFICES ASSUME PassInv, CheckUnpaidThrows \/ CheckUnpaid PROVE PassInv'
  OBVIOUS
<1>t. trouble => trouble'
  <2>1. UNCHANGED trouble \/ trouble' = (trouble \/ ~ face.redirects)
    BY DEF CheckUnpaidThrows, CheckUnpaid
  <2> QED
    BY <2>1, Zenon
<1>1. /\ Amounts /\ Complete /\ check.pc = "unpaid"
      /\ UNCHANGED <<world, run, sent, changed>> /\ (trouble => trouble')
  BY <1>t DEF PassInv, CheckUnpaidThrows, CheckUnpaid
<1>2. CASE CheckUnpaidThrows
  <2> DEFINE results == {Failure("unpaid_http_request")}
  <2>1. Push("done", results)
    BY <1>2 DEF CheckUnpaidThrows
  <2>2. \E r \in results : r.status = "FAIL"
    BY ResultParts DEF Failure
  <2>3. \A s : Result(s, "PASS") \notin results
    BY ResultParts DEF Failure
  <2> HIDE DEF results
  <2> QED
    BY <1>1, <2>1, <2>2, <2>3, FailingStep
<1>3. CASE CheckHeader \/ CheckGarbled
  <2> DEFINE results(first) == {first, Failure("payment_term_validation")}
  <2>1. PICK status \in {"PASS", "FAIL"} :
          Push("done", results(Result("unpaid_http_request", status)))
    BY <1>3 DEF CheckHeader, CheckGarbled, PassIf, Failure
  <2> DEFINE pushed == results(Result("unpaid_http_request", status))
  <2>2. \E r \in pushed : r.status = "FAIL"
    BY ResultParts DEF Failure
  <2>3. /\ Result("environment_validation", "PASS") \notin pushed
        /\ Result("local_account_construction", "PASS") \notin pushed
        /\ Result("payment_term_validation", "PASS") \notin pushed
        /\ Result("buyer_balance_sufficient", "PASS") \notin pushed
    BY ResultParts DEF Failure
  <2> HIDE DEF results
  <2> QED
    BY <1>1, <2>1, <2>2, <2>3, FailingStep
<1>4. CASE CheckUnpaid /\ CheckTerms
  <2> DEFINE ok == ValidateBaseSepoliaPaymentRequirements(face.offer, ExpectedPayTo)
             account == env["EVM_PRIVATE_KEY"] # "offCurve"
             paysUnder == ok /\ PaymentPayloadPrerequisites(face.offer[1])
             results == {Result("unpaid_http_request", "PASS"),
                         PassIf(ok, "payment_term_validation"),
                         PassIf(paysUnder, "payment_payload_prerequisites"),
                         PassIf(account, "local_account_construction")}
  <2>1. /\ Push(IF account THEN "rpc" ELSE "done", results)
        /\ face.status = 402 /\ face.header = "terms" /\ ~ face.redirects
    BY <1>4 DEF CheckTerms, CheckUnpaid
  <2>2. (ok => Offers) /\ (account => Account)
    BY <2>1 DEF Offers, Account
  <2> HIDE DEF ok, account, paysUnder
  <2>3. /\ Result("environment_validation", "PASS") \notin results
        /\ Result("local_account_construction", "PASS") \in results => account
        /\ Result("payment_term_validation", "PASS") \in results => ok
        /\ Result("buyer_balance_sufficient", "PASS") \notin results
    BY ResultParts DEF PassIf, Failure
  <2>4. (\A r \in results : r.status # "FAIL") => ok /\ paysUnder /\ account
    BY ResultParts DEF PassIf, Failure
  <2>5. Complete'
    <3> SUFFICES ASSUME NoFailure' PROVE check'.pc = "rpc" /\ TermsPassed'
      BY DEF Complete
    <3>1. NoFailure /\ ok /\ paysUnder /\ account
      BY <1>1, <2>1, <2>4, Pushed
    <3>2. Passed("environment_validation")
      BY <1>1, <3>1 DEF Complete
    <3>3. /\ Result("unpaid_http_request", "PASS") \in results
          /\ Result("payment_term_validation", "PASS") \in results
          /\ Result("payment_payload_prerequisites", "PASS") \in results
          /\ Result("local_account_construction", "PASS") \in results
      BY <3>1 DEF PassIf
    <3> HIDE DEF results
    <3> QED
      BY <1>1, <2>1, <3>1, <3>2, <3>3, Pushed DEF TermsPassed
  <2> HIDE DEF results
  <2> QED
    BY <1>1, <2>1, <2>3, <2>5, <2>2, CheckStep
<1> QED
  BY <1>2, <1>3, <1>4 DEF CheckUnpaid

LEMMA CheckChainKeeps == PassInv /\ (CheckChain \/ CheckMetadata) => PassInv'
<1> SUFFICES ASSUME PassInv, CheckChain \/ CheckMetadata PROVE PassInv'
  OBVIOUS
<1>1. /\ Amounts /\ Complete /\ check.pc \in {"rpc", "decimals"}
      /\ UNCHANGED <<world, run, sent, changed>> /\ (trouble => trouble')
  BY DEF PassInv, CheckChain, CheckMetadata
<1>2. ASSUME NEW s1 \in {"base_sepolia_rpc_connection", "test_usdc_metadata_query"},
             NEW s2 \in {"chain_id_verification", "buyer_balance_sufficient"},
             Push("done", {Failure(s1), Result(s2, "SKIP")})
      PROVE  PassInv'
  <2> DEFINE results == {Failure(s1), Result(s2, "SKIP")}
  <2>1. \E r \in results : r.status = "FAIL"
    BY ResultParts DEF Failure
  <2>2. \A s : Result(s, "PASS") \notin results
    BY ResultParts DEF Failure
  <2>3. Push("done", results)
    BY <1>2
  <2> HIDE DEF results
  <2> QED
    BY <1>1, <2>1, <2>2, <2>3, FailingStep
<1>3. CASE CheckChain /\ Push("decimals", {Result("base_sepolia_rpc_connection", "PASS"),
                                          PassIf(chain, "chain_id_verification")})
  <2> DEFINE results == {Result("base_sepolia_rpc_connection", "PASS"),
                         PassIf(chain, "chain_id_verification")}
  <2>1. /\ Result("environment_validation", "PASS") \notin results
        /\ Result("local_account_construction", "PASS") \notin results
        /\ Result("payment_term_validation", "PASS") \notin results
        /\ Result("buyer_balance_sufficient", "PASS") \notin results
        /\ (\A r \in results : r.status # "FAIL") =>
             Result("chain_id_verification", "PASS") \in results
    BY ResultParts DEF PassIf, Failure
  <2>2. Push("decimals", results) /\ check.pc = "rpc"
    BY <1>3 DEF CheckChain
  <2> HIDE DEF results
  <2>3. Complete'
    <3> SUFFICES ASSUME NoFailure'
                 PROVE  /\ check'.pc = "decimals"
                        /\ TermsPassed' /\ Passed("chain_id_verification")'
      BY DEF Complete
    <3>1. NoFailure /\ Result("chain_id_verification", "PASS") \in results
      BY <1>1, <2>1, <2>2, Pushed
    <3>2. TermsPassed
      BY <1>1, <2>2, <3>1 DEF Complete
    <3> QED
      BY <1>1, <2>2, <3>1, <3>2, Pushed DEF TermsPassed
  <2> QED
    BY <1>1, <2>1, <2>2, <2>3, CheckStep
<1>4. CASE CheckMetadata /\ Push("balance", {Result("test_usdc_metadata_query", "PASS")})
  <2> DEFINE results == {Result("test_usdc_metadata_query", "PASS")}
  <2>1. /\ Result("environment_validation", "PASS") \notin results
        /\ Result("local_account_construction", "PASS") \notin results
        /\ Result("payment_term_validation", "PASS") \notin results
        /\ Result("buyer_balance_sufficient", "PASS") \notin results
    BY ResultParts
  <2>2. Push("balance", results) /\ check.pc = "decimals"
    BY <1>4 DEF CheckMetadata
  <2> HIDE DEF results
  <2>3. Complete'
    <3> SUFFICES ASSUME NoFailure'
                 PROVE  /\ check'.pc = "balance"
                        /\ TermsPassed' /\ Passed("chain_id_verification")'
      BY DEF Complete
    <3>1. NoFailure
      BY <1>1, <2>2, Pushed
    <3>2. TermsPassed /\ Passed("chain_id_verification")
      BY <1>1, <2>2, <3>1 DEF Complete
    <3> QED
      BY <1>1, <2>2, <3>2, Pushed DEF TermsPassed
  <2> QED
    BY <1>1, <2>1, <2>2, <2>3, CheckStep
<1> QED
  BY <1>2, <1>3, <1>4 DEF CheckChain, CheckMetadata

LEMMA CheckBalanceKeeps == PassInv /\ CheckBalance => PassInv'
<1> SUFFICES ASSUME PassInv, CheckBalance PROVE PassInv'
  OBVIOUS
<1>1. /\ Amounts /\ Complete /\ check.pc = "balance"
      /\ UNCHANGED <<world, run, sent, changed>> /\ (trouble => trouble')
  BY DEF PassInv, CheckBalance
<1> DEFINE rest == {Result("x402_client_construction", "PASS"),
                    Result("facilitator_read_only_check", "SKIP")} \cup Attempts
<1>2. PICK status \in {"PASS", "FAIL"} :
        /\ Push("done", {Result("buyer_balance_sufficient", status)} \cup rest)
        /\ status = "PASS" => balance >= MinimumUnits
  BY DEF CheckBalance, PassIf, Failure
<1> DEFINE results == {Result("buyer_balance_sufficient", status)} \cup rest
<1>3. /\ Result("environment_validation", "PASS") \notin results
      /\ Result("local_account_construction", "PASS") \notin results
      /\ Result("payment_term_validation", "PASS") \notin results
      /\ Result("buyer_balance_sufficient", "PASS") \in results => status = "PASS"
      /\ Result("x402_client_construction", "PASS") \in results
      /\ Result("buyer_balance_sufficient", status) \in results
  BY ResultParts DEF Attempts
<1>4. (\A r \in results : r.status # "FAIL") => status = "PASS"
  BY ResultParts
<1>5. Push("done", results)
  BY <1>2
<1> HIDE DEF results, rest
<1>6. Complete'
  <2> SUFFICES ASSUME NoFailure' PROVE check'.pc = "done" /\ AllPassed'
    BY DEF Complete
  <2>1. NoFailure /\ status = "PASS"
    BY <1>1, <1>4, <1>5, Pushed
  <2>2. TermsPassed /\ Passed("chain_id_verification")
    BY <1>1, <2>1 DEF Complete
  <2> QED
    BY <1>1, <1>3, <1>5, <2>1, <2>2, Pushed DEF TermsPassed, AllPassed
<1>7. status = "PASS" => balance >= 1000
  BY <1>1, <1>2, MinimumCovers DEF Amounts
<1> QED
  BY <1>1, <1>3, <1>5, <1>6, <1>7, CheckStep

-----------------------------------------------------------------------------
(* The run: without trouble a step of it keeps the balance it needs, and   *)
(* on the way to the seller's decision it does not turn off.               *)
Rich == balance >= 1000 \/ Settled
Good == EvaluateBuyerGuards(env) /\ Account /\ Offers

LEMMA RunProceeds ==
  ASSUME run \in RunState, balance \in Nat, RunNext, ~ trouble'
  PROVE  /\ ~ trouble /\ balance' \in Nat
         /\ Rich => Rich'
         /\ Good /\ GetsPaid => GetsPaid'
<1> USE DEF Rich, Settled, GetsPaid, world
<1>1. CASE Start
  <2>1. run.pc = "idle" /\ UNCHANGED <<balance, sent, trouble>>
    BY <1>1 DEF Start
  <2>2. CASE EvaluateBuyerGuards(env) /\ Account
    <3>1. run' = [run EXCEPT !.pc = "unpaid", !.stage = "initial_unpaid_request"]
      BY <1>1, <2>2 DEF Start, Account
    <3>2. run'.pc = "unpaid"
      BY <3>1 DEF RunState
    <3> QED
      BY <2>1, <3>2
  <2>3. CASE ~ (EvaluateBuyerGuards(env) /\ Account)
    BY <2>1, <2>3 DEF Good
  <2> QED
    BY <2>2, <2>3
<1>2. CASE UnpaidThrows
  <2>1. run.pc = "unpaid" /\ UNCHANGED <<balance, sent>> /\ ~ trouble /\ face.redirects
    BY <1>2 DEF UnpaidThrows
  <2> QED
    BY <2>1 DEF Good, Offers
<1>3. CASE UnpaidAnswers
  <2> DEFINE kept == CreateBaseSepoliaPaymentPolicy(face.offer, ExpectedPayTo)
  <2>1. run.pc = "unpaid" /\ UNCHANGED <<balance, trouble>>
    BY <1>3 DEF UnpaidAnswers
  <2>2. Good => face.status = 402 /\ face.header = "terms" /\ kept # {}
    BY DEF Good, Offers, ValidateBaseSepoliaPaymentRequirements, CreateBaseSepoliaPaymentPolicy
  <2>3. Good => /\ run' = [run EXCEPT !.pc = "paying", !.stage = "submit_paid_request"]
                /\ sent' # {}
    BY <1>3, <2>2 DEF UnpaidAnswers, Pay
  <2>4. Good => run'.pc = "paying"
    BY <2>3 DEF RunState
  <2> QED
    BY <2>1, <2>3, <2>4
<1>4. CASE SellerDecides
  <2>1. run.pc = "paying" /\ UNCHANGED <<sent, trouble>>
    BY <1>4 DEF SellerDecides
  <2>2. CASE balance >= 1000
    <3>1. run' = [run EXCEPT !.pc = "settled"] /\ balance' = balance - 1000
      BY <1>4, <2>2 DEF SellerDecides
    <3>2. run'.pc = "settled"
      BY <3>1 DEF RunState
    <3> QED
      BY <2>1, <2>2, <3>1, <3>2
  <2>3. CASE balance < 1000
    <3>1. run' = [run EXCEPT !.pc = "refused"] /\ UNCHANGED balance
      BY <1>4, <2>3 DEF SellerDecides
    <3>2. run'.pc = "refused"
      BY <3>1 DEF RunState
    <3> QED
      BY <2>1, <2>3, <3>1, <3>2
  <2> QED
    BY <2>2, <2>3
<1>5. CASE PaidAnswers
  <2>1. run.pc \in {"settled", "refused"} /\ UNCHANGED <<balance, sent, trouble>>
    BY <1>5 DEF PaidAnswers
  <2>2. run'.pc = "body" /\ run'.status = IF run.pc = "settled" THEN 200 ELSE 402
    BY <1>5 DEF PaidAnswers, RunState
  <2> QED
    BY <2>1, <2>2
<1>6. CASE PaidThrows
  <2>1. run.pc = "paying" /\ face.redirects /\ ~ trouble /\ UNCHANGED <<balance, sent>>
    BY <1>6 DEF PaidThrows
  <2> QED
    BY <2>1 DEF Good, Offers
<1>7. CASE ReadBody
  <2>1. /\ run.pc = "body" /\ UNCHANGED <<balance, sent, trouble>>
        /\ run' = [run EXCEPT !.pc = "done", !.result = "ok"]
    BY <1>7 DEF ReadBody
  <2>2. run'.pc = "done" /\ run'.result = "ok" /\ run'.status = run.status
    BY <2>1 DEF RunState
  <2> QED
    BY <2>1, <2>2
<1> QED
  BY <1>1, <1>2, <1>3, <1>4, <1>5, <1>6, <1>7 DEF RunNext

LEMMA RunKeeps == IInv /\ PassInv /\ RunNext => PassInv'
<1> SUFFICES ASSUME IInv, PassInv, RunNext PROVE PassInv'
  OBVIOUS
<1> USE DEF PassInv
<1>1. UNCHANGED <<layers, face, decimals, chain, check, changed>>
  BY DEF RunNext, Start, UnpaidThrows, UnpaidAnswers, SellerDecides, PaidAnswers,
         PaidThrows, ReadBody, world
<1>2. /\ env' = env /\ (Good' <=> Good) /\ (Account' <=> Account) /\ (Offers' <=> Offers)
      /\ (EvaluateBuyerGuards(env)' <=> EvaluateBuyerGuards(env))
      /\ \A s : Passed(s)' <=> Passed(s)
  BY <1>1 DEF env, Good, Account, Offers, ExpectedPayTo, Passed
<1>3. balance' \in Nat
  <2>1. CASE SellerDecides
    BY <2>1 DEF SellerDecides, Amounts
  <2>2. CASE ~ SellerDecides
    BY <2>2 DEF RunNext, Start, UnpaidThrows, UnpaidAnswers, PaidAnswers, PaidThrows,
                ReadBody, world, Amounts
  <2> QED
    BY <2>1, <2>2
<1>4. Amounts' /\ Complete'
  <2>1. Complete'
    BY <1>1, <1>2 DEF Complete, NoFailure, TermsPassed, AllPassed
  <2> QED
    BY <1>1, <1>3, <2>1 DEF Amounts
<1>5. ~ trouble' => ~ trouble /\ (Rich => Rich') /\ (Good /\ GetsPaid => GetsPaid')
  BY RunProceeds DEF IInv, Amounts
<1>6. PassedIsSo'
  BY <1>1, <1>2, <1>5 DEF PassedIsSo, Rich
<1>7. RunFollows'
  BY <1>1, <1>2, <1>5 DEF RunFollows, Good
<1> QED
  BY <1>4, <1>6, <1>7

(* A change of the world takes nothing back that does not depend on it.    *)
LEMMA ChangeKeeps == PassInv /\ (SellerChanges \/ BalanceChanges) => PassInv'
<1> SUFFICES ASSUME PassInv, SellerChanges \/ BalanceChanges PROVE PassInv'
  OBVIOUS
<1>1. changed' /\ UNCHANGED <<layers, decimals, check>> /\ balance' \in Nat
  BY RunAssumption DEF SellerChanges, BalanceChanges, PassInv, Amounts
<1>2. env' = env /\ (Account' <=> Account) /\ \A s : Passed(s)' <=> Passed(s)
  BY <1>1 DEF env, Account, Passed
<1>3. Complete'
  BY <1>1, <1>2 DEF PassInv, Complete, NoFailure, TermsPassed, AllPassed
<1> QED
  BY <1>1, <1>2, <1>3 DEF PassInv, Amounts, PassedIsSo, RunFollows

LEMMA InitPass == Init => PassInv
<1> SUFFICES ASSUME Init PROVE PassInv
  OBVIOUS
<1>1. check.pc = "idle" /\ check.stages = {} /\ run.pc = "idle"
  BY DEF Init
<1>2. \A s : ~ Passed(s)
  BY <1>1 DEF Passed
<1>3. Amounts
  BY RunAssumption DEF Init, Amounts
<1>4. Complete /\ PassedIsSo
  BY <1>1, <1>2 DEF Complete, PassedIsSo
<1>5. RunFollows
  BY <1>1 DEF RunFollows, GetsPaid
<1> QED
  BY <1>3, <1>4, <1>5 DEF PassInv

LEMMA NextPass == IInv /\ PassInv /\ [Next]_vars => PassInv'
<1> SUFFICES ASSUME IInv, PassInv, [Next]_vars PROVE PassInv'
  OBVIOUS
<1>1. CASE UNCHANGED vars
  BY <1>1 DEF vars, world, PassInv, Amounts, Complete, PassedIsSo, RunFollows, NoFailure, Passed,
              TermsPassed, AllPassed, GetsPaid, Settled, Account, Offers, env, ExpectedPayTo
<1> QED
  BY <1>1, CheckGuardsKeeps, CheckUnpaidKeeps, CheckChainKeeps, CheckBalanceKeeps, RunKeeps,
     ChangeKeeps DEF Next

(* PassIsReliable: a preflight that passes has made every check, and it    *)
(* foretells that the run pays and is served, whichever of the two commands*)
(* starts first and however their steps interleave (buyer-preflight.ts,    *)
(* buyer-run.ts).                                                          *)
THEOREM PassForetells == Spec => []PassIsReliable
<1>1. PassInv => PassIsReliable
  <2> SUFFICES ASSUME PassInv, check.pc = "done", Overall = "PASS"
               PROVE  /\ AllPassed
                      /\ run.pc = "done" /\ ~ changed /\ ~ trouble =>
                           run.result = "ok" /\ run.status = 200 /\ sent # {}
    BY DEF PassIsReliable, PassMeansChecked, PreflightPredicts, AllPassed, TermsPassed, Passed
  <2>1. NoFailure
    BY DEF Overall, NoFailure
  <2>2. AllPassed
    BY <2>1 DEF PassInv, Complete
  <2>3. ASSUME run.pc = "done", ~ changed, ~ trouble
        PROVE  run.result = "ok" /\ run.status = 200 /\ sent # {}
    <3>1. EvaluateBuyerGuards(env) /\ Account /\ Offers /\ (balance >= 1000 \/ Settled)
      BY <2>2, <2>3 DEF PassInv, PassedIsSo, AllPassed, TermsPassed
    <3>2. GetsPaid
      BY <2>3, <3>1 DEF PassInv, RunFollows
    <3>3. balance \in Nat
      BY DEF PassInv, Amounts
    <3> QED
      BY <2>3, <3>1, <3>2, <3>3 DEF GetsPaid, Settled
  <2> QED
    BY <2>2, <2>3
<1> QED
  BY <1>1, InitPass, NextPass, BuyerInvariance, PTL DEF Spec
=============================================================================
