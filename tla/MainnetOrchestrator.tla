------------------------ MODULE MainnetOrchestrator ------------------------
(***************************************************************************)
(* Paid requests of the mainnet example route, each handled by             *)
(* handleMainnetExamplePaidRequest                                         *)
(* (mainnet/idempotency/mainnet-payment-orchestrator.ts), sharing one      *)
(* payment coordinator and one facilitator.  A request is a process: its   *)
(* pc is the next await of the handler, and a step runs from one await to  *)
(* the next.  It has passed the structural checks before prepareAttempt;   *)
(* requests those turn away never reach the coordinator.                   *)
(*                                                                         *)
(* A coordinator call may throw for the caller (callCoordinator) and still *)
(* have been sent: it stays in flight, and the coordinator may carry it    *)
(* out at any later time, or never.  A request may die between two awaits  *)
(* or in the middle of one.                                                *)
(*                                                                         *)
(* The facilitator and the chain are external, modelled by what the        *)
(* handler tells apart: verify is valid, invalid or throws; settle         *)
(* succeeds with a receipt, fails definitively or throws, and a throw      *)
(* hides whether money moved, or may still move.  An EIP-3009              *)
(* authorization pays once.                                                *)
(***************************************************************************)
EXTENDS PaymentCoordinator

CONSTANTS
  Requests,     \* the paid requests
  RetryLimit,   \* LOCAL_COMPLETION_RETRY_LIMIT
  OutliveTtl,   \* may a request be in flight, or an authorization be valid,
                \* while a tick of RecordTtl passes?
  MaxFailures,  \* bound on the coordinator calls that throw
  MaxCrashes    \* bound on the requests that die

ASSUME OrchestratorAssumption ==
  /\ RetryLimit \in Nat \ {0}
  /\ OutliveTtl \in BOOLEAN
  /\ MaxFailures \in Nat
  /\ MaxCrashes \in Nat

VARIABLES
  req,      \* the local state of each request
  inflight, \* thrown calls the coordinator may still receive: <<request, method>>
  failures, \* coordinator calls that have thrown
  crashes,  \* requests that have died
  calls,    \* facilitator calls made under each record key for its present row
  charged,  \* record keys whose present row has moved money
  spent,    \* authorizations the chain has consumed
  pending   \* requests whose settlement threw and may still be carried out

faults == <<inflight, failures, crashes>>
outside == <<calls, charged, spent, pending>>
allVars == <<vars, req, faults, outside>>

Methods ==
  { "prepareAttempt", "getReplay", "acquireVerifyLease", "completeVerify",
    "markVerifyUncertain", "failVerifyDefinitive", "stageResponse",
    "failPostVerifyDefinitive", "acquireSettleLease", "completeFulfillment",
    "markSettleUncertain", "failSettleDefinitive" }

Labels == Methods \cup
  {"verifyPayment", "buildResponse", "settlePayment", "answered", "crashed"}

Statuses == {200, 202, 402, 409, 500, 503}

Leases == [gen : Nat, token : Tokens]

NoCalls == [verify |-> 0, settle |-> 0]

NoLease == [gen |-> 0, token |-> NULL]

RequestState ==
  [ pc      : Labels,
    input   : Inputs,
    lease   : Leases \cup {NoLease},   \* the lease acquired last
    body    : Bodies \cup {NULL},      \* the response body
    receipt : Receipts \cup {NULL},    \* a validated settlement receipt
    tries   : Nat,                     \* completions tried
    lost    : Methods \cup {NULL},     \* the call that threw last
    status  : Statuses \cup {NULL} ]   \* of the HTTP answer

OrchestratorTypeOK ==
  /\ TypeOK
  /\ req \in [Requests -> RequestState]
  /\ inflight \subseteq Requests \X Methods
  /\ failures \in 0 .. MaxFailures
  /\ crashes \in 0 .. MaxCrashes
  /\ calls \in [RecordKeys -> [verify : Nat, settle : Nat]]
  /\ charged \subseteq RecordKeys
  /\ spent \subseteq Auths
  /\ pending \subseteq Requests

-----------------------------------------------------------------------------
Key(w) == KeyOf(req[w].input)
Gen(w) == req[w].lease.gen
Token(w) == req[w].lease.token

At(w, label) == req[w].pc = label
Done(w) == req[w].pc \in {"answered", "crashed"}

GoTo(w, label) == req' = [req EXCEPT ![w].pc = label]

Answer(w, status) ==
  req' = [req EXCEPT ![w] = [@ EXCEPT !.pc = "answered", !.status = status]]

AnswerPaid(w, body, receipt) ==
  req' = [req EXCEPT ![w] = [@ EXCEPT !.pc = "answered", !.status = 200,
                                      !.body = body, !.receipt = receipt]]

(* A coordinator call that throws for request w.                           *)
Throws(w, method) ==
  /\ failures < MaxFailures
  /\ failures' = failures + 1
  /\ inflight' = inflight \cup {<<w, method>>}
  /\ UNCHANGED <<vars, crashes, outside>>

(* The catch clause answers; 500 where the call has none.                  *)
ThrowsToAnswer(w, method, status) ==
  /\ Throws(w, method)
  /\ req' = [req EXCEPT ![w] =
               [@ EXCEPT !.pc = "answered", !.status = status, !.lost = method]]

NothingElse == UNCHANGED <<faults, outside>>

-----------------------------------------------------------------------------
(* prepareAttempt and what its reply leads to.                             *)

AnswerOf(reply) ==
  CASE reply = "conflict"  -> 409
    [] reply = "failed"    -> 402
    [] reply = "uncertain" -> 503
    [] reply = "wait"      -> 202

Prepare(w) ==
  /\ At(w, "prepareAttempt")
  /\ LET reply == PrepareReply(req[w].input) IN
     \/ PrepareAttempt(req[w].input) /\ GoTo(w, "acquireVerifyLease") /\ NothingElse
     \/ reply = "replay" /\ GoTo(w, "getReplay") /\ UNCHANGED vars /\ NothingElse
     \/ /\ reply \notin {"created", "replay"}
        /\ Answer(w, AnswerOf(reply)) /\ UNCHANGED vars /\ NothingElse
     \/ ThrowsToAnswer(w, "prepareAttempt", 503)

GetReplay(w) ==
  /\ At(w, "getReplay")
  /\ LET replay == Replay(Key(w)) IN
     \/ /\ replay # NULL
        /\ AnswerPaid(w, replay.body, replay.receipt) /\ UNCHANGED vars /\ NothingElse
     \/ replay = NULL /\ Answer(w, 503) /\ UNCHANGED vars /\ NothingElse
     \/ ThrowsToAnswer(w, "getReplay", 500)

-----------------------------------------------------------------------------
(* Verification.                                                           *)

TakeLease(w, token, next) ==
  req' = [req EXCEPT ![w] =
            [@ EXCEPT !.pc = next,
                      !.lease = [gen |-> rows[Key(w)].gen + 1, token |-> token]]]

AcquireVerify(w) ==
  /\ At(w, "acquireVerifyLease")
  /\ \/ \E t \in Tokens : /\ AcquireVerifyLease(Key(w), t)
                          /\ TakeLease(w, t, "verifyPayment") /\ NothingElse
     \/ /\ ~ CanAcquireVerifyLease(Key(w))
        /\ Answer(w, 202) /\ UNCHANGED vars /\ NothingElse
     \/ ThrowsToAnswer(w, "acquireVerifyLease", 503)

CountCall(w, kind) == calls' = [calls EXCEPT ![Key(w)][kind] = @ + 1]

VerifyPayment(w) ==
  /\ At(w, "verifyPayment")
  /\ CountCall(w, "verify")
  /\ \/ req[w].input.auth \notin spent /\ GoTo(w, "completeVerify")
     \/ GoTo(w, "failVerifyDefinitive")
     \/ GoTo(w, "markVerifyUncertain")
  /\ UNCHANGED <<vars, faults, charged, spent, pending>>

CompleteVerification(w) ==
  /\ At(w, "completeVerify")
  /\ \/ CompleteVerify(Key(w), Gen(w), Token(w)) /\ GoTo(w, "buildResponse") /\ NothingElse
     \/ /\ ~ CanCompleteVerify(Key(w), Gen(w), Token(w))
        /\ Answer(w, 503) /\ UNCHANGED vars /\ NothingElse
     \/ ThrowsToAnswer(w, "completeVerify", 503)

-----------------------------------------------------------------------------
(* The response is built and staged before any money moves.                *)

BuildFailsUnreported(w) == Answer(w, 402)

(* The body cannot be built, or exceeds STAGED_RESPONSE_MAX_BYTES.         *)
BuildFails(w) == GoTo(w, "failPostVerifyDefinitive")

BuildResponse(w) ==
  /\ At(w, "buildResponse")
  /\ \/ \E b \in StageableBodies :
          req' = [req EXCEPT ![w] = [@ EXCEPT !.pc = "stageResponse", !.body = b]]
     \/ BuildFails(w)
  /\ UNCHANGED vars /\ NothingElse

Stage(w) ==
  /\ At(w, "stageResponse")
  /\ \/ StageResponse(Key(w), req[w].body) /\ GoTo(w, "acquireSettleLease") /\ NothingElse
     \/ /\ ~ CanStageResponse(Key(w), req[w].body)
        /\ GoTo(w, "failPostVerifyDefinitive") /\ UNCHANGED vars /\ NothingElse
     \/ ThrowsToAnswer(w, "stageResponse", 503)

-----------------------------------------------------------------------------
(* Settlement.                                                             *)

AcquireSettle(w) ==
  /\ At(w, "acquireSettleLease")
  /\ \/ \E t \in Tokens : /\ AcquireSettleLease(Key(w), t)
                          /\ TakeLease(w, t, "settlePayment") /\ NothingElse
     \/ /\ ~ CanAcquireSettleLease(Key(w))
        /\ Answer(w, 202) /\ UNCHANGED vars /\ NothingElse
     \/ ThrowsToAnswer(w, "acquireSettleLease", 503)

MoneyMoves(w) ==
  /\ req[w].input.auth \notin spent
  /\ spent' = spent \cup {req[w].input.auth}
  /\ charged' = charged \cup {Key(w)}

SettleSucceeds(w, receipt) ==
  /\ MoneyMoves(w) /\ UNCHANGED pending
  /\ IF receipt \in ValidReceipts
     THEN req' = [req EXCEPT ![w] =
                    [@ EXCEPT !.pc = "completeFulfillment", !.receipt = receipt]]
     ELSE GoTo(w, "markSettleUncertain")

SettleRefused(w) ==
  GoTo(w, "failSettleDefinitive") /\ UNCHANGED <<charged, spent, pending>>

(* Money has moved when the call throws, or may yet.                       *)
MoneyUnknown(w) ==
  \/ MoneyMoves(w) /\ UNCHANGED pending
  \/ pending' = pending \cup {w} /\ UNCHANGED <<charged, spent>>

SettleThrowsRetried(w) == UNCHANGED req /\ MoneyUnknown(w)
SettleThrowsFailed(w) == GoTo(w, "failSettleDefinitive") /\ MoneyUnknown(w)

SettleThrows(w) == GoTo(w, "markSettleUncertain") /\ MoneyUnknown(w)

SettlePayment(w) ==
  /\ At(w, "settlePayment")
  /\ CountCall(w, "settle")
  /\ SettleRefused(w) \/ SettleThrows(w) \/ \E r \in Receipts : SettleSucceeds(w, r)
  /\ UNCHANGED <<vars, faults>>

StaleCompletionUncounted(w) ==
  req' = [req EXCEPT ![w].pc = IF req[w].tries + 1 < RetryLimit
                               THEN @ ELSE "markSettleUncertain"]

StaleCompletion(w) ==
  LET tries == req[w].tries + 1 IN
  req' = [req EXCEPT ![w] =
            [@ EXCEPT !.tries = tries,
                      !.pc = IF tries < RetryLimit
                             THEN "completeFulfillment" ELSE "markSettleUncertain"]]

(* completeFulfillmentWithRetries: a stale reply is tried again, a call    *)
(* that throws is not.                                                     *)
Complete(w) ==
  /\ At(w, "completeFulfillment")
  /\ \/ /\ CompleteFulfillment(Key(w), Gen(w), Token(w), req[w].receipt)
        /\ AnswerPaid(w, req[w].body, req[w].receipt) /\ NothingElse
     \/ /\ ~ CanCompleteFulfillment(Key(w), Gen(w), Token(w), req[w].receipt)
        /\ StaleCompletion(w) /\ UNCHANGED vars /\ NothingElse
     \/ /\ Throws(w, "completeFulfillment")
        /\ req' = [req EXCEPT ![w] = [@ EXCEPT !.pc = "markSettleUncertain",
                                               !.lost = "completeFulfillment"]]

-----------------------------------------------------------------------------
(* The last call of a request that ends otherwise; its reply is ignored    *)
(* and no catch clause surrounds it.                                       *)

Reports ==
  { "markVerifyUncertain", "failVerifyDefinitive", "failPostVerifyDefinitive",
    "markSettleUncertain", "failSettleDefinitive" }

ReportMatches(w, method) ==
  CASE method \in {"markVerifyUncertain", "failVerifyDefinitive"} ->
         VerifyAwaited(Key(w), Gen(w), Token(w))
    [] method = "failPostVerifyDefinitive" ->
         AwaitsSettlement(Key(w), Gen(w), Token(w))
    [] method \in {"markSettleUncertain", "failSettleDefinitive"} ->
         SettleAwaited(Key(w), Gen(w), Token(w))

AnswerPaidAfter(w, method) ==
  IF method \in {"markVerifyUncertain", "markSettleUncertain"}
  THEN IF req[w].body = NULL THEN 503 ELSE 200
  ELSE 402

(* A settlement that succeeded is still answered with 200.                 *)
AnswerAfter(w, method) ==
  IF method \in {"markVerifyUncertain", "markSettleUncertain"}
  THEN IF req[w].receipt = NULL THEN 503 ELSE 200
  ELSE 402

(* What a call of request w does at the coordinator when it is accepted.   *)
Effect(w, method) ==
  \/ method = "prepareAttempt" /\ PrepareAttempt(req[w].input)
  \/ method = "acquireVerifyLease" /\ \E t \in Tokens : AcquireVerifyLease(Key(w), t)
  \/ method = "completeVerify" /\ CompleteVerify(Key(w), Gen(w), Token(w))
  \/ method = "markVerifyUncertain" /\ MarkVerifyUncertain(Key(w), Gen(w), Token(w))
  \/ method = "failVerifyDefinitive" /\ FailVerifyDefinitive(Key(w), Gen(w), Token(w))
  \/ method = "stageResponse" /\ StageResponse(Key(w), req[w].body)
  \/ /\ method = "failPostVerifyDefinitive"
     /\ FailPostVerifyDefinitive(Key(w), Gen(w), Token(w))
  \/ method = "acquireSettleLease" /\ \E t \in Tokens : AcquireSettleLease(Key(w), t)
  \/ /\ method = "completeFulfillment"
     /\ CompleteFulfillment(Key(w), Gen(w), Token(w), req[w].receipt)
  \/ method = "markSettleUncertain" /\ MarkSettleUncertain(Key(w), Gen(w), Token(w))
  \/ method = "failSettleDefinitive" /\ FailSettleDefinitive(Key(w), Gen(w), Token(w))

Report(w, method) ==
  /\ At(w, method)
  /\ \/ /\ IF ReportMatches(w, method) THEN Effect(w, method) ELSE UNCHANGED vars
        /\ Answer(w, AnswerAfter(w, method)) /\ NothingElse
     \/ ThrowsToAnswer(w, method, 500)

-----------------------------------------------------------------------------
Step(w) ==
  \/ Prepare(w) \/ GetReplay(w)
  \/ AcquireVerify(w) \/ VerifyPayment(w) \/ CompleteVerification(w)
  \/ BuildResponse(w) \/ Stage(w)
  \/ AcquireSettle(w) \/ SettlePayment(w) \/ Complete(w)
  \/ \E method \in Reports : Report(w, method)

(* The coordinator receives a call its caller has given up on.             *)
Late(w, method) ==
  /\ <<w, method>> \in inflight
  /\ Effect(w, method)
  /\ inflight' = inflight \ {<<w, method>>}
  /\ UNCHANGED <<req, failures, crashes, outside>>

(* The facilitator carries out a settlement its caller has given up on.    *)
SettlesLate(w) ==
  /\ w \in pending
  /\ MoneyMoves(w)
  /\ pending' = pending \ {w}
  /\ UNCHANGED <<vars, req, faults, calls>>

(* The request dies while the facilitator works on its call.               *)
DiesCalling(w) ==
  \/ /\ At(w, "verifyPayment")
     /\ CountCall(w, "verify") /\ UNCHANGED <<charged, spent, pending>>
  \/ At(w, "settlePayment") /\ CountCall(w, "settle") /\ MoneyUnknown(w)

Crash(w) ==
  /\ ~ Done(w) /\ ~ At(w, "prepareAttempt")
  /\ crashes < MaxCrashes
  /\ crashes' = crashes + 1
  /\ GoTo(w, "crashed")
  /\ UNCHANGED outside \/ DiesCalling(w)
  /\ UNCHANGED <<vars, inflight, failures>>

Quiet == \A w \in Requests : Done(w) \/ At(w, "prepareAttempt")

(* A tick is a good part of a day.  Unless OutliveTtl, no request, no call *)
(* in flight and no authorization (maxTimeoutSeconds) lasts that long.     *)
TimePasses ==
  /\ OutliveTtl \/ Quiet
  /\ Tick
  /\ inflight' = IF OutliveTtl THEN inflight ELSE {}
  /\ pending' = IF OutliveTtl THEN pending ELSE {}
  /\ UNCHANGED <<req, failures, crashes, calls, charged, spent>>

CleanUp ==
  /\ AlarmFires
  /\ calls' = [k \in RecordKeys |-> IF rows'[k] = NoRow THEN NoCalls ELSE calls[k]]
  /\ charged' = {k \in charged : rows'[k] # NoRow}
  /\ UNCHANGED <<req, faults, spent, pending>>

-----------------------------------------------------------------------------
NewRequest(i) ==
  [ pc |-> "prepareAttempt", input |-> i, lease |-> NoLease, body |-> NULL,
    receipt |-> NULL, tries |-> 0, lost |-> NULL, status |-> NULL ]

OrchestratorInit ==
  /\ Init
  /\ req \in [Requests -> {NewRequest(i) : i \in Inputs}]
  /\ inflight = {} /\ failures = 0 /\ crashes = 0
  /\ calls = [k \in RecordKeys |-> NoCalls]
  /\ charged = {} /\ spent = {} /\ pending = {}

OrchestratorNext ==
  \/ \E w \in Requests : Step(w) \/ SettlesLate(w) \/ Crash(w)
  \/ \E w \in Requests, m \in Methods : Late(w, m)
  \/ TimePasses
  \/ CleanUp

OrchestratorSpec == OrchestratorInit /\ [][OrchestratorNext]_allVars

(* A request that has not died runs on: the facilitator adapter and the    *)
(* coordinator calls return or throw.                                      *)
OrchestratorFairSpec ==
  OrchestratorSpec /\ \A w \in Requests : WF_allVars(Step(w))

-----------------------------------------------------------------------------
(* Properties.                                                             *)

(* While a row exists, the facilitator is asked to verify and to settle    *)
(* its payment once at most, whatever duplicates arrive and whatever calls *)
(* are lost, late or cut short (leases; no retry after a throw).           *)
FacilitatorCalledOnce ==
  \A k \in RecordKeys : calls[k].verify <= 1 /\ calls[k].settle <= 1

(* Whatever failed on the way, the row of a payment that moved money is    *)
(* fulfilled or can still become so, never failed; and a row is fulfilled  *)
(* only for money that moved (settlePayment and what follows it).          *)
RowTellsTheTruth ==
  \A k \in RecordKeys :
    /\ k \in charged =>
         /\ Present(k)
         /\ rows[k].state = "fulfilled" \/ rows[k].kind = "settle"
    /\ Present(k) /\ rows[k].state = "fulfilled" => k \in charged

Honest(w) ==
  /\ req'[w].status = 200 =>
       /\ Key(w) \in charged
       /\ rows[Key(w)].body = req'[w].body
       /\ rows'[Key(w)].receipt \in {NULL, req'[w].receipt}
  /\ req'[w].status = 402 => Key(w) \notin charged

(* A buyer is answered 200 only for money that moved, with the body that   *)
(* was staged and the receipt the row has or may still get, so that every  *)
(* replay agrees; and 402 only when no money moved (the returns of         *)
(* handleMainnetExamplePaidRequest).                                       *)
AnswersHonest ==
  [][\A w \in Requests : req[w].status # req'[w].status => Honest(w)]_allVars

(* An authorization for record key k, carried by some request, has paid.   *)
PaidFor(k) == \E v \in Requests : Key(v) = k /\ req[v].input.auth \in spent

(* Even when requests outlive the rows they work for, and then work on the *)
(* rows of others, nobody is answered 200 unless money moved for that      *)
(* identifier and those terms (coordinator calls name the record key, and  *)
(* no call after prepareAttempt names the authorization).                  *)
PaidAnswerMeansSpent ==
  \A w \in Requests : req[w].status = 200 => PaidFor(Key(w))

(* Every request that does not die is answered.                            *)
AllAnswered == \A w \in Requests : <> At(w, "answered")

(* No coordinator call has thrown and no request has died.                 *)
Faultless == failures = 0 /\ crashes = 0

(* Without faults no attempt is left half way: each ends fulfilled, failed *)
(* or uncertain, or expires (every exit of the handler reports).           *)
AttemptsResolve ==
  []Faultless =>
    \A k \in RecordKeys :
      InState(k, InProgressStates) ~> ~ InState(k, InProgressStates)

(* docs/mainnet-mocked-orchestrator.md:62 on response compute and stage:   *)
(* failPostVerifyDefinitive, or 503 if a coordinator RPC fails.            *)
ComputeStageOutageIs503 ==
  \A w \in Requests :
    At(w, "answered") /\ req[w].lost \in {"stageResponse", "failPostVerifyDefinitive"}
      => req[w].status = 503

(* mainnet-payment-orchestrator.ts:125, the 202 answer: Payment is being   *)
(* processed.  While nothing has failed, another request is on its way     *)
(* with the payment it tells of.                                           *)
InProgressIsProcessed ==
  [][\A w \in Requests :
       Faultless /\ req[w].status # req'[w].status /\ req'[w].status = 202 =>
         \E v \in Requests \ {w} :
           Key(v) = Key(w) /\ ~ Done(v) /\ ~ At(v, "prepareAttempt")]_allVars

-----------------------------------------------------------------------------
(* The paid route as its buyers see it.                                    *)

(* The receipt of a settlement: in the row or, until the coordinator knows *)
(* it, with the request that holds the settle lease.                       *)
ReceiptOf(k) ==
  LET holders == {w \in Requests : Key(w) = k /\ Token(w) = rows[k].token}
  IN  IF rows[k].kind = "settle" /\ holders # {}
      THEN req[CHOOSE w \in holders : TRUE].receipt
      ELSE rows[k].receipt

DealOf(k) ==
  [ auth    |-> rows[k].auth,
    money   |-> IF k \in charged THEN "moved"
                ELSE IF rows[k].state = "failed-definitive" THEN "never" ELSE "open",
    answer  |-> IF rows[k].kind = "settle" \/ rows[k].state = "fulfilled"
                THEN rows[k].body ELSE NULL,
    receipt |-> ReceiptOf(k) ]

ReplyOf(status) ==
  CASE status = NULL -> "none" [] status = 200 -> "served" [] status = 402 -> "refused"
    [] OTHER -> "put off"

ToldTo(w) ==
  [ reply   |-> ReplyOf(req[w].status),
    body    |-> IF req[w].status = 200 THEN req[w].body ELSE NULL,
    receipt |-> IF req[w].status = 200 THEN req[w].receipt ELSE NULL ]

DealsView == [k \in RecordKeys |-> IF Present(k) THEN DealOf(k) ELSE NoRow]

OrdersView == [w \in Requests |-> [item |-> Key(w), auth |-> req[w].input.auth]]

ToldView == [w \in Requests |-> ToldTo(w)]

Paid ==
  INSTANCE PayOnce
    WITH None <- NULL, NoDeal <- NoRow,
         deals <- DealsView, order <- OrdersView, told <- ToldView

ASSUME NoRowIsNoDeal == NoRow \notin Paid!Deal

(* Whatever duplicates come and whatever fails on the way, the route keeps *)
(* the promise of PayOnce: one payment per deal, for an answer decided     *)
(* before; the same answer and receipt for everyone who is served; no      *)
(* refusal of what was or will be paid.                                    *)
ImplementsPayOnce == Paid!Spec
=============================================================================
