---------------------- MODULE MainnetOrchestratorProofs ----------------------
(***************************************************************************)
(* What holds of the mainnet paid route for any number of requests, any    *)
(* payloads and any number of calls that throw and requests that die.      *)
(*                                                                         *)
(* Safety rests on one idea: a row is worked on by one request at a time.  *)
(* A request is engaged with the row of its attempt from the reservation   *)
(* until it is done and no call of it can arrive any more (Engaged).  No   *)
(* two requests are engaged with the same row (Alone), an engaged one can  *)
(* rely on what it knows of the row (Fits), and the row agrees with the    *)
(* calls made and the money moved for it (Accounted).  Alone is inductive  *)
(* because a row is there while somebody is engaged with it, which is what *)
(* the assumption ~ OutliveTtl is for: no row expires under a request.     *)
(*                                                                         *)
(* Each step of a request is then shown to be Sound: it keeps the types,   *)
(* does to the table what the coordinator may do, and Keeps the invariant  *)
(* where that request is concerned; OthersKeep adds the other requests.    *)
(*                                                                         *)
(* Every row in progress that somebody is engaged with is in the state and *)
(* under the lease which that request expects, whatever has failed; while  *)
(* nothing has failed, every row in progress has somebody (CalmInv).       *)
(*                                                                         *)
(* The last part shows that the route implements PayOnce.  The mapping     *)
(* needs one invariant more (DealInv): a token is granted once, an engaged *)
(* request works on a row that its own authorization pays for, and money   *)
(* that moved is money of the row's authorization; what the mapping shows  *)
(* of a row follows from them (DealsKnown).  Then the steps are mapped one *)
(* by one, each to a step of PayOnce or to none.                           *)
(***************************************************************************)
EXTENDS MainnetOrchestrator, PaymentCoordinatorProofs

-----------------------------------------------------------------------------
(* What each kind of step does to the request that takes it.               *)

(* Request w goes on to label; the local variables of the others stay.     *)
Goes(w, label) ==
  /\ req' \in [Requests -> RequestState]
  /\ \A v \in Requests \ {w} : req'[v] = req[v]
  /\ req'[w].pc = label /\ req'[w].input = req[w].input

(* The step edits neither the body nor the receipt.                        *)
SameData(w) ==
  req'[w].body = req[w].body /\ req'[w].receipt = req[w].receipt

LEMMA Rewritten ==
  ASSUME OrchestratorTypeOK, NEW w \in Requests, NEW r \in RequestState,
         req' = [req EXCEPT ![w] = r]
  PROVE  /\ req' \in [Requests -> RequestState] /\ req'[w] = r
         /\ \A v \in Requests \ {w} : req'[v] = req[v]
BY DEF OrchestratorTypeOK

LEMMA LocalState ==
  ASSUME OrchestratorTypeOK, NEW w \in Requests
  PROVE  req[w] \in RequestState
BY DEF OrchestratorTypeOK

LEMMA GoToDoes ==
  ASSUME OrchestratorTypeOK, NEW w \in Requests, NEW label \in Labels, GoTo(w, label)
  PROVE  Goes(w, label) /\ SameData(w) /\ req'[w].status = req[w].status
<1>. DEFINE r == [req[w] EXCEPT !.pc = label]
<1>1. r \in RequestState
  BY LocalState DEF RequestState
<1>2. req' = [req EXCEPT ![w] = r]
  BY DEF GoTo
<1>3. /\ r.pc = label /\ r.input = req[w].input /\ r.body = req[w].body
      /\ r.receipt = req[w].receipt /\ r.status = req[w].status
  BY LocalState DEF RequestState
<1>. HIDE DEF r
<1>. QED
  BY <1>1, <1>2, <1>3, Rewritten DEF Goes, SameData

LEMMA AnswerDoes ==
  ASSUME OrchestratorTypeOK, NEW w \in Requests, NEW status \in Statuses, Answer(w, status)
  PROVE  Goes(w, "answered") /\ SameData(w) /\ req'[w].status = status
<1>. DEFINE r == [req[w] EXCEPT !.pc = "answered", !.status = status]
<1>1. r \in RequestState
  BY LocalState DEF RequestState, Labels
<1>2. req' = [req EXCEPT ![w] = r]
  BY DEF Answer
<1>3. /\ r.pc = "answered" /\ r.input = req[w].input /\ r.body = req[w].body
      /\ r.receipt = req[w].receipt /\ r.status = status
  BY LocalState DEF RequestState
<1>. HIDE DEF r
<1>. QED
  BY <1>1, <1>2, <1>3, Rewritten DEF Goes, SameData

LEMMA AnswerPaidDoes ==
  ASSUME OrchestratorTypeOK, NEW w \in Requests, NEW body \in Bodies \cup {NULL},
         NEW receipt \in Receipts \cup {NULL}, AnswerPaid(w, body, receipt)
  PROVE  /\ Goes(w, "answered") /\ req'[w].status = 200
         /\ req'[w].body = body /\ req'[w].receipt = receipt
<1>. DEFINE r == [req[w] EXCEPT !.pc = "answered", !.status = 200,
                                !.body = body, !.receipt = receipt]
<1>. DEFINE s == [req[w] EXCEPT !.pc = "answered", !.status = 200]
<1>0. "answered" \in Labels /\ 200 \in Statuses
  BY DEF Labels, Statuses
<1>1. r \in RequestState
  <2>1. s \in RequestState
    <3>. DEFINE code == 200
    <3>1. code \in Statuses
      BY <1>0
    <3>2. s = [req[w] EXCEPT !.pc = "answered", !.status = code]
      OBVIOUS
    <3>. HIDE DEF r, s, code
    <3>. QED
      BY <1>0, <3>1, <3>2, LocalState DEF RequestState
  <2>. DEFINE u == [s EXCEPT !.body = body]
  <2>2. r = [u EXCEPT !.receipt = receipt]
    BY LocalState DEF RequestState
  <2>. HIDE DEF s, r
  <2>3. u \in RequestState
    BY <2>1 DEF RequestState
  <2>. HIDE DEF u
  <2>. QED
    BY <2>2, <2>3 DEF RequestState
<1>2. req' = [req EXCEPT ![w] = r]
  BY DEF AnswerPaid
<1>3. /\ r.pc = "answered" /\ r.input = req[w].input /\ r.body = body
      /\ r.receipt = receipt /\ r.status = 200
  BY LocalState DEF RequestState
<1>. HIDE DEF r
<1>. QED
  BY <1>1, <1>2, <1>3, Rewritten DEF Goes

LEMMA ThrowsToAnswerDoes ==
  ASSUME OrchestratorTypeOK, NEW w \in Requests, NEW method \in Methods,
         NEW status \in Statuses, ThrowsToAnswer(w, method, status)
  PROVE  Goes(w, "answered") /\ SameData(w) /\ req'[w].status = status
<1>. DEFINE r == [req[w] EXCEPT !.pc = "answered", !.status = status, !.lost = method]
<1>1. r \in RequestState
  BY LocalState DEF RequestState, Labels
<1>2. req' = [req EXCEPT ![w] = r]
  BY DEF ThrowsToAnswer
<1>3. /\ r.pc = "answered" /\ r.input = req[w].input /\ r.body = req[w].body
      /\ r.receipt = req[w].receipt /\ r.status = status
  BY LocalState DEF RequestState
<1>. HIDE DEF r
<1>. QED
  BY <1>1, <1>2, <1>3, Rewritten DEF Goes, SameData

LEMMA TakeLeaseDoes ==
  ASSUME OrchestratorTypeOK, NEW w \in Requests, NEW token \in Tokens, NEW next \in Labels,
         rows[Key(w)] \in Row, TakeLease(w, token, next)
  PROVE  Goes(w, next) /\ SameData(w) /\ req'[w].status = req[w].status
<1>. DEFINE x == [gen |-> rows[Key(w)].gen + 1, token |-> token]
            r == [req[w] EXCEPT !.pc = next, !.lease = x]
<1>0. x \in Leases
  BY DEF Row, Leases
<1>1. r \in RequestState
  <2>. HIDE DEF x
  <2>. QED  BY <1>0, LocalState DEF RequestState
<1>2. req' = [req EXCEPT ![w] = r]
  BY DEF TakeLease
<1>3. /\ r.pc = next /\ r.input = req[w].input /\ r.body = req[w].body
      /\ r.receipt = req[w].receipt /\ r.status = req[w].status
  BY LocalState DEF RequestState
<1>. HIDE DEF r
<1>. QED
  BY <1>1, <1>2, <1>3, Rewritten DEF Goes, SameData

(* The step that fills in the response body.                               *)
LEMMA BodyDoes ==
  ASSUME OrchestratorTypeOK, NEW w \in Requests, NEW b \in Bodies,
         req' = [req EXCEPT ![w] = [@ EXCEPT !.pc = "stageResponse", !.body = b]]
  PROVE  Goes(w, "stageResponse") /\ req'[w].body = b
         /\ req'[w].receipt = req[w].receipt /\ req'[w].status = req[w].status
<1>. DEFINE r == [req[w] EXCEPT !.pc = "stageResponse", !.body = b]
<1>1. r \in RequestState
  BY LocalState DEF RequestState, Labels, Methods
<1>2. req' = [req EXCEPT ![w] = r]
  OBVIOUS
<1>3. /\ r.pc = "stageResponse" /\ r.input = req[w].input /\ r.body = b
      /\ r.receipt = req[w].receipt /\ r.status = req[w].status
  BY LocalState DEF RequestState
<1>. HIDE DEF r
<1>. QED
  BY <1>1, <1>2, <1>3, Rewritten DEF Goes

(* The step that fills in the receipt.                                     *)
LEMMA ReceiptDoes ==
  ASSUME OrchestratorTypeOK, NEW w \in Requests, NEW c \in Receipts,
         req' = [req EXCEPT ![w] = [@ EXCEPT !.pc = "completeFulfillment", !.receipt = c]]
  PROVE  /\ Goes(w, "completeFulfillment") /\ req'[w].receipt = c
         /\ req'[w].body = req[w].body /\ req'[w].status = req[w].status
<1>. DEFINE r == [req[w] EXCEPT !.pc = "completeFulfillment", !.receipt = c]
<1>1. r \in RequestState
  BY LocalState DEF RequestState, Labels, Methods
<1>2. req' = [req EXCEPT ![w] = r]
  OBVIOUS
<1>3. /\ r.pc = "completeFulfillment" /\ r.input = req[w].input /\ r.body = req[w].body
      /\ r.receipt = c /\ r.status = req[w].status
  BY LocalState DEF RequestState
<1>. HIDE DEF r
<1>. QED
  BY <1>1, <1>2, <1>3, Rewritten DEF Goes

(* A stale completion is tried again or given up; one that throws is given *)
(* up.                                                                     *)
LEMMA StaleDoes ==
  ASSUME OrchestratorTypeOK, NEW w \in Requests, At(w, "completeFulfillment"),
         StaleCompletion(w)
  PROVE  /\ Goes(w, "markSettleUncertain") \/ Goes(w, "completeFulfillment")
         /\ SameData(w) /\ req'[w].status = req[w].status
<1>. DEFINE tries == req[w].tries + 1
            next == IF tries < RetryLimit
                    THEN "completeFulfillment" ELSE "markSettleUncertain"
            r == [req[w] EXCEPT !.tries = tries, !.pc = next]
<1>0. next \in {"completeFulfillment", "markSettleUncertain"} /\ next \in Labels
  BY DEF Labels, Methods
<1>1. tries \in Nat
  BY LocalState DEF RequestState
<1>2. req' = [req EXCEPT ![w] = r]
  BY DEF StaleCompletion
<1>. HIDE DEF next, tries
<1>3. r \in RequestState
  BY <1>0, <1>1, LocalState DEF RequestState
<1>4. /\ r.pc = next /\ r.input = req[w].input /\ r.body = req[w].body
      /\ r.receipt = req[w].receipt /\ r.status = req[w].status
  BY LocalState DEF RequestState
<1>. HIDE DEF r
<1>. QED
  BY <1>0, <1>2, <1>3, <1>4, Rewritten DEF Goes, SameData

LEMMA GiveUpDoes ==
  ASSUME OrchestratorTypeOK, NEW w \in Requests,
         req' = [req EXCEPT ![w] = [@ EXCEPT !.pc = "markSettleUncertain",
                                             !.lost = "completeFulfillment"]]
  PROVE  Goes(w, "markSettleUncertain") /\ SameData(w) /\ req'[w].status = req[w].status
<1>. DEFINE r == [req[w] EXCEPT !.pc = "markSettleUncertain",
                                !.lost = "completeFulfillment"]
<1>1. r \in RequestState
  BY LocalState DEF RequestState, Labels, Methods
<1>2. req' = [req EXCEPT ![w] = r]
  OBVIOUS
<1>3. /\ r.pc = "markSettleUncertain" /\ r.input = req[w].input /\ r.body = req[w].body
      /\ r.receipt = req[w].receipt /\ r.status = req[w].status
  BY LocalState DEF RequestState
<1>. HIDE DEF r
<1>. QED
  BY <1>1, <1>2, <1>3, Rewritten DEF Goes, SameData

-----------------------------------------------------------------------------
(* The invariant.                                                          *)

(* A request is engaged with the row of its attempt from the reservation   *)
(* until it is done and no call and no settlement of it can come any more. *)
Reading == {"prepareAttempt", "getReplay"}

Working(w) == req[w].pc \notin Reading \cup {"answered", "crashed"}

Engaged(w) ==
  \/ Working(w)
  \/ \E m \in Methods \ Reading : <<w, m>> \in inflight
  \/ w \in pending

(* Where no money has moved and the request has no receipt.                *)
Early == { "acquireVerifyLease", "verifyPayment", "completeVerify",
           "markVerifyUncertain", "failVerifyDefinitive", "buildResponse",
           "stageResponse", "failPostVerifyDefinitive", "acquireSettleLease",
           "settlePayment", "failSettleDefinitive" }

(* A thrown call ends the request, but for settlePayment and               *)
(* completeFulfillment, after which it reports once more.                  *)
Local(w) ==
  /\ \A m \in Methods : <<w, m>> \in inflight =>
       Done(w) \/ (m = "completeFulfillment" /\ At(w, "markSettleUncertain"))
  /\ req[w].pc \in Reading \cup Early => req[w].receipt = NULL
  /\ w \in pending =>
       /\ Done(w) \/ At(w, "markSettleUncertain")
       /\ req[w].receipt = NULL
       /\ \A m \in Methods : <<w, m>> \in inflight => m = "markSettleUncertain"

(* What an engaged request may rely on.                                    *)
Fits(w) ==
  /\ Present(Key(w)) /\ rows[Key(w)].ttl > 0
  /\ req[w].pc \in Early => Key(w) \notin charged
  /\ At(w, "verifyPayment") =>
       calls[Key(w)].verify = 0 /\ rows[Key(w)].state # "reserved"
  /\ At(w, "settlePayment") => calls[Key(w)].settle = 0
  /\ req[w].pc \in {"settlePayment", "completeFulfillment"} =>
       rows[Key(w)].kind = "settle"
  /\ req[w].pc \in { "acquireSettleLease", "settlePayment", "completeFulfillment",
                     "markSettleUncertain" } =>
       rows[Key(w)].body = req[w].body
  /\ At(w, "completeFulfillment") => Key(w) \in charged
  /\ At(w, "markSettleUncertain") /\ req[w].receipt # NULL =>
       Key(w) \in charged /\ rows[Key(w)].receipt \in {NULL, req[w].receipt}
  /\ <<w, "completeFulfillment">> \in inflight => Key(w) \in charged
  /\ <<w, "failSettleDefinitive">> \in inflight => Key(w) \notin charged
  /\ w \in pending => Key(w) \notin charged /\ rows[Key(w)].kind = "settle"

Alone ==
  \A v, w \in Requests : Engaged(v) /\ Engaged(w) /\ Key(v) = Key(w) => v = w

(* The calls made and the money moved agree with the row.                  *)
Accounted(k) ==
  /\ calls[k].verify <= 1 /\ calls[k].settle <= 1
  /\ calls[k].verify > 0 => Present(k) /\ Rank(rows[k]) >= 1
  /\ calls[k].settle > 0 => Present(k) /\ Rank(rows[k]) >= 5
  /\ k \in charged =>
       Present(k) /\ (rows[k].state = "fulfilled" \/ rows[k].kind = "settle")
  /\ Present(k) /\ rows[k].state = "fulfilled" => k \in charged

SafetyInv ==
  /\ \A w \in Requests : Local(w) /\ (Engaged(w) => Fits(w))
  /\ Alone
  /\ \A k \in RecordKeys : Accounted(k)

-----------------------------------------------------------------------------
(* What a call that the coordinator accepts does to the row.               *)

LEMMA KeyInTable ==
  ASSUME OrchestratorTypeOK, NEW w \in Requests
  PROVE  Key(w) \in RecordKeys /\ req[w].input \in Inputs
BY DEF OrchestratorTypeOK, RequestState, Key, KeyOf, RecordKeys, Inputs

LEMMA RowOf ==
  ASSUME CoordinatorInv, NEW k \in RecordKeys, Present(k)
  PROVE  rows[k] \in Row /\ WellFormed(rows[k], issued)
BY DEF CoordinatorInv, TypeOK, LeaseShape, Present

(* A lease that the coordinator accepts is one that it granted.            *)
LEMMA HeldLease ==
  ASSUME CoordinatorInv, NEW k \in RecordKeys, Present(k), NEW kind \in Kinds,
         NEW g, NEW t, HoldsLease(k, kind, g, t)
  PROVE  g \in Generations /\ t \in Tokens
<1>1. rows[k] \in Row /\ WellFormed(rows[k], issued) /\ issued \subseteq Tokens
  BY RowOf DEF CoordinatorInv, TypeOK
<1>2. rows[k].kind = kind /\ kind # NULL /\ rows[k].gen = g /\ rows[k].token = t
  BY CoordinatorAssumption DEF HoldsLease
<1>3. rows[k].gen \in {1, 2}
  BY <1>1, <1>2 DEF WellFormed, Kinds
<1>4. rows[k].token \in Tokens
  BY <1>1, <1>2 DEF WellFormed
<1>. QED
  BY <1>2, <1>3, <1>4 DEF Generations

Calls == Methods \ Reading

LEMMA EffectIsMethod ==
  ASSUME OrchestratorTypeOK, CoordinatorInv, NEW w \in Requests, NEW m \in Calls,
         Effect(w, m)
  PROVE  Method(Key(w))
<1>. DEFINE k == Key(w)
<1>1. k \in RecordKeys
  BY KeyInTable
<1>. HIDE DEF k
<1>2. ASSUME NEW kind \in Kinds, HoldsLease(k, kind, Gen(w), Token(w)), Present(k)
      PROVE  Gen(w) \in Generations /\ Token(w) \in Tokens
  BY <1>1, <1>2, HeldLease
<1>. USE DEF k
<1>3. CASE m = "acquireVerifyLease" \/ m = "acquireSettleLease"
  BY <1>3 DEF Effect, Method, Acquire
<1>4. CASE m = "stageResponse"
  <2>1. StageResponse(k, req[w].body)
    BY <1>4 DEF Effect
  <2>2. req[w].body \in Bodies
    BY <2>1, CoordinatorAssumption DEF StageResponse, CanStageResponse
  <2>. QED
    BY <2>1, <2>2 DEF Method
<1>5. CASE m \in {"completeVerify", "markVerifyUncertain", "failVerifyDefinitive",
                  "failPostVerifyDefinitive"}
  <2>1. \/ CompleteVerify(k, Gen(w), Token(w))
        \/ MarkVerifyUncertain(k, Gen(w), Token(w))
        \/ FailVerifyDefinitive(k, Gen(w), Token(w))
        \/ FailPostVerifyDefinitive(k, Gen(w), Token(w))
    BY <1>5 DEF Effect
  <2>2. HoldsLease(k, "verify", Gen(w), Token(w)) /\ Present(k)
    BY <2>1 DEF CompleteVerify, CanCompleteVerify, MarkVerifyUncertain, FailVerifyDefinitive,
                VerifyAwaited, FailPostVerifyDefinitive, AwaitsSettlement, InState
  <2>3. Gen(w) \in Generations /\ Token(w) \in Tokens
    BY <1>2, <2>2 DEF Kinds
  <2>. QED
    BY <2>1, <2>3 DEF Method, Resolve
<1>6. CASE m \in {"completeFulfillment", "markSettleUncertain", "failSettleDefinitive"}
  <2>1. \/ CompleteFulfillment(k, Gen(w), Token(w), req[w].receipt)
        \/ MarkSettleUncertain(k, Gen(w), Token(w))
        \/ FailSettleDefinitive(k, Gen(w), Token(w))
    BY <1>6 DEF Effect
  <2>2. HoldsLease(k, "settle", Gen(w), Token(w)) /\ Present(k)
    BY <2>1 DEF CompleteFulfillment, CanCompleteFulfillment, MarkSettleUncertain,
                FailSettleDefinitive, SettleAwaited, InState
  <2>3. Gen(w) \in Generations /\ Token(w) \in Tokens
    BY <1>2, <2>2 DEF Kinds
  <2>4. CompleteFulfillment(k, Gen(w), Token(w), req[w].receipt) =>
          req[w].receipt \in Receipts
    BY CoordinatorAssumption DEF CompleteFulfillment, CanCompleteFulfillment
  <2>. QED
    BY <2>1, <2>3, <2>4 DEF Method, Resolve
<1>. QED
  BY <1>3, <1>4, <1>5, <1>6 DEF Calls, Methods, Reading

(* The row goes forward and keeps its expiry and its staged body.          *)
LEMMA EffectMoves ==
  ASSUME OrchestratorTypeOK, CoordinatorInv, NEW w \in Requests, NEW m \in Calls,
         Effect(w, m)
  PROVE  /\ Present(Key(w)) /\ rows'[Key(w)] # NoRow
         /\ rows[Key(w)] \in Row /\ rows'[Key(w)] \in Row
         /\ WellFormed(rows[Key(w)], issued) /\ WellFormed(rows'[Key(w)], issued')
         /\ Rank(rows'[Key(w)]) > Rank(rows[Key(w)])
         /\ rows'[Key(w)].ttl = rows[Key(w)].ttl
         /\ rows[Key(w)].body # NULL => rows'[Key(w)].body = rows[Key(w)].body
         /\ \A j \in RecordKeys \ {Key(w)} : rows'[j] = rows[j]
<1>1. Method(Key(w)) /\ Key(w) \in RecordKeys
  BY EffectIsMethod, KeyInTable
<1>2. Present(Key(w)) /\ \E row \in Row : MovesTo(Key(w), row)
  BY <1>1, MethodMoves DEF CoordinatorInv
<1>3. PICK row \in Row : MovesTo(Key(w), row)
  BY <1>2
<1>4. /\ rows'[Key(w)] = row /\ rows'[Key(w)] # NoRow
      /\ \A j \in RecordKeys \ {Key(w)} : rows'[j] = rows[j]
  BY <1>1, <1>3, PutRow DEF MovesTo, CoordinatorInv
<1>5. rows[Key(w)] \in Row /\ WellFormed(rows[Key(w)], issued)
  BY <1>1, <1>2, RowOf
<1>. QED
  BY <1>2, <1>3, <1>4, <1>5 DEF MovesTo, Moves, SameContent

(* Only completeFulfillment fulfils, only failSettleDefinitive gives up a  *)
(* settlement, and what the handler reads back is what it wrote.           *)
LEMMA EffectTells ==
  ASSUME OrchestratorTypeOK, CoordinatorInv, NEW w \in Requests, NEW m \in Calls,
         Effect(w, m)
  PROVE  /\ rows[Key(w)].state # "fulfilled"
         /\ rows'[Key(w)].state = "fulfilled" => m = "completeFulfillment"
         /\ rows[Key(w)].kind = "settle" =>
              \/ rows'[Key(w)].kind = "settle"
              \/ m = "completeFulfillment" /\ rows'[Key(w)].state = "fulfilled"
              \/ m = "failSettleDefinitive"
         /\ m = "completeFulfillment" => rows'[Key(w)].receipt = req[w].receipt
         /\ m = "stageResponse" => rows'[Key(w)].body = req[w].body
         /\ m = "acquireVerifyLease" => rows[Key(w)].state = "reserved"
         /\ m = "acquireSettleLease" =>
              rows[Key(w)].state = "computing" /\ rows'[Key(w)].kind = "settle"
<1>. DEFINE k == Key(w)
<1>1. /\ k \in RecordKeys /\ Present(k) /\ rows[k] \in Row
      /\ WellFormed(rows[k], issued) /\ WellFormed(rows'[k], issued')
      /\ Rank(rows'[k]) > Rank(rows[k]) /\ rows'[k] \in Row
  BY EffectMoves, KeyInTable
<1>2. /\ rows \in [RecordKeys -> Row \cup {NoRow}]
      /\ \A row : Put(k, row) => rows'[k] = row
  BY <1>1 DEF CoordinatorInv, TypeOK, Put
<1>3. rows[k].state # "fulfilled"
  BY <1>1 DEF Rank, Row, States, InProgressStates, Kinds
<1>. HIDE DEF k
<1>. USE <1>1
<1>4. CASE m = "acquireVerifyLease"
  <2>1. PICK t \in Tokens : AcquireVerifyLease(k, t)
    BY <1>4 DEF Effect, k
  <2>2. /\ rows[k].state = "reserved"
        /\ rows'[k] = [rows[k] EXCEPT !.state = "verifying", !.kind = "verify",
                                      !.gen = @ + 1, !.token = t]
    BY <1>2, <2>1 DEF AcquireVerifyLease, GrantLease, CanAcquireVerifyLease, InState
  <2>3. rows[k].kind # "settle" /\ rows'[k].state = "verifying"
    BY <2>2 DEF WellFormed, Row
  <2>. QED
    BY <1>3, <1>4, <2>2, <2>3 DEF k
<1>5. CASE m = "acquireSettleLease"
  <2>1. PICK t \in Tokens : AcquireSettleLease(k, t)
    BY <1>5 DEF Effect, k
  <2>2. /\ rows[k].state = "computing"
        /\ rows'[k] = [rows[k] EXCEPT !.state = "settling", !.kind = "settle",
                                      !.gen = @ + 1, !.token = t]
    BY <1>2, <2>1 DEF AcquireSettleLease, GrantLease, CanAcquireSettleLease, InState
  <2>3. rows'[k].kind = "settle" /\ rows'[k].state = "settling"
    BY <2>2 DEF Row
  <2>. QED
    BY <1>3, <1>5, <2>2, <2>3 DEF k
<1>6. CASE m = "stageResponse"
  <2>1. /\ rows[k].state = "verified"
        /\ rows'[k] = [rows[k] EXCEPT !.state = "computing", !.body = req[w].body]
    BY <1>2, <1>6 DEF Effect, StageResponse, CanStageResponse, InState, k
  <2>2. rows[k].kind # "settle"
    BY <2>1 DEF WellFormed
  <2>3. rows'[k].state = "computing" /\ rows'[k].body = req[w].body
    BY <2>1 DEF Row
  <2>. QED
    BY <1>3, <1>6, <2>2, <2>3 DEF k
<1>7. CASE m \in {"completeVerify", "markVerifyUncertain", "markSettleUncertain"}
  <2>1. PICK state \in {"verified", "uncertain"} : SetState(k, state)
    BY <1>7 DEF Effect, CompleteVerify, MarkVerifyUncertain, MarkSettleUncertain, k
  <2>2. rows'[k] = [rows[k] EXCEPT !.state = state]
    BY <1>2, <2>1 DEF SetState
  <2>3. rows'[k].state = state /\ rows'[k].kind = rows[k].kind
    BY <2>2 DEF Row
  <2>. QED
    BY <1>3, <1>7, <2>3 DEF k
<1>8. CASE m \in {"failVerifyDefinitive", "failPostVerifyDefinitive", "failSettleDefinitive"}
  <2>1. /\ SetFailed(k)
        /\ m # "failSettleDefinitive" => rows[k].kind = "verify"
    BY <1>8 DEF Effect, FailVerifyDefinitive, FailPostVerifyDefinitive, FailSettleDefinitive,
                VerifyAwaited, AwaitsSettlement, HoldsLease, k
  <2>2. rows'[k] = [rows[k] EXCEPT !.state = "failed-definitive", !.kind = NULL,
                                   !.token = NULL]
    BY <1>2, <2>1 DEF SetFailed
  <2>3. rows'[k].state = "failed-definitive"
    BY <2>2 DEF Row
  <2>. QED
    BY <1>3, <1>8, <2>1, <2>3 DEF k
<1>9. CASE m = "completeFulfillment"
  <2>1. rows'[k] = [rows[k] EXCEPT !.state = "fulfilled", !.receipt = req[w].receipt,
                                   !.kind = NULL, !.token = NULL]
    BY <1>2, <1>9 DEF Effect, CompleteFulfillment, k
  <2>2. rows'[k].state = "fulfilled" /\ rows'[k].receipt = req[w].receipt
    BY <2>1 DEF Row
  <2>. QED
    BY <1>3, <1>9, <2>2 DEF k
<1>. QED
  BY <1>4, <1>5, <1>6, <1>7, <1>8, <1>9 DEF Calls, Methods, Reading

LEMMA RankInRange ==
  ASSUME NEW row \in Row
  PROVE  Rank(row) \in 0 .. 7
BY DEF Rank, Row, States, InProgressStates, Kinds

(* The row stays in accord with the calls and the money, if its settlement *)
(* is completed only when money moved and given up only when none did.     *)
LEMMA EffectAccounts ==
  ASSUME OrchestratorTypeOK, CoordinatorInv, NEW w \in Requests, NEW m \in Calls,
         Effect(w, m), NEW k \in RecordKeys, k = Key(w), Accounted(k),
         UNCHANGED <<calls, charged>>,
         m = "completeFulfillment" => k \in charged,
         m = "failSettleDefinitive" => k \notin charged
  PROVE  Accounted(k)'
<1>1. /\ Present(k) /\ rows'[k] # NoRow /\ rows[k] \in Row /\ rows'[k] \in Row
      /\ Rank(rows'[k]) > Rank(rows[k])
  BY EffectMoves
<1>2. /\ rows[k].state # "fulfilled"
      /\ rows'[k].state = "fulfilled" => m = "completeFulfillment"
      /\ rows[k].kind = "settle" =>
           \/ rows'[k].kind = "settle"
           \/ m = "completeFulfillment" /\ rows'[k].state = "fulfilled"
           \/ m = "failSettleDefinitive"
  BY EffectTells
<1>3. Rank(rows[k]) \in 0 .. 7 /\ Rank(rows'[k]) \in 0 .. 7
  BY <1>1, RankInRange
<1>. QED
  BY <1>1, <1>2, <1>3 DEF Accounted, Present

-----------------------------------------------------------------------------
(* A step of one request leaves the others what they rely on.              *)

Untouched(k) ==
  rows'[k] = rows[k] /\ calls'[k] = calls[k] /\ (k \in charged' <=> k \in charged)

(* Request u changes its own variables and calls, and of the rows at most  *)
(* its own, if it is engaged with it or the first to reserve it.           *)
Frame(u) ==
  /\ \A v \in Requests \ {u} : req'[v] = req[v]
  /\ req'[u].input = req[u].input
  /\ \A v \in Requests \ {u}, m \in Methods :
       <<v, m>> \in inflight' <=> <<v, m>> \in inflight
  /\ \A v \in Requests \ {u} : v \in pending' <=> v \in pending
  /\ \A k \in RecordKeys \ {Key(u)} : Untouched(k)
  /\ Engaged(u) \/ ~ Present(Key(u)) \/ Untouched(Key(u))

(* What remains to be shown of the request itself.                         *)
Keeps(u) ==
  /\ Frame(u)
  /\ Local(u)'
  /\ Engaged(u)' => (Engaged(u) \/ ~ Present(Key(u))) /\ Fits(u)'
  /\ \A k \in RecordKeys : k = Key(u) => Accounted(k)'
  /\ req'[u].status = req[u].status \/ Honest(u)

LEMMA OthersKeep ==
  ASSUME OrchestratorTypeOK, SafetyInv, NEW u \in Requests, Keeps(u)
  PROVE  SafetyInv'
<1>1. ASSUME NEW v \in Requests
      PROVE  Key(v)' = Key(v) /\ Key(v) \in RecordKeys
  BY KeyInTable DEF Keeps, Frame, Key
<1>2. ASSUME NEW w \in Requests, w # u
      PROVE  /\ req'[w] = req[w] /\ (Engaged(w)' <=> Engaged(w))
             /\ \A m \in Methods : <<w, m>> \in inflight' <=> <<w, m>> \in inflight
             /\ w \in pending' <=> w \in pending
  BY <1>2 DEF Keeps, Frame, Engaged, Working
<1>3. ASSUME NEW w \in Requests, w # u
      PROVE  Local(w)'
  BY <1>2, <1>3 DEF SafetyInv, Local, Done, At
<1>4. ASSUME NEW w \in Requests, w # u, Engaged(w)'
      PROVE  Engaged(w) /\ Present(Key(w)) /\ (Engaged(u) => Key(u) # Key(w))
  BY <1>2, <1>4 DEF SafetyInv, Fits, Alone
<1>5. ASSUME NEW w \in Requests, w # u, Engaged(w)'
      PROVE  Fits(w)'
  <2>1. Untouched(Key(w))
    BY <1>1, <1>4, <1>5 DEF Keeps, Frame
  <2>2. Fits(w)
    BY <1>4, <1>5 DEF SafetyInv
  <2>3. /\ <<w, "completeFulfillment">> \in inflight' <=> <<w, "completeFulfillment">> \in inflight
        /\ <<w, "failSettleDefinitive">> \in inflight' <=> <<w, "failSettleDefinitive">> \in inflight
        /\ w \in pending' <=> w \in pending
    BY <1>2, <1>5 DEF Methods
  <2>4. req'[w] = req[w] /\ Key(w)' = Key(w)
    BY <1>1, <1>2, <1>5
  <2>. QED
    BY <2>1, <2>2, <2>3, <2>4 DEF Untouched, Fits, Present, At
<1>6. \A w \in Requests : Local(w)' /\ (Engaged(w)' => Fits(w)')
  BY <1>3, <1>5 DEF Keeps
<1>7. Alone'
  <2>. SUFFICES ASSUME NEW v \in Requests, NEW w \in Requests, Engaged(v)', Engaged(w)',
                       Key(v)' = Key(w)', v # w
                PROVE  FALSE
    BY DEF Alone
  <2>1. Key(v) = Key(w)
    BY <1>1
  <2>2. CASE v # u /\ w # u
    BY <1>4, <2>1, <2>2 DEF SafetyInv, Alone
  <2>3. CASE v = u \/ w = u
    BY <1>4, <2>1, <2>3 DEF Keeps
  <2>. QED
    BY <2>2, <2>3
<1>8. ASSUME NEW k \in RecordKeys
      PROVE  Accounted(k)'
  <2>1. CASE k = Key(u)
    BY <2>1 DEF Keeps
  <2>2. CASE k # Key(u)
    BY <2>2 DEF Keeps, Frame, Untouched, SafetyInv, Accounted, Present
  <2>. QED
    BY <2>1, <2>2
<1>. QED
  BY <1>6, <1>7, <1>8 DEF SafetyInv

-----------------------------------------------------------------------------
(* What is shown of every step of a request: the types, that the table is  *)
(* changed as the coordinator changes it, and the invariant.               *)

Typed ==
  /\ req' \in [Requests -> RequestState]
  /\ inflight' \subseteq Requests \X Methods
  /\ failures' \in 0 .. MaxFailures
  /\ crashes' \in 0 .. MaxCrashes
  /\ calls' \in [RecordKeys -> [verify : Nat, settle : Nat]]
  /\ charged' \subseteq RecordKeys
  /\ spent' \subseteq Auths
  /\ pending' \subseteq Requests

Sound(u) == Typed /\ [Next]_vars /\ (SafetyInv => Keeps(u))

LEMMA EffectIsNext ==
  ASSUME OrchestratorTypeOK, CoordinatorInv, NEW w \in Requests, NEW m \in Methods,
         Effect(w, m)
  PROVE  Next
<1>1. CASE m \in Calls
  BY <1>1, EffectIsMethod, KeyInTable DEF Method, Next
<1>2. CASE m \in Reading
  BY <1>2, KeyInTable DEF Effect, Reading, Next
<1>. QED
  BY <1>1, <1>2 DEF Calls

(* A call, made now or long ago, that the coordinator accepts.             *)
LEMMA EffectKeeps ==
  ASSUME OrchestratorTypeOK, CoordinatorInv, SafetyInv, NEW u \in Requests, NEW m \in Calls,
         Effect(u, m), At(u, m) \/ <<u, m>> \in inflight,
         \A v \in Requests \ {u} : req'[v] = req[v],
         req'[u].input = req[u].input,
         inflight' = inflight \/ inflight' = inflight \ {<<u, m>>},
         UNCHANGED <<calls, charged, pending>>
  PROVE  /\ Frame(u) /\ Engaged(u) /\ Fits(u)
         /\ \A k \in RecordKeys : k = Key(u) => Accounted(k)'
         /\ rows'[Key(u)] # NoRow /\ rows'[Key(u)].ttl > 0
<1>1. Engaged(u)
  BY DEF Engaged, Working, At, Calls, Methods, Reading
<1>2. Fits(u) /\ Local(u)
  BY <1>1 DEF SafetyInv
<1>3. Key(u) \in RecordKeys
  BY KeyInTable
<1>4. /\ m = "completeFulfillment" => Key(u) \in charged
      /\ m = "failSettleDefinitive" => Key(u) \notin charged
  BY <1>2 DEF Fits, At, Early
<1>5. \A k \in RecordKeys : k = Key(u) => Accounted(k)'
  BY <1>4, EffectAccounts DEF SafetyInv
<1>6. /\ rows'[Key(u)] # NoRow /\ rows'[Key(u)].ttl = rows[Key(u)].ttl
      /\ \A j \in RecordKeys \ {Key(u)} : rows'[j] = rows[j]
  BY EffectMoves
<1>7. Frame(u)
  BY <1>1, <1>6 DEF Frame, Untouched
<1>. QED
  BY <1>1, <1>2, <1>5, <1>6, <1>7 DEF Fits

(* Nothing happens to the tables: a step of a request with itself.         *)
LEMMA InnerFrame ==
  ASSUME OrchestratorTypeOK, SafetyInv, NEW u \in Requests,
         \A v \in Requests \ {u} : req'[v] = req[v],
         req'[u].input = req[u].input,
         \A v \in Requests \ {u}, m \in Methods :
           <<v, m>> \in inflight' <=> <<v, m>> \in inflight,
         UNCHANGED <<rows, calls, charged, pending>>
  PROVE  Frame(u) /\ \A k \in RecordKeys : k = Key(u) => Accounted(k)'
BY DEF Frame, Untouched, SafetyInv, Accounted, Present

(* A request is answered or dies; the call it makes may be left in flight. *)
LEMMA EndsSound ==
  ASSUME OrchestratorTypeOK, NEW u \in Requests,
         Goes(u, "answered") \/ Goes(u, "crashed"),
         \/ inflight' = inflight
         \/ \E m \in Methods : At(u, m) /\ inflight' = inflight \cup {<<u, m>>},
         failures' \in 0 .. MaxFailures, crashes' \in 0 .. MaxCrashes,
         UNCHANGED <<vars, outside>>,
         req'[u].receipt = req[u].receipt \/ At(u, "getReplay"),
         SafetyInv => req'[u].status = req[u].status \/ Honest(u)
  PROVE  Sound(u)
<1>1. PICK m \in Methods :
        \/ inflight' = inflight
        \/ At(u, m) /\ inflight' = inflight \cup {<<u, m>>}
  BY DEF Methods
<1>2. Typed
  BY <1>1 DEF Typed, OrchestratorTypeOK, Goes, outside
<1>3. ASSUME SafetyInv PROVE Keeps(u)
  <2>1. Frame(u) /\ \A k \in RecordKeys : k = Key(u) => Accounted(k)'
    BY <1>1, <1>3, InnerFrame DEF Goes, vars, outside
  <2>2. req'[u].pc \in {"answered", "crashed"} /\ Key(u)' = Key(u)
    BY DEF Goes, Key
  <2>3. Local(u)'
    <3>1. Local(u) /\ UNCHANGED pending
      BY <1>3 DEF SafetyInv, outside
    <3>. QED
      BY <1>1, <2>2, <3>1 DEF Local, Done, At, Reading, Early, Methods
  <2>4. ASSUME Engaged(u)' PROVE Engaged(u)
    BY <1>1, <2>2, <2>4 DEF Engaged, Working, At, Methods, Reading, outside
  <2>5. ASSUME Engaged(u)' PROVE Fits(u)'
    <3>1. Fits(u)
      BY <1>3, <2>4, <2>5 DEF SafetyInv
    <3>2. /\ <<u, "completeFulfillment">> \in inflight' => Key(u) \in charged
          /\ <<u, "failSettleDefinitive">> \in inflight' => Key(u) \notin charged
      BY <1>1, <3>1 DEF Fits, At, Early
    <3>. QED
      BY <2>2, <3>1, <3>2 DEF Fits, Present, At, Early, vars, outside
  <2>. QED
    BY <1>3, <2>1, <2>3, <2>4, <2>5 DEF Keeps
<1>. QED
  BY <1>2, <1>3 DEF Sound

-----------------------------------------------------------------------------
(* The steps of a request, one by one.                                     *)

LEMMA NothingElseTyped ==
  ASSUME OrchestratorTypeOK, NothingElse, req' \in [Requests -> RequestState]
  PROVE  Typed
BY DEF OrchestratorTypeOK, NothingElse, Typed, faults, outside

LEMMA AnswerSound ==
  ASSUME OrchestratorTypeOK, NEW u \in Requests, NEW status \in Statuses,
         Answer(u, status), UNCHANGED vars, NothingElse,
         SafetyInv /\ status = 402 => Key(u) \notin charged,
         SafetyInv /\ status = 200 =>
           /\ Key(u) \in charged /\ rows[Key(u)].body = req[u].body
           /\ rows[Key(u)].receipt \in {NULL, req[u].receipt}
  PROVE  Sound(u)
<1>1. Goes(u, "answered") /\ SameData(u) /\ req'[u].status = status
  BY AnswerDoes
<1>2. SafetyInv => Honest(u)
  BY <1>1 DEF Honest, SameData, vars
<1>. QED
  BY <1>1, <1>2, EndsSound DEF SameData, NothingElse, faults, OrchestratorTypeOK, outside

LEMMA ThrowTyped ==
  ASSUME OrchestratorTypeOK, NEW u \in Requests, NEW m \in Methods, Throws(u, m)
  PROVE  /\ inflight' = inflight \cup {<<u, m>>}
         /\ inflight' \subseteq Requests \X Methods
         /\ failures' \in 0 .. MaxFailures /\ crashes' \in 0 .. MaxCrashes
         /\ UNCHANGED <<vars, outside>>
<1>1. failures' \in 0 .. MaxFailures
  BY OrchestratorAssumption DEF Throws, OrchestratorTypeOK
<1>. QED
  BY <1>1 DEF Throws, OrchestratorTypeOK

LEMMA ThrowSound ==
  ASSUME OrchestratorTypeOK, NEW u \in Requests, NEW m \in Methods, At(u, m),
         NEW status \in {500, 503}, ThrowsToAnswer(u, m, status)
  PROVE  Sound(u)
<1>1. status \in Statuses
  BY DEF Statuses
<1>2. Goes(u, "answered") /\ SameData(u) /\ req'[u].status = status
  BY <1>1, ThrowsToAnswerDoes
<1>3. Honest(u)
  BY <1>2 DEF Honest
<1>. QED
  BY <1>2, <1>3, ThrowTyped, EndsSound DEF ThrowsToAnswer, SameData

LEMMA PrepareReplies ==
  ASSUME OrchestratorTypeOK, NEW u \in Requests
  PROVE  PrepareReply(req[u].input) \in
           {"created", "conflict", "replay", "failed", "uncertain", "wait"}
<1>1. CASE Present(Key(u))
  <2>1. rows[Key(u)].state \in States
    BY <1>1, KeyInTable DEF OrchestratorTypeOK, TypeOK, Present, Row
  <2>. QED
    BY <1>1, <2>1 DEF PrepareReply, ClassifyExistingPrepareRow, States, Key
<1>. QED
  BY <1>1 DEF PrepareReply, Key

(* A reserved row is new: no call was made and no money moved for it, and  *)
(* no request is engaged with it.                                          *)
LEMMA ReserveKeeps ==
  ASSUME OrchestratorTypeOK, CoordinatorInv, SafetyInv, NEW u \in Requests,
         PrepareAttempt(req[u].input), UNCHANGED <<calls, charged>>,
         NEW k \in RecordKeys, k = Key(u)
  PROVE  /\ ~ Present(k) /\ ~ Engaged(u) /\ k \notin charged
         /\ rows'[k] # NoRow /\ rows'[k].ttl > 0
         /\ \A j \in RecordKeys \ {k} : rows'[j] = rows[j]
         /\ Accounted(k)'
<1>. DEFINE row == NewRow(req[u].input)
<1>1. req[u].input \in Inputs
  BY KeyInTable
<1>2. row \in Row /\ row.state = "reserved" /\ row.kind = NULL /\ row.ttl > 0
  BY <1>1, CoordinatorAssumption DEF NewRow, Row, States, InProgressStates, Inputs
<1>3. /\ rows'[k] = row /\ row # NoRow
      /\ \A j \in RecordKeys \ {k} : rows'[j] = rows[j]
  BY <1>1, <1>2, PutRow, CoordinatorAssumption DEF PrepareAttempt, Key, CoordinatorInv
<1>4. ~ Present(k)
  BY <1>1 DEF PrepareAttempt, RowsByPaymentIdentifier, Key, KeyOf
<1>5. ~ Engaged(u) /\ Accounted(k)
  BY <1>4 DEF SafetyInv, Fits
<1>6. /\ calls[k] \in [verify : Nat, settle : Nat]
      /\ ~ (calls[k].verify > 0) /\ ~ (calls[k].settle > 0) /\ k \notin charged
  BY <1>4, <1>5 DEF Accounted, OrchestratorTypeOK
<1>7. Accounted(k)'
  BY <1>2, <1>3, <1>5, <1>6, CoordinatorAssumption DEF Accounted, Present, Kinds
<1>. QED
  BY <1>2, <1>3, <1>4, <1>5, <1>6, <1>7

LEMMA ReserveSound ==
  ASSUME OrchestratorTypeOK, CoordinatorInv, NEW u \in Requests, At(u, "prepareAttempt"),
         PrepareAttempt(req[u].input), GoTo(u, "acquireVerifyLease"), NothingElse
  PROVE  Sound(u)
<1>1. /\ Goes(u, "acquireVerifyLease") /\ SameData(u)
      /\ req'[u].status = req[u].status
  BY GoToDoes DEF Labels, Methods
<1>2. Typed
  BY <1>1, NothingElseTyped DEF Goes
<1>3. Next /\ Key(u) \in RecordKeys
  BY KeyInTable DEF Next
<1>4. ASSUME SafetyInv PROVE Keeps(u)
  <2>1. /\ \A m \in Methods : <<u, m>> \notin inflight
        /\ req[u].receipt = NULL /\ u \notin pending
    BY <1>4 DEF SafetyInv, Local, Done, At, Reading
  <2>2. UNCHANGED <<inflight, calls, charged, pending>> /\ Key(u)' = Key(u)
    BY <1>1 DEF NothingElse, faults, outside, Goes, Key
  <2>3. /\ ~ Present(Key(u)) /\ Key(u) \notin charged
        /\ rows'[Key(u)] # NoRow /\ rows'[Key(u)].ttl > 0
        /\ \A j \in RecordKeys \ {Key(u)} : rows'[j] = rows[j]
        /\ \A j \in RecordKeys : j = Key(u) => Accounted(j)'
    BY <1>3, <1>4, <2>2, ReserveKeeps
  <2>4. Frame(u)
    BY <1>1, <2>2, <2>3 DEF Frame, Untouched, Goes
  <2>5. Local(u)'
    BY <1>1, <2>1, <2>2 DEF Local, Goes, SameData
  <2>6. Fits(u)'
    BY <1>1, <2>1, <2>2, <2>3 DEF Fits, Goes, At, Present, Early, Methods
  <2>. QED
    BY <1>1, <2>3, <2>4, <2>5, <2>6 DEF Keeps
<1>. QED
  BY <1>2, <1>3, <1>4 DEF Sound

LEMMA PrepareSound ==
  ASSUME OrchestratorTypeOK, CoordinatorInv, NEW u \in Requests, Prepare(u)
  PROVE  Sound(u)
<1>. DEFINE reply == PrepareReply(req[u].input)
<1>1. CASE PrepareAttempt(req[u].input) /\ GoTo(u, "acquireVerifyLease") /\ NothingElse
  BY <1>1, ReserveSound DEF Prepare
<1>2. CASE GoTo(u, "getReplay") /\ UNCHANGED vars /\ NothingElse
  <2>1. Goes(u, "getReplay") /\ SameData(u) /\ req'[u].status = req[u].status
    BY <1>2, GoToDoes DEF Labels, Methods
  <2>2. Typed
    BY <1>2, <2>1, NothingElseTyped DEF Goes
  <2>3. ASSUME SafetyInv PROVE Keeps(u)
    <3>1. /\ \A m \in Methods : <<u, m>> \notin inflight
          /\ req[u].receipt = NULL /\ u \notin pending
      BY <2>3 DEF SafetyInv, Local, Done, At, Reading, Prepare
    <3>2. UNCHANGED <<inflight, rows, calls, charged, pending>>
      BY <1>2 DEF NothingElse, faults, outside, vars
    <3>3. Frame(u) /\ \A k \in RecordKeys : k = Key(u) => Accounted(k)'
      BY <2>1, <2>3, <3>2, InnerFrame DEF Goes
    <3>4. Local(u)'
      BY <2>1, <3>1, <3>2 DEF Local, Goes, SameData
    <3>5. ~ Engaged(u)'
      BY <2>1, <3>1, <3>2 DEF Engaged, Working, Goes, Reading
    <3>. QED
      BY <2>1, <3>3, <3>4, <3>5 DEF Keeps
  <2>. QED
    BY <1>2, <2>2, <2>3 DEF Sound
<1>3. CASE /\ reply \notin {"created", "replay"}
           /\ Answer(u, AnswerOf(reply)) /\ UNCHANGED vars /\ NothingElse
  <2>1. AnswerOf(reply) \in Statuses
    BY <1>3, PrepareReplies DEF AnswerOf, Statuses
  <2>2. reply = "failed" => Present(Key(u)) /\ rows[Key(u)].state = "failed-definitive"
    <3>1. Present(Key(u)) => rows[Key(u)].state \in States
      BY KeyInTable DEF OrchestratorTypeOK, TypeOK, Present, Row
    <3>2. CASE Present(Key(u))
      BY <3>1, <3>2 DEF PrepareReply, ClassifyExistingPrepareRow, Key, States, InProgressStates
    <3>3. CASE ~ Present(Key(u))
      BY <3>3 DEF PrepareReply, Key
    <3>. QED
      BY <3>2, <3>3
  <2>3. ASSUME SafetyInv, reply = "failed" PROVE Key(u) \notin charged
    <3>1. WellFormed(rows[Key(u)], issued) /\ Key(u) \in RecordKeys
      BY <2>2, <2>3, KeyInTable, RowOf
    <3>. QED
      BY <2>2, <2>3, <3>1, CoordinatorAssumption DEF SafetyInv, Accounted, WellFormed, Kinds
  <2>4. AnswerOf(reply) # 200 /\ (AnswerOf(reply) = 402 => reply = "failed")
    BY <1>3, PrepareReplies DEF AnswerOf
  <2>. QED
    BY <1>3, <2>1, <2>3, <2>4, AnswerSound
<1>4. CASE ThrowsToAnswer(u, "prepareAttempt", 503)
  BY <1>4, ThrowSound DEF Prepare, Methods
<1>. QED
  BY <1>1, <1>2, <1>3, <1>4 DEF Prepare

LEMMA GetReplaySound ==
  ASSUME OrchestratorTypeOK, CoordinatorInv, NEW u \in Requests, GetReplay(u)
  PROVE  Sound(u)
<1>. DEFINE replay == Replay(Key(u))
<1>1. CASE /\ replay # NULL
           /\ AnswerPaid(u, replay.body, replay.receipt) /\ UNCHANGED vars /\ NothingElse
  <2>1. /\ Present(Key(u)) /\ Key(u) \in RecordKeys
        /\ replay = [body |-> rows[Key(u)].body, receipt |-> rows[Key(u)].receipt]
    BY <1>1, KeyInTable DEF Replay
  <2>2. rows[Key(u)].body \in Bodies \cup {NULL} /\ rows[Key(u)].receipt \in Receipts \cup {NULL}
    BY <2>1, RowOf DEF Row
  <2>3. /\ Goes(u, "answered") /\ req'[u].status = 200
        /\ req'[u].body = rows[Key(u)].body /\ req'[u].receipt = rows[Key(u)].receipt
    BY <1>1, <2>1, <2>2, AnswerPaidDoes
  <2>4. SafetyInv => Honest(u)
    BY <1>1, <2>1, <2>3 DEF Replay, SafetyInv, Accounted, Honest, vars
  <2>. QED
    BY <1>1, <2>3, <2>4, EndsSound DEF GetReplay, NothingElse, faults, OrchestratorTypeOK,
                                       outside
<1>2. CASE Answer(u, 503) /\ UNCHANGED vars /\ NothingElse
  BY <1>2, AnswerSound DEF Statuses
<1>3. CASE ThrowsToAnswer(u, "getReplay", 500)
  BY <1>3, ThrowSound DEF GetReplay, Methods
<1>. QED
  BY <1>1, <1>2, <1>3 DEF GetReplay

(* A request that is at work, and not reporting an uncertain settlement,   *)
(* has no call in flight.                                                  *)
LEMMA NoneInFlight ==
  ASSUME SafetyInv, NEW u \in Requests, NEW label \in Labels \ {"markSettleUncertain"},
         At(u, label), Working(u)
  PROVE  /\ \A m \in Methods : <<u, m>> \notin inflight
         /\ Engaged(u) /\ Fits(u) /\ u \notin pending
         /\ req[u].pc \in Early => req[u].receipt = NULL
BY DEF SafetyInv, Local, Done, At, Working, Engaged

(* The coordinator accepts a call, and the request goes on.                *)
LEMMA AcceptedGoesOn ==
  ASSUME OrchestratorTypeOK, CoordinatorInv, SafetyInv, NEW u \in Requests,
         NEW m \in {"acquireVerifyLease", "completeVerify", "stageResponse",
                    "acquireSettleLease"},
         At(u, m), Effect(u, m),
         NEW label \in {"verifyPayment", "buildResponse", "acquireSettleLease",
                        "settlePayment"},
         Goes(u, label), SameData(u), req'[u].status = req[u].status, NothingElse,
         label = "verifyPayment" => m = "acquireVerifyLease",
         label = "acquireSettleLease" => m = "stageResponse",
         label = "settlePayment" => m = "acquireSettleLease"
  PROVE  Keeps(u)
<1>. DEFINE k == Key(u)
<1>1. m \in Calls /\ m \in Labels \ {"markSettleUncertain"} /\ m \in Early
  BY DEF Calls, Labels, Methods, Reading, Early
<1>2. /\ \A n \in Methods : <<u, n>> \notin inflight
      /\ Fits(u) /\ req[u].receipt = NULL /\ u \notin pending
  BY <1>1, NoneInFlight DEF At, Working, Reading, Early
<1>3. /\ UNCHANGED <<inflight, calls, charged, pending>>
      /\ Key(u)' = k /\ k \in RecordKeys
      /\ \A v \in Requests \ {u} : req'[v] = req[v]
      /\ req'[u].input = req[u].input
  BY KeyInTable DEF NothingElse, faults, outside, Goes, Key
<1>4. /\ Frame(u) /\ Engaged(u)
      /\ \A j \in RecordKeys : j = k => Accounted(j)'
      /\ rows'[k] # NoRow /\ rows'[k].ttl > 0
  BY <1>1, <1>3, EffectKeeps
<1>5. Local(u)'
  BY <1>2, <1>3 DEF Local, Goes, SameData
<1>6. k \notin charged
  BY <1>1, <1>2 DEF Fits, At
<1>7. /\ calls[k] \in [verify : Nat, settle : Nat] /\ Accounted(k)
      /\ rows[k] \in Row /\ rows'[k] \in Row
      /\ WellFormed(rows[k], issued)
      /\ Rank(rows'[k]) > Rank(rows[k])
      /\ rows[k].body # NULL => rows'[k].body = rows[k].body
  BY <1>1, <1>3, EffectMoves DEF OrchestratorTypeOK, SafetyInv
<1>8. /\ m = "stageResponse" => rows'[k].body = req[u].body
      /\ m = "acquireVerifyLease" => rows[k].state = "reserved"
      /\ m = "acquireSettleLease" => rows[k].state = "computing" /\ rows'[k].kind = "settle"
  BY <1>1, EffectTells
<1>9. ASSUME label = "verifyPayment"
      PROVE  calls[k].verify = 0 /\ rows'[k].state # "reserved"
  <2>1. rows[k].state = "reserved"
    BY <1>8, <1>9
  <2>2. Rank(rows[k]) = 0
    BY <2>1 DEF Rank
  <2>3. rows'[k].state = "reserved" => Rank(rows'[k]) = 0
    BY DEF Rank
  <2>4. calls[k].verify = 0
    BY <1>7, <2>2 DEF Accounted
  <2>. QED
    BY <1>7, <2>2, <2>3, <2>4
<1>10. ASSUME label = "settlePayment"
       PROVE  /\ calls[k].settle = 0 /\ rows'[k].kind = "settle"
              /\ rows'[k].body = req[u].body
  <2>1. rows[k].state = "computing" /\ rows'[k].kind = "settle"
    BY <1>8, <1>10
  <2>2. Rank(rows[k]) = 4
    BY <2>1 DEF Rank
  <2>3. rows[k].body = req[u].body /\ rows[k].body # NULL
    BY <1>2, <1>7, <1>10, <2>1, CoordinatorAssumption DEF Fits, At, WellFormed
  <2>. QED
    BY <1>7, <2>1, <2>2, <2>3 DEF Accounted
<1>11. Fits(u)'
  BY <1>2, <1>3, <1>4, <1>6, <1>8, <1>9, <1>10
     DEF Fits, Goes, SameData, At, Present, Methods
<1>. QED
  BY <1>4, <1>5, <1>11 DEF Keeps

LEMMA AcquireVerifySound ==
  ASSUME OrchestratorTypeOK, CoordinatorInv, NEW u \in Requests, AcquireVerify(u)
  PROVE  Sound(u)
<1>1. ASSUME NEW t \in Tokens, AcquireVerifyLease(Key(u), t),
             TakeLease(u, t, "verifyPayment"), NothingElse
      PROVE  Sound(u)
  <2>1. Effect(u, "acquireVerifyLease")
    BY <1>1 DEF Effect
  <2>2. rows[Key(u)] \in Row
    BY <1>1, KeyInTable, RowOf DEF AcquireVerifyLease, CanAcquireVerifyLease, InState
  <2>3. Goes(u, "verifyPayment") /\ SameData(u) /\ req'[u].status = req[u].status
    BY <1>1, <2>2, TakeLeaseDoes DEF Labels
  <2>4. Typed /\ Next
    BY <1>1, <2>1, <2>3, NothingElseTyped, EffectIsNext DEF Goes, Methods
  <2>5. SafetyInv => Keeps(u)
    BY <1>1, <2>1, <2>3, AcceptedGoesOn DEF AcquireVerify
  <2>. QED
    BY <2>4, <2>5 DEF Sound
<1>2. CASE Answer(u, 202) /\ UNCHANGED vars /\ NothingElse
  BY <1>2, AnswerSound DEF Statuses
<1>3. CASE ThrowsToAnswer(u, "acquireVerifyLease", 503)
  BY <1>3, ThrowSound DEF AcquireVerify, Methods
<1>. QED
  BY <1>1, <1>2, <1>3 DEF AcquireVerify

LEMMA CompleteVerificationSound ==
  ASSUME OrchestratorTypeOK, CoordinatorInv, NEW u \in Requests, CompleteVerification(u)
  PROVE  Sound(u)
<1>1. CASE /\ CompleteVerify(Key(u), Gen(u), Token(u))
           /\ GoTo(u, "buildResponse") /\ NothingElse
  <2>1. Effect(u, "completeVerify")
    BY <1>1 DEF Effect
  <2>2. Goes(u, "buildResponse") /\ SameData(u) /\ req'[u].status = req[u].status
    BY <1>1, GoToDoes DEF Labels
  <2>3. Typed /\ Next
    BY <1>1, <2>1, <2>2, NothingElseTyped, EffectIsNext DEF Goes, Methods
  <2>4. SafetyInv => Keeps(u)
    BY <1>1, <2>1, <2>2, AcceptedGoesOn DEF CompleteVerification
  <2>. QED
    BY <2>3, <2>4 DEF Sound
<1>2. CASE Answer(u, 503) /\ UNCHANGED vars /\ NothingElse
  BY <1>2, AnswerSound DEF Statuses
<1>3. CASE ThrowsToAnswer(u, "completeVerify", 503)
  BY <1>3, ThrowSound DEF CompleteVerification, Methods
<1>. QED
  BY <1>1, <1>2, <1>3 DEF CompleteVerification

(* A step of a request with itself, at work before and after.              *)
LEMMA InnerSound ==
  ASSUME OrchestratorTypeOK, NEW u \in Requests,
         NEW from \in {"buildResponse", "stageResponse"}, At(u, from),
         NEW label \in {"stageResponse", "failPostVerifyDefinitive"}, Goes(u, label),
         req'[u].receipt = req[u].receipt, req'[u].status = req[u].status,
         UNCHANGED vars, NothingElse
  PROVE  Sound(u)
<1>1. Typed
  BY NothingElseTyped DEF Goes
<1>2. ASSUME SafetyInv PROVE Keeps(u)
  <2>1. from \in Labels \ {"markSettleUncertain"} /\ from \in Early
    BY DEF Labels, Methods, Early
  <2>2. /\ \A n \in Methods : <<u, n>> \notin inflight
        /\ Engaged(u) /\ Fits(u) /\ req[u].receipt = NULL /\ u \notin pending
    BY <1>2, <2>1, NoneInFlight DEF At, Working, Reading, Early
  <2>3. UNCHANGED <<inflight, rows, calls, charged, pending>> /\ Key(u)' = Key(u)
    BY DEF NothingElse, faults, outside, vars, Goes, Key
  <2>4. Frame(u) /\ \A k \in RecordKeys : k = Key(u) => Accounted(k)'
    BY <1>2, <2>3, InnerFrame DEF Goes
  <2>5. Local(u)'
    BY <2>2, <2>3 DEF Local, Goes
  <2>6. Fits(u)'
    BY <2>1, <2>2, <2>3 DEF Fits, Goes, At, Present, Methods
  <2>. QED
    BY <2>2, <2>4, <2>5, <2>6 DEF Keeps
<1>. QED
  BY <1>1, <1>2 DEF Sound

LEMMA BuildResponseSound ==
  ASSUME OrchestratorTypeOK, CoordinatorInv, NEW u \in Requests, BuildResponse(u)
  PROVE  Sound(u)
<1>1. ASSUME NEW b \in StageableBodies,
             req' = [req EXCEPT ![u] = [@ EXCEPT !.pc = "stageResponse", !.body = b]]
      PROVE  Sound(u)
  <2>1. b \in Bodies
    BY CoordinatorAssumption
  <2>2. /\ Goes(u, "stageResponse") /\ req'[u].receipt = req[u].receipt
        /\ req'[u].status = req[u].status
    BY <1>1, <2>1, BodyDoes
  <2>. QED
    BY <2>2, InnerSound DEF BuildResponse
<1>2. CASE BuildFails(u)
  <2>1. Goes(u, "failPostVerifyDefinitive") /\ SameData(u) /\ req'[u].status = req[u].status
    BY <1>2, GoToDoes DEF BuildFails, Labels, Methods
  <2>. QED
    BY <2>1, InnerSound DEF BuildResponse, SameData
<1>. QED
  BY <1>1, <1>2 DEF BuildResponse

LEMMA StageSound ==
  ASSUME OrchestratorTypeOK, CoordinatorInv, NEW u \in Requests, Stage(u)
  PROVE  Sound(u)
<1>1. CASE StageResponse(Key(u), req[u].body) /\ GoTo(u, "acquireSettleLease") /\ NothingElse
  <2>1. Effect(u, "stageResponse")
    BY <1>1 DEF Effect
  <2>2. Goes(u, "acquireSettleLease") /\ SameData(u) /\ req'[u].status = req[u].status
    BY <1>1, GoToDoes DEF Labels, Methods
  <2>3. Typed /\ Next
    BY <1>1, <2>1, <2>2, NothingElseTyped, EffectIsNext DEF Goes, Methods
  <2>4. SafetyInv => Keeps(u)
    BY <1>1, <2>1, <2>2, AcceptedGoesOn DEF Stage
  <2>. QED
    BY <2>3, <2>4 DEF Sound
<1>2. CASE GoTo(u, "failPostVerifyDefinitive") /\ UNCHANGED vars /\ NothingElse
  <2>1. Goes(u, "failPostVerifyDefinitive") /\ SameData(u) /\ req'[u].status = req[u].status
    BY <1>2, GoToDoes DEF Labels, Methods
  <2>. QED
    BY <1>2, <2>1, InnerSound DEF Stage, SameData
<1>3. CASE ThrowsToAnswer(u, "stageResponse", 503)
  BY <1>3, ThrowSound DEF Stage, Methods
<1>. QED
  BY <1>1, <1>2, <1>3 DEF Stage

LEMMA AcquireSettleSound ==
  ASSUME OrchestratorTypeOK, CoordinatorInv, NEW u \in Requests, AcquireSettle(u)
  PROVE  Sound(u)
<1>1. ASSUME NEW t \in Tokens, AcquireSettleLease(Key(u), t),
             TakeLease(u, t, "settlePayment"), NothingElse
      PROVE  Sound(u)
  <2>1. Effect(u, "acquireSettleLease")
    BY <1>1 DEF Effect
  <2>2. rows[Key(u)] \in Row
    BY <1>1, KeyInTable, RowOf DEF AcquireSettleLease, CanAcquireSettleLease, InState
  <2>3. Goes(u, "settlePayment") /\ SameData(u) /\ req'[u].status = req[u].status
    BY <1>1, <2>2, TakeLeaseDoes DEF Labels
  <2>4. Typed /\ Next
    BY <1>1, <2>1, <2>3, NothingElseTyped, EffectIsNext DEF Goes, Methods
  <2>5. SafetyInv => Keeps(u)
    BY <1>1, <2>1, <2>3, AcceptedGoesOn DEF AcquireSettle
  <2>. QED
    BY <2>4, <2>5 DEF Sound
<1>2. CASE Answer(u, 202) /\ UNCHANGED vars /\ NothingElse
  BY <1>2, AnswerSound DEF Statuses
<1>3. CASE ThrowsToAnswer(u, "acquireSettleLease", 503)
  BY <1>3, ThrowSound DEF AcquireSettle, Methods
<1>. QED
  BY <1>1, <1>2, <1>3 DEF AcquireSettle

-----------------------------------------------------------------------------
(* The steps that call the facilitator.                                    *)

LEMMA CountCallDoes ==
  ASSUME OrchestratorTypeOK, NEW u \in Requests
  PROVE  /\ CountCall(u, "verify") =>
              /\ calls' \in [RecordKeys -> [verify : Nat, settle : Nat]]
              /\ calls'[Key(u)].verify = calls[Key(u)].verify + 1
              /\ calls'[Key(u)].settle = calls[Key(u)].settle
         /\ CountCall(u, "settle") =>
              /\ calls' \in [RecordKeys -> [verify : Nat, settle : Nat]]
              /\ calls'[Key(u)].settle = calls[Key(u)].settle + 1
              /\ calls'[Key(u)].verify = calls[Key(u)].verify
         /\ CountCall(u, "verify") \/ CountCall(u, "settle") =>
              \A k \in RecordKeys \ {Key(u)} : calls'[k] = calls[k]
<1>. DEFINE k == Key(u)
            c == calls[k]
            cv == [c EXCEPT !.verify = @ + 1]
            cs == [c EXCEPT !.settle = @ + 1]
<1>1. k \in RecordKeys /\ calls \in [RecordKeys -> [verify : Nat, settle : Nat]]
  BY KeyInTable DEF OrchestratorTypeOK
<1>2. c \in [verify : Nat, settle : Nat]
  BY <1>1
<1>3. /\ cv \in [verify : Nat, settle : Nat] /\ cv.verify = c.verify + 1
      /\ cv.settle = c.settle
      /\ cs \in [verify : Nat, settle : Nat] /\ cs.settle = c.settle + 1
      /\ cs.verify = c.verify
  BY <1>2
<1>4. /\ CountCall(u, "verify") => calls' = [calls EXCEPT ![k] = cv]
      /\ CountCall(u, "settle") => calls' = [calls EXCEPT ![k] = cs]
  BY DEF CountCall
<1>. HIDE DEF k, cv, cs
<1>5. /\ calls' = [calls EXCEPT ![k] = cv] =>
           /\ calls' \in [RecordKeys -> [verify : Nat, settle : Nat]]
           /\ calls'[k] = cv /\ \A j \in RecordKeys \ {k} : calls'[j] = calls[j]
      /\ calls' = [calls EXCEPT ![k] = cs] =>
           /\ calls' \in [RecordKeys -> [verify : Nat, settle : Nat]]
           /\ calls'[k] = cs /\ \A j \in RecordKeys \ {k} : calls'[j] = calls[j]
  BY <1>1, <1>3
<1>. QED
  BY <1>3, <1>4, <1>5 DEF k

(* The verify call, after which the request goes on or dies.               *)
LEMMA VerifyCallSound ==
  ASSUME OrchestratorTypeOK, CoordinatorInv, NEW u \in Requests,
         At(u, "verifyPayment"), CountCall(u, "verify"),
         NEW label \in {"completeVerify", "failVerifyDefinitive", "markVerifyUncertain",
                        "crashed"},
         GoTo(u, label), crashes' \in 0 .. MaxCrashes,
         UNCHANGED <<vars, inflight, failures, charged, spent, pending>>
  PROVE  Sound(u)
<1>. DEFINE k == Key(u)
<1>2. Goes(u, label) /\ SameData(u) /\ req'[u].status = req[u].status
  BY GoToDoes DEF Labels, Methods
<1>3. /\ UNCHANGED <<vars, inflight, failures, charged, spent, pending>>
      /\ At(u, "verifyPayment") /\ CountCall(u, "verify")
  OBVIOUS
<1>4. Typed
  BY <1>2, <1>3, CountCallDoes DEF Typed, OrchestratorTypeOK, Goes
<1>5. ASSUME SafetyInv PROVE Keeps(u)
  <2>1. /\ \A n \in Methods : <<u, n>> \notin inflight
        /\ Engaged(u) /\ Fits(u) /\ req[u].receipt = NULL /\ u \notin pending
    BY <1>3, <1>5, NoneInFlight DEF At, Working, Reading, Early, Labels
  <2>2. /\ Key(u)' = k /\ k \in RecordKeys /\ Accounted(k)
        /\ rows[k] \in Row /\ Present(k) /\ rows[k].state # "reserved"
        /\ calls[k].verify = 0 /\ k \notin charged
    BY <1>2, <1>3, <1>5, <2>1, KeyInTable, RowOf DEF SafetyInv, Fits, At, Goes, Key, Early
  <2>3. calls'[k].verify = 1 /\ calls'[k].settle = calls[k].settle
    BY <1>3, <2>2, CountCallDoes
  <2>4. Rank(rows[k]) >= 1
    BY <2>2 DEF Rank, Row, States, InProgressStates, Kinds
  <2>5. UNCHANGED <<rows, inflight, charged, pending>>
    BY <1>3 DEF vars
  <2>6. Frame(u)
    BY <1>2, <1>3, <2>1, <2>5, CountCallDoes DEF Frame, Untouched, Goes
  <2>7. Local(u)'
    BY <1>2, <2>1, <2>5 DEF Local, Goes, SameData
  <2>8. \A j \in RecordKeys : j = k => Accounted(j)'
    BY <2>2, <2>3, <2>4, <2>5 DEF Accounted, Present
  <2>9. Fits(u)'
    BY <1>2, <2>1, <2>2, <2>5 DEF Fits, Goes, SameData, At, Present, Methods
  <2>. QED
    BY <1>2, <2>1, <2>6, <2>7, <2>8, <2>9 DEF Keeps
<1>. QED
  BY <1>3, <1>4, <1>5 DEF Sound

LEMMA VerifyPaymentSound ==
  ASSUME OrchestratorTypeOK, CoordinatorInv, NEW u \in Requests, VerifyPayment(u)
  PROVE  Sound(u)
<1>1. PICK label \in {"completeVerify", "failVerifyDefinitive", "markVerifyUncertain"} :
        GoTo(u, label)
  BY DEF VerifyPayment
<1>2. crashes' \in 0 .. MaxCrashes
  BY DEF VerifyPayment, faults, OrchestratorTypeOK
<1>. QED
  BY <1>1, <1>2, VerifyCallSound DEF VerifyPayment, faults

(* How a settle call may leave the request and the money.                  *)
SettleEnds(u) ==
  \/ /\ Goes(u, "failSettleDefinitive") /\ SameData(u)
     /\ UNCHANGED <<charged, pending>>
  \/ /\ Goes(u, "markSettleUncertain") \/ Goes(u, "crashed")
     /\ SameData(u)
     /\ \/ charged' = charged \cup {Key(u)} /\ UNCHANGED pending
        \/ pending' = pending \cup {u} /\ UNCHANGED charged
  \/ /\ Goes(u, "completeFulfillment") /\ req'[u].body = req[u].body
     /\ charged' = charged \cup {Key(u)} /\ UNCHANGED pending

(* An authorization belongs to its request.                                *)
LEMMA MoneyTyped ==
  ASSUME OrchestratorTypeOK, NEW u \in Requests, MoneyMoves(u) \/ MoneyUnknown(u)
  PROVE  spent' \subseteq Auths
<1>1. req[u].input.auth \in Auths
  BY KeyInTable DEF Inputs
<1>. QED
  BY <1>1 DEF MoneyMoves, MoneyUnknown, OrchestratorTypeOK

LEMMA SettlePaymentEnds ==
  ASSUME OrchestratorTypeOK, NEW u \in Requests, SettlePayment(u)
  PROVE  SettleEnds(u) /\ spent' \subseteq Auths /\ req'[u].status = req[u].status
<1>1. CASE SettleRefused(u)
  <2>1. /\ Goes(u, "failSettleDefinitive") /\ SameData(u)
        /\ req'[u].status = req[u].status
    BY <1>1, GoToDoes DEF SettleRefused, Labels, Methods
  <2>. QED
    BY <1>1, <2>1 DEF SettleRefused, SettleEnds, OrchestratorTypeOK
<1>2. ASSUME GoTo(u, "markSettleUncertain"),
             MoneyUnknown(u) \/ (MoneyMoves(u) /\ UNCHANGED pending)
      PROVE  SettleEnds(u) /\ spent' \subseteq Auths /\ req'[u].status = req[u].status
  <2>1. /\ Goes(u, "markSettleUncertain") /\ SameData(u)
        /\ req'[u].status = req[u].status
    BY <1>2, GoToDoes DEF Labels, Methods
  <2>2. spent' \subseteq Auths
    BY <1>2, MoneyTyped
  <2>. QED
    BY <1>2, <2>1, <2>2 DEF MoneyUnknown, MoneyMoves, SettleEnds
<1>3. ASSUME NEW r \in Receipts, SettleSucceeds(u, r), r \in ValidReceipts
      PROVE  SettleEnds(u) /\ spent' \subseteq Auths /\ req'[u].status = req[u].status
  <2>1. /\ Goes(u, "completeFulfillment") /\ req'[u].body = req[u].body
        /\ req'[u].status = req[u].status
    BY <1>3, ReceiptDoes DEF SettleSucceeds
  <2>2. spent' \subseteq Auths
    BY <1>3, MoneyTyped DEF SettleSucceeds
  <2>. QED
    BY <1>3, <2>1, <2>2 DEF SettleSucceeds, MoneyMoves, SettleEnds
<1>. QED
  BY <1>1, <1>2, <1>3 DEF SettlePayment, SettleThrows, SettleSucceeds

(* The settle call, after which the request goes on or dies.               *)
LEMMA SettleCallSound ==
  ASSUME OrchestratorTypeOK, CoordinatorInv, NEW u \in Requests,
         At(u, "settlePayment"), CountCall(u, "settle"), SettleEnds(u),
         spent' \subseteq Auths, req'[u].status = req[u].status,
         crashes' \in 0 .. MaxCrashes, UNCHANGED <<vars, inflight, failures>>
  PROVE  Sound(u)
<1>. DEFINE k == Key(u)
<1>1. /\ req' \in [Requests -> RequestState] /\ req'[u].input = req[u].input
      /\ \A v \in Requests \ {u} : req'[v] = req[v]
      /\ req'[u].body = req[u].body
      /\ charged' = charged \/ charged' = charged \cup {Key(u)}
      /\ pending' = pending \/ pending' = pending \cup {u}
      /\ req'[u].pc \in {"failSettleDefinitive", "markSettleUncertain", "crashed",
                         "completeFulfillment"}
      /\ req'[u].pc # "completeFulfillment" => req'[u].receipt = req[u].receipt
      /\ req'[u].pc = "completeFulfillment" => Key(u) \in charged' /\ pending' = pending
      /\ req'[u].pc = "failSettleDefinitive" => UNCHANGED <<charged, pending>>
      /\ pending' = pending \/ charged' = charged
  BY DEF SettleEnds, Goes, SameData
<1>2. k \in RecordKeys
  BY KeyInTable
<1>3. Typed
  BY <1>1, <1>2, CountCallDoes DEF Typed, OrchestratorTypeOK
<1>4. ASSUME SafetyInv PROVE Keeps(u)
  <2>1. /\ \A n \in Methods : <<u, n>> \notin inflight
        /\ Engaged(u) /\ Fits(u) /\ req[u].receipt = NULL /\ u \notin pending
    BY <1>4, NoneInFlight DEF At, Working, Reading, Early, Labels, Methods
  <2>2. /\ Key(u)' = k /\ Accounted(k)
        /\ rows[k] \in Row /\ Present(k) /\ WellFormed(rows[k], issued)
        /\ rows[k].kind = "settle" /\ rows[k].body = req[u].body
        /\ calls[k].settle = 0 /\ k \notin charged
    BY <1>1, <1>2, <1>4, <2>1, RowOf DEF SafetyInv, Fits, At, Key, Early
  <2>3. calls'[k].settle = 1 /\ calls'[k].verify = calls[k].verify
    BY <2>2, CountCallDoes
  <2>4. Rank(rows[k]) >= 5
    BY <2>2 DEF WellFormed, Rank
  <2>5. UNCHANGED <<rows, inflight>>
    BY DEF vars
  <2>6. Frame(u)
    BY <1>1, <2>1, <2>5, CountCallDoes DEF Frame, Untouched
  <2>7. Local(u)'
    BY <1>1, <2>1, <2>5 DEF Local, Reading, Early, Done, At
  <2>8. \A j \in RecordKeys : j = k => Accounted(j)'
    BY <1>1, <2>2, <2>3, <2>4, <2>5 DEF Accounted, Present
  <2>9. Fits(u)'
    BY <1>1, <2>1, <2>2, <2>5 DEF Fits, At, Present, Methods, Early
  <2>. QED
    BY <2>1, <2>6, <2>7, <2>8, <2>9 DEF Keeps
<1>. QED
  BY <1>3, <1>4 DEF Sound

LEMMA SettlePaymentSound ==
  ASSUME OrchestratorTypeOK, CoordinatorInv, NEW u \in Requests, SettlePayment(u)
  PROVE  Sound(u)
<1>1. crashes' \in 0 .. MaxCrashes
  BY DEF SettlePayment, faults, OrchestratorTypeOK
<1>. QED
  BY <1>1, SettlePaymentEnds, SettleCallSound DEF SettlePayment, faults

-----------------------------------------------------------------------------
(* The last calls of a request, late calls and deaths.                     *)

LEMMA AcceptedEnds ==
  ASSUME OrchestratorTypeOK, CoordinatorInv, NEW u \in Requests, NEW m \in Calls,
         At(u, m), Effect(u, m), Goes(u, "answered"), NothingElse,
         req'[u].receipt = req[u].receipt, SafetyInv => Honest(u)
  PROVE  Sound(u)
<1>1. Typed
  BY NothingElseTyped DEF Goes
<1>2. Next
  BY EffectIsNext DEF Calls
<1>3. ASSUME SafetyInv PROVE Keeps(u)
  <2>1. /\ UNCHANGED <<inflight, calls, charged, pending>> /\ Key(u)' = Key(u)
        /\ \A v \in Requests \ {u} : req'[v] = req[v]
        /\ req'[u].input = req[u].input /\ req'[u].pc = "answered"
    BY DEF NothingElse, faults, outside, Goes, Key
  <2>2. /\ Frame(u) /\ Engaged(u) /\ Fits(u)
        /\ \A k \in RecordKeys : k = Key(u) => Accounted(k)'
        /\ rows'[Key(u)] # NoRow /\ rows'[Key(u)].ttl > 0
    BY <1>3, <2>1, EffectKeeps
  <2>3. Local(u) /\ (u \in pending => m = "markSettleUncertain")
    BY <1>3 DEF SafetyInv, Local, Done, At, Calls, Methods
  <2>4. Local(u)'
    BY <2>1, <2>3 DEF Local, Done, Reading, Early
  <2>5. u \in pending => rows'[Key(u)].kind = "settle"
    BY <2>2, <2>3, EffectTells DEF Fits
  <2>6. Fits(u)'
    BY <2>1, <2>2, <2>5 DEF Fits, Present, At, Early
  <2>. QED
    BY <1>3, <2>2, <2>4, <2>6 DEF Keeps
<1>. QED
  BY <1>1, <1>2, <1>3 DEF Sound

LEMMA CompleteSound ==
  ASSUME OrchestratorTypeOK, CoordinatorInv, NEW u \in Requests, Complete(u)
  PROVE  Sound(u)
<1>. DEFINE k == Key(u)
<1>1. At(u, "completeFulfillment") /\ k \in RecordKeys /\ req[u] \in RequestState
  BY KeyInTable, LocalState DEF Complete
<1>2. CASE /\ CompleteFulfillment(k, Gen(u), Token(u), req[u].receipt)
           /\ AnswerPaid(u, req[u].body, req[u].receipt) /\ NothingElse
  <2>1. Effect(u, "completeFulfillment")
    BY <1>2 DEF Effect
  <2>2. /\ Goes(u, "answered") /\ req'[u].status = 200
        /\ req'[u].body = req[u].body /\ req'[u].receipt = req[u].receipt
    BY <1>1, <1>2, AnswerPaidDoes DEF RequestState
  <2>3. ASSUME SafetyInv PROVE Honest(u)
    <3>1. Fits(u)
      BY <1>1, <2>3, NoneInFlight DEF At, Working, Reading, Labels, Methods
    <3>2. rows'[k].receipt = req[u].receipt
      BY <2>1, EffectTells DEF Calls, Methods, Reading
    <3>. QED
      BY <1>1, <2>2, <3>1, <3>2 DEF Honest, Fits, At
  <2>. QED
    BY <1>1, <1>2, <2>1, <2>2, <2>3, AcceptedEnds DEF Calls, Methods, Reading
<1>3. ASSUME \/ Goes(u, "markSettleUncertain")
             \/ Goes(u, "completeFulfillment") /\ inflight' = inflight,
             SameData(u), req'[u].status = req[u].status,
             UNCHANGED <<rows, calls, charged, pending>>,
             \/ inflight' = inflight
             \/ inflight' = inflight \cup {<<u, "completeFulfillment">>},
             SafetyInv
      PROVE  Keeps(u)
  <2>1. /\ \A n \in Methods : <<u, n>> \notin inflight
        /\ Engaged(u) /\ Fits(u) /\ u \notin pending
    BY <1>1, <1>3, NoneInFlight DEF At, Working, Reading, Labels, Methods
  <2>2. /\ Key(u)' = k /\ Present(k) /\ k \in charged
        /\ rows[k].kind = "settle" /\ rows[k].body = req[u].body
    BY <1>1, <1>3, <2>1 DEF Fits, At, Goes, Key
  <2>3. Frame(u) /\ \A j \in RecordKeys : j = k => Accounted(j)'
    BY <1>3, InnerFrame DEF Goes
  <2>4. Local(u)'
    BY <1>3, <2>1 DEF Local, Goes, Reading, Early, At
  <2>5. ASSUME CoordinatorInv PROVE rows[k].receipt = NULL
    <3>1. WellFormed(rows[k], issued)
      BY <1>1, <2>2, <2>5, RowOf
    <3>. QED
      BY <2>2, <3>1 DEF WellFormed
  <2>6. Fits(u)'
    BY <1>3, <2>1, <2>2, <2>5 DEF Fits, Goes, SameData, At, Present, Methods, Early
  <2>. QED
    BY <1>3, <2>1, <2>3, <2>4, <2>6 DEF Keeps
<1>4. CASE StaleCompletion(u) /\ UNCHANGED vars /\ NothingElse
  <2>1. /\ Goes(u, "markSettleUncertain") \/ Goes(u, "completeFulfillment")
        /\ SameData(u) /\ req'[u].status = req[u].status
    BY <1>1, <1>4, StaleDoes
  <2>2. Typed
    BY <1>4, <2>1, NothingElseTyped DEF Goes
  <2>3. SafetyInv => Keeps(u)
    BY <1>3, <1>4, <2>1 DEF NothingElse, faults, outside, vars
  <2>. QED
    BY <1>4, <2>2, <2>3 DEF Sound
<1>5. CASE /\ Throws(u, "completeFulfillment")
           /\ req' = [req EXCEPT ![u] = [@ EXCEPT !.pc = "markSettleUncertain",
                                                  !.lost = "completeFulfillment"]]
  <2>1. Goes(u, "markSettleUncertain") /\ SameData(u) /\ req'[u].status = req[u].status
    BY <1>5, GiveUpDoes
  <2>2. /\ inflight' = inflight \cup {<<u, "completeFulfillment">>}
        /\ inflight' \subseteq Requests \X Methods
        /\ failures' \in 0 .. MaxFailures /\ crashes' \in 0 .. MaxCrashes
        /\ UNCHANGED <<vars, outside>>
    BY <1>5, ThrowTyped DEF Methods
  <2>3. Typed
    BY <2>1, <2>2 DEF Typed, OrchestratorTypeOK, Goes, outside
  <2>4. SafetyInv => Keeps(u)
    BY <1>3, <2>1, <2>2 DEF outside, vars
  <2>. QED
    BY <2>2, <2>3, <2>4 DEF Sound
<1>. QED
  BY <1>2, <1>4, <1>5 DEF Complete

LEMMA ReportSound ==
  ASSUME OrchestratorTypeOK, CoordinatorInv, NEW u \in Requests, NEW m \in Reports,
         Report(u, m)
  PROVE  Sound(u)
<1>1. At(u, m) /\ m \in Calls /\ m \in Methods
  BY DEF Report, Reports, Calls, Methods, Reading
<1>2. AnswerAfter(u, m) \in Statuses
  BY DEF AnswerAfter, Statuses
<1>6. ASSUME SafetyInv
      PROVE  /\ Fits(u)
             /\ AnswerAfter(u, m) = 402 => Key(u) \notin charged
             /\ AnswerAfter(u, m) = 200 =>
                  /\ m = "markSettleUncertain"
                  /\ Key(u) \in charged /\ rows[Key(u)].body = req[u].body
                  /\ rows[Key(u)].receipt \in {NULL, req[u].receipt}
  <2>1. Fits(u) /\ Local(u)
    BY <1>1, <1>6 DEF SafetyInv, Engaged, Working, At, Reports, Reading
  <2>. QED
    BY <1>1, <2>1 DEF AnswerAfter, Fits, Local, At, Early, Reports
<1>3. CASE Effect(u, m) /\ Answer(u, AnswerAfter(u, m)) /\ NothingElse
  <2>1. Goes(u, "answered") /\ SameData(u) /\ req'[u].status = AnswerAfter(u, m)
    BY <1>2, <1>3, AnswerDoes
  <2>2. rows'[Key(u)].receipt = NULL
    BY <1>1, <1>3, EffectMoves, EffectTells DEF WellFormed, Reports
  <2>3. SafetyInv => Honest(u)
    BY <1>6, <2>1, <2>2 DEF Honest, SameData
  <2>. QED
    BY <1>1, <1>3, <2>1, <2>3, AcceptedEnds DEF SameData
<1>4. CASE UNCHANGED vars /\ Answer(u, AnswerAfter(u, m)) /\ NothingElse
  BY <1>2, <1>4, <1>6, AnswerSound
<1>5. CASE ThrowsToAnswer(u, m, 500)
  BY <1>1, <1>5, ThrowSound
<1>. QED
  BY <1>3, <1>4, <1>5 DEF Report

LEMMA CrashSound ==
  ASSUME OrchestratorTypeOK, CoordinatorInv, NEW u \in Requests, Crash(u)
  PROVE  Sound(u)
<1>1. Goes(u, "crashed") /\ SameData(u) /\ req'[u].status = req[u].status
  BY GoToDoes DEF Crash, Labels
<1>2. /\ crashes' \in 0 .. MaxCrashes /\ failures' \in 0 .. MaxFailures
      /\ UNCHANGED <<vars, inflight, failures>>
  BY OrchestratorAssumption DEF Crash, OrchestratorTypeOK
<1>3. CASE UNCHANGED outside
  BY <1>1, <1>2, <1>3, EndsSound DEF SameData
<1>4. CASE At(u, "verifyPayment") /\ CountCall(u, "verify")
           /\ UNCHANGED <<charged, spent, pending>>
  BY <1>2, <1>4, VerifyCallSound DEF Crash
<1>5. CASE At(u, "settlePayment") /\ CountCall(u, "settle") /\ MoneyUnknown(u)
  <2>1. SettleEnds(u)
    BY <1>1, <1>5 DEF SettleEnds, MoneyUnknown, MoneyMoves
  <2>. QED
    BY <1>1, <1>2, <1>5, <2>1, MoneyTyped, SettleCallSound
<1>. QED
  BY <1>3, <1>4, <1>5 DEF Crash, DiesCalling

(* A settlement carried out late finds its row waiting for it.             *)
LEMMA SettlesLateSound ==
  ASSUME OrchestratorTypeOK, CoordinatorInv, NEW u \in Requests, SettlesLate(u)
  PROVE  Sound(u)
<1>. DEFINE k == Key(u)
<1>1. /\ u \in pending /\ pending' = pending \ {u} /\ charged' = charged \cup {k}
      /\ UNCHANGED <<vars, req, faults, calls>>
      /\ k \in RecordKeys /\ k' = k
  BY KeyInTable DEF SettlesLate, MoneyMoves, Key
<1>2. spent' \subseteq Auths
  BY MoneyTyped DEF SettlesLate
<1>3. Typed
  BY <1>1, <1>2 DEF Typed, OrchestratorTypeOK, faults
<1>4. ASSUME SafetyInv PROVE Keeps(u)
  <2>1. Engaged(u) /\ Fits(u) /\ Local(u) /\ Accounted(k)
    BY <1>1, <1>4 DEF SafetyInv, Engaged
  <2>2. Frame(u)
    BY <1>1, <2>1 DEF Frame, Untouched, vars, faults
  <2>3. Local(u)'
    BY <1>1, <2>1 DEF Local, Done, At, faults
  <2>4. \A j \in RecordKeys : j = k => Accounted(j)'
    BY <1>1, <2>1 DEF Fits, Accounted, Present, vars
  <2>5. Fits(u)'
    BY <1>1, <2>1 DEF Fits, Local, Done, At, Early, Present, vars, faults, Methods
  <2>. QED
    BY <1>1, <2>1, <2>2, <2>3, <2>4, <2>5 DEF Keeps
<1>. QED
  BY <1>1, <1>3, <1>4 DEF Sound

LEMMA LateSound ==
  ASSUME OrchestratorTypeOK, CoordinatorInv, NEW u \in Requests, NEW m \in Methods, Late(u, m)
  PROVE  Sound(u)
<1>. DEFINE k == Key(u)
<1>1. /\ <<u, m>> \in inflight /\ Effect(u, m)
      /\ inflight' = inflight \ {<<u, m>>}
      /\ UNCHANGED <<req, failures, crashes, calls, charged, spent, pending>>
  BY DEF Late, outside
<1>2. Typed
  BY <1>1 DEF Typed, OrchestratorTypeOK
<1>3. Next /\ k \in RecordKeys /\ Key(u)' = k
  BY <1>1, EffectIsNext, KeyInTable DEF Key
<1>4. ASSUME SafetyInv PROVE Local(u)'
  BY <1>1, <1>4 DEF SafetyInv, Local, Done, At
<1>5. Engaged(u)' => Engaged(u)
  BY <1>1 DEF Engaged, Working
<1>6. ASSUME SafetyInv, m \in Calls PROVE Keeps(u)
  <2>1. /\ Frame(u) /\ Engaged(u) /\ Fits(u)
        /\ \A j \in RecordKeys : j = k => Accounted(j)'
        /\ rows'[k] # NoRow /\ rows'[k].ttl > 0
    BY <1>1, <1>6, EffectKeeps
  <2>2. Done(u) \/ (m = "completeFulfillment" /\ At(u, "markSettleUncertain"))
    BY <1>1, <1>6 DEF SafetyInv, Local
  <2>3. CASE Done(u)
    <3>1. u \in pending => m = "markSettleUncertain"
      BY <1>1, <1>6 DEF SafetyInv, Local
    <3>2. u \in pending => rows'[k].kind = "settle"
      BY <1>1, <1>6, <2>1, <3>1, EffectTells DEF Fits
    <3>3. Fits(u)'
      BY <1>1, <1>3, <2>1, <2>3, <3>2 DEF Fits, Present, At, Early, Done
    <3>. QED
      BY <1>1, <1>4, <1>6, <2>1, <3>3 DEF Keeps
  <2>4. CASE m = "completeFulfillment" /\ At(u, "markSettleUncertain")
    <3>1. rows[k].body # NULL
      BY <1>1, <2>4 DEF Effect, CompleteFulfillment, CanCompleteFulfillment
    <3>2. rows'[k].body = rows[k].body /\ rows'[k].receipt = req[u].receipt
      BY <1>1, <1>6, <2>4, <3>1, EffectMoves, EffectTells
    <3>3. u \notin pending
      BY <1>1, <1>6, <2>4 DEF SafetyInv, Local
    <3>4. Fits(u)'
      BY <1>1, <1>3, <2>1, <2>4, <3>2, <3>3 DEF Fits, Present, At, Early
    <3>. QED
      BY <1>1, <1>4, <1>6, <2>1, <3>4 DEF Keeps
  <2>. QED
    BY <2>2, <2>3, <2>4
<1>7. ASSUME SafetyInv, m \in Reading PROVE Keeps(u)
  <2>1. PrepareAttempt(req[u].input)
    BY <1>1, <1>7 DEF Effect, Reading
  <2>2. /\ ~ Present(k) /\ ~ Engaged(u)
        /\ \A j \in RecordKeys \ {k} : rows'[j] = rows[j]
        /\ \A j \in RecordKeys : j = k => Accounted(j)'
    BY <1>1, <1>3, <1>7, <2>1, ReserveKeeps
  <2>3. Frame(u)
    BY <1>1, <2>2 DEF Frame, Untouched
  <2>. QED
    BY <1>1, <1>4, <1>5, <1>7, <2>2, <2>3 DEF Keeps
<1>. QED
  BY <1>2, <1>3, <1>6, <1>7 DEF Sound, Calls

LEMMA StepSound ==
  ASSUME OrchestratorTypeOK, CoordinatorInv, NEW u \in Requests, Step(u)
  PROVE  Sound(u)
<1>1. CASE Prepare(u) \/ GetReplay(u)
  BY <1>1, PrepareSound, GetReplaySound
<1>2. CASE AcquireVerify(u) \/ VerifyPayment(u) \/ CompleteVerification(u)
  BY <1>2, AcquireVerifySound, VerifyPaymentSound, CompleteVerificationSound
<1>3. CASE BuildResponse(u) \/ Stage(u)
  BY <1>3, BuildResponseSound, StageSound
<1>4. CASE AcquireSettle(u) \/ SettlePayment(u) \/ Complete(u)
  BY <1>4, AcquireSettleSound, SettlePaymentSound, CompleteSound
<1>5. CASE \E m \in Reports : Report(u, m)
  BY <1>5, ReportSound
<1>. QED
  BY <1>1, <1>2, <1>3, <1>4, <1>5 DEF Step

-----------------------------------------------------------------------------
(* The clock and the clean-up.                                             *)

(* Nobody is engaged while time passes, and a row that ages keeps its      *)
(* state.                                                                  *)
LEMMA TimePassesKeeps ==
  ASSUME OrchestratorTypeOK, TimePasses
  PROVE  Typed /\ Next /\ UNCHANGED req /\ (~ OutliveTtl /\ SafetyInv => SafetyInv')
<1>1. /\ Tick /\ req' = req
      /\ inflight' = IF OutliveTtl THEN inflight ELSE {}
      /\ pending' = IF OutliveTtl THEN pending ELSE {}
      /\ UNCHANGED <<failures, crashes, calls, charged, spent>>
  BY DEF TimePasses
<1>2. Typed
  BY <1>1 DEF Typed, OrchestratorTypeOK
<1>3. Next
  BY <1>1 DEF Next, Housekeeping
<1>4. ASSUME ~ OutliveTtl, SafetyInv PROVE SafetyInv'
  <2>1. inflight' = {} /\ pending' = {} /\ Quiet
    BY <1>1, <1>4 DEF TimePasses
  <2>2. ASSUME NEW w \in Requests PROVE Local(w)' /\ ~ Engaged(w)'
    BY <1>1, <1>4, <2>1, <2>2
       DEF SafetyInv, Local, Engaged, Working, Reading, Quiet, Done, At
  <2>3. ASSUME NEW k \in RecordKeys PROVE Accounted(k)'
    <3>1. CASE Present(k)
      <4>1. rows[k] \in Row /\ rows'[k] = [rows[k] EXCEPT !.ttl = OneLess(rows[k].ttl)]
        BY <1>1, <3>1 DEF Tick, OrchestratorTypeOK, TypeOK, Present
      <4>2. /\ rows'[k].state = rows[k].state /\ rows'[k].kind = rows[k].kind
            /\ Present(k)'
        <5>1. rows[k].ttl \in 0 .. RecordTtl
          BY <4>1 DEF Row
        <5>2. OneLess(rows[k].ttl) \in 0 .. RecordTtl
          BY <5>1, CoordinatorAssumption DEF OneLess
        <5>3. rows'[k] \in Row
          BY <4>1, <5>2 DEF Row
        <5>. QED
          BY <4>1, <5>3, CoordinatorAssumption DEF Row, Present
      <4>3. Rank(rows'[k]) = Rank(rows[k])
        BY <4>2 DEF Rank
      <4>. QED
        BY <1>1, <1>4, <3>1, <4>2, <4>3 DEF SafetyInv, Accounted
    <3>2. CASE ~ Present(k)
      <4>1. ~ Present(k)'
        BY <1>1, <3>2 DEF Tick, Present
      <4>. QED
        BY <1>1, <1>4, <3>2, <4>1 DEF SafetyInv, Accounted
    <3>. QED
      BY <3>1, <3>2
  <2>. QED
    BY <2>2, <2>3 DEF SafetyInv, Alone
<1>. QED
  BY <1>1, <1>2, <1>3, <1>4

(* The clean-up deletes expired rows, which nobody is engaged with.        *)
LEMMA CleanUpKeeps ==
  ASSUME OrchestratorTypeOK, CleanUp
  PROVE  Typed /\ Next /\ UNCHANGED req /\ (SafetyInv => SafetyInv')
<1>1. /\ AlarmFires /\ req' = req
      /\ calls' = [k \in RecordKeys |-> IF rows'[k] = NoRow THEN NoCalls ELSE calls[k]]
      /\ charged' = {k \in charged : rows'[k] # NoRow}
      /\ UNCHANGED <<inflight, failures, crashes, spent, pending>>
  BY DEF CleanUp, faults
<1>2. Typed
  BY <1>1 DEF Typed, OrchestratorTypeOK, NoCalls
<1>3. Next
  BY <1>1 DEF Next, Housekeeping
<1>4. ASSUME NEW k \in RecordKeys
      PROVE  /\ rows'[k] = NoRow \/ (Present(k) /\ rows'[k] = rows[k])
             /\ Present(k) /\ rows[k].ttl > 0 => rows'[k] = rows[k]
  BY <1>1, <1>4 DEF AlarmFires, DeleteExpired
<1>5. ASSUME SafetyInv PROVE SafetyInv'
  <2>1. ASSUME NEW w \in Requests
        PROVE  Local(w)' /\ (Engaged(w)' <=> Engaged(w)) /\ Key(w)' = Key(w)
    BY <1>1, <1>5, <2>1 DEF SafetyInv, Local, Engaged, Working, Done, At, Key
  <2>2. ASSUME NEW w \in Requests, Engaged(w) PROVE Fits(w)'
    <3>1. Fits(w) /\ Key(w) \in RecordKeys
      BY <1>5, <2>2, KeyInTable DEF SafetyInv
    <3>2. /\ rows'[Key(w)] = rows[Key(w)] /\ calls'[Key(w)] = calls[Key(w)]
          /\ Key(w) \in charged' <=> Key(w) \in charged
      BY <1>1, <1>4, <3>1 DEF Fits, Present
    <3>. QED
      BY <1>1, <2>1, <3>1, <3>2 DEF Fits, Present, At
  <2>3. ASSUME NEW k \in RecordKeys PROVE Accounted(k)'
    <3>1. CASE rows'[k] = NoRow
      BY <1>1, <3>1 DEF Accounted, Present, NoCalls
    <3>2. CASE rows'[k] # NoRow
      BY <1>1, <1>4, <1>5, <3>2 DEF SafetyInv, Accounted, Present
    <3>. QED
      BY <3>1, <3>2
  <2>4. Alone'
    BY <1>5, <2>1 DEF SafetyInv, Alone
  <2>. QED
    BY <2>1, <2>2, <2>3, <2>4 DEF SafetyInv
<1>. QED
  BY <1>1, <1>2, <1>3, <1>5

-----------------------------------------------------------------------------
(* The inductive invariant.                                                *)

(* SafetyInv is kept only if no request outlives its row; the rest is kept *)
(* in any case.                                                            *)
OrchestratorInv ==
  /\ OrchestratorTypeOK
  /\ CoordinatorInv
  /\ ~ OutliveTtl => SafetyInv

LEMMA OrchestratorStarts == OrchestratorInit => OrchestratorInv
<1>. SUFFICES ASSUME OrchestratorInit PROVE OrchestratorInv
  OBVIOUS
<1>1. CoordinatorInv
  BY CoordinatorAssumption
     DEF OrchestratorInit, Init, CoordinatorInv, TypeOK, LeaseShape, BindingsExclusive,
         AlarmCoversRows, Present
<1>2. ASSUME NEW w \in Requests
      PROVE  \E i \in Inputs : req[w] = NewRequest(i)
  BY <1>2 DEF OrchestratorInit
<1>3. ASSUME NEW w \in Requests
      PROVE  /\ req[w] \in RequestState
             /\ At(w, "prepareAttempt") /\ req[w].receipt = NULL
  <2>1. PICK i \in Inputs : req[w] = NewRequest(i)
    BY <1>2, <1>3
  <2>. QED
    BY <2>1 DEF NewRequest, RequestState, Labels, Methods, At
<1>4. req \in [Requests -> RequestState]
  BY <1>3 DEF OrchestratorInit
<1>5. OrchestratorTypeOK
  BY <1>1, <1>4, OrchestratorAssumption
     DEF OrchestratorInit, OrchestratorTypeOK, CoordinatorInv, NoCalls
<1>6. SafetyInv
  <2>1. ASSUME NEW w \in Requests PROVE Local(w) /\ ~ Engaged(w)
    BY <1>3, <2>1 DEF OrchestratorInit, Local, Engaged, Working, Reading, At
  <2>2. ASSUME NEW k \in RecordKeys PROVE Accounted(k)
    BY <2>2 DEF OrchestratorInit, Init, Accounted, Present, NoCalls
  <2>. QED
    BY <2>1, <2>2 DEF SafetyInv, Alone
<1>. QED
  BY <1>1, <1>5, <1>6 DEF OrchestratorInv

(* Every step of the composition is one of the coordinator or leaves it    *)
(* alone, keeps the types and the invariant, and answers honestly.         *)
LEMMA OrchestratorSteps ==
  ASSUME OrchestratorTypeOK, CoordinatorInv, [OrchestratorNext]_allVars
  PROVE  /\ Typed /\ [Next]_vars
         /\ ~ OutliveTtl /\ SafetyInv =>
              /\ SafetyInv'
              /\ \A w \in Requests : req[w].status # req'[w].status => Honest(w)
<1>1. ASSUME NEW u \in Requests, Sound(u)
      PROVE  SafetyInv =>
               /\ SafetyInv'
               /\ \A w \in Requests : req[w].status # req'[w].status => Honest(w)
  <2>. SUFFICES ASSUME SafetyInv
                PROVE  /\ SafetyInv'
                       /\ \A w \in Requests : req[w].status # req'[w].status => Honest(w)
    OBVIOUS
  <2>1. Keeps(u)
    BY <1>1 DEF Sound
  <2>2. ASSUME NEW w \in Requests, req[w].status # req'[w].status PROVE Honest(w)
    BY <2>1, <2>2 DEF Keeps, Frame
  <2>. QED
    BY <2>1, <2>2, OthersKeep
<1>2. CASE \E u \in Requests :
             Step(u) \/ SettlesLate(u) \/ Crash(u) \/ \E m \in Methods : Late(u, m)
  <2>1. PICK u \in Requests : Sound(u)
    BY <1>2, StepSound, SettlesLateSound, CrashSound, LateSound
  <2>. QED
    BY <1>1, <2>1 DEF Sound
<1>3. CASE TimePasses
  BY <1>3, TimePassesKeeps
<1>4. CASE CleanUp
  BY <1>4, CleanUpKeeps
<1>5. CASE UNCHANGED allVars
  <2>1. UNCHANGED <<vars, req, inflight, failures, crashes, calls, charged, spent, pending>>
    BY <1>5 DEF allVars, faults, outside
  <2>2. Typed
    BY <2>1 DEF Typed, OrchestratorTypeOK
  <2>3. SafetyInv => SafetyInv'
    BY <2>1 DEF SafetyInv, Local, Engaged, Working, Done, At, Fits, Alone, Accounted, Key,
                Present, vars
  <2>. QED
    BY <2>1, <2>2, <2>3
<1>. QED
  BY <1>2, <1>3, <1>4, <1>5 DEF OrchestratorNext

LEMMA OrchestratorInvariance == OrchestratorSpec => []OrchestratorInv
<1>1. OrchestratorInv /\ [OrchestratorNext]_allVars => OrchestratorInv'
  <2>. SUFFICES ASSUME OrchestratorInv, [OrchestratorNext]_allVars PROVE OrchestratorInv'
    OBVIOUS
  <2>1. Typed /\ [Next]_vars /\ (~ OutliveTtl => SafetyInv')
    BY OrchestratorSteps DEF OrchestratorInv
  <2>2. CoordinatorInv'
    BY <2>1, NextCases, PrepareKeepsInv, MethodKeepsInv, HousekeepingKeepsInv
       DEF OrchestratorInv
  <2>3. OrchestratorTypeOK'
    BY <2>1, <2>2 DEF Typed, OrchestratorTypeOK, CoordinatorInv
  <2>. QED
    BY <2>1, <2>2, <2>3 DEF OrchestratorInv
<1>. QED
  BY <1>1, OrchestratorStarts, PTL DEF OrchestratorSpec

-----------------------------------------------------------------------------
(* The theorems.                                                           *)

(* OrchestratorTypeOK: the requests, the calls in flight and the tallies   *)
(* stay in range, however long a request takes.                            *)
THEOREM OrchestratorTypeCorrect == OrchestratorSpec => []OrchestratorTypeOK
BY OrchestratorInvariance, PTL DEF OrchestratorInv

(* handleMainnetExamplePaidRequest uses the coordinator only as its        *)
(* specification allows, also when its calls are lost or arrive late, so   *)
(* that whatever PaymentCoordinatorProofs shows of Spec holds here too.    *)
THEOREM OrchestratorUsesCoordinator == OrchestratorSpec => Spec
<1>1. OrchestratorInv /\ [OrchestratorNext]_allVars => [Next]_vars
  BY OrchestratorSteps DEF OrchestratorInv
<1>2. OrchestratorInit => Init
  BY DEF OrchestratorInit
<1>. QED
  BY <1>1, <1>2, OrchestratorInvariance, PTL DEF OrchestratorSpec, Spec

(* FacilitatorCalledOnce: at most one verification and one settlement for  *)
(* each row, however many requests carry the payment, whatever throws,     *)
(* arrives late or dies.                                                   *)
THEOREM OneCallPerRow ==
  ASSUME ~ OutliveTtl
  PROVE  OrchestratorSpec => []FacilitatorCalledOnce
<1>1. OrchestratorInv => FacilitatorCalledOnce
  BY DEF OrchestratorInv, SafetyInv, Accounted, FacilitatorCalledOnce
<1>. QED
  BY <1>1, OrchestratorInvariance, PTL

(* RowTellsTheTruth: the row of a payment that moved money is fulfilled or *)
(* can still become so, and only such a row is fulfilled.                  *)
THEOREM RowsTrue ==
  ASSUME ~ OutliveTtl
  PROVE  OrchestratorSpec => []RowTellsTheTruth
<1>1. OrchestratorInv => RowTellsTheTruth
  BY DEF OrchestratorInv, SafetyInv, Accounted, RowTellsTheTruth
<1>. QED
  BY <1>1, OrchestratorInvariance, PTL

(* AnswersHonest: 200 only for money that moved, with the staged body; 402 *)
(* only when none moved.                                                   *)
THEOREM EveryAnswerHonest ==
  ASSUME ~ OutliveTtl
  PROVE  OrchestratorSpec => AnswersHonest
<1>1. OrchestratorInv /\ [OrchestratorNext]_allVars =>
        [\A w \in Requests : req[w].status # req'[w].status => Honest(w)]_allVars
  BY OrchestratorSteps DEF OrchestratorInv
<1>. QED
  BY <1>1, OrchestratorInvariance, PTL DEF OrchestratorSpec, AnswersHonest

-----------------------------------------------------------------------------
(* PaidAnswerMeansSpent needs neither SafetyInv nor the assumption on how  *)
(* long a request lasts, only that a paid answer, a receipt and a          *)
(* fulfilled row each come from another of the three or from money.        *)

HasPaid(w) == req[w].status = 200 \/ req[w].receipt # NULL

Fulfilled(k) == Present(k) /\ rows[k].state = "fulfilled"

PaidInv ==
  /\ \A w \in Requests : HasPaid(w) => PaidFor(Key(w))
  /\ \A k \in RecordKeys : Fulfilled(k) => PaidFor(k)

(* No row is fulfilled by this step but by a receipt of request u.         *)
Fulfils(u) ==
  \A k \in RecordKeys :
    Fulfilled(k)' => Fulfilled(k) \/ (k = Key(u) /\ req[u].receipt # NULL)

(* Request u has no paid answer and no receipt after this step but what it *)
(* had, was shown by the row, or bought now.                               *)
Earns(u) ==
  /\ \A v \in Requests \ {u} : req'[v] = req[v]
  /\ req'[u].input = req[u].input
  /\ HasPaid(u)' =>
       HasPaid(u) \/ Fulfilled(Key(u)) \/ req[u].input.auth \in spent'

LEMMA EffectFulfils ==
  ASSUME OrchestratorTypeOK, CoordinatorInv, NEW u \in Requests, NEW m \in Methods,
         Effect(u, m)
  PROVE  Fulfils(u)
<1>1. CASE m \in Calls
  <2>1. m = "completeFulfillment" => req[u].receipt # NULL
    BY CoordinatorAssumption DEF Effect, CompleteFulfillment, CanCompleteFulfillment
  <2>2. \A k \in RecordKeys \ {Key(u)} : rows'[k] = rows[k]
    BY <1>1, EffectMoves
  <2>3. rows'[Key(u)].state = "fulfilled" => m = "completeFulfillment"
    BY <1>1, EffectTells
  <2>. QED
    BY <2>1, <2>2, <2>3 DEF Fulfils, Fulfilled, Present
<1>2. CASE m \in Reading
  <2>1. PrepareAttempt(req[u].input) /\ Key(u) \in RecordKeys /\ req[u].input \in Inputs
    BY <1>2, KeyInTable DEF Effect, Reading
  <2>. DEFINE row == NewRow(req[u].input)
  <2>2. row \in Row /\ row.state = "reserved"
    BY <2>1, CoordinatorAssumption DEF NewRow, Row, States, InProgressStates, Inputs
  <2>3. /\ rows'[Key(u)] = row
        /\ \A j \in RecordKeys \ {Key(u)} : rows'[j] = rows[j]
    BY <2>1, <2>2, PutRow DEF PrepareAttempt, Key, CoordinatorInv
  <2>. QED
    BY <2>2, <2>3 DEF Fulfils, Fulfilled, Present
<1>. QED
  BY <1>1, <1>2 DEF Calls

LEMMA IdleFulfils ==
  ASSUME NEW u \in Requests, UNCHANGED vars
  PROVE  Fulfils(u)
BY DEF Fulfils, Fulfilled, Present, vars

(* The steps that neither answer 200 nor touch the receipt.                *)
LEMMA OtherwiseEarns ==
  ASSUME NEW u \in Requests, NEW label, Goes(u, label), SameData(u),
         req'[u].status = req[u].status \/ req'[u].status # 200
  PROVE  Earns(u)
BY DEF Goes, SameData, Earns, HasPaid

LEMMA GoToEarns ==
  ASSUME OrchestratorTypeOK, NEW u \in Requests, NEW label \in Labels, GoTo(u, label)
  PROVE  Earns(u)
BY GoToDoes, OtherwiseEarns

LEMMA AnswerEarns ==
  ASSUME OrchestratorTypeOK, NEW u \in Requests, NEW status \in Statuses,
         status = 200 => req[u].receipt # NULL, Answer(u, status)
  PROVE  Earns(u)
BY AnswerDoes DEF Goes, SameData, Earns, HasPaid

LEMMA ThrowEarns ==
  ASSUME OrchestratorTypeOK, NEW u \in Requests, NEW m \in Methods,
         NEW status \in {500, 503}, ThrowsToAnswer(u, m, status)
  PROVE  Earns(u) /\ Fulfils(u)
<1>1. Goes(u, "answered") /\ SameData(u) /\ req'[u].status = status
  BY ThrowsToAnswerDoes DEF Statuses
<1>. QED
  BY <1>1, OtherwiseEarns, IdleFulfils DEF ThrowsToAnswer, Throws

LEMMA PrepareEarns ==
  ASSUME OrchestratorTypeOK, CoordinatorInv, NEW u \in Requests, Prepare(u)
  PROVE  Earns(u) /\ Fulfils(u)
<1>. DEFINE reply == PrepareReply(req[u].input)
<1>1. CASE PrepareAttempt(req[u].input) /\ GoTo(u, "acquireVerifyLease")
  <2>1. Effect(u, "prepareAttempt")
    BY <1>1 DEF Effect
  <2>. QED
    BY <1>1, <2>1, GoToEarns, EffectFulfils DEF Labels, Methods
<1>2. CASE GoTo(u, "getReplay") /\ UNCHANGED vars
  BY <1>2, GoToEarns, IdleFulfils DEF Labels, Methods
<1>3. CASE /\ reply \notin {"created", "replay"}
           /\ Answer(u, AnswerOf(reply)) /\ UNCHANGED vars
  <2>1. AnswerOf(reply) \in Statuses \ {200}
    BY <1>3, PrepareReplies DEF AnswerOf, Statuses
  <2>. QED
    BY <1>3, <2>1, AnswerEarns, IdleFulfils
<1>4. CASE ThrowsToAnswer(u, "prepareAttempt", 503)
  BY <1>4, ThrowEarns DEF Methods
<1>. QED
  BY <1>1, <1>2, <1>3, <1>4 DEF Prepare

LEMMA GetReplayEarns ==
  ASSUME OrchestratorTypeOK, CoordinatorInv, NEW u \in Requests, GetReplay(u)
  PROVE  Earns(u) /\ Fulfils(u)
<1>. DEFINE replay == Replay(Key(u))
<1>1. CASE replay # NULL /\ AnswerPaid(u, replay.body, replay.receipt) /\ UNCHANGED vars
  <2>1. /\ Fulfilled(Key(u)) /\ Key(u) \in RecordKeys
        /\ replay = [body |-> rows[Key(u)].body, receipt |-> rows[Key(u)].receipt]
    BY <1>1, KeyInTable DEF Replay, Fulfilled
  <2>2. rows[Key(u)].body \in Bodies \cup {NULL} /\ rows[Key(u)].receipt \in Receipts \cup {NULL}
    BY <2>1, RowOf DEF Row, Fulfilled
  <2>3. Goes(u, "answered")
    BY <1>1, <2>1, <2>2, AnswerPaidDoes
  <2>. QED
    BY <1>1, <2>1, <2>3, IdleFulfils DEF Goes, Earns
<1>2. CASE Answer(u, 503) /\ UNCHANGED vars
  BY <1>2, AnswerEarns, IdleFulfils DEF Statuses
<1>3. CASE ThrowsToAnswer(u, "getReplay", 500)
  BY <1>3, ThrowEarns DEF Methods
<1>. QED
  BY <1>1, <1>2, <1>3 DEF GetReplay

(* The calls whose reply sends the request on to the next one.             *)
LEMMA CallsEarn ==
  ASSUME OrchestratorTypeOK, CoordinatorInv, NEW u \in Requests,
         AcquireVerify(u) \/ CompleteVerification(u) \/ Stage(u) \/ AcquireSettle(u)
  PROVE  Earns(u) /\ Fulfils(u)
<1>1. ASSUME NEW t \in Tokens, NEW next \in Labels, NEW m \in Calls, Effect(u, m),
             TakeLease(u, t, next)
      PROVE  Earns(u) /\ Fulfils(u)
  <2>1. rows[Key(u)] \in Row
    BY <1>1, EffectMoves
  <2>. QED
    BY <1>1, <2>1, TakeLeaseDoes, OtherwiseEarns, EffectFulfils DEF Calls
<1>2. CASE \E t \in Tokens : \/ /\ AcquireVerifyLease(Key(u), t)
                                /\ TakeLease(u, t, "verifyPayment")
                             \/ /\ AcquireSettleLease(Key(u), t)
                                /\ TakeLease(u, t, "settlePayment")
  <2>1. PICK t \in Tokens : \/ /\ Effect(u, "acquireVerifyLease")
                               /\ TakeLease(u, t, "verifyPayment")
                            \/ /\ Effect(u, "acquireSettleLease")
                               /\ TakeLease(u, t, "settlePayment")
    BY <1>2 DEF Effect
  <2>. QED
    BY <1>1, <2>1 DEF Calls, Methods, Reading, Labels
<1>3. CASE \/ /\ CompleteVerify(Key(u), Gen(u), Token(u))
              /\ GoTo(u, "buildResponse")
           \/ StageResponse(Key(u), req[u].body) /\ GoTo(u, "acquireSettleLease")
  <2>1. Effect(u, "completeVerify") \/ Effect(u, "stageResponse")
    BY <1>3 DEF Effect
  <2>. QED
    BY <1>3, <2>1, GoToEarns, EffectFulfils DEF Labels, Methods
<1>4. CASE /\ Answer(u, 202) \/ Answer(u, 503) \/ GoTo(u, "failPostVerifyDefinitive")
           /\ UNCHANGED vars
  BY <1>4, AnswerEarns, GoToEarns, IdleFulfils DEF Statuses, Labels, Methods
<1>5. CASE \E m \in Methods : ThrowsToAnswer(u, m, 503)
  BY <1>5, ThrowEarns
<1>. QED
  BY <1>2, <1>3, <1>4, <1>5
     DEF AcquireVerify, CompleteVerification, Stage, AcquireSettle, Methods

(* The steps that call no coordinator.                                     *)
LEMMA InnerStepsEarn ==
  ASSUME OrchestratorTypeOK, NEW u \in Requests,
         VerifyPayment(u) \/ BuildResponse(u) \/ SettlePayment(u) \/ Crash(u)
  PROVE  Earns(u) /\ Fulfils(u)
<1>1. Fulfils(u)
  BY IdleFulfils DEF VerifyPayment, BuildResponse, SettlePayment, Crash
<1>2. CASE \E label \in Labels : GoTo(u, label)
  BY <1>1, <1>2, GoToEarns
<1>3. CASE \E b \in StageableBodies :
             req' = [req EXCEPT ![u] = [@ EXCEPT !.pc = "stageResponse", !.body = b]]
  <2>1. PICK b \in Bodies :
          req' = [req EXCEPT ![u] = [@ EXCEPT !.pc = "stageResponse", !.body = b]]
    BY <1>3, CoordinatorAssumption
  <2>. QED
    BY <1>1, <2>1, BodyDoes DEF Goes, Earns, HasPaid
<1>4. CASE \E c \in Receipts :
             /\ MoneyMoves(u)
             /\ req' = [req EXCEPT ![u] =
                          [@ EXCEPT !.pc = "completeFulfillment", !.receipt = c]]
  <2>1. PICK c \in Receipts :
          /\ MoneyMoves(u)
          /\ req' = [req EXCEPT ![u] =
                       [@ EXCEPT !.pc = "completeFulfillment", !.receipt = c]]
    BY <1>4
  <2>. QED
    BY <1>1, <2>1, ReceiptDoes DEF Goes, Earns, MoneyMoves
<1>5. /\ VerifyPayment(u) \/ Crash(u) => \E label \in Labels : GoTo(u, label)
      /\ BuildFails(u) => \E label \in Labels : GoTo(u, label)
      /\ SettleRefused(u) \/ SettleThrows(u) => \E label \in Labels : GoTo(u, label)
  BY DEF VerifyPayment, Crash, BuildFails, SettleRefused, SettleThrows, Labels, Methods
<1>6. ASSUME NEW r \in Receipts, SettleSucceeds(u, r)
      PROVE  Earns(u)
  BY <1>2, <1>4, <1>6 DEF SettleSucceeds, Labels, Methods
<1>. QED
  BY <1>1, <1>2, <1>3, <1>5, <1>6 DEF BuildResponse, SettlePayment

LEMMA LastCallsEarn ==
  ASSUME OrchestratorTypeOK, CoordinatorInv, NEW u \in Requests,
         Complete(u) \/ \E m \in Reports : Report(u, m)
  PROVE  Earns(u) /\ Fulfils(u)
<1>1. CASE /\ CompleteFulfillment(Key(u), Gen(u), Token(u), req[u].receipt)
           /\ AnswerPaid(u, req[u].body, req[u].receipt)
  <2>1. Effect(u, "completeFulfillment") /\ req[u].receipt # NULL
    BY <1>1, CoordinatorAssumption DEF Effect, CompleteFulfillment, CanCompleteFulfillment
  <2>2. Goes(u, "answered")
    BY <1>1, AnswerPaidDoes, LocalState DEF RequestState
  <2>. QED
    BY <2>1, <2>2, EffectFulfils DEF Goes, Earns, HasPaid, Methods
<1>2. CASE At(u, "completeFulfillment") /\ StaleCompletion(u) /\ UNCHANGED vars
  BY <1>2, StaleDoes, OtherwiseEarns, IdleFulfils
<1>3. CASE /\ Throws(u, "completeFulfillment")
           /\ req' = [req EXCEPT ![u] = [@ EXCEPT !.pc = "markSettleUncertain",
                                                  !.lost = "completeFulfillment"]]
  BY <1>3, GiveUpDoes, OtherwiseEarns, IdleFulfils DEF Throws
<1>4. CASE \E m \in Reports : Report(u, m)
  <2>1. PICK m \in Reports : Report(u, m)
    BY <1>4
  <2>2. m \in Methods /\ AnswerAfter(u, m) \in Statuses
    BY DEF Reports, Methods, AnswerAfter, Statuses
  <2>3. AnswerAfter(u, m) = 200 => req[u].receipt # NULL
    BY DEF AnswerAfter
  <2>4. Effect(u, m) \/ UNCHANGED vars => Fulfils(u)
    BY <2>2, EffectFulfils, IdleFulfils
  <2>5. CASE ThrowsToAnswer(u, m, 500)
    BY <2>2, <2>5, ThrowEarns
  <2>. QED
    BY <2>1, <2>2, <2>3, <2>4, <2>5, AnswerEarns DEF Report
<1>. QED
  BY <1>1, <1>2, <1>3, <1>4 DEF Complete

(* An authorization that has paid has paid for good.                       *)
LEMMA SpentGrows ==
  ASSUME [OrchestratorNext]_allVars
  PROVE  spent \subseteq spent'
<1>1. ASSUME NEW u \in Requests, SettlePayment(u) PROVE spent \subseteq spent'
  BY <1>1 DEF SettlePayment, SettleRefused, SettleThrows, SettleSucceeds, MoneyUnknown,
              MoneyMoves
<1>2. ASSUME NEW u \in Requests, Step(u) PROVE SettlePayment(u) \/ UNCHANGED spent
  <2>1. Prepare(u) \/ GetReplay(u) => UNCHANGED spent
    BY DEF Prepare, GetReplay, NothingElse, ThrowsToAnswer, Throws, outside
  <2>2. AcquireVerify(u) \/ VerifyPayment(u) \/ CompleteVerification(u) => UNCHANGED spent
    BY DEF AcquireVerify, VerifyPayment, CompleteVerification, NothingElse,
           ThrowsToAnswer, Throws, outside
  <2>3. BuildResponse(u) \/ Stage(u) \/ AcquireSettle(u) => UNCHANGED spent
    BY DEF BuildResponse, Stage, AcquireSettle, NothingElse, ThrowsToAnswer, Throws, outside
  <2>4. Complete(u) \/ (\E m \in Reports : Report(u, m)) => UNCHANGED spent
    BY DEF Complete, Report, NothingElse, ThrowsToAnswer, Throws, outside
  <2>. QED
    BY <1>2, <2>1, <2>2, <2>3, <2>4 DEF Step
<1>3. ASSUME NEW u \in Requests,
             SettlesLate(u) \/ Crash(u) \/ \E m \in Methods : Late(u, m)
      PROVE  spent \subseteq spent'
  BY <1>3 DEF SettlesLate, Crash, DiesCalling, MoneyUnknown, MoneyMoves, Late, outside
<1>4. CASE TimePasses \/ CleanUp \/ UNCHANGED allVars
  BY <1>4 DEF TimePasses, CleanUp, outside, allVars
<1>. QED
  BY <1>1, <1>2, <1>3, <1>4 DEF OrchestratorNext

(* Every step of the composition keeps PaidInv.                            *)
LEMMA PaidInvKept ==
  ASSUME OrchestratorTypeOK, CoordinatorInv, PaidInv, [OrchestratorNext]_allVars
  PROVE  PaidInv'
<1>1. spent \subseteq spent'
  BY SpentGrows
<1>2. ASSUME \A v \in Requests : req'[v].input = req[v].input, NEW k \in RecordKeys,
             PaidFor(k)
      PROVE  PaidFor(k)'
  BY <1>1, <1>2 DEF PaidFor, Key
<1>3. ASSUME NEW u \in Requests, Earns(u), Fulfils(u)
      PROVE  PaidInv'
  <2>1. \A v \in Requests : req'[v].input = req[v].input /\ Key(v)' = Key(v)
    BY <1>3 DEF Earns, Key
  <2>2. ASSUME NEW w \in Requests, HasPaid(w)' PROVE PaidFor(Key(w))'
    <3>1. Key(w) \in RecordKeys
      BY KeyInTable
    <3>2. CASE PaidFor(Key(w))
      BY <1>2, <2>1, <3>1, <3>2 DEF PaidFor
    <3>3. CASE req[w].input.auth \in spent'
      BY <2>1, <3>3 DEF PaidFor
    <3>. QED
      BY <1>3, <2>2, <3>1, <3>2, <3>3 DEF Earns, HasPaid, PaidInv
  <2>3. ASSUME NEW k \in RecordKeys, Fulfilled(k)' PROVE PaidFor(k)'
    <3>1. PaidFor(k)
      BY <1>3, <2>3 DEF Fulfils, PaidInv, HasPaid
    <3>. QED
      BY <1>2, <2>1, <3>1
  <2>. QED
    BY <2>2, <2>3 DEF PaidInv
<1>4. CASE \E u \in Requests : Step(u) \/ Crash(u)
  BY <1>3, <1>4, PrepareEarns, GetReplayEarns, CallsEarn, InnerStepsEarn, LastCallsEarn
     DEF Step
<1>5. ASSUME NEW u \in Requests, NEW m \in Methods, Late(u, m) PROVE PaidInv'
  BY <1>3, <1>5, EffectFulfils DEF Late, Earns, HasPaid
<1>7. ASSUME NEW u \in Requests, SettlesLate(u) PROVE PaidInv'
  BY <1>3, <1>7, IdleFulfils DEF SettlesLate, Earns, HasPaid
<1>6. CASE TimePasses \/ CleanUp \/ UNCHANGED allVars
  <2>1. UNCHANGED req /\ (Housekeeping \/ UNCHANGED vars)
    BY <1>6 DEF TimePasses, CleanUp, allVars, Housekeeping
  <2>2. ASSUME NEW k \in RecordKeys, Fulfilled(k)' PROVE Fulfilled(k)
    <3>1. Ages
      BY <2>1, HousekeepingAges DEF OrchestratorTypeOK
    <3>2. /\ Present(k) /\ rows[k] \in Row
          /\ \E n \in 0 .. RecordTtl : rows'[k] = [rows[k] EXCEPT !.ttl = n]
      BY <2>2, <3>1, RowOf DEF Ages, Fulfilled, Present
    <3>3. rows'[k].state = rows[k].state
      BY <3>2 DEF Row
    <3>. QED
      BY <2>2, <3>2, <3>3 DEF Fulfilled
  <2>3. \A w \in Requests : (HasPaid(w)' <=> HasPaid(w)) /\ Key(w)' = Key(w)
    BY <2>1 DEF HasPaid, Key
  <2>. QED
    BY <1>2, <2>1, <2>2, <2>3, KeyInTable DEF PaidInv
<1>. QED
  BY <1>4, <1>5, <1>6, <1>7 DEF OrchestratorNext

(* PaidAnswerMeansSpent, for requests that take any time: nobody is        *)
(* answered 200 unless money moved for that identifier and those terms.    *)
THEOREM PaidAnswersPaid == OrchestratorSpec => []PaidAnswerMeansSpent
<1>1. OrchestratorInit => PaidInv
  <2>. SUFFICES ASSUME OrchestratorInit PROVE PaidInv
    OBVIOUS
  <2>1. ASSUME NEW w \in Requests PROVE ~ HasPaid(w)
    <3>1. \E i \in Inputs : req[w] = NewRequest(i)
      BY <2>1 DEF OrchestratorInit
    <3>. QED
      BY <3>1, CoordinatorAssumption DEF NewRequest, HasPaid
  <2>. QED
    BY <2>1 DEF OrchestratorInit, Init, PaidInv, Fulfilled, Present
<1>2. OrchestratorInv /\ PaidInv /\ [OrchestratorNext]_allVars => PaidInv'
  BY PaidInvKept DEF OrchestratorInv
<1>3. PaidInv => PaidAnswerMeansSpent
  BY DEF PaidInv, HasPaid, PaidAnswerMeansSpent
<1>. QED
  BY <1>1, <1>2, <1>3, OrchestratorInvariance, PTL DEF OrchestratorSpec
-----------------------------------------------------------------------------
(* Whatever fails, the row of a request at work is in the state and under  *)
(* the lease which that request expects (Tended), so that its next call is *)
(* accepted; only a completion that threw may have come to the row before  *)
(* the report that follows it.  While nothing has failed, every row in     *)
(* progress has a request at work on it (NobodyLost).                      *)

Verifies == {"verifyPayment", "completeVerify", "markVerifyUncertain", "failVerifyDefinitive"}

Verified == {"buildResponse", "stageResponse", "failPostVerifyDefinitive"}

Settles == { "settlePayment", "completeFulfillment", "markSettleUncertain",
             "failSettleDefinitive" }

Tended(w) ==
  /\ At(w, "acquireVerifyLease") => CanAcquireVerifyLease(Key(w))
  /\ req[w].pc \in Verifies => VerifyAwaited(Key(w), Gen(w), Token(w))
  /\ req[w].pc \in Verified =>
       InState(Key(w), {"verified"}) /\ HoldsLease(Key(w), "verify", Gen(w), Token(w))
  /\ At(w, "acquireSettleLease") => CanAcquireSettleLease(Key(w))
  /\ req[w].pc \in Settles =>
       \/ SettleAwaited(Key(w), Gen(w), Token(w)) /\ rows[Key(w)].body # NULL
       \/ At(w, "markSettleUncertain") /\ InState(Key(w), {"fulfilled"})
  /\ At(w, "completeFulfillment") => req[w].receipt \in ValidReceipts

NobodyLost ==
  \A k \in RecordKeys :
    InState(k, InProgressStates) => \E v \in Requests : Key(v) = k /\ Working(v)

CalmInv ==
  /\ \A w \in Requests : Tended(w)
  /\ Faultless => inflight = {} /\ NobodyLost

(* The lease of request w stays the same.                                  *)
SameLease(w) == req'[w].lease = req[w].lease

LEMMA LeaseKept ==
  ASSUME OrchestratorTypeOK, NEW w \in Requests,
         \/ \E label \in Labels : GoTo(w, label)
         \/ \E b \in Bodies :
              req' = [req EXCEPT ![w] = [@ EXCEPT !.pc = "stageResponse", !.body = b]]
         \/ \E c \in Receipts :
              req' = [req EXCEPT ![w] = [@ EXCEPT !.pc = "completeFulfillment", !.receipt = c]]
  PROVE  SameLease(w)
<1>1. ASSUME NEW label \in Labels, GoTo(w, label)
      PROVE  SameLease(w)
  <2>. DEFINE r == [req[w] EXCEPT !.pc = label]
  <2>1. req'[w] = r
    BY <1>1 DEF GoTo, OrchestratorTypeOK
  <2>2. r.lease = req[w].lease
    BY LocalState DEF RequestState
  <2>. QED
    BY <2>1, <2>2 DEF SameLease
<1>2. ASSUME NEW b \in Bodies,
             req' = [req EXCEPT ![w] = [@ EXCEPT !.pc = "stageResponse", !.body = b]]
      PROVE  SameLease(w)
  <2>. DEFINE r == [req[w] EXCEPT !.pc = "stageResponse", !.body = b]
  <2>1. req'[w] = r
    BY <1>2 DEF OrchestratorTypeOK
  <2>2. r.lease = req[w].lease
    BY LocalState DEF RequestState
  <2>. QED
    BY <2>1, <2>2 DEF SameLease
<1>3. ASSUME NEW c \in Receipts,
             req' = [req EXCEPT ![w] = [@ EXCEPT !.pc = "completeFulfillment", !.receipt = c]]
      PROVE  SameLease(w)
  <2>. DEFINE r == [req[w] EXCEPT !.pc = "completeFulfillment", !.receipt = c]
  <2>1. req'[w] = r
    BY <1>3 DEF OrchestratorTypeOK
  <2>2. r.lease = req[w].lease
    BY LocalState DEF RequestState
  <2>. QED
    BY <2>1, <2>2 DEF SameLease
<1>. QED
  BY <1>1, <1>2, <1>3

LEMMA EndKeepsLease ==
  ASSUME OrchestratorTypeOK, NEW w \in Requests,
         \/ \E status \in Statuses : Answer(w, status)
         \/ \E status \in Statuses, m \in Methods : ThrowsToAnswer(w, m, status)
         \/ \E b \in Bodies \cup {NULL}, c \in Receipts \cup {NULL} : AnswerPaid(w, b, c)
         \/ StaleCompletion(w)
         \/ req' = [req EXCEPT ![w] = [@ EXCEPT !.pc = "markSettleUncertain",
                                               !.lost = "completeFulfillment"]]
  PROVE  SameLease(w)
<1>1. ASSUME NEW status \in Statuses, Answer(w, status)
      PROVE  SameLease(w)
  <2>. DEFINE r == [req[w] EXCEPT !.pc = "answered", !.status = status]
  <2>1. req'[w] = r
    BY <1>1 DEF Answer, OrchestratorTypeOK
  <2>2. r.lease = req[w].lease
    BY LocalState DEF RequestState
  <2>. QED
    BY <2>1, <2>2 DEF SameLease
<1>2. ASSUME NEW status \in Statuses, NEW m \in Methods, ThrowsToAnswer(w, m, status)
      PROVE  SameLease(w)
  <2>. DEFINE r == [req[w] EXCEPT !.pc = "answered", !.status = status, !.lost = m]
  <2>1. req'[w] = r
    BY <1>2 DEF ThrowsToAnswer, OrchestratorTypeOK
  <2>2. r.lease = req[w].lease
    BY LocalState DEF RequestState
  <2>. QED
    BY <2>1, <2>2 DEF SameLease
<1>3. ASSUME NEW b \in Bodies \cup {NULL}, NEW c \in Receipts \cup {NULL}, AnswerPaid(w, b, c)
      PROVE  SameLease(w)
  <2>. DEFINE r == [req[w] EXCEPT !.pc = "answered", !.status = 200, !.body = b,
                                  !.receipt = c]
  <2>1. req'[w] = r
    BY <1>3 DEF AnswerPaid, OrchestratorTypeOK
  <2>2. r.lease = req[w].lease
    BY LocalState DEF RequestState
  <2>. QED
    BY <2>1, <2>2 DEF SameLease
<1>4. ASSUME StaleCompletion(w)
      PROVE  SameLease(w)
  <2>. DEFINE tries == req[w].tries + 1
              next == IF tries < RetryLimit
                      THEN "completeFulfillment" ELSE "markSettleUncertain"
              r == [req[w] EXCEPT !.tries = tries, !.pc = next]
  <2>1. req'[w] = r
    BY <1>4 DEF StaleCompletion, OrchestratorTypeOK
  <2>. HIDE DEF tries, next
  <2>2. r.lease = req[w].lease
    BY LocalState DEF RequestState
  <2>. QED
    BY <2>1, <2>2 DEF SameLease
<1>5. ASSUME req' = [req EXCEPT ![w] = [@ EXCEPT !.pc = "markSettleUncertain",
                                               !.lost = "completeFulfillment"]]
      PROVE  SameLease(w)
  <2>. DEFINE r == [req[w] EXCEPT !.pc = "markSettleUncertain",
                                  !.lost = "completeFulfillment"]
  <2>1. req'[w] = r
    BY <1>5 DEF OrchestratorTypeOK
  <2>2. r.lease = req[w].lease
    BY LocalState DEF RequestState
  <2>. QED
    BY <2>1, <2>2 DEF SameLease
<1>. QED
  BY <1>1, <1>2, <1>3, <1>4, <1>5

LEMMA LeaseTaken ==
  ASSUME OrchestratorTypeOK, NEW w \in Requests, NEW token \in Tokens, NEW next,
         TakeLease(w, token, next)
  PROVE  req'[w].lease.gen = rows[Key(w)].gen + 1 /\ req'[w].lease.token = token
<1>. DEFINE x == [gen |-> rows[Key(w)].gen + 1, token |-> token]
            r == [req[w] EXCEPT !.pc = next, !.lease = x]
<1>1. req'[w] = r
  BY DEF TakeLease, OrchestratorTypeOK
<1>2. r.lease = x
  <2>. HIDE DEF x
  <2>. QED  BY LocalState DEF RequestState
<1>. QED
  BY <1>1, <1>2

(* What a step of a request does to the row and its place.                 *)
Tends(u) ==
  /\ Tended(u)'
  /\ Faultless' =>
       /\ inflight' = inflight
       /\ Working(u)' \/ Untouched(Key(u)) \/ ~ InState(Key(u), InProgressStates)'
       /\ Working(u) /\ ~ Working(u)' => ~ InState(Key(u), InProgressStates)'

(* No call throws in a step after which nothing has failed.                *)
LEMMA NoThrow ==
  ASSUME OrchestratorTypeOK, NEW u, NEW m, Throws(u, m)
  PROVE  ~ Faultless'
BY DEF OrchestratorTypeOK, Faultless, Throws

LEMMA ThrowTends ==
  ASSUME OrchestratorTypeOK, NEW u \in Requests, NEW m \in Methods,
         NEW status \in {500, 503}, ThrowsToAnswer(u, m, status)
  PROVE  Tends(u)
<1>1. Goes(u, "answered")
  BY ThrowsToAnswerDoes DEF Statuses
<1>2. ~ Faultless'
  BY NoThrow DEF ThrowsToAnswer
<1>. QED
  BY <1>1, <1>2 DEF Tends, Tended, Goes, At, Verifies, Verified, Settles

(* A request that stops where it was not at work.                          *)
LEMMA StopsTending ==
  ASSUME OrchestratorTypeOK, NEW u \in Requests, NEW label \in {"answered", "getReplay"},
         Goes(u, label), UNCHANGED rows, NothingElse, ~ Working(u)
  PROVE  Tends(u)
BY DEF Tends, Tended, Goes, At, Verifies, Verified, Settles, Untouched, NothingElse,
       faults, outside

LEMMA PrepareTends ==
  ASSUME OrchestratorTypeOK, CoordinatorInv, SafetyInv,
         NEW u \in Requests, Prepare(u)
  PROVE  Tends(u)
<1>0. ~ Working(u) /\ Key(u) \in RecordKeys
  BY KeyInTable DEF Prepare, At, Working, Reading
<1>1. CASE PrepareAttempt(req[u].input) /\ GoTo(u, "acquireVerifyLease") /\ NothingElse
  <2>1. Goes(u, "acquireVerifyLease")
    BY <1>1, GoToDoes DEF Labels, Methods
  <2>2. Key(u)' = Key(u)
    BY <2>1 DEF Goes, Key
  <2>3. rows'[Key(u)] = NewRow(req[u].input)
    BY <1>0, <1>1 DEF PrepareAttempt, Put, CoordinatorInv, TypeOK, Key
  <2>4. rows'[Key(u)] # NoRow
    BY <1>0, <1>1, ReserveKeeps DEF NothingElse, outside
  <2>5. CanAcquireVerifyLease(Key(u))'
    BY <2>2, <2>3, <2>4 DEF CanAcquireVerifyLease, InState, Present, NewRow
  <2>. QED
    BY <1>0, <1>1, <2>1, <2>2, <2>5
       DEF Tends, Tended, Goes, At, Working, Reading, Verifies, Verified, Settles,
           NothingElse, faults
<1>2. CASE GoTo(u, "getReplay") /\ UNCHANGED vars /\ NothingElse
  BY <1>0, <1>2, GoToDoes, StopsTending DEF Labels, Methods, vars
<1>3. ASSUME NEW status \in Statuses, Answer(u, status), UNCHANGED vars, NothingElse
      PROVE  Tends(u)
  BY <1>0, <1>3, AnswerDoes, StopsTending DEF vars
<1>4. PrepareReply(req[u].input) \in
        {"created", "conflict", "replay", "failed", "uncertain", "wait"}
  BY PrepareReplies
<1>. DEFINE reply == PrepareReply(req[u].input)
<1>5. reply \notin {"created", "replay"} => AnswerOf(reply) \in Statuses
  BY <1>4 DEF AnswerOf, Statuses
<1>. HIDE DEF reply
<1>6. \/ PrepareAttempt(req[u].input) /\ GoTo(u, "acquireVerifyLease") /\ NothingElse
      \/ GoTo(u, "getReplay") /\ UNCHANGED vars /\ NothingElse
      \/ /\ reply \notin {"created", "replay"}
         /\ Answer(u, AnswerOf(reply)) /\ UNCHANGED vars /\ NothingElse
      \/ ThrowsToAnswer(u, "prepareAttempt", 503)
  BY DEF Prepare, reply
<1>. QED
  BY <1>1, <1>2, <1>3, <1>5, <1>6, ThrowTends DEF Methods

LEMMA GetReplayTends ==
  ASSUME OrchestratorTypeOK, NEW u \in Requests, GetReplay(u)
  PROVE  Tends(u)
<1>1. ~ Working(u)
  BY DEF GetReplay, At, Working, Reading
<1>2. CASE Answer(u, 503) /\ UNCHANGED vars /\ NothingElse
  BY <1>1, <1>2, AnswerDoes, StopsTending DEF Statuses, vars
<1>3. ASSUME Replay(Key(u)) # NULL, NothingElse, UNCHANGED vars,
             AnswerPaid(u, Replay(Key(u)).body, Replay(Key(u)).receipt)
      PROVE  Tends(u)
  <2>1. Present(Key(u)) /\ rows[Key(u)] \in Row
    BY <1>3, KeyInTable DEF Replay, Present, OrchestratorTypeOK, TypeOK
  <2>2. /\ Replay(Key(u)).body \in Bodies \cup {NULL}
        /\ Replay(Key(u)).receipt \in Receipts \cup {NULL}
    BY <1>3, <2>1 DEF Replay, Row
  <2>. QED
    BY <1>1, <1>3, <2>2, AnswerPaidDoes, StopsTending DEF vars
<1>. QED
  BY <1>2, <1>3, ThrowTends DEF GetReplay, Methods

(* What the coordinator writes when it grants a lease, or changes a state. *)
LEMMA GrantDoes ==
  ASSUME OrchestratorTypeOK, NEW k \in RecordKeys, Present(k),
         NEW kind \in Kinds, NEW state \in States, NEW t \in Tokens,
         GrantLease(k, kind, state, t)
  PROVE  /\ rows'[k].state = state /\ rows'[k].kind = kind /\ rows'[k].token = t
         /\ rows'[k].gen = rows[k].gen + 1 /\ rows'[k].body = rows[k].body
<1>. DEFINE r == [rows[k] EXCEPT !.state = state, !.kind = kind, !.gen = rows[k].gen + 1,
                                 !.token = t]
<1>1. rows[k] \in Row
  BY DEF OrchestratorTypeOK, TypeOK, Present
<1>2. rows'[k] = r
  BY DEF GrantLease, Put, OrchestratorTypeOK, TypeOK
<1>3. /\ r.state = state /\ r.kind = kind /\ r.token = t
      /\ r.gen = rows[k].gen + 1 /\ r.body = rows[k].body
  BY <1>1 DEF Row
<1>. HIDE DEF r
<1>. QED
  BY <1>2, <1>3

LEMMA SetStateDoes ==
  ASSUME OrchestratorTypeOK, NEW k \in RecordKeys, Present(k),
         NEW state \in States, SetState(k, state)
  PROVE  /\ rows'[k].state = state /\ rows'[k].kind = rows[k].kind
         /\ rows'[k].token = rows[k].token /\ rows'[k].gen = rows[k].gen
         /\ rows'[k].body = rows[k].body
<1>1. rows[k] \in Row
  BY DEF OrchestratorTypeOK, TypeOK, Present
<1>2. rows'[k] = [rows[k] EXCEPT !.state = state]
  BY DEF SetState, Put, OrchestratorTypeOK, TypeOK
<1>. QED
  BY <1>1, <1>2 DEF Row

LEMMA AcquireVerifyTends ==
  ASSUME OrchestratorTypeOK, CoordinatorInv,
         NEW u \in Requests, Tended(u), AcquireVerify(u)
  PROVE  Tends(u)
<1>1. CanAcquireVerifyLease(Key(u)) /\ Key(u) \in RecordKeys
  BY KeyInTable DEF AcquireVerify, Tended
<1>2. ASSUME NEW t \in Tokens, AcquireVerifyLease(Key(u), t),
             TakeLease(u, t, "verifyPayment"), NothingElse
      PROVE  Tends(u)
  <2>1. Effect(u, "acquireVerifyLease")
    BY <1>2 DEF Effect
  <2>2. rows[Key(u)] \in Row /\ Present(Key(u)) /\ rows'[Key(u)] # NoRow
    BY <2>1, EffectMoves DEF Calls, Methods, Reading
  <2>3. Goes(u, "verifyPayment") /\ Key(u)' = Key(u)
    BY <1>2, <2>2, TakeLeaseDoes DEF Labels, Goes, Key
  <2>4. /\ rows'[Key(u)].state = "verifying" /\ rows'[Key(u)].kind = "verify"
        /\ rows'[Key(u)].token = t /\ rows'[Key(u)].gen = rows[Key(u)].gen + 1
    BY <1>1, <1>2, <2>2, GrantDoes
       DEF AcquireVerifyLease, Kinds, States, InProgressStates
  <2>5. Gen(u)' = rows[Key(u)].gen + 1 /\ Token(u)' = t
    BY <1>2, LeaseTaken DEF Gen, Token
  <2>6. VerifyAwaited(Key(u), Gen(u), Token(u))'
    BY <2>2, <2>3, <2>4, <2>5 DEF VerifyAwaited, InState, Present, HoldsLease
  <2>. QED
    BY <1>2, <2>3, <2>6
       DEF Tends, Tended, Goes, At, Working, Reading, Verifies, Verified, Settles,
           NothingElse, faults
<1>. QED
  BY <1>1, <1>2, ThrowTends DEF AcquireVerify, Methods

(* A request at work goes on without a call of the coordinator.            *)
LEMMA InnerTends ==
  ASSUME OrchestratorTypeOK, NEW u \in Requests, NEW label \in Labels,
         Goes(u, label), SameLease(u), UNCHANGED <<rows, inflight>>,
         Tended(u), Working(u),
         \/ req[u].pc \in Verifies /\ label \in Verifies
         \/ req[u].pc \in Verified /\ label \in Verified
         \/ /\ req[u].pc \in Settles \ {"markSettleUncertain"} /\ label \in Settles
            /\ label = "completeFulfillment" => req'[u].receipt \in ValidReceipts
  PROVE  Tends(u)
<1>1. /\ Key(u)' = Key(u) /\ Gen(u)' = Gen(u) /\ Token(u)' = Token(u)
      /\ req'[u].pc = label
  BY DEF Goes, Key, SameLease, Gen, Token
<1>2. Working(u)'
  BY <1>1 DEF Working, Reading, Verifies, Verified, Settles
<1>3. CASE req[u].pc \in Verifies /\ label \in Verifies
  <2>1. VerifyAwaited(Key(u), Gen(u), Token(u))'
    BY <1>1, <1>3 DEF Tended, VerifyAwaited, InState, Present, HoldsLease
  <2>. QED
    BY <1>1, <1>2, <1>3, <2>1 DEF Tends, Tended, At, Verifies, Verified, Settles
<1>4. CASE req[u].pc \in Verified /\ label \in Verified
  <2>1. InState(Key(u), {"verified"})' /\ HoldsLease(Key(u), "verify", Gen(u), Token(u))'
    BY <1>1, <1>4 DEF Tended, InState, Present, HoldsLease
  <2>. QED
    BY <1>1, <1>2, <1>4, <2>1 DEF Tends, Tended, At, Verifies, Verified, Settles
<1>5. CASE /\ req[u].pc \in Settles \ {"markSettleUncertain"} /\ label \in Settles
           /\ label = "completeFulfillment" => req'[u].receipt \in ValidReceipts
  <2>1. SettleAwaited(Key(u), Gen(u), Token(u))' /\ rows'[Key(u)'].body # NULL
    BY <1>1, <1>5 DEF Tended, At, SettleAwaited, InState, Present, HoldsLease
  <2>. QED
    BY <1>1, <1>2, <1>5, <2>1 DEF Tends, Tended, At, Verifies, Verified, Settles
<1>. QED
  BY <1>3, <1>4, <1>5

LEMMA VerifyPaymentTends ==
  ASSUME OrchestratorTypeOK, NEW u \in Requests, Tended(u), VerifyPayment(u)
  PROVE  Tends(u)
<1>1. PICK label \in {"completeVerify", "failVerifyDefinitive", "markVerifyUncertain"} :
        GoTo(u, label)
  BY DEF VerifyPayment
<1>2. label \in Labels /\ label \in Verifies
  BY DEF Labels, Methods, Verifies
<1>3. Goes(u, label) /\ SameLease(u)
  BY <1>1, <1>2, GoToDoes, LeaseKept
<1>4. /\ Working(u) /\ req[u].pc \in Verifies
      /\ UNCHANGED <<rows, inflight>>
  BY DEF VerifyPayment, At, Working, Reading, Verifies, vars, faults
<1>. QED
  BY <1>2, <1>3, <1>4, InnerTends

LEMMA CompleteVerificationTends ==
  ASSUME OrchestratorTypeOK, CoordinatorInv,
         NEW u \in Requests, Tended(u), CompleteVerification(u)
  PROVE  Tends(u)
<1>1. VerifyAwaited(Key(u), Gen(u), Token(u)) /\ Key(u) \in RecordKeys
  BY KeyInTable DEF CompleteVerification, Tended, At, Verifies
<1>2. CanCompleteVerify(Key(u), Gen(u), Token(u)) /\ Present(Key(u))
  BY <1>1 DEF VerifyAwaited, CanCompleteVerify, InState
<1>3. CASE /\ CompleteVerify(Key(u), Gen(u), Token(u))
           /\ GoTo(u, "buildResponse") /\ NothingElse
  <2>1. Effect(u, "completeVerify")
    BY <1>3 DEF Effect
  <2>2. rows'[Key(u)] # NoRow
    BY <2>1, EffectMoves DEF Calls, Methods, Reading
  <2>3. Goes(u, "buildResponse") /\ SameLease(u)
    BY <1>3, GoToDoes, LeaseKept DEF Labels
  <2>4. Key(u)' = Key(u) /\ Gen(u)' = Gen(u) /\ Token(u)' = Token(u)
    BY <2>3 DEF Goes, Key, SameLease, Gen, Token
  <2>5. /\ rows'[Key(u)].state = "verified" /\ rows'[Key(u)].kind = rows[Key(u)].kind
        /\ rows'[Key(u)].token = rows[Key(u)].token /\ rows'[Key(u)].gen = rows[Key(u)].gen
    BY <1>1, <1>2, <1>3, SetStateDoes DEF CompleteVerify, States, InProgressStates
  <2>6. InState(Key(u), {"verified"})' /\ HoldsLease(Key(u), "verify", Gen(u), Token(u))'
    BY <1>1, <2>2, <2>4, <2>5 DEF VerifyAwaited, InState, Present, HoldsLease
  <2>. QED
    BY <1>3, <2>3, <2>6
       DEF Tends, Tended, Goes, At, Working, Reading, Verifies, Verified, Settles,
           NothingElse, faults
<1>. QED
  BY <1>2, <1>3, ThrowTends DEF CompleteVerification, Methods

LEMMA BuildResponseTends ==
  ASSUME OrchestratorTypeOK, NEW u \in Requests, Tended(u), BuildResponse(u)
  PROVE  Tends(u)
<1>1. /\ Working(u) /\ req[u].pc \in Verified
      /\ UNCHANGED <<rows, inflight>>
  BY DEF BuildResponse, At, Working, Reading, Verified, vars, NothingElse, faults
<1>2. "stageResponse" \in Labels /\ "failPostVerifyDefinitive" \in Labels
  BY DEF Labels, Methods
<1>3. CASE BuildFails(u)
  <2>1. Goes(u, "failPostVerifyDefinitive") /\ SameLease(u)
    BY <1>2, <1>3, GoToDoes, LeaseKept DEF BuildFails
  <2>. QED
    BY <1>1, <1>2, <2>1, InnerTends DEF Verified
<1>4. ASSUME NEW b \in StageableBodies,
             req' = [req EXCEPT ![u] = [@ EXCEPT !.pc = "stageResponse", !.body = b]]
      PROVE  Tends(u)
  <2>1. b \in Bodies
    BY CoordinatorAssumption
  <2>2. Goes(u, "stageResponse") /\ SameLease(u)
    BY <1>4, <2>1, BodyDoes, LeaseKept
  <2>. QED
    BY <1>1, <1>2, <2>2, InnerTends DEF Verified
<1>. QED
  BY <1>3, <1>4 DEF BuildResponse

LEMMA StageTends ==
  ASSUME OrchestratorTypeOK, CoordinatorInv,
         NEW u \in Requests, Tended(u), Stage(u)
  PROVE  Tends(u)
<1>1. /\ Working(u) /\ req[u].pc \in Verified /\ Key(u) \in RecordKeys
      /\ "acquireSettleLease" \in Labels /\ "failPostVerifyDefinitive" \in Labels
  BY KeyInTable DEF Stage, At, Working, Reading, Verified, Labels, Methods
<1>2. CASE StageResponse(Key(u), req[u].body) /\ GoTo(u, "acquireSettleLease") /\ NothingElse
  <2>1. Effect(u, "stageResponse")
    BY <1>2 DEF Effect
  <2>2. rows[Key(u)] \in Row /\ rows'[Key(u)] # NoRow
    BY <2>1, EffectMoves DEF Calls, Methods, Reading
  <2>3. Goes(u, "acquireSettleLease") /\ Key(u)' = Key(u)
    BY <1>1, <1>2, GoToDoes DEF Goes, Key
  <2>4. req[u].body \in Bodies /\ req[u].body # NULL
    BY <1>2, CoordinatorAssumption DEF StageResponse, CanStageResponse
  <2>5. rows'[Key(u)] = [rows[Key(u)] EXCEPT !.state = "computing", !.body = req[u].body]
    BY <1>1, <1>2 DEF StageResponse, Put, CoordinatorInv, TypeOK
  <2>6. rows'[Key(u)].state = "computing" /\ rows'[Key(u)].body # NULL
    BY <2>2, <2>4, <2>5 DEF Row
  <2>7. CanAcquireSettleLease(Key(u))'
    BY <2>2, <2>3, <2>6 DEF CanAcquireSettleLease, InState, Present
  <2>. QED
    BY <1>2, <2>3, <2>7
       DEF Tends, Tended, Goes, At, Working, Reading, Verifies, Verified, Settles,
           NothingElse, faults
<1>3. CASE GoTo(u, "failPostVerifyDefinitive") /\ UNCHANGED vars /\ NothingElse
  <2>1. Goes(u, "failPostVerifyDefinitive") /\ SameLease(u)
    BY <1>1, <1>3, GoToDoes, LeaseKept
  <2>. QED
    BY <1>1, <1>3, <2>1, InnerTends DEF Verified, vars, NothingElse, faults
<1>. QED
  BY <1>2, <1>3, ThrowTends DEF Stage, Methods

LEMMA AcquireSettleTends ==
  ASSUME OrchestratorTypeOK, CoordinatorInv,
         NEW u \in Requests, Tended(u), AcquireSettle(u)
  PROVE  Tends(u)
<1>1. CanAcquireSettleLease(Key(u)) /\ Key(u) \in RecordKeys
  BY KeyInTable DEF AcquireSettle, Tended
<1>2. ASSUME NEW t \in Tokens, AcquireSettleLease(Key(u), t),
             TakeLease(u, t, "settlePayment"), NothingElse
      PROVE  Tends(u)
  <2>1. Effect(u, "acquireSettleLease")
    BY <1>2 DEF Effect
  <2>2. rows[Key(u)] \in Row /\ Present(Key(u)) /\ rows'[Key(u)] # NoRow
    BY <2>1, EffectMoves DEF Calls, Methods, Reading
  <2>3. Goes(u, "settlePayment") /\ Key(u)' = Key(u)
    BY <1>2, <2>2, TakeLeaseDoes DEF Labels, Goes, Key
  <2>4. /\ rows'[Key(u)].state = "settling" /\ rows'[Key(u)].kind = "settle"
        /\ rows'[Key(u)].token = t /\ rows'[Key(u)].gen = rows[Key(u)].gen + 1
        /\ rows'[Key(u)].body = rows[Key(u)].body
    BY <1>1, <1>2, <2>2, GrantDoes
       DEF AcquireSettleLease, Kinds, States, InProgressStates
  <2>5. Gen(u)' = rows[Key(u)].gen + 1 /\ Token(u)' = t
    BY <1>2, LeaseTaken DEF Gen, Token
  <2>6. SettleAwaited(Key(u), Gen(u), Token(u))' /\ rows'[Key(u)'].body # NULL
    BY <1>1, <2>2, <2>3, <2>4, <2>5
       DEF SettleAwaited, InState, Present, HoldsLease, CanAcquireSettleLease
  <2>. QED
    BY <1>2, <2>3, <2>6
       DEF Tends, Tended, Goes, At, Working, Reading, Verifies, Verified, Settles,
           NothingElse, faults
<1>. QED
  BY <1>1, <1>2, ThrowTends DEF AcquireSettle, Methods

LEMMA SettlePaymentTends ==
  ASSUME OrchestratorTypeOK, NEW u \in Requests, Tended(u), SettlePayment(u)
  PROVE  Tends(u)
<1>1. /\ Working(u) /\ req[u].pc \in Settles \ {"markSettleUncertain"}
      /\ UNCHANGED <<rows, inflight>>
  BY DEF SettlePayment, At, Working, Reading, Settles, vars, faults
<1>2. ASSUME NEW label \in {"failSettleDefinitive", "markSettleUncertain"}, GoTo(u, label)
      PROVE  Tends(u)
  <2>1. label \in Labels /\ label \in Settles /\ label # "completeFulfillment"
    BY DEF Labels, Methods, Settles
  <2>2. Goes(u, label) /\ SameLease(u)
    BY <1>2, <2>1, GoToDoes, LeaseKept
  <2>. QED
    BY <1>1, <2>1, <2>2, InnerTends
<1>3. ASSUME NEW c \in ValidReceipts,
             req' = [req EXCEPT ![u] = [@ EXCEPT !.pc = "completeFulfillment", !.receipt = c]]
      PROVE  Tends(u)
  <2>1. c \in Receipts /\ "completeFulfillment" \in Labels /\ "completeFulfillment" \in Settles
    BY CoordinatorAssumption DEF Labels, Methods, Settles
  <2>2. Goes(u, "completeFulfillment") /\ SameLease(u) /\ req'[u].receipt = c
    BY <1>3, <2>1, ReceiptDoes, LeaseKept
  <2>. QED
    BY <1>1, <2>1, <2>2, InnerTends
<1>. QED
  BY <1>2, <1>3 DEF SettlePayment, SettleRefused, SettleThrows, SettleSucceeds

LEMMA AnsweredTends ==
  ASSUME NEW u \in Requests, Goes(u, "answered"), NothingElse,
         ~ InState(Key(u), InProgressStates)'
  PROVE  Tends(u)
BY DEF Tends, Tended, Goes, At, Verifies, Verified, Settles, NothingElse, faults

LEMMA CompleteTends ==
  ASSUME OrchestratorTypeOK, CoordinatorInv,
         NEW u \in Requests, Tended(u), Complete(u)
  PROVE  Tends(u)
<1>1. /\ SettleAwaited(Key(u), Gen(u), Token(u)) /\ rows[Key(u)].body # NULL
      /\ req[u].receipt \in ValidReceipts /\ Key(u) \in RecordKeys
  BY KeyInTable DEF Complete, Tended, At, Settles, Verifies, Verified
<1>2. CanCompleteFulfillment(Key(u), Gen(u), Token(u), req[u].receipt) /\ Present(Key(u))
  BY <1>1 DEF SettleAwaited, CanCompleteFulfillment, InState
<1>3. CASE /\ CompleteFulfillment(Key(u), Gen(u), Token(u), req[u].receipt)
           /\ AnswerPaid(u, req[u].body, req[u].receipt) /\ NothingElse
  <2>1. rows[Key(u)] \in Row
    BY <1>1, <1>2 DEF CoordinatorInv, TypeOK, Present
  <2>2. rows'[Key(u)] = [rows[Key(u)] EXCEPT !.state = "fulfilled", !.receipt = req[u].receipt,
                                             !.kind = NULL, !.token = NULL]
    BY <1>1, <1>3 DEF CompleteFulfillment, Put, CoordinatorInv, TypeOK
  <2>3. rows'[Key(u)].state = "fulfilled"
    BY <2>1, <2>2 DEF Row
  <2>4. req[u].body \in Bodies \cup {NULL} /\ req[u].receipt \in Receipts \cup {NULL}
    BY LocalState DEF RequestState
  <2>5. Goes(u, "answered") /\ Key(u)' = Key(u)
    BY <1>3, <2>4, AnswerPaidDoes DEF Goes, Key
  <2>6. ~ InState(Key(u), InProgressStates)'
    BY <2>3, <2>5 DEF InState, InProgressStates
  <2>. QED
    BY <1>3, <2>5, <2>6, AnsweredTends
<1>4. CASE /\ Throws(u, "completeFulfillment")
           /\ req' = [req EXCEPT ![u] = [@ EXCEPT !.pc = "markSettleUncertain",
                                                 !.lost = "completeFulfillment"]]
  <2>1. Goes(u, "markSettleUncertain") /\ SameLease(u)
    BY <1>4, GiveUpDoes, EndKeepsLease
  <2>2. Key(u)' = Key(u) /\ Gen(u)' = Gen(u) /\ Token(u)' = Token(u)
    BY <2>1 DEF Goes, Key, SameLease, Gen, Token
  <2>3. SettleAwaited(Key(u), Gen(u), Token(u))' /\ rows'[Key(u)'].body # NULL
    BY <1>1, <1>4, <2>2 DEF Throws, vars, SettleAwaited, InState, Present, HoldsLease
  <2>4. ~ Faultless'
    BY <1>4, NoThrow
  <2>. QED
    BY <2>1, <2>3, <2>4 DEF Tends, Tended, Goes, At, Verifies, Verified, Settles
<1>. QED
  BY <1>2, <1>3, <1>4 DEF Complete

(* The report of a request is accepted, unless it is one of an uncertain   *)
(* settlement and the row has been completed.                              *)
ReportExpected(u, m) ==
  ReportMatches(u, m) \/ (m = "markSettleUncertain" /\ InState(Key(u), {"fulfilled"}))

LEMMA TendedReport ==
  ASSUME NEW u \in Requests, NEW m \in Reports, At(u, m), Tended(u)
  PROVE  ReportExpected(u, m)
<1>1. m \in {"markVerifyUncertain", "failVerifyDefinitive"} =>
        VerifyAwaited(Key(u), Gen(u), Token(u))
  BY DEF At, Tended, Verifies
<1>2. m = "failPostVerifyDefinitive" => AwaitsSettlement(Key(u), Gen(u), Token(u))
  BY DEF At, Tended, Verified, AwaitsSettlement, InState
<1>3. m \in {"markSettleUncertain", "failSettleDefinitive"} =>
        \/ SettleAwaited(Key(u), Gen(u), Token(u))
        \/ m = "markSettleUncertain" /\ InState(Key(u), {"fulfilled"})
  BY DEF At, Tended, Settles
<1>. QED
  BY <1>1, <1>2, <1>3 DEF Reports, ReportMatches, ReportExpected

LEMMA ReportTends ==
  ASSUME OrchestratorTypeOK, CoordinatorInv,
         NEW u \in Requests, Tended(u), NEW m \in Reports, Report(u, m)
  PROVE  Tends(u)
<1>1. Key(u) \in RecordKeys /\ req[u].pc = m
  BY KeyInTable DEF Report, At
<1>0. AnswerAfter(u, m) \in Statuses /\ m \in Methods
  BY DEF AnswerAfter, Statuses, Reports, Methods
<1>2. CASE ~ ReportMatches(u, m) /\ UNCHANGED vars /\ Answer(u, AnswerAfter(u, m))
           /\ NothingElse
  <2>1. ReportExpected(u, m)
    BY <1>1, TendedReport DEF At
  <2>2. rows[Key(u)].state = "fulfilled"
    BY <1>2, <2>1 DEF ReportExpected, InState
  <2>3. Goes(u, "answered") /\ Key(u)' = Key(u)
    BY <1>0, <1>2, AnswerDoes DEF Goes, Key
  <2>4. ~ InState(Key(u), InProgressStates)'
    BY <1>2, <2>2, <2>3 DEF vars, InState, InProgressStates
  <2>. QED
    BY <1>2, <2>3, <2>4, AnsweredTends
<1>3. CASE Effect(u, m) /\ Answer(u, AnswerAfter(u, m)) /\ NothingElse
  <2>1. Present(Key(u)) /\ rows[Key(u)] \in Row
    BY <1>3, EffectMoves DEF Reports, Calls, Methods, Reading
  <2>2. \/ SetState(Key(u), "uncertain")
        \/ SetFailed(Key(u))
    BY <1>3 DEF Reports, Effect, MarkVerifyUncertain, MarkSettleUncertain,
                FailVerifyDefinitive, FailPostVerifyDefinitive, FailSettleDefinitive
  <2>3. rows'[Key(u)].state \in {"uncertain", "failed-definitive"}
    <3>1. CASE SetState(Key(u), "uncertain")
      BY <1>1, <2>1, <3>1, SetStateDoes DEF States
    <3>2. CASE SetFailed(Key(u))
      <4>1. rows'[Key(u)] = [rows[Key(u)] EXCEPT !.state = "failed-definitive",
                                                 !.kind = NULL, !.token = NULL]
        BY <1>1, <3>2 DEF SetFailed, Put, CoordinatorInv, TypeOK
      <4>. QED
        BY <2>1, <4>1 DEF Row
    <3>. QED
      BY <2>2, <3>1, <3>2
  <2>4. AnswerAfter(u, m) \in Statuses
    BY DEF AnswerAfter, Statuses
  <2>5. Goes(u, "answered") /\ Key(u)' = Key(u)
    BY <1>3, <2>4, AnswerDoes DEF Goes, Key
  <2>6. ~ InState(Key(u), InProgressStates)'
    BY <2>3, <2>5 DEF InState, InProgressStates
  <2>. QED
    BY <1>3, <2>5, <2>6, AnsweredTends
<1>. QED
  BY <1>0, <1>2, <1>3, ThrowTends DEF Report

LEMMA StepTends ==
  ASSUME OrchestratorTypeOK, CoordinatorInv, SafetyInv,
         NEW u \in Requests, Tended(u), Step(u)
  PROVE  Tends(u)
BY PrepareTends, GetReplayTends, AcquireVerifyTends, VerifyPaymentTends,
   CompleteVerificationTends, BuildResponseTends, StageTends, AcquireSettleTends,
   SettlePaymentTends, CompleteTends, ReportTends DEF Step

(* Failures and deaths are counted and never forgotten.                    *)
LEMMA FaultsStay ==
  ASSUME OrchestratorTypeOK, [OrchestratorNext]_allVars, Faultless'
  PROVE  Faultless /\ \A u \in Requests : ~ Crash(u)
<1>1. failures \in Nat /\ crashes \in Nat
  BY DEF OrchestratorTypeOK
<1>2. ASSUME NEW u \in Requests, Step(u)
      PROVE  crashes' = crashes /\ failures' \in {failures, failures + 1}
  BY <1>2 DEF Step, Prepare, GetReplay, AcquireVerify, VerifyPayment, CompleteVerification,
              BuildResponse, Stage, AcquireSettle, SettlePayment, Complete, Report,
              ThrowsToAnswer, Throws, NothingElse, faults
<1>3. ASSUME NEW u \in Requests, Crash(u)
      PROVE  crashes' = crashes + 1 /\ failures' = failures
  BY <1>3 DEF Crash
<1>4. (\E u \in Requests : SettlesLate(u) \/ \E m \in Methods : Late(u, m))
        \/ TimePasses \/ CleanUp \/ UNCHANGED allVars
      => UNCHANGED <<failures, crashes>>
  BY DEF SettlesLate, Late, TimePasses, CleanUp, allVars, faults
<1>. QED
  BY <1>1, <1>2, <1>3, <1>4 DEF OrchestratorNext, Faultless

(* A request that is not at work expects nothing.                          *)
LEMMA IdleTended ==
  ASSUME NEW w \in Requests, ~ Working(w)
  PROVE  Tended(w)
BY DEF Working, Reading, Tended, At, Verifies, Verified, Settles

LEMMA TendedRow ==
  ASSUME NEW w \in Requests, Tended(w), req'[w] = req[w], rows'[Key(w)] = rows[Key(w)]
  PROVE  Tended(w)'
<1>1. Key(w)' = Key(w) /\ Gen(w)' = Gen(w) /\ Token(w)' = Token(w)
  BY DEF Key, Gen, Token
<1>. QED
  BY <1>1 DEF Tended, At, CanAcquireVerifyLease, CanAcquireSettleLease, VerifyAwaited,
              SettleAwaited, InState, Present, HoldsLease

LEMMA StepKeepsCalm ==
  ASSUME OrchestratorTypeOK, CoordinatorInv, SafetyInv, CalmInv,
         [OrchestratorNext]_allVars, NEW u \in Requests, Step(u)
  PROVE  CalmInv'
<1>0. \A w \in Requests : Tended(w)
  BY DEF CalmInv
<1>1. Tends(u)
  BY <1>0, StepTends
<1>2. Keeps(u)
  BY StepSound DEF Sound
<1>3. ASSUME NEW w \in Requests, w # u
      PROVE  /\ req'[w] = req[w] /\ Key(w)' = Key(w) /\ (Working(w)' <=> Working(w))
             /\ Key(w) \in RecordKeys
  BY <1>2, <1>3, KeyInTable DEF Keeps, Frame, Key, Working
<1>4. Key(u)' = Key(u) /\ Key(u) \in RecordKeys
  BY <1>2, KeyInTable DEF Keeps, Frame, Key
<1>5. ASSUME NEW w \in Requests, w # u, Working(w)
      PROVE  rows'[Key(w)] = rows[Key(w)]
  <2>1. Engaged(w) /\ Present(Key(w)) /\ (Engaged(u) => Key(u) # Key(w))
    BY <1>5 DEF Engaged, SafetyInv, Fits, Alone
  <2>. QED
    BY <1>2, <1>3, <1>5, <2>1 DEF Keeps, Frame, Untouched
<1>6. ASSUME NEW w \in Requests
      PROVE  Tended(w)'
  <2>1. CASE w = u
    BY <1>1, <2>1 DEF Tends
  <2>2. CASE w # u /\ Working(w)
    BY <1>0, <1>3, <1>5, <2>2, TendedRow
  <2>3. CASE w # u /\ ~ Working(w)
    <3>1. req'[w].pc \in Reading \cup {"answered", "crashed"}
      BY <1>3, <2>3 DEF Working
    <3>. QED
      BY <3>1 DEF Reading, Tended, At, Verifies, Verified, Settles
  <2>. QED
    BY <2>1, <2>2, <2>3
<1>7. ASSUME Faultless', NEW k \in RecordKeys, InState(k, InProgressStates)'
      PROVE  \E v \in Requests : Key(v)' = k /\ Working(v)'
  <2>0. NobodyLost
    BY <1>7, FaultsStay DEF CalmInv
  <2>1. ASSUME Untouched(k), k = Key(u) => ~ Working(u)
        PROVE  \E v \in Requests : Key(v)' = k /\ Working(v)'
    <3>1. InState(k, InProgressStates)
      BY <1>7, <2>1 DEF Untouched, InState, Present
    <3>2. PICK v \in Requests : Key(v) = k /\ Working(v)
      BY <2>0, <3>1 DEF NobodyLost
    <3>3. v # u
      BY <2>1, <3>2
    <3>. QED
      BY <1>3, <3>2, <3>3
  <2>2. CASE k # Key(u)
    BY <1>2, <2>1, <2>2 DEF Keeps, Frame
  <2>3. CASE k = Key(u) /\ Working(u)'
    BY <1>4, <2>3
  <2>4. CASE k = Key(u) /\ ~ Working(u)'
    BY <1>1, <1>4, <1>7, <2>1, <2>4 DEF Tends
  <2>. QED
    BY <2>2, <2>3, <2>4
<1>8. Faultless' => NobodyLost'
  BY <1>7 DEF NobodyLost
<1>9. Faultless' => inflight' = {}
  BY <1>1, FaultsStay DEF CalmInv, Tends
<1>. QED
  BY <1>6, <1>8, <1>9 DEF CalmInv

(* A step of which no request with a row takes notice.                     *)
LEMMA AsideKeepsCalm ==
  ASSUME OrchestratorTypeOK, SafetyInv, CalmInv, [OrchestratorNext]_allVars, req' = req,
         Faultless' => inflight' \subseteq inflight,
         \A k \in RecordKeys : InState(k, InProgressStates)' => InState(k, InProgressStates),
         \A w \in Requests : Working(w) => rows'[Key(w)] = rows[Key(w)]
  PROVE  CalmInv'
<1>1. \A w \in Requests : Key(w)' = Key(w) /\ (Working(w)' <=> Working(w))
  BY DEF Key, Working
<1>2. Faultless' => inflight' = {} /\ NobodyLost'
  BY <1>1, FaultsStay DEF CalmInv, NobodyLost
<1>3. ASSUME NEW w \in Requests PROVE Tended(w)'
  <2>1. CASE Working(w)
    BY <2>1, TendedRow DEF CalmInv
  <2>2. CASE ~ Working(w)
    <3>1. req'[w].pc \in Reading \cup {"answered", "crashed"}
      BY <2>2 DEF Working
    <3>. QED
      BY <3>1 DEF Reading, Tended, At, Verifies, Verified, Settles
  <2>. QED
    BY <2>1, <2>2
<1>. QED
  BY <1>2, <1>3 DEF CalmInv

(* A call that arrives late finds its caller done, or giving up after the  *)
(* completion that it brings.                                              *)
LEMMA LateKeepsCalm ==
  ASSUME OrchestratorTypeOK, CoordinatorInv, SafetyInv, CalmInv, [OrchestratorNext]_allVars,
         NEW u \in Requests, NEW m \in Methods, Late(u, m)
  PROVE  CalmInv'
<1>1. Keeps(u) /\ Local(u) /\ <<u, m>> \in inflight /\ req' = req
  BY LateSound DEF Sound, SafetyInv, Late
<1>2. ASSUME NEW w \in Requests, Working(w), w # u
      PROVE  Tended(w)'
  <2>1. Engaged(w) /\ Present(Key(w)) /\ (Engaged(u) => Key(u) # Key(w))
    BY <1>2 DEF Engaged, SafetyInv, Fits, Alone
  <2>2. rows'[Key(w)] = rows[Key(w)]
    BY <1>1, <1>2, <2>1, KeyInTable DEF Keeps, Frame, Untouched
  <2>. QED
    BY <1>1, <2>2, TendedRow DEF CalmInv
<1>3. ASSUME Working(u)
      PROVE  Tended(u)'
  <2>1. At(u, "markSettleUncertain") /\ m = "completeFulfillment"
    BY <1>1, <1>3 DEF Local, Done, At, Working
  <2>2. CompleteFulfillment(Key(u), Gen(u), Token(u), req[u].receipt) /\ Key(u) \in RecordKeys
    BY <2>1, KeyInTable DEF Late, Effect
  <2>3. Present(Key(u)) /\ rows[Key(u)] \in Row
    BY <2>2 DEF CompleteFulfillment, CanCompleteFulfillment, InState, Present,
                CoordinatorInv, TypeOK
  <2>4. rows'[Key(u)] = [rows[Key(u)] EXCEPT !.state = "fulfilled", !.receipt = req[u].receipt,
                                             !.kind = NULL, !.token = NULL]
    BY <2>2 DEF CompleteFulfillment, Put, CoordinatorInv, TypeOK
  <2>5. rows'[Key(u)].state = "fulfilled"
    BY <2>3, <2>4 DEF Row
  <2>6. rows'[Key(u)] # NoRow
    BY <2>1, EffectMoves DEF Late, Calls, Methods, Reading
  <2>7. InState(Key(u), {"fulfilled"})'
    BY <1>1, <2>5, <2>6 DEF Key, InState, Present
  <2>. QED
    BY <1>1, <2>1, <2>7 DEF Tended, At, Verifies, Verified, Settles
<1>4. ASSUME NEW w \in Requests, ~ Working(w)
      PROVE  Tended(w)'
  <2>1. req'[w].pc \in Reading \cup {"answered", "crashed"}
    BY <1>1, <1>4 DEF Working
  <2>. QED
    BY <2>1 DEF Reading, Tended, At, Verifies, Verified, Settles
<1>5. ~ Faultless'
  BY <1>1, FaultsStay DEF CalmInv
<1>. QED
  BY <1>2, <1>3, <1>4, <1>5 DEF CalmInv

(* A request that dies expects nothing any more.                           *)
LEMMA CrashKeepsCalm ==
  ASSUME OrchestratorTypeOK, CoordinatorInv, SafetyInv, CalmInv, [OrchestratorNext]_allVars,
         NEW u \in Requests, Crash(u)
  PROVE  CalmInv'
<1>1. Goes(u, "crashed") /\ UNCHANGED vars
  BY GoToDoes DEF Crash, Labels
<1>2. ASSUME NEW w \in Requests PROVE Tended(w)'
  <2>1. CASE w = u
    BY <1>1, <2>1 DEF Goes, Tended, At, Verifies, Verified, Settles
  <2>2. CASE w # u
    BY <1>1, <2>2, TendedRow DEF Goes, vars, CalmInv
  <2>. QED
    BY <2>1, <2>2
<1>3. ~ Faultless'
  BY FaultsStay
<1>. QED
  BY <1>2, <1>3 DEF CalmInv

LEMMA CalmKept ==
  ASSUME OrchestratorTypeOK, CoordinatorInv, SafetyInv, SafetyInv', ~ OutliveTtl, CalmInv,
         [OrchestratorNext]_allVars
  PROVE  CalmInv'
<1>5. CASE TimePasses
  <2>1. \A w \in Requests : ~ Working(w)
    BY <1>5 DEF TimePasses, Quiet, Working, Done, At, Reading
  <2>2. ASSUME NEW k \in RecordKeys, InState(k, InProgressStates)'
        PROVE  InState(k, InProgressStates)
    <3>1. rows'[k] = IF Present(k) THEN [rows[k] EXCEPT !.ttl = OneLess(rows[k].ttl)] ELSE NoRow
      BY <1>5 DEF TimePasses, Tick
    <3>2. Present(k) => rows[k] \in Row
      BY DEF CoordinatorInv, TypeOK, Present
    <3>3. Present(k) => rows'[k].state = rows[k].state
      BY <3>1, <3>2 DEF Row
    <3>. QED
      BY <2>2, <3>1, <3>3 DEF InState, Present
  <2>3. req' = req /\ inflight' \subseteq inflight
    BY <1>5 DEF TimePasses
  <2>. QED
    BY <2>1, <2>2, <2>3, AsideKeepsCalm
<1>6. CASE CleanUp
  <2>1. \A k \in RecordKeys : rows'[k] \in {rows[k], NoRow}
    BY <1>6 DEF CleanUp, AlarmFires, DeleteExpired
  <2>2. req' = req /\ inflight' = inflight
    BY <1>6 DEF CleanUp, faults
  <2>3. ASSUME NEW w \in Requests, Working(w)
        PROVE  rows'[Key(w)] = rows[Key(w)]
    <3>1. Key(w)' = Key(w) /\ Engaged(w)' /\ Key(w) \in RecordKeys
      BY <2>2, <2>3, KeyInTable DEF Key, Engaged, Working
    <3>2. rows'[Key(w)] # NoRow
      BY <3>1 DEF SafetyInv, Fits, Present
    <3>. QED
      BY <2>1, <3>1, <3>2
  <2>. QED
    BY <2>1, <2>2, <2>3, AsideKeepsCalm DEF InState, Present
<1>7. CASE (\E u \in Requests : SettlesLate(u)) \/ UNCHANGED allVars
  <2>1. UNCHANGED <<rows, req, inflight>>
    BY <1>7 DEF SettlesLate, allVars, vars, faults
  <2>. QED
    BY <2>1, AsideKeepsCalm DEF InState, Present
<1>. QED
  BY <1>5, <1>6, <1>7, StepKeepsCalm, LateKeepsCalm, CrashKeepsCalm DEF OrchestratorNext

LEMMA CalmInvariance ==
  ASSUME ~ OutliveTtl
  PROVE  OrchestratorSpec => [](OrchestratorInv /\ CalmInv)
<1>1. OrchestratorInit => CalmInv
  <2>. SUFFICES ASSUME OrchestratorInit PROVE CalmInv
    OBVIOUS
  <2>1. ASSUME NEW w \in Requests PROVE ~ Working(w)
    BY <2>1 DEF OrchestratorInit, NewRequest, Working, Reading
  <2>. QED
    BY <2>1, IdleTended
       DEF OrchestratorInit, Init, CalmInv, NobodyLost, InState, Present
<1>2. OrchestratorInv /\ OrchestratorInv' /\ CalmInv /\ [OrchestratorNext]_allVars => CalmInv'
  BY CalmKept DEF OrchestratorInv
<1>. QED
  BY <1>1, <1>2, OrchestratorInvariance, PTL DEF OrchestratorSpec

(* The three ways to be told that the payment is being processed.          *)
LEMMA ToldToWait ==
  ASSUME OrchestratorTypeOK, CoordinatorInv, NEW w \in Requests, Step(w),
         req'[w].status # req[w].status, req'[w].status = 202
  PROVE  \/ At(w, "prepareAttempt") /\ PrepareReply(req[w].input) = "wait"
         \/ At(w, "acquireVerifyLease") /\ ~ CanAcquireVerifyLease(Key(w))
         \/ At(w, "acquireSettleLease") /\ ~ CanAcquireSettleLease(Key(w))
<1>1. ASSUME NEW label \in Labels, GoTo(w, label)
      PROVE  FALSE
  BY <1>1, GoToDoes
<1>2. ASSUME NEW status \in Statuses \ {202}, Answer(w, status)
      PROVE  FALSE
  BY <1>2, AnswerDoes
<1>3. ASSUME NEW m \in Methods, NEW status \in {500, 503}, ThrowsToAnswer(w, m, status)
      PROVE  FALSE
  BY <1>3, ThrowsToAnswerDoes DEF Statuses
<1>4. ASSUME NEW body \in Bodies \cup {NULL}, NEW receipt \in Receipts \cup {NULL},
             AnswerPaid(w, body, receipt)
      PROVE  FALSE
  BY <1>4, AnswerPaidDoes
<1>. USE DEF Labels, Methods, Statuses
<1>5. CASE Prepare(w)
  <2>. DEFINE reply == PrepareReply(req[w].input)
  <2>1. reply \in {"created", "conflict", "replay", "failed", "uncertain", "wait"}
    BY PrepareReplies
  <2>. HIDE DEF reply
  <2>2. reply \in {"conflict", "failed", "uncertain"} => AnswerOf(reply) \in Statuses \ {202}
    BY DEF AnswerOf
  <2>3. \/ GoTo(w, "acquireVerifyLease") \/ GoTo(w, "getReplay")
        \/ reply \notin {"created", "replay"} /\ Answer(w, AnswerOf(reply))
        \/ ThrowsToAnswer(w, "prepareAttempt", 503)
    BY <1>5 DEF Prepare, reply
  <2>4. At(w, "prepareAttempt")
    BY <1>5 DEF Prepare
  <2>. QED
    BY <1>1, <1>2, <1>3, <2>1, <2>2, <2>3, <2>4 DEF reply
<1>6. CASE GetReplay(w)
  <2>1. Replay(Key(w)) # NULL =>
          /\ Replay(Key(w)).body \in Bodies \cup {NULL}
          /\ Replay(Key(w)).receipt \in Receipts \cup {NULL}
    <3>1. Present(Key(w)) => rows[Key(w)] \in Row
      BY KeyInTable DEF Present, OrchestratorTypeOK, TypeOK
    <3>. QED
      BY <3>1 DEF Replay, Row
  <2>. QED
    BY <1>2, <1>3, <1>4, <1>6, <2>1 DEF GetReplay
<1>7. CASE AcquireVerify(w)
  <2>1. ASSUME NEW t \in Tokens, AcquireVerifyLease(Key(w), t), TakeLease(w, t, "verifyPayment")
        PROVE  FALSE
    BY <2>1, KeyInTable, RowOf, TakeLeaseDoes
       DEF AcquireVerifyLease, CanAcquireVerifyLease, InState
  <2>. QED
    BY <1>3, <1>7, <2>1 DEF AcquireVerify
<1>8. CASE AcquireSettle(w)
  <2>1. ASSUME NEW t \in Tokens, AcquireSettleLease(Key(w), t), TakeLease(w, t, "settlePayment")
        PROVE  FALSE
    BY <2>1, KeyInTable, RowOf, TakeLeaseDoes
       DEF AcquireSettleLease, CanAcquireSettleLease, InState
  <2>. QED
    BY <1>3, <1>8, <2>1 DEF AcquireSettle
<1>9. CASE VerifyPayment(w)
  BY <1>1, <1>9 DEF VerifyPayment
<1>10. CASE CompleteVerification(w)
  BY <1>1, <1>2, <1>3, <1>10 DEF CompleteVerification
<1>11. CASE BuildResponse(w)
  <2>1. ASSUME NEW b \in StageableBodies,
               req' = [req EXCEPT ![w] = [@ EXCEPT !.pc = "stageResponse", !.body = b]]
        PROVE  FALSE
    <3>1. b \in Bodies
      BY CoordinatorAssumption
    <3>. QED
      BY <2>1, <3>1, BodyDoes
  <2>. QED
    BY <1>1, <1>11, <2>1 DEF BuildResponse, BuildFails
<1>12. CASE Stage(w)
  BY <1>1, <1>3, <1>12 DEF Stage
<1>13. CASE SettlePayment(w)
  BY <1>13, SettlePaymentEnds
<1>14. CASE Complete(w)
  <2>1. req[w].body \in Bodies \cup {NULL} /\ req[w].receipt \in Receipts \cup {NULL}
    BY LocalState DEF RequestState
  <2>2. At(w, "completeFulfillment")
    BY <1>14 DEF Complete
  <2>. QED
    BY <1>4, <1>14, <2>1, <2>2, StaleDoes, GiveUpDoes DEF Complete
<1>15. ASSUME NEW m \in Reports, Report(w, m)
       PROVE  FALSE
  <2>1. AnswerAfter(w, m) \in Statuses \ {202}
    BY DEF AnswerAfter
  <2>2. m \in Methods
    BY DEF Reports
  <2>. QED
    BY <1>2, <1>3, <1>15, <2>1, <2>2 DEF Report
<1>. QED
  BY <1>5, <1>6, <1>7, <1>8, <1>9, <1>10, <1>11, <1>12, <1>13, <1>14, <1>15 DEF Step

(* InProgressIsProcessed: while nothing has failed, whoever is answered    *)
(* 202 is told the truth, another request is on its way with the payment.  *)
THEOREM WaitersAreToldTrue ==
  ASSUME ~ OutliveTtl
  PROVE  OrchestratorSpec => InProgressIsProcessed
<1>1. OrchestratorInv /\ CalmInv /\ [OrchestratorNext]_allVars =>
        [\A w \in Requests :
           Faultless /\ req[w].status # req'[w].status /\ req'[w].status = 202 =>
             \E v \in Requests \ {w} :
               Key(v) = Key(w) /\ ~ Done(v) /\ ~ At(v, "prepareAttempt")]_allVars
  <2>. SUFFICES ASSUME OrchestratorTypeOK, CoordinatorInv, SafetyInv, CalmInv,
                       [OrchestratorNext]_allVars, NEW w \in Requests, Faultless,
                       req[w].status # req'[w].status, req'[w].status = 202
                PROVE  \E v \in Requests \ {w} :
                         Key(v) = Key(w) /\ ~ Done(v) /\ ~ At(v, "prepareAttempt")
    BY DEF OrchestratorInv
  <2>1. NobodyLost /\ Tended(w)
    BY DEF CalmInv
  <2>2. Step(w)
    <3>1. ASSUME NEW u \in Requests, Step(u), u # w PROVE FALSE
      BY <3>1, StepSound DEF Sound, Keeps, Frame
    <3>2. ASSUME NEW u \in Requests, Crash(u) PROVE FALSE
      <4>1. req'[w].status = req[w].status
        <5>1. CASE u = w
          BY <3>2, <5>1, GoToDoes DEF Crash, Labels
        <5>2. CASE u # w
          BY <3>2, <5>2, GoToDoes DEF Crash, Labels, Goes
        <5>. QED
          BY <5>1, <5>2
      <4>. QED
        BY <4>1
    <3>3. (\E u \in Requests : SettlesLate(u) \/ \E m \in Methods : Late(u, m))
            \/ TimePasses \/ CleanUp \/ UNCHANGED allVars
          => req' = req
      BY DEF SettlesLate, Late, TimePasses, CleanUp, allVars
    <3>4. \E u \in Requests : Step(u) \/ Crash(u)
      BY <3>3 DEF OrchestratorNext
    <3>. QED
      BY <3>1, <3>2, <3>4
  <2>3. At(w, "prepareAttempt") /\ PrepareReply(req[w].input) = "wait"
    BY <2>1, <2>2, ToldToWait DEF Tended
  <2>4. InState(Key(w), InProgressStates) /\ Key(w) \in RecordKeys
    <3>1. Present(Key(w)) => rows[Key(w)].state \in States
      BY KeyInTable DEF Present, OrchestratorTypeOK, TypeOK, Row
    <3>2. Present(Key(w))
      BY <2>3 DEF PrepareReply, Key
    <3>3. ClassifyExistingPrepareRow(Key(w), req[w].input) = "wait"
      BY <2>3, <3>2 DEF PrepareReply, Key
    <3>4. rows[Key(w)].state \in InProgressStates
      BY <3>1, <3>2, <3>3 DEF ClassifyExistingPrepareRow, States
    <3>. QED
      BY <3>2, <3>4, KeyInTable DEF InState
  <2>5. PICK v \in Requests : Key(v) = Key(w) /\ Working(v)
    BY <2>1, <2>4 DEF NobodyLost
  <2>. QED
    BY <2>3, <2>5 DEF Working, Reading, At, Done
<1>. QED
  BY <1>1, CalmInvariance, PTL DEF OrchestratorSpec, InProgressIsProcessed

-----------------------------------------------------------------------------
(* The paid route keeps the promise of PayOnce.  The receipt of a          *)
(* settlement is known to the holder of the settle lease before it is in   *)
(* the row, so the deals are spread over rows and requests; DealInv says   *)
(* how they hang together.  It rests on the tokens, which are never        *)
(* granted twice (TokensApart).                                            *)

(* Request w holds the settle lease of the row it works for.               *)
Holds(w) ==
  Present(Key(w)) /\ rows[Key(w)].kind = "settle" /\ rows[Key(w)].token = Token(w)

TokensApart ==
  /\ \A w \in Requests : Token(w) \in issued \cup {NULL}
  /\ \A w \in Requests : req[w].pc \in Reading => Token(w) = NULL
  /\ \A v, w \in Requests : Token(v) = Token(w) /\ Token(v) # NULL => v = w

DealInv ==
  /\ TokensApart
  /\ \A w \in Requests :
       /\ Engaged(w) => rows[Key(w)].auth = req[w].input.auth
       /\ At(w, "getReplay") => req[w].input.auth \in spent
       /\ ~ At(w, "answered") => req[w].status = NULL
       /\ Holds(w) /\ req[w].receipt # NULL => Key(w) \in charged
  /\ \A k \in charged : rows[k].auth \in spent

(* The settle lease of a row is the one it had, or a new one.              *)
LEMMA MethodTokens ==
  ASSUME OrchestratorTypeOK, CoordinatorInv, NEW k \in RecordKeys, Method(k)
  PROVE  /\ issued \subseteq issued'
         /\ rows'[k].kind = "settle" =>
              \/ rows[k].kind = "settle" /\ rows'[k].token = rows[k].token
              \/ rows'[k].token \notin issued
<1>1. Present(k) /\ rows[k] \in Row
  BY MethodMoves, RowOf DEF CoordinatorInv
<1>2. ASSUME NEW t \in Tokens, Acquire(k, t)
      PROVE  issued \subseteq issued' /\ rows'[k].token \notin issued
  <2>1. PICK kind \in Kinds, state \in States : GrantLease(k, kind, state, t)
    BY <1>2 DEF Acquire, AcquireVerifyLease, AcquireSettleLease, Kinds, States,
                InProgressStates
  <2>2. rows'[k].token = t
    BY <1>1, <2>1, GrantDoes
  <2>. QED
    BY <2>1, <2>2 DEF GrantLease
<1>3. ASSUME NEW state \in States, SetState(k, state)
      PROVE  /\ issued \subseteq issued' /\ rows'[k].kind = rows[k].kind
             /\ rows'[k].token = rows[k].token
  BY <1>1, <1>3, SetStateDoes DEF SetState
<1>4. ASSUME SetFailed(k)
      PROVE  issued \subseteq issued' /\ rows'[k].kind = NULL
  <2>1. rows'[k] = [rows[k] EXCEPT !.state = "failed-definitive", !.kind = NULL,
                                   !.token = NULL]
    BY <1>4 DEF SetFailed, Put, CoordinatorInv, TypeOK
  <2>. QED
    BY <1>1, <1>4, <2>1 DEF SetFailed, Row
<1>5. ASSUME NEW g, NEW t, NEW r, CompleteFulfillment(k, g, t, r)
      PROVE  issued \subseteq issued' /\ rows'[k].kind = NULL
  <2>1. rows'[k] = [rows[k] EXCEPT !.state = "fulfilled", !.receipt = r,
                                   !.kind = NULL, !.token = NULL]
    BY <1>5 DEF CompleteFulfillment, Put, CoordinatorInv, TypeOK
  <2>. QED
    BY <1>1, <1>5, <2>1 DEF CompleteFulfillment, Row
<1>6. ASSUME NEW b, StageResponse(k, b)
      PROVE  /\ issued \subseteq issued' /\ rows'[k].kind = rows[k].kind
             /\ rows'[k].token = rows[k].token
  <2>1. rows'[k] = [rows[k] EXCEPT !.state = "computing", !.body = b]
    BY <1>6 DEF StageResponse, Put, CoordinatorInv, TypeOK
  <2>. QED
    BY <1>1, <1>6, <2>1 DEF StageResponse, Row
<1>7. NULL # "settle"
  BY CoordinatorAssumption DEF Kinds
<1>8. ASSUME NEW g \in Generations, NEW t \in Tokens, Resolve(k, g, t)
      PROVE  \/ SetFailed(k) \/ \E state \in States : SetState(k, state)
             \/ \E r : CompleteFulfillment(k, g, t, r)
  BY <1>8 DEF Resolve, CompleteVerify, MarkVerifyUncertain, MarkSettleUncertain,
              FailVerifyDefinitive, FailPostVerifyDefinitive, FailSettleDefinitive,
              States, InProgressStates
<1>. QED
  BY <1>2, <1>3, <1>4, <1>5, <1>6, <1>7, <1>8 DEF Method

LEMMA RowTokens ==
  ASSUME OrchestratorTypeOK, CoordinatorInv, [Next]_vars
  PROVE  /\ issued \subseteq issued'
         /\ \A k \in RecordKeys : rows'[k] # NoRow /\ rows'[k].kind = "settle" =>
              \/ Present(k) /\ rows[k].kind = "settle" /\ rows'[k].token = rows[k].token
              \/ rows'[k].token \notin issued
<1>1. ASSUME NEW i \in Inputs, PrepareAttempt(i)
      PROVE  /\ issued' = issued
             /\ \A k \in RecordKeys : rows'[k] = rows[k] \/ rows'[k].kind = NULL
  <2>1. KeyOf(i) \in RecordKeys /\ NewRow(i) \in Row /\ NewRow(i).kind = NULL
    BY CoordinatorAssumption
       DEF KeyOf, NewRow, Inputs, RecordKeys, Row, States, InProgressStates
  <2>2. /\ rows'[KeyOf(i)] = NewRow(i)
        /\ \A j \in RecordKeys \ {KeyOf(i)} : rows'[j] = rows[j]
    BY <1>1, <2>1, PutRow DEF PrepareAttempt, CoordinatorInv
  <2>. QED
    BY <1>1, <2>1, <2>2 DEF PrepareAttempt
<1>2. ASSUME NEW j \in RecordKeys, Method(j)
      PROVE  Present(j) /\ \A k \in RecordKeys \ {j} : rows'[k] = rows[k]
  <2>1. Present(j) /\ \E row \in Row : MovesTo(j, row)
    BY <1>2, MethodMoves DEF CoordinatorInv
  <2>. QED
    BY <2>1, PutRow DEF MovesTo, CoordinatorInv
<1>3. ASSUME Housekeeping \/ UNCHANGED vars, NEW k \in RecordKeys, rows'[k] # NoRow
      PROVE  /\ issued' = issued /\ Present(k)
             /\ rows'[k].kind = rows[k].kind /\ rows'[k].token = rows[k].token
  <2>1. issued' = issued /\ Ages
    BY <1>3, HousekeepingAges DEF CoordinatorInv
  <2>2. Present(k) /\ \E n \in 0 .. RecordTtl : rows'[k] = [rows[k] EXCEPT !.ttl = n]
    BY <1>3, <2>1 DEF Ages
  <2>. QED
    BY <2>1, <2>2, RowOf DEF Row
<1>4. ASSUME Housekeeping \/ UNCHANGED vars PROVE issued' = issued
  BY <1>4, HousekeepingAges DEF CoordinatorInv
<1>5. NULL # "settle"
  BY CoordinatorAssumption DEF Kinds
<1>. QED
  BY <1>1, <1>2, <1>3, <1>4, <1>5, MethodTokens, NextCases DEF Present

(* What the proof that DealInv is kept needs to know of a step of request  *)
(* u, made by itself, late or on its death.                                *)
Acts(u) ==
  /\ \/ SameLease(u)
     \/ Token(u)' \in issued' \ issued /\ req'[u].receipt = NULL
  /\ \/ req'[u].receipt = req[u].receipt
     \/ Key(u) \in charged'
     \/ SameLease(u) /\ At(u, "getReplay")
  /\ req'[u].pc \in Reading => req[u].pc \in Reading /\ SameLease(u)
  /\ At(u, "getReplay")' => At(u, "getReplay") \/ req[u].input.auth \in spent
  /\ ~ At(u, "answered")' => ~ At(u, "answered") /\ req'[u].status = req[u].status
  /\ Engaged(u)' => Engaged(u) \/ PrepareAttempt(req[u].input)
  /\ \/ charged' = charged
     \/ /\ charged' = charged \cup {Key(u)} /\ rows' = rows
        /\ Engaged(u) /\ req[u].input.auth \in spent'

LEMMA KeepingActs ==
  ASSUME NEW u \in Requests, NEW label, Goes(u, label), SameLease(u),
         req'[u].receipt = req[u].receipt, label \notin Reading, ~ At(u, "answered"),
         req'[u].status = req[u].status \/ label = "answered",
         UNCHANGED charged,
         Engaged(u)' => Engaged(u) \/ PrepareAttempt(req[u].input)
  PROVE  Acts(u)
BY DEF Acts, Goes, Reading, At

LEMMA AtWorkActs ==
  ASSUME OrchestratorTypeOK, NEW u \in Requests, Working(u), UNCHANGED charged,
         \/ \E label \in Labels \ Reading : GoTo(u, label)
         \/ \E status \in Statuses : Answer(u, status)
         \/ \E status \in {500, 503}, m \in Methods : ThrowsToAnswer(u, m, status)
         \/ \E b \in Bodies :
              req' = [req EXCEPT ![u] = [@ EXCEPT !.pc = "stageResponse", !.body = b]]
         \/ At(u, "completeFulfillment") /\ StaleCompletion(u)
         \/ req' = [req EXCEPT ![u] = [@ EXCEPT !.pc = "markSettleUncertain",
                                               !.lost = "completeFulfillment"]]
  PROVE  Acts(u)
<1>1. Engaged(u) /\ ~ At(u, "answered")
  BY DEF Engaged, Working, At
<1>2. CASE \E label \in Labels \ Reading : GoTo(u, label)
  BY <1>1, <1>2, GoToDoes, LeaseKept, KeepingActs DEF SameData
<1>3. CASE \E status \in Statuses : Answer(u, status)
  BY <1>1, <1>3, AnswerDoes, EndKeepsLease, KeepingActs DEF SameData, Reading
<1>4. CASE \E status \in {500, 503}, m \in Methods : ThrowsToAnswer(u, m, status)
  <2>1. PICK status \in {500, 503}, m \in Methods : ThrowsToAnswer(u, m, status)
    BY <1>4
  <2>2. status \in Statuses
    BY DEF Statuses
  <2>. QED
    BY <1>1, <2>1, <2>2, ThrowsToAnswerDoes, EndKeepsLease, KeepingActs DEF SameData, Reading
<1>5. CASE \E b \in Bodies :
             req' = [req EXCEPT ![u] = [@ EXCEPT !.pc = "stageResponse", !.body = b]]
  BY <1>1, <1>5, BodyDoes, LeaseKept, KeepingActs DEF Reading
<1>6. CASE At(u, "completeFulfillment") /\ StaleCompletion(u)
  BY <1>1, <1>6, StaleDoes, EndKeepsLease, KeepingActs DEF SameData, Reading
<1>7. CASE req' = [req EXCEPT ![u] = [@ EXCEPT !.pc = "markSettleUncertain",
                                               !.lost = "completeFulfillment"]]
  BY <1>1, <1>7, GiveUpDoes, EndKeepsLease, KeepingActs DEF SameData, Reading
<1>. QED
  BY <1>2, <1>3, <1>4, <1>5, <1>6, <1>7, Zenon

(* A request that is answered before it was ever at work.                  *)
LEMMA ReadingActs ==
  ASSUME NEW u \in Requests, Goes(u, "answered"), SameLease(u), req[u].pc \in Reading,
         req'[u].receipt = req[u].receipt \/ At(u, "getReplay"),
         UNCHANGED <<charged, pending>>,
         \/ inflight' = inflight
         \/ \E m \in Reading : inflight' = inflight \cup {<<u, m>>}
  PROVE  Acts(u)
<1>1. Engaged(u)' => Engaged(u)
  BY DEF Engaged, Working, Goes, Reading
<1>. QED
  BY <1>1 DEF Acts, Goes, Reading, At

(* A request is told that its attempt is fulfilled or has failed when the  *)
(* row of its identifier, terms and authorization says so.                 *)
LEMMA EndedReply ==
  ASSUME OrchestratorTypeOK, NEW u \in Requests,
         PrepareReply(req[u].input) \in {"replay", "failed"}
  PROVE  /\ Present(Key(u)) /\ rows[Key(u)].auth = req[u].input.auth
         /\ rows[Key(u)].state = IF PrepareReply(req[u].input) = "replay"
                                 THEN "fulfilled" ELSE "failed-definitive"
<1>1. Present(Key(u))
  BY DEF PrepareReply, Key
<1>2. rows[Key(u)].state \in States
  BY <1>1, KeyInTable DEF OrchestratorTypeOK, TypeOK, Present, Row
<1>3. PrepareReply(req[u].input) = ClassifyExistingPrepareRow(Key(u), req[u].input)
  BY <1>1 DEF PrepareReply, Key
<1>4. IsSameAttemptIdentity(Key(u), req[u].input)
  BY <1>3 DEF ClassifyExistingPrepareRow
<1>5. rows[Key(u)].state = IF PrepareReply(req[u].input) = "replay"
                           THEN "fulfilled" ELSE "failed-definitive"
  BY <1>2, <1>3, <1>4 DEF ClassifyExistingPrepareRow, States, InProgressStates
<1>. QED
  BY <1>1, <1>4, <1>5 DEF IsSameAttemptIdentity

LEMMA PrepareActs ==
  ASSUME OrchestratorTypeOK, CoordinatorInv, SafetyInv, DealInv, NEW u \in Requests,
         Prepare(u)
  PROVE  Acts(u)
<1>. DEFINE reply == PrepareReply(req[u].input)
<1>1. At(u, "prepareAttempt") /\ req[u].pc \in Reading /\ Key(u) \in RecordKeys
  BY KeyInTable DEF Prepare, At, Reading
<1>2. CASE PrepareAttempt(req[u].input) /\ GoTo(u, "acquireVerifyLease") /\ NothingElse
  <2>1. "acquireVerifyLease" \in Labels \ Reading
    BY DEF Labels, Methods, Reading
  <2>. QED
    BY <1>1, <1>2, <2>1, GoToDoes, LeaseKept, KeepingActs DEF SameData, NothingElse, outside, At
<1>3. CASE reply = "replay" /\ GoTo(u, "getReplay") /\ UNCHANGED vars /\ NothingElse
  <2>1. Goes(u, "getReplay") /\ SameData(u) /\ SameLease(u) /\ req'[u].status = req[u].status
    BY <1>3, GoToDoes, LeaseKept DEF Labels, Methods
  <2>2. /\ Present(Key(u)) /\ rows[Key(u)].state = "fulfilled"
        /\ rows[Key(u)].auth = req[u].input.auth
    BY <1>3, EndedReply
  <2>3. req[u].input.auth \in spent
    BY <1>1, <2>2 DEF SafetyInv, Accounted, DealInv
  <2>4. Engaged(u)' => Engaged(u)
    BY <1>1, <1>3, <2>1 DEF Engaged, Working, Goes, Reading, NothingElse, faults, outside
  <2>. QED
    BY <1>1, <1>3, <2>1, <2>3, <2>4 DEF Acts, Goes, SameData, At, NothingElse, outside
<1>4. CASE reply \notin {"created", "replay"} /\ Answer(u, AnswerOf(reply)) /\ NothingElse
  <2>1. AnswerOf(reply) \in Statuses
    BY <1>4, PrepareReplies DEF AnswerOf, Statuses
  <2>. QED
    BY <1>1, <1>4, <2>1, AnswerDoes, EndKeepsLease, ReadingActs
       DEF SameData, NothingElse, faults, outside
<1>5. CASE ThrowsToAnswer(u, "prepareAttempt", 503)
  <2>1. 503 \in Statuses /\ "prepareAttempt" \in Methods /\ "prepareAttempt" \in Reading
    BY DEF Statuses, Methods, Reading
  <2>2. Goes(u, "answered") /\ SameData(u) /\ SameLease(u)
    BY <1>5, <2>1, ThrowsToAnswerDoes, EndKeepsLease
  <2>3. /\ inflight' = inflight \cup {<<u, "prepareAttempt">>}
        /\ UNCHANGED <<charged, pending>>
    BY <1>5 DEF ThrowsToAnswer, Throws, outside
  <2>. QED
    BY <1>1, <2>1, <2>2, <2>3, ReadingActs DEF SameData
<1>. QED
  BY <1>2, <1>3, <1>4, <1>5 DEF Prepare

LEMMA GetReplayActs ==
  ASSUME OrchestratorTypeOK, CoordinatorInv, NEW u \in Requests, GetReplay(u)
  PROVE  Acts(u)
<1>1. At(u, "getReplay") /\ req[u].pc \in Reading
  BY DEF GetReplay, At, Reading
<1>2. ASSUME Replay(Key(u)) # NULL, NothingElse,
             AnswerPaid(u, Replay(Key(u)).body, Replay(Key(u)).receipt)
      PROVE  Acts(u)
  <2>1. /\ Replay(Key(u)).body \in Bodies \cup {NULL}
        /\ Replay(Key(u)).receipt \in Receipts \cup {NULL}
    <3>1. Present(Key(u)) => rows[Key(u)] \in Row
      BY KeyInTable DEF Present, OrchestratorTypeOK, TypeOK
    <3>. QED
      BY <1>2, <3>1 DEF Replay, Row
  <2>2. Goes(u, "answered")
    BY <1>2, <2>1, AnswerPaidDoes
  <2>3. SameLease(u)
    <3>1. \E b \in Bodies \cup {NULL}, c \in Receipts \cup {NULL} : AnswerPaid(u, b, c)
      BY <1>2, <2>1
    <3>. QED
      BY <3>1, EndKeepsLease
  <2>. QED
    BY <1>1, <1>2, <2>2, <2>3, ReadingActs DEF NothingElse, faults, outside
<1>3. CASE Answer(u, 503) /\ NothingElse
  <2>1. 503 \in Statuses
    BY DEF Statuses
  <2>2. Goes(u, "answered") /\ SameLease(u)
    BY <1>3, <2>1, AnswerDoes, EndKeepsLease
  <2>. QED
    BY <1>1, <1>3, <2>2, ReadingActs DEF NothingElse, faults, outside
<1>4. CASE ThrowsToAnswer(u, "getReplay", 500)
  <2>1. 500 \in Statuses /\ "getReplay" \in Methods /\ "getReplay" \in Reading
    BY DEF Statuses, Methods, Reading
  <2>2. Goes(u, "answered") /\ SameLease(u)
    BY <1>4, <2>1, ThrowsToAnswerDoes, EndKeepsLease
  <2>3. /\ inflight' = inflight \cup {<<u, "getReplay">>}
        /\ UNCHANGED <<charged, pending>>
    BY <1>4 DEF ThrowsToAnswer, Throws, outside
  <2>. QED
    BY <1>1, <2>1, <2>2, <2>3, ReadingActs
<1>. QED
  BY <1>2, <1>3, <1>4 DEF GetReplay

(* A lease is taken with a token that nobody has.                          *)
LEMMA LeaseActs ==
  ASSUME OrchestratorTypeOK, SafetyInv, NEW u \in Requests, Working(u), req[u].pc \in Early,
         NEW t \in Tokens \ issued, t \in issued', NEW label \in Labels \ Reading,
         TakeLease(u, t, label), rows[Key(u)] \in Row, UNCHANGED charged,
         label # "answered"
  PROVE  Acts(u)
<1>1. Goes(u, label) /\ SameData(u) /\ req'[u].status = req[u].status
  BY TakeLeaseDoes
<1>2. Token(u)' = t
  BY LeaseTaken DEF Token
<1>3. req[u].receipt = NULL
  BY DEF SafetyInv, Local
<1>. QED
  BY <1>1, <1>2, <1>3 DEF Acts, Goes, SameData, Working, Engaged, At, Reading

(* The steps of a request at work in which no money can move.              *)
LEMMA CallsAct ==
  ASSUME OrchestratorTypeOK, CoordinatorInv, SafetyInv, NEW u \in Requests,
         \/ AcquireVerify(u) \/ VerifyPayment(u) \/ CompleteVerification(u)
         \/ BuildResponse(u) \/ Stage(u) \/ AcquireSettle(u)
  PROVE  Acts(u)
<1>1. Working(u) /\ req[u].pc \in Early
  BY DEF AcquireVerify, VerifyPayment, CompleteVerification, BuildResponse, Stage,
         AcquireSettle, At, Working, Reading, Early
<1>2. UNCHANGED charged
  BY DEF AcquireVerify, VerifyPayment, CompleteVerification, BuildResponse, Stage,
         AcquireSettle, NothingElse, ThrowsToAnswer, Throws, outside
<1>3. CASE \E t \in Tokens : \/ /\ AcquireVerifyLease(Key(u), t)
                                /\ TakeLease(u, t, "verifyPayment")
                             \/ /\ AcquireSettleLease(Key(u), t)
                                /\ TakeLease(u, t, "settlePayment")
  <2>1. PICK t \in Tokens, label \in {"verifyPayment", "settlePayment"} :
          /\ AcquireVerifyLease(Key(u), t) \/ AcquireSettleLease(Key(u), t)
          /\ TakeLease(u, t, label)
    BY <1>3
  <2>2. Present(Key(u)) /\ t \notin issued /\ t \in issued'
    BY <2>1 DEF AcquireVerifyLease, AcquireSettleLease, CanAcquireVerifyLease,
                CanAcquireSettleLease, InState, GrantLease
  <2>3. rows[Key(u)] \in Row /\ label \in Labels \ Reading /\ label # "answered"
    BY <2>2, KeyInTable, RowOf DEF Labels, Reading, Methods
  <2>. QED
    BY <1>1, <1>2, <2>1, <2>2, <2>3, LeaseActs
<1>4. CASE \E label \in Labels \ Reading : GoTo(u, label)
  BY <1>1, <1>2, <1>4, AtWorkActs
<1>5. CASE \E b \in Bodies :
             req' = [req EXCEPT ![u] = [@ EXCEPT !.pc = "stageResponse", !.body = b]]
  BY <1>1, <1>2, <1>5, AtWorkActs
<1>6. CASE Answer(u, 202) \/ Answer(u, 503)
  <2>1. PICK status \in Statuses : Answer(u, status)
    BY <1>6 DEF Statuses
  <2>. QED
    BY <1>1, <1>2, <2>1, AtWorkActs, Zenon
<1>7. CASE \E m \in Methods : ThrowsToAnswer(u, m, 503)
  BY <1>1, <1>2, <1>7, AtWorkActs
<1>8. /\ StageableBodies \subseteq Bodies
      /\ { "completeVerify", "failVerifyDefinitive", "markVerifyUncertain", "buildResponse",
           "failPostVerifyDefinitive", "acquireSettleLease" } \subseteq Labels \ Reading
      /\ { "acquireVerifyLease", "completeVerify", "stageResponse", "acquireSettleLease" }
           \subseteq Methods
  BY CoordinatorAssumption DEF Labels, Methods, Reading
<1>9. CASE AcquireVerify(u) \/ AcquireSettle(u)
  BY <1>3, <1>6, <1>7, <1>8, <1>9 DEF AcquireVerify, AcquireSettle
<1>10. CASE VerifyPayment(u) \/ CompleteVerification(u) \/ Stage(u)
  BY <1>4, <1>6, <1>7, <1>8, <1>10 DEF VerifyPayment, CompleteVerification, Stage
<1>11. CASE BuildResponse(u)
  BY <1>4, <1>5, <1>8, <1>11 DEF BuildResponse, BuildFails
<1>. QED
  BY <1>9, <1>10, <1>11

(* The settle call, and the death during it.                               *)
LEMMA SettleActs ==
  ASSUME OrchestratorTypeOK, NEW u \in Requests, SettlePayment(u)
  PROVE  Acts(u)
<1>1. Working(u) /\ Engaged(u) /\ ~ At(u, "answered") /\ rows' = rows
  BY DEF SettlePayment, At, Working, Engaged, Reading, vars
<1>2. ASSUME NEW label \in Labels \ (Reading \cup {"answered"}), GoTo(u, label),
             MoneyMoves(u) \/ UNCHANGED charged
      PROVE  Acts(u)
  <2>1. Goes(u, label) /\ SameData(u) /\ SameLease(u) /\ req'[u].status = req[u].status
    BY <1>2, GoToDoes, LeaseKept
  <2>. QED
    BY <1>1, <1>2, <2>1 DEF Acts, Goes, SameData, MoneyMoves, At, Reading
<1>3. ASSUME NEW c \in Receipts, MoneyMoves(u),
             req' = [req EXCEPT ![u] = [@ EXCEPT !.pc = "completeFulfillment", !.receipt = c]]
      PROVE  Acts(u)
  <2>1. /\ Goes(u, "completeFulfillment") /\ SameLease(u)
        /\ req'[u].status = req[u].status
    BY <1>3, ReceiptDoes, LeaseKept
  <2>. QED
    BY <1>1, <1>3, <2>1 DEF Acts, Goes, MoneyMoves, At, Reading
<1>4. {"failSettleDefinitive", "markSettleUncertain"} \subseteq
        Labels \ (Reading \cup {"answered"})
  BY DEF Labels, Methods, Reading
<1>. QED
  BY <1>2, <1>3, <1>4 DEF SettlePayment, SettleRefused, SettleThrows, SettleSucceeds,
                          MoneyUnknown

LEMMA LastCallsAct ==
  ASSUME OrchestratorTypeOK, NEW u \in Requests,
         Complete(u) \/ \E m \in Reports : Report(u, m)
  PROVE  Acts(u)
<1>1. Working(u) /\ Engaged(u)
  BY DEF Complete, Report, Reports, At, Working, Engaged, Reading
<1>2. UNCHANGED charged
  BY DEF Complete, Report, NothingElse, ThrowsToAnswer, Throws, outside
<1>3. CASE AnswerPaid(u, req[u].body, req[u].receipt)
  <2>1. req[u].body \in Bodies \cup {NULL} /\ req[u].receipt \in Receipts \cup {NULL}
    BY LocalState DEF RequestState
  <2>2. Goes(u, "answered") /\ req'[u].receipt = req[u].receipt
    BY <1>3, <2>1, AnswerPaidDoes
  <2>3. SameLease(u)
    <3>1. \E b \in Bodies \cup {NULL}, c \in Receipts \cup {NULL} : AnswerPaid(u, b, c)
      BY <1>3, <2>1
    <3>. QED
      BY <3>1, EndKeepsLease
  <2>. QED
    BY <1>1, <1>2, <2>2, <2>3, KeepingActs DEF Working, At, Reading
<1>4. ASSUME NEW m \in Reports, Report(u, m)
      PROVE  Acts(u)
  <2>1. m \in Methods /\ AnswerAfter(u, m) \in Statuses
    BY DEF Reports, Methods, AnswerAfter, Statuses
  <2>2. \/ \E status \in Statuses : Answer(u, status)
        \/ \E status \in {500, 503}, n \in Methods : ThrowsToAnswer(u, n, status)
    BY <1>4, <2>1 DEF Report
  <2>. QED
    BY <1>1, <1>2, <2>2, AtWorkActs
<1>5. CASE At(u, "completeFulfillment") /\ StaleCompletion(u)
  BY <1>1, <1>2, <1>5, AtWorkActs
<1>6. CASE req' = [req EXCEPT ![u] = [@ EXCEPT !.pc = "markSettleUncertain",
                                               !.lost = "completeFulfillment"]]
  BY <1>1, <1>2, <1>6, AtWorkActs
<1>. QED
  BY <1>3, <1>4, <1>5, <1>6 DEF Complete

LEMMA CrashActs ==
  ASSUME OrchestratorTypeOK, NEW u \in Requests, Crash(u)
  PROVE  Acts(u)
<1>1. Goes(u, "crashed") /\ SameData(u) /\ SameLease(u) /\ req'[u].status = req[u].status
  BY GoToDoes, LeaseKept DEF Crash, Labels
<1>2. ~ At(u, "answered") /\ rows' = rows /\ inflight' = inflight
  BY DEF Crash, Done, At, vars
<1>3. At(u, "settlePayment") => Engaged(u)
  BY DEF At, Engaged, Working, Reading
<1>4. /\ u \in pending' => Engaged(u)
      /\ \/ charged' = charged
         \/ /\ charged' = charged \cup {Key(u)}
            /\ Engaged(u) /\ req[u].input.auth \in spent'
  BY <1>3 DEF Crash, DiesCalling, MoneyUnknown, MoneyMoves, outside, Engaged
<1>5. Engaged(u)' => Engaged(u)
  BY <1>1, <1>2, <1>4 DEF Engaged, Working, Goes
<1>. QED
  BY <1>1, <1>2, <1>4, <1>5 DEF Acts, Goes, SameData, At, Reading

LEMMA AsideActs ==
  ASSUME NEW u \in Requests, SettlesLate(u) \/ \E m \in Methods : Late(u, m)
  PROVE  Acts(u)
<1>1. req' = req /\ SameLease(u)
  BY DEF SettlesLate, Late, SameLease
<1>2. Engaged(u)' => Engaged(u)
  BY <1>1 DEF SettlesLate, Late, Engaged, Working, faults, outside
<1>3. \/ charged' = charged
      \/ /\ charged' = charged \cup {Key(u)} /\ rows' = rows
         /\ Engaged(u) /\ req[u].input.auth \in spent'
  BY DEF SettlesLate, Late, MoneyMoves, Engaged, vars, outside
<1>. QED
  BY <1>1, <1>2, <1>3 DEF Acts, At

(* A row that is still there belongs to the authorization it was reserved  *)
(* with, and its settle lease to the request that had it or is granted it. *)
LEMMA AuthKept ==
  ASSUME CoordinatorInv, [Next]_vars, NEW k \in RecordKeys, Present(k), rows'[k] # NoRow
  PROVE  rows'[k].auth = rows[k].auth
BY RowsAdvance DEF SameContent

LEMMA HoldsBefore ==
  ASSUME OrchestratorTypeOK, CoordinatorInv, CoordinatorInv', TokensApart, [Next]_vars,
         NEW w \in Requests, Key(w)' = Key(w), Token(w)' = Token(w), Holds(w)'
  PROVE  Holds(w)
<1>. DEFINE k == Key(w)
<1>1. k \in RecordKeys /\ rows'[k] # NoRow /\ rows'[k].kind = "settle"
      /\ rows'[k].token = Token(w)
  BY KeyInTable DEF Holds, Present
<1>2. rows'[k].token # NULL
  <2>1. WellFormed(rows'[k], issued') /\ NULL # "settle"
    BY <1>1, CoordinatorAssumption DEF CoordinatorInv, LeaseShape, Present, Kinds
  <2>. QED
    BY <1>1, <2>1 DEF WellFormed
<1>3. rows'[k].token \in issued
  BY <1>1, <1>2 DEF TokensApart
<1>. QED
  BY <1>1, <1>3, RowTokens DEF Holds

LEMMA ActsKeepsDeals ==
  ASSUME OrchestratorTypeOK, CoordinatorInv, CoordinatorInv', SafetyInv, SafetyInv', DealInv,
         [Next]_vars, spent \subseteq spent', NEW u \in Requests, Acts(u), Frame(u)
  PROVE  DealInv'
<1>1. issued \subseteq issued'
  BY RowTokens
<1>2. ASSUME NEW w \in Requests
      PROVE  Key(w)' = Key(w) /\ Key(w) \in RecordKeys
  BY KeyInTable DEF Frame, Key
<1>3. ASSUME NEW w \in Requests, w # u
      PROVE  /\ req'[w] = req[w] /\ Token(w)' = Token(w)
             /\ Engaged(w)' => Engaged(w)
  BY <1>3 DEF Frame, Token, Engaged, Working
<1>4. \/ Token(u)' = Token(u)
      \/ Token(u)' \in issued' \ issued /\ req'[u].receipt = NULL
  BY DEF Acts, SameLease, Token
<1>5. ASSUME NEW w \in Requests
      PROVE  Token(w)' \in issued' \cup {NULL}
  BY <1>1, <1>3, <1>4 DEF DealInv, TokensApart
<1>6. ASSUME NEW w \in Requests, req'[w].pc \in Reading
      PROVE  Token(w)' = NULL
  BY <1>3, <1>6 DEF Acts, SameLease, Token, DealInv, TokensApart
<1>7. ASSUME NEW v \in Requests, NEW w \in Requests, Token(v)' = Token(w)', Token(v)' # NULL
      PROVE  v = w
  BY <1>3, <1>4, <1>7 DEF DealInv, TokensApart
<1>8. TokensApart'
  BY <1>5, <1>6, <1>7 DEF TokensApart
<1>9. ASSUME NEW w \in Requests, Engaged(w)'
      PROVE  rows'[Key(w)].auth = req'[w].input.auth
  <2>1. rows'[Key(w)] # NoRow
    BY <1>2, <1>9 DEF SafetyInv, Fits, Present
  <2>2. CASE Engaged(w)
    <3>1. Present(Key(w)) /\ rows[Key(w)].auth = req[w].input.auth
      BY <2>2 DEF SafetyInv, Fits, DealInv
    <3>2. req'[w].input = req[w].input
      BY DEF Frame
    <3>. QED
      BY <1>2, <2>1, <3>1, <3>2, AuthKept
  <2>3. CASE w = u /\ PrepareAttempt(req[u].input)
    <3>1. NewRow(req[u].input) \in Row /\ KeyOf(req[u].input) = Key(u)
      BY KeyInTable, CoordinatorAssumption
         DEF Key, NewRow, Inputs, Row, States, InProgressStates
    <3>2. rows'[Key(u)] = NewRow(req[u].input)
      BY <1>2, <2>3, <3>1, PutRow DEF PrepareAttempt, CoordinatorInv
    <3>. QED
      BY <2>3, <3>2 DEF NewRow, Frame
  <2>. QED
    BY <1>3, <1>9, <2>2, <2>3 DEF Acts
<1>10. ASSUME NEW w \in Requests
       PROVE  /\ At(w, "getReplay")' => req'[w].input.auth \in spent'
              /\ ~ At(w, "answered")' => req'[w].status = NULL
  BY <1>3 DEF Acts, Frame, At, DealInv
<1>11. ASSUME NEW w \in Requests, Holds(w)', req'[w].receipt # NULL
       PROVE  Key(w) \in charged'
  <2>1. charged \subseteq charged'
    BY DEF Acts
  <2>2. Token(w)' = Token(w)
    BY <1>3, <1>4, <1>11
  <2>3. Holds(w)
    BY <1>2, <1>11, <2>2, HoldsBefore DEF DealInv
  <2>4. CASE req'[w].receipt = req[w].receipt
    BY <1>11, <2>1, <2>3, <2>4 DEF DealInv
  <2>5. CASE At(w, "getReplay")
    <3>1. Token(w) = NULL /\ Key(w) \in RecordKeys
      BY <1>2, <2>5 DEF DealInv, TokensApart, At, Reading
    <3>2. WellFormed(rows[Key(w)], issued) /\ NULL # "settle"
      BY <2>3, <3>1, RowOf, CoordinatorAssumption DEF Holds, Kinds
    <3>. QED
      BY <2>3, <3>1, <3>2 DEF Holds, WellFormed
  <2>. QED
    BY <1>3, <2>4, <2>5 DEF Acts
<1>12. ASSUME NEW k \in charged'
       PROVE  rows'[k].auth \in spent'
  <2>1. CASE k \in charged
    <3>1. k \in RecordKeys /\ Present(k) /\ rows[k].auth \in spent
      BY <2>1 DEF SafetyInv, Accounted, DealInv, OrchestratorTypeOK
    <3>2. rows'[k] # NoRow
      BY <1>12, <3>1 DEF SafetyInv, Accounted, Present
    <3>. QED
      BY <3>1, <3>2, AuthKept
  <2>2. CASE k = Key(u) /\ rows' = rows /\ Engaged(u) /\ req[u].input.auth \in spent'
    BY <2>2 DEF DealInv
  <2>. QED
    BY <1>12, <2>1, <2>2 DEF Acts
<1>. QED
  <2>1. ASSUME NEW w \in Requests
        PROVE  /\ Engaged(w)' => rows'[Key(w)'].auth = req'[w].input.auth
               /\ At(w, "getReplay")' => req'[w].input.auth \in spent'
               /\ ~ At(w, "answered")' => req'[w].status = NULL
               /\ Holds(w)' /\ req'[w].receipt # NULL => Key(w)' \in charged'
    BY <1>2, <1>9, <1>10, <1>11
  <2>. QED
    BY <1>8, <1>12, <2>1 DEF DealInv

(* The clock and the clean-up.                                             *)
LEMMA AsideKeepsDeals ==
  ASSUME OrchestratorTypeOK, CoordinatorInv, CoordinatorInv', SafetyInv, SafetyInv', DealInv,
         [Next]_vars, UNCHANGED <<req, spent>>, inflight' \subseteq inflight,
         pending' \subseteq pending, charged' \subseteq charged,
         \A k \in charged : rows'[k] # NoRow => k \in charged'
  PROVE  DealInv'
<1>1. issued \subseteq issued'
  BY RowTokens
<1>2. ASSUME NEW w \in Requests
      PROVE  /\ Key(w)' = Key(w) /\ Key(w) \in RecordKeys
             /\ Token(w)' = Token(w) /\ (Engaged(w)' => Engaged(w))
  BY KeyInTable DEF Key, Token, Engaged, Working
<1>3. TokensApart'
  BY <1>1, <1>2 DEF DealInv, TokensApart
<1>4. ASSUME NEW w \in Requests, Engaged(w)'
      PROVE  rows'[Key(w)].auth = req[w].input.auth
  <2>1. Present(Key(w)) /\ rows'[Key(w)] # NoRow /\ rows[Key(w)].auth = req[w].input.auth
    BY <1>2, <1>4 DEF SafetyInv, Fits, DealInv, Present
  <2>. QED
    BY <1>2, <2>1, AuthKept
<1>5. ASSUME NEW w \in Requests, Holds(w)', req[w].receipt # NULL
      PROVE  Key(w) \in charged'
  <2>1. Holds(w)
    BY <1>2, <1>5, HoldsBefore DEF DealInv
  <2>2. rows'[Key(w)] # NoRow
    BY <1>2, <1>5 DEF Holds, Present
  <2>. QED
    BY <1>5, <2>1, <2>2 DEF DealInv
<1>6. ASSUME NEW k \in charged'
      PROVE  rows'[k].auth \in spent
  <2>1. k \in RecordKeys /\ Present(k) /\ rows[k].auth \in spent
    BY <1>6 DEF SafetyInv, Accounted, DealInv, OrchestratorTypeOK
  <2>2. rows'[k] # NoRow
    BY <1>6, <2>1 DEF SafetyInv, Accounted, Present
  <2>. QED
    BY <2>1, <2>2, AuthKept
<1>. QED
  <2>1. ASSUME NEW w \in Requests
        PROVE  /\ Engaged(w)' => rows'[Key(w)'].auth = req'[w].input.auth
               /\ At(w, "getReplay")' => req'[w].input.auth \in spent'
               /\ ~ At(w, "answered")' => req'[w].status = NULL
               /\ Holds(w)' /\ req'[w].receipt # NULL => Key(w)' \in charged'
    BY <1>2, <1>4, <1>5 DEF DealInv, At
  <2>. QED
    BY <1>3, <1>6, <2>1 DEF DealInv

LEMMA StepActs ==
  ASSUME OrchestratorTypeOK, CoordinatorInv, SafetyInv, DealInv, NEW u \in Requests,
         Step(u) \/ SettlesLate(u) \/ Crash(u) \/ \E m \in Methods : Late(u, m)
  PROVE  Acts(u) /\ Frame(u)
<1>1. Sound(u)
  BY StepSound, SettlesLateSound, CrashSound, LateSound
<1>2. Acts(u)
  BY PrepareActs, GetReplayActs, CallsAct, SettleActs, LastCallsAct, CrashActs, AsideActs
     DEF Step
<1>. QED
  BY <1>1, <1>2 DEF Sound, Keeps

LEMMA DealKept ==
  ASSUME OrchestratorTypeOK, CoordinatorInv, CoordinatorInv', SafetyInv, SafetyInv', DealInv,
         [OrchestratorNext]_allVars, ~ OutliveTtl
  PROVE  DealInv'
<1>1. [Next]_vars /\ spent \subseteq spent'
  BY OrchestratorSteps, SpentGrows
<1>2. ASSUME NEW u \in Requests,
             Step(u) \/ SettlesLate(u) \/ Crash(u) \/ \E m \in Methods : Late(u, m)
      PROVE  DealInv'
  BY <1>1, <1>2, StepActs, ActsKeepsDeals
<1>3. CASE TimePasses \/ CleanUp \/ UNCHANGED allVars
  <2>1. /\ UNCHANGED <<req, spent>> /\ inflight' \subseteq inflight
        /\ pending' \subseteq pending /\ charged' \subseteq charged
        /\ \A k \in charged : rows'[k] # NoRow => k \in charged'
    BY <1>3 DEF TimePasses, CleanUp, allVars, faults, outside
  <2>. QED
    BY <1>1, <2>1, AsideKeepsDeals
<1>. QED
  BY <1>2, <1>3 DEF OrchestratorNext

LEMMA DealInvariance ==
  ASSUME ~ OutliveTtl
  PROVE  OrchestratorSpec => [](OrchestratorInv /\ CalmInv /\ DealInv)
<1>1. OrchestratorInit => DealInv
  <2>. SUFFICES ASSUME OrchestratorInit PROVE DealInv
    OBVIOUS
  <2>1. ASSUME NEW w \in Requests
        PROVE  /\ Token(w) = NULL /\ req[w].status = NULL
               /\ ~ Engaged(w) /\ ~ Holds(w) /\ ~ At(w, "getReplay")
    <3>1. PICK i \in Inputs : req[w] = NewRequest(i)
      BY DEF OrchestratorInit
    <3>2. Key(w) \in RecordKeys
      BY <3>1 DEF Key, NewRequest, KeyOf, Inputs, RecordKeys
    <3>. QED
      BY <3>1, <3>2 DEF OrchestratorInit, Init, NewRequest, NoLease, Token, Engaged, Working,
                        Reading, Holds, Present, At
  <2>. QED
    BY <2>1 DEF DealInv, TokensApart, OrchestratorInit
<1>2. /\ OrchestratorInv /\ OrchestratorInv' /\ DealInv /\ [OrchestratorNext]_allVars => DealInv'
  BY DealKept DEF OrchestratorInv
<1>. QED
  BY <1>1, <1>2, CalmInvariance, PTL DEF OrchestratorSpec

(* What PayOnce sees of a row: who its receipt is with, and a deal.        *)
DealsKnown ==
  \A k \in RecordKeys : Present(k) =>
    /\ \A w \in Requests : Key(w) = k /\ Holds(w) => ReceiptOf(k) = req[w].receipt
    /\ (\A w \in Requests : Key(w) = k => ~ Holds(w)) => ReceiptOf(k) = rows[k].receipt
    /\ k \notin charged => ReceiptOf(k) = NULL
    /\ DealOf(k) \in Paid!Deal

LEMMA DealsAreKnown ==
  ASSUME OrchestratorTypeOK, CoordinatorInv, SafetyInv, DealInv
  PROVE  DealsKnown
<1>. SUFFICES ASSUME NEW k \in RecordKeys, Present(k)
              PROVE  /\ \A w \in Requests : Key(w) = k /\ Holds(w) =>
                          ReceiptOf(k) = req[w].receipt
                     /\ (\A w \in Requests : Key(w) = k => ~ Holds(w)) =>
                          ReceiptOf(k) = rows[k].receipt
                     /\ k \notin charged => ReceiptOf(k) = NULL
                     /\ DealOf(k) \in Paid!Deal
  BY DEF DealsKnown
<1>. DEFINE holders == {w \in Requests : Key(w) = k /\ Token(w) = rows[k].token}
<1>1. rows[k] \in Row /\ WellFormed(rows[k], issued)
  BY RowOf
<1>2. rows[k].kind = "settle" => rows[k].token # NULL
  BY <1>1, CoordinatorAssumption DEF WellFormed, Kinds
<1>3. ASSUME NEW w \in Requests, Key(w) = k, Holds(w)
      PROVE  ReceiptOf(k) = req[w].receipt
  <2>1. rows[k].kind = "settle" /\ w \in holders
    BY <1>3 DEF Holds
  <2>2. \A v \in holders : v = w
    BY <1>2, <2>1 DEF DealInv, TokensApart
  <2>. DEFINE v == CHOOSE v \in holders : TRUE
  <2>3. v \in holders
    BY <2>1
  <2>4. v = w
    BY <2>2, <2>3
  <2>5. ReceiptOf(k) = req[v].receipt
    BY <2>1 DEF ReceiptOf
  <2>. QED
    BY <2>4, <2>5
<1>4. ASSUME \A w \in Requests : Key(w) = k => ~ Holds(w)
      PROVE  ReceiptOf(k) = rows[k].receipt
  <2>1. ~ (rows[k].kind = "settle" /\ holders # {})
    BY <1>4 DEF Holds
  <2>. QED
    BY <2>1 DEF ReceiptOf
<1>5. ASSUME k \notin charged
      PROVE  ReceiptOf(k) = NULL
  <2>1. ASSUME NEW w \in Requests, Key(w) = k, Holds(w) PROVE req[w].receipt = NULL
    BY <1>5, <2>1 DEF DealInv
  <2>2. rows[k].receipt = NULL
    BY <1>1, <1>5 DEF WellFormed, SafetyInv, Accounted
  <2>. QED
    BY <1>3, <1>4, <2>1, <2>2
<1>6. ReceiptOf(k) \in Receipts \cup {NULL}
  <2>1. \A w \in Requests : req[w].receipt \in Receipts \cup {NULL}
    BY LocalState DEF RequestState
  <2>2. rows[k].receipt \in Receipts \cup {NULL}
    BY <1>1 DEF Row
  <2>. QED
    BY <1>3, <1>4, <2>1, <2>2
<1>7. DealOf(k) \in Paid!Deal
  BY <1>1, <1>6 DEF DealOf, Paid!Deal, Row
<1>. QED
  BY <1>3, <1>4, <1>5, <1>7

(* All that is known of the state, and what of it PayOnce sees.            *)
WholeInv ==
  OrchestratorTypeOK /\ CoordinatorInv /\ SafetyInv /\ CalmInv /\ DealInv /\ DealsKnown

LEMMA WholeInvariance ==
  ASSUME ~ OutliveTtl
  PROVE  OrchestratorSpec => []WholeInv
<1>1. OrchestratorInv /\ CalmInv /\ DealInv => WholeInv
  BY DealsAreKnown DEF WholeInv, OrchestratorInv
<1>. QED
  BY <1>1, DealInvariance, PTL

LEMMA DealSeen ==
  ASSUME WholeInv, NEW k \in RecordKeys
  PROVE  /\ Present(k) => DealsView[k] = DealOf(k) /\ DealsView[k] # NoRow
         /\ ~ Present(k) => DealsView[k] = NoRow
BY NoRowIsNoDeal DEF WholeInv, DealsKnown, DealsView

LEMMA DealSeenNext ==
  ASSUME WholeInv', NEW k \in RecordKeys
  PROVE  /\ rows'[k] # NoRow => DealsView'[k] = DealOf(k)' /\ DealsView'[k] # NoRow
         /\ rows'[k] = NoRow => DealsView'[k] = NoRow
BY NoRowIsNoDeal DEF WholeInv, DealsKnown, DealsView, Present

(* The row tells PayOnce the same as before.                               *)
SameRow(k) ==
  /\ Present(k) /\ rows'[k] # NoRow
  /\ rows'[k].auth = rows[k].auth
  /\ rows'[k].kind = rows[k].kind /\ rows'[k].token = rows[k].token
  /\ rows'[k].state = "failed-definitive" <=> rows[k].state = "failed-definitive"
  /\ rows'[k].state = "fulfilled" <=> rows[k].state = "fulfilled"
  /\ rows'[k].body = rows[k].body /\ rows'[k].receipt = rows[k].receipt

(* The receipt stays where it is, or there is none yet.                    *)
LEMMA ReceiptStays ==
  ASSUME WholeInv, WholeInv', NEW k \in RecordKeys, Present(k), rows'[k] # NoRow,
         \/ k \notin charged /\ k \notin charged'
         \/ /\ \A w \in Requests : Key(w)' = Key(w)
            /\ \A w \in Requests : Key(w) = k =>
                 /\ Holds(w)' <=> Holds(w)
                 /\ Holds(w) => req'[w].receipt = req[w].receipt
            /\ rows'[k].receipt = rows[k].receipt
  PROVE  ReceiptOf(k)' = ReceiptOf(k)
<1>1. CASE k \notin charged /\ k \notin charged'
  BY <1>1 DEF WholeInv, DealsKnown, Present
<1>2. CASE /\ \A w \in Requests : Key(w)' = Key(w)
           /\ \A w \in Requests : Key(w) = k =>
                /\ Holds(w)' <=> Holds(w)
                /\ Holds(w) => req'[w].receipt = req[w].receipt
           /\ rows'[k].receipt = rows[k].receipt
  <2>1. CASE \E w \in Requests : Key(w) = k /\ Holds(w)
    <3>1. PICK w \in Requests : Key(w) = k /\ Holds(w)
      BY <2>1
    <3>2. ReceiptOf(k) = req[w].receipt
      BY <3>1 DEF WholeInv, DealsKnown
    <3>3. ReceiptOf(k)' = req'[w].receipt
      BY <1>2, <3>1 DEF WholeInv, DealsKnown, Present
    <3>. QED
      BY <1>2, <3>1, <3>2, <3>3
  <2>2. CASE \A w \in Requests : Key(w) = k => ~ Holds(w)
    <3>1. ReceiptOf(k) = rows[k].receipt
      BY <2>2 DEF WholeInv, DealsKnown
    <3>2. ReceiptOf(k)' = rows'[k].receipt
      BY <1>2, <2>2 DEF WholeInv, DealsKnown, Present
    <3>. QED
      BY <1>2, <3>1, <3>2
  <2>. QED
    BY <2>1, <2>2
<1>. QED
  BY <1>1, <1>2

LEMMA DealStays ==
  ASSUME WholeInv, WholeInv', NEW k \in RecordKeys, SameRow(k), k \in charged' <=> k \in charged,
         \/ k \notin charged
         \/ /\ \A w \in Requests : Key(w)' = Key(w)
            /\ \A w \in Requests : Key(w) = k =>
                 /\ Token(w)' = Token(w)
                 /\ Holds(w) => req'[w].receipt = req[w].receipt
  PROVE  DealsView'[k] = DealsView[k]
<1>1. Present(k) /\ rows'[k] # NoRow
  BY DEF SameRow
<1>2. ASSUME NEW w \in Requests, Key(w)' = Key(w), Key(w) = k, Token(w)' = Token(w)
      PROVE  Holds(w)' <=> Holds(w)
  BY <1>2 DEF Holds, SameRow, Present
<1>3. ReceiptOf(k)' = ReceiptOf(k)
  BY <1>1, <1>2, ReceiptStays DEF SameRow
<1>4. DealOf(k)' = DealOf(k)
  BY <1>3 DEF DealOf, SameRow
<1>. QED
  BY <1>1, <1>4, DealSeen, DealSeenNext

(* A step of request u shows in its own deal and its own answer only.      *)
LEMMA StepSeen ==
  ASSUME WholeInv, WholeInv', NEW u \in Requests, Frame(u)
  PROVE  /\ OrdersView' = OrdersView
         /\ \A k \in RecordKeys \ {Key(u)} : DealsView'[k] = DealsView[k]
         /\ \A w \in Requests \ {u} : ToldView'[w] = ToldView[w]
<1>1. \A w \in Requests : Key(w)' = Key(w) /\ req'[w].input = req[w].input
  BY DEF Frame, Key
<1>2. OrdersView' = OrdersView
  BY <1>1 DEF OrdersView
<1>3. ASSUME NEW w \in Requests \ {u} PROVE ToldView'[w] = ToldView[w]
  BY DEF ToldView, ToldTo, Frame
<1>4. ASSUME NEW k \in RecordKeys \ {Key(u)}
      PROVE  DealsView'[k] = DealsView[k]
  <2>1. rows'[k] = rows[k] /\ (k \in charged' <=> k \in charged)
    BY DEF Frame, Untouched
  <2>2. CASE ~ Present(k)
    BY <2>1, <2>2, DealSeen, DealSeenNext DEF Present
  <2>3. CASE Present(k)
    <3>1. SameRow(k)
      BY <2>1, <2>3 DEF SameRow, Present
    <3>2. ASSUME NEW w \in Requests, Key(w) = k
          PROVE  Token(w)' = Token(w) /\ req'[w].receipt = req[w].receipt
      BY <3>2 DEF Frame, Token
    <3>. QED
      BY <1>1, <2>1, <3>1, <3>2, DealStays
  <2>. QED
    BY <2>2, <2>3
<1>. QED
  BY <1>2, <1>3, <1>4

(* A step edits one deal, or none; one answer, or none.                    *)
LEMMA DealEdited ==
  ASSUME NEW k \in RecordKeys, \A j \in RecordKeys \ {k} : DealsView'[j] = DealsView[j]
  PROVE  /\ DealsView' = [DealsView EXCEPT ![k] = DealsView'[k]]
         /\ DealsView'[k] = DealsView[k] => DealsView' = DealsView
BY DEF DealsView

LEMMA AnswerEdited ==
  ASSUME NEW u \in Requests, \A w \in Requests \ {u} : ToldView'[w] = ToldView[w]
  PROVE  /\ ToldView' = [ToldView EXCEPT ![u] = ToldView'[u]]
         /\ ToldView'[u] = ToldView[u] => ToldView' = ToldView
BY DEF ToldView

View == <<DealsView, spent, OrdersView, ToldView>>

(* A request whose status stays has not been answered yet.                 *)
LEMMA ToldNothing ==
  ASSUME WholeInv, NEW u \in Requests, ~ At(u, "answered")
  PROVE  /\ ToldView[u] = Paid!Nothing
         /\ req'[u].status = req[u].status => ToldView'[u] = Paid!Nothing
<1>1. req[u].status = NULL /\ NULL \notin {200, 402}
  BY CoordinatorAssumption DEF WholeInv, DealInv
<1>. QED
  BY <1>1 DEF ToldView, ToldTo, ReplyOf, Paid!Nothing

LEMMA ToldAnswer ==
  ASSUME NEW u \in Requests, req'[u].status \in Statuses
  PROVE  /\ req'[u].status \notin {200, 402} =>
              ToldView'[u] = [Paid!Nothing EXCEPT !.reply = "put off"]
         /\ req'[u].status = 402 => ToldView'[u] = [Paid!Nothing EXCEPT !.reply = "refused"]
         /\ req'[u].status = 200 =>
              ToldView'[u] = [reply |-> "served", body |-> req'[u].body,
                              receipt |-> req'[u].receipt]
<1>. DEFINE s == req'[u].status
<1>1. NULL \notin Statuses
  BY CoordinatorAssumption DEF Statuses
<1>2. ToldView'[u] = [ reply   |-> ReplyOf(s),
                       body    |-> IF s = 200 THEN req'[u].body ELSE NULL,
                       receipt |-> IF s = 200 THEN req'[u].receipt ELSE NULL ]
  BY DEF ToldView, ToldTo
<1>3. /\ s = 200 => ReplyOf(s) = "served"
      /\ s = 402 => ReplyOf(s) = "refused"
      /\ s \notin {200, 402} => ReplyOf(s) = "put off"
  BY <1>1 DEF ReplyOf, Statuses
<1>4. \A reply : [Paid!Nothing EXCEPT !.reply = reply] =
                  [reply |-> reply, body |-> NULL, receipt |-> NULL]
  BY DEF Paid!Nothing
<1>. HIDE DEF s
<1>5. ASSUME s # 200
      PROVE  ToldView'[u] = [reply |-> ReplyOf(s), body |-> NULL, receipt |-> NULL]
  BY <1>2, <1>5
<1>6. ASSUME s = 200
      PROVE  ToldView'[u] = [reply |-> "served", body |-> req'[u].body,
                             receipt |-> req'[u].receipt]
  BY <1>2, <1>3, <1>6
<1>7. s \notin {200, 402} => ToldView'[u] = [Paid!Nothing EXCEPT !.reply = "put off"]
  BY <1>3, <1>4, <1>5
<1>8. s = 402 => ToldView'[u] = [Paid!Nothing EXCEPT !.reply = "refused"]
  BY <1>3, <1>4, <1>5
<1>. QED
  BY <1>6, <1>7, <1>8 DEF s

(* A step of request u that PayOnce does not see.                          *)
LEMMA SeesNothing ==
  ASSUME WholeInv, WholeInv', NEW u \in Requests, Frame(u), spent' = spent,
         DealsView'[Key(u)] = DealsView[Key(u)],
         req' = req \/ (~ At(u, "answered") /\ req'[u].status = req[u].status)
  PROVE  UNCHANGED View
<1>1. Key(u) \in RecordKeys
  BY KeyInTable DEF WholeInv
<1>2. ToldView'[u] = ToldView[u]
  <2>1. CASE req' = req
    BY <2>1 DEF ToldView, ToldTo
  <2>2. CASE ~ At(u, "answered") /\ req'[u].status = req[u].status
    BY <2>2, ToldNothing
  <2>. QED
    BY <2>1, <2>2
<1>. QED
  BY <1>1, <1>2, StepSeen, DealEdited, AnswerEdited DEF View

LEMMA PutsOff ==
  ASSUME WholeInv, WholeInv', NEW u \in Requests, Frame(u), spent' = spent,
         DealsView'[Key(u)] = DealsView[Key(u)],
         ~ At(u, "answered"), req'[u].status \in Statuses \ {200, 402}
  PROVE  Paid!Next
<1>1. Key(u) \in RecordKeys
  BY KeyInTable DEF WholeInv
<1>2. DealsView' = DealsView /\ OrdersView' = OrdersView
  BY <1>1, StepSeen, DealEdited
<1>3. ToldView' = [ToldView EXCEPT ![u] = [Paid!Nothing EXCEPT !.reply = "put off"]]
  <2>1. ToldView'[u] = [Paid!Nothing EXCEPT !.reply = "put off"]
    BY ToldAnswer
  <2>2. ToldView' = [ToldView EXCEPT ![u] = ToldView'[u]]
    BY StepSeen, AnswerEdited
  <2>. QED
    BY <2>1, <2>2, Zenon
<1>4. ToldView[u] = Paid!Nothing
  BY ToldNothing
<1>5. Paid!PutOff(u)
  BY <1>2, <1>3, <1>4 DEF Paid!PutOff, Paid!Tell
<1>. QED
  BY <1>5 DEF Paid!Next

LEMMA Refuses ==
  ASSUME WholeInv, WholeInv', NEW u \in Requests, Frame(u), spent' = spent,
         NEW k \in RecordKeys, k = Key(u), DealsView[k] # NoRow,
         DealsView[k].auth = req[u].input.auth,
         \/ DealsView[k].money = "never" /\ DealsView'[k] = DealsView[k]
         \/ /\ DealsView[k].money = "open"
            /\ DealsView'[k] = [DealsView[k] EXCEPT !.money = "never", !.answer = NULL],
         ~ At(u, "answered"), req'[u].status = 402
  PROVE  Paid!Next
<1>1. /\ DealsView'[k] = DealsView[k] => DealsView' = DealsView
      /\ DealsView' = [DealsView EXCEPT ![k] = DealsView'[k]]
      /\ OrdersView' = OrdersView
  BY StepSeen, DealEdited
<1>2. ToldView' = [ToldView EXCEPT ![u] = [Paid!Nothing EXCEPT !.reply = "refused"]]
  <2>1. ToldView'[u] = [Paid!Nothing EXCEPT !.reply = "refused"]
    BY ToldAnswer DEF Statuses
  <2>2. ToldView' = [ToldView EXCEPT ![u] = ToldView'[u]]
    BY StepSeen, AnswerEdited
  <2>. QED
    BY <2>1, <2>2, Zenon
<1>3. ToldView[u] = Paid!Nothing
  BY ToldNothing
<1>4. Paid!Tell(u, [Paid!Nothing EXCEPT !.reply = "refused"])
  BY <1>1, <1>2, <1>3 DEF Paid!Tell
<1>5. OrdersView[u].item = k /\ OrdersView[u].auth = req[u].input.auth
  BY DEF OrdersView
<1>6. Paid!NeverPaid(k) \/ (DealsView[k].money = "never" /\ UNCHANGED DealsView)
  <2>1. CASE DealsView[k].money = "never" /\ DealsView'[k] = DealsView[k]
    BY <1>1, <2>1
  <2>2. CASE /\ DealsView[k].money = "open"
             /\ DealsView'[k] = [DealsView[k] EXCEPT !.money = "never", !.answer = NULL]
    <3>1. DealsView' = [DealsView EXCEPT ![k] =
                          [DealsView[k] EXCEPT !.money = "never", !.answer = NULL]]
      BY <1>1, <2>2, Zenon
    <3>2. DealsView' = [DealsView EXCEPT ![k].money = "never", ![k].answer = NULL]
      BY <3>1 DEF DealsView
    <3>. QED
      BY <2>2, <3>2 DEF Paid!NeverPaid, Paid!Made
  <2>. QED
    BY <2>1, <2>2
<1>7. Paid!Refuse(u)
  BY <1>4, <1>5, <1>6 DEF Paid!Refuse, Paid!Made
<1>. QED
  BY <1>7 DEF Paid!Next

LEMMA Serves ==
  ASSUME WholeInv, WholeInv', NEW u \in Requests, Frame(u), spent' = spent,
         NEW k \in RecordKeys, k = Key(u), Present(k), k \in charged,
         DealsView'[k] = DealsView[k], req[u].input.auth \in spent,
         rows[k].kind = "settle" \/ rows[k].state = "fulfilled",
         req'[u].body = rows[k].body, req'[u].receipt = ReceiptOf(k), ReceiptOf(k) # NULL,
         ~ At(u, "answered"), req'[u].status = 200
  PROVE  Paid!Next
<1>1. DealsView' = DealsView /\ OrdersView' = OrdersView
  BY StepSeen, DealEdited
<1>2. ToldView' = [ToldView EXCEPT ![u] = [reply |-> "served", body |-> req'[u].body,
                                           receipt |-> req'[u].receipt]]
  <2>1. ToldView'[u] = [reply |-> "served", body |-> req'[u].body,
                        receipt |-> req'[u].receipt]
    BY ToldAnswer DEF Statuses
  <2>2. ToldView' = [ToldView EXCEPT ![u] = ToldView'[u]]
    BY StepSeen, AnswerEdited
  <2>. QED
    BY <2>1, <2>2, Zenon
<1>3. ToldView[u] = Paid!Nothing
  BY ToldNothing
<1>4. /\ DealsView[k] # NoRow /\ DealsView[k].money = "moved"
      /\ DealsView[k].answer = rows[k].body /\ DealsView[k].receipt = ReceiptOf(k)
  <2>1. DealsView[k] = DealOf(k) /\ DealsView[k] # NoRow
    BY DealSeen
  <2>2. /\ DealOf(k).money = "moved" /\ DealOf(k).receipt = ReceiptOf(k)
        /\ DealOf(k).answer = rows[k].body
    BY DEF DealOf
  <2>. QED
    BY <2>1, <2>2
<1>5. OrdersView[u].item = k /\ OrdersView[u].auth = req[u].input.auth
  BY DEF OrdersView
<1>6. Paid!Tell(u, [reply |-> "served", body |-> DealsView[k].answer,
                    receipt |-> DealsView[k].receipt])
  BY <1>1, <1>2, <1>3, <1>4 DEF Paid!Tell
<1>7. Paid!Serve(u)
  BY <1>1, <1>4, <1>5, <1>6 DEF Paid!Serve, Paid!Made
<1>. QED
  BY <1>7 DEF Paid!Next

(* What a call that the coordinator accepts does to the row, as far as     *)
(* PayOnce sees it: the answer is decided with the settle lease, the deal  *)
(* is off with a definitive failure, and no other call shows.              *)

Fails == {"failVerifyDefinitive", "failPostVerifyDefinitive", "failSettleDefinitive"}

SettleCalls == {"completeFulfillment", "markSettleUncertain", "failSettleDefinitive"}

Decided(row) == row.kind = "settle" \/ row.state = "fulfilled"

LEMMA EffectDecides ==
  ASSUME OrchestratorTypeOK, CoordinatorInv, NEW w \in Requests, NEW m \in Calls,
         Effect(w, m), NEW k \in RecordKeys, k = Key(w)
  PROVE  /\ rows[k].state # "failed-definitive"
         /\ m \in SettleCalls => Holds(w)
         /\ m \notin SettleCalls => ~ Decided(rows[k])
         /\ rows'[k].state = "failed-definitive" <=> m \in Fails
         /\ Decided(rows'[k]) <=> m = "acquireSettleLease" \/ m \in SettleCalls \ Fails
         /\ m = "completeFulfillment" => rows'[k].kind # "settle"
         /\ m = "markSettleUncertain" =>
              /\ rows'[k].kind = rows[k].kind /\ rows'[k].token = rows[k].token
              /\ rows'[k].receipt = rows[k].receipt
<1>1. /\ Present(k) /\ rows[k] \in Row /\ WellFormed(rows[k], issued)
      /\ Rank(rows'[k]) > Rank(rows[k]) /\ rows'[k] \in Row
  BY EffectMoves
<1>2. /\ rows \in [RecordKeys -> Row \cup {NoRow}]
      /\ \A row : Put(k, row) => rows'[k] = row
  BY <1>1 DEF CoordinatorInv, TypeOK, Put
<1>3. rows[k].state # "fulfilled" /\ rows[k].state # "failed-definitive"
  BY <1>1 DEF Rank, Row, States, InProgressStates, Kinds
<1>4. NULL # "settle"
  BY CoordinatorAssumption DEF Kinds
<1>. USE <1>1 DEF Decided
<1>5. CASE m \in {"acquireVerifyLease", "acquireSettleLease"}
  <2>1. PICK t \in Tokens : AcquireVerifyLease(k, t) \/ AcquireSettleLease(k, t)
    BY <1>5 DEF Effect
  <2>2. rows[k].state \in {"reserved", "computing"} /\ rows[k].kind # "settle"
    BY <1>4, <2>1 DEF AcquireVerifyLease, AcquireSettleLease, CanAcquireVerifyLease,
                      CanAcquireSettleLease, InState, WellFormed
  <2>3. CASE m = "acquireVerifyLease"
    <3>1. PICK s \in Tokens : AcquireVerifyLease(k, s)
      BY <2>3 DEF Effect
    <3>2. rows'[k] = [rows[k] EXCEPT !.state = "verifying", !.kind = "verify",
                                     !.gen = @ + 1, !.token = s]
      BY <1>2, <3>1 DEF AcquireVerifyLease, GrantLease
    <3>3. rows'[k].state = "verifying" /\ rows'[k].kind = "verify"
      BY <3>2 DEF Row
    <3>. QED
      BY <1>3, <2>2, <2>3, <3>3 DEF SettleCalls, Fails
  <2>4. CASE m = "acquireSettleLease"
    <3>1. PICK s \in Tokens : AcquireSettleLease(k, s)
      BY <2>4 DEF Effect
    <3>2. rows'[k] = [rows[k] EXCEPT !.state = "settling", !.kind = "settle",
                                     !.gen = @ + 1, !.token = s]
      BY <1>2, <3>1 DEF AcquireSettleLease, GrantLease
    <3>3. rows'[k].state = "settling" /\ rows'[k].kind = "settle"
      BY <3>2 DEF Row
    <3>. QED
      BY <1>3, <2>2, <2>4, <3>3 DEF SettleCalls, Fails
  <2>. QED
    BY <1>5, <2>3, <2>4
<1>6. CASE m = "stageResponse"
  <2>1. /\ rows[k].state = "verified"
        /\ rows'[k] = [rows[k] EXCEPT !.state = "computing", !.body = req[w].body]
    BY <1>2, <1>6 DEF Effect, StageResponse, CanStageResponse, InState
  <2>2. rows[k].kind # "settle"
    BY <2>1 DEF WellFormed
  <2>3. rows'[k].state = "computing" /\ rows'[k].kind = rows[k].kind
    BY <2>1 DEF Row
  <2>. QED
    BY <1>3, <1>6, <2>2, <2>3 DEF SettleCalls, Fails
<1>7. CASE m \in {"completeVerify", "markVerifyUncertain", "markSettleUncertain"}
  <2>1. PICK state \in {"verified", "uncertain"} : SetState(k, state)
    BY <1>7 DEF Effect, CompleteVerify, MarkVerifyUncertain, MarkSettleUncertain
  <2>2. rows'[k] = [rows[k] EXCEPT !.state = state]
    BY <1>2, <2>1 DEF SetState
  <2>3. /\ rows'[k].state = state /\ rows'[k].kind = rows[k].kind
        /\ rows'[k].token = rows[k].token /\ rows'[k].receipt = rows[k].receipt
    BY <2>2 DEF Row
  <2>4. /\ m = "markSettleUncertain" => Holds(w)
        /\ m # "markSettleUncertain" => rows[k].kind = "verify"
    BY <1>7 DEF Effect, CompleteVerify, CanCompleteVerify, MarkVerifyUncertain, VerifyAwaited,
                MarkSettleUncertain, SettleAwaited, HoldsLease, Holds
  <2>. QED
    BY <1>3, <1>7, <2>3, <2>4 DEF SettleCalls, Fails, Holds
<1>8. CASE m \in Fails
  <2>1. SetFailed(k)
    BY <1>8 DEF Effect, FailVerifyDefinitive, FailPostVerifyDefinitive, FailSettleDefinitive,
                Fails
  <2>2. rows'[k] = [rows[k] EXCEPT !.state = "failed-definitive", !.kind = NULL,
                                   !.token = NULL]
    BY <1>2, <2>1 DEF SetFailed
  <2>3. rows'[k].state = "failed-definitive" /\ rows'[k].kind = NULL
    BY <2>2 DEF Row
  <2>4. /\ m = "failSettleDefinitive" => Holds(w)
        /\ m # "failSettleDefinitive" => rows[k].kind = "verify"
    BY <1>8 DEF Effect, FailVerifyDefinitive, VerifyAwaited, FailPostVerifyDefinitive,
                AwaitsSettlement, FailSettleDefinitive, SettleAwaited, HoldsLease, Holds, Fails
  <2>. QED
    BY <1>3, <1>4, <1>8, <2>3, <2>4 DEF SettleCalls, Fails
<1>9. CASE m = "completeFulfillment"
  <2>1. rows'[k] = [rows[k] EXCEPT !.state = "fulfilled", !.receipt = req[w].receipt,
                                   !.kind = NULL, !.token = NULL]
    BY <1>2, <1>9 DEF Effect, CompleteFulfillment
  <2>2. rows'[k].state = "fulfilled" /\ rows'[k].kind = NULL
    BY <2>1 DEF Row
  <2>3. Holds(w)
    BY <1>9 DEF Effect, CompleteFulfillment, CanCompleteFulfillment, HoldsLease, Holds
  <2>. QED
    BY <1>3, <1>4, <1>9, <2>2, <2>3 DEF SettleCalls, Fails
<1>. QED
  BY <1>5, <1>6, <1>7, <1>8, <1>9 DEF Calls, Methods, Reading, Fails

(* What an edit of a deal leaves of it.                                    *)
LEMMA DealEdits ==
  ASSUME NEW d \in Paid!Deal, NEW e \in Paid!Deal, e.auth = d.auth
  PROVE  /\ e.money = "never" /\ e.answer = NULL /\ e.receipt = d.receipt =>
              e = [d EXCEPT !.money = "never", !.answer = NULL]
         /\ e.money = d.money /\ e.receipt = d.receipt => e = [d EXCEPT !.answer = e.answer]
         /\ e.money = "moved" /\ e.answer = d.answer =>
              e = [d EXCEPT !.money = "moved", !.receipt = e.receipt]
<1>1. [d EXCEPT !.money = "never", !.answer = NULL] \in Paid!Deal
  BY DEF Paid!Deal
<1>2. [d EXCEPT !.answer = e.answer] \in Paid!Deal
  BY DEF Paid!Deal
<1>3. [d EXCEPT !.money = "moved", !.receipt = e.receipt] \in Paid!Deal
  BY DEF Paid!Deal
<1>4. e.money = "never" /\ e.answer = NULL /\ e.receipt = d.receipt =>
        e = [d EXCEPT !.money = "never", !.answer = NULL]
  BY <1>1 DEF Paid!Deal
<1>5. e.money = d.money /\ e.receipt = d.receipt => e = [d EXCEPT !.answer = e.answer]
  BY <1>2 DEF Paid!Deal
<1>6. e.money = "moved" /\ e.answer = d.answer =>
        e = [d EXCEPT !.money = "moved", !.receipt = e.receipt]
  BY <1>3 DEF Paid!Deal
<1>. QED
  BY <1>4, <1>5, <1>6

(* What an accepted call shows of itself: a definitive failure calls the   *)
(* deal off, the settle lease decides the answer, no other call shows.     *)
Shows(k, m) ==
  /\ DealsView[k] # NoRow
  /\ m \in Fails =>
       /\ DealsView[k].money = "open"
       /\ DealsView'[k] = [DealsView[k] EXCEPT !.money = "never", !.answer = NULL]
  /\ m = "acquireSettleLease" =>
       /\ DealsView[k].money = "open" /\ DealsView[k].answer = NULL
       /\ rows[k].body \in Bodies
       /\ DealsView'[k] = [DealsView[k] EXCEPT !.answer = rows[k].body]
  /\ m \notin Fails \cup {"acquireSettleLease"} => DealsView'[k] = DealsView[k]

LEMMA EffectSees ==
  ASSUME WholeInv, WholeInv', NEW u \in Requests, Frame(u), NEW m \in Calls, Effect(u, m),
         NEW k \in RecordKeys, k = Key(u), charged' = charged,
         m = "completeFulfillment" => k \in charged,
         m = "failSettleDefinitive" => k \notin charged,
         m \in SettleCalls => SameLease(u) /\ req'[u].receipt = req[u].receipt
  PROVE  Shows(k, m)
<1>. USE DEF WholeInv
<1>1. /\ Present(k) /\ rows'[k] # NoRow
      /\ WellFormed(rows[k], issued) /\ WellFormed(rows'[k], issued')
      /\ rows[k].body # NULL => rows'[k].body = rows[k].body
  BY EffectMoves
<1>2. rows'[k].auth = rows[k].auth
  <2>1. m \in Methods
    BY DEF Calls
  <2>. QED
    BY <1>1, <2>1, EffectIsNext, AuthKept
<1>3. /\ rows[k].state # "failed-definitive"
      /\ m \in SettleCalls => Holds(u)
      /\ m \notin SettleCalls => ~ Decided(rows[k])
      /\ rows'[k].state = "failed-definitive" <=> m \in Fails
      /\ Decided(rows'[k]) <=> m = "acquireSettleLease" \/ m \in SettleCalls \ Fails
      /\ m = "completeFulfillment" => rows'[k].kind # "settle"
      /\ m = "markSettleUncertain" =>
           /\ rows'[k].kind = rows[k].kind /\ rows'[k].token = rows[k].token
           /\ rows'[k].receipt = rows[k].receipt
  BY EffectDecides
<1>4. m \in SettleCalls => Decided(rows[k])
  BY <1>3 DEF Holds, Decided
<1>5. k \in charged => m \in {"completeFulfillment", "markSettleUncertain"}
  BY <1>3 DEF SafetyInv, Accounted, Decided, SettleCalls
<1>6. \A w \in Requests : Key(w)' = Key(w)
  BY DEF Frame, Key
<1>7. ReceiptOf(k)' = ReceiptOf(k)
  <2>1. CASE k \notin charged
    BY <1>1, <2>1, ReceiptStays
  <2>2. CASE m = "markSettleUncertain"
    <3>1. ASSUME NEW w \in Requests, Key(w) = k
          PROVE  Token(w)' = Token(w) /\ req'[w].receipt = req[w].receipt
      BY <2>2 DEF Frame, SameLease, Token, SettleCalls
    <3>2. ASSUME NEW w \in Requests, Key(w) = k
          PROVE  Holds(w)' <=> Holds(w)
      BY <1>1, <1>3, <1>6, <2>2, <3>1, <3>2 DEF Holds, Present
    <3>. QED
      BY <1>1, <1>3, <1>6, <2>2, <3>1, <3>2, ReceiptStays
  <2>3. CASE m = "completeFulfillment"
    <3>1. ReceiptOf(k) = req[u].receipt
      BY <1>1, <1>3, <2>3 DEF DealsKnown, SettleCalls
    <3>2. \A w \in Requests : Key(w)' = k => ~ Holds(w)'
      BY <1>3, <2>3 DEF Holds
    <3>3. ReceiptOf(k)' = rows'[k].receipt
      BY <1>1, <3>2 DEF DealsKnown, Present
    <3>. QED
      BY <2>3, <3>1, <3>3, EffectTells
  <2>. QED
    BY <1>5, <2>1, <2>2, <2>3
<1>8. /\ DealsView[k] = DealOf(k) /\ DealsView[k] # NoRow
      /\ DealsView'[k] = DealOf(k)'
  BY <1>1, DealSeen, DealSeenNext
<1>. DEFINE money == IF k \in charged THEN "moved" ELSE "open"
<1>9. DealOf(k) = [ auth |-> rows[k].auth, money |-> money,
                    answer |-> IF Decided(rows[k]) THEN rows[k].body ELSE NULL,
                    receipt |-> ReceiptOf(k) ]
  BY <1>3 DEF DealOf, Decided
<1>10. DealOf(k)' = [ auth |-> rows[k].auth,
                      money |-> IF k \in charged THEN "moved"
                                ELSE IF m \in Fails THEN "never" ELSE "open",
                      answer |-> IF Decided(rows'[k]) THEN rows'[k].body ELSE NULL,
                      receipt |-> ReceiptOf(k) ]
  BY <1>2, <1>3, <1>7 DEF DealOf, Decided
<1>11. Decided(rows[k]) => rows[k].body # NULL /\ rows'[k].body = rows[k].body
  BY <1>1, CoordinatorAssumption DEF WellFormed, Decided
<1>12. DealsView[k] \in Paid!Deal /\ DealsView'[k] \in Paid!Deal
  BY <1>1, <1>8 DEF DealsKnown, Present
<1>13. CASE m \in Fails
  <2>1. k \notin charged /\ ~ Decided(rows'[k])
    BY <1>3, <1>5, <1>13 DEF Fails, SettleCalls
  <2>2. /\ DealsView[k].money = "open" /\ DealsView'[k].auth = DealsView[k].auth
        /\ DealsView'[k].money = "never" /\ DealsView'[k].answer = NULL
        /\ DealsView'[k].receipt = DealsView[k].receipt
    BY <1>8, <1>9, <1>10, <1>13, <2>1
  <2>3. DealsView'[k] = [DealsView[k] EXCEPT !.money = "never", !.answer = NULL]
    BY <1>12, <2>2, DealEdits
  <2>. QED
    BY <1>8, <1>13, <2>2, <2>3 DEF Fails, Shows
<1>14. CASE m = "acquireSettleLease"
  <2>1. ~ Decided(rows[k]) /\ k \notin charged /\ Decided(rows'[k]) /\ m \notin Fails
    BY <1>3, <1>5, <1>14 DEF Fails, SettleCalls
  <2>2. rows[k].body \in Bodies /\ rows'[k].body = rows[k].body
    BY <1>1, <1>14, EffectTells, CoordinatorAssumption DEF WellFormed
  <2>3. /\ DealsView[k].money = "open" /\ DealsView[k].answer = NULL
        /\ DealsView'[k].auth = DealsView[k].auth /\ DealsView'[k].money = "open"
        /\ DealsView'[k].answer = rows[k].body
        /\ DealsView'[k].receipt = DealsView[k].receipt
    BY <1>8, <1>9, <1>10, <2>1, <2>2
  <2>4. DealsView'[k] = [DealsView[k] EXCEPT !.answer = rows[k].body]
    <3>1. DealsView'[k].money = DealsView[k].money
      BY <2>3
    <3>2. DealsView'[k] = [DealsView[k] EXCEPT !.answer = DealsView'[k].answer]
      BY <1>12, <2>3, <3>1, DealEdits
    <3>. QED
      BY <2>3, <3>2, Zenon
  <2>. QED
    BY <1>8, <1>14, <2>1, <2>2, <2>3, <2>4 DEF Shows
<1>15. CASE m \notin Fails \cup {"acquireSettleLease"}
  <2>1. Decided(rows'[k]) <=> Decided(rows[k])
    BY <1>3, <1>4, <1>15
  <2>2. DealOf(k)' = DealOf(k)
    BY <1>9, <1>10, <1>11, <1>15, <2>1
  <2>. QED
    BY <1>8, <1>15, <2>2 DEF Shows
<1>. QED
  BY <1>13, <1>14, <1>15

(* The steps of the route, as steps of PayOnce.                            *)

(* The step of request u answers nobody.                                   *)
TellsNobody(u) == req' = req \/ (~ At(u, "answered") /\ req'[u].status = req[u].status)

LEMMA TellsNobodyStays ==
  ASSUME WholeInv, WholeInv', NEW u \in Requests, Frame(u), TellsNobody(u)
  PROVE  ToldView' = ToldView
<1>1. ToldView'[u] = ToldView[u]
  <2>1. CASE req' = req
    BY <2>1 DEF ToldView, ToldTo
  <2>2. CASE ~ At(u, "answered") /\ req'[u].status = req[u].status
    BY <2>2, ToldNothing
  <2>. QED
    BY <2>1, <2>2 DEF TellsNobody
<1>. QED
  BY <1>1, StepSeen, AnswerEdited

(* A call that the coordinator accepts, now or late.                       *)
LEMMA CallMapped ==
  ASSUME WholeInv, WholeInv', NEW u \in Requests, Frame(u), NEW m \in Calls, Effect(u, m),
         UNCHANGED <<charged, spent>>,
         NEW k \in RecordKeys, k = Key(u),
         m = "completeFulfillment" => k \in charged,
         m = "failSettleDefinitive" => k \notin charged,
         m \in SettleCalls => SameLease(u) /\ req'[u].receipt = req[u].receipt,
         TellsNobody(u)
  PROVE  [Paid!Next]_View
<1>1. k \in Paid!Items
  BY DEF Paid!Items, RecordKeys
<1>2. Shows(k, m)
  BY EffectSees
<1>3. ToldView' = ToldView /\ OrdersView' = OrdersView /\ spent' = spent
  BY TellsNobodyStays, StepSeen
<1>4. /\ DealsView' = [DealsView EXCEPT ![k] = DealsView'[k]]
      /\ DealsView'[k] = DealsView[k] => DealsView' = DealsView
  BY <1>1, StepSeen, DealEdited
<1>5. CASE m \in Fails
  <2>1. DealsView' = [DealsView EXCEPT ![k] =
                        [DealsView[k] EXCEPT !.money = "never", !.answer = NULL]]
    BY <1>2, <1>4, <1>5, Zenon DEF Shows
  <2>2. DealsView' = [DealsView EXCEPT ![k].money = "never", ![k].answer = NULL]
    BY <1>1, <2>1 DEF DealsView
  <2>3. Paid!GiveUp(k)
    BY <1>2, <1>3, <1>5, <2>2 DEF Shows, Paid!GiveUp, Paid!NeverPaid, Paid!Made
  <2>. QED
    BY <1>1, <2>3 DEF Paid!Next
<1>6. CASE m = "acquireSettleLease"
  <2>1. DealsView' = [DealsView EXCEPT ![k] = [DealsView[k] EXCEPT !.answer = rows[k].body]]
    BY <1>2, <1>4, <1>6, Zenon DEF Shows
  <2>2. DealsView' = [DealsView EXCEPT ![k].answer = rows[k].body]
    BY <1>1, <2>1 DEF DealsView
  <2>3. Paid!Decide(k, rows[k].body)
    BY <1>2, <1>3, <1>6, <2>2 DEF Shows, Paid!Decide, Paid!Made
  <2>. QED
    BY <1>1, <1>2, <1>6, <2>3 DEF Shows, Paid!Next
<1>7. CASE m \notin Fails \cup {"acquireSettleLease"}
  BY <1>2, <1>3, <1>4, <1>7 DEF Shows, View
<1>. QED
  BY <1>5, <1>6, <1>7

(* An attempt is reserved, now or late.                                    *)
LEMMA Accepts ==
  ASSUME WholeInv, WholeInv', NEW u \in Requests, Frame(u), PrepareAttempt(req[u].input),
         UNCHANGED <<calls, charged, spent>>, TellsNobody(u),
         NEW k \in RecordKeys, k = Key(u), NEW i \in Inputs, i = req[u].input
  PROVE  Paid!Next
<1>1. k = KeyOf(i)
  BY DEF Key
<1>2. ~ Present(k) /\ k \notin charged /\ rows'[k] # NoRow
  BY <1>1, ReserveKeeps DEF WholeInv
<1>3. rows'[k] = NewRow(i)
  <2>1. NewRow(i) \in Row
    BY <1>1, CoordinatorAssumption DEF NewRow, Inputs, Row, States, InProgressStates
  <2>. QED
    BY <1>1, <2>1, PutRow DEF PrepareAttempt, WholeInv, CoordinatorInv
<1>4. ReceiptOf(k)' = NULL
  BY <1>1, <1>2 DEF WholeInv, DealsKnown, Present
<1>5. DealOf(k)' = [auth |-> i.auth, money |-> "open", answer |-> NULL, receipt |-> NULL]
  <2>1. NULL # "settle"
    BY CoordinatorAssumption DEF Kinds
  <2>2. /\ rows'[k].auth = i.auth /\ rows'[k].state = "reserved" /\ rows'[k].kind = NULL
    BY <1>3 DEF NewRow
  <2>. QED
    BY <1>2, <1>4, <2>1, <2>2 DEF DealOf
<1>6. /\ ToldView' = ToldView /\ OrdersView' = OrdersView
      /\ DealsView' = [DealsView EXCEPT ![k] = DealsView'[k]]
  BY <1>1, TellsNobodyStays, StepSeen, DealEdited
<1>7. DealsView'[k] = DealOf(k)'
  BY <1>1, <1>2, DealSeenNext
<1>8. OrdersView[u].item = k /\ OrdersView[u].auth = i.auth
  BY DEF OrdersView
<1>9. ASSUME NEW j \in Paid!Items, Paid!Made(j)
      PROVE  j[1] # k[1] /\ DealsView[j].auth # i.auth
  <2>1. j \in RecordKeys
    BY DEF Paid!Items, RecordKeys
  <2>2. Present(j) /\ DealsView[j] = DealOf(j)
    BY <1>9, <2>1, DealSeen DEF Paid!Made
  <2>3. DealsView[j].auth = rows[j].auth
    BY <2>2 DEF DealOf
  <2>. QED
    BY <1>1, <2>1, <2>2, <2>3
       DEF PrepareAttempt, RowsByPaymentIdentifier, RowsByAuthCommitment, KeyOf
<1>10. DealsView' = [DealsView EXCEPT ![k] = [auth |-> i.auth, money |-> "open",
                                              answer |-> NULL, receipt |-> NULL]]
  BY <1>5, <1>6, <1>7, Zenon
<1>11. Paid!Accept(u)
  BY <1>6, <1>8, <1>9, <1>10 DEF Paid!Accept
<1>. QED
  BY <1>11 DEF Paid!Next

(* Money moves for the deal of an engaged request that holds its row.      *)
LEMMA PaysOnce ==
  ASSUME WholeInv, WholeInv', NEW u \in Requests, Frame(u), Engaged(u), MoneyMoves(u),
         NEW k \in RecordKeys, k = Key(u), k \notin charged, rows[k].kind = "settle",
         UNCHANGED rows, TellsNobody(u)
  PROVE  Paid!Next
<1>1. k \in Paid!Items /\ Present(k) /\ rows[k].auth = req[u].input.auth
  BY KeyInTable DEF WholeInv, SafetyInv, Fits, DealInv, Paid!Items, RecordKeys
<1>2. k \in charged' /\ rows'[k] # NoRow
  BY <1>1 DEF MoneyMoves, Present
<1>3. /\ DealsView[k] = DealOf(k) /\ DealsView[k] # NoRow /\ DealsView'[k] = DealOf(k)'
  BY <1>1, <1>2, DealSeen, DealSeenNext
<1>4. DealsView[k] \in Paid!Deal /\ DealsView'[k] \in Paid!Deal
  BY <1>1, <1>2, <1>3 DEF WholeInv, DealsKnown, Present
<1>5. rows[k].state # "failed-definitive" /\ rows[k].body # NULL
  <2>1. WellFormed(rows[k], issued)
    BY <1>1, RowOf DEF WholeInv
  <2>. QED
    BY <2>1, CoordinatorAssumption DEF WellFormed, Kinds
<1>6. /\ DealOf(k).auth = rows[k].auth /\ DealOf(k).money = "open"
      /\ DealOf(k).answer = rows[k].body
  BY <1>5 DEF DealOf
<1>7. /\ DealOf(k)'.auth = rows[k].auth /\ DealOf(k)'.money = "moved"
      /\ DealOf(k)'.answer = rows[k].body
  BY <1>2 DEF DealOf
<1>. DEFINE receipt == DealsView'[k].receipt
<1>8. receipt \in Receipts \cup {NULL}
  BY <1>4 DEF Paid!Deal
<1>9. DealsView'[k] = [DealsView[k] EXCEPT !.money = "moved", !.receipt = receipt]
  <2>1. /\ DealsView'[k].auth = DealsView[k].auth /\ DealsView'[k].money = "moved"
        /\ DealsView'[k].answer = DealsView[k].answer
    BY <1>3, <1>6, <1>7
  <2>. QED
    BY <1>4, <2>1, DealEdits, Zenon
<1>10. /\ ToldView' = ToldView /\ OrdersView' = OrdersView
       /\ DealsView' = [DealsView EXCEPT ![k] = DealsView'[k]]
  BY <1>1, TellsNobodyStays, StepSeen, DealEdited
<1>11. DealsView[k].auth \notin spent /\ spent' = spent \cup {DealsView[k].auth}
  BY <1>1, <1>3, <1>6 DEF MoneyMoves
<1>. HIDE DEF receipt
<1>12. DealsView' = [DealsView EXCEPT ![k] =
                       [DealsView[k] EXCEPT !.money = "moved", !.receipt = receipt]]
  BY <1>9, <1>10, Zenon
<1>13. DealsView' = [DealsView EXCEPT ![k].money = "moved", ![k].receipt = receipt]
  BY <1>1, <1>12 DEF DealsView
<1>14. Paid!Pay(k, receipt)
  BY <1>3, <1>5, <1>6, <1>10, <1>11, <1>13 DEF Paid!Pay, Paid!Made
<1>. QED
  BY <1>1, <1>8, <1>14 DEF Paid!Next

LEMMA RowUntouched ==
  ASSUME WholeInv, WholeInv', NEW u \in Requests, Frame(u), NEW k \in RecordKeys, k = Key(u),
         rows' = rows, charged' = charged, SameLease(u),
         req'[u].receipt = req[u].receipt \/ ~ Holds(u)
  PROVE  DealsView'[k] = DealsView[k]
<1>1. CASE ~ Present(k)
  BY <1>1, DealSeen, DealSeenNext DEF Present
<1>2. CASE Present(k)
  <2>1. SameRow(k)
    BY <1>2 DEF SameRow, Present
  <2>2. ASSUME NEW w \in Requests
        PROVE  /\ Key(w)' = Key(w) /\ Token(w)' = Token(w)
               /\ Holds(w) => req'[w].receipt = req[w].receipt
    BY DEF Frame, Key, Token, SameLease
  <2>. QED
    BY <2>1, <2>2, DealStays
<1>. QED
  BY <1>1, <1>2

(* A step that touches neither row nor money, and at most puts u off.      *)
LEMMA Quietly ==
  ASSUME WholeInv, WholeInv', NEW u \in Requests, Frame(u), NEW k \in RecordKeys, k = Key(u),
         rows' = rows, charged' = charged, spent' = spent, SameLease(u),
         req'[u].receipt = req[u].receipt, ~ At(u, "answered"),
         req'[u].status = req[u].status \/ req'[u].status \in Statuses \ {200, 402}
  PROVE  [Paid!Next]_View
<1>1. DealsView'[Key(u)] = DealsView[Key(u)]
  BY RowUntouched
<1>2. CASE req'[u].status = req[u].status
  BY <1>1, <1>2, SeesNothing
<1>3. CASE req'[u].status \in Statuses \ {200, 402}
  BY <1>1, <1>3, PutsOff
<1>. QED
  BY <1>2, <1>3

(* Money moves for an engaged request, or may yet.                         *)
LEMMA UnknownMapped ==
  ASSUME WholeInv, WholeInv', NEW u \in Requests, Frame(u), NEW k \in RecordKeys, k = Key(u),
         Engaged(u), MoneyUnknown(u), k \notin charged, rows[k].kind = "settle",
         rows' = rows, SameLease(u), req'[u].receipt = req[u].receipt,
         ~ At(u, "answered"), req'[u].status = req[u].status
  PROVE  [Paid!Next]_View
<1>1. CASE MoneyMoves(u)
  <2>1. TellsNobody(u)
    BY DEF TellsNobody
  <2>. QED
    BY <1>1, <2>1, PaysOnce
<1>2. CASE UNCHANGED <<charged, spent>>
  BY <1>2, Quietly
<1>. QED
  BY <1>1, <1>2 DEF MoneyUnknown

LEMMA AnswerMapped ==
  ASSUME WholeInv, WholeInv', NEW u \in Requests, Frame(u), ~ At(u, "answered"),
         rows' = rows, charged' = charged, spent' = spent,
         NEW status \in Statuses \ {200, 402},
         Answer(u, status) \/ \E m \in Methods : ThrowsToAnswer(u, m, status)
  PROVE  [Paid!Next]_View
<1>1. Key(u) \in RecordKeys
  BY KeyInTable DEF WholeInv
<1>2. SameData(u) /\ req'[u].status = status /\ SameLease(u)
  BY AnswerDoes, ThrowsToAnswerDoes, EndKeepsLease DEF WholeInv
<1>3. req'[u].receipt = req[u].receipt /\ req'[u].status \in Statuses \ {200, 402}
  BY <1>2 DEF SameData
<1>. QED
  BY <1>1, <1>2, <1>3, Quietly

LEMMA GoToMapped ==
  ASSUME WholeInv, WholeInv', NEW u \in Requests, Frame(u), ~ At(u, "answered"),
         NEW label \in Labels, GoTo(u, label), rows' = rows, charged' = charged, spent' = spent
  PROVE  [Paid!Next]_View
<1>1. Key(u) \in RecordKeys
  BY KeyInTable DEF WholeInv
<1>2. SameData(u) /\ req'[u].status = req[u].status /\ SameLease(u)
  BY GoToDoes, LeaseKept DEF WholeInv
<1>. QED
  BY <1>1, <1>2, Quietly DEF SameData

(* The actions.                                                            *)

LEMMA PrepareMapped ==
  ASSUME WholeInv, WholeInv', NEW u \in Requests, Frame(u), Prepare(u)
  PROVE  [Paid!Next]_View
<1>. DEFINE reply == PrepareReply(req[u].input)
<1>1. PICK k \in RecordKeys : k = Key(u)
  BY KeyInTable DEF WholeInv
<1>2. ~ At(u, "answered")
  BY DEF Prepare, At
<1>3. CASE PrepareAttempt(req[u].input) /\ GoTo(u, "acquireVerifyLease") /\ NothingElse
  <2>1. req'[u].status = req[u].status
    BY <1>3, GoToDoes DEF WholeInv, Labels, Methods
  <2>2. TellsNobody(u)
    BY <1>2, <2>1 DEF TellsNobody
  <2>3. req[u].input \in Inputs /\ UNCHANGED <<calls, charged, spent>>
    BY <1>3, KeyInTable DEF WholeInv, NothingElse, outside
  <2>. QED
    BY <1>1, <1>3, <2>2, <2>3, Accepts
<1>4. CASE GoTo(u, "getReplay") /\ UNCHANGED vars /\ NothingElse
  BY <1>2, <1>4, GoToMapped DEF Labels, Methods, NothingElse, outside, vars
<1>5. CASE reply = "failed" /\ Answer(u, 402) /\ UNCHANGED vars /\ NothingElse
  <2>1. 402 \in Statuses
    BY DEF Statuses
  <2>2. SameData(u) /\ req'[u].status = 402 /\ SameLease(u)
    BY <1>5, <2>1, AnswerDoes, EndKeepsLease DEF WholeInv
  <2>3. /\ Present(k) /\ rows[k].auth = req[u].input.auth
        /\ rows[k].state = "failed-definitive"
    BY <1>1, <1>5, EndedReply DEF WholeInv
  <2>4. k \notin charged
    <3>1. WellFormed(rows[k], issued)
      BY <2>3, RowOf DEF WholeInv
    <3>2. rows[k].kind # "settle"
      BY <2>3, <3>1 DEF WellFormed
    <3>. QED
      BY <2>3, <3>2 DEF WholeInv, SafetyInv, Accounted
  <2>5. DealsView[k] = DealOf(k) /\ DealsView[k] # NoRow
    BY <2>3, DealSeen
  <2>6. DealOf(k).auth = rows[k].auth /\ DealOf(k).money = "never"
    BY <2>3, <2>4 DEF DealOf
  <2>7. DealsView'[k] = DealsView[k] /\ spent' = spent
    BY <1>1, <1>5, <2>2, RowUntouched DEF SameData, NothingElse, outside, vars
  <2>8. DealsView[k].auth = req[u].input.auth /\ DealsView[k].money = "never"
    BY <2>3, <2>5, <2>6
  <2>. QED
    BY <1>1, <1>2, <2>2, <2>5, <2>7, <2>8, Refuses
<1>6. ASSUME NEW status \in {202, 409, 503}, Answer(u, status), UNCHANGED vars, NothingElse
      PROVE  [Paid!Next]_View
  <2>1. status \in Statuses \ {200, 402}
    BY DEF Statuses
  <2>. QED
    BY <1>2, <1>6, <2>1, AnswerMapped DEF NothingElse, outside, vars
<1>7. CASE ThrowsToAnswer(u, "prepareAttempt", 503)
  <2>1. 503 \in Statuses \ {200, 402} /\ "prepareAttempt" \in Methods
    BY DEF Statuses, Methods
  <2>2. rows' = rows /\ charged' = charged /\ spent' = spent
    BY <1>7 DEF ThrowsToAnswer, Throws, outside, vars
  <2>. QED
    BY <1>2, <1>7, <2>1, <2>2, AnswerMapped
<1>8. /\ reply \in {"created", "conflict", "replay", "failed", "uncertain", "wait"}
      /\ AnswerOf("conflict") = 409 /\ AnswerOf("failed") = 402
      /\ AnswerOf("uncertain") = 503 /\ AnswerOf("wait") = 202
  BY PrepareReplies DEF WholeInv, AnswerOf
<1>9. CASE reply \notin {"created", "replay"} /\ Answer(u, AnswerOf(reply)) /\ UNCHANGED vars
           /\ NothingElse
  <2>1. \/ reply = "failed" /\ Answer(u, 402)
        \/ \E status \in {202, 409, 503} : Answer(u, status)
    BY <1>8, <1>9
  <2>. QED
    BY <1>5, <1>6, <1>9, <2>1
<1>. QED
  BY <1>3, <1>4, <1>7, <1>9 DEF Prepare

LEMMA GetReplayMapped ==
  ASSUME WholeInv, WholeInv', NEW u \in Requests, Frame(u), GetReplay(u)
  PROVE  [Paid!Next]_View
<1>1. PICK k \in RecordKeys : k = Key(u)
  BY KeyInTable DEF WholeInv
<1>2. ~ At(u, "answered") /\ At(u, "getReplay")
  BY DEF GetReplay, At
<1>3. CASE /\ Replay(Key(u)) # NULL
           /\ AnswerPaid(u, Replay(Key(u)).body, Replay(Key(u)).receipt)
           /\ UNCHANGED vars /\ NothingElse
  <2>1. /\ Present(k) /\ rows[k].state = "fulfilled" /\ rows[k].receipt \in ValidReceipts
        /\ Replay(k) = [body |-> rows[k].body, receipt |-> rows[k].receipt]
    BY <1>1, <1>3 DEF Replay
  <2>2. /\ rows[k].body \in Bodies \cup {NULL} /\ rows[k].receipt \in Receipts \cup {NULL}
        /\ AnswerPaid(u, rows[k].body, rows[k].receipt)
    <3>1. rows[k] \in Row
      BY <2>1, RowOf DEF WholeInv
    <3>. QED
      BY <1>1, <1>3, <2>1, <3>1 DEF Row
  <2>3. req'[u].status = 200 /\ req'[u].body = rows[k].body /\ req'[u].receipt = rows[k].receipt
    BY <2>2, AnswerPaidDoes DEF WholeInv
  <2>4. SameLease(u)
    BY <2>2, EndKeepsLease DEF WholeInv
  <2>5. \A w \in Requests : Key(w) = k => ~ Holds(w)
    <3>1. WellFormed(rows[k], issued) /\ NULL # "settle"
      BY <2>1, RowOf, CoordinatorAssumption DEF WholeInv, Kinds
    <3>. QED
      BY <2>1, <3>1 DEF WellFormed, Holds
  <2>6. ReceiptOf(k) = rows[k].receipt /\ ReceiptOf(k) # NULL
    BY <2>1, <2>5, CoordinatorAssumption DEF WholeInv, DealsKnown
  <2>7. k \in charged /\ req[u].input.auth \in spent
    BY <1>2, <2>1 DEF WholeInv, SafetyInv, Accounted, DealInv
  <2>8. rows' = rows /\ charged' = charged /\ spent' = spent
    BY <1>3 DEF NothingElse, outside, vars
  <2>9. DealsView'[k] = DealsView[k]
    BY <1>1, <2>4, <2>5, <2>8, RowUntouched
  <2>10. req'[u].receipt = ReceiptOf(k)
    BY <2>3, <2>6
  <2>. QED
    BY <1>1, <1>2, <2>1, <2>3, <2>6, <2>7, <2>8, <2>9, <2>10, Serves
<1>4. CASE Answer(u, 503) /\ UNCHANGED vars /\ NothingElse
  <2>1. 503 \in Statuses \ {200, 402}
    BY DEF Statuses
  <2>. QED
    BY <1>2, <1>4, <2>1, AnswerMapped DEF NothingElse, outside, vars
<1>5. CASE ThrowsToAnswer(u, "getReplay", 500)
  <2>1. 500 \in Statuses \ {200, 402} /\ "getReplay" \in Methods
    BY DEF Statuses, Methods
  <2>2. rows' = rows /\ charged' = charged /\ spent' = spent
    BY <1>5 DEF ThrowsToAnswer, Throws, outside, vars
  <2>. QED
    BY <1>2, <1>5, <2>1, <2>2, AnswerMapped
<1>. QED
  BY <1>3, <1>4, <1>5 DEF GetReplay

(* The calls before the settlement, all of them accepted or not.           *)
LEMMA EarlyMapped ==
  ASSUME WholeInv, WholeInv', NEW u \in Requests, Frame(u),
         NEW m \in Calls \ SettleCalls, Effect(u, m), UNCHANGED <<charged, spent>>,
         ~ At(u, "answered"), req'[u].status = req[u].status
  PROVE  [Paid!Next]_View
<1>1. Key(u) \in RecordKeys
  BY KeyInTable DEF WholeInv
<1>2. TellsNobody(u)
  BY DEF TellsNobody
<1>3. m \in Calls /\ m # "completeFulfillment" /\ m # "failSettleDefinitive"
  BY DEF SettleCalls
<1>. QED
  BY <1>1, <1>2, <1>3, CallMapped

LEMMA CallsMapped ==
  ASSUME WholeInv, WholeInv', NEW u \in Requests, Frame(u),
         \/ AcquireVerify(u) \/ VerifyPayment(u) \/ CompleteVerification(u)
         \/ BuildResponse(u) \/ Stage(u) \/ AcquireSettle(u)
  PROVE  [Paid!Next]_View
<1>1. ~ At(u, "answered") /\ UNCHANGED <<charged, spent>>
  BY DEF AcquireVerify, VerifyPayment, CompleteVerification, BuildResponse, Stage,
         AcquireSettle, NothingElse, ThrowsToAnswer, Throws, outside, At
<1>2. /\ {202, 503} \subseteq Statuses \ {200, 402}
      /\ { "acquireVerifyLease", "completeVerify", "stageResponse", "acquireSettleLease" }
           \subseteq Calls \ SettleCalls
      /\ Calls \subseteq Methods
      /\ { "completeVerify", "failVerifyDefinitive", "markVerifyUncertain", "buildResponse",
           "failPostVerifyDefinitive", "acquireSettleLease", "verifyPayment",
           "settlePayment" } \subseteq Labels
      /\ StageableBodies \subseteq Bodies
  BY CoordinatorAssumption DEF Statuses, Calls, Methods, Reading, SettleCalls, Labels
<1>3. ASSUME NEW status \in {202, 503}, rows' = rows,
             Answer(u, status) \/ \E m \in Methods : ThrowsToAnswer(u, m, status)
      PROVE  [Paid!Next]_View
  BY <1>1, <1>2, <1>3, AnswerMapped
<1>4. ASSUME NEW m \in Methods, ThrowsToAnswer(u, m, 503)
      PROVE  [Paid!Next]_View
  <2>1. rows' = rows
    BY <1>4 DEF ThrowsToAnswer, Throws, vars
  <2>. QED
    BY <1>3, <1>4, <2>1
<1>5. ASSUME NEW label \in Labels, GoTo(u, label), rows' = rows
      PROVE  [Paid!Next]_View
  BY <1>1, <1>5, GoToMapped
<1>6. ASSUME NEW label \in Labels, GoTo(u, label), NEW m \in Calls \ SettleCalls, Effect(u, m)
      PROVE  [Paid!Next]_View
  <2>1. req'[u].status = req[u].status
    BY <1>6, GoToDoes DEF WholeInv
  <2>. QED
    BY <1>1, <1>6, <2>1, EarlyMapped
<1>7. ASSUME NEW label \in Labels, NEW t \in Tokens, TakeLease(u, t, label),
             NEW m \in Calls \ SettleCalls, Effect(u, m)
      PROVE  [Paid!Next]_View
  <2>1. rows[Key(u)] \in Row
    BY <1>7, EffectMoves DEF WholeInv
  <2>2. req'[u].status = req[u].status
    BY <1>7, <2>1, TakeLeaseDoes DEF WholeInv
  <2>. QED
    BY <1>1, <1>7, <2>2, EarlyMapped
<1>8. ASSUME NEW b \in StageableBodies, rows' = rows,
             req' = [req EXCEPT ![u] = [@ EXCEPT !.pc = "stageResponse", !.body = b]]
      PROVE  [Paid!Next]_View
  <2>0. b \in Bodies
    BY <1>2
  <2>1. /\ req'[u].receipt = req[u].receipt /\ req'[u].status = req[u].status
        /\ SameLease(u)
    BY <1>8, <2>0, BodyDoes, LeaseKept DEF WholeInv
  <2>2. Key(u) \in RecordKeys
    BY KeyInTable DEF WholeInv
  <2>3. charged' = charged /\ spent' = spent
    BY <1>1
  <2>. QED
    BY <1>1, <1>8, <2>1, <2>2, <2>3, Quietly
<1>9. CASE AcquireVerify(u)
  <2>1. CASE \E t \in Tokens : /\ AcquireVerifyLease(Key(u), t)
                               /\ TakeLease(u, t, "verifyPayment")
    <3>1. Effect(u, "acquireVerifyLease")
      BY <2>1 DEF Effect
    <3>. QED
      BY <1>2, <1>7, <2>1, <3>1
  <2>. QED
    BY <1>2, <1>3, <1>4, <1>9, <2>1 DEF AcquireVerify, vars
<1>10. CASE AcquireSettle(u)
  <2>1. CASE \E t \in Tokens : /\ AcquireSettleLease(Key(u), t)
                               /\ TakeLease(u, t, "settlePayment")
    <3>1. Effect(u, "acquireSettleLease")
      BY <2>1 DEF Effect
    <3>. QED
      BY <1>2, <1>7, <2>1, <3>1
  <2>. QED
    BY <1>2, <1>3, <1>4, <1>10, <2>1 DEF AcquireSettle, vars
<1>11. CASE CompleteVerification(u)
  <2>1. CASE CompleteVerify(Key(u), Gen(u), Token(u)) /\ GoTo(u, "buildResponse")
    <3>1. Effect(u, "completeVerify")
      BY <2>1 DEF Effect
    <3>. QED
      BY <1>2, <1>6, <2>1, <3>1
  <2>. QED
    BY <1>2, <1>3, <1>4, <1>11, <2>1 DEF CompleteVerification, vars
<1>12. CASE Stage(u)
  <2>1. CASE StageResponse(Key(u), req[u].body) /\ GoTo(u, "acquireSettleLease")
    <3>1. Effect(u, "stageResponse")
      BY <2>1 DEF Effect
    <3>. QED
      BY <1>2, <1>6, <2>1, <3>1
  <2>. QED
    BY <1>2, <1>4, <1>5, <1>12, <2>1 DEF Stage, vars
<1>13. CASE VerifyPayment(u)
  BY <1>2, <1>5, <1>13 DEF VerifyPayment, vars
<1>14. CASE BuildResponse(u)
  <2>1. rows' = rows
    BY <1>14 DEF BuildResponse, vars
  <2>2. CASE GoTo(u, "failPostVerifyDefinitive")
    BY <1>2, <1>5, <2>1, <2>2
  <2>. QED
    BY <1>8, <1>14, <2>1, <2>2 DEF BuildResponse, BuildFails
<1>. QED
  BY <1>9, <1>10, <1>11, <1>12, <1>13, <1>14

LEMMA SettleMapped ==
  ASSUME WholeInv, WholeInv', NEW u \in Requests, Frame(u), SettlePayment(u)
  PROVE  [Paid!Next]_View
<1>1. PICK k \in RecordKeys : k = Key(u)
  BY KeyInTable DEF WholeInv
<1>2. ~ At(u, "answered") /\ Engaged(u) /\ rows' = rows
  BY DEF SettlePayment, At, Engaged, Working, Reading, vars
<1>3. k \notin charged /\ rows[k].kind = "settle"
  BY <1>1, <1>2 DEF SettlePayment, WholeInv, SafetyInv, Fits, At, Early
<1>4. ASSUME NEW label \in Labels, GoTo(u, label),
             MoneyUnknown(u) \/ UNCHANGED <<charged, spent>>
      PROVE  [Paid!Next]_View
  <2>1. /\ SameLease(u) /\ req'[u].receipt = req[u].receipt
        /\ req'[u].status = req[u].status
    BY <1>4, GoToDoes, LeaseKept DEF WholeInv, SameData
  <2>2. CASE MoneyUnknown(u)
    BY <1>1, <1>2, <1>3, <2>1, <2>2, UnknownMapped
  <2>3. CASE UNCHANGED <<charged, spent>>
    BY <1>2, <1>4, <2>3, GoToMapped
  <2>. QED
    BY <1>4, <2>2, <2>3
<1>5. ASSUME MoneyMoves(u),
             \/ GoTo(u, "markSettleUncertain")
             \/ \E c \in Receipts :
                  req' = [req EXCEPT ![u] = [@ EXCEPT !.pc = "completeFulfillment",
                                                      !.receipt = c]]
      PROVE  [Paid!Next]_View
  <2>1. req'[u].status = req[u].status
    BY <1>5, GoToDoes, ReceiptDoes DEF WholeInv, Labels, Methods
  <2>2. TellsNobody(u)
    BY <1>2, <2>1 DEF TellsNobody
  <2>. QED
    BY <1>1, <1>2, <1>3, <1>5, <2>2, PaysOnce
<1>6. "failSettleDefinitive" \in Labels /\ "markSettleUncertain" \in Labels
  BY DEF Labels, Methods
<1>7. CASE SettleRefused(u)
  BY <1>4, <1>6, <1>7 DEF SettleRefused
<1>8. CASE SettleThrows(u)
  BY <1>4, <1>6, <1>8 DEF SettleThrows
<1>9. CASE \E r \in Receipts : SettleSucceeds(u, r)
  BY <1>5, <1>9 DEF SettleSucceeds
<1>. QED
  BY <1>7, <1>8, <1>9 DEF SettlePayment

(* Where the receipt of a settlement is that has been reported, or is      *)
(* about to be.                                                            *)
LEMMA ReceiptHeld ==
  ASSUME WholeInv, NEW u \in Requests, NEW k \in RecordKeys, k = Key(u), Holds(u)
  PROVE  ReceiptOf(k) = req[u].receipt
BY DEF WholeInv, DealsKnown, Holds

LEMMA ReceiptStored ==
  ASSUME WholeInv, NEW k \in RecordKeys, Present(k), rows[k].state = "fulfilled"
  PROVE  ReceiptOf(k) = rows[k].receipt /\ rows[k].receipt # NULL
<1>1. WellFormed(rows[k], issued) /\ NULL # "settle"
  BY RowOf, CoordinatorAssumption DEF WholeInv, Kinds
<1>2. \A w \in Requests : Key(w) = k => ~ Holds(w)
  BY <1>1 DEF WellFormed, Holds
<1>. QED
  BY <1>1, <1>2, CoordinatorAssumption DEF WholeInv, DealsKnown, WellFormed

LEMMA CompleteMapped ==
  ASSUME WholeInv, WholeInv', NEW u \in Requests, Frame(u), Complete(u)
  PROVE  [Paid!Next]_View
<1>1. PICK k \in RecordKeys : k = Key(u)
  BY KeyInTable DEF WholeInv
<1>2. /\ ~ At(u, "answered") /\ Engaged(u) /\ At(u, "completeFulfillment")
      /\ UNCHANGED <<charged, spent>>
  BY DEF Complete, At, Engaged, Working, Reading, Throws, NothingElse, outside
<1>3. CASE /\ CompleteFulfillment(Key(u), Gen(u), Token(u), req[u].receipt)
           /\ AnswerPaid(u, req[u].body, req[u].receipt) /\ NothingElse
  <2>1. /\ Effect(u, "completeFulfillment") /\ "completeFulfillment" \in Calls
        /\ "completeFulfillment" \notin Fails \cup {"acquireSettleLease"}
    BY <1>3 DEF Effect, Calls, Methods, Reading, Fails
  <2>2. req[u].body \in Bodies \cup {NULL} /\ req[u].receipt \in Receipts \cup {NULL}
    BY LocalState DEF WholeInv, RequestState
  <2>3. /\ req'[u].status = 200 /\ req'[u].body = req[u].body
        /\ req'[u].receipt = req[u].receipt
    BY <1>3, <2>2, AnswerPaidDoes DEF WholeInv
  <2>4. SameLease(u)
    BY <1>3, <2>2, EndKeepsLease DEF WholeInv
  <2>5. Holds(u) /\ Present(k) /\ rows[k].kind = "settle"
    <3>1. Holds(u)
      BY <1>1, <2>1, EffectDecides DEF WholeInv, SettleCalls
    <3>. QED
      BY <1>1, <3>1 DEF Holds
  <2>6. k \in charged /\ rows[k].body = req[u].body /\ req[u].input.auth \in spent
    BY <1>1, <1>2 DEF WholeInv, SafetyInv, Fits, DealInv, At
  <2>7. DealsView'[k] = DealsView[k]
    <3>1. charged' = charged
      BY <1>2
    <3>2. Shows(k, "completeFulfillment")
      BY <1>1, <2>1, <2>3, <2>4, <2>6, <3>1, EffectSees
    <3>. QED
      BY <2>1, <3>2 DEF Shows
  <2>8. ReceiptOf(k) = req[u].receipt /\ ReceiptOf(k) # NULL
    <3>1. ReceiptOf(k) = req[u].receipt
      BY <1>1, <2>5, ReceiptHeld
    <3>. QED
      BY <1>3, <3>1, CoordinatorAssumption DEF CompleteFulfillment, CanCompleteFulfillment
  <2>9. req'[u].receipt = ReceiptOf(k) /\ req'[u].body = rows[k].body /\ spent' = spent
    BY <1>2, <2>3, <2>6, <2>8
  <2>. QED
    BY <1>1, <1>2, <2>3, <2>5, <2>6, <2>7, <2>8, <2>9, Serves
<1>4. ASSUME rows' = rows,
             \/ StaleCompletion(u)
             \/ req' = [req EXCEPT ![u] = [@ EXCEPT !.pc = "markSettleUncertain",
                                                   !.lost = "completeFulfillment"]]
      PROVE  [Paid!Next]_View
  <2>1. SameData(u) /\ req'[u].status = req[u].status /\ SameLease(u)
    BY <1>2, <1>4, StaleDoes, GiveUpDoes, EndKeepsLease DEF WholeInv
  <2>. QED
    BY <1>1, <1>2, <1>4, <2>1, Quietly DEF SameData
<1>. QED
  BY <1>3, <1>4 DEF Complete, Throws, vars

(* A report that nothing was paid.                                         *)
LEMMA FailureMapped ==
  ASSUME WholeInv, WholeInv', NEW u \in Requests, Frame(u), NEW m \in Fails,
         At(u, m), Effect(u, m), Answer(u, 402), NothingElse
  PROVE  [Paid!Next]_View
<1>1. PICK k \in RecordKeys : k = Key(u)
  BY KeyInTable DEF WholeInv
<1>2. 402 \in Statuses /\ m \in Calls /\ m # "completeFulfillment" /\ req[u].pc \in Early
  BY DEF Statuses, Calls, Methods, Reading, Fails, Early, At
<1>3. SameData(u) /\ req'[u].status = 402 /\ SameLease(u)
  BY <1>2, AnswerDoes, EndKeepsLease DEF WholeInv
<1>4. ~ At(u, "answered") /\ Engaged(u)
  BY DEF At, Fails, Engaged, Working, Reading
<1>5. Present(k) /\ k \notin charged /\ rows[k].auth = req[u].input.auth
  BY <1>1, <1>2, <1>4 DEF WholeInv, SafetyInv, Fits, DealInv
<1>6. charged' = charged /\ spent' = spent /\ req'[u].receipt = req[u].receipt
  BY <1>3 DEF NothingElse, outside, SameData
<1>7. Shows(k, m)
  BY <1>1, <1>2, <1>3, <1>5, <1>6, EffectSees
<1>8. DealsView[k].auth = req[u].input.auth
  <2>1. DealsView[k] = DealOf(k)
    BY <1>5, DealSeen
  <2>. QED
    BY <1>5, <2>1 DEF DealOf
<1>9. DealsView[k] # NoRow
  BY <1>7 DEF Shows
<1>10. /\ DealsView[k].money = "open"
       /\ DealsView'[k] = [DealsView[k] EXCEPT !.money = "never", !.answer = NULL]
  BY <1>7 DEF Shows
<1>. QED
  BY <1>1, <1>3, <1>4, <1>6, <1>8, <1>9, <1>10, Refuses

(* A report that it is not known whether something was paid, unless the    *)
(* settlement succeeded and only its completion is in doubt.               *)
LEMMA UncertainMapped ==
  ASSUME WholeInv, WholeInv', NEW u \in Requests, Frame(u),
         NEW m \in {"markVerifyUncertain", "markSettleUncertain"}, At(u, m),
         \/ ReportMatches(u, m) /\ Effect(u, m)
         \/ ~ ReportMatches(u, m) /\ UNCHANGED vars,
         NEW status \in Statuses, status = IF req[u].receipt = NULL THEN 503 ELSE 200,
         Answer(u, status), NothingElse
  PROVE  [Paid!Next]_View
<1>1. PICK k \in RecordKeys : k = Key(u)
  BY KeyInTable DEF WholeInv
<1>2. /\ m \in Calls /\ m \notin Fails \cup {"acquireSettleLease"}
      /\ m # "completeFulfillment" /\ m # "failSettleDefinitive"
  BY DEF Calls, Methods, Reading, Fails
<1>3. SameData(u) /\ req'[u].status = status /\ SameLease(u)
  <2>1. OrchestratorTypeOK
    BY DEF WholeInv
  <2>2. SameData(u) /\ req'[u].status = status
    BY <2>1, AnswerDoes
  <2>3. SameLease(u)
    BY <2>1, EndKeepsLease
  <2>. QED
    BY <2>2, <2>3
<1>4. ~ At(u, "answered") /\ Engaged(u)
  BY DEF At, Engaged, Working, Reading
<1>5. /\ charged' = charged /\ spent' = spent /\ req'[u].receipt = req[u].receipt
      /\ req'[u].body = req[u].body
  BY <1>3 DEF NothingElse, outside, SameData
<1>6. DealsView'[k] = DealsView[k]
  <2>1. CASE Effect(u, m)
    <3>1. m \in SettleCalls => SameLease(u) /\ req'[u].receipt = req[u].receipt
      BY <1>3, <1>5
    <3>2. charged' = charged
      BY <1>5
    <3>3. Shows(k, m)
      BY <1>1, <1>2, <2>1, <3>1, <3>2, EffectSees
    <3>. QED
      BY <1>2, <3>3 DEF Shows
  <2>2. CASE rows' = rows
    BY <1>1, <1>3, <1>5, <2>2, RowUntouched
  <2>. QED
    BY <2>1, <2>2 DEF vars
<1>7. CASE req[u].receipt = NULL
  <2>1. req'[u].status \in Statuses \ {200, 402} /\ DealsView'[Key(u)] = DealsView[Key(u)]
    BY <1>1, <1>3, <1>6, <1>7
  <2>. QED
    BY <1>4, <1>5, <2>1, PutsOff
<1>8. CASE req[u].receipt # NULL
  <2>1. At(u, "markSettleUncertain") /\ m = "markSettleUncertain"
    BY <1>8 DEF WholeInv, SafetyInv, Local, Early, At
  <2>2. /\ Present(k) /\ k \in charged /\ rows[k].body = req[u].body
        /\ rows[k].receipt \in {NULL, req[u].receipt} /\ req[u].input.auth \in spent
    BY <1>1, <1>4, <1>8, <2>1 DEF WholeInv, SafetyInv, Fits, DealInv, At
  <2>3. SettleAwaited(k, Gen(u), Token(u)) \/ rows[k].state = "fulfilled"
    BY <1>1, <2>1 DEF WholeInv, CalmInv, Tended, At, Settles, InState
  <2>4. /\ rows[k].kind = "settle" \/ rows[k].state = "fulfilled"
        /\ ReceiptOf(k) = req[u].receipt
    <3>1. CASE SettleAwaited(k, Gen(u), Token(u))
      <4>1. Holds(u)
        BY <1>1, <3>1 DEF SettleAwaited, InState, HoldsLease, Holds
      <4>. QED
        BY <1>1, <4>1, ReceiptHeld DEF Holds
    <3>2. CASE rows[k].state = "fulfilled"
      BY <2>2, <3>2, ReceiptStored
    <3>. QED
      BY <2>3, <3>1, <3>2
  <2>5. /\ req'[u].receipt = ReceiptOf(k) /\ ReceiptOf(k) # NULL
        /\ req'[u].body = rows[k].body /\ req'[u].status = 200
    BY <1>3, <1>5, <1>8, <2>2, <2>4
  <2>. QED
    BY <1>1, <1>4, <1>5, <1>6, <2>2, <2>4, <2>5, Serves
<1>. QED
  BY <1>7, <1>8

LEMMA ReportMapped ==
  ASSUME WholeInv, WholeInv', NEW u \in Requests, Frame(u), NEW m \in Reports, Report(u, m)
  PROVE  [Paid!Next]_View
<1>1. CASE ThrowsToAnswer(u, m, 500)
  <2>1. 500 \in Statuses \ {200, 402} /\ m \in Methods /\ ~ At(u, "answered")
    BY DEF Statuses, Methods, Reports, Report, At
  <2>2. rows' = rows /\ charged' = charged /\ spent' = spent
    BY <1>1 DEF ThrowsToAnswer, Throws, outside, vars
  <2>. QED
    BY <1>1, <2>1, <2>2, AnswerMapped
<1>2. CASE /\ IF ReportMatches(u, m) THEN Effect(u, m) ELSE UNCHANGED vars
           /\ Answer(u, AnswerAfter(u, m)) /\ NothingElse
  <2>1. At(u, m) /\ Tended(u)
    BY DEF Report, WholeInv, CalmInv
  <2>2. ReportExpected(u, m)
    BY <2>1, TendedReport
  <2>3. CASE m \in Fails
    <3>1. m \notin {"markVerifyUncertain", "markSettleUncertain"}
      BY <2>3 DEF Fails
    <3>2. ReportMatches(u, m) /\ AnswerAfter(u, m) = 402
      BY <2>2, <3>1 DEF ReportExpected, AnswerAfter
    <3>. QED
      BY <1>2, <2>1, <2>3, <3>2, FailureMapped
  <2>4. CASE m \in {"markVerifyUncertain", "markSettleUncertain"}
    <3>1. PICK status \in Statuses : status = IF req[u].receipt = NULL THEN 503 ELSE 200
      BY DEF Statuses
    <3>2. Answer(u, status)
      BY <1>2, <2>4, <3>1 DEF AnswerAfter
    <3>3. \/ ReportMatches(u, m) /\ Effect(u, m)
          \/ ~ ReportMatches(u, m) /\ UNCHANGED vars
      BY <1>2
    <3>. QED
      BY <1>2, <2>1, <2>4, <3>1, <3>2, <3>3, UncertainMapped
  <2>. QED
    BY <2>3, <2>4 DEF Reports, Fails
<1>. QED
  BY <1>1, <1>2 DEF Report

LEMMA StepMapped ==
  ASSUME WholeInv, WholeInv', NEW u \in Requests, Frame(u), Step(u)
  PROVE  [Paid!Next]_View
BY PrepareMapped, GetReplayMapped, CallsMapped, SettleMapped, CompleteMapped, ReportMapped
   DEF Step

LEMMA LateMapped ==
  ASSUME WholeInv, WholeInv', NEW u \in Requests, Frame(u), NEW m \in Methods, Late(u, m)
  PROVE  [Paid!Next]_View
<1>1. PICK k \in RecordKeys : k = Key(u)
  BY KeyInTable DEF WholeInv
<1>2. PICK i \in Inputs : i = req[u].input
  BY KeyInTable DEF WholeInv
<1>3. /\ <<u, m>> \in inflight /\ Effect(u, m)
      /\ req' = req /\ UNCHANGED <<calls, charged, spent>>
  BY DEF Late, outside
<1>4. TellsNobody(u) /\ SameLease(u)
  BY <1>3 DEF TellsNobody, SameLease
<1>5. CASE m = "prepareAttempt"
  <2>1. PrepareAttempt(req[u].input)
    BY <1>3, <1>5 DEF Effect
  <2>. QED
    BY <1>1, <1>2, <1>3, <1>4, <2>1, Accepts
<1>6. CASE m \in Calls
  <2>1. Engaged(u)
    BY <1>3, <1>6 DEF Engaged, Calls
  <2>2. /\ m = "completeFulfillment" => k \in charged
        /\ m = "failSettleDefinitive" => k \notin charged
    BY <1>1, <1>3, <2>1 DEF WholeInv, SafetyInv, Fits
  <2>3. m \in SettleCalls => SameLease(u) /\ req'[u].receipt = req[u].receipt
    BY <1>3, <1>4
  <2>4. UNCHANGED <<charged, spent>>
    BY <1>3
  <2>. QED
    BY <1>1, <1>3, <1>4, <1>6, <2>2, <2>3, <2>4, CallMapped
<1>7. m # "getReplay"
  BY <1>3 DEF Effect
<1>. QED
  BY <1>5, <1>6, <1>7 DEF Calls, Reading

LEMMA SettlesLateMapped ==
  ASSUME WholeInv, WholeInv', NEW u \in Requests, Frame(u), SettlesLate(u)
  PROVE  [Paid!Next]_View
<1>1. PICK k \in RecordKeys : k = Key(u)
  BY KeyInTable DEF WholeInv
<1>2. Engaged(u) /\ MoneyMoves(u) /\ rows' = rows /\ TellsNobody(u)
  BY DEF SettlesLate, Engaged, TellsNobody, vars
<1>3. k \notin charged /\ rows[k].kind = "settle"
  BY <1>1, <1>2 DEF SettlesLate, WholeInv, SafetyInv, Fits
<1>. QED
  BY <1>1, <1>2, <1>3, PaysOnce

LEMMA CrashMapped ==
  ASSUME WholeInv, WholeInv', NEW u \in Requests, Frame(u), Crash(u)
  PROVE  [Paid!Next]_View
<1>1. PICK k \in RecordKeys : k = Key(u)
  BY KeyInTable DEF WholeInv
<1>2. /\ ~ At(u, "answered") /\ GoTo(u, "crashed") /\ "crashed" \in Labels
      /\ rows' = rows
  BY DEF Crash, Done, At, Labels, vars
<1>3. CASE UNCHANGED <<charged, spent>>
  BY <1>2, <1>3, GoToMapped
<1>4. CASE At(u, "settlePayment") /\ MoneyUnknown(u)
  <2>1. Engaged(u)
    BY <1>4 DEF At, Engaged, Working, Reading
  <2>2. k \notin charged /\ rows[k].kind = "settle"
    BY <1>1, <1>4, <2>1 DEF WholeInv, SafetyInv, Fits, At, Early
  <2>3. /\ SameLease(u) /\ req'[u].receipt = req[u].receipt
        /\ req'[u].status = req[u].status
    BY <1>2, GoToDoes, LeaseKept DEF WholeInv, SameData
  <2>. QED
    BY <1>1, <1>2, <1>4, <2>1, <2>2, <2>3, UnknownMapped
<1>. QED
  BY <1>3, <1>4 DEF Crash, DiesCalling, outside

(* Time shows in no deal; the clean-up forgets some.                       *)
LEMMA AsideMapped ==
  ASSUME WholeInv, WholeInv', TimePasses \/ CleanUp \/ UNCHANGED allVars
  PROVE  [Paid!Next]_View
<1>1. UNCHANGED <<req, spent>> /\ Ages
  <2>1. Housekeeping \/ UNCHANGED vars
    BY DEF TimePasses, CleanUp, allVars, Housekeeping
  <2>2. Ages
    BY <2>1, HousekeepingAges DEF WholeInv, CoordinatorInv
  <2>. QED
    BY <2>2 DEF TimePasses, CleanUp, allVars, faults, outside
<1>2. \A k \in RecordKeys : rows'[k] # NoRow => (k \in charged' <=> k \in charged)
  BY DEF TimePasses, CleanUp, allVars, outside
<1>3. OrdersView' = OrdersView /\ ToldView' = ToldView
  BY <1>1 DEF OrdersView, ToldView, ToldTo, Key
<1>4. ASSUME NEW k \in RecordKeys, rows'[k] # NoRow
      PROVE  DealsView'[k] = DealsView[k]
  <2>1. Present(k) /\ \E n \in 0 .. RecordTtl : rows'[k] = [rows[k] EXCEPT !.ttl = n]
    BY <1>1, <1>4 DEF Ages
  <2>2. SameRow(k)
    BY <1>4, <2>1, RowOf DEF SameRow, Row, WholeInv
  <2>3. \A w \in Requests : Key(w)' = Key(w) /\ Token(w)' = Token(w)
                            /\ req'[w].receipt = req[w].receipt
    BY <1>1 DEF Key, Token
  <2>. QED
    BY <1>2, <1>4, <2>2, <2>3, DealStays
<1>5. ASSUME NEW k \in RecordKeys, rows'[k] = NoRow
      PROVE  DealsView'[k] = NoRow
  BY <1>5, DealSeenNext
<1>. DEFINE S == {k \in RecordKeys : rows'[k] = NoRow}
<1>6. RecordKeys = Paid!Items
  BY DEF Paid!Items, RecordKeys
<1>7. DealsView' = [k \in RecordKeys |-> DealsView'[k]]
  BY DEF DealsView
<1>8. DealsView' = [k \in Paid!Items |-> IF k \in S THEN NoRow ELSE DealsView[k]]
  BY <1>4, <1>5, <1>6, <1>7
<1>9. Paid!Forget(S) /\ S \in SUBSET Paid!Items
  BY <1>1, <1>3, <1>6, <1>8 DEF Paid!Forget
<1>. QED
  BY <1>9 DEF Paid!Next

LEMMA StartMapped == OrchestratorInit => Paid!Init
<1>. SUFFICES ASSUME OrchestratorInit PROVE Paid!Init
  OBVIOUS
<1>1. RecordKeys = Paid!Items
  BY DEF Paid!Items, RecordKeys
<1>2. DealsView = [k \in Paid!Items |-> NoRow]
  BY <1>1 DEF OrchestratorInit, Init, DealsView, Present
<1>3. ASSUME NEW w \in Requests
      PROVE  /\ req[w].input \in Inputs /\ req[w].status = NULL
             /\ Key(w) \in RecordKeys
  <2>1. PICK i \in Inputs : req[w] = NewRequest(i)
    BY DEF OrchestratorInit
  <2>. QED
    BY <2>1 DEF NewRequest, Key, KeyOf, Inputs, RecordKeys
<1>4. OrdersView \in [Requests -> [item : Paid!Items, auth : Auths]]
  BY <1>1, <1>3 DEF OrdersView, Inputs
<1>5. NULL \notin {200, 402}
  BY CoordinatorAssumption
<1>6. ToldView = [w \in Requests |-> Paid!Nothing]
  <2>1. ASSUME NEW w \in Requests PROVE ToldTo(w) = Paid!Nothing
    <3>1. req[w].status = NULL /\ req[w].status # 200
      BY <1>3, <1>5
    <3>2. ReplyOf(req[w].status) = "none"
      BY <1>5, <3>1 DEF ReplyOf
    <3>. QED
      BY <3>1, <3>2 DEF ToldTo, Paid!Nothing
  <2>. QED
    BY <2>1 DEF ToldView
<1>. QED
  BY <1>2, <1>4, <1>6 DEF Paid!Init, OrchestratorInit

(* Unless a request, a call or an authorization outlives a tick, the       *)
(* mainnet paid route implements PayOnce: whatever duplicates, lost and    *)
(* late calls, unclear settlements and deaths there are, each deal is paid *)
(* once at most, for an answer decided before, and everyone who is served, *)
(* refused or put off is told what that deal came to                       *)
(* (handleMainnetExamplePaidRequest and the coordinator beneath it).       *)
THEOREM OrchestratorPaysOnce ==
  ASSUME ~ OutliveTtl
  PROVE  OrchestratorSpec => ImplementsPayOnce
<1>1. WholeInv /\ WholeInv' /\ [OrchestratorNext]_allVars => [Paid!Next]_View
  <2>. SUFFICES ASSUME WholeInv, WholeInv', [OrchestratorNext]_allVars
                PROVE  [Paid!Next]_View
    OBVIOUS
  <2>1. ASSUME NEW u \in Requests,
               Step(u) \/ SettlesLate(u) \/ Crash(u) \/ \E m \in Methods : Late(u, m)
        PROVE  [Paid!Next]_View
    <3>1. Frame(u)
      BY <2>1, StepActs DEF WholeInv
    <3>. QED
      BY <2>1, <3>1, StepMapped, SettlesLateMapped, CrashMapped, LateMapped
  <2>. QED
    BY <2>1, AsideMapped DEF OrchestratorNext
<1>2. View = <<DealsView, spent, OrdersView, ToldView>>
  BY DEF View
<1>. QED
  BY <1>1, <1>2, StartMapped, WholeInvariance, PTL
     DEF OrchestratorSpec, ImplementsPayOnce, Paid!Spec, View
=============================================================================
