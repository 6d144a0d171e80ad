----------------------- MODULE MainnetPaidRouteProofs -----------------------
(***************************************************************************)
(* What holds of the mainnet paid route for any sellers, queries,          *)
(* identifiers and nonces, any sequence of deployments and any number of   *)
(* payments and requests.                                                  *)
(*                                                                         *)
(* The route is a client of the coordinator, so every theorem about the    *)
(* coordinator holds of it (RouteUsesCoordinator).  What the route adds    *)
(* follows what a request carries along its way: terms on the page are a   *)
(* Worker's quote, an admitted request pays the terms of the Worker that   *)
(* admitted it, and a row keeps what its request brought.                  *)
(***************************************************************************)
EXTENDS MainnetPaidRoute, PaymentCoordinatorProofs

(* The terms on the page are those that a Worker has quoted.               *)
PageHoldsQuote ==
  page.terms # NULL =>
    Quotes(page.terms.from) /\ page.terms.requirement = ConfiguredRequirement(page.terms.from)

(* A request on its way pays its terms and stands under its own query.     *)
Proper(r) ==
  /\ PaysItsTerms(r.attempt.terms, r.attempt.auth, r.attempt.details)
  /\ r.attempt.terms.query = r.query

RequestsProper == \A r \in arrived \cup serving : Proper(r)

(* A staged body is the response to the query of the row's terms.          *)
BodiesFit ==
  \A k \in RecordKeys : Present(k) /\ rows[k].body # NULL =>
    rows[k].body = ExampleResponse(k[2].query)

PageInv == PageHoldsQuote /\ QuotedIsAdmitted

RowInv == RequestsProper /\ RowsPayTheirTerms /\ BodiesFit

-----------------------------------------------------------------------------
(* A Worker that quotes at all quotes the requirement it is configured for.*)
LEMMA QuotedRequirement ==
  ASSUME NEW d \in DeploymentSet, Quotes(d)
  PROVE  /\ BuildPaymentRequirements(d) = {ConfiguredRequirement(d)}
         /\ ConfiguredRequirement(d) \in Requirements
<1>1. d.facilitator \in {"base", "other", "none"} /\ d.sellerAddress \in Addresses
  BY DEF DeploymentSet
<1>2. PICK r \in BuildPaymentRequirements(d) : r.kind = "baseUSDC"
  BY DEF Quotes, ValidateBaseMainnetPaymentRequirements, MatchesBaseMainnetPaymentTerms
<1>3. d.facilitator = "base"
  BY <1>1, <1>2 DEF BuildPaymentRequirements, ConfiguredRequirement
<1>. QED
  BY <1>1, <1>3 DEF BuildPaymentRequirements, ConfiguredRequirement, Requirements

LEMMA AttemptsAreInputs == Inputs = Attempts
BY RouteAssumption DEF Inputs, Attempts

(* The key of an attempt is a key of the table.                            *)
LEMMA KeyOfAttempt ==
  ASSUME NEW i \in Attempts
  PROVE  KeyOf(i) \in RecordKeys /\ KeyOf(i)[1] = i.pid /\ KeyOf(i)[2] = i.terms
BY RouteAssumption DEF Attempts, KeyOf, RecordKeys

(* What arrives is a payment of the same kind as the one that was made.    *)
LEMMA OneOffIsPayment ==
  ASSUME NEW p \in Payments, NEW q \in OneOff(p)
  PROVE  q \in Payments
<1>1. p.auth \in Authorizations
  BY DEF Payments
<1>2. \A a \in Addresses : [p.auth EXCEPT !.to = a] \in Authorizations
  BY <1>1 DEF Authorizations
<1>3. /\ [p.auth EXCEPT !.value = "999"] \in Authorizations
      /\ [p.auth EXCEPT !.window = "reversed"] \in Authorizations
      /\ [p.auth EXCEPT !.malformed = TRUE] \in Authorizations
  BY <1>1 DEF Authorizations
<1>4. \A a \in Authorizations : [p EXCEPT !.auth = a] \in Payments
  BY DEF Payments
<1>5. \A a \in Addresses :
        [p EXCEPT !.auth.to = a] = [p EXCEPT !.auth = [p.auth EXCEPT !.to = a]]
  BY DEF Payments
<1>6. /\ [p EXCEPT !.auth.value = "999"] = [p EXCEPT !.auth = [p.auth EXCEPT !.value = "999"]]
      /\ [p EXCEPT !.auth.window = "reversed"]
           = [p EXCEPT !.auth = [p.auth EXCEPT !.window = "reversed"]]
      /\ [p EXCEPT !.auth.malformed = TRUE]
           = [p EXCEPT !.auth = [p.auth EXCEPT !.malformed = TRUE]]
  BY DEF Payments
<1>7. CASE q \in {[p EXCEPT !.auth.to = a] : a \in Addresses}
  BY <1>2, <1>4, <1>5, <1>7
<1>8. CASE q \in {[p EXCEPT !.auth.value = "999"], [p EXCEPT !.auth.window = "reversed"],
                  [p EXCEPT !.auth.malformed = TRUE]}
  BY <1>3, <1>4, <1>6, <1>8
<1>9. CASE \/ q = p \/ q = [p EXCEPT !.echoed = FALSE]
           \/ q \in {[p EXCEPT !.accepted = r] : r \in Requirements}
           \/ q \in {[p EXCEPT !.identifier = i] :
                       i \in Identifiers \cup {"absent", "shapeless", "no id", "bad id"}}
           \/ q \in {[p EXCEPT !.payload = x] :
                       x \in {"permit2", "no authorization", "nothing", "text"}}
  BY <1>9 DEF Payments
<1>. QED
  BY <1>7, <1>8, <1>9 DEF OneOff

LEMMA DeliveryIsRequest ==
  ASSUME NEW m \in Paid, NEW r \in Deliveries(m), r.query \in Values
  PROVE  r.payment \in Payments
<1>1. m.payment \in Payments
  BY DEF Paid
<1>2. CASE r \in {PaidRequest(p, query) : p \in OneOff(m.payment), query \in Values}
  BY <1>1, <1>2, OneOffIsPayment DEF PaidRequest
<1>3. CASE r.payment = m.payment
  BY <1>1, <1>3
<1>. QED
  BY <1>2, <1>3 DEF Deliveries, PaidRequest

(* An admitted request becomes an attempt that pays the terms it is under. *)
LEMMA AdmittedPays ==
  ASSUME NEW d \in Deployments, NEW r, r.payment \in Payments, Admitted(r, d),
         NEW requirement \in FindMatchingRequirements(r.payment, d)
  PROVE  /\ Attempt(r.payment, r.query, requirement) \in Attempts
         /\ Proper([attempt |-> Attempt(r.payment, r.query, requirement), query |-> r.query])
<1>1. d \in DeploymentSet /\ Quotes(d) /\ r.query \in Values
  BY RouteAssumption DEF Admitted
<1>2. /\ requirement = ConfiguredRequirement(d)
      /\ requirement \in Requirements
      /\ requirement.amount = "1000"
      /\ requirement.kind \in {"baseUSDC", "other"}
  BY <1>1, QuotedRequirement DEF FindMatchingRequirements, ConfiguredRequirement, Requirements
<1>3. /\ r.payment.identifier \in Identifiers
      /\ NormalizeAddress(r.payment.auth.to) = NormalizeAddress(requirement.payTo)
      /\ r.payment.auth.value = requirement.amount
  BY <1>2 DEF Admitted, ValidatePaymentIdentifier, ValidateEip3009AuthorizationStructure
<1>4. /\ r.payment.auth.to \in Addresses
      /\ r.payment.auth.value \in {"1000", "999"}
      /\ r.payment.auth.nonce \in Nonces
  BY DEF Payments, Authorizations
<1>5. [requirement |-> requirement, query |-> r.query] \in ServerFingerprints
  BY <1>1, <1>2 DEF ServerFingerprints
<1>6. Attempt(r.payment, r.query, requirement) \in Attempts
  BY <1>1, <1>2, <1>3, <1>4, <1>5 DEF Attempt, Attempts, Commitments, Resources
<1>7. Proper([attempt |-> Attempt(r.payment, r.query, requirement), query |-> r.query])
  BY <1>1, <1>2, <1>3 DEF Proper, PaysItsTerms, Attempt
<1>. QED
  BY <1>6, <1>7

(* What the page makes of a quote passes the checks of the Worker that     *)
(* quoted it, in whatever spelling the seller's address is signed.         *)
LEMMA PaymentPasses ==
  ASSUME NEW d \in DeploymentSet, Quotes(d), NEW v \in Values, NEW i \in Identifiers,
         NEW n \in Nonces, NEW s \in Spellings
  PROVE  Admitted(PaidRequest(CreatePayment(ConfiguredRequirement(d), i, n, s), v), d)
<1>. DEFINE p == CreatePayment(ConfiguredRequirement(d), i, n, s)
<1>1. /\ p.accepted = ConfiguredRequirement(d) /\ p.echoed /\ p.identifier = i
      /\ p.payload = "authorization" /\ ~ p.auth.malformed /\ p.auth.window = "open"
      /\ NormalizeAddress(p.auth.to) = NormalizeAddress(ConfiguredRequirement(d).payTo)
      /\ p.auth.value = ConfiguredRequirement(d).amount
  BY DEF CreatePayment, NormalizeAddress
<1>2. ConfiguredRequirement(d) \in FindMatchingRequirements(p, d)
  BY <1>1, QuotedRequirement DEF FindMatchingRequirements
<1>3. ASSUME NEW q, q = p PROVE Admitted(PaidRequest(q, v), d)
  <2>. HIDE DEF p
  <2>1. /\ PaidRequest(q, v).method = "GET" /\ PaidRequest(q, v).query = v
        /\ PaidRequest(q, v).header = "payment" /\ PaidRequest(q, v).payment = q
    BY DEF PaidRequest
  <2>. QED
    BY <1>1, <1>2, <1>3, <2>1
       DEF Admitted, ValidatePaymentIdentifier, ValidateEip3009AuthorizationStructure
<1>. QED
  BY <1>3

-----------------------------------------------------------------------------
(* Every step of the route is a step of the coordinator or leaves it alone.*)
LEMMA RouteStepIsCoordinatorStep ==
  ASSUME RouteTypeOK, [RouteNext]_<<vars, routeVars>>
  PROVE  [Next]_vars
<1>1. ASSUME NEW r \in AdmittedRequests, PrepareAttempt(r.attempt) PROVE Next
  <2>1. r.attempt \in Inputs
    BY AttemptsAreInputs DEF AdmittedRequests
  <2>. QED
    BY <1>1, <2>1 DEF Next
<1>2. CASE \E r \in arrived : Reserve(r)
  BY <1>1, <1>2 DEF Reserve, RouteTypeOK
<1>3. CASE AttemptProceeds
  <2>1. ASSUME NEW r \in serving, Stage(r) PROVE Next
    <3>1. KeyOf(r.attempt) \in RecordKeys /\ ExampleResponse(r.query) \in Bodies
      BY KeyOfAttempt, RouteAssumption DEF RouteTypeOK, AdmittedRequests, ExampleResponse
    <3>. QED
      BY <2>1, <3>1 DEF Stage, Next
  <2>. QED
    BY <1>3, <2>1 DEF AttemptProceeds, Next
<1>4. CASE UNCHANGED vars
  BY <1>4
<1>. QED
  BY <1>2, <1>3, <1>4
     DEF RouteNext, Redeploy, LoadPage, LoadTerms, Pay, Arrive, vars, routeVars

(* RouteTypeOK is inductive.                                               *)
LEMMA RouteStepKeepsTypes ==
  ASSUME RouteTypeOK, [RouteNext]_<<vars, routeVars>>
  PROVE  RouteTypeOK'
<1>. USE RouteAssumption DEF RouteTypeOK
<1>1. ASSUME NEW d \in Deployments, Redeploy(d) PROVE RouteTypeOK'
  BY <1>1 DEF Redeploy
<1>2. CASE LoadPage
  <2>1. deployed.sellerAddress \in Addresses
    BY DEF DeploymentSet
  <2>. QED
    BY <1>2, <2>1 DEF LoadPage
<1>3. ASSUME NEW v \in Values, LoadTerms(v) PROVE RouteTypeOK'
  <2>1. PICK r \in BuildPaymentRequirements(deployed) :
          page' = [page EXCEPT !.terms = [requirement |-> r, query |-> v, from |-> deployed]]
    BY <1>3 DEF LoadTerms
  <2>2. r \in Requirements
    BY <1>3, QuotedRequirement DEF LoadTerms, TermsLoad
  <2>3. [requirement |-> r, query |-> v, from |-> deployed] \in Quoted
    BY <2>2 DEF Quoted
  <2>. QED
    BY <1>3, <2>1, <2>3 DEF LoadTerms
<1>4. ASSUME NEW i \in Identifiers, NEW n \in Nonces, NEW s \in Spellings, Pay(i, n, s)
      PROVE  RouteTypeOK'
  <2>. DEFINE t == page.terms
              p == CreatePayment(t.requirement, i, n, s)
  <2>1. t \in Quoted
    BY <1>4 DEF Pay
  <2>2. /\ t.requirement \in Requirements /\ t.query \in Values /\ t.from \in Deployments
        /\ t.requirement.payTo \in Addresses /\ t.requirement.amount \in {"1000", "999"}
    BY <2>1 DEF Quoted, Requirements
  <2>3. <<t.requirement.payTo[1], s>> \in Addresses
    BY <2>2 DEF Addresses
  <2>4. p \in Payments
    BY <2>2, <2>3 DEF CreatePayment, Payments, Authorizations
  <2>5. [payment |-> p, query |-> t.query, from |-> t.from] \in Paid
    BY <2>2, <2>4 DEF Paid
  <2>6. page' \in [sellerAddress : Addresses, terms : Quoted \cup {NULL}]
    BY <1>4 DEF Pay
  <2>. HIDE DEF p
  <2>. QED
    BY <1>4, <2>5, <2>6 DEF Pay, p
<1>5. ASSUME NEW m \in made, NEW r \in Deliveries(m), Arrive(r) PROVE RouteTypeOK'
  <2>1. PICK requirement \in FindMatchingRequirements(r.payment, deployed) :
          arrived' = arrived \cup
            {[attempt |-> Attempt(r.payment, r.query, requirement), query |-> r.query]}
    BY <1>5 DEF Arrive
  <2>2. r.query \in Values /\ r.payment \in Payments
    BY <1>5, DeliveryIsRequest DEF Arrive, Admitted
  <2>3. [attempt |-> Attempt(r.payment, r.query, requirement), query |-> r.query]
          \in AdmittedRequests
    BY <1>5, <2>2, AdmittedPays DEF Arrive, AdmittedRequests
  <2>. QED
    BY <1>5, <2>1, <2>3 DEF Arrive
<1>6. ASSUME NEW r \in arrived, Reserve(r) PROVE RouteTypeOK'
  BY <1>6 DEF Reserve
<1>7. CASE AttemptProceeds \/ UNCHANGED <<vars, routeVars>>
  BY <1>7 DEF AttemptProceeds, routeVars
<1>. QED
  BY <1>1, <1>2, <1>3, <1>4, <1>5, <1>6, <1>7 DEF RouteNext

(* RouteTypeOK: whatever the page, the network and the Worker do, they     *)
(* stay within their types.                                                *)
THEOREM RouteTypeCorrect == RouteSpec => []RouteTypeOK
<1>1. RouteInit => RouteTypeOK
  BY RouteAssumption DEF RouteInit, RouteTypeOK, DeploymentSet
<1>. QED
  BY <1>1, RouteStepKeepsTypes, PTL DEF RouteSpec

(* The route is a client of the coordinator: all that is proved of Spec    *)
(* holds of RouteSpec.                                                     *)
THEOREM RouteUsesCoordinator == RouteSpec => Spec
<1>1. RouteInit => Init
  BY DEF RouteInit
<1>. QED
  BY <1>1, RouteTypeCorrect, RouteStepIsCoordinatorStep, PTL DEF RouteSpec, Spec

-----------------------------------------------------------------------------
(* The page.                                                               *)

LEMMA RouteStepKeepsPageInv ==
  ASSUME RouteTypeOK, PageInv, [RouteNext]_<<vars, routeVars>>
  PROVE  PageInv'
<1>. USE RouteAssumption DEF PageInv
<1>1. CASE page' = page /\ made' = made
  BY <1>1 DEF PageHoldsQuote, QuotedIsAdmitted
<1>2. CASE LoadPage
  BY <1>2 DEF LoadPage, PageHoldsQuote, QuotedIsAdmitted
<1>3. ASSUME NEW v \in Values, LoadTerms(v) PROVE PageInv'
  <2>1. PICK r \in BuildPaymentRequirements(deployed) :
          page' = [page EXCEPT !.terms = [requirement |-> r, query |-> v, from |-> deployed]]
    BY <1>3 DEF LoadTerms
  <2>2. Quotes(deployed) /\ r = ConfiguredRequirement(deployed)
    BY <1>3, QuotedRequirement DEF LoadTerms, TermsLoad, RouteTypeOK
  <2>3. page'.terms = [requirement |-> r, query |-> v, from |-> deployed]
    BY <2>1 DEF RouteTypeOK
  <2>. QED
    BY <1>3, <2>2, <2>3 DEF LoadTerms, PageHoldsQuote, QuotedIsAdmitted
<1>4. ASSUME NEW i \in Identifiers, NEW n \in Nonces, NEW s \in Spellings, Pay(i, n, s)
      PROVE  PageInv'
  <2>. DEFINE t == page.terms
              new == [ payment |-> CreatePayment(t.requirement, i, n, s),
                       query |-> t.query, from |-> t.from ]
  <2>1. /\ t \in Quoted /\ Quotes(t.from) /\ t.requirement = ConfiguredRequirement(t.from)
        /\ t.from \in DeploymentSet /\ t.query \in Values
    BY <1>4 DEF Pay, RouteTypeOK, PageHoldsQuote, Quoted
  <2>2. Admitted(PaidRequest(new.payment, new.query), new.from)
    BY <2>1, PaymentPasses
  <2>3. made' = made \cup {new}
    BY <1>4 DEF Pay
  <2>4. page'.terms = NULL
    BY <1>4 DEF Pay, RouteTypeOK
  <2>. HIDE DEF new
  <2>. QED
    BY <2>2, <2>3, <2>4 DEF PageHoldsQuote, QuotedIsAdmitted
<1>. QED
  BY <1>1, <1>2, <1>3, <1>4
     DEF RouteNext, Redeploy, Arrive, Reserve, AttemptProceeds, routeVars

(* QuotedIsAdmitted: what the page signs for a quote passes every check of *)
(* the Worker that quoted it.                                              *)
THEOREM PaymentsPassTheirQuote == RouteSpec => []QuotedIsAdmitted
<1>1. RouteInit => PageInv
  BY DEF RouteInit, PageInv, PageHoldsQuote, QuotedIsAdmitted
<1>2. RouteSpec => []PageInv
  BY <1>1, RouteTypeCorrect, RouteStepKeepsPageInv, PTL DEF RouteSpec
<1>. QED
  BY <1>2, PTL DEF PageInv

-----------------------------------------------------------------------------
(* The table.                                                              *)

(* Only stageResponse fills in a body.                                     *)
LEMMA LeaseMethodsKeepBody ==
  ASSUME TypeOK, LeaseShape, NEW k \in RecordKeys, NEW t \in Tokens,
         Acquire(k, t) \/ \E g \in Generations : Resolve(k, g, t)
  PROVE  /\ Present(k) /\ rows'[k].body = rows[k].body
         /\ \A j \in RecordKeys \ {k} : rows'[j] = rows[j]
<1>1. Method(k)
  BY DEF Method
<1>2. Present(k) /\ rows[k] \in Row
  BY <1>1, MethodMoves DEF TypeOK, Present
<1>3. PICK row \in Row : Put(k, row)
  BY <1>1, MethodMoves DEF MovesTo
<1>4. rows' = [rows EXCEPT ![k] = row] /\ rows'[k] = row /\ row.body = rows[k].body
  <2>1. rows'[k] = row
    BY <1>3, PutRow
  <2>2. ASSUME NEW q, Put(k, q), q.body = rows[k].body
        PROVE  row.body = rows[k].body
    BY <1>3, <2>2 DEF Put, TypeOK
  <2>3. ASSUME NEW kind, NEW state, GrantLease(k, kind, state, t)
        PROVE  row.body = rows[k].body
    <3>. DEFINE q == [rows[k] EXCEPT !.state = state, !.kind = kind, !.gen = @ + 1, !.token = t]
    <3>1. Put(k, q) /\ q.body = rows[k].body
      BY <1>2, <2>3 DEF GrantLease, Row
    <3>. QED
      BY <2>2, <3>1
  <2>4. ASSUME NEW state, SetState(k, state) PROVE row.body = rows[k].body
    <3>. DEFINE q == [rows[k] EXCEPT !.state = state]
    <3>1. Put(k, q) /\ q.body = rows[k].body
      BY <1>2, <2>4 DEF SetState, Row
    <3>. QED
      BY <2>2, <3>1
  <2>5. ASSUME SetFailed(k) PROVE row.body = rows[k].body
    <3>. DEFINE q == [rows[k] EXCEPT !.state = "failed-definitive", !.kind = NULL, !.token = NULL]
    <3>1. Put(k, q) /\ q.body = rows[k].body
      BY <1>2, <2>5 DEF SetFailed, Row
    <3>. QED
      BY <2>2, <3>1
  <2>6. ASSUME NEW g, NEW r, CompleteFulfillment(k, g, t, r)
        PROVE  row.body = rows[k].body
    <3>. DEFINE q == [rows[k] EXCEPT !.state = "fulfilled", !.receipt = r,
                                     !.kind = NULL, !.token = NULL]
    <3>1. Put(k, q) /\ q.body = rows[k].body
      BY <1>2, <2>6 DEF CompleteFulfillment, Row
    <3>. QED
      BY <2>2, <3>1
  <2>. QED
    BY <1>3, <2>1, <2>3, <2>4, <2>5, <2>6
       DEF Put, Acquire, AcquireVerifyLease, AcquireSettleLease, Resolve, CompleteVerify,
           MarkVerifyUncertain, MarkSettleUncertain, FailVerifyDefinitive,
           FailPostVerifyDefinitive, FailSettleDefinitive
<1>. QED
  BY <1>2, <1>4, <1>3, PutRow

(* A request that is on its way after a step was there before, or has just *)
(* been admitted.                                                          *)
LEMMA RequestsStayProper ==
  ASSUME RouteTypeOK, RequestsProper, [RouteNext]_<<vars, routeVars>>
  PROVE  RequestsProper'
<1>. USE RouteAssumption DEF RequestsProper
<1>1. ASSUME arrived' \cup serving' \subseteq arrived \cup serving
      PROVE  RequestsProper'
  BY <1>1 DEF Proper, PaysItsTerms
<1>2. ASSUME NEW m \in made, NEW r \in Deliveries(m), Arrive(r)
      PROVE  RequestsProper'
  <2>1. PICK requirement \in FindMatchingRequirements(r.payment, deployed) :
          arrived' = arrived \cup
            {[attempt |-> Attempt(r.payment, r.query, requirement), query |-> r.query]}
    BY <1>2 DEF Arrive
  <2>. DEFINE new == [attempt |-> Attempt(r.payment, r.query, requirement), query |-> r.query]
  <2>2. r.payment \in Payments
    BY <1>2, DeliveryIsRequest DEF Arrive, Admitted, RouteTypeOK
  <2>3. Proper(new)
    BY <1>2, <2>2, AdmittedPays DEF Arrive, RouteTypeOK
  <2>4. arrived' = arrived \cup {new} /\ serving' = serving
    BY <1>2, <2>1 DEF Arrive
  <2>. HIDE DEF new
  <2>5. \A q \in arrived' \cup serving' : Proper(q)
    BY <2>3, <2>4
  <2>. QED
    BY <2>5 DEF Proper, PaysItsTerms
<1>3. ASSUME NEW r \in arrived, Reserve(r) PROVE RequestsProper'
  BY <1>1, <1>3 DEF Reserve
<1>. QED
  BY <1>1, <1>2, <1>3
     DEF RouteNext, Redeploy, LoadPage, LoadTerms, Pay, AttemptProceeds, routeVars

(* Only a request on its way reserves an attempt.                          *)
LEMMA PreparedWasArrived ==
  ASSUME RouteTypeOK, CoordinatorInv, [RouteNext]_<<vars, routeVars>>,
         NEW k \in RecordKeys, ~ Present(k), rows'[k] # NoRow
  PROVE  \E r \in arrived : k = KeyOf(r.attempt) /\ rows'[k] = NewRow(r.attempt)
<1>1. ASSUME NEW r \in arrived, Reserve(r)
      PROVE  k = KeyOf(r.attempt) /\ rows'[k] = NewRow(r.attempt)
  <2>1. rows' # rows
    BY DEF Present
  <2>2. PrepareAttempt(r.attempt)
    BY <1>1, <2>1 DEF Reserve, vars
  <2>. QED
    BY <2>2 DEF PrepareAttempt, Put, TypeOK, Present, CoordinatorInv
<1>2. CASE AttemptProceeds
  <2>1. (\E j \in RecordKeys : Method(j)) \/ Housekeeping
    <3>1. ASSUME NEW r \in serving, Stage(r) PROVE \E j \in RecordKeys : Method(j)
      <4>1. KeyOf(r.attempt) \in RecordKeys /\ ExampleResponse(r.query) \in Bodies
        BY KeyOfAttempt, RouteAssumption DEF RouteTypeOK, AdmittedRequests, ExampleResponse
      <4>. QED
        BY <3>1, <4>1 DEF Stage, Method
    <3>. QED
      BY <1>2, <3>1 DEF AttemptProceeds, Method
  <2>2. ASSUME NEW j \in RecordKeys, Method(j) PROVE FALSE
    <3>1. Present(j) /\ \E row \in Row : Put(j, row)
      BY <2>2, MethodMoves DEF MovesTo, CoordinatorInv
    <3>. QED
      BY <3>1, PutRow DEF Present, CoordinatorInv
  <2>. QED
    BY <2>1, <2>2, HousekeepingAges DEF Ages, CoordinatorInv
<1>3. CASE UNCHANGED vars
  BY <1>3 DEF vars, Present
<1>. QED
  BY <1>1, <1>2, <1>3
     DEF RouteNext, Redeploy, LoadPage, LoadTerms, Pay, Arrive, vars, routeVars

(* RowsPayTheirTerms and BodiesFit are inductive: a row begins as a proper *)
(* request, keeps its identity, and gets its body from the request that    *)
(* created it or from one under the same key.                              *)
LEMMA RouteStepKeepsRowInv ==
  ASSUME RouteTypeOK, CoordinatorInv, RowInv, [RouteNext]_<<vars, routeVars>>
  PROVE  RowInv'
<1>. USE DEF RowInv
<1>1. RequestsProper'
  BY RequestsStayProper
<1>2. [Next]_vars
  BY RouteStepIsCoordinatorStep
<1>3. ASSUME NEW k \in RecordKeys, ~ Present(k), rows'[k] # NoRow
      PROVE  /\ PaysItsTerms(k[2], rows'[k].auth, rows'[k].details)
             /\ rows'[k].body = NULL
  <2>1. PICK r \in arrived : k = KeyOf(r.attempt) /\ rows'[k] = NewRow(r.attempt)
    BY <1>3, PreparedWasArrived
  <2>2. r.attempt \in Attempts /\ Proper(r)
    BY DEF RouteTypeOK, AdmittedRequests, RequestsProper
  <2>3. k[2] = r.attempt.terms
    BY <2>1, <2>2, KeyOfAttempt
  <2>. QED
    BY <2>1, <2>2, <2>3 DEF NewRow, Proper
<1>4. RowsPayTheirTerms'
  <2>1. ASSUME NEW k \in RecordKeys, rows'[k] # NoRow
        PROVE  PaysItsTerms(k[2], rows'[k].auth, rows'[k].details)
    <3>1. CASE Present(k)
      BY <1>2, <2>1, <3>1, RowsAdvance DEF SameContent, RowsPayTheirTerms
    <3>. QED
      BY <1>3, <2>1, <3>1
  <2>. QED
    BY <2>1 DEF RowsPayTheirTerms, Present, PaysItsTerms
<1>5. ASSUME NEW k \in RecordKeys, Present(k), rows'[k] # NoRow, rows'[k].body # NULL
      PROVE  rows'[k].body = ExampleResponse(k[2].query)
  <2>. USE DEF CoordinatorInv
  <2>1. rows[k] \in Row
    BY <1>5 DEF TypeOK, Present
  <2>2. ASSUME rows'[k].body = rows[k].body
        PROVE  rows'[k].body = ExampleResponse(k[2].query)
    BY <1>5, <2>2 DEF BodiesFit
  <2>3. ASSUME NEW j \in RecordKeys, NEW t \in Tokens,
               Acquire(j, t) \/ \E g \in Generations : Resolve(j, g, t)
        PROVE  rows'[k].body = rows[k].body
    BY <2>3, LeaseMethodsKeepBody
  <2>4. ASSUME NEW r \in serving, Stage(r)
        PROVE  rows'[k].body = ExampleResponse(k[2].query)
    <3>. DEFINE j == KeyOf(r.attempt)
                q == [rows[j] EXCEPT !.state = "computing", !.body = ExampleResponse(r.query)]
    <3>1. /\ j \in RecordKeys /\ j[2].query = r.query
      BY KeyOfAttempt DEF RouteTypeOK, AdmittedRequests, RequestsProper, Proper
    <3>2. rows' = [rows EXCEPT ![j] = q] /\ Present(j)
      BY <2>4 DEF Stage, StageResponse, CanStageResponse, InState, Put
    <3>3. q.body = ExampleResponse(r.query)
      BY <3>1, <3>2 DEF TypeOK, Present, Row
    <3>. HIDE DEF j, q
    <3>4. CASE k = j
      <4>1. rows'[k] = q
        BY <3>2, <3>4 DEF TypeOK
      <4>. QED
        BY <3>1, <3>3, <3>4, <4>1
    <3>5. CASE k # j
      <4>1. rows'[k] = rows[k]
        BY <3>2, <3>5 DEF TypeOK
      <4>. QED
        BY <2>2, <4>1
    <3>. QED
      BY <3>4, <3>5
  <2>5. CASE Housekeeping \/ UNCHANGED vars
    <3>1. PICK n \in 0 .. RecordTtl : rows'[k] = [rows[k] EXCEPT !.ttl = n]
      BY <1>5, <2>5, HousekeepingAges DEF Ages
    <3>. QED
      BY <2>1, <2>2, <3>1 DEF Row
  <2>6. ASSUME NEW r \in arrived, PrepareAttempt(r.attempt)
        PROVE  rows'[k].body = rows[k].body
    <3>1. KeyOf(r.attempt) # k
      BY <1>5, <2>6 DEF PrepareAttempt, RowsByPaymentIdentifier, KeyOf
    <3>. QED
      BY <2>6, <3>1 DEF PrepareAttempt, Put, TypeOK
  <2>. QED
    BY <2>2, <2>3, <2>4, <2>5, <2>6
       DEF RouteNext, Redeploy, LoadPage, LoadTerms, Pay, Arrive, Reserve, AttemptProceeds,
           vars, routeVars
<1>6. BodiesFit'
  BY <1>3, <1>5 DEF BodiesFit, Present
<1>. QED
  BY <1>1, <1>4, <1>6

LEMMA RowInvariance == RouteSpec => [](CoordinatorInv /\ RowInv)
<1>1. RouteInit => RowInv
  BY DEF RouteInit, Init, RowInv, RequestsProper, RowsPayTheirTerms, BodiesFit, Present
<1>. QED
  BY <1>1, RouteTypeCorrect, RouteUsesCoordinator, Invariance, RouteStepKeepsRowInv,
     PTL DEF RouteSpec

(* RowsPayTheirTerms: every attempt of the table is paid for by its own    *)
(* authorization, to the seller and the amount a Worker has quoted.        *)
THEOREM AttemptsPayTheirTerms == RouteSpec => []RowsPayTheirTerms
BY RowInvariance, PTL DEF RowInv

(* ReplayAnswersTheQuery: a stored response is replayed only to a request  *)
(* for the query it was made for.                                          *)
THEOREM ReplaysAnswerTheirQuery == RouteSpec => []ReplayAnswersTheQuery
<1>1. RouteTypeOK /\ CoordinatorInv /\ RowInv => ReplayAnswersTheQuery
  <2>. SUFFICES ASSUME RouteTypeOK, CoordinatorInv, RowInv, NEW r \in arrived,
                       PrepareReply(r.attempt) = "replay"
                PROVE  Replay(KeyOf(r.attempt)).body = ExampleResponse(r.query)
    BY DEF ReplayAnswersTheQuery
  <2>. DEFINE k == KeyOf(r.attempt)
  <2>1. k \in RecordKeys /\ k[2].query = r.query
    BY KeyOfAttempt DEF RouteTypeOK, AdmittedRequests, RowInv, RequestsProper, Proper
  <2>2. Present(k) /\ rows[k].state = "fulfilled"
    <3>1. Present(k) /\ ClassifyExistingPrepareRow(k, r.attempt) = "replay"
      BY DEF PrepareReply
    <3>2. rows[k].state \in States
      BY <2>1, <3>1 DEF CoordinatorInv, TypeOK, Present, Row
    <3>. HIDE DEF k
    <3>. QED
      BY <3>1, <3>2 DEF ClassifyExistingPrepareRow, States, InProgressStates
  <2>. HIDE DEF k
  <2>3. /\ rows[k].body \in StageableBodies /\ rows[k].receipt \in ValidReceipts
        /\ rows[k].body # NULL
    BY <2>1, <2>2, CoordinatorAssumption DEF CoordinatorInv, LeaseShape, WellFormed
  <2>4. Replay(k).body = rows[k].body
    BY <2>2, <2>3 DEF Replay
  <2>. QED
    BY <2>1, <2>2, <2>3, <2>4 DEF k, RowInv, BodiesFit
<1>. QED
  BY <1>1, RouteTypeCorrect, RowInvariance, PTL
=============================================================================
