-------------------------- MODULE MainnetPaidRoute --------------------------
(***************************************************************************)
(* The mainnet paid route from the quote to the reservation: a page loads  *)
(* terms from the deployed Worker and pays them (mainnet-terms-loader.ts,  *)
(* mainnet-payment-executor.ts), the request arrives once, several times,  *)
(* changed on the way or never, also after the Worker was deployed anew    *)
(* with other settings, and the orchestrator checks it and reserves an     *)
(* attempt in the coordinator.  What happens to an attempt once it is      *)
(* reserved is any sequence of the coordinator's methods, of which          *)
(* MainnetOrchestrator says which the program makes, but only a request    *)
(* that has created an attempt stages a response, that to its own query.   *)
(*                                                                         *)
(* The checks read nothing that another request writes, so a request that  *)
(* arrives is checked in one step; its prepareAttempt is a step of its own.*)
(***************************************************************************)
EXTENDS PaymentCoordinator, PaidRequestChecks, FiniteSets

CONSTANTS
  Deployments,   \* the Workers that may be deployed one after the other
  MaxPayments,   \* bound on payments the page makes; it loads nothing after
  MaxAttempts,   \* bound on attempts created
  MaxArrived     \* bound on admitted requests between checks and prepareAttempt

(* What an admitted payment may be reserved under: only a Worker's own     *)
(* requirement is ever matched.                                            *)
ServerFingerprints ==
  {[requirement |-> ConfiguredRequirement(d), query |-> v] : d \in Deployments, v \in Values}

Attempts ==
  [pid : Identifiers, terms : ServerFingerprints, auth : Commitments, details : Resources]

Quoted == [requirement : Requirements, query : Values, from : Deployments]

Paid == [payment : Payments, query : Values, from : Deployments]

(* A request that has passed the checks.                                   *)
AdmittedRequests == [attempt : Attempts, query : Values]

ASSUME RouteAssumption ==
  /\ Deployments \subseteq DeploymentSet
  /\ PaymentIds = Identifiers
  /\ Terms = ServerFingerprints /\ Auths = Commitments /\ Details = Resources
  /\ Bodies = Values /\ StageableBodies = Values
  /\ NULL \notin Quoted

VARIABLES
  deployed,  \* the Worker that answers now
  page,      \* the page: the seller it was built for and the terms it loaded
  made,      \* the payments the page made, each with its query
  arrived,   \* requests admitted that prepareAttempt has not seen yet
  serving    \* requests whose prepareAttempt has created an attempt

routeVars == <<deployed, page, made, arrived, serving>>

RouteTypeOK ==
  /\ deployed \in Deployments
  /\ page \in [sellerAddress : Addresses, terms : Quoted \cup {NULL}]
  /\ made \subseteq Paid
  /\ arrived \subseteq AdmittedRequests
  /\ serving \subseteq AdmittedRequests

-----------------------------------------------------------------------------
(* The Worker is deployed anew; its coordinator keeps its rows.            *)
Redeploy(d) ==
  /\ d # deployed
  /\ deployed' = d
  /\ UNCHANGED <<page, made, arrived, serving, vars>>

(* The page comes from the Worker, with the seller of that build.          *)
LoadPage ==
  /\ Cardinality(made) < MaxPayments
  /\ page' = [sellerAddress |-> deployed.sellerAddress, terms |-> NULL]
  /\ UNCHANGED <<deployed, made, arrived, serving, vars>>

(* loadAndValidateMainnetTerms: terms that do not pass leave the page as   *)
(* it is.                                                                  *)
LoadTerms(query) ==
  /\ Cardinality(made) < MaxPayments
  /\ TermsLoad(deployed, page.sellerAddress)
  /\ \E r \in BuildPaymentRequirements(deployed) :
       page' = [page EXCEPT !.terms = [requirement |-> r, query |-> query, from |-> deployed]]
  /\ UNCHANGED <<deployed, made, arrived, serving, vars>>

(* executeMainnetPaymentAttempt up to the request; terms are paid once.    *)
Pay(identifier, nonce, spelling) ==
  /\ page.terms # NULL
  /\ MatchesBaseMainnetPaymentTerms(page.terms.requirement, page.sellerAddress)
  /\ made' = made \cup
       {[ payment |-> CreatePayment(page.terms.requirement, identifier, nonce, spelling),
          query   |-> page.terms.query,
          from    |-> page.terms.from ]}
  /\ page' = [page EXCEPT !.terms = NULL]
  /\ UNCHANGED <<deployed, arrived, serving, vars>>

(* A payment as it was made, or with one part of it different.             *)
OneOff(p) ==
  {p} \cup {[p EXCEPT !.accepted = r] : r \in Requirements}
      \cup {[p EXCEPT !.echoed = FALSE]}
      \cup {[p EXCEPT !.identifier = i] :
              i \in Identifiers \cup {"absent", "shapeless", "no id", "bad id"}}
      \cup {[p EXCEPT !.payload = x] :
              x \in {"permit2", "no authorization", "nothing", "text"}}
      \cup {[p EXCEPT !.auth.to = a] : a \in Addresses}
      \cup {[p EXCEPT !.auth.value = "999"], [p EXCEPT !.auth.window = "reversed"],
            [p EXCEPT !.auth.malformed = TRUE]}

(* What may arrive of a payment: it and the query altered, or the request  *)
(* around it.                                                              *)
Deliveries(m) ==
  LET asMade == PaidRequest(m.payment, m.query)
  IN  {PaidRequest(p, query) : p \in OneOff(m.payment), query \in Values}
      \cup {[asMade EXCEPT !.method = "POST"], [asMade EXCEPT !.query = "invalid"],
            [asMade EXCEPT !.header = "none"], [asMade EXCEPT !.header = "undecodable"]}

(* handleMainnetExamplePaidRequest up to prepareAttempt.                   *)
Arrive(r) ==
  /\ Cardinality(arrived) < MaxArrived
  /\ Admitted(r, deployed)
  /\ \E requirement \in FindMatchingRequirements(r.payment, deployed) :
       arrived' = arrived \cup
         {[attempt |-> Attempt(r.payment, r.query, requirement), query |-> r.query]}
  /\ UNCHANGED <<deployed, page, made, serving, vars>>

(* prepareAttempt: only the reply "created" comes with a change, and only  *)
(* the request that gets it goes on.  Calls that throw are left to         *)
(* MainnetOrchestrator.                                                    *)
Reserve(r) ==
  /\ r \in arrived
  /\ arrived' = arrived \ {r}
  /\ \/ /\ Cardinality(serving) < MaxAttempts
        /\ PrepareAttempt(r.attempt)
        /\ serving' = serving \cup {r}
     \/ PrepareReply(r.attempt) # "created" /\ UNCHANGED <<serving, vars>>
  /\ UNCHANGED <<deployed, page, made>>

(* A request that goes on stages the response to its own query.            *)
Stage(r) == StageResponse(KeyOf(r.attempt), ExampleResponse(r.query))

(* The other methods of the coordinator and its clean-up.                  *)
AttemptProceeds ==
  /\ \/ \E k \in RecordKeys, t \in Tokens : Acquire(k, t)
     \/ \E k \in RecordKeys, g \in Generations, t \in Tokens : Resolve(k, g, t)
     \/ \E r \in serving : Stage(r)
     \/ Housekeeping
  /\ UNCHANGED routeVars

RouteInit ==
  /\ Init
  /\ deployed \in Deployments
  /\ page = [sellerAddress |-> deployed.sellerAddress, terms |-> NULL]
  /\ made = {}
  /\ arrived = {} /\ serving = {}

RouteNext ==
  \/ \E d \in Deployments : Redeploy(d)
  \/ LoadPage
  \/ \E v \in Values : LoadTerms(v)
  \/ \E i \in Identifiers, n \in Nonces, s \in Spellings : Pay(i, n, s)
  \/ \E m \in made : \E r \in Deliveries(m) : Arrive(r)
  \/ \E r \in arrived : Reserve(r)
  \/ AttemptProceeds

RouteSpec == RouteInit /\ [][RouteNext]_<<vars, routeVars>>

-----------------------------------------------------------------------------
(* Properties.                                                             *)

(* An attempt that pays the terms it is recorded under: those of a Worker  *)
(* that was deployed, for the query of its resource, with an authorization *)
(* that pays this seller this amount.                                      *)
PaysItsTerms(terms, auth, details) ==
  /\ \E d \in Deployments : Quotes(d) /\ terms.requirement = ConfiguredRequirement(d)
  /\ NormalizeAddress(auth.to) = NormalizeAddress(terms.requirement.payTo)
  /\ auth.value = terms.requirement.amount
  /\ details.query = terms.query
  /\ details.nonce = auth.nonce

(* Whatever is altered on the way and whatever is deployed meanwhile, rows *)
(* are kept for quoted terms and authorizations that pay them              *)
(* (docs/mainnet-mocked-orchestrator.md, matched-requirement trust         *)
(* boundary).                                                              *)
RowsPayTheirTerms ==
  \A k \in RecordKeys : Present(k) => PaysItsTerms(k[2], rows[k].auth, rows[k].details)

(* A payment the page makes passes every check of the Worker that quoted   *)
(* it: loader, signing policy and orchestrator agree on the terms.         *)
QuotedIsAdmitted ==
  \A m \in made : Admitted(PaidRequest(m.payment, m.query), m.from)

(* Whoever is answered from the stored response of an attempt has asked    *)
(* the query it was made for, whatever the payment, the identifier and the *)
(* query were paired with before (computeCanonicalKeys, getReplay).        *)
ReplayAnswersTheQuery ==
  \A r \in arrived :
    PrepareReply(r.attempt) = "replay" =>
      Replay(KeyOf(r.attempt)).body = ExampleResponse(r.query)
=============================================================================
