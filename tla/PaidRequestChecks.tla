-------------------------- MODULE PaidRequestChecks --------------------------
(***************************************************************************)
(* What the mainnet paid route decides about a request before it touches   *)
(* the coordinator: the terms a deployment quotes (payment.mainnet.ts,     *)
(* payment-policy.mainnet.ts), the checks of a payment against them        *)
(* (mainnet-payment-orchestrator.ts, eip3009-authorization.ts,             *)
(* payment-identifier-validation.ts) and the keys an admitted payment is   *)
(* recorded under (canonical-keys.ts).  No state.                          *)
(*                                                                         *)
(* An address is an account and the spelling it is written in; hexadecimal *)
(* text may be of either case.  Hashes are injective, so a key is the      *)
(* record of what is hashed.                                               *)
(***************************************************************************)
EXTENDS Naturals, Sequences

CONSTANTS
  Sellers,      \* accounts that may be paid
  Values,       \* values isValidExampleValue accepts
  Identifiers,  \* payment identifiers of the required format
  Nonces        \* EIP-3009 nonces; each belongs to one payer and time window

Spellings == {"checksum", "lower"}

Addresses == Sellers \X Spellings

NormalizeAddressNot(address) == address

NormalizeAddress(address) == address[1]

-----------------------------------------------------------------------------
(* Terms.                                                                  *)

(* Scheme, network, asset, time-out and EIP-712 domain are one: `kind'.    *)
Requirements ==
  [payTo : Addresses, amount : {"1000", "999"}, kind : {"baseUSDC", "other"}]

MatchesBaseMainnetPaymentTerms(requirement, sellerAddress) ==
  /\ requirement.kind = "baseUSDC"
  /\ requirement.amount = "1000"
  /\ NormalizeAddress(requirement.payTo) = NormalizeAddress(sellerAddress)

ValidateBaseMainnetPaymentRequirements(options, sellerAddress) ==
  \E r \in options :
    options = {r} /\ MatchesBaseMainnetPaymentTerms(r, sellerAddress)

(* A deployed Worker: the seller it is configured with, and whether its    *)
(* facilitator supports the kind of payment the route is configured for.   *)
DeploymentSet == [sellerAddress : Addresses, facilitator : {"base", "other", "none"}]

ConfiguredRequirement(d) ==
  [payTo |-> d.sellerAddress, amount |-> "1000", kind |-> "baseUSDC"]

(* The resource server turns the configured option into requirements.      *)
BuildPaymentRequirements(d) ==
  CASE d.facilitator = "base"  -> {ConfiguredRequirement(d)}
    [] d.facilitator = "other" -> {[ConfiguredRequirement(d) EXCEPT !.kind = "other"]}
    [] d.facilitator = "none"  -> {}

(* buildServerPaymentRequired throws if not, for paid and unpaid requests. *)
Quotes(d) ==
  ValidateBaseMainnetPaymentRequirements(BuildPaymentRequirements(d), d.sellerAddress)

-----------------------------------------------------------------------------
(* Payments.                                                               *)

(* window: validAfter and validBefore in this order, or not; malformed: a  *)
(* field or the signature is missing or is no address, number or hex text. *)
Authorizations ==
  [ to : Addresses, value : {"1000", "999"}, nonce : Nonces,
    window : {"open", "reversed"}, malformed : BOOLEAN ]

(* identifier: what the extension holds instead, if it is no identifier.   *)
(* payload: what stands where the signed authorization should; "text" is   *)
(* any value that is neither an object nor falsy.                          *)
Payments ==
  [ accepted   : Requirements,
    echoed     : BOOLEAN,    \* the server's extensions, as validateExtensions wants
    identifier : Identifiers \cup {"absent", "shapeless", "no id", "bad id"},
    payload    : {"authorization", "permit2", "no authorization", "nothing", "text"},
    auth       : Authorizations ]

Requests ==
  [ method  : {"GET", "POST"},
    query   : Values \cup {"invalid"},
    header  : {"none", "undecodable", "payment"},
    payment : Payments ]

(* validatePaymentIdentifierBeforeReservation: an extension that has the   *)
(* right shape may still hold no identifier.                               *)
ValidatePaymentIdentifier(p) == p.identifier \in Identifiers

ValidateAuthorizationAgainst(p, requirement) ==
  /\ p.payload = "authorization"
  /\ ~ p.auth.malformed
  /\ p.auth.window = "open"
  /\ p.auth.value = requirement.amount

(* The requirement is the server's and, here, of the network and asset of  *)
(* the policy; `accepted' equals it.                                       *)
ValidateEip3009AuthorizationStructure(p, requirement) ==
  /\ p.payload = "authorization"
  /\ ~ p.auth.malformed
  /\ p.auth.window = "open"
  /\ NormalizeAddress(p.auth.to) = NormalizeAddress(requirement.payTo)
  /\ p.auth.value = requirement.amount

(* findMatchingRequirements of the resource server.                        *)
FindMatchingRequirements(p, d) ==
  {r \in BuildPaymentRequirements(d) : r = p.accepted}

(* The checks of handleMainnetExamplePaidRequest in their order.  A        *)
(* request that fails one is answered 405, 400, 402 or, without a quote    *)
(* or with a payload that is text, by an exception, and changes nothing.   *)
Admitted(r, d) ==
  /\ r.method = "GET"
  /\ r.query \in Values
  /\ Quotes(d)
  /\ r.header = "payment"
  /\ FindMatchingRequirements(r.payment, d) # {}
  /\ r.payment.echoed
  /\ ValidatePaymentIdentifier(r.payment)
  /\ ValidateEip3009AuthorizationStructure(r.payment, ConfiguredRequirement(d))

-----------------------------------------------------------------------------
(* Keys.                                                                   *)

Commitments ==
  [ to : Addresses, value : {"1000", "999"}, nonce : Nonces,
    contract : {"baseUSDC", "other"} ]

(* resourceIdentityHash and the plain columns nonce and amount.            *)
Resources == [query : Values, nonce : Nonces, amount : {"1000", "999"}]

(* The response to a query: buildMainnetExampleResponse echoes the value.  *)
ExampleResponse(query) == query

AttemptForAnyQuery(p, query, requirement) ==
  [ pid     |-> p.identifier,
    terms   |-> [requirement |-> requirement, query |-> CHOOSE v \in Values : TRUE],
    auth    |-> [to |-> p.auth.to, value |-> p.auth.value, nonce |-> p.auth.nonce,
                 contract |-> requirement.kind],
    details |-> [query  |-> CHOOSE v \in Values : TRUE, nonce |-> p.auth.nonce,
                 amount |-> requirement.amount] ]

(* computeCanonicalKeys and the arguments of prepareAttempt, from the      *)
(* server's requirement, the request's query and the authorization as text.*)
Attempt(p, query, requirement) ==
  [ pid     |-> p.identifier,
    terms   |-> [requirement |-> requirement, query |-> query],
    auth    |-> [to |-> p.auth.to, value |-> p.auth.value, nonce |-> p.auth.nonce,
                 contract |-> requirement.kind],
    details |-> [query |-> query, nonce |-> p.auth.nonce,
                 amount |-> requirement.amount] ]

-----------------------------------------------------------------------------
(* The repository's own client.                                            *)

(* loadAndValidateMainnetTerms: the Worker's quote for `query', as a page  *)
(* accepts it that was built for a seller; the resource of the quote is of *)
(* the Worker's own origin and query.                                      *)
TermsLoad(d, sellerAddress) ==
  /\ Quotes(d)
  /\ ValidateBaseMainnetPaymentRequirements(BuildPaymentRequirements(d), sellerAddress)

(* createPaymentPayload over the loaded terms: the library writes the      *)
(* seller's address into the authorization in a spelling of its own.       *)
CreatePayment(requirement, identifier, nonce, spelling) ==
  [ accepted   |-> requirement,
    echoed     |-> TRUE,
    identifier |-> identifier,
    payload    |-> "authorization",
    auth       |-> [to |-> <<requirement.payTo[1], spelling>>,
                    value |-> requirement.amount, nonce |-> nonce,
                    window |-> "open", malformed |-> FALSE] ]

PaidRequest(p, query) ==
  [method |-> "GET", query |-> query, header |-> "payment", payment |-> p]
=============================================================================
