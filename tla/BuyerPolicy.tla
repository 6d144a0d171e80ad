----------------------------- MODULE BuyerPolicy -----------------------------
(***************************************************************************)
(* What the command-line buyer accepts: its environment (buyer-env.ts),    *)
(* the guards over it (buyer-guards.ts) and the terms it may sign          *)
(* (payment-policy.ts).                                                    *)
(*                                                                         *)
(* A setting of the environment is a member of a small set or, for the two *)
(* that hold URLs, a record of what the guards read of a parsed URL; a     *)
(* value is trimmed and addresses are in one case.  A guard is a predicate:*)
(* the wording of its refusal is left out.                                 *)
(***************************************************************************)
EXTENDS Naturals, Sequences

CONSTANTS
  LocalHosts,  \* localhost and 127.0.0.1
  WorkersDev,  \* hosts whose name ends with .workers.dev
  Elsewhere,   \* any other host
  PayTo,       \* seller addresses
  NULL

ASSUME PolicyAssumption ==
  /\ LocalHosts \cap WorkersDev = {}
  /\ Elsewhere \cap (LocalHosts \cup WorkersDev) = {}

Hosts == LocalHosts \cup WorkersDev \cup Elsewhere

-----------------------------------------------------------------------------
(* The environment: a partial function from keys to values.                *)

Keys == {"API_URL", "EXPECTED_REMOTE_API_ORIGIN", "EVM_PRIVATE_KEY",
         "EXPECTED_PAY_TO_ADDRESS", "ALLOW_TESTNET_PAYMENT", "X402_NETWORK"}

(* loadEnvFile sets only what process.env lacks.                           *)
LoadEnvFile(env, file) ==
  [k \in DOMAIN env \cup DOMAIN file |-> IF k \in DOMAIN env THEN env[k] ELSE file[k]]

(* loadBuyerEnv: .env.buyer, then .env.                                    *)
LoadBuyerEnv(l) == LoadEnvFile(LoadEnvFile(l.process, l.envBuyer), l.env)

Setting(env, k) == IF k \in DOMAIN env THEN env[k] ELSE NULL

-----------------------------------------------------------------------------
(* Guards.                                                                 *)

(* A setting that should be a URL.  url.origin is <<scheme, host, port>>;  *)
(* query is valid when it is the one allowed key with an untrimmed, not    *)
(* blank and not oversized value.                                          *)
Urls ==
  [ form   : {"blank", "malformed", "url"},
    scheme : {"http", "https"},
    host   : Hosts,
    port   : {"8787", "default"},
    creds  : BOOLEAN,
    path   : {"paid", "root", "other"},
    query  : {"valid", "none", "bad"},
    hash   : BOOLEAN ]

Origin(u) == <<u.scheme, u.host, u.port>>

ValidatePaidRoutePathAndQuery(u) == u.path = "paid" /\ u.query = "valid"

Unset(o) == o = NULL \/ o.form = "blank"

(* An unset origin is in order: only local URLs pass then.                 *)
ValidateExpectedRemoteApiOrigin(o) ==
  \/ Unset(o)
  \/ /\ o.form = "url"
     /\ o.scheme = "https"
     /\ ~ o.creds
     /\ o.path = "root"
     /\ o.query = "none" /\ ~ o.hash
     /\ o.host \in WorkersDev

IsLocal(u) == u.scheme = "http" /\ u.host \in LocalHosts /\ u.port = "8787"

ValidateApiUrl(u, o) ==
  /\ u # NULL
  /\ u.form = "url"
  /\ ~ u.creds /\ ~ u.hash
  /\ ValidatePaidRoutePathAndQuery(u)
  /\ \/ IsLocal(u)
     \/ /\ ~ Unset(o) /\ ValidateExpectedRemoteApiOrigin(o)
        /\ u.scheme = "https"
        /\ Origin(u) = Origin(o)
        /\ u.host \in WorkersDev

(* 64 hexadecimal digits need not be a key of the curve.                   *)
ValidatePrivateKeyFormat(key) == key \in {"key", "offCurve"}

ValidateExpectedPayToAddress(address) == address \in PayTo

ParseBoolFlag(value) == value = "true"

BASE_SEPOLIA == "eip155:84532"

Network(env) ==
  IF Setting(env, "X402_NETWORK") = NULL THEN BASE_SEPOLIA ELSE env["X402_NETWORK"]

EvaluateBuyerGuards(env) ==
  /\ ValidateExpectedRemoteApiOrigin(Setting(env, "EXPECTED_REMOTE_API_ORIGIN"))
  /\ ValidateApiUrl(Setting(env, "API_URL"), Setting(env, "EXPECTED_REMOTE_API_ORIGIN"))
  /\ ValidatePrivateKeyFormat(Setting(env, "EVM_PRIVATE_KEY"))
  /\ ValidateExpectedPayToAddress(Setting(env, "EXPECTED_PAY_TO_ADDRESS"))
  /\ ParseBoolFlag(Setting(env, "ALLOW_TESTNET_PAYMENT"))
  /\ Network(env) = BASE_SEPOLIA

-----------------------------------------------------------------------------
(* Terms of payment: the option requirement() of payment-policy.ts builds  *)
(* for a seller, and the check of one that was offered.                    *)

Requirement(seller) ==
  [ scheme |-> "exact", network |-> BASE_SEPOLIA, amount |-> 1000,
    asset |-> "testUSDC", payTo |-> seller, maxTimeoutSeconds |-> 300,
    name |-> "USDC", version |-> "2" ]

MatchesForAnySeller(r, expectedPayTo) ==
  /\ r.scheme = "exact" /\ r.network = BASE_SEPOLIA
  /\ r.amount = 1000 /\ r.asset = "testUSDC" /\ r.maxTimeoutSeconds = 300
  /\ r.name = "USDC" /\ r.version = "2"

MatchesBaseSepoliaPaymentTerms(r, expectedPayTo) ==
  /\ r.scheme = "exact"
  /\ r.network = BASE_SEPOLIA
  /\ r.amount = 1000
  /\ r.asset = "testUSDC"
  /\ r.payTo = expectedPayTo
  /\ r.maxTimeoutSeconds = 300
  /\ r.name = "USDC"
  /\ r.version = "2"

(* The preflight wants exactly one option, ...                             *)
ValidateBaseSepoliaPaymentRequirements(options, expectedPayTo) ==
  Len(options) = 1 /\ MatchesBaseSepoliaPaymentTerms(options[1], expectedPayTo)

(* ... the payment client drops the options that do not match and pays the *)
(* first that is left; with none it throws.                                *)
CreateBaseSepoliaPaymentPolicy(options, expectedPayTo) ==
  {i \in DOMAIN options : MatchesBaseSepoliaPaymentTerms(options[i], expectedPayTo)}

SelectBaseSepoliaPaymentRequirement(kept) == {i \in kept : \A j \in kept : i <= j}

(* The EIP-712 domain an exact payment is signed under.                    *)
PaymentPayloadPrerequisites(r) == r.name # NULL /\ r.version # NULL
=============================================================================
