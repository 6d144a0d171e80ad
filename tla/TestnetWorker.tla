--------------------------- MODULE TestnetWorker ---------------------------
(***************************************************************************)
(* Requests to the testnet Worker (index.ts): the cache of apps by the     *)
(* fingerprint of their environment, the checks of a request before its    *)
(* payment is looked at (routes/example.ts), and the initialisation of the *)
(* payment middleware, begun by the first request that needs it and shared *)
(* by all that come while it runs (payment.ts).                            *)
(*                                                                         *)
(* What initialize() awaits and what the middleware of @x402/hono does     *)
(* with a request are external.  Everything between two awaits is one      *)
(* step; the rejection handler of the shared promise runs as it rejects,   *)
(* before any other request, the requests that await it resume later, one  *)
(* by one.                                                                 *)
(***************************************************************************)
EXTENDS Naturals

CONSTANTS
  Requests,   \* the requests
  Apps,       \* fingerprints of environments (envCacheKey)
  GoodApps,   \* those resolveConfig accepts
  MaxInits,   \* bound on the initialisations of an app; the last succeeds
  NULL

ASSUME WorkerAssumption ==
  /\ GoodApps \subseteq Apps
  /\ MaxInits \in Nat \ {0}
  /\ NULL \notin Nat

VARIABLES
  appCache,  \* the apps created
  started,   \* initialisations an app has started
  init,      \* how they stand: init[a][i], of the i-th
  shared,    \* localInitPromise of each app: 0 (null) or the initialisation
  req        \* the local state of each request

vars == <<appCache, started, init, shared, req>>

Inits == 1 .. MaxInits

Standing == {"unused", "pending", "ok", "failed"}

(* What a request asks.                                                    *)
Inputs ==
  [ app   : Apps,
    path  : {"example", "other"},
    valid : BOOLEAN,      \* the query, of the example route
    paid  : BOOLEAN ]     \* does it bring a payment?

Request ==
  [ pc     : {"new", "waiting", "serving", "answered"},
    input  : Inputs,
    awaits : 0 .. MaxInits,
    status : {200, 400, 402, 500, NULL} ]

WorkerTypeOK ==
  /\ appCache \subseteq GoodApps
  /\ started \in [Apps -> 0 .. MaxInits]
  /\ init \in [Apps -> [Inits -> Standing]]
  /\ shared \in [Apps -> 0 .. MaxInits]
  /\ req \in [Requests -> Request]

-----------------------------------------------------------------------------
At(r, label) == req[r].pc = label
AppOf(r) == req[r].input.app

Answer(r, status) ==
  req' = [req EXCEPT ![r].pc = "answered", ![r].status = status]

Wait(r, i) == req' = [req EXCEPT ![r].pc = "waiting", ![r].awaits = i]

(* createApp throws for an environment resolveConfig rejects; nothing is   *)
(* cached then.                                                            *)
Refused(r) ==
  /\ AppOf(r) \notin GoodApps
  /\ Answer(r, 500)
  /\ UNCHANGED <<appCache, started, init, shared>>

(* Routes without payment, and validateExampleQuery.                       *)
AnsweredAtOnce(r) ==
  /\ AppOf(r) \in GoodApps
  /\ appCache' = appCache \cup {AppOf(r)}
  /\ \/ req[r].input.path = "other" /\ Answer(r, 200)
     \/ req[r].input.path = "example" /\ ~ req[r].input.valid /\ Answer(r, 400)
  /\ UNCHANGED <<started, init, shared>>

NeedsPayment(r) ==
  /\ AppOf(r) \in GoodApps
  /\ req[r].input.path = "example" /\ req[r].input.valid
  /\ appCache' = appCache \cup {AppOf(r)}

Joins(r) ==
  /\ NeedsPayment(r)
  /\ shared[AppOf(r)] # 0
  /\ Wait(r, shared[AppOf(r)])
  /\ UNCHANGED <<started, init, shared>>

Starts(r) ==
  LET a == AppOf(r)
      i == started[a] + 1
  IN /\ NeedsPayment(r)
     /\ shared[a] = 0
     /\ started[a] < MaxInits
     /\ started' = [started EXCEPT ![a] = i]
     /\ init' = [init EXCEPT ![a][i] = "pending"]
     /\ shared' = [shared EXCEPT ![a] = i]
     /\ Wait(r, i)

(* fetch, up to the await of the middleware.                               *)
Arrive(r) ==
  /\ At(r, "new")
  /\ Refused(r) \/ AnsweredAtOnce(r) \/ Joins(r) \/ Starts(r)

InitFailsForGood(a, i) ==
  /\ i < MaxInits
  /\ init[a][i] = "pending"
  /\ init' = [init EXCEPT ![a][i] = "failed"]
  /\ UNCHANGED <<appCache, started, shared, req>>

InitSucceeds(a, i) ==
  /\ init[a][i] = "pending"
  /\ init' = [init EXCEPT ![a][i] = "ok"]
  /\ UNCHANGED <<appCache, started, shared, req>>

(* The promise is given up, so that the next request tries again.          *)
InitFails(a, i) ==
  /\ i < MaxInits
  /\ init[a][i] = "pending"
  /\ init' = [init EXCEPT ![a][i] = "failed"]
  /\ shared' = [shared EXCEPT ![a] = 0]
  /\ UNCHANGED <<appCache, started, req>>

ResumeGivesUp(r) ==
  /\ At(r, "waiting")
  /\ \/ /\ init[AppOf(r)][req[r].awaits] = "ok"
        /\ req' = [req EXCEPT ![r].pc = "serving"] /\ UNCHANGED shared
     \/ /\ init[AppOf(r)][req[r].awaits] = "failed"
        /\ Answer(r, 500)
        /\ shared' = [shared EXCEPT ![AppOf(r)] = 0]
  /\ UNCHANGED <<appCache, started, init>>

ResumeWhenOk(r) ==
  /\ At(r, "waiting")
  /\ init[AppOf(r)][req[r].awaits] = "ok"
  /\ req' = [req EXCEPT ![r].pc = "serving"]
  /\ UNCHANGED <<appCache, started, init, shared>>

(* A waiting request goes on to the middleware, or fails (app.onError).    *)
Resume(r) ==
  /\ At(r, "waiting")
  /\ \/ /\ init[AppOf(r)][req[r].awaits] = "ok"
        /\ req' = [req EXCEPT ![r].pc = "serving"]
     \/ init[AppOf(r)][req[r].awaits] = "failed" /\ Answer(r, 500)
  /\ UNCHANGED <<appCache, started, init, shared>>

(* The middleware of @x402/hono and, behind it, the example handler.       *)
Serve(r) ==
  /\ At(r, "serving")
  /\ \/ Answer(r, 402)
     \/ req[r].input.paid /\ \E status \in {200, 500} : Answer(r, status)
  /\ UNCHANGED <<appCache, started, init, shared>>

-----------------------------------------------------------------------------
NewRequest(i) == [pc |-> "new", input |-> i, awaits |-> 0, status |-> NULL]

Init ==
  /\ appCache = {}
  /\ started = [a \in Apps |-> 0]
  /\ init = [a \in Apps |-> [i \in Inits |-> "unused"]]
  /\ shared = [a \in Apps |-> 0]
  /\ req \in [Requests -> {NewRequest(i) : i \in Inputs}]

Next ==
  \/ \E r \in Requests : Arrive(r) \/ Resume(r) \/ Serve(r)
  \/ \E a \in Apps, i \in Inits : InitSucceeds(a, i) \/ InitFails(a, i)

Spec == Init /\ [][Next]_vars

(* Requests that were let in run on, and initialize() settles.             *)
FairSpec ==
  /\ Spec
  /\ \A r \in Requests : WF_vars(Resume(r)) /\ WF_vars(Serve(r))
  /\ \A a \in Apps, i \in Inits : WF_vars(InitSucceeds(a, i) \/ InitFails(a, i))

-----------------------------------------------------------------------------
(* Properties.                                                             *)

(* index.ts, on the cache: initialize runs once per isolate.  However many *)
(* first requests come at once, an initialisation is started only when     *)
(* every earlier one has failed (localInitPromise).                        *)
InitialisedOnce ==
  \A a \in Apps, i \in Inits :
    init[a][i] \in {"pending", "ok"} => i = started[a]

(* No request reaches the payment middleware of an app that is not         *)
(* initialised, also when another one has begun to initialise it.          *)
ServedInitialised ==
  \A r \in Requests : At(r, "serving") => \E i \in Inits : init[AppOf(r)][i] = "ok"

(* A failed initialisation fails the requests that wait for it and no      *)
(* request that comes after it.                                            *)
FailureNotInherited ==
  [][\A r \in Requests :
       At(r, "new") /\ At(r, "waiting")' =>
         init'[AppOf(r)][req'[r].awaits] \in {"pending", "ok"}]_vars

(* Every request that waits for an initialisation is answered.             *)
WaitersAnswered == \A r \in Requests : At(r, "waiting") ~> At(r, "answered")
=============================================================================
