------------------------ MODULE TestnetWorkerProofs ------------------------
(***************************************************************************)
(* Proofs about TestnetWorker, for any requests, any apps and any number   *)
(* of initialisations.  Shared relates localInitPromise to the             *)
(* initialisations started: it is null exactly when all of them have       *)
(* failed, and otherwise the latest of them, which has not.                *)
(***************************************************************************)
EXTENDS TestnetWorker, TLAPS

Shared(a) ==
  /\ \A i \in Inits : init[a][i] # "unused" => i <= started[a]
  /\ \A i \in Inits : init[a][i] \in {"pending", "ok"} => i = started[a]
  /\ shared[a] = 0 => \A i \in Inits : init[a][i] \in {"unused", "failed"}
  /\ shared[a] # 0 => shared[a] = started[a] /\ init[a][shared[a]] \in {"pending", "ok"}

Awaiting(r) ==
  /\ At(r, "waiting") => req[r].awaits \in Inits
  /\ At(r, "serving") => req[r].awaits \in Inits /\ init[AppOf(r)][req[r].awaits] = "ok"

IInv ==
  /\ WorkerTypeOK
  /\ \A a \in Apps : Shared(a)
  /\ \A r \in Requests : Awaiting(r)

-----------------------------------------------------------------------------
LEMMA InitInv == Init => IInv
<1> SUFFICES ASSUME Init PROVE IInv
  OBVIOUS
<1>1. 0 \in 0 .. MaxInits /\ Inits \subseteq Nat
  BY WorkerAssumption DEF Inits
<1>2. \A i \in Inputs : NewRequest(i) \in Request
  BY <1>1 DEF NewRequest, Request
<1>3. WorkerTypeOK
  BY <1>1, <1>2 DEF Init, WorkerTypeOK, Standing
<1>4. \A r \in Requests : req[r].pc = "new"
  BY DEF Init, NewRequest
<1> QED BY <1>3, <1>4 DEF Init, IInv, Shared, Awaiting, At

(* A step of request r that changes only its own record, from waiting or   *)
(* new, keeps the invariant if the new record fits.                        *)
LEMMA StepOfRequest ==
  ASSUME IInv, NEW r \in Requests, NEW q \in Request,
         req' = [req EXCEPT ![r] = q], q.input = req[r].input,
         q.pc = "waiting" => q.awaits \in Inits,
         q.pc = "serving" => q.awaits \in Inits /\ init[AppOf(r)][q.awaits] = "ok",
         appCache' \subseteq GoodApps,
         UNCHANGED <<started, init, shared>>
  PROVE  IInv'
<1>1. req \in [Requests -> Request]
  BY DEF IInv, WorkerTypeOK
<1>2. WorkerTypeOK'
  BY <1>1 DEF IInv, WorkerTypeOK
<1>3. \A a \in Apps : Shared(a)'
  BY DEF IInv, Shared
<1>4. ASSUME NEW s \in Requests PROVE Awaiting(s)'
  <2>1. Awaiting(s)
    BY DEF IInv
  <2>2. req'[s] = IF s = r THEN q ELSE req[s]
    BY <1>1
  <2> QED BY <2>1, <2>2 DEF Awaiting, At, AppOf
<1> QED BY <1>2, <1>3, <1>4 DEF IInv

(* A step that gives initialisation i of app a the standing s, and leaves  *)
(* those that were ok as they are, keeps the types and what requests wait  *)
(* for.                                                                    *)
LEMMA StepOfInit ==
  ASSUME IInv, NEW a \in Apps, NEW i \in Inits, NEW s \in Standing,
         init' = [init EXCEPT ![a][i] = s], init[a][i] # "ok",
         UNCHANGED req
  PROVE  /\ init' \in [Apps -> [Inits -> Standing]]
         /\ \A j \in Inits : init'[a][j] = IF j = i THEN s ELSE init[a][j]
         /\ \A b \in Apps \ {a} : init'[b] = init[b]
         /\ \A r \in Requests : Awaiting(r)'
<1>1. init \in [Apps -> [Inits -> Standing]] /\ req \in [Requests -> Request]
  BY DEF IInv, WorkerTypeOK
<1>2. \A j \in Inits : init'[a][j] = IF j = i THEN s ELSE init[a][j]
  BY <1>1
<1>3. \A b \in Apps \ {a} : init'[b] = init[b]
  BY <1>1
<1>4. init' \in [Apps -> [Inits -> Standing]]
  <2>1. [init[a] EXCEPT ![i] = s] \in [Inits -> Standing]
    BY <1>1
  <2> QED BY <1>1, <2>1
<1>5. ASSUME NEW r \in Requests PROVE Awaiting(r)'
  <2>1. Awaiting(r) /\ AppOf(r) \in Apps
    BY <1>1 DEF IInv, AppOf, Request, Inputs
  <2>2. At(r, "serving") => init'[AppOf(r)][req[r].awaits] = "ok"
    BY <1>2, <1>3, <2>1 DEF Awaiting
  <2> QED BY <2>1, <2>2 DEF Awaiting, At, AppOf
<1> QED BY <1>2, <1>3, <1>4, <1>5

LEMMA StartsInv ==
  ASSUME IInv, NEW r \in Requests, At(r, "new"), Starts(r)
  PROVE  IInv'
<1> DEFINE a == AppOf(r)
           i == started[a] + 1
           q == [req[r] EXCEPT !.pc = "waiting", !.awaits = i]
<1>1. /\ req \in [Requests -> Request] /\ init \in [Apps -> [Inits -> Standing]]
      /\ started \in [Apps -> 0 .. MaxInits] /\ shared \in [Apps -> 0 .. MaxInits]
      /\ appCache \subseteq GoodApps /\ MaxInits \in Nat
  BY WorkerAssumption DEF IInv, WorkerTypeOK
<1>2. a \in Apps /\ a \in GoodApps /\ req[r] \in Request
  BY <1>1 DEF Starts, NeedsPayment, AppOf, Request, Inputs
<1>3. i \in Inits /\ i \in 0 .. MaxInits /\ started[a] \in Nat
  BY <1>1, <1>2 DEF Starts, Inits
<1>4. /\ started' = [started EXCEPT ![a] = i]
      /\ init' = [init EXCEPT ![a][i] = "pending"]
      /\ shared' = [shared EXCEPT ![a] = i]
      /\ shared[a] = 0
      /\ appCache' = appCache \cup {a}
      /\ req' = [req EXCEPT ![r] = q]
  BY DEF Starts, NeedsPayment, Wait
<1> HIDE DEF i, a
<1>5. Shared(a)
  BY <1>2 DEF IInv
<1>6. init' \in [Apps -> [Inits -> Standing]]
  <2>1. [init[a] EXCEPT ![i] = "pending"] \in [Inits -> Standing]
    BY <1>1, <1>2 DEF Standing
  <2> QED BY <1>1, <1>4, <2>1
<1>7. /\ \A j \in Inits : init'[a][j] = IF j = i THEN "pending" ELSE init[a][j]
      /\ \A b \in Apps \ {a} : init'[b] = init[b]
  BY <1>1, <1>2, <1>4
<1>8. q \in Request /\ q.input = req[r].input /\ q.pc = "waiting" /\ q.awaits = i
  BY <1>2, <1>3 DEF Request
<1>9. WorkerTypeOK'
  BY <1>1, <1>2, <1>3, <1>4, <1>6, <1>8 DEF WorkerTypeOK
<1>10. ASSUME NEW b \in Apps PROVE Shared(b)'
  <2>1. CASE b = a
    <3>1. started'[a] = i /\ shared'[a] = i
      BY <1>1, <1>2, <1>4
    <3>2. \A j \in Inits : init[a][j] # "unused" => j <= i
      BY <1>1, <1>2, <1>3, <1>5 DEF Shared, Inits, i
    <3>3. \A j \in Inits : init[a][j] \in {"unused", "failed"}
      BY <1>4, <1>5 DEF Shared
    <3>4. i # 0 /\ i \in Nat
      BY <1>3 DEF Inits
    <3> QED BY <1>3, <1>7, <2>1, <3>1, <3>2, <3>3, <3>4 DEF Shared
  <2>2. CASE b # a
    <3>1. started'[b] = started[b] /\ shared'[b] = shared[b] /\ init'[b] = init[b]
      BY <1>1, <1>4, <1>7, <2>2
    <3>2. Shared(b)
      BY DEF IInv
    <3> QED BY <3>1, <3>2 DEF Shared
  <2> QED BY <2>1, <2>2
<1>11. ASSUME NEW s \in Requests PROVE Awaiting(s)'
  <2>1. Awaiting(s) /\ AppOf(s) \in Apps
    BY <1>1 DEF IInv, AppOf, Request, Inputs
  <2>2. CASE s = r
    <3>1. req'[s] = q
      BY <1>1, <1>4, <2>2
    <3> QED BY <1>3, <1>8, <3>1 DEF Awaiting, At
  <2>3. CASE s # r
    <3>1. req'[s] = req[s]
      BY <1>1, <1>4, <2>3
    <3>2. ASSUME At(s, "serving") PROVE init'[AppOf(s)][req[s].awaits] = "ok"
      <4>1. req[s].awaits \in Inits /\ init[AppOf(s)][req[s].awaits] = "ok"
        BY <2>1, <3>2 DEF Awaiting
      <4>2. \A j \in Inits : init[a][j] # "ok"
        BY <1>4, <1>5 DEF Shared
      <4>3. AppOf(s) # a
        BY <4>1, <4>2
      <4> QED BY <1>7, <2>1, <4>1, <4>3
    <3> QED BY <2>1, <3>1, <3>2 DEF Awaiting, At, AppOf
  <2> QED BY <2>2, <2>3
<1> QED BY <1>9, <1>10, <1>11 DEF IInv

(* A request that changes only its own record.                             *)
LEMMA RequestInv ==
  ASSUME IInv, NEW r \in Requests,
         \/ At(r, "new") /\ (Refused(r) \/ AnsweredAtOnce(r) \/ Joins(r))
         \/ Resume(r) \/ Serve(r)
  PROVE  IInv'
<1>1. /\ req \in [Requests -> Request] /\ shared \in [Apps -> 0 .. MaxInits]
      /\ appCache \subseteq GoodApps /\ MaxInits \in Nat
  BY WorkerAssumption DEF IInv, WorkerTypeOK
<1>2. req[r] \in Request /\ AppOf(r) \in Apps
  BY <1>1 DEF AppOf, Request, Inputs
<1>3. ASSUME NEW st \in {200, 400, 402, 500}, Answer(r, st),
             appCache' \subseteq GoodApps, UNCHANGED <<started, init, shared>>
      PROVE  IInv'
  <2> DEFINE q == [pc |-> "answered", input |-> req[r].input,
                   awaits |-> req[r].awaits, status |-> st]
  <2>1. /\ req[r].input \in Inputs /\ req[r].awaits \in 0 .. MaxInits
        /\ st \in {200, 400, 402, 500, NULL}
    BY <1>2 DEF Request
  <2>2. q \in Request /\ q.input = req[r].input /\ q.pc = "answered"
    BY <2>1 DEF Request
  <2> DEFINE h == [req[r] EXCEPT !.pc = "answered"]
             g == [req EXCEPT ![r] = h]
  <2>3. h \in Request /\ h.pc = "answered" /\ h.input = req[r].input
        /\ h.awaits = req[r].awaits
    BY <1>2 DEF Request
  <2>4. g = [req EXCEPT ![r].pc = "answered"] /\ g \in [Requests -> Request] /\ g[r] = h
    BY <1>1, <2>3
  <2> HIDE DEF h
  <2>5. [h EXCEPT !.status = st] = q
    BY <2>3 DEF Request
  <2>6. req' = [g EXCEPT ![r].status = st]
    BY <1>3, <2>4 DEF Answer
  <2> HIDE DEF g, q
  <2>7. req' = [g EXCEPT ![r] = q]
    BY <2>4, <2>5, <2>6
  <2>8. [g EXCEPT ![r] = q] = [req EXCEPT ![r] = q]
    BY <1>1 DEF g
  <2> QED BY <1>3, <2>2, <2>7, <2>8, StepOfRequest
<1>4. CASE Refused(r)
  BY <1>1, <1>3, <1>4 DEF Refused
<1>5. CASE AnsweredAtOnce(r)
  <2>1. appCache' \subseteq GoodApps
    BY <1>1, <1>5 DEF AnsweredAtOnce
  <2> QED BY <1>3, <1>5, <2>1 DEF AnsweredAtOnce
<1>6. CASE Joins(r)
  <2> DEFINE q == [req[r] EXCEPT !.pc = "waiting", !.awaits = shared[AppOf(r)]]
  <2>1. shared[AppOf(r)] \in Inits /\ shared[AppOf(r)] \in 0 .. MaxInits
    BY <1>1, <1>2, <1>6 DEF Joins, Inits
  <2>2. q \in Request /\ q.input = req[r].input /\ q.pc = "waiting"
        /\ q.awaits = shared[AppOf(r)]
    BY <1>2, <2>1 DEF Request
  <2>3. req' = [req EXCEPT ![r] = q]
    BY <1>6 DEF Joins, Wait
  <2>4. appCache' \subseteq GoodApps /\ UNCHANGED <<started, init, shared>>
    BY <1>1, <1>6 DEF Joins, NeedsPayment
  <2> HIDE DEF q
  <2> QED BY <2>1, <2>2, <2>3, <2>4, StepOfRequest
<1>7. CASE Resume(r)
  <2>1. CASE /\ init[AppOf(r)][req[r].awaits] = "ok"
             /\ req' = [req EXCEPT ![r].pc = "serving"]
    <3> DEFINE q == [req[r] EXCEPT !.pc = "serving"]
    <3>1. q \in Request /\ q.input = req[r].input /\ q.pc = "serving"
          /\ q.awaits = req[r].awaits
      BY <1>2 DEF Request
    <3>2. req' = [req EXCEPT ![r] = q]
      BY <2>1
    <3>3. req[r].awaits \in Inits
      BY <1>7 DEF Resume, IInv, Awaiting
    <3>4. appCache' \subseteq GoodApps /\ UNCHANGED <<started, init, shared>>
      BY <1>1, <1>7 DEF Resume
    <3> HIDE DEF q
    <3> QED BY <2>1, <3>1, <3>2, <3>3, <3>4, StepOfRequest
  <2>2. CASE Answer(r, 500)
    BY <1>1, <1>3, <1>7, <2>2 DEF Resume
  <2> QED BY <1>7, <2>1, <2>2 DEF Resume
<1>8. CASE Serve(r)
  BY <1>1, <1>3, <1>8 DEF Serve
<1> QED BY <1>4, <1>5, <1>6, <1>7, <1>8

LEMMA SettlesInv ==
  ASSUME IInv, NEW a \in Apps, NEW i \in Inits, InitSucceeds(a, i) \/ InitFails(a, i)
  PROVE  IInv'
<1>1. /\ shared \in [Apps -> 0 .. MaxInits] /\ MaxInits \in Nat /\ Shared(a)
      /\ started \in [Apps -> 0 .. MaxInits] /\ init \in [Apps -> [Inits -> Standing]]
  BY WorkerAssumption DEF IInv, WorkerTypeOK
<1>2. init[a][i] = "pending" /\ i = started[a] /\ shared[a] = i
  <2>1. init[a][i] = "pending"
    BY DEF InitSucceeds, InitFails
  <2> QED BY <1>1, <2>1 DEF Shared
<1>3. PICK s \in {"ok", "failed"} :
        /\ init' = [init EXCEPT ![a][i] = s]
        /\ s = "ok" => shared' = shared
        /\ s = "failed" => shared' = [shared EXCEPT ![a] = 0]
  BY DEF InitSucceeds, InitFails
<1>4. UNCHANGED <<appCache, started, req>>
  BY DEF InitSucceeds, InitFails
<1>5. s \in Standing /\ init[a][i] # "ok"
  BY <1>2 DEF Standing
<1>6. /\ init' \in [Apps -> [Inits -> Standing]]
      /\ \A j \in Inits : init'[a][j] = IF j = i THEN s ELSE init[a][j]
      /\ \A b \in Apps \ {a} : init'[b] = init[b]
      /\ \A r \in Requests : Awaiting(r)'
  BY <1>3, <1>4, <1>5, StepOfInit
<1>7. shared' \in [Apps -> 0 .. MaxInits]
  BY <1>1, <1>3
<1>8. WorkerTypeOK'
  BY <1>4, <1>6, <1>7 DEF IInv, WorkerTypeOK
<1>9. ASSUME NEW b \in Apps PROVE Shared(b)'
  <2>1. Shared(b) /\ started'[b] = started[b]
    BY <1>4 DEF IInv
  <2>2. CASE b # a
    <3>1. shared'[b] = shared[b] /\ init'[b] = init[b]
      BY <1>1, <1>3, <1>6, <2>2
    <3> QED BY <2>1, <3>1 DEF Shared
  <2>3. CASE b = a /\ s = "ok"
    <3>1. shared'[a] = i
      BY <1>2, <1>3, <2>3
    <3>2. i # 0 /\ i \in Nat
      BY <1>1 DEF Inits
    <3> QED BY <1>2, <1>6, <2>1, <2>3, <3>1, <3>2 DEF Shared
  <2>4. CASE b = a /\ s = "failed"
    <3>1. shared'[a] = 0
      BY <1>1, <1>3, <2>4
    <3>2. \A j \in Inits \ {i} : init[a][j] \in {"unused", "failed"}
      BY <1>1, <1>2 DEF Shared, Standing
    <3> QED BY <1>2, <1>6, <2>1, <2>4, <3>1, <3>2 DEF Shared
  <2> QED BY <2>2, <2>3, <2>4
<1> QED BY <1>6, <1>8, <1>9 DEF IInv

LEMMA NextInv == IInv /\ [Next]_vars => IInv'
<1> SUFFICES ASSUME IInv, [Next]_vars PROVE IInv'
  OBVIOUS
<1>1. CASE UNCHANGED vars
  BY <1>1 DEF vars, IInv, WorkerTypeOK, Shared, Awaiting, At, AppOf
<1>2. ASSUME NEW r \in Requests, Arrive(r) \/ Resume(r) \/ Serve(r)
      PROVE  IInv'
  BY <1>2, StartsInv, RequestInv DEF Arrive
<1>3. ASSUME NEW a \in Apps, NEW i \in Inits, InitSucceeds(a, i) \/ InitFails(a, i)
      PROVE  IInv'
  BY <1>3, SettlesInv
<1> QED BY <1>1, <1>2, <1>3 DEF Next

-----------------------------------------------------------------------------
(* The invariant holds in every behaviour.                                 *)
THEOREM WorkerInvariance == Spec => []IInv
BY InitInv, NextInv, PTL DEF Spec

(* The cache, the initialisations and the requests stay in range; only     *)
(* apps that resolveConfig accepts are cached.                             *)
THEOREM WorkerTypeCorrect == Spec => []WorkerTypeOK
<1>1. IInv => WorkerTypeOK
  BY DEF IInv
<1> QED BY <1>1, WorkerInvariance, PTL

(* localInitPromise shares one initialisation among all first requests and *)
(* keeps a successful one for ever.                                        *)
THEOREM WorkerInitialisedOnce == Spec => []InitialisedOnce
<1>1. IInv => InitialisedOnce
  BY DEF IInv, Shared, InitialisedOnce
<1> QED BY <1>1, WorkerInvariance, PTL

(* A request reaches the payment middleware only behind an initialisation  *)
(* that has succeeded.                                                     *)
THEOREM WorkerServesInitialised == Spec => []ServedInitialised
<1>1. IInv => ServedInitialised
  BY DEF IInv, Awaiting, ServedInitialised
<1> QED BY <1>1, WorkerInvariance, PTL

(* A request never joins an initialisation that has failed.                *)
THEOREM WorkerFailureNotInherited == Spec => FailureNotInherited
<1> DEFINE Joined == \A r \in Requests :
             At(r, "new") /\ At(r, "waiting")' =>
               init'[AppOf(r)][req'[r].awaits] \in {"pending", "ok"}
<1>1. IInv /\ [Next]_vars => [Joined]_vars
  <2> SUFFICES ASSUME IInv, [Next]_vars, NEW r \in Requests,
                      At(r, "new"), At(r, "waiting")'
               PROVE  init'[AppOf(r)][req'[r].awaits] \in {"pending", "ok"}
    OBVIOUS
  <2>1. /\ req \in [Requests -> Request] /\ req[r] \in Request /\ AppOf(r) \in Apps
        /\ started \in [Apps -> 0 .. MaxInits] /\ init \in [Apps -> [Inits -> Standing]]
        /\ MaxInits \in Nat
    BY WorkerAssumption DEF IInv, WorkerTypeOK, AppOf, Request, Inputs
  <2>2. Arrive(r)
    <3>1. req' # req
      BY DEF At
    <3>2. PICK s \in Requests : Arrive(s) \/ Resume(s) \/ Serve(s)
      BY <3>1 DEF Next, vars, InitSucceeds, InitFails
    <3>3. s # r => req'[r] = req[r]
      BY <2>1, <3>2 DEF Arrive, Resume, Serve, Refused, AnsweredAtOnce, Joins, Starts,
                        Answer, Wait
    <3>4. s = r
      BY <3>3 DEF At
    <3> QED BY <3>2, <3>4 DEF Resume, Serve, At
  <2>3. ASSUME NEW status, Answer(r, status) PROVE FALSE
    BY <2>1, <2>3 DEF Answer, At, Request
  <2>4. CASE Joins(r)
    <3>1. req'[r].awaits = shared[AppOf(r)]
      BY <2>1, <2>4 DEF Joins, Wait, Request
    <3> QED BY <2>1, <2>4, <3>1 DEF Joins, IInv, Shared
  <2>5. CASE Starts(r)
    <3> DEFINE i == started[AppOf(r)] + 1
    <3>1. req'[r].awaits = i
      BY <2>1, <2>5 DEF Starts, Wait, Request
    <3>2. i \in Inits
      BY <2>1, <2>5 DEF Starts, Inits
    <3>3. init'[AppOf(r)][i] = "pending"
      BY <2>1, <2>5, <3>2 DEF Starts
    <3> QED BY <3>1, <3>3
  <2> QED BY <2>2, <2>3, <2>4, <2>5 DEF Arrive, Refused, AnsweredAtOnce
<1> QED BY <1>1, WorkerInvariance, PTL DEF Spec, FailureNotInherited
=============================================================================
