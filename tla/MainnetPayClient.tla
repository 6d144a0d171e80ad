-------------------------- MODULE MainnetPayClient --------------------------
(***************************************************************************)
(* The buyer's page of the mainnet flow in one browser tab:                *)
(* MainnetPayController (mainnet/browser/mainnet-pay-controller.ts) and    *)
(* the buttons that call it (mock-pay-main.ts).  Its asynchronous work is  *)
(* kept beside its state, so that a result may arrive after the state it   *)
(* was asked for is gone: requests for terms, clicks that wait for         *)
(* configureMockControl, submissions and loops of status look-ups.         *)
(*                                                                         *)
(* The server is external, modelled by what the page can tell: the state   *)
(* the status route gives for an identifier, and which payments it took.   *)
(*                                                                         *)
(* Left out: counters and messages that are only shown, and the state a    *)
(* saved session records, which nothing reads.  The ui state "signing" is  *)
(* overwritten by "submitting" before anything else can run.               *)
(***************************************************************************)
EXTENDS Naturals, FiniteSets

CONSTANTS
  Ids,            \* payment identifiers generatePaymentId may return
  NULL,           \* none of them
  Slots,          \* one for each polling loop that can run at a time (bound)
  MaxPolls,       \* look-ups of a loop, StatusPollPolicy.maxPolls
  MaxLoads,       \* bound on the requests for terms in flight
  MaxClicks,      \* bound on the clicks waiting to submit
  MaxUnderWay,    \* bound on what is under way when terms are asked for
  MaxReloads,     \* bound on the reloads of the page
  ResetWhileBusy  \* may the user press Reset while results are outstanding?

(* What sessionStorage keeps of an attempt, and whether it is still young. *)
Sessions == [id : Ids, fresh : BOOLEAN]

ASSUME ClientAssumption ==
  /\ NULL \notin Ids \cup Sessions
  /\ MaxPolls \in Nat \ {0}
  /\ {MaxLoads, MaxClicks, MaxUnderWay, MaxReloads} \subseteq Nat
  /\ ResetWhileBusy \in BOOLEAN

VARIABLES
  ui,        \* the controller's state
  active,    \* activePaymentIdentifier
  loads,     \* requests for terms in flight
  clicks,    \* clicks on submit whose configureMockControl has not returned
  subs,      \* the submission of each identifier
  polls,     \* the polling loop in each slot
  session,   \* the pending session in sessionStorage
  reloads,   \* reloads of the page so far
  server,    \* the state of each identifier at the status route
  settled,   \* identifiers whose payment the server took
  sent,      \* payment-bearing requests sent for each identifier
  standing,  \* history: new, open (the outcome is unknown to the user) or released
  recent     \* history: identifiers submitted since the last Reset or reload

page == <<ui, active, loads, clicks, subs, polls>>
outside == <<server, settled>>
history == <<standing, recent>>
vars == <<page, session, reloads, outside, sent, history>>

UiStates ==
  { "idle", "loading-terms", "ready", "submitting", "potentially-submitted",
    "polling-status", "success", "failed-definitive", "uncertain", "expired", "error" }

Answers ==
  { "not_seen", "in-progress", "fulfilled", "unusable", "failed-definitive",
    "expired", "uncertain", "malformed" }

Ui ==
  [ uiState           : UiStates,
    terms             : BOOLEAN,           \* loaded?
    paymentIdentifier : Ids \cup {NULL},
    termsConsumed     : BOOLEAN,
    attemptStarted    : BOOLEAN,
    attemptCompleted  : BOOLEAN,
    paid              : Ids \cup {NULL} ]  \* whose paidBody is shown

Loop ==
  [ id      : Ids,
    count   : 1 .. MaxPolls,
    step    : {"looking", "waiting"} \cup Answers,
    aborted : BOOLEAN ]

ClientTypeOK ==
  /\ ui \in Ui
  /\ active \in Ids \cup {NULL}
  /\ loads \in 0 .. MaxLoads
  /\ clicks \in 0 .. MaxClicks
  /\ subs \in [Ids -> {"none", "signing", "sent"}]
  /\ polls \in [Slots -> Loop \cup {NULL}]
  /\ session \in Sessions \cup {NULL}
  /\ reloads \in 0 .. MaxReloads
  /\ server \in [Ids -> { "not_seen", "in-progress", "fulfilled",
                          "failed-definitive", "uncertain", "gone" }]
  /\ settled \subseteq Ids
  /\ sent \in [Ids -> Nat]
  /\ standing \in [Ids -> {"new", "open", "released"}]
  /\ recent \subseteq Ids

-----------------------------------------------------------------------------
InitialUi ==
  [ uiState |-> "idle", terms |-> FALSE, paymentIdentifier |-> NULL,
    termsConsumed |-> FALSE, attemptStarted |-> FALSE,
    attemptCompleted |-> FALSE, paid |-> NULL ]

CanLoadTerms ==
  /\ ~ ui.attemptStarted /\ ~ ui.attemptCompleted
  /\ ui.uiState \notin {"loading-terms", "submitting", "polling-status"}

CanSubmitWhenReady == ui.uiState = "ready" /\ ui.terms

CanSubmit ==
  /\ ui.uiState = "ready" /\ ui.terms
  /\ ~ ui.termsConsumed /\ ~ ui.attemptStarted /\ ~ ui.attemptCompleted

Conclude(state) ==
  ui' = [ui EXCEPT !.uiState = state, !.attemptCompleted = TRUE]

ShowPaid(p) ==
  ui' = [ui EXCEPT !.uiState = "success", !.attemptCompleted = TRUE, !.paid = p]

SaveSession(p) == session' = [id |-> p, fresh |-> TRUE]

ForgetAttempt == session' = NULL /\ active' = NULL

Release(S) ==
  standing' = [p \in Ids |-> IF p \in S /\ standing[p] = "open"
                             THEN "released" ELSE standing[p]]

-----------------------------------------------------------------------------
(* Terms.                                                                  *)

UnderWay ==
  loads + clicks + Cardinality({p \in Ids : subs[p] # "none"})
    + Cardinality({s \in Slots : polls[s] # NULL})

LoadTerms ==
  /\ CanLoadTerms
  /\ loads < MaxLoads /\ UnderWay < MaxUnderWay
  /\ ui' = [ui EXCEPT !.uiState = "loading-terms"]
  /\ loads' = loads + 1
  /\ UNCHANGED <<active, clicks, subs, polls, session, reloads, outside, sent, history>>

LoadEnds ==
  /\ loads > 0
  /\ loads' = loads - 1
  /\ \E ok \in BOOLEAN :
       ui' = [ui EXCEPT !.uiState = IF ok THEN "ready" ELSE "error", !.terms = ok]
  /\ UNCHANGED <<active, clicks, subs, polls, session, reloads, outside, sent, history>>

-----------------------------------------------------------------------------
(* Polling.  The loop that is not aborted is the one pollAbort controls.   *)

NewLoop(p) == [id |-> p, count |-> 1, step |-> "looking", aborted |-> FALSE]

(* An abort ends a wait at once; a look-up in flight goes on.              *)
Cancelled(s) ==
  IF polls[s] = NULL \/ polls[s].step = "waiting"
  THEN NULL ELSE [polls[s] EXCEPT !.aborted = TRUE]

CancelPolling == polls' = [s \in Slots |-> Cancelled(s)]

StartStatusPolling(p) ==
  \E s \in Slots :
    /\ Cancelled(s) = NULL
    /\ polls' = [r \in Slots |-> IF r = s THEN NewLoop(p) ELSE Cancelled(r)]

In(s, step) == polls[s] # NULL /\ polls[s].step = step

SetStep(s, step) == polls' = [polls EXCEPT ![s].step = step]

EndLoop(s) == polls' = [polls EXCEPT ![s] = NULL]

(* The route's answer, fixed when the server reads its row.  Any look-up   *)
(* may fail; a fulfilled result may not pass validateFulfilledStatusResult.*)
LookupAnswers(p) ==
  CASE server[p] = "gone" -> {"not_seen", "expired", "malformed"}
    [] server[p] = "fulfilled" -> {"fulfilled", "unusable", "malformed"}
    [] OTHER -> {server[p], "malformed"}

LookupAnswered(s) ==
  /\ In(s, "looking")
  /\ \E a \in LookupAnswers(polls[s].id) : SetStep(s, a)
  /\ UNCHANGED <<ui, active, loads, clicks, subs, session, reloads, outside, sent, history>>

PollFulfilled(s) ==
  /\ In(s, "fulfilled")
  /\ ShowPaid(polls[s].id)
  /\ ForgetAttempt
  /\ Release({polls[s].id})
  /\ EndLoop(s)

PollFailed(s) ==
  /\ In(s, "failed-definitive")
  /\ Conclude("failed-definitive")
  /\ Release({polls[s].id})
  /\ EndLoop(s)
  /\ UNCHANGED <<active, session>>

PollExpired(s) ==
  /\ In(s, "expired")
  /\ Conclude("expired")
  /\ session' = NULL
  /\ Release({polls[s].id})
  /\ EndLoop(s)
  /\ UNCHANGED active

PollInconclusiveCleared(s) ==
  /\ \/ (In(s, "uncertain") \/ In(s, "unusable")) /\ Conclude("uncertain")
     \/ In(s, "malformed") /\ Conclude("error")
  /\ ForgetAttempt
  /\ EndLoop(s)
  /\ UNCHANGED standing

PollInconclusive(s) ==
  /\ \/ (In(s, "uncertain") \/ In(s, "unusable")) /\ Conclude("uncertain")
     \/ In(s, "malformed") /\ Conclude("error")
  /\ EndLoop(s)
  /\ UNCHANGED <<active, session, standing>>

Pending(s) == In(s, "not_seen") \/ In(s, "in-progress")

LastPoll(s) == polls[s].count >= MaxPolls

PollGivesUpNotSeen(s) ==
  /\ Pending(s) /\ LastPoll(s)
  /\ ui' = IF In(s, "not_seen") THEN [ui EXCEPT !.uiState = "potentially-submitted"] ELSE ui
  /\ EndLoop(s)
  /\ UNCHANGED <<active, session, standing>>

PollGivesUp(s) ==
  /\ Pending(s) /\ LastPoll(s)
  /\ ui' = [ui EXCEPT !.uiState = "potentially-submitted"]
  /\ EndLoop(s)
  /\ UNCHANGED <<active, session, standing>>

(* Only here does the loop look at its abort signal.                       *)
PollGoesOn(s) ==
  /\ Pending(s) /\ ~ LastPoll(s)
  /\ IF polls[s].aborted THEN EndLoop(s) ELSE SetStep(s, "waiting")
  /\ UNCHANGED <<ui, active, session, standing>>

HandleAnswer(s) ==
  /\ \/ PollFulfilled(s) \/ PollFailed(s) \/ PollExpired(s)
     \/ PollInconclusive(s) \/ PollGivesUp(s) \/ PollGoesOn(s)
  /\ UNCHANGED <<loads, clicks, subs, reloads, outside, sent, recent>>

WaitEnds(s) ==
  /\ In(s, "waiting")
  /\ polls' = [polls EXCEPT ![s].step = "looking", ![s].count = @ + 1]
  /\ UNCHANGED <<ui, active, loads, clicks, subs, session, reloads, outside, sent, history>>

-----------------------------------------------------------------------------
(* Submission.                                                             *)

(* The button is enabled; its handler first awaits configureMockControl.   *)
ClickSubmit ==
  /\ ui.uiState = "ready" /\ ~ ui.attemptStarted /\ ~ ui.attemptCompleted
  /\ clicks < MaxClicks
  /\ clicks' = clicks + 1
  /\ UNCHANGED <<ui, active, loads, subs, polls, session, reloads, outside, sent, history>>

StartSubmission(p) ==
  /\ ui' = [ui EXCEPT !.uiState = "submitting", !.paymentIdentifier = p,
                      !.attemptStarted = TRUE, !.termsConsumed = TRUE]
  /\ subs' = [subs EXCEPT ![p] = "signing"]
  /\ standing' = [standing EXCEPT ![p] = "open"]
  /\ recent' = recent \cup {p}

(* activePaymentIdentifier, or else one that was never used.               *)
IdsToSubmit ==
  IF active = NULL THEN {p \in Ids : standing[p] = "new"} ELSE {active}

SubmitPayment ==
  /\ clicks > 0
  /\ clicks' = clicks - 1
  /\ \/ /\ CanSubmit
        /\ \E p \in IdsToSubmit : StartSubmission(p)
        /\ IF active = NULL THEN SaveSession(ui'.paymentIdentifier) ELSE UNCHANGED session
     \/ UNCHANGED <<ui, subs, session, history>>  \* refused, or no control
  /\ UNCHANGED <<active, loads, polls, reloads, outside, sent>>

Fail(p) ==
  /\ ForgetAttempt
  /\ Conclude("failed-definitive")
  /\ Release({p})
  /\ UNCHANGED polls

SigningEnds(p) ==
  /\ subs[p] = "signing"
  /\ \/ /\ subs' = [subs EXCEPT ![p] = "sent"]
        /\ sent' = [sent EXCEPT ![p] = @ + 1]
        /\ UNCHANGED <<ui, active, polls, session, standing>>
     \/ /\ subs' = [subs EXCEPT ![p] = "none"]
        /\ Fail(p)
        /\ UNCHANGED sent
  /\ UNCHANGED <<loads, clicks, reloads, outside, recent>>

(* The answer is lost, is no 2xx, or carries settlement metadata that      *)
(* cannot be read.                                                         *)
Unconfirmed(p) ==
  /\ SaveSession(p)
  /\ StartStatusPolling(p)
  /\ ui' = [ui EXCEPT !.uiState = "polling-status"]
  /\ UNCHANGED <<active, standing>>

(* A 2xx answer.  Its settlement metadata may fail validation: it may be   *)
(* the 202 that a request delivered twice gets while the first is at work. *)
Answered(p) ==
  \/ p \in settled /\ ShowPaid(p) /\ ForgetAttempt /\ Release({p}) /\ UNCHANGED polls
  \/ (p \in settled \/ server[p] = "in-progress") /\ Fail(p)

ExecutionEnds(p) ==
  /\ subs[p] = "sent"
  /\ subs' = [subs EXCEPT ![p] = "none"]
  /\ Answered(p) \/ Unconfirmed(p)
  /\ UNCHANGED <<loads, clicks, reloads, outside, sent, recent>>

-----------------------------------------------------------------------------
(* Reset and reload.                                                       *)

Busy ==
  \/ loads > 0 \/ clicks > 0
  \/ \E p \in Ids : subs[p] # "none"
  \/ \E s \in Slots : polls[s] # NULL

(* The button is disabled while the page shows signing or submitting.      *)
Reset ==
  /\ ui.uiState # "submitting"
  /\ ResetWhileBusy \/ ~ Busy
  /\ CancelPolling
  /\ ForgetAttempt
  /\ ui' = InitialUi
  /\ Release(Ids)
  /\ recent' = {}
  /\ UNCHANGED <<loads, clicks, subs, reloads, outside, sent>>

RecoverUnstarted(p) ==
  /\ active' = p
  /\ ui' = [InitialUi EXCEPT !.uiState = "polling-status", !.paymentIdentifier = p]
  /\ \E s \in Slots : polls' = [r \in Slots |-> IF r = s THEN NewLoop(p) ELSE NULL]

RecoverUnnamed(p) ==
  /\ active' = p
  /\ ui' = [InitialUi EXCEPT !.uiState = "polling-status", !.attemptStarted = TRUE]
  /\ \E s \in Slots : polls' = [r \in Slots |-> IF r = s THEN NewLoop(p) ELSE NULL]

Recover(p) ==
  /\ active' = p
  /\ ui' = [InitialUi EXCEPT !.uiState = "polling-status", !.paymentIdentifier = p,
                             !.attemptStarted = TRUE]
  /\ \E s \in Slots : polls' = [r \in Slots |-> IF r = s THEN NewLoop(p) ELSE NULL]

(* Only sessionStorage outlives the page; recoverPendingSessionOnLoad.     *)
Reload ==
  /\ reloads < MaxReloads
  /\ reloads' = reloads + 1
  /\ loads' = 0 /\ clicks' = 0 /\ recent' = {}
  /\ subs' = [p \in Ids |-> "none"]
  /\ IF session # NULL /\ session.fresh
     THEN Recover(session.id) /\ UNCHANGED session
     ELSE /\ ForgetAttempt
          /\ ui' = InitialUi
          /\ polls' = [s \in Slots |-> NULL]
  /\ UNCHANGED <<outside, sent, standing>>

(* A session grows older than MAINNET_SESSION_MAX_AGE_MS: a day, in which  *)
(* whatever was in flight has ended.                                       *)
SessionAges ==
  /\ session # NULL /\ ~ Busy
  /\ session' = [session EXCEPT !.fresh = FALSE]
  /\ Release({session.id})
  /\ UNCHANGED <<page, reloads, outside, sent, recent>>

-----------------------------------------------------------------------------
(* The server.  A request may arrive long after the page has given it up,  *)
(* and an uncertain payment may have been taken.                           *)

ServerSteps(p) ==
  CASE server[p] = "not_seen" -> IF sent[p] > 0 THEN {"in-progress"} ELSE {}
    [] server[p] = "in-progress" -> {"fulfilled", "failed-definitive", "uncertain"}
    [] OTHER -> {}

ServerAdvances(p) ==
  /\ \E state \in ServerSteps(p) :
       /\ server' = [server EXCEPT ![p] = state]
       /\ \/ state # "fulfilled" /\ UNCHANGED settled
          \/ state \in {"fulfilled", "uncertain"} /\ settled' = settled \cup {p}
  /\ UNCHANGED <<page, session, reloads, sent, history>>

RowExpires(p) ==
  /\ server[p] \notin {"not_seen", "gone"} /\ subs[p] = "none"
  /\ server' = [server EXCEPT ![p] = "gone"]
  /\ UNCHANGED <<page, session, reloads, settled, sent, history>>

-----------------------------------------------------------------------------
ClientInit ==
  /\ ui = InitialUi /\ active = NULL
  /\ loads = 0 /\ clicks = 0
  /\ subs = [p \in Ids |-> "none"]
  /\ polls = [s \in Slots |-> NULL]
  /\ session = NULL /\ reloads = 0
  /\ server = [p \in Ids |-> "not_seen"] /\ settled = {}
  /\ sent = [p \in Ids |-> 0]
  /\ standing = [p \in Ids |-> "new"] /\ recent = {}

User == LoadTerms \/ ClickSubmit \/ Reset \/ Reload

ClientNext ==
  \/ User
  \/ LoadEnds \/ SubmitPayment
  \/ \E p \in Ids : SigningEnds(p) \/ ExecutionEnds(p)
  \/ \E s \in Slots : LookupAnswered(s) \/ HandleAnswer(s) \/ WaitEnds(s)
  \/ SessionAges
  \/ \E p \in Ids : ServerAdvances(p) \/ RowExpires(p)

ClientSpec == ClientInit /\ [][ClientNext]_vars

(* The event loop runs on: fetches settle, timers fire, the signer answers.*)
(* Nothing makes the user or the server act.                               *)
ClientFairSpec ==
  /\ ClientSpec
  /\ WF_vars(LoadEnds) /\ WF_vars(SubmitPayment)
  /\ \A p \in Ids : WF_vars(SigningEnds(p)) /\ WF_vars(ExecutionEnds(p))
  /\ \A s \in Slots :
       WF_vars(LookupAnswered(s)) /\ WF_vars(HandleAnswer(s)) /\ WF_vars(WaitEnds(s))

-----------------------------------------------------------------------------
(* Properties.                                                             *)

(* No identifier is sent with two payments, through lost answers, reloads, *)
(* Resets and results that come late (activePaymentIdentifier lives on     *)
(* after a recovery and would be used again by submitPayment).             *)
SentAtMostOnce == \A p \in Ids : sent[p] <= 1

(* Until Reset or a reload a page starts one submission at most, although  *)
(* terms that arrive late make it show "ready" again (canSubmit).          *)
OneSubmissionPerReset == Cardinality(recent) <= 1

(* While the outcome of a payment is unknown to the user, its identifier   *)
(* is saved, so that a reload resumes its polling                          *)
(* (docs/mainnet-mocked-browser-recovery.md:51, :75).                      *)
RefreshRecovers ==
  \A p \in Ids : standing[p] = "open" => session # NULL /\ session.id = p

(* What the page shows as the result of a payment belongs to the           *)
(* identifier it shows, and that payment was taken.                        *)
ResultBelongs ==
  ui.uiState = "success" => ui.paid \in settled /\ ui.paid = ui.paymentIdentifier

Starts(p) == subs[p] = "none" /\ subs'[p] = "signing"

(* No payment is started while the outcome of another is unknown, be it    *)
(* after a reload, a poll limit or an unreadable status.                   *)
NoPaymentOverUnknown ==
  [][\A p \in Ids : Starts(p) => \A q \in Ids : standing[q] # "open"]_vars

Working == ui.uiState \in {"loading-terms", "submitting", "polling-status"}

(* The page never waits for ever: not for terms, a submission or a status, *)
(* whatever the server does and however often the user resets.             *)
NeverStuck == []<> ~ Working
=============================================================================
