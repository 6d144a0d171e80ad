----------------------- MODULE MainnetPayClientProofs -----------------------
(***************************************************************************)
(* Safety of the buyer's page, for any number of identifiers, polling      *)
(* loops, requests for terms, clicks and reloads: first what holds         *)
(* whenever the user presses Reset, then what holds of a patient user, who *)
(* presses it only when no result is outstanding.                          *)
(***************************************************************************)
EXTENDS MainnetPayClient, FiniteSetTheorems, TLAPS

(* An identifier the page would use again belongs to an attempt that has   *)
(* started, and a started attempt is not submitted again.                  *)
ActiveIsStarted == active # NULL => ui.attemptStarted

(* What was never used was never submitted, and what is being signed was   *)
(* never sent.                                                             *)
SentAfterSigning ==
  \A p \in Ids :
    /\ standing[p] = "new" => subs[p] = "none" /\ sent[p] = 0
    /\ subs[p] = "signing" => sent[p] = 0
    /\ sent[p] <= 1

RecentIsStarted ==
  \/ recent = {}
  \/ ui.attemptStarted /\ \E p \in Ids : recent = {p}

ClientInv == ClientTypeOK /\ ActiveIsStarted /\ SentAfterSigning /\ RecentIsStarted

USE DEF page, outside, history, Sessions

LEMMA InitialUiTyped == InitialUi \in Ui /\ ~ InitialUi.attemptStarted
BY DEF InitialUi, Ui, UiStates

(* Cancelling and starting loops keeps every slot well-formed.             *)
LEMMA LoopsTyped ==
  ASSUME ClientTypeOK
  PROVE  /\ CancelPolling => polls' \in [Slots -> Loop \cup {NULL}]
         /\ \A p \in Ids : StartStatusPolling(p) => polls' \in [Slots -> Loop \cup {NULL}]
         /\ \A p \in Ids : NewLoop(p) \in Loop
<1>1. polls \in [Slots -> Loop \cup {NULL}]
  BY DEF ClientTypeOK
<1>2. ASSUME NEW s \in Slots PROVE Cancelled(s) \in Loop \cup {NULL}
  <2>1. polls[s] \in Loop \cup {NULL}
    BY <1>1
  <2>2. CASE polls[s] = NULL \/ polls[s].step = "waiting"
    BY <2>2 DEF Cancelled
  <2>3. CASE ~ (polls[s] = NULL \/ polls[s].step = "waiting")
    BY <2>1, <2>3 DEF Cancelled, Loop
  <2> QED
    BY <2>2, <2>3
<1>3. ASSUME NEW p \in Ids PROVE NewLoop(p) \in Loop
  BY ClientAssumption DEF NewLoop, Loop
<1> QED
  BY <1>2, <1>3 DEF CancelPolling, StartStatusPolling

LEMMA StandingTyped ==
  ASSUME ClientTypeOK, NEW S, Release(S)
  PROVE  /\ standing' \in [Ids -> {"new", "open", "released"}]
         /\ \A p \in Ids : standing'[p] = "new" <=> standing[p] = "new"
BY DEF ClientTypeOK, Release

(* The controller's patches keep its state in range and never take back    *)
(* that an attempt has started.                                            *)
LEMMA UiPatched ==
  ASSUME ClientTypeOK, NEW p \in Ids, NEW state \in UiStates,
         Conclude(state) \/ ShowPaid(p) \/ ui' = [ui EXCEPT !.uiState = state]
  PROVE  ui' \in Ui /\ ui'.attemptStarted = ui.attemptStarted
BY DEF ClientTypeOK, Ui, Conclude, ShowPaid, UiStates

-----------------------------------------------------------------------------
(* One lemma for each way a loop's answer is handled.                      *)
LEMMA HandleAnswerPreserves ==
  ASSUME ClientInv, NEW s \in Slots, HandleAnswer(s)
  PROVE  ClientInv'
<1> USE DEF ClientInv
<1>1. polls \in [Slots -> Loop \cup {NULL}]
  BY DEF ClientTypeOK
<1>2. polls[s] \in Loop /\ polls[s].id \in Ids
  BY <1>1 DEF HandleAnswer, PollFulfilled, PollFailed, PollExpired, PollInconclusive,
              PollGivesUp, PollGoesOn, Pending, In, Loop
<1>3. EndLoop(s) \/ SetStep(s, "waiting")
  BY DEF HandleAnswer, PollFulfilled, PollFailed, PollExpired, PollInconclusive,
         PollGivesUp, PollGoesOn
<1>4. polls' \in [Slots -> Loop \cup {NULL}]
  BY <1>1, <1>2, <1>3 DEF EndLoop, SetStep, Loop
<1>5. ui' \in Ui /\ ui'.attemptStarted = ui.attemptStarted
  <2>1. ui' = ui \/ \E p \in Ids, state \in UiStates :
          Conclude(state) \/ ShowPaid(p) \/ ui' = [ui EXCEPT !.uiState = state]
    BY <1>2 DEF HandleAnswer, PollFulfilled, PollFailed, PollExpired, PollInconclusive,
                PollGivesUp, PollGoesOn, UiStates
  <2> QED
    BY <2>1, UiPatched DEF ClientTypeOK
<1>6. /\ standing' \in [Ids -> {"new", "open", "released"}]
      /\ \A p \in Ids : standing'[p] = "new" <=> standing[p] = "new"
  <2>1. standing' = standing \/ \E S : Release(S)
    BY DEF HandleAnswer, PollFulfilled, PollFailed, PollExpired, PollInconclusive,
           PollGivesUp, PollGoesOn
  <2> QED
    BY <2>1, StandingTyped DEF ClientTypeOK
<1>7. /\ session' \in {session, NULL}
      /\ active' \in {active, NULL}
  BY DEF HandleAnswer, PollFulfilled, PollFailed, PollExpired, PollInconclusive,
         PollGivesUp, PollGoesOn, ForgetAttempt
<1>8. UNCHANGED <<loads, clicks, subs, reloads, server, settled, sent, recent>>
  BY DEF HandleAnswer
<1>9. ClientTypeOK'
  BY <1>4, <1>5, <1>6, <1>7, <1>8 DEF ClientTypeOK
<1>10. ActiveIsStarted' /\ RecentIsStarted'
  BY <1>5, <1>7, <1>8 DEF ActiveIsStarted, RecentIsStarted
<1>11. SentAfterSigning'
  BY <1>6, <1>8 DEF SentAfterSigning
<1> QED
  BY <1>9, <1>10, <1>11

(* Submissions: the step in which an identifier is used for the first time *)
(* and the steps of its execution.                                         *)
LEMMA SubmitPaymentPreserves ==
  ASSUME ClientInv, SubmitPayment
  PROVE  ClientInv'
<1> USE DEF ClientInv
<1>1. clicks' \in 0 .. MaxClicks
  BY ClientAssumption DEF ClientTypeOK, SubmitPayment
<1>2. UNCHANGED <<active, loads, polls, reloads, server, settled, sent>>
  BY DEF SubmitPayment
<1>3. CASE UNCHANGED <<ui, subs, session, standing, recent>>
  BY <1>1, <1>2, <1>3 DEF ClientTypeOK, ActiveIsStarted, SentAfterSigning, RecentIsStarted
<1>4. CASE CanSubmit /\ ~ UNCHANGED <<ui, subs, session, standing, recent>>
  <2>1. ~ ui.attemptStarted /\ active = NULL /\ recent = {}
    BY <1>4 DEF CanSubmit, ActiveIsStarted, RecentIsStarted
  <2>2. PICK p \in Ids : standing[p] = "new" /\ StartSubmission(p)
    BY <1>4, <2>1 DEF SubmitPayment, IdsToSubmit
  <2>3. ui' \in Ui /\ ui'.attemptStarted /\ ui'.paymentIdentifier = p
    BY <2>2 DEF StartSubmission, ClientTypeOK, Ui, UiStates
  <2>4. SaveSession(p)
    BY <1>4, <2>1, <2>3 DEF SubmitPayment
  <2>5. /\ subs' \in [Ids -> {"none", "signing", "sent"}]
        /\ standing' \in [Ids -> {"new", "open", "released"}]
        /\ recent' = {p}
    BY <2>1, <2>2 DEF StartSubmission, ClientTypeOK
  <2>6. ClientTypeOK'
    BY <1>1, <1>2, <2>3, <2>4, <2>5 DEF ClientTypeOK, SaveSession
  <2>7. SentAfterSigning'
    BY <1>2, <2>2 DEF StartSubmission, SentAfterSigning, ClientTypeOK
  <2>8. ActiveIsStarted' /\ RecentIsStarted'
    BY <2>3, <2>5 DEF ActiveIsStarted, RecentIsStarted
  <2> QED
    BY <2>6, <2>7, <2>8
<1> QED
  BY <1>3, <1>4 DEF SubmitPayment

LEMMA SigningEndsPreserves ==
  ASSUME ClientInv, NEW p \in Ids, SigningEnds(p)
  PROVE  ClientInv'
<1> USE DEF ClientInv
<1>1. UNCHANGED <<loads, clicks, reloads, server, settled, recent, polls>>
  BY DEF SigningEnds, Fail
<1>2. subs[p] = "signing" /\ standing[p] # "new" /\ sent[p] = 0
  BY DEF SigningEnds, SentAfterSigning
<1>3. CASE /\ subs' = [subs EXCEPT ![p] = "sent"]
           /\ sent' = [sent EXCEPT ![p] = @ + 1]
           /\ UNCHANGED <<ui, active, session, standing>>
  <2>1. sent' \in [Ids -> Nat] /\ sent'[p] = 1
    BY <1>2, <1>3 DEF ClientTypeOK
  <2>2. ClientTypeOK'
    BY <1>1, <1>3, <2>1 DEF ClientTypeOK
  <2>3. SentAfterSigning'
    BY <1>2, <1>3, <2>1 DEF SentAfterSigning, ClientTypeOK
  <2>4. ActiveIsStarted' /\ RecentIsStarted'
    BY <1>1, <1>3 DEF ActiveIsStarted, RecentIsStarted
  <2> QED
    BY <2>2, <2>3, <2>4
<1>4. CASE subs' = [subs EXCEPT ![p] = "none"] /\ Fail(p) /\ UNCHANGED sent
  <2>1. ui' \in Ui /\ ui'.attemptStarted = ui.attemptStarted
    BY <1>4, UiPatched DEF Fail, UiStates
  <2>2. /\ standing' \in [Ids -> {"new", "open", "released"}]
        /\ \A q \in Ids : standing'[q] = "new" <=> standing[q] = "new"
    BY <1>4, StandingTyped DEF Fail
  <2>3. ClientTypeOK'
    BY <1>1, <1>4, <2>1, <2>2 DEF ClientTypeOK, Fail, ForgetAttempt
  <2>4. SentAfterSigning'
    BY <1>4, <2>2 DEF SentAfterSigning, ClientTypeOK
  <2>5. ActiveIsStarted' /\ RecentIsStarted'
    BY <1>1, <1>4, <2>1 DEF ActiveIsStarted, RecentIsStarted, Fail, ForgetAttempt
  <2> QED
    BY <2>3, <2>4, <2>5
<1> QED
  BY <1>3, <1>4 DEF SigningEnds

LEMMA ExecutionEndsPreserves ==
  ASSUME ClientInv, NEW p \in Ids, ExecutionEnds(p)
  PROVE  ClientInv'
<1> USE DEF ClientInv
<1>1. UNCHANGED <<loads, clicks, reloads, server, settled, sent, recent>>
  BY DEF ExecutionEnds
<1>2. subs' = [subs EXCEPT ![p] = "none"]
  BY DEF ExecutionEnds
<1>3. /\ ui' \in Ui /\ ui'.attemptStarted = ui.attemptStarted
      /\ polls' \in [Slots -> Loop \cup {NULL}]
      /\ session' = NULL \/ SaveSession(p)
      /\ active' \in {active, NULL}
      /\ standing' \in [Ids -> {"new", "open", "released"}]
      /\ \A q \in Ids : standing'[q] = "new" <=> standing[q] = "new"
  <2>1. CASE Unconfirmed(p)
    BY <2>1, LoopsTyped, UiPatched DEF Unconfirmed, UiStates, ClientTypeOK
  <2>2. CASE Answered(p)
    <3>1. ui' \in Ui /\ ui'.attemptStarted = ui.attemptStarted
      BY <2>2, UiPatched DEF Answered, Fail, UiStates
    <3>2. /\ standing' \in [Ids -> {"new", "open", "released"}]
          /\ \A q \in Ids : standing'[q] = "new" <=> standing[q] = "new"
      BY <2>2, StandingTyped DEF Answered, Fail
    <3> QED
      BY <2>2, <3>1, <3>2 DEF Answered, Fail, ForgetAttempt, ClientTypeOK
  <2> QED
    BY <2>1, <2>2 DEF ExecutionEnds
<1>4. ClientTypeOK'
  <2>1. session' \in [id : Ids, fresh : BOOLEAN] \cup {NULL}
    <3>1. session' = NULL \/ session' = [id |-> p, fresh |-> TRUE]
      BY <1>3 DEF SaveSession
    <3>2. [id |-> p, fresh |-> TRUE] \in [id : Ids, fresh : BOOLEAN]
      OBVIOUS
    <3> QED
      BY <3>1, <3>2
  <2>2. subs' \in [Ids -> {"none", "signing", "sent"}]
    BY <1>2 DEF ClientTypeOK
  <2>3. active' \in Ids \cup {NULL}
    BY <1>3 DEF ClientTypeOK
  <2> QED
    BY <1>1, <1>3, <2>1, <2>2, <2>3 DEF ClientTypeOK
<1>5. SentAfterSigning'
  BY <1>1, <1>2, <1>3 DEF SentAfterSigning, ClientTypeOK
<1>6. ActiveIsStarted' /\ RecentIsStarted'
  BY <1>1, <1>3 DEF ActiveIsStarted, RecentIsStarted
<1> QED
  BY <1>4, <1>5, <1>6

(* Reset and reload forget the attempt; a reload may find it again.        *)
LEMMA ResetPreserves ==
  ASSUME ClientInv, Reset
  PROVE  ClientInv'
<1> USE DEF ClientInv
<1>1. polls' \in [Slots -> Loop \cup {NULL}]
  BY LoopsTyped DEF Reset
<1>2. /\ standing' \in [Ids -> {"new", "open", "released"}]
      /\ \A p \in Ids : standing'[p] = "new" <=> standing[p] = "new"
  BY StandingTyped DEF Reset
<1>3. ClientTypeOK'
  BY <1>1, <1>2, InitialUiTyped DEF ClientTypeOK, Reset, ForgetAttempt
<1>4. SentAfterSigning'
  BY <1>2 DEF SentAfterSigning, Reset
<1>5. ActiveIsStarted' /\ RecentIsStarted'
  BY DEF ActiveIsStarted, RecentIsStarted, Reset, ForgetAttempt
<1> QED
  BY <1>3, <1>4, <1>5

LEMMA ReloadPreserves ==
  ASSUME ClientInv, Reload
  PROVE  ClientInv'
<1> USE DEF ClientInv
<1>1. /\ ui' \in Ui
      /\ active' \in Ids \cup {NULL}
      /\ active' # NULL => ui'.attemptStarted
      /\ polls' \in [Slots -> Loop \cup {NULL}]
      /\ session' \in {session, NULL}
  <2>1. CASE session # NULL /\ session.fresh
    <3>1. session.id \in Ids
      BY <2>1 DEF ClientTypeOK
    <3>2. Recover(session.id) /\ UNCHANGED session
      BY <2>1 DEF Reload
    <3>3. ui' \in Ui /\ ui'.attemptStarted
      BY <3>1, <3>2 DEF Recover, InitialUi, Ui, UiStates
    <3>4. polls' \in [Slots -> Loop \cup {NULL}]
      BY <3>1, <3>2, LoopsTyped DEF Recover
    <3> QED
      BY <3>1, <3>2, <3>3, <3>4 DEF Recover
  <2>2. CASE ~ (session # NULL /\ session.fresh)
    BY <2>2, InitialUiTyped DEF Reload, ForgetAttempt
  <2> QED
    BY <2>1, <2>2
<1>2. /\ loads' = 0 /\ clicks' = 0 /\ recent' = {}
      /\ subs' = [p \in Ids |-> "none"]
      /\ reloads' \in 0 .. MaxReloads
      /\ UNCHANGED <<server, settled, sent, standing>>
  BY ClientAssumption DEF ClientTypeOK, Reload
<1>3. ClientTypeOK'
  BY <1>1, <1>2, ClientAssumption DEF ClientTypeOK
<1>4. SentAfterSigning'
  BY <1>2 DEF SentAfterSigning
<1>5. ActiveIsStarted' /\ RecentIsStarted'
  BY <1>1, <1>2 DEF ActiveIsStarted, RecentIsStarted
<1> QED
  BY <1>3, <1>4, <1>5

(* The remaining steps touch one variable or two.                          *)
LEMMA OthersPreserve ==
  ASSUME ClientInv,
         \/ LoadTerms \/ LoadEnds \/ ClickSubmit \/ SessionAges
         \/ \E s \in Slots : LookupAnswered(s) \/ WaitEnds(s)
         \/ \E p \in Ids : ServerAdvances(p) \/ RowExpires(p)
         \/ UNCHANGED vars
  PROVE  ClientInv'
<1> USE DEF ClientInv
<1>1. CASE LoadTerms \/ LoadEnds
  <2>1. ui' \in Ui /\ ui'.attemptStarted = ui.attemptStarted
    <3>1. \E state \in UiStates, terms \in BOOLEAN :
            ui' = [ui EXCEPT !.uiState = state, !.terms = terms]
      <4>1. CASE LoadTerms
        <5>1. ui' = [ui EXCEPT !.uiState = "loading-terms", !.terms = ui.terms]
          BY <4>1 DEF LoadTerms, ClientTypeOK, Ui
        <5> QED
          BY <5>1 DEF ClientTypeOK, Ui, UiStates
      <4>2. CASE LoadEnds
        <5>1. PICK ok \in BOOLEAN :
                ui' = [ui EXCEPT !.uiState = IF ok THEN "ready" ELSE "error", !.terms = ok]
          BY <4>2 DEF LoadEnds
        <5>2. (IF ok THEN "ready" ELSE "error") \in UiStates
          BY DEF UiStates
        <5> QED
          BY <5>1, <5>2
      <4> QED
        BY <1>1, <4>1, <4>2
    <3> QED
      BY <3>1 DEF ClientTypeOK, Ui
  <2>3. loads' \in 0 .. MaxLoads
    <3>1. MaxLoads \in Nat /\ loads \in 0 .. MaxLoads
      BY ClientAssumption DEF ClientTypeOK
    <3>2. \/ loads < MaxLoads /\ loads' = loads + 1
          \/ loads > 0 /\ loads' = loads - 1
      BY <1>1 DEF LoadTerms, LoadEnds
    <3> QED
      BY <3>1, <3>2
  <2>2. UNCHANGED <<active, clicks, subs, polls, session, reloads, outside, sent, history>>
    BY <1>1 DEF LoadTerms, LoadEnds
  <2> QED
    BY <2>1, <2>2, <2>3 DEF ClientTypeOK, ActiveIsStarted, SentAfterSigning, RecentIsStarted
<1>2. CASE ClickSubmit
  BY <1>2, ClientAssumption
  DEF ClickSubmit, ClientTypeOK, ActiveIsStarted, SentAfterSigning, RecentIsStarted
<1>3. CASE SessionAges
  <2>1. session' \in [id : Ids, fresh : BOOLEAN]
    BY <1>3 DEF SessionAges, ClientTypeOK
  <2>2. /\ standing' \in [Ids -> {"new", "open", "released"}]
        /\ \A p \in Ids : standing'[p] = "new" <=> standing[p] = "new"
    BY <1>3, StandingTyped DEF SessionAges
  <2> QED
    BY <1>3, <2>1, <2>2
    DEF SessionAges, ClientTypeOK, ActiveIsStarted, SentAfterSigning, RecentIsStarted
<1>4. ASSUME NEW s \in Slots, LookupAnswered(s) \/ WaitEnds(s)
      PROVE  ClientInv'
  <2>1. polls \in [Slots -> Loop \cup {NULL}] /\ polls[s] \in Loop
    BY <1>4 DEF ClientTypeOK, LookupAnswered, WaitEnds, In
  <2>2. polls' \in [Slots -> Loop \cup {NULL}]
    <3>1. CASE LookupAnswered(s)
      <4>1. LookupAnswers(polls[s].id) \subseteq Answers
        <5>1. server[polls[s].id] \in { "not_seen", "in-progress", "fulfilled",
                                        "failed-definitive", "uncertain", "gone" }
          BY <2>1 DEF ClientTypeOK, Loop
        <5> QED
          BY <5>1 DEF LookupAnswers, Answers
      <4>2. PICK a \in Answers : polls' = [polls EXCEPT ![s].step = a]
        BY <3>1, <4>1 DEF LookupAnswered, SetStep
      <4> QED
        BY <2>1, <4>2 DEF Loop
    <3>2. CASE WaitEnds(s)
      BY <2>1, <3>2, ClientAssumption DEF WaitEnds, In, Loop
    <3> QED
      BY <1>4, <3>1, <3>2
  <2>3. UNCHANGED <<ui, active, loads, clicks, subs, session, reloads, outside, sent, history>>
    BY <1>4 DEF LookupAnswered, WaitEnds
  <2> QED
    BY <2>2, <2>3 DEF ClientTypeOK, ActiveIsStarted, SentAfterSigning, RecentIsStarted
<1>5. ASSUME NEW p \in Ids, ServerAdvances(p) \/ RowExpires(p)
      PROVE  ClientInv'
  <2>1. /\ server' \in [Ids -> { "not_seen", "in-progress", "fulfilled",
                                 "failed-definitive", "uncertain", "gone" }]
        /\ settled' \subseteq Ids
    BY <1>5 DEF ServerAdvances, ServerSteps, RowExpires, ClientTypeOK
  <2>2. UNCHANGED <<page, session, reloads, sent, history>>
    BY <1>5 DEF ServerAdvances, RowExpires
  <2> QED
    BY <2>1, <2>2 DEF ClientTypeOK, ActiveIsStarted, SentAfterSigning, RecentIsStarted
<1>6. CASE UNCHANGED vars
  BY <1>6 DEF vars, ClientTypeOK, ActiveIsStarted, SentAfterSigning, RecentIsStarted
<1> QED
  BY <1>1, <1>2, <1>3, <1>4, <1>5, <1>6

-----------------------------------------------------------------------------
(* ClientInv is inductive.                                                 *)
THEOREM ClientInvariance == ClientSpec => []ClientInv
<1>1. ClientInit => ClientInv
  BY InitialUiTyped, ClientAssumption
  DEF ClientInit, ClientInv, ClientTypeOK, ActiveIsStarted, SentAfterSigning, RecentIsStarted
<1>2. ClientInv /\ [ClientNext]_vars => ClientInv'
  BY HandleAnswerPreserves, SubmitPaymentPreserves, SigningEndsPreserves,
     ExecutionEndsPreserves, ResetPreserves, ReloadPreserves, OthersPreserve
  DEF ClientNext, User
<1> QED
  BY <1>1, <1>2, PTL DEF ClientSpec

(* The page's state, its asynchronous work and the saved session stay in   *)
(* range.                                                                  *)
THEOREM ClientTypeCorrect == ClientSpec => []ClientTypeOK
<1>1. ClientInv => ClientTypeOK
  BY DEF ClientInv
<1> QED
  BY <1>1, ClientInvariance, PTL

(* No identifier is ever sent with two payments.                           *)
THEOREM NeverSentTwice == ClientSpec => []SentAtMostOnce
<1>1. ClientInv => SentAtMostOnce
  BY DEF ClientInv, SentAfterSigning, SentAtMostOnce
<1> QED
  BY <1>1, ClientInvariance, PTL

(* One submission at most between two Resets or reloads.                   *)
THEOREM SubmitsOnce == ClientSpec => []OneSubmissionPerReset
<1>1. ClientInv => OneSubmissionPerReset
  <2>1. Cardinality({}) = 0 /\ \A p : Cardinality({p}) = 1
    BY FS_EmptySet, FS_Singleton
  <2>2. ClientInv => recent = {} \/ \E p \in Ids : recent = {p}
    BY DEF ClientInv, RecentIsStarted
  <2>3. recent = {} \/ (\E p \in Ids : recent = {p}) => Cardinality(recent) \in {0, 1}
    BY <2>1, Zenon
  <2> QED
    BY <2>2, <2>3 DEF OneSubmissionPerReset
<1> QED
  BY <1>1, ClientInvariance, PTL

-----------------------------------------------------------------------------
(* A patient user, who presses Reset only when nothing is outstanding.     *)

(* Whatever is outstanding or saved belongs to the attempt that the page   *)
(* shows; an attempt whose outcome is unknown has its session, and not an  *)
(* old one.                                                                *)
OfTheAttempt ==
  /\ session # NULL => ui.attemptStarted /\ session.id = ui.paymentIdentifier
  /\ \A p \in Ids : subs[p] # "none" => ui.attemptStarted /\ ui.paymentIdentifier = p
  /\ \A s \in Slots : polls[s] # NULL =>
       ui.attemptStarted /\ polls[s].id = ui.paymentIdentifier

OpenIsSaved ==
  \A p \in Ids : standing[p] = "open" => session # NULL /\ session.id = p /\ session.fresh

(* What the page has been told of a fulfilled payment is true.             *)
ToldIsTrue ==
  /\ \A p \in Ids : server[p] = "fulfilled" => p \in settled
  /\ \A s \in Slots : In(s, "fulfilled") => polls[s].id \in settled

PatientInv == OfTheAttempt /\ OpenIsSaved /\ ToldIsTrue /\ ResultBelongs

(* The attempt of the page stays the same.                                 *)
SameAttempt ==
  /\ ui'.attemptStarted = ui.attemptStarted
  /\ ui'.paymentIdentifier = ui.paymentIdentifier

LEMMA ReleasedWhich ==
  ASSUME ClientTypeOK, NEW S, Release(S), NEW p \in Ids, standing'[p] = "open"
  PROVE  standing[p] = "open" /\ p \notin S
BY DEF ClientTypeOK, Release

LEMMA UiKeepsAttempt ==
  ASSUME ClientTypeOK, NEW state \in UiStates,
         Conclude(state) \/ ui' = [ui EXCEPT !.uiState = state]
  PROVE  SameAttempt /\ ui'.uiState = state
BY DEF ClientTypeOK, Ui, Conclude, SameAttempt

LEMMA ShowPaidKeepsAttempt ==
  ASSUME ClientTypeOK, NEW p \in Ids, ShowPaid(p)
  PROVE  SameAttempt /\ ui'.paid = p
BY DEF ClientTypeOK, Ui, ShowPaid, SameAttempt

LEMMA EndLoopKeeps ==
  ASSUME ClientTypeOK, NEW s \in Slots, EndLoop(s)
  PROVE  /\ polls'[s] = NULL
         /\ \A r \in Slots \ {s} : polls'[r] = polls[r]
BY DEF ClientTypeOK, EndLoop

LEMMA HandleAnswerPatient ==
  ASSUME ClientInv, PatientInv, NEW s \in Slots, HandleAnswer(s)
  PROVE  PatientInv'
<1> USE DEF ClientInv
<1>1. polls[s] # NULL /\ polls[s] \in Loop
  BY DEF HandleAnswer, PollFulfilled, PollFailed, PollExpired, PollInconclusive, PollGivesUp,
         PollGoesOn, Pending, In, ClientTypeOK
<1>2. ui.attemptStarted /\ polls[s].id = ui.paymentIdentifier /\ polls[s].id \in Ids
  BY <1>1 DEF PatientInv, OfTheAttempt, Loop
<1>3. /\ UNCHANGED <<subs, server, settled>>
      /\ session' \in {session, NULL}
  BY DEF HandleAnswer, PollFulfilled, PollFailed, PollExpired, PollInconclusive, PollGivesUp,
         PollGoesOn, ForgetAttempt
<1>4. /\ SameAttempt
      /\ ui'.uiState = "success" =>
           \/ ui' = ui
           \/ In(s, "fulfilled") /\ ui'.paid = polls[s].id
  <2>1. CASE PollFulfilled(s)
    BY <1>2, <2>1, ShowPaidKeepsAttempt DEF PollFulfilled
  <2>2. CASE ui' = ui
    BY <2>2 DEF SameAttempt
  <2>3. CASE PollFailed(s) \/ PollExpired(s) \/ PollInconclusive(s) \/ PollGivesUp(s)
    <3>1. \E state \in UiStates \ {"success"} :
            Conclude(state) \/ ui' = [ui EXCEPT !.uiState = state]
      BY <2>3 DEF PollFailed, PollExpired, PollInconclusive, PollGivesUp, UiStates
    <3> QED
      BY <3>1, UiKeepsAttempt
  <2> QED
    BY <2>1, <2>2, <2>3 DEF HandleAnswer, PollGoesOn
<1>5. \A r \in Slots : polls'[r] # NULL =>
        /\ polls[r] # NULL /\ polls'[r].id = polls[r].id
        /\ In(r, "fulfilled")' => In(r, "fulfilled")
  <2>1. CASE EndLoop(s)
    BY <2>1, EndLoopKeeps DEF In
  <2>2. CASE SetStep(s, "waiting")
    <3>1. polls' = [polls EXCEPT ![s] = [polls[s] EXCEPT !.step = "waiting"]]
      BY <2>2 DEF SetStep
    <3>2. /\ polls'[s].id = polls[s].id /\ polls'[s].step = "waiting"
          /\ \A r \in Slots \ {s} : polls'[r] = polls[r]
      BY <1>1, <3>1 DEF ClientTypeOK, Loop
    <3> QED
      BY <1>1, <3>2 DEF In
  <2> QED
    BY <2>1, <2>2 DEF HandleAnswer, PollFulfilled, PollFailed, PollExpired, PollInconclusive,
                      PollGivesUp, PollGoesOn
<1>6. \/ session' = session /\ (standing' = standing \/ \E S : Release(S))
      \/ Release({polls[s].id})
  BY DEF HandleAnswer, PollFulfilled, PollFailed, PollExpired, PollInconclusive, PollGivesUp,
         PollGoesOn
<1>7. OpenIsSaved'
  <2> SUFFICES ASSUME NEW p \in Ids, standing'[p] = "open"
               PROVE  session' # NULL /\ session'.id = p /\ session'.fresh
    BY DEF OpenIsSaved
  <2>1. standing[p] = "open"
    BY <1>6, ReleasedWhich
  <2>2. p = polls[s].id
    BY <1>2, <2>1 DEF PatientInv, OfTheAttempt, OpenIsSaved
  <2>3. session' = session
    BY <1>6, <2>2, ReleasedWhich
  <2> QED
    BY <2>1, <2>3 DEF PatientInv, OpenIsSaved
<1>8. OfTheAttempt'
  BY <1>3, <1>4, <1>5 DEF PatientInv, OfTheAttempt, SameAttempt
<1>9. ToldIsTrue'
  BY <1>3, <1>5 DEF PatientInv, ToldIsTrue, In
<1>10. ResultBelongs'
  BY <1>2, <1>3, <1>4 DEF PatientInv, ToldIsTrue, ResultBelongs, SameAttempt
<1> QED
  BY <1>7, <1>8, <1>9, <1>10 DEF PatientInv

(* A new attempt starts when nothing of an earlier one is left.            *)
LEMMA SubmitPaymentPatient ==
  ASSUME ClientInv, PatientInv, SubmitPayment
  PROVE  PatientInv'
<1> USE DEF ClientInv
<1>1. UNCHANGED <<polls, server, settled>>
  BY DEF SubmitPayment
<1>2. CASE UNCHANGED <<ui, subs, session, standing>>
  BY <1>1, <1>2 DEF PatientInv, OfTheAttempt, OpenIsSaved, ToldIsTrue, ResultBelongs, In
<1>3. CASE CanSubmit /\ ~ UNCHANGED <<ui, subs, session, standing, recent>>
  <2>1. ~ ui.attemptStarted /\ active = NULL
    BY <1>3 DEF CanSubmit, ActiveIsStarted
  <2>2. /\ session = NULL /\ \A s \in Slots : polls[s] = NULL
        /\ \A p \in Ids : subs[p] = "none" /\ standing[p] # "open"
    BY <2>1 DEF PatientInv, OfTheAttempt, OpenIsSaved
  <2>3. PICK p \in Ids : StartSubmission(p)
    BY <1>3, <2>1 DEF SubmitPayment, IdsToSubmit
  <2>4. /\ ui'.attemptStarted /\ ui'.paymentIdentifier = p /\ ui'.uiState = "submitting"
        /\ \A q \in Ids \ {p} : subs'[q] = subs[q] /\ standing'[q] = standing[q]
    BY <2>3 DEF StartSubmission, ClientTypeOK, Ui
  <2>5. session' = [id |-> p, fresh |-> TRUE]
    BY <1>3, <2>1, <2>4 DEF SubmitPayment, SaveSession
  <2>6. session' # NULL /\ session'.id = p /\ session'.fresh
    <3>1. [id |-> p, fresh |-> TRUE] \in Sessions
      BY DEF Sessions
    <3> QED
      BY <2>5, <3>1, ClientAssumption
  <2>7. OfTheAttempt'
    BY <1>1, <2>2, <2>4, <2>6 DEF OfTheAttempt
  <2>8. OpenIsSaved'
    BY <2>2, <2>4, <2>6 DEF OpenIsSaved
  <2> QED
    BY <1>1, <2>2, <2>4, <2>7, <2>8 DEF PatientInv, ToldIsTrue, ResultBelongs, In
<1> QED
  BY <1>2, <1>3 DEF SubmitPayment

(* The attempt ends without a payment, or as if there were none.           *)
LEMMA FailPatient ==
  ASSUME ClientInv, PatientInv, NEW p \in Ids, Fail(p), UNCHANGED <<server, settled>>,
         ui.attemptStarted, ui.paymentIdentifier = p,
         \A q \in Ids \ {p} : subs'[q] = subs[q]
  PROVE  PatientInv'
<1> USE DEF ClientInv
<1>1. SameAttempt /\ ui'.uiState = "failed-definitive"
  BY UiKeepsAttempt DEF Fail, UiStates
<1>2. OfTheAttempt' /\ OpenIsSaved'
  BY <1>1, ReleasedWhich
     DEF PatientInv, OfTheAttempt, OpenIsSaved, Fail, ForgetAttempt, SameAttempt
<1> QED
  BY <1>1, <1>2 DEF PatientInv, ToldIsTrue, ResultBelongs, In, Fail

LEMMA SigningEndsPatient ==
  ASSUME ClientInv, PatientInv, NEW p \in Ids, SigningEnds(p)
  PROVE  PatientInv'
<1> USE DEF ClientInv
<1>1. UNCHANGED <<server, settled, polls>>
  BY DEF SigningEnds, Fail
<1>2. /\ subs[p] # "none" /\ ui.attemptStarted /\ ui.paymentIdentifier = p
      /\ \A q \in Ids \ {p} : subs'[q] = subs[q]
  BY DEF SigningEnds, PatientInv, OfTheAttempt, ClientTypeOK
<1>3. CASE UNCHANGED <<ui, session, standing>>
  BY <1>1, <1>2, <1>3 DEF PatientInv, OfTheAttempt, OpenIsSaved, ToldIsTrue, ResultBelongs, In
<1>4. CASE Fail(p)
  BY <1>1, <1>2, <1>4, FailPatient
<1> QED
  BY <1>3, <1>4 DEF SigningEnds

LEMMA ExecutionEndsPatient ==
  ASSUME ClientInv, PatientInv, NEW p \in Ids, ExecutionEnds(p)
  PROVE  PatientInv'
<1> USE DEF ClientInv
<1>1. UNCHANGED <<server, settled>>
  BY DEF ExecutionEnds
<1>2. /\ subs[p] # "none" /\ ui.attemptStarted /\ ui.paymentIdentifier = p
      /\ \A q \in Ids \ {p} : subs'[q] = subs[q]
  BY DEF ExecutionEnds, PatientInv, OfTheAttempt, ClientTypeOK
<1>3. CASE p \in settled /\ ShowPaid(p) /\ ForgetAttempt /\ Release({p}) /\ UNCHANGED polls
  <2>1. SameAttempt /\ ui'.paid = p
    BY <1>3, ShowPaidKeepsAttempt
  <2>2. OfTheAttempt' /\ OpenIsSaved'
    BY <1>2, <1>3, <2>1, ReleasedWhich
       DEF PatientInv, OfTheAttempt, OpenIsSaved, ForgetAttempt, SameAttempt
  <2> QED
    BY <1>1, <1>2, <1>3, <2>1, <2>2
       DEF PatientInv, ToldIsTrue, ResultBelongs, In, SameAttempt
<1>4. CASE Fail(p)
  BY <1>1, <1>2, <1>4, FailPatient
<1>5. CASE Unconfirmed(p)
  <2>1. SameAttempt /\ ui'.uiState = "polling-status"
    BY <1>5, UiKeepsAttempt DEF Unconfirmed, UiStates
  <2>2. session' # NULL /\ session'.id = p /\ session'.fresh /\ standing' = standing
    <3>1. [id |-> p, fresh |-> TRUE] \in Sessions
      BY DEF Sessions
    <3> QED
      BY <1>5, <3>1, ClientAssumption DEF Unconfirmed, SaveSession
  <2>3. \A s \in Slots : polls'[s] # NULL =>
          /\ polls'[s].id = p
          /\ In(s, "fulfilled")' => In(s, "fulfilled") /\ polls[s].id = p
    <3>1. PICK s \in Slots :
            polls' = [r \in Slots |-> IF r = s THEN NewLoop(p) ELSE Cancelled(r)]
      BY <1>5 DEF Unconfirmed, StartStatusPolling
    <3>2. NewLoop(p).id = p /\ NewLoop(p).step = "looking"
      BY DEF NewLoop
    <3>3. ASSUME NEW r \in Slots, Cancelled(r) # NULL
          PROVE  /\ polls[r] # NULL /\ Cancelled(r).id = p
                 /\ polls[r].id = p /\ Cancelled(r).step = polls[r].step
      BY <1>2, <3>3 DEF Cancelled, PatientInv, OfTheAttempt, ClientTypeOK, Loop
    <3> QED
      BY <3>1, <3>2, <3>3 DEF In
  <2>4. OfTheAttempt'
    BY <1>2, <2>1, <2>2, <2>3 DEF PatientInv, OfTheAttempt, SameAttempt
  <2>5. OpenIsSaved'
    BY <1>2, <2>2 DEF PatientInv, OfTheAttempt, OpenIsSaved
  <2>6. ToldIsTrue'
    BY <1>1, <2>3 DEF PatientInv, ToldIsTrue, In
  <2> QED
    BY <2>1, <2>4, <2>5, <2>6 DEF PatientInv, ResultBelongs
<1> QED
  BY <1>3, <1>4, <1>5 DEF ExecutionEnds, Answered

(* A reload finds the saved attempt, or nothing whose outcome is unknown.  *)
LEMMA ReloadPatient ==
  ASSUME ClientInv, PatientInv, Reload
  PROVE  PatientInv'
<1> USE DEF ClientInv
<1>1. UNCHANGED <<server, settled, standing>> /\ \A p \in Ids : subs'[p] = "none"
  BY DEF Reload
<1>2. CASE session # NULL /\ session.fresh
  <2>1. session.id \in Ids /\ Recover(session.id) /\ session' = session
    BY <1>2 DEF Reload, ClientTypeOK
  <2>2. /\ ui'.attemptStarted /\ ui'.paymentIdentifier = session.id
        /\ ui'.uiState = "polling-status"
    BY <2>1 DEF Recover, InitialUi
  <2>3. \A s \in Slots : polls'[s] # NULL =>
          polls'[s].id = session.id /\ polls'[s].step = "looking"
    BY <2>1 DEF Recover, NewLoop
  <2> QED
    BY <1>1, <1>2, <2>1, <2>2, <2>3
       DEF PatientInv, OfTheAttempt, OpenIsSaved, ToldIsTrue, ResultBelongs, In
<1>3. CASE ~ (session # NULL /\ session.fresh)
  <2>1. /\ ui' = InitialUi /\ session' = NULL /\ \A s \in Slots : polls'[s] = NULL
        /\ \A p \in Ids : standing[p] # "open"
    BY <1>3 DEF Reload, ForgetAttempt, PatientInv, OpenIsSaved
  <2>2. ui'.uiState # "success"
    BY <2>1 DEF InitialUi
  <2> QED
    BY <1>1, <2>1, <2>2
       DEF PatientInv, OfTheAttempt, OpenIsSaved, ToldIsTrue, ResultBelongs, In
<1> QED
  BY <1>2, <1>3

(* Here the user's patience is needed.                                     *)
LEMMA ResetPatient ==
  ASSUME ClientInv, PatientInv, ~ ResetWhileBusy, Reset
  PROVE  PatientInv'
<1> USE DEF ClientInv
<1>1. /\ \A p \in Ids : subs[p] = "none" /\ subs'[p] = "none"
      /\ \A s \in Slots : polls[s] = NULL
      /\ session' = NULL /\ ui' = InitialUi /\ UNCHANGED <<server, settled>>
  BY DEF Reset, Busy, ForgetAttempt
<1>2. \A s \in Slots : polls'[s] = NULL
  BY <1>1 DEF Reset, CancelPolling, Cancelled
<1>3. \A p \in Ids : standing'[p] # "open"
  BY ReleasedWhich DEF Reset
<1>4. ui'.uiState # "success"
  BY <1>1 DEF InitialUi
<1> QED
  BY <1>1, <1>2, <1>3, <1>4
     DEF PatientInv, OfTheAttempt, OpenIsSaved, ToldIsTrue, ResultBelongs, In

LEMMA OthersPatient ==
  ASSUME ClientInv, PatientInv,
         \/ LoadTerms \/ LoadEnds \/ ClickSubmit \/ SessionAges
         \/ \E s \in Slots : LookupAnswered(s) \/ WaitEnds(s)
         \/ \E p \in Ids : ServerAdvances(p) \/ RowExpires(p)
         \/ UNCHANGED vars
  PROVE  PatientInv'
<1> USE DEF ClientInv
<1>1. CASE LoadTerms \/ LoadEnds
  <2>1. /\ SameAttempt /\ ui'.uiState # "success"
        /\ UNCHANGED <<subs, polls, session, server, settled, standing>>
    BY <1>1 DEF LoadTerms, LoadEnds, ClientTypeOK, Ui, SameAttempt
  <2> QED
    BY <2>1 DEF PatientInv, OfTheAttempt, OpenIsSaved, ToldIsTrue, ResultBelongs, In,
                SameAttempt
<1>2. CASE ClickSubmit \/ UNCHANGED vars
  <2>1. UNCHANGED <<ui, subs, polls, session, server, settled, standing>>
    BY <1>2 DEF ClickSubmit, vars
  <2> QED
    BY <2>1 DEF PatientInv, OfTheAttempt, OpenIsSaved, ToldIsTrue, ResultBelongs, In
<1>3. CASE SessionAges
  <2>1. /\ session # NULL /\ session.id \in Ids
        /\ session' = [session EXCEPT !.fresh = FALSE] /\ session'.id = session.id
        /\ UNCHANGED <<ui, subs, polls, server, settled>>
    BY <1>3 DEF SessionAges, ClientTypeOK
  <2>2. ASSUME NEW p \in Ids PROVE standing'[p] # "open"
    BY <1>3, <2>1, <2>2, ReleasedWhich DEF SessionAges, PatientInv, OpenIsSaved
  <2> QED
    BY <2>1, <2>2 DEF PatientInv, OfTheAttempt, OpenIsSaved, ToldIsTrue, ResultBelongs, In
<1>4. ASSUME NEW s \in Slots, LookupAnswered(s) \/ WaitEnds(s)
      PROVE  PatientInv'
  <2>1. /\ UNCHANGED <<ui, subs, session, server, settled, standing>>
        /\ polls[s] # NULL /\ polls[s] \in Loop
    BY <1>4 DEF LookupAnswered, WaitEnds, In, ClientTypeOK
  <2>2. /\ \A r \in Slots \ {s} : polls'[r] = polls[r]
        /\ polls'[s].id = polls[s].id
        /\ In(s, "fulfilled")' => polls[s].id \in settled
    <3>1. CASE LookupAnswered(s)
      <4>1. PICK a \in LookupAnswers(polls[s].id) :
              polls' = [polls EXCEPT ![s] = [polls[s] EXCEPT !.step = a]]
        BY <3>1 DEF LookupAnswered, SetStep
      <4>2. server[polls[s].id] \in { "not_seen", "in-progress", "fulfilled",
                                      "failed-definitive", "uncertain", "gone" }
        BY <2>1 DEF ClientTypeOK, Loop
      <4>3. a = "fulfilled" => server[polls[s].id] = "fulfilled"
        BY <4>2 DEF LookupAnswers
      <4>4. a = "fulfilled" => polls[s].id \in settled
        BY <2>1, <4>3 DEF PatientInv, ToldIsTrue, Loop
      <4> QED
        BY <2>1, <4>1, <4>4 DEF ClientTypeOK, Loop, In
    <3>2. CASE WaitEnds(s)
      <4>1. polls' = [polls EXCEPT ![s] = [polls[s] EXCEPT !.step = "looking",
                                                           !.count = polls[s].count + 1]]
        BY <3>2 DEF WaitEnds, ClientTypeOK
      <4> QED
        BY <2>1, <4>1 DEF ClientTypeOK, Loop, In
    <3> QED
      BY <1>4, <3>1, <3>2
  <2> QED
    BY <2>1, <2>2 DEF PatientInv, OfTheAttempt, OpenIsSaved, ToldIsTrue, ResultBelongs, In
<1>5. ASSUME NEW p \in Ids, ServerAdvances(p) \/ RowExpires(p)
      PROVE  PatientInv'
  <2>1. UNCHANGED <<ui, subs, polls, session, standing>>
    BY <1>5 DEF ServerAdvances, RowExpires
  <2>2. /\ settled \subseteq settled'
        /\ \A q \in Ids : server'[q] = "fulfilled" => q \in settled'
    BY <1>5 DEF ServerAdvances, RowExpires, PatientInv, ToldIsTrue, ClientTypeOK
  <2> QED
    BY <2>1, <2>2 DEF PatientInv, OfTheAttempt, OpenIsSaved, ToldIsTrue, ResultBelongs, In
<1> QED
  BY <1>1, <1>2, <1>3, <1>4, <1>5

LEMMA PatientInvariance ==
  ASSUME ~ ResetWhileBusy
  PROVE  ClientSpec => [](ClientInv /\ PatientInv)
<1>1. ClientInit => PatientInv
  BY ClientAssumption
     DEF ClientInit, InitialUi, PatientInv, OfTheAttempt, OpenIsSaved, ToldIsTrue,
         ResultBelongs, In
<1>2. ClientInv /\ PatientInv /\ [ClientNext]_vars => PatientInv'
  BY HandleAnswerPatient, SubmitPaymentPatient, SigningEndsPatient, ExecutionEndsPatient,
     ResetPatient, ReloadPatient, OthersPatient
     DEF ClientNext, User
<1> QED
  BY <1>1, <1>2, ClientInvariance, PTL DEF ClientSpec

(* RefreshRecovers, for a patient user: a payment whose outcome is unknown *)
(* is the one that a reload finds.                                         *)
THEOREM ReloadsRecover ==
  ASSUME ~ ResetWhileBusy
  PROVE  ClientSpec => []RefreshRecovers
<1>1. PatientInv => RefreshRecovers
  BY DEF PatientInv, OpenIsSaved, RefreshRecovers
<1> QED
  BY <1>1, PatientInvariance, PTL

(* ResultBelongs, for a patient user: the page shows the result of the     *)
(* payment it names, and the server took that payment.                     *)
THEOREM ResultsBelong ==
  ASSUME ~ ResetWhileBusy
  PROVE  ClientSpec => []ResultBelongs
<1>1. PatientInv => ResultBelongs
  BY DEF PatientInv
<1> QED
  BY <1>1, PatientInvariance, PTL

(* NoPaymentOverUnknown, for a patient user: no submission starts while    *)
(* the outcome of an earlier one is unknown.                               *)
THEOREM NoneOverUnknown ==
  ASSUME ~ ResetWhileBusy
  PROVE  ClientSpec => NoPaymentOverUnknown
<1>1. ClientInv /\ PatientInv /\ [ClientNext]_vars =>
        [\A p \in Ids : Starts(p) => \A q \in Ids : standing[q] # "open"]_vars
  <2> SUFFICES ASSUME ClientInv, PatientInv, [ClientNext]_vars,
                      NEW p \in Ids, Starts(p), NEW q \in Ids
               PROVE  standing[q] # "open"
    OBVIOUS
  <2>1. ASSUME ~ ui.attemptStarted PROVE standing[q] # "open"
    BY <2>1 DEF PatientInv, OfTheAttempt, OpenIsSaved
  <2>2. \A r \in Ids : SigningEnds(r) \/ ExecutionEnds(r) => ~ Starts(p)
    BY DEF SigningEnds, ExecutionEnds, Starts, ClientInv, ClientTypeOK
  <2>3. Reload => ~ Starts(p)
    BY DEF Reload, Starts
  <2>4. UNCHANGED subs => ~ Starts(p)
    BY DEF Starts
  <2>5. SubmitPayment => UNCHANGED subs \/ ~ ui.attemptStarted
    BY DEF SubmitPayment, CanSubmit
  <2>6. \/ SubmitPayment \/ Reload \/ UNCHANGED subs
        \/ \E r \in Ids : SigningEnds(r) \/ ExecutionEnds(r)
    BY DEF ClientNext, User, LoadTerms, ClickSubmit, Reset, LoadEnds, LookupAnswered,
           HandleAnswer, WaitEnds, SessionAges, ServerAdvances, RowExpires, vars
  <2> QED
    BY <2>1, <2>2, <2>3, <2>4, <2>5, <2>6
<1> QED
  BY <1>1, PatientInvariance, PTL DEF ClientSpec, NoPaymentOverUnknown
=============================================================================
