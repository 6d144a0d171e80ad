------------------------------ MODULE PayPage -------------------------------
(***************************************************************************)
(* The testnet pay page in one tab: PayPageController (browser/pay-main.ts)*)
(* with the state rules of pay-wallet-state.ts and pay-quote.ts, the terms *)
(* loader and executeBoundPayment.  The page asks its wallet provider and  *)
(* the seller for things and awaits them, while account and chain events   *)
(* of the provider change its state at any time.                           *)
(*                                                                         *)
(* External: the wallet and its user, the seller.  What the provider sends *)
(* to the page, answers and events alike, arrives in the order sent.       *)
(*                                                                         *)
(* Left out: messages (only whether one is shown), the summary, and what   *)
(* cannot differ while a page lives.  The configuration is fetched once,   *)
(* so a quote's fingerprint always fits, and executeBoundPayment repeats   *)
(* the checks of evaluatePaymentReadiness on the values they were passed   *)
(* for.  A quote that failed the payment policy is never stored.  Without a*)
(* provider nothing but Bootstrap and Reset can happen, so there is one.   *)
(***************************************************************************)
EXTENDS Naturals, Sequences

CONSTANTS
  Accounts,   \* accounts of the wallet
  Expected,   \* Base Sepolia
  Other,      \* any other chain
  NULL,
  Slots,      \* one for each payment that can run at a time (bound)
  MaxEvents   \* bound on what the provider has sent and the page not handled

ASSUME PageAssumption ==
  /\ NULL \notin Accounts \cup {Expected, Other}
  /\ Expected # Other
  /\ MaxEvents \in Nat

VARIABLES
  page,       \* the controller's state
  clients,    \* the account paymentClients is bound to
  receipt,    \* the receipt shown: the quote it names and the quote paid
  bootstrap,  \* is the configuration still being fetched?
  call,       \* the connect or switch that is waiting for the provider
  load,       \* the account and chain terms are being loaded for
  payments,   \* the calls of executeBoundPayment that run
  wallet,     \* the wallet's account and chain
  inbox,      \* what the provider sent, oldest first
  since,      \* history: signatures requested since the last Reset
  reviewed    \* history: has the user reviewed the quote on the page?

work == <<call, load, payments>>
outside == <<wallet, inbox>>
history == <<since, reviewed>>
vars == <<page, clients, receipt, bootstrap, work, outside, history>>

Chains == {Expected, Other}
Quotes == [account : Accounts, chain : Chains]
Stages == {"awaiting-wallet-signature", "submitting-payment", "waiting-for-settlement"}
WalletActions == {"connect", "switch-network"}
Actions == WalletActions \cup {"load-terms", "sign-and-submit"}

Page ==
  [ account   : Accounts \cup {NULL},
    chain     : Chains \cup {NULL},
    config    : {"ready", "placeholder", NULL},
    quote     : Quotes \cup {NULL},
    pending   : Actions \cup {NULL},
    rejected  : BOOLEAN,
    error     : BOOLEAN,
    started   : BOOLEAN,     \* attemptStarted
    completed : BOOLEAN,     \* paymentAttemptCompleted
    awaiting  : BOOLEAN,     \* awaitingConfirmation
    stage     : Stages \cup {NULL},
    terminal  : {"success", "potentially-submitted", NULL} ]

Call == [action : WalletActions, step : {"request", "accounts", "chain"}, answered : BOOLEAN]
Payment == [stage : Stages, payer : Accounts, quote : Quotes]
Message ==
  [type : {"accountsChanged"}, account : Accounts \cup {NULL}]
    \cup [type : {"chainChanged"}, chain : Chains]
    \cup [type : {"answer"}, account : Accounts \cup {NULL}, chain : Chains]
    \cup [type : {"refusal"}, rejected : BOOLEAN]

ASSUME NullAssumption == NULL \notin Quotes \cup Call \cup Payment \cup Actions \cup Stages

ASSUME DisplayAssumption ==
  NULL \notin {"ready", "placeholder", "success", "potentially-submitted"}

PageTypeOK ==
  /\ page \in Page
  /\ clients \in Accounts \cup {NULL}
  /\ receipt \in [shown : Quotes, paid : Quotes] \cup {NULL}
  /\ bootstrap \in BOOLEAN
  /\ call \in Call \cup {NULL}
  /\ load \in Quotes \cup {NULL}
  /\ payments \in [Slots -> Payment \cup {NULL}]
  /\ wallet \in [account : Accounts \cup {NULL}, chain : Chains]
  /\ inbox \in Seq(Message)
  /\ since \in Nat
  /\ reviewed \in BOOLEAN

-----------------------------------------------------------------------------
(* What the page allows.                                                   *)

ReadyOnceBound ==
  /\ page.config = "ready"
  /\ page.account # NULL /\ page.chain = Expected
  /\ page.quote # NULL
  /\ ~ page.started /\ ~ page.completed
  /\ page.pending = NULL

Ready ==
  /\ page.config = "ready"
  /\ page.account # NULL /\ page.chain = Expected
  /\ page.quote = [account |-> page.account, chain |-> page.chain]
  /\ ~ page.started /\ ~ page.completed
  /\ page.pending = NULL

Idle == page.pending = NULL /\ page.stage = NULL

(* The pay button is enabled by Ready alone; its handler asks for both.    *)
PayEnabled == Ready

Confirmed == Ready /\ page.awaiting

CanStart(action) ==
  /\ Idle
  /\ page.terminal = NULL
  /\ CASE action = "connect" -> page.account = NULL
       [] action = "switch-network" -> page.account # NULL /\ page.chain # Expected
       [] action = "load-terms" -> /\ page.account # NULL /\ page.chain = Expected
                                   /\ page.quote = NULL /\ ~ page.completed
       [] action = "confirm-payment" -> page.quote # NULL /\ ~ page.awaiting /\ ~ page.completed
       [] action = "sign-and-submit" -> Confirmed

InvalidatedAndFree(p) ==
  [p EXCEPT !.quote = NULL, !.awaiting = FALSE, !.started = FALSE, !.stage = NULL,
            !.rejected = FALSE, !.error = FALSE, !.pending = NULL]

InvalidatedAndCleared(p) ==
  [p EXCEPT !.quote = NULL, !.awaiting = FALSE, !.started = FALSE, !.stage = NULL,
            !.rejected = FALSE, !.error = FALSE, !.terminal = NULL]

Invalidated(p) ==
  [p EXCEPT !.quote = NULL, !.awaiting = FALSE, !.started = FALSE, !.stage = NULL,
            !.rejected = FALSE, !.error = FALSE]

-----------------------------------------------------------------------------
(* The configuration.                                                      *)

Bootstrap ==
  /\ bootstrap
  /\ bootstrap' = FALSE
  /\ \/ \E c \in {"ready", "placeholder"} : page' = [page EXCEPT !.config = c]
     \/ page' = [page EXCEPT !.error = TRUE]
  /\ UNCHANGED <<clients, receipt, work, outside, history>>

-----------------------------------------------------------------------------
(* Connect and switch: one request, then eth_accounts, then eth_chainId.   *)

StartCall(action) ==
  /\ CanStart(action)
  /\ page' = [page EXCEPT !.pending = action,
                          !.rejected = IF action = "connect" THEN FALSE ELSE @,
                          !.error = IF action = "connect" THEN FALSE ELSE @]
  /\ call' = [action |-> action, step |-> "request", answered |-> FALSE]
  /\ UNCHANGED <<clients, receipt, bootstrap, load, payments, outside, history>>

EndCall == call' = NULL
Ask(step) == call' = [call EXCEPT !.step = step, !.answered = FALSE]

HandleAnswer(m) ==
  /\ call # NULL
  /\ \/ /\ m.type = "refusal"
        /\ page' = [page EXCEPT !.error = TRUE, !.rejected = m.rejected, !.pending = NULL]
        /\ EndCall
     \/ /\ m.type = "answer" /\ call.step = "request"
        /\ page' = [page EXCEPT !.account = IF call.action = "connect" THEN m.account ELSE @]
        /\ Ask("accounts")
     \/ /\ m.type = "answer" /\ call.step = "accounts"
        /\ page' = [page EXCEPT !.account = m.account]
        /\ Ask("chain")
     \/ /\ m.type = "answer" /\ call.step = "chain"
        /\ page' = [page EXCEPT !.chain = m.chain, !.pending = NULL]
        /\ EndCall
  /\ UNCHANGED <<clients, reviewed>>

-----------------------------------------------------------------------------
(* Events of the provider.                                                 *)

HandleAccounts(m) ==
  /\ m.type = "accountsChanged"
  /\ page' = Invalidated([page EXCEPT !.account = m.account])
  /\ clients' = NULL
  /\ reviewed' = FALSE
  /\ UNCHANGED call

HandleChainWhenIdle(m) ==
  /\ m.type = "chainChanged"
  /\ page' = IF page.pending = NULL THEN Invalidated([page EXCEPT !.chain = m.chain]) ELSE page
  /\ clients' = NULL
  /\ reviewed' = FALSE
  /\ UNCHANGED call

HandleChain(m) ==
  /\ m.type = "chainChanged"
  /\ page' = Invalidated([page EXCEPT !.chain = m.chain])
  /\ clients' = NULL
  /\ reviewed' = FALSE
  /\ UNCHANGED call

Receive ==
  /\ inbox # <<>>
  /\ inbox' = Tail(inbox)
  /\ HandleAnswer(Head(inbox)) \/ HandleAccounts(Head(inbox)) \/ HandleChain(Head(inbox))
  /\ UNCHANGED <<receipt, bootstrap, load, payments, wallet, since>>

-----------------------------------------------------------------------------
(* Terms.                                                                  *)

LoadTerms ==
  /\ CanStart("load-terms")
  /\ page.config # NULL
  /\ page' = [page EXCEPT !.pending = "load-terms", !.error = FALSE]
  /\ load' = [account |-> page.account, chain |-> page.chain]
  /\ UNCHANGED <<clients, receipt, bootstrap, call, payments, outside, history>>

(* The loader binds a quote to what it was started for, or fails.          *)
LoadAndValidatePaymentTerms == {load, NULL}

LoadEnds ==
  /\ load # NULL
  /\ load' = NULL
  /\ \E quote \in LoadAndValidatePaymentTerms :
       \/ /\ quote # NULL
          /\ page' = [page EXCEPT !.quote = quote, !.awaiting = FALSE, !.pending = NULL]
          /\ reviewed' = FALSE
       \/ /\ quote = NULL
          /\ page' = [page EXCEPT !.error = TRUE, !.pending = NULL]
          /\ UNCHANGED reviewed
  /\ UNCHANGED <<clients, receipt, bootstrap, call, payments, outside, since>>

ReviewPayment ==
  /\ CanStart("confirm-payment")
  /\ page' = [page EXCEPT !.awaiting = TRUE, !.error = FALSE]
  /\ reviewed' = TRUE
  /\ UNCHANGED <<clients, receipt, bootstrap, work, outside, since>>

-----------------------------------------------------------------------------
(* The payment.  A stage is written into whatever state the page has then. *)

BoundTo == IF clients = NULL THEN page.account ELSE clients

SignAndSubmit(s) ==
  /\ CanStart("sign-and-submit")
  /\ payments[s] = NULL
  /\ page' = [page EXCEPT !.pending = "sign-and-submit", !.started = TRUE, !.error = FALSE,
                          !.stage = "awaiting-wallet-signature"]
  /\ clients' = BoundTo
  /\ payments' = [payments EXCEPT ![s] = [stage |-> "awaiting-wallet-signature",
                                          payer |-> BoundTo, quote |-> page.quote]]
  /\ since' = since + 1
  /\ UNCHANGED <<receipt, bootstrap, call, load, outside, reviewed>>

StageBegins(s, stage) ==
  /\ page' = [page EXCEPT !.stage = stage]
  /\ payments' = [payments EXCEPT ![s].stage = stage]
  /\ UNCHANGED <<clients, receipt>>

Over(s) == payments' = [payments EXCEPT ![s] = NULL] /\ clients' = NULL

EndedInStage == [page EXCEPT !.pending = NULL, !.completed = TRUE]
EndedUncompleted == [page EXCEPT !.pending = NULL, !.stage = NULL]

Ended == [page EXCEPT !.pending = NULL, !.completed = TRUE, !.stage = NULL]

Fails(s, rejected) ==
  /\ page' = [Ended EXCEPT !.error = TRUE, !.rejected = @ \/ rejected]
  /\ UNCHANGED receipt
  /\ Over(s)

Unconfirmed(s) ==
  /\ page' = [Ended EXCEPT !.error = TRUE, !.terminal = "potentially-submitted"]
  /\ UNCHANGED receipt
  /\ Over(s)

RenderSuccess(s) ==
  IF page.quote = NULL THEN receipt
  ELSE [shown |-> page.quote, paid |-> payments[s].quote]

Succeeds(s) ==
  /\ page' = [Ended EXCEPT !.terminal = "success", !.awaiting = FALSE, !.error = FALSE]
  /\ receipt' = RenderSuccess(s)
  /\ Over(s)

SigningEnds(s) ==
  /\ payments[s].stage = "awaiting-wallet-signature"
  /\ \/ StageBegins(s, "submitting-payment")
     \/ \E rejected \in BOOLEAN : Fails(s, rejected)

SubmissionEnds(s) ==
  /\ payments[s].stage = "submitting-payment"
  /\ StageBegins(s, "waiting-for-settlement") \/ Unconfirmed(s)

SettlementEnds(s) ==
  /\ payments[s].stage = "waiting-for-settlement"
  /\ Succeeds(s) \/ Unconfirmed(s) \/ Fails(s, FALSE)

PaymentGoesOn(s) ==
  /\ payments[s] # NULL
  /\ SigningEnds(s) \/ SubmissionEnds(s) \/ SettlementEnds(s)
  /\ UNCHANGED <<bootstrap, call, load, outside, history>>

ResetState(p) ==
  [Invalidated(p) EXCEPT !.pending = NULL, !.completed = FALSE, !.terminal = NULL]

Reset ==
  /\ Idle
  /\ page' = ResetState(page)
  /\ clients' = NULL
  /\ receipt' = NULL
  /\ since' = 0
  /\ reviewed' = FALSE
  /\ UNCHANGED <<bootstrap, work, outside>>

-----------------------------------------------------------------------------
(* The wallet.                                                             *)

Event(m) == Len(inbox) < MaxEvents /\ inbox' = Append(inbox, m)

WalletChanges ==
  /\ \/ \E a \in Accounts \cup {NULL} :
          /\ a # wallet.account
          /\ wallet' = [wallet EXCEPT !.account = a]
          /\ Event([type |-> "accountsChanged", account |-> a])
     \/ \E c \in Chains :
          /\ c # wallet.chain
          /\ wallet' = [wallet EXCEPT !.chain = c]
          /\ Event([type |-> "chainChanged", chain |-> c])
  /\ UNCHANGED <<page, clients, receipt, bootstrap, work, history>>

Answers ==
  {[type |-> "answer", account |-> wallet.account, chain |-> wallet.chain]}
    \cup [type : {"refusal"}, rejected : BOOLEAN]

WalletAnswers ==
  /\ call # NULL /\ ~ call.answered
  /\ call' = [call EXCEPT !.answered = TRUE]
  /\ \E m \in Answers : inbox' = Append(inbox, m)
  /\ UNCHANGED <<page, clients, receipt, bootstrap, load, payments, wallet, history>>

-----------------------------------------------------------------------------
NewPage ==
  [ account |-> NULL, chain |-> NULL, config |-> NULL,
    quote |-> NULL, pending |-> NULL, rejected |-> FALSE, error |-> FALSE,
    started |-> FALSE, completed |-> FALSE, awaiting |-> FALSE, stage |-> NULL,
    terminal |-> NULL ]

PageInit ==
  /\ page = NewPage
  /\ clients = NULL /\ receipt = NULL /\ bootstrap = TRUE
  /\ call = NULL /\ load = NULL /\ payments = [s \in Slots |-> NULL]
  /\ wallet \in [account : Accounts \cup {NULL}, chain : Chains]
  /\ inbox = <<>>
  /\ since = 0 /\ reviewed = FALSE

PageNext ==
  \/ Bootstrap \/ Receive \/ LoadTerms \/ LoadEnds \/ ReviewPayment \/ Reset
  \/ \E action \in WalletActions : StartCall(action)
  \/ \E s \in Slots : SignAndSubmit(s) \/ PaymentGoesOn(s)
  \/ WalletChanges \/ WalletAnswers

PageSpec == PageInit /\ [][PageNext]_vars

(* The provider answers, the seller's answers or their failures arrive,    *)
(* the user decides on what the wallet shows, and the page handles its     *)
(* messages.                                                               *)
PageFairSpec ==
  /\ PageSpec
  /\ WF_vars(Receive) /\ WF_vars(LoadEnds) /\ WF_vars(WalletAnswers)
  /\ \A s \in Slots : WF_vars(PaymentGoesOn(s))

-----------------------------------------------------------------------------
(* Properties.                                                             *)

(* pendingAction and executionStage, which every button looks at, say what *)
(* is going on although events replace the state in the middle of it:      *)
(* whatever runs is the pending action, and nothing else runs.             *)
PendingIsTrue ==
  /\ (call # NULL) <=> (page.pending \in WalletActions)
  /\ call # NULL => call.action = page.pending
  /\ (load # NULL) <=> (page.pending = "load-terms")
  /\ (\E s \in Slots : payments[s] # NULL) <=> (page.pending = "sign-and-submit")
  /\ \A s, t \in Slots : payments[s] # NULL /\ payments[t] # NULL => s = t
  /\ page.stage # NULL => page.pending = "sign-and-submit"

(* Between two Resets one signature at most is requested, whatever account *)
(* and chain events arrive before, during and after the payment.           *)
OnePaymentPerReset == since <= 1

(* The account that signs and pays is the one the terms were loaded for,   *)
(* and they were loaded on Base Sepolia, also when the account or the chain*)
(* changed while they were being loaded.                                   *)
PayerOwnsQuote ==
  \A s \in Slots : payments[s] # NULL =>
    payments[s].quote = [account |-> payments[s].payer, chain |-> Expected]

(* The receipt that is built from the quote on the page when the payment   *)
(* ends names the quote that was paid.                                     *)
ReceiptOfPayment == receipt # NULL => receipt.shown = receipt.paid

(* Who pays, what is paid and what the receipt says are of one set of      *)
(* terms, whatever happens to the page between loading them and the end of *)
(* the payment.                                                            *)
PaymentMatchesTerms == PayerOwnsQuote /\ ReceiptOfPayment

(* A signature is requested only for terms that the user has reviewed since*)
(* they were loaded; the review of earlier terms does not count.           *)
ReviewedBeforeSigning ==
  [][\A s \in Slots : SignAndSubmit(s) => reviewed]_vars

(* Once the page has handled what the provider sent, an account or a chain *)
(* it shows is the wallet's, although it reads them by several requests    *)
(* that events may come between.                                           *)
PageFollowsWallet ==
  inbox = <<>> =>
    /\ page.account \in {wallet.account, NULL}
    /\ page.chain \in {wallet.chain, NULL}

(* No interleaving leaves the page busy: each action ends and Reset is     *)
(* possible again.                                                         *)
PageComesBack == ~ Idle ~> Idle

=============================================================================
