# x402 worker template: verification project

TLA+ models of the payment side of this repository, TLC runs over small
instances, and TLAPS proofs for every value of the constants. Paths below are
relative to the repository root.

## 1. The system

The template sells an HTTP resource for an x402 payment. There is a Base Sepolia
(testnet) Worker with a browser pay page and a buyer command line, and a mainnet
side whose core is *idempotency*: a paid request must move money at most once,
and whoever lost the answer must be able to get it again without paying again.

| Component | State it keeps | Operations | What is hard |
| --- | --- | --- | --- |
| Payment coordinator (`src/mainnet/durable`) | a SQLite table with a row per attempt, one clean-up alarm | 12 RPC methods that read and change rows, two look-ups, `alarm`, constructor | any caller may call anything late, twice or out of order; rows expire in any state; the alarm must never miss a row |
| Mainnet orchestrator (`src/mainnet/idempotency`) | per request: its lease, response body and receipt | `handleMainnetExamplePaidRequest`: prepare, verify, build and stage the response, settle, complete | concurrent duplicates, coordinator calls that throw but are carried out, a facilitator whose failure hides whether money moved, requests that die between two awaits |
| Status route (`src/mainnet/routes/pay-status.ts`) | none | look-up by identifier | it is what a buyer who lost an answer sees |
| Mainnet browser client (`src/mainnet/browser`) | controller state, pending session in `sessionStorage` | load terms, submit, poll, reset, recover on load | answers that arrive after a reset, reloads during a submission |
| Proof facilitator adapter (`src/mainnet/proof-facilitator-*.ts`) | per call: its timer and the body read so far | verify, settle, supported over HTTP | timeouts, redirects, oversized or malformed bodies |
| Mock harness (`src/index.mainnet-mock-harness.ts`, `src/mainnet/harness`) | simulation mode | test control | none, it is test equipment |
| Mainnet policy and disabled entry (`payment-policy.mainnet.ts`, `index.mainnet.ts`) | none | the terms that are quoted, signed and accepted | three parties must agree on them, across deployments |
| Testnet pay page (`src/browser`) | wallet, terms, single attempt | connect, switch, load, confirm, pay, reset | account and chain events during a load or a signature |
| Testnet Worker (`src/index.ts`, `payment.ts`, `routes`) | a cache of apps, the shared promise that initialises the payment middleware | example, health, pay routes | concurrent first requests, failed initialisation |
| Buyer command line (`src/buyer-*.ts`, `src/cli`) | none across runs; a run's report | preflight, guarded single payment | the order of its guards, a seller that changes between two requests, what a report may deny |
| Scripts, docs, tests | none | release gates | none |

How they interact: a paid request reaches the orchestrator, which calls the
coordinator (a Durable Object, by HTTP) before and after each call of the
facilitator; the facilitator settles an EIP-3009 authorization on chain. The
browser client signs once, sends one paid request and, if the answer is lost,
asks the status route, which reads the coordinator. Both sellers quote terms that
their page validates and signs; on testnet the page and the command line pay the
testnet Worker, whose payment middleware (`@x402/hono`) settles.

`PROJECT.json` lists every component with its sources, and every hazard of the
code at its line with the properties that watch it.

## 2. The modules

    PaymentLedger            what the coordinator promises, abstractly
          ^ implemented by
    PaymentCoordinator       the Durable Object under the most general client
          ^ extended by          ^ proved in PaymentCoordinatorProofs
    PayOnce                  what the paid route promises its buyers
          ^ implemented by
    MainnetOrchestrator      concurrent paid requests, over PaymentCoordinator
          ^ proved in MainnetOrchestratorProofs
    MainnetPaidRoute         from the quote to the reservation, over the coordinator
          ^ proved in MainnetPaidRouteProofs; its checks are PaidRequestChecks

    FacilitatorPort          what the orchestrator relies on
          ^ implemented by
    ProofFacilitator         the adapter's HTTP calls, proved in ProofFacilitatorProofs

    MainnetPayClient         the mainnet page, proved in MainnetPayClientProofs

    PayPage                  the testnet page, proved in PayPageProofs
          ^ extended by
    PayPageDisplay           what it shows

    TestnetWorker            first requests, proved in TestnetWorkerProofs

    BuyerPolicy              environment, guards, terms
          ^ extended by
    BuyerRun                 the paid run
          ^ extended by
    Buyer                    preflight and run together, proved in BuyerProofs

### PaymentLedger

An attempt (identifier and terms) is bound to an authorization that no other
attempt has, at most one decision to settle follows and fixes the answer, and the
attempt ends settled with that answer or failed; once a settlement is lost sight
of the attempt can no longer fail. There are no leases, tokens, generations or
clocks in it.

### PaymentCoordinator

`rows` is the table, keyed by record key (`buildRecordKey`, taken as injective:
it is a SHA-256 of identifier and terms); `alarm` is the object's alarm; `issued`
are the operation tokens generated so far, from which fresh ones are drawn.

* **One method, one action.** The object is single threaded; each method reads and
  writes the table without awaiting in between (the digest in `prepareAttempt` and
  `setAlarm` come before the first read and after the last write), so a method is
  one step. A call that the code answers with stale or conflict changes nothing
  and is a stuttering step; its reply is an operator (`PrepareReply`, `Replay`,
  `StatusOf`, the `Can...` predicates) that the orchestrator branches on.
* **Columns.** The identity columns that only `isSameAttemptIdentity` compares are
  one value, `details`. The two columns that no method reads back
  (`lease_expires_at`, `failure_category`), and the timestamps and transaction
  hash that are only displayed, are left out. Operation kind, generation and
  token, state, body, receipt and expiry are kept as they are.
* **Time is relative.** A row holds the time it has left (`ttl`) and the alarm the
  time until it is due; `Tick` takes one from both and leaves 0 at 0 (overdue stays
  overdue). This keeps the state space finite without bounding the run.
* **Payloads are sets.** `StageableBodies` are the bodies `stageResponse` accepts
  (content type, size, JSON), `ValidReceipts` the receipts
  `validateSettlementReceiptForStorage` accepts; the others are offered too.
* **The client** of this module calls any method with any argument at any time.

### MainnetOrchestrator

A request is a process whose `pc` names the next await of
`handleMainnetExamplePaidRequest`; a step runs from one await to the next and
includes every assignment in between. Requests start with an arbitrary input, so
that duplicates, requests that conflict in identifier, terms or authorization,
and unrelated ones are all initial states.

* **Coordinator calls may throw.** `Throws` answers the caller with an exception
  and puts the call in flight; `Late` lets the coordinator carry it out at any
  later point, or never. This covers a lost request, a lost reply (the call took
  effect at once) and a delayed one. Calls made again are new calls.
* **Requests may die** between any two awaits, or in the middle of a facilitator call
  that is carried out none the less (`Crash`, `DiesCalling`).
* **The facilitator and the chain are external.** Verification is valid, invalid or
  throws; settlement succeeds (money moved, with a valid or a malformed receipt),
  is refused (no money moved), or throws, in which case money may have moved or may
  still move: the request is then in `pending`, and `SettlesLate` moves the money at
  any later time, or never. An authorization is spent once (`spent`, EIP-3009 nonces), and is never reported
  valid or settled again after that. `calls` and `charged` are history variables
  that count facilitator calls and record movements per attempt.
* **Time.** A tick stands for a good part of the 24 h record TTL. With `OutliveTtl`
  FALSE no request, no call in flight and no authorization lasts that long: an
  assumption, justified by the platform's limits on an invocation and by the
  `maxTimeoutSeconds` the page signs for (the server itself does not bound
  `validBefore`), and without it
  `FacilitatorCalledOnce` is false, because the row that fences a request can be
  deleted and reserved anew under it (the coordinator deletes rows in any state,
  and `acquireVerifyLease`, `stageResponse` and `acquireSettleLease` are keyed by
  record key only). The run `orchestrator_outlives_row` drops the assumption and
  shows what still holds: a request may then settle its own authorization on a row
  reserved for another, and a duplicate of that other is shown the answer. Money has
  moved for the identifier and terms (`PaidAnswerMeansSpent`), if not by the
  authorization that the reader holds.

### PayOnce

What the paid route promises, without rows, leases, calls and failures. A request
orders an item (identifier and terms) and carries an authorization. A deal about an
item is made with one authorization; no other deal has that identifier or that
authorization. Its answer is decided before money can move, the money moves once or
is given up for good, and a deal is forgotten in the end. A request is told one
thing: it is *served* that answer and that receipt, for money that has moved, and then
its own authorization is spent; it is *refused* if it is its own authorization that has not paid for
the deal and never will; or it is *put off*, which may happen at any time and promises nothing.

`MainnetOrchestrator` maps its state to this one: a deal is a row, its money has moved
if the row's key is in `charged`, and is given up in `failed-definitive`; its answer is
the staged body from the settle lease on; its receipt is the row's or, until the row
has it, the one that the holder of the settle lease was given (`ReceiptOf`). 200 is
served, 402 refused, every other answer puts off.

Two things the promise leaves out, because the code does not keep them: a deal that is
forgotten may be made again (its authorization cannot pay again, but another could),
and a request that finds the row of another authorization expired and renewed between
its two coordinator calls is served that deal's answer (6). `Serve` asks only that the
reader's own authorization is spent, which is then the case.

### MainnetPayClient

One browser tab. `ui` is the controller's state (without what is only shown),
`active` its `activePaymentIdentifier`, `session` the pending session in
`sessionStorage`, the one thing that outlives a reload.

* **Asynchronous work is state of its own**: requests for terms (`loads`), clicks
  that wait for `configureMockControl` (`clicks`), the submission of each
  identifier (`subs`: signing, then sent) and polling loops (`polls`). What
  JavaScript runs between two awaits is one action. A result may therefore come
  after Reset has replaced the state it was asked for, as in the code, where
  nothing compares the two.
* **A look-up has three steps**: asked, answered (the server reads its row), handled.
  The loop looks at its abort signal only before it asks; Reset ends a wait but not
  a look-up in flight. The loop that is not aborted is the one `pollAbort` controls.
* **The user** presses buttons the page has enabled, and reloads. With
  `ResetWhileBusy` FALSE Reset is pressed only when no result is outstanding: an
  assumption on the user, not on the code, under which `RefreshRecovers`,
  `ResultBelongs` and `NoPaymentOverUnknown` are checked; 6 shows that the first
  fails without it.
* **The server is external**: a request may arrive late or never, ends fulfilled,
  failed or uncertain (in which case the payment may have been taken), and its row
  may expire. Every look-up may fail. The 410 answer `expired` and a fulfilled
  answer without a usable result are in the route's type and the page handles
  them, so they may be given, although the coordinator of today gives neither.
* `standing` and `recent` are history: whether the user knows the outcome of an
  identifier or has given it up, and what was submitted since the last Reset or
  reload. A result the page shows as final (also `failed-definitive` after unusable
  settlement metadata) counts as known.

### PaidRequestChecks and MainnetPaidRoute

What comes before the coordinator. `PaidRequestChecks` has the terms a deployment
quotes, the conjunction of checks `Admitted` in the order of
`handleMainnetExamplePaidRequest`, and what the keys of an admitted payment are
made of. An address is an account and the spelling it is written in, because some
comparisons normalise (`NormalizeAddress`) and the hashes do not: they commit to
the text. What a hash is made of stands for the hash.

`MainnetPaidRoute` puts them in motion: a page is loaded and loads terms, pays them,
the request is delivered any number of times, with any query and with any one part
of it different (`Deliveries`), while the Worker is deployed anew. An admitted
request reserves an attempt in the coordinator of `PaymentCoordinator`; from there
`AttemptProceeds` lets any coordinator method happen, except that a response is
staged by a request that created an attempt, for its own query. It is therefore a
client of the coordinator, and more general than `MainnetOrchestrator` from the
reservation on, which in turn takes requests that have passed the checks.

### FacilitatorPort and ProofFacilitator

`MainnetOrchestrator` takes the facilitator as external: a call asks once, ends with
what the facilitator decided or with an exception, and an exception says nothing of
what was or will be done. `FacilitatorPort` is that assumption as a specification,
and `ProofFacilitator` shows that the adapter keeps it. A call sends one request
with a timer armed, waits for headers, and reads a body in chunks. Status, redirect,
content type, declared length, chunk sizes and the shape of the JSON are all free;
a 2xx answer that fits the schema is the facilitator's own (`SaysWhatItDid`), every
other answer may come from something in between. Time is in parts of the timeout,
and a due timer fires before time goes on (JavaScript timers are late by less than
a part).

### PayPage and PayPageDisplay

The testnet page in one tab. `page` is the controller's state; `call`, `load` and
`payments` are its asynchronous work, each step running from one await to the next.
`inbox` is what the wallet provider has sent and the page has not handled, in the
order sent: answers and events of one provider share one connection, an assumption
on the provider without which an old answer could overtake a newer event. Account
and chain events come at any time, also without an action of the page. The
configuration is fetched once. `PayPageDisplay` computes the state the page shows
from the same dozen fields as `computePayWalletState`, and what stays in sight.

### TestnetWorker

The cache of apps by environment and the promise `localInitPromise` by which
concurrent first requests share an initialisation. What JavaScript runs between two
awaits is one action; the rejection handler that gives the promise up runs before
any other request, the requests that await it resume later one by one, and new
requests may come in between. `MaxInits` bounds the initialisations; the last
possible one succeeds, so that a request is never turned away by the bound. In
production `initialize` reads a static list and cannot fail; failures are those of
an injected facilitator.

### BuyerPolicy, BuyerRun and Buyer

`BuyerPolicy` has the environment (three layers with their precedence), the guards
and the policy for terms, over URLs as records of what the guards read. `BuyerRun`
is the payment run stage by stage with the report it leaves, `Buyer` adds the
preflight. Each command is invoked once, in any order or at the same time. The
seller and the balance may change once each, between any two requests, and every
request may fail. An honest seller settles what it offered if the balance covers it.

### MC modules

They declare the model values, the sets that are too long for a `.cfg`, and the
symmetry sets. No definition distinguishes two identifiers, terms, authorizations,
details, tokens, stageable bodies, requests or slots, so these may be permuted;
symmetry is used in runs without liveness properties only.

## 3. The runs

| Run | Shows | Bounds |
| --- | --- | --- |
| `coordinator` | `LeaseShape`, `BindingsExclusive`, `ReplayAlwaysAvailable`, `AlarmCoversRows`, `PhaseOnlyAdvances`, `ContentFrozen`, `AttemptsForgotten`, and that the coordinator implements `PaymentLedger` | 2 identifiers, terms and authorizations, 1 set of details, 2 stageable bodies and one that is not, 3 tokens, a TTL of 2 ticks, clean-up calls that look ahead |
| `orchestrator` | `FacilitatorCalledOnce`, `RowTellsTheTruth`, `AnswersHonest`, `InProgressIsProcessed` (while nothing has failed), and that the route implements `PayOnce` | 2 requests over 2 identifiers, terms and authorizations, 2 calls that throw, 1 request that dies, retry limit 3 as in the code |
| `orchestrator_outlives_row` | `PaidAnswerMeansSpent`, `AllAnswered`, `AttemptsResolve` (if nothing ever fails) | 2 requests for one identifier, with the same or two authorizations; rows expire under them |
| `paid_route` | `RowsPayTheirTerms`, `QuotedIsAdmitted`, `ReplayAnswersTheQuery` | 4 deployments (2 spellings of a seller, another seller, a facilitator without the route's kind), 2 identifiers and queries, 1 payment and attempt |
| `facilitator` | `CallsEnd`, and that the adapter implements `FacilitatorPort` | 2 calls, a timeout of 2 ticks, a limit of 1 block, chunks of 1 or 2 |
| `pay_client` | `RefreshRecovers`, `ResultBelongs`, `NoPaymentOverUnknown` under a patient user | 2 identifiers and loops, 2 look-ups per loop, 1 load, 2 waiting clicks, 2 reloads |
| `pay_client_races` | `OneSubmissionPerReset` and `NeverStuck` with Reset at any time | 2 identifiers and loops, 2 look-ups per loop, 2 waiting clicks, 2 loads, asked for while at most one other thing (a load, a click, a submission or a loop) is under way; no reloads (a user who reloads for ever keeps the page polling for ever) |
| `pay_page` | `PendingIsTrue`, `OnePaymentPerReset`, `PaymentMatchesTerms`, `ReviewedBeforeSigning`, `PageFollowsWallet`, `PaymentShown`, `OutcomeShownUntilReset`, `PageComesBack` | 2 accounts, 2 chains, 2 payments at a time, 3 events under way |
| `testnet_worker` | `InitialisedOnce`, `FailureNotInherited`, `WaitersAnswered` | 3 requests, an app that can be created and one that cannot, 3 initialisations |
| `buyer` | `OperatorObeyed` (`PaymentAsConfigured` and `RefusalStands`), `NothingSentIsTrue`, `PassIsReliable` (`PassMeansChecked` and `PreflightPredicts`) | environments with one setting or one part of a URL off, sellers with one term off, balances 999 and 1000, decimals 5 and 6 |
| `refresh_recovery` | a disagreement with the document of the browser recovery, see 6 | 2 identifiers and loops |
| `compute_stage_outage` | a disagreement with the document of the orchestrator, see 6 | 2 requests, 1 call that throws |

The type invariants of the modules (`TypeOK`, `OrchestratorTypeOK`, `RouteTypeOK`, `ClientTypeOK`, `PageTypeOK`,
`WorkerTypeOK`, `AdapterTypeOK`, the one of `BuyerRun`) and some auxiliary ones (`SentAtMostOnce`,
`ServedInitialised`, `WaitBounded`) are not repeated in the runs where section 4
proves them for every instance.

Why the bounds are enough: an attempt receives two leases in its life, so three
tokens let one attempt live its whole life beside another that begins, or one
attempt live, be deleted and begin again. Conflicts in the table are between two rows. A TTL of two ticks
lets one row be about to expire while another is fresh. Among requests the
interesting relations are pairwise (a duplicate, a conflict), and the theorems of
section 4 hold for any number of them. Two identifiers and loops are an attempt
and a stale one beside it, which is what the page can confuse; two look-ups are a
first and a last one. A patient user has one load in flight at most. With Reset at any
time a second one matters, because only a load that began before a submission can end
during or after it and make the page show `ready` again; the mutant of
`OneSubmissionPerReset`, which trusts that state, is caught only then. `MaxUnderWay`
does not exclude this: both loads begin before the two clicks. Two lost calls let a report be lost after the
call it reports on. On the testnet page two accounts and two chains are the
right one and another, and a second payment slot is what `OnePaymentPerReset`
would need to fail. Three requests to the testnet Worker are one that begins an
initialisation, one that waits with it and one that comes after it has failed. A
guard of the buyer that read less than it should would accept a value that differs
in a single part from an accepted one, so one part at a time is enough; 999 and
1000 lie on both sides of the price, and 5 and 6 decimals on both sides of the
scaling. Two calls of the adapter are independent, so its second call only checks
that the port's calls are not mixed up. Deadlock is checked for the pages and in no
other run: the coordinator with all tokens issued and an empty table, calls,
commands and requests that have all been answered, really stop.

Each property has a mutant in `PROJECT.json`, a plausible slip in the code
(a lease granted without raising the generation, an alarm set to the latest
expiry, a completion accepted twice, a settlement retried after a throw) that the
run catches. The mutants stand next to the definition they change.

**Fairness.** `FairSpec` asks that the clock advances and that a due alarm is
delivered; the platform retries alarm handlers that fail.
`OrchestratorFairSpec` asks that a request that has not died runs on: its
facilitator calls are bounded by a timeout and a coordinator call returns or
throws. `ClientFairSpec` asks that fetches settle, timers fire and the signer
answers, and nothing of the user or the server. Nothing is assumed of `Late`: a lost
call may never arrive. The adapter's `FairSpec` asks that time passes, that a due
timer fires and that a body which has begun is delivered or breaks, and nothing of
the headers. `PageFairSpec` asks that the provider and the seller answer or fail,
and that the page handles its messages; events may go on for ever.
The testnet Worker's asks that `initialize` settles and that admitted requests run
on. The buyer has no fairness and no liveness property: none of its fetches has a
timeout, so a seller that never answers keeps a command waiting for ever.

## 4. The proofs

`PaymentCoordinatorProofs` proves for all identifiers, terms, authorizations,
tokens, bodies, receipts and TTLs, under `CoordinatorAssumption` and
`NoRowIsNoEntry` (which say that the model values standing for absent things are
none of the things, and that the TTL is positive):

* `Invariance`: `CoordinatorInv == TypeOK /\ LeaseShape /\ BindingsExclusive /\
  AlarmCoversRows` is inductive; `TypeCorrect`, `LeasesFit`,
  `OneAttemptPerPayment`, `AlarmInTime` follow. `FulfilledReplays` follows from
  `LeaseShape` (body and receipt are there) and `BindingsExclusive` (the look-up
  by identifier finds that row).
* `PhasesAdvance` and `ContentStays`: the two action properties.
* `Refinement`: `Spec => ImplementsLedger`.

The argument: `MethodMoves` says of each of the ten methods that change an existing
row that it writes one row, which stays well formed, ranks higher, keeps its
identity, body and expiry, and whose outcome takes one of six steps.
`HousekeepingAges` says that everything else but `prepareAttempt` only removes rows
or shortens their time. Every theorem is then three cases. `LeaseShape` is the
strengthening: without it a completion from `uncertain` could belong to either
operation, and neither the order of phases nor the refinement would be inductive.

`MainnetPayClientProofs` proves of the page, under `ClientAssumption`, for any number
of identifiers, loops, loads, clicks, reloads and with Reset at any time,
`ClientTypeCorrect`, `NeverSentTwice` and `SubmitsOnce`. The invariant behind them:
an identifier kept in `active` belongs to a started attempt (`ActiveIsStarted`), so
that `submitPayment`, which takes no started attempt, always finds none there and
draws a new one; what is new or being signed was never sent (`SentAfterSigning`);
what was submitted since Reset is the attempt in progress (`RecentIsStarted`).
No result that comes late, whatever else it overwrites, clears `attemptStarted`:
this is why the races of 6 do not make the page pay twice for one attempt.

Under `~ ResetWhileBusy` three more: `ReloadsRecover`, `ResultsBelong` and
`NoneOverUnknown`. Their invariant, `PatientInv`: whatever is outstanding or saved
belongs to the attempt the page shows (`OfTheAttempt`), an attempt whose outcome is
unknown has its session, and a fresh one (`OpenIsSaved`), and a fulfilled answer that a
loop has still to handle is true (`ToldIsTrue`). Only Reset needs the hypothesis: it
forgets the attempt, so that a result which came after it would belong to nothing.

`MainnetPaidRouteProofs` proves of the paid route, for any sellers, queries and
deployments, `RouteTypeCorrect`, `PaymentsPassTheirQuote`, `AttemptsPayTheirTerms`
and `ReplaysAnswerTheirQuery`. `RouteUsesCoordinator` shows that `RouteSpec` implies
the coordinator's `Spec`, so that its theorems can be used: rows keep their identity
(`RowsAdvance`), only `prepareAttempt` makes rows (`PreparedWasArrived`) and only
`stageResponse` fills in a body (`LeaseMethodsKeepBody`). The invariant says what is
carried along: the terms on the page are a quote, a request on its way pays its
terms and stands under its own query, and a staged body belongs to the query of the
row's terms. It needs no assumption on who calls the coordinator's other methods.

`ProofFacilitatorProofs` proves `AdapterTypeOK`, `WaitBounded` and the refinement of
`FacilitatorPort`. The invariant ties the state of a call to its history: a call that
waits has its timer armed and was sent once, one that returned tells what was
decided. Every step is shown to be one of four steps of the port or a stutter.

`PayPageProofs` proves `PageTypeOK`, `PendingIsTrue`, `OnePaymentPerReset`,
`PaymentMatchesTerms`, `PageFollowsWallet` and `ReviewedBeforeSigning` for any number of accounts, slots and events
under way. `PendingIsTrue` says that the pending action is what runs; from it
follows that one payment runs at a time, that the terms on the page cannot be
replaced while it does, except by invalidation, and that `attemptStarted`, which
only Reset and an invalidated quote clear, stands between two signatures.
`PageFollowsWallet` needs an invariant over the messages on their way: the last one
that tells an account tells the wallet's account of now, be it an event or the answer
to a request (`AccountsTold`), and without an event on its way the page has that
account or none (`AccountKnown`); the same for the chain. `ReviewedBeforeSigning`
rests on `AwaitsReviewed`: everything that makes an earlier review void also clears
`awaitingConfirmation`.
`PaymentShown` and `OutcomeShownUntilReset` are about the first of sixteen rules that
applies (`FirstFound`, `RuleCondition`): the fields that a running payment or an outcome
fixes decide all rules up to one of the right name. That needs `DisplayInv`: the
configuration is there before the first payment, and nothing is pending beside an
outcome. `DisplayAssumption` says that `NULL` is none of four names the page uses.

`TestnetWorkerProofs` proves `InitialisedOnce`, `ServedInitialised` and
`FailureNotInherited` for any number of requests and apps. The invariant says what
the shared promise may be: nothing, or the last initialisation started, and then not
one that failed; and that a request awaits an initialisation that was started.

`BuyerProofs` proves `OperatorObeyed`, `NothingSentIsTrue` and `PassIsReliable` for any
environments, sellers, balances and decimals (`RunAssumption`: natural numbers).
The invariant says what each stage of the run has already established: past the
guards the environment passes them, and something was sent only past the signature.
`PassInv`, for the preflight: a report without a failure has every check that it came
past (`Complete`), what passed is so while the seller and the balance stay
(`PassedIsSo`, with the rescaled price: at six decimals a balance that passes covers
the price), and a run that nothing disturbs gets as far as the seller's decision, which
the balance then decides (`RunFollows`). The two commands may run in any order or at
the same time.

`MainnetOrchestratorProofs` proves of any number of requests, payloads, calls that
throw and deaths, under `OrchestratorAssumption`:

* `OrchestratorTypeCorrect`, and `OrchestratorUsesCoordinator`: `OrchestratorSpec`
  implies the coordinator's `Spec`, so that the theorems about the coordinator hold
  in the composition, lost and late calls included.
* `OneCallPerRow`, `RowsTrue` and `EveryAnswerHonest`, which state
  `FacilitatorCalledOnce`, `RowTellsTheTruth` and `AnswersHonest`, with the assumption
  `~ OutliveTtl` as a hypothesis of each.
* `PaidAnswersPaid`, which states `PaidAnswerMeansSpent`, without that hypothesis.
* `WaitersAreToldTrue`, which states `InProgressIsProcessed`, with `~ OutliveTtl`.
* `OrchestratorPaysOnce`: `OrchestratorSpec => ImplementsPayOnce`, with `~ OutliveTtl`.

The invariant of the first three says that a row is worked on by one request at a
time. A request is engaged with its row from the reservation until it is done and none
of its calls can arrive any more (`Engaged`); no two are engaged with one row
(`Alone`); an engaged request may rely on what it knows of the row, on the calls made
for it and on whether money moved (`Fits`); and the row agrees with those calls and
that money (`Accounted`). `Alone` is inductive because the row exists and has time left
while somebody is engaged with it: a second request finds it and never starts. That is
what `~ OutliveTtl` is for. The invariant of `PaidAnswersPaid` is weaker: a paid
answer, a receipt and a fulfilled row each come from another of the three or from
money that moves in that step.

`WaitersAreToldTrue` adds `CalmInv` to the first invariant. Whatever fails, an engaged
request finds its row in the state, and under the lease, that it expects (`Tended`), so
that none of its compare-and-sets is refused. As long as no call has thrown and no request
has died, no call is in flight behind its request's back either, and every row in progress
has a request at work on it (`NobodyLost`).

`OrchestratorPaysOnce` adds `DealInv`. Tokens are drawn fresh, so that no two requests
hold the same one (`TokensApart`) and the holder of a settle lease, who has the receipt
before the row does, is one request. An engaged request works on a row that its own
authorization pays for, and the authorization of a row whose money has moved is spent;
so is that of a request which is about to read a replay. With these the mapped state is
always made of deals (`DealsKnown`). Each method of the coordinator is then shown to
be a step of one deal or of none, whoever calls it and however late, and each step of a
request to be one step of `PayOnce` or a stutter: a step that is both a call and an
answer (`failSettleDefinitive`, whose success is the answer 402) gives the deal up and
refuses in one. A call that arrives late tells nobody anything; deaths are invisible; the
clean-up forgets.

One definition of the coordinator was set right by these proofs:
`ClassifyExistingPrepareRow` had alternatives that overlap, of which TLC takes the first and
a proof cannot; it now tests the identity first, as the code does.

Left to TLC: liveness (`AttemptsForgotten`, `AllAnswered`, `AttemptsResolve`, `CallsEnd`,
`NeverStuck`, `PageComesBack`, `WaitersAnswered`), which is out of the provers' reach.
Every invariant and every safety property of a step that a passing run checks is a
theorem.

## 5. What is not modelled

* Hash collisions, JSON canonicalisation, schema validation and header encoding:
  represented by the sets of values they accept.
* Storage failures inside a method. On the platform the writes of one handler
  are committed together, so a failed method is one that did not happen; for the
  caller it is a call that throws.
* `sanitizeCancel`: it swallows its errors and changes no modelled state.
* The mock harness (`src/index.mainnet-mock-harness.ts`, `src/mainnet/harness`): test
  equipment that plays the facilitator's part, which the models leave free.
* The disabled mainnet entry point, whose paid route answers 503, and
  `rejectNonMainnetPaymentTerms`, which only tests call.
* Release scripts, build files, the OpenAPI document, HTML, styles and headers: no
  state that outlives a call, or text.
* The wording of reports, errors and receipts, redaction included. What a report may
  claim or deny is modelled (`NothingSentIsTrue`, `PassIsReliable`).
* The protocol version and the transfer method a testnet seller offers: the buyer's
  properties are about sellers of version 2 that settle what they offer.
* The text of the settlement header: a 200 at the end of a settlement carries the
  facilitator's answer as it came, a replay one rebuilt from the row. Both are the
  receipt of the models.
* The adapter's URL building and JSON-safe conversion of what it sends.
* The libraries `@x402/*`, `viem`, Hono and the wallet: external, modelled by what the
  code in `src/` relies on.

## 6. Where code and words disagree

Two disagreements are runs:

* `compute_stage_outage`: `docs/mainnet-mocked-orchestrator.md:62` says that a failure
  to compute or stage the response ends in `failPostVerifyDefinitive`, "or 503 if
  coordinator RPC fails". The call of `failPostVerifyDefinitive` itself is outside
  any try: if it throws, the handler throws (a 500) and the row stays `verified`.
* `refresh_recovery`: `docs/mainnet-mocked-browser-recovery.md:51` says that a refresh
  restores the session "during pending recovery". A look-up for a first payment is
  in flight, Reset is pressed, a second payment is submitted, the answer arrives
  (`fulfilled`): the page shows success and removes the session of the second
  payment, whose answer may still be lost. A reload then finds nothing.

Others were met while modelling; the models have the behaviour, no run states them:

* The 202 answer says "Payment is being processed"
  (`src/mainnet/idempotency/mainnet-payment-orchestrator.ts:125`). If
  `acquireVerifyLease` throws, the request answers 503 and the row stays `reserved`;
  every duplicate is then told that the payment is being processed, until the row
  expires a day later, though nothing processes it. No money is at risk
  (`RowTellsTheTruth`); `InProgressIsProcessed` is therefore stated for the case
  that nothing has failed.
* `docs/mainnet-mocked-browser-recovery.md:142` says "no background polling
  after Reset". Load, Reset, Load, terms, submit; the terms of the first load arrive
  and the page leaves `submitting`, which enables Reset; after it the submission
  ends unconfirmed, saves a session and starts to poll.
* `docs/mainnet-mocked-orchestrator.md:103` says that a malformed payment payload is
  answered 402. A `payload` that is a non-empty string, say, makes the `in` operator
  throw (`src/mainnet/idempotency/eip3009-authorization.ts:67`), which is answered 500.
* `docs/mainnet-proof-facilitator-candidate.md:31` gives the timeout of the adapter. The
  timer is cleared once headers are there, so it does not bound the body
  (`CallsEnd` therefore promises the end of a call only if the body goes on). The
  body is read outside the try that classifies failures, so a body that breaks off
  surfaces as the dependency's own error, which line 52 of that document rules out.
* The testnet page enables its buttons by their own conditions, and not by
  `ALLOWED_STATE_TRANSITIONS` (`src/browser/pay-wallet-state.ts:297`), which only
  `isValidStateTransition` reads.

Observations without a document that says otherwise:

* Orchestrator: a row that has expired stays until the alarm deletes it. If that happens
  between the reply `replay` of `prepareAttempt` and `getReplay`, the same identifier and
  terms may be reserved, paid and fulfilled with another authorization; the reader, who
  has paid as well, is then shown that payment's answer and receipt.
* Paid route: a misconfigured deployment makes `buildServerPaymentRequired` throw, so
  its policy-error branch is not reached. After a deployment for another seller, or
  another spelling of the same one, a duplicate of a fulfilled payment is answered
  402 and not with its replay: the keys commit to the text as it is written.
* Testnet page: a refusal by the user (`userRejected`) is not cleared by loading,
  reviewing or signing, and hides the payment that runs; a payment that succeeds
  after an account event shows no receipt; the quote is marked as consumed in a
  copy only.
* Buyer: `run` reports success for any final status, 402 and 500 included; a body that
  cannot be read on an answer to the unpaid request is reported as if a payment may
  have been sent; the preflight requires exactly one option where the run pays the
  first that matches.

## 7. Plan

1. *(done)* coordinator, ledger, orchestrator; coordinator invariants and refinement
   proved.
2. *(done)* `MainnetPayClient`, its races and disagreements, `MainnetPaidRoute`, the
   adapter behind its port, the testnet page and Worker, the buyer, each with its
   proofs.
3. *(done)* the orchestrator's properties as theorems, and `PayOnce` with its refinement.
4. The mainnet page over the coordinator's own status look-up instead of the external
   server, so that what the page concludes is tied to what the row says.
