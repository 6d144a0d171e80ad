---------------------------- MODULE PayPageProofs ---------------------------
(***************************************************************************)
(* Safety of the testnet pay page and what it displays, for any accounts,  *)
(* any number of payments that could run and of messages the provider has  *)
(* outstanding.                                                            *)
(***************************************************************************)
EXTENDS PayPageDisplay, TLAPS

(* The clients are kept only while a payment runs.                         *)
ClientsInUse == clients # NULL => page.pending = "sign-and-submit"

(* The one signature since Reset belongs to the payment that runs, or the  *)
(* page knows that an attempt has been completed.                          *)
SignatureAccounted ==
  /\ since <= 1
  /\ since = 1 => page.pending = "sign-and-submit" \/ page.completed

(* While a payment runs its quote is on the page or none is.               *)
QuoteKept ==
  \A s \in Slots : payments[s] # NULL => page.quote \in {NULL, payments[s].quote}

PageInv ==
  /\ PageTypeOK /\ PendingIsTrue
  /\ ClientsInUse /\ SignatureAccounted /\ QuoteKept
  /\ PayerOwnsQuote /\ ReceiptOfPayment

-----------------------------------------------------------------------------
(* The rule that names the wallet state is the first that applies.         *)
LEMMA FirstFound ==
  ASSUME NEW rules, NEW k \in Nat, DOMAIN rules = 1 .. k, NEW n \in 1 .. k,
         rules[n][1], \A i \in 1 .. n - 1 : ~ rules[i][1]
  PROVE  FirstOf(rules) = rules[n][2]
<1> DEFINE First(i) == rules[i][1] /\ \A j \in 1 .. i - 1 : ~ rules[j][1]
<1>1. First(n)
  OBVIOUS
<1>2. ASSUME NEW i \in DOMAIN rules, First(i) PROVE i = n
  BY <1>2
<1>3. (CHOOSE i \in DOMAIN rules : First(i)) = n
  BY <1>1, <1>2
<1> QED
  BY <1>3 DEF FirstOf

LEMMA RuleCondition ==
  ASSUME NEW rules, NEW n, NEW condition, NEW name, rules[n] = Rule(condition, name)
  PROVE  rules[n][1] <=> condition
BY DEF Rule

LEMMA RuleName ==
  ASSUME NEW rules, NEW n, NEW condition, NEW name, rules[n] = Rule(condition, name)
  PROVE  rules[n][2] = name
BY DEF Rule

LEMMA SuccessRule ==
  ASSUME NEW rules, rules[1] = Rule(page.terminal = "success", "success")
  PROVE  rules[1][1] <=> page.terminal = "success"
BY RuleCondition, Zenon

LEMMA UnconfirmedRule ==
  ASSUME NEW rules,
         rules[2] = Rule(page.terminal = "potentially-submitted", "potentially-submitted")
  PROVE  rules[2][1] <=> page.terminal = "potentially-submitted"
BY RuleCondition, Zenon

LEMMA OutcomeNames ==
  ASSUME NEW rules,
         rules[1] = Rule(page.terminal = "success", "success"),
         rules[2] = Rule(page.terminal = "potentially-submitted", "potentially-submitted")
  PROVE  rules[1][2] = "success" /\ rules[2][2] = "potentially-submitted"
BY RuleName, SMT

(* The lists of rules, element by element.                                 *)
LEMMA SixRules ==
  ASSUME NEW o1, NEW o2, NEW s1, NEW s2, NEW s3, NEW t, NEW all,
         all = <<o1, o2>> \o <<s1, s2, s3>> \o <<t>>
  PROVE  DOMAIN all = 1 .. 6 /\ all[1] = o1 /\ all[2] = o2
OBVIOUS

LEMMA SixteenRules ==
  ASSUME NEW o1, NEW o2, NEW r, NEW s1, NEW s2, NEW s3,
         NEW t1, NEW t2, NEW t3, NEW t4, NEW t5, NEW t6, NEW t7, NEW t8, NEW t9, NEW t10,
         NEW all,
         all = <<o1, o2>> \o <<r>> \o <<s1, s2, s3>>
                 \o <<t1, t2, t3, t4, t5, t6, t7, t8, t9, t10>>
  PROVE  /\ DOMAIN all = 1 .. 16
         /\ all[1] = o1 /\ all[2] = o2 /\ all[3] = r
         /\ all[4] = s1 /\ all[5] = s2 /\ all[6] = s3
         /\ all[7] = t1 /\ all[8] = t2 /\ all[9] = t3
OBVIOUS

LEMMA Disabled ==
  /\ DOMAIN DisabledRules = 1 .. 6
  /\ DisabledRules[1] = Rule(page.terminal = "success", "success")
  /\ DisabledRules[2] = Rule(page.terminal = "potentially-submitted", "potentially-submitted")
BY SixRules DEF DisabledRules, OutcomeRules, StageRules

LEMMA Enabled ==
  /\ DOMAIN EnabledRules = 1 .. 16
  /\ EnabledRules[1] = Rule(page.terminal = "success", "success")
  /\ EnabledRules[2] = Rule(page.terminal = "potentially-submitted", "potentially-submitted")
  /\ EnabledRules[3] = Rule(page.rejected, "rejected-by-user")
  /\ EnabledRules[4] = StageRule("awaiting-wallet-signature")
  /\ EnabledRules[5] = StageRule("submitting-payment")
  /\ EnabledRules[6] = StageRule("waiting-for-settlement")
  /\ EnabledRules[7] = Rule(page.pending = "connect", "connecting")
  /\ EnabledRules[8] = Rule(page.pending = "load-terms", "loading-terms")
  /\ EnabledRules[9] = Rule(page.pending = "sign-and-submit", "awaiting-wallet-signature")
BY SixteenRules DEF EnabledRules, OutcomeRules, StageRules

LEMMA EnabledConditions ==
  /\ EnabledRules[1][1] <=> page.terminal = "success"
  /\ EnabledRules[2][1] <=> page.terminal = "potentially-submitted"
  /\ EnabledRules[3][1] <=> page.rejected
  /\ EnabledRules[4][1] <=> page.stage = "awaiting-wallet-signature"
  /\ EnabledRules[5][1] <=> page.stage = "submitting-payment"
  /\ EnabledRules[6][1] <=> page.stage = "waiting-for-settlement"
  /\ EnabledRules[7][1] <=> page.pending = "connect"
  /\ EnabledRules[8][1] <=> page.pending = "load-terms"
  /\ EnabledRules[9][1] <=> page.pending = "sign-and-submit"
<1>1. /\ EnabledRules[1][1] <=> page.terminal = "success"
      /\ EnabledRules[2][1] <=> page.terminal = "potentially-submitted"
  BY Enabled, SuccessRule, UnconfirmedRule
<1>2. EnabledRules[3][1] <=> page.rejected
  <2>1. EnabledRules[3] = Rule(page.rejected, "rejected-by-user")
    BY Enabled
  <2> QED
    BY <2>1, RuleCondition, SMT
<1>3. EnabledRules[4][1] <=> page.stage = "awaiting-wallet-signature"
  <2>1. EnabledRules[4] =
          Rule(page.stage = "awaiting-wallet-signature", "awaiting-wallet-signature")
    BY Enabled DEF StageRule
  <2> QED
    BY <2>1, RuleCondition, Zenon
<1>4. EnabledRules[5][1] <=> page.stage = "submitting-payment"
  <2>1. EnabledRules[5] = Rule(page.stage = "submitting-payment", "submitting-payment")
    BY Enabled DEF StageRule
  <2> QED
    BY <2>1, RuleCondition, Zenon
<1>5. EnabledRules[6][1] <=> page.stage = "waiting-for-settlement"
  <2>1. EnabledRules[6] = Rule(page.stage = "waiting-for-settlement", "waiting-for-settlement")
    BY Enabled DEF StageRule
  <2> QED
    BY <2>1, RuleCondition, Zenon
<1>6. EnabledRules[7][1] <=> page.pending = "connect"
  <2>1. EnabledRules[7] = Rule(page.pending = "connect", "connecting")
    BY Enabled
  <2> QED
    BY <2>1, RuleCondition, Zenon
<1>7. EnabledRules[8][1] <=> page.pending = "load-terms"
  <2>1. EnabledRules[8] = Rule(page.pending = "load-terms", "loading-terms")
    BY Enabled
  <2> QED
    BY <2>1, RuleCondition, Zenon
<1>8. EnabledRules[9][1] <=> page.pending = "sign-and-submit"
  <2>1. EnabledRules[9] = Rule(page.pending = "sign-and-submit", "awaiting-wallet-signature")
    BY Enabled
  <2> QED
    BY <2>1, RuleCondition, Zenon
<1> QED
  BY <1>1, <1>2, <1>3, <1>4, <1>5, <1>6, <1>7, <1>8, Zenon

LEMMA EnabledNames ==
  /\ EnabledRules[3][2] = "rejected-by-user"
  /\ EnabledRules[4][2] = "awaiting-wallet-signature"
  /\ EnabledRules[5][2] = "submitting-payment"
  /\ EnabledRules[6][2] = "waiting-for-settlement"
  /\ EnabledRules[9][2] = "awaiting-wallet-signature"
BY Enabled, RuleName, SMT DEF StageRule

LEMMA EnabledFirst ==
  ASSUME NEW n \in 1 .. 16, EnabledRules[n][1], \A i \in 1 .. n - 1 : ~ EnabledRules[i][1]
  PROVE  FirstOf(EnabledRules) = EnabledRules[n][2]
BY Enabled, FirstFound

-----------------------------------------------------------------------------
USE PageAssumption, NullAssumption DEF work, outside, history, Chains, Actions, WalletActions, Stages

-----------------------------------------------------------------------------
(* Each way the state is patched keeps it in range.                        *)
LEMMA PageTyped ==
  ASSUME NEW p \in Page
  PROVE  /\ Invalidated(p) \in Page
         /\ Invalidated(p).pending = p.pending
         /\ Invalidated(p).completed = p.completed
         /\ Invalidated(p).quote = NULL /\ Invalidated(p).stage = NULL
BY DEF Page, Invalidated

LEMMA InitialPage == PageInit => PageInv
<1> SUFFICES ASSUME PageInit PROVE PageInv
  OBVIOUS
<1>1. page \in Page
  BY DEF PageInit, NewPage, Page
<1>2. PageTypeOK
  <2>1. inbox \in Seq(Message)
    BY DEF PageInit
  <2>2. payments \in [Slots -> Payment \cup {NULL}]
    BY DEF PageInit
  <2> QED
    BY <1>1, <2>1, <2>2 DEF PageInit, PageTypeOK
<1>3. page.pending = NULL /\ page.stage = NULL
  BY DEF PageInit, NewPage
<1>4. PendingIsTrue
  BY <1>3 DEF PageInit, PendingIsTrue, WalletActions
<1> QED
  BY <1>2, <1>4 DEF PageInit, PageInv, ClientsInUse, SignatureAccounted, QuoteKept,
                    PayerOwnsQuote, ReceiptOfPayment

(* What starts only on an idle page finds nothing running.                 *)
LEMMA NothingRuns ==
  ASSUME PageInv, page.pending = NULL
  PROVE  call = NULL /\ load = NULL /\ clients = NULL /\ \A s \in Slots : payments[s] = NULL
BY DEF PageInv, PendingIsTrue, ClientsInUse, WalletActions

(* Most steps leave the pending action and what runs alone; they may drop  *)
(* the quote, the stage and the clients.                                   *)
LEMMA Undisturbed ==
  ASSUME PageInv, PageTypeOK',
         page'.pending = page.pending, page'.completed = page.completed,
         page'.quote \in {page.quote, NULL}, page'.stage \in {page.stage, NULL},
         clients' \in {clients, NULL},
         (call' # NULL) <=> (call # NULL), call # NULL => call'.action = call.action,
         UNCHANGED <<load, payments, receipt, since>>
  PROVE  PageInv'
<1> USE DEF PageInv
<1>1. PendingIsTrue'
  BY DEF PendingIsTrue
<1>2. ClientsInUse' /\ SignatureAccounted' /\ QuoteKept'
  BY DEF ClientsInUse, SignatureAccounted, QuoteKept
<1> QED
  BY <1>1, <1>2 DEF PayerOwnsQuote, ReceiptOfPayment

LEMMA BootstrapPreserves == PageInv /\ Bootstrap => PageInv'
<1> SUFFICES ASSUME PageInv, Bootstrap PROVE PageInv'
  OBVIOUS
<1>1. /\ page' \in Page
      /\ page'.pending = page.pending /\ page'.completed = page.completed
      /\ page'.quote = page.quote /\ page'.stage = page.stage
  <2>1. page \in Page
    BY DEF PageInv, PageTypeOK
  <2>2. CASE page' = [page EXCEPT !.error = TRUE]
    BY <2>1, <2>2 DEF Page
  <2>3. ASSUME NEW c \in {"ready", "placeholder"}, page' = [page EXCEPT !.config = c]
        PROVE  /\ page' \in Page
               /\ page'.pending = page.pending /\ page'.completed = page.completed
               /\ page'.quote = page.quote /\ page'.stage = page.stage
    BY <2>1, <2>3 DEF Page
  <2> QED
    BY <2>2, <2>3 DEF Bootstrap
<1>2. PageTypeOK'
  BY <1>1 DEF PageInv, PageTypeOK, Bootstrap
<1> QED
  BY <1>1, <1>2, Undisturbed DEF Bootstrap

LEMMA ReviewPreserves == PageInv /\ ReviewPayment => PageInv'
<1> SUFFICES ASSUME PageInv, ReviewPayment PROVE PageInv'
  OBVIOUS
<1>1. /\ page' \in Page
      /\ page'.pending = page.pending /\ page'.completed = page.completed
      /\ page'.quote = page.quote /\ page'.stage = page.stage
  <2>1. page \in Page
    BY DEF PageInv, PageTypeOK
  <2> QED
    BY <2>1 DEF ReviewPayment, Page
<1>2. PageTypeOK'
  BY <1>1 DEF PageInv, PageTypeOK, ReviewPayment
<1> QED
  BY <1>1, <1>2, Undisturbed DEF ReviewPayment

-----------------------------------------------------------------------------
(* The wallet.                                                             *)
LEMMA WalletPreserves == PageInv /\ (WalletChanges \/ WalletAnswers) => PageInv'
<1> SUFFICES ASSUME PageInv, WalletChanges \/ WalletAnswers PROVE PageInv'
  OBVIOUS
<1>t. PageTypeOK
  BY DEF PageInv
<1>1. CASE WalletChanges
  <2>1. wallet' \in [account : Accounts \cup {NULL}, chain : Chains]
    BY <1>t, <1>1 DEF WalletChanges, PageTypeOK
  <2>2. \E m \in Message : inbox' = Append(inbox, m)
    BY <1>1 DEF WalletChanges, Event, Message
  <2>3. inbox' \in Seq(Message)
    BY <1>t, <2>2 DEF PageTypeOK
  <2>4. PageTypeOK'
    BY <1>t, <1>1, <2>1, <2>3 DEF WalletChanges, PageTypeOK
  <2> QED
    BY <1>1, <2>4, Undisturbed DEF WalletChanges
<1>2. CASE WalletAnswers
  <2>1. wallet.account \in Accounts \cup {NULL} /\ wallet.chain \in Chains
    BY <1>t DEF PageTypeOK
  <2>2. Answers \subseteq Message
    BY <2>1 DEF Answers, Message
  <2>3. inbox' \in Seq(Message)
    BY <1>t, <1>2, <2>2 DEF WalletAnswers, PageTypeOK
  <2>4. call' \in Call /\ call' # NULL /\ call'.action = call.action
    BY <1>t, <1>2 DEF WalletAnswers, PageTypeOK, Call
  <2>5. PageTypeOK'
    BY <1>t, <1>2, <2>3, <2>4 DEF WalletAnswers, PageTypeOK
  <2> QED
    BY <1>2, <2>4, <2>5, Undisturbed DEF WalletAnswers
<1> QED
  BY <1>1, <1>2

-----------------------------------------------------------------------------
(* Connect and switch.                                                     *)
LEMMA StartCallPreserves ==
  ASSUME PageInv, NEW action \in WalletActions, StartCall(action)
  PROVE  PageInv'
<1> USE DEF PageInv, StartCall
<1>1. page.pending = NULL /\ page.stage = NULL
  BY DEF CanStart, Idle
<1>2. /\ page' \in Page
      /\ page'.pending = action /\ page'.completed = page.completed
      /\ page'.quote = page.quote /\ page'.stage = NULL
  <2>1. page \in Page
    BY DEF PageTypeOK
  <2> QED
    BY <1>1, <2>1 DEF Page
<1>3. call' \in Call /\ call' # NULL /\ call'.action = action
  <2>1. call' = [action |-> action, step |-> "request", answered |-> FALSE]
    OBVIOUS
  <2>2. call' \in Call /\ call'.action = action
    BY <2>1 DEF Call
  <2> QED
    BY <2>2
<1>4. PageTypeOK'
  BY <1>2, <1>3 DEF PageTypeOK
<1>5. PendingIsTrue'
  BY <1>1, <1>2, <1>3, NothingRuns DEF PendingIsTrue
<1> QED
  BY <1>1, <1>2, <1>4, <1>5, NothingRuns
     DEF ClientsInUse, SignatureAccounted, QuoteKept, PayerOwnsQuote, ReceiptOfPayment

(* The end of a call frees the page.                                       *)
LEMMA CallEnds ==
  ASSUME PageInv, PageTypeOK', call # NULL, call' = NULL,
         page'.pending = NULL, page'.completed = page.completed,
         page'.quote = page.quote, page'.stage = page.stage,
         UNCHANGED <<clients, load, payments, receipt, since>>
  PROVE  PageInv'
<1> USE DEF PageInv
<1>1. /\ page.pending \in WalletActions /\ page.stage = NULL /\ load = NULL
      /\ \A s \in Slots : payments[s] = NULL
  BY DEF PendingIsTrue
<1>2. PendingIsTrue'
  BY <1>1 DEF PendingIsTrue
<1> QED
  BY <1>1, <1>2 DEF ClientsInUse, SignatureAccounted, QuoteKept, PayerOwnsQuote, ReceiptOfPayment

LEMMA ReceivePreserves == PageInv /\ Receive => PageInv'
<1> SUFFICES ASSUME PageInv, Receive PROVE PageInv'
  OBVIOUS
<1>t. PageTypeOK /\ page \in Page
  BY DEF PageInv, PageTypeOK
<1> DEFINE m == Head(inbox)
<1>1. m \in Message /\ inbox' \in Seq(Message)
  BY <1>t DEF Receive, PageTypeOK
<1>2. CASE HandleAccounts(m)
  <2>1. m.account \in Accounts \cup {NULL}
    BY <1>1, <1>2 DEF HandleAccounts, Message
  <2>2. [page EXCEPT !.account = m.account] \in Page
    BY <1>t, <2>1 DEF Page
  <2>3. /\ [page EXCEPT !.account = m.account].pending = page.pending
        /\ [page EXCEPT !.account = m.account].completed = page.completed
    BY <1>t DEF Page
  <2> HIDE DEF m
  <2>4. /\ page' \in Page /\ page'.pending = page.pending
        /\ page'.completed = page.completed /\ page'.quote = NULL /\ page'.stage = NULL
    BY <1>2, <2>2, <2>3, PageTyped DEF HandleAccounts
  <2>5. PageTypeOK'
    BY <1>t, <1>1, <1>2, <2>4 DEF PageTypeOK, Receive, HandleAccounts
  <2> QED
    BY <1>2, <2>4, <2>5, Undisturbed DEF Receive, HandleAccounts
<1>3. CASE HandleChain(m)
  <2>1. m.chain \in Chains
    BY <1>1, <1>3 DEF HandleChain, Message
  <2>2. [page EXCEPT !.chain = m.chain] \in Page
    BY <1>t, <2>1 DEF Page
  <2>3. /\ [page EXCEPT !.chain = m.chain].pending = page.pending
        /\ [page EXCEPT !.chain = m.chain].completed = page.completed
    BY <1>t DEF Page
  <2> HIDE DEF m
  <2>4. /\ page' \in Page /\ page'.pending = page.pending
        /\ page'.completed = page.completed /\ page'.quote = NULL /\ page'.stage = NULL
    BY <1>3, <2>2, <2>3, PageTyped DEF HandleChain
  <2>5. PageTypeOK'
    BY <1>t, <1>1, <1>3, <2>4 DEF PageTypeOK, Receive, HandleChain
  <2> QED
    BY <1>3, <2>4, <2>5, Undisturbed DEF Receive, HandleChain
<1>4. CASE HandleAnswer(m)
  <2>1. call \in Call
    BY <1>t, <1>4 DEF HandleAnswer, PageTypeOK
  <2>2. CASE EndCall /\ (m.type = "refusal" \/ call.step = "chain")
    <3>1. m.type \in {"refusal", "answer"}
      BY <1>4 DEF HandleAnswer
    <3>2. m.type = "refusal" => m.rejected \in BOOLEAN
      BY <1>1 DEF Message
    <3>3. m.type = "answer" => m.chain \in Chains
      BY <1>1 DEF Message
    <3> HIDE DEF m
    <3>4. \/ /\ m.type = "refusal"
             /\ page' = [page EXCEPT !.error = TRUE, !.rejected = m.rejected, !.pending = NULL]
          \/ /\ m.type = "answer"
             /\ page' = [page EXCEPT !.chain = m.chain, !.pending = NULL]
      BY <1>4, <2>1, <2>2 DEF HandleAnswer, EndCall, Ask, Call
    <3>5. /\ page' \in Page
          /\ page'.pending = NULL /\ page'.completed = page.completed
          /\ page'.quote = page.quote /\ page'.stage = page.stage
      <4>1. CASE page' = [page EXCEPT !.error = TRUE, !.rejected = m.rejected, !.pending = NULL]
                 /\ m.rejected \in BOOLEAN
        BY <1>t, <4>1 DEF Page
      <4>2. CASE page' = [page EXCEPT !.chain = m.chain, !.pending = NULL] /\ m.chain \in Chains
        BY <1>t, <4>2 DEF Page
      <4> QED
        BY <3>2, <3>3, <3>4, <4>1, <4>2
    <3>6. PageTypeOK'
      BY <1>t, <1>1, <1>4, <2>2, <3>5 DEF PageTypeOK, Receive, HandleAnswer, EndCall
    <3> QED
      BY <1>4, <2>1, <2>2, <3>5, <3>6, CallEnds DEF Receive, HandleAnswer, EndCall
  <2>3. CASE m.type = "answer" /\ call.step # "chain"
    <3>1. m.account \in Accounts \cup {NULL}
      BY <1>1, <2>3 DEF Message
    <3> HIDE DEF m
    <3>2. /\ page' \in {page, [page EXCEPT !.account = page.account],
                       [page EXCEPT !.account = m.account]}
          /\ \E step \in {"accounts", "chain"} : Ask(step)
      BY <1>4, <2>3 DEF HandleAnswer
    <3>3. /\ page' \in Page
          /\ page'.pending = page.pending /\ page'.completed = page.completed
          /\ page'.quote = page.quote /\ page'.stage = page.stage
      BY <1>t, <3>1, <3>2 DEF Page
    <3>4. call' \in Call /\ call' # NULL /\ call'.action = call.action
      BY <2>1, <3>2 DEF Ask, Call
    <3>5. PageTypeOK'
      BY <1>t, <1>1, <1>4, <3>3, <3>4 DEF PageTypeOK, Receive, HandleAnswer
    <3> QED
      BY <1>4, <2>1, <3>3, <3>4, <3>5, Undisturbed DEF Receive, HandleAnswer
  <2> QED
    BY <1>4, <2>2, <2>3 DEF HandleAnswer
<1> QED
  BY <1>2, <1>3, <1>4 DEF Receive

-----------------------------------------------------------------------------
(* Terms.                                                                  *)
LEMMA LoadTermsPreserves == PageInv /\ LoadTerms => PageInv'
<1> SUFFICES ASSUME PageInv, LoadTerms PROVE PageInv'
  OBVIOUS
<1>t. PageTypeOK /\ page \in Page
  BY DEF PageInv, PageTypeOK
<1>1. page.pending = NULL /\ page.stage = NULL /\ page.account # NULL /\ page.chain = Expected
  BY DEF LoadTerms, CanStart, Idle
<1>2. /\ page' \in Page
      /\ page'.pending = "load-terms" /\ page'.completed = page.completed
      /\ page'.quote = page.quote /\ page'.stage = NULL
  BY <1>t, <1>1 DEF LoadTerms, Page
<1>3. load' \in Quotes /\ load' # NULL
  <2>1. page.account \in Accounts /\ page.chain \in Chains
    BY <1>t, <1>1 DEF Page
  <2>2. load' \in Quotes
    BY <2>1 DEF LoadTerms, Quotes
  <2> QED
    BY <2>2
<1>4. PageTypeOK'
  BY <1>t, <1>2, <1>3 DEF PageTypeOK, LoadTerms
<1>5. call = NULL /\ clients = NULL /\ \A s \in Slots : payments[s] = NULL
  BY <1>1, NothingRuns
<1>6. UNCHANGED <<call, clients, payments, receipt, since>>
  BY DEF LoadTerms
<1>7. PendingIsTrue'
  BY <1>2, <1>3, <1>5, <1>6 DEF PendingIsTrue
<1>8. ClientsInUse' /\ SignatureAccounted' /\ QuoteKept'
  BY <1>1, <1>2, <1>5, <1>6 DEF PageInv, ClientsInUse, SignatureAccounted, QuoteKept
<1> QED
  BY <1>4, <1>6, <1>7, <1>8 DEF PageInv, PayerOwnsQuote, ReceiptOfPayment

LEMMA LoadEndsPreserves == PageInv /\ LoadEnds => PageInv'
<1> SUFFICES ASSUME PageInv, LoadEnds PROVE PageInv'
  OBVIOUS
<1>t. PageTypeOK /\ page \in Page /\ load \in Quotes
  BY DEF PageInv, PageTypeOK, LoadEnds
<1>1. /\ page.pending = "load-terms" /\ page.stage = NULL /\ call = NULL
      /\ \A s \in Slots : payments[s] = NULL
  BY DEF PageInv, PendingIsTrue, LoadEnds
<1>2. /\ page' \in Page
      /\ page'.pending = NULL /\ page'.completed = page.completed /\ page'.stage = NULL
  <2>1. CASE page' = [page EXCEPT !.quote = load, !.awaiting = FALSE, !.pending = NULL]
    BY <1>t, <1>1, <2>1 DEF Page
  <2>2. CASE page' = [page EXCEPT !.error = TRUE, !.pending = NULL]
    BY <1>t, <1>1, <2>2 DEF Page
  <2> QED
    BY <2>1, <2>2 DEF LoadEnds, LoadAndValidatePaymentTerms
<1>3. load' = NULL /\ UNCHANGED <<call, clients, payments, receipt, since>>
  BY DEF LoadEnds
<1>4. PageTypeOK'
  BY <1>t, <1>2 DEF PageTypeOK, LoadEnds
<1>5. clients = NULL
  BY <1>1 DEF PageInv, ClientsInUse
<1>6. PendingIsTrue'
  BY <1>1, <1>2, <1>3 DEF PendingIsTrue
<1>7. ClientsInUse' /\ SignatureAccounted' /\ QuoteKept'
  BY <1>1, <1>2, <1>3, <1>5 DEF PageInv, ClientsInUse, SignatureAccounted, QuoteKept
<1> QED
  BY <1>3, <1>4, <1>6, <1>7 DEF PageInv, PayerOwnsQuote, ReceiptOfPayment

-----------------------------------------------------------------------------
(* The payment.                                                            *)
LEMMA SignPreserves ==
  ASSUME PageInv, NEW s \in Slots, SignAndSubmit(s)
  PROVE  PageInv'
<1>t. PageTypeOK /\ page \in Page
  BY DEF PageInv, PageTypeOK
<1>1. /\ page.pending = NULL /\ page.account # NULL /\ page.chain = Expected
      /\ page.quote = [account |-> page.account, chain |-> page.chain] /\ ~ page.completed
  BY DEF SignAndSubmit, CanStart, Confirmed, Ready
<1>2. call = NULL /\ load = NULL /\ clients = NULL /\ \A t \in Slots : payments[t] = NULL
  BY <1>1, NothingRuns
<1>3. page.account \in Accounts /\ page.quote \in Quotes /\ page.quote # NULL
  BY <1>t, <1>1 DEF Page, Quotes
<1>4. BoundTo = page.account
  BY <1>2 DEF BoundTo
<1>5. /\ page' \in Page
      /\ page'.pending = "sign-and-submit" /\ page'.completed = page.completed
      /\ page'.quote = page.quote /\ page'.stage = "awaiting-wallet-signature"
  BY <1>t DEF SignAndSubmit, Page
<1> DEFINE payment == [stage |-> "awaiting-wallet-signature",
                       payer |-> page.account, quote |-> page.quote]
<1>6. payment \in Payment /\ payment # NULL
  <2>1. payment \in Payment
    BY <1>3 DEF Payment
  <2> QED
    BY <2>1
<1>7. payment.payer = page.account /\ payment.quote = page.quote
  OBVIOUS
<1>8. payments' = [payments EXCEPT ![s] = payment]
  BY <1>4 DEF SignAndSubmit
<1>9. payments \in [Slots -> Payment \cup {NULL}]
  BY <1>t DEF PageTypeOK
<1> HIDE DEF payment
<1>10. payments' \in [Slots -> Payment \cup {NULL}] /\ payments'[s] = payment
       /\ \A t \in Slots \ {s} : payments'[t] = NULL
  BY <1>2, <1>6, <1>8, <1>9
<1>11. since = 0 /\ since' = 1
  BY <1>t, <1>1 DEF PageInv, PageTypeOK, SignatureAccounted, SignAndSubmit
<1>12. clients' = page.account /\ UNCHANGED <<receipt, call, load>>
  BY <1>4 DEF SignAndSubmit
<1>13. PageTypeOK'
  BY <1>t, <1>3, <1>5, <1>10, <1>11, <1>12 DEF PageTypeOK, SignAndSubmit
<1>14. PendingIsTrue'
  BY <1>2, <1>5, <1>6, <1>10, <1>12 DEF PendingIsTrue
<1>15. ClientsInUse' /\ SignatureAccounted' /\ QuoteKept'
  BY <1>5, <1>7, <1>10, <1>11 DEF ClientsInUse, SignatureAccounted, QuoteKept
<1>16. PayerOwnsQuote'
  BY <1>1, <1>7, <1>10 DEF PayerOwnsQuote
<1> QED
  BY <1>12, <1>13, <1>14, <1>15, <1>16 DEF PageInv, ReceiptOfPayment

LEMMA StagePreserves ==
  ASSUME PageInv, NEW s \in Slots, NEW stage \in Stages, payments[s] # NULL,
         StageBegins(s, stage), UNCHANGED <<bootstrap, call, load, outside, history>>
  PROVE  PageInv'
<1>t. PageTypeOK /\ page \in Page
  BY DEF PageInv, PageTypeOK
<1>1. page.pending = "sign-and-submit" /\ stage # NULL
  BY DEF PageInv, PendingIsTrue
<1>2. /\ page' \in Page
      /\ page'.pending = page.pending /\ page'.completed = page.completed
      /\ page'.quote = page.quote
  BY <1>t DEF StageBegins, Page
<1>3. payments[s] \in Payment /\ payments \in [Slots -> Payment \cup {NULL}]
  BY <1>t DEF PageTypeOK
<1> DEFINE next == [payments[s] EXCEPT !.stage = stage]
<1>4. next \in Payment /\ next.payer = payments[s].payer /\ next.quote = payments[s].quote
  BY <1>3 DEF Payment
<1>5. next # NULL
  BY <1>4
<1>6. payments' = [payments EXCEPT ![s] = next]
  BY <1>3 DEF StageBegins
<1> HIDE DEF next
<1>7. payments' \in [Slots -> Payment \cup {NULL}] /\ payments'[s] = next
      /\ \A t \in Slots \ {s} : payments'[t] = payments[t]
  BY <1>3, <1>4, <1>6
<1>8. UNCHANGED <<call, load, clients, receipt, since>>
  BY DEF StageBegins
<1>9. PageTypeOK'
  BY <1>t, <1>2, <1>7 DEF PageTypeOK, StageBegins
<1>10. PendingIsTrue'
  BY <1>1, <1>2, <1>5, <1>7, <1>8 DEF PageInv, PendingIsTrue
<1>11. ClientsInUse' /\ SignatureAccounted' /\ QuoteKept'
  BY <1>2, <1>4, <1>7, <1>8 DEF PageInv, ClientsInUse, SignatureAccounted, QuoteKept
<1>12. PayerOwnsQuote'
  BY <1>4, <1>7 DEF PageInv, PayerOwnsQuote
<1> QED
  BY <1>8, <1>9, <1>10, <1>11, <1>12 DEF PageInv, ReceiptOfPayment

LEMMA OutcomePreserves ==
  ASSUME PageInv, NEW s \in Slots, payments[s] # NULL,
         \/ \E rejected \in BOOLEAN : Fails(s, rejected)
         \/ Unconfirmed(s)
         \/ Succeeds(s),
         UNCHANGED <<bootstrap, call, load, outside, history>>
  PROVE  PageInv'
<1>t. PageTypeOK /\ page \in Page
  BY DEF PageInv, PageTypeOK
<1>1. /\ page.pending = "sign-and-submit" /\ call = NULL /\ load = NULL
      /\ \A t \in Slots \ {s} : payments[t] = NULL
  BY DEF PageInv, PendingIsTrue
<1>2. /\ Ended \in Page /\ Ended.pending = NULL /\ Ended.completed = TRUE
      /\ Ended.stage = NULL /\ Ended.quote = page.quote
  BY <1>t DEF Ended, Page
<1>3. /\ page' \in Page
      /\ page'.pending = NULL /\ page'.completed = TRUE /\ page'.stage = NULL
  <2>1. CASE \E rejected \in BOOLEAN : Fails(s, rejected)
    BY <1>2, <2>1 DEF Fails, Page
  <2>2. CASE Unconfirmed(s)
    BY <1>2, <2>2 DEF Unconfirmed, Page
  <2>3. CASE Succeeds(s)
    BY <1>2, <2>3 DEF Succeeds, Page
  <2> QED
    BY <2>1, <2>2, <2>3
<1>4. clients' = NULL /\ payments' = [payments EXCEPT ![s] = NULL]
  BY DEF Fails, Unconfirmed, Succeeds, Over
<1>5. payments' \in [Slots -> Payment \cup {NULL}] /\ \A t \in Slots : payments'[t] = NULL
  BY <1>t, <1>1, <1>4 DEF PageTypeOK
<1>6. /\ receipt' \in [shown : Quotes, paid : Quotes] \cup {NULL}
      /\ ReceiptOfPayment'
  <2>1. CASE receipt' = receipt
    BY <1>t, <2>1 DEF PageInv, PageTypeOK, ReceiptOfPayment
  <2>2. CASE /\ page.quote # NULL
             /\ receipt' = [shown |-> page.quote, paid |-> payments[s].quote]
    <3>1. payments[s].quote \in Quotes /\ page.quote = payments[s].quote
      BY <1>t, <2>2 DEF PageInv, PageTypeOK, QuoteKept, Payment
    <3> QED
      BY <2>2, <3>1 DEF ReceiptOfPayment
  <2> QED
    BY <2>1, <2>2 DEF Fails, Unconfirmed, Succeeds, RenderSuccess
<1>7. PageTypeOK'
  BY <1>t, <1>3, <1>4, <1>5, <1>6 DEF PageTypeOK
<1>8. PendingIsTrue'
  BY <1>1, <1>3, <1>5 DEF PendingIsTrue
<1>9. ClientsInUse' /\ SignatureAccounted' /\ QuoteKept' /\ PayerOwnsQuote'
  BY <1>3, <1>4, <1>5 DEF PageInv, ClientsInUse, SignatureAccounted, QuoteKept, PayerOwnsQuote
<1> QED
  BY <1>6, <1>7, <1>8, <1>9 DEF PageInv

LEMMA PaymentPreserves ==
  ASSUME PageInv, NEW s \in Slots, PaymentGoesOn(s)
  PROVE  PageInv'
<1>1. payments[s] # NULL /\ UNCHANGED <<bootstrap, call, load, outside, history>>
  BY DEF PaymentGoesOn
<1>2. CASE \E stage \in Stages : StageBegins(s, stage)
  BY <1>1, <1>2, StagePreserves
<1>3. CASE (\E rejected \in BOOLEAN : Fails(s, rejected)) \/ Unconfirmed(s) \/ Succeeds(s)
  BY <1>1, <1>3, OutcomePreserves
<1> QED
  BY <1>2, <1>3 DEF PaymentGoesOn, SigningEnds, SubmissionEnds, SettlementEnds

LEMMA ResetPreserves == PageInv /\ Reset => PageInv'
<1> SUFFICES ASSUME PageInv, Reset PROVE PageInv'
  OBVIOUS
<1>t. PageTypeOK /\ page \in Page
  BY DEF PageInv, PageTypeOK
<1>1. page.pending = NULL
  BY DEF Reset, Idle
<1>2. Invalidated(page) \in Page /\ Invalidated(page).pending = NULL
      /\ Invalidated(page).quote = NULL /\ Invalidated(page).stage = NULL
  BY <1>t, <1>1, PageTyped
<1>3. /\ page' \in Page
      /\ page'.pending = NULL /\ page'.quote = NULL /\ page'.stage = NULL
  BY <1>2 DEF Reset, ResetState, Page
<1>4. call = NULL /\ load = NULL /\ \A s \in Slots : payments[s] = NULL
  BY <1>1, NothingRuns
<1>5. /\ clients' = NULL /\ receipt' = NULL /\ since' = 0 /\ reviewed' = FALSE
      /\ UNCHANGED <<bootstrap, call, load, payments, wallet, inbox>>
  BY DEF Reset
<1>6. PageTypeOK'
  BY <1>t, <1>3, <1>5 DEF PageTypeOK
<1>7. PendingIsTrue'
  BY <1>3, <1>4, <1>5 DEF PendingIsTrue
<1> QED
  BY <1>4, <1>5, <1>6, <1>7
     DEF PageInv, ClientsInUse, SignatureAccounted, QuoteKept, PayerOwnsQuote, ReceiptOfPayment

-----------------------------------------------------------------------------
LEMMA StepPreserves == PageInv /\ [PageNext]_vars => PageInv'
<1> SUFFICES ASSUME PageInv, [PageNext]_vars PROVE PageInv'
  OBVIOUS
<1>1. CASE UNCHANGED vars
  BY <1>1 DEF vars, PageInv, PageTypeOK, PendingIsTrue, ClientsInUse, SignatureAccounted,
              QuoteKept, PayerOwnsQuote, ReceiptOfPayment
<1>2. CASE PageNext
  BY <1>2, BootstrapPreserves, ReceivePreserves, LoadTermsPreserves, LoadEndsPreserves,
     ReviewPreserves, ResetPreserves, StartCallPreserves, SignPreserves, PaymentPreserves,
     WalletPreserves DEF PageNext
<1> QED
  BY <1>1, <1>2

(* The page's type invariant, what PendingIsTrue says of the buttons, and  *)
(* the three facts above hold together in every state.                     *)
THEOREM PageInvariance == PageSpec => []PageInv
<1>1. PageInit => PageInv
  BY InitialPage
<1>2. PageInv /\ [PageNext]_vars => PageInv'
  BY StepPreserves
<1> QED
  BY <1>1, <1>2, PTL DEF PageSpec

(* The page's state, work and messages stay in range.                      *)
THEOREM PageTypeCorrect == PageSpec => []PageTypeOK
<1>1. PageInv => PageTypeOK
  BY DEF PageInv
<1> QED
  BY <1>1, PageInvariance, PTL

(* What runs is the pending action and nothing else runs, whatever events  *)
(* replaced in the meantime.                                               *)
THEOREM NothingHidden == PageSpec => []PendingIsTrue
<1>1. PageInv => PendingIsTrue
  BY DEF PageInv
<1> QED
  BY <1>1, PageInvariance, PTL

(* Between two Resets one signature at most is requested.                  *)
THEOREM PaysOnce == PageSpec => []OnePaymentPerReset
<1>1. PageInv => OnePaymentPerReset
  BY DEF PageInv, SignatureAccounted, OnePaymentPerReset
<1> QED
  BY <1>1, PageInvariance, PTL

(* Who pays is whom the terms were loaded for, on Base Sepolia, and the    *)
(* receipt names the terms that were paid.                                 *)
THEOREM PaymentsFitTerms == PageSpec => []PaymentMatchesTerms
<1>1. PageInv => PaymentMatchesTerms
  BY DEF PageInv, PaymentMatchesTerms
<1> QED
  BY <1>1, PageInvariance, PTL

-----------------------------------------------------------------------------
(* What the page shows of the wallet, and what the user has seen of it.    *)

(* A message that tells the account, and after which no accountsChanged    *)
(* comes, tells the wallet's account of now.                               *)
AccountsTold ==
  \A i \in 1 .. Len(inbox) :
    /\ inbox[i].type \in {"accountsChanged", "answer"}
    /\ \A j \in 1 .. Len(inbox) : j > i => inbox[j].type # "accountsChanged"
    => inbox[i].account = wallet.account

ChainsTold ==
  \A i \in 1 .. Len(inbox) :
    /\ inbox[i].type \in {"chainChanged", "answer"}
    /\ \A j \in 1 .. Len(inbox) : j > i => inbox[j].type # "chainChanged"
    => inbox[i].chain = wallet.chain

(* Without such a message on its way the page knows.                       *)
AccountKnown ==
  (\A i \in 1 .. Len(inbox) : inbox[i].type # "accountsChanged") =>
    page.account \in {wallet.account, NULL}

ChainKnown ==
  (\A i \in 1 .. Len(inbox) : inbox[i].type # "chainChanged") =>
    page.chain \in {wallet.chain, NULL}

(* The page awaits a signature only for what has been reviewed.            *)
AwaitsReviewed == page.awaiting => reviewed

ViewInv ==
  /\ AccountsTold /\ ChainsTold /\ AccountKnown /\ ChainKnown
  /\ AwaitsReviewed

LEMMA NewMessageTells ==
  ASSUME PageTypeOK, ViewInv, WalletChanges \/ WalletAnswers
  PROVE  ViewInv'
<1> USE DEF ViewInv
<1>1. UNCHANGED <<page, reviewed>>
  BY DEF WalletChanges, WalletAnswers
<1>2. AwaitsReviewed'
  BY <1>1 DEF AwaitsReviewed
<1>3. PICK m \in Message :
        /\ inbox' = Append(inbox, m)
        /\ m.type \in {"accountsChanged", "answer"} => m.account = wallet'.account
        /\ m.type \in {"chainChanged", "answer"} => m.chain = wallet'.chain
        /\ m.type # "accountsChanged" => wallet'.account = wallet.account
        /\ m.type # "chainChanged" => wallet'.chain = wallet.chain
  <2>w. wallet \in [account : Accounts \cup {NULL}, chain : Chains]
    BY DEF PageTypeOK
  <2>1. ASSUME NEW a \in Accounts \cup {NULL}, wallet' = [wallet EXCEPT !.account = a],
               inbox' = Append(inbox, [type |-> "accountsChanged", account |-> a])
        PROVE  \E m \in Message :
                 /\ inbox' = Append(inbox, m)
                 /\ m.type \in {"accountsChanged", "answer"} => m.account = wallet'.account
                 /\ m.type \in {"chainChanged", "answer"} => m.chain = wallet'.chain
                 /\ m.type # "accountsChanged" => wallet'.account = wallet.account
                 /\ m.type # "chainChanged" => wallet'.chain = wallet.chain
    <3>1. [type |-> "accountsChanged", account |-> a] \in Message
      BY DEF Message
    <3>2. wallet'.account = a /\ wallet'.chain = wallet.chain
      BY <2>w, <2>1
    <3> QED
      BY <2>1, <3>1, <3>2
  <2>2. ASSUME NEW c \in Chains, wallet' = [wallet EXCEPT !.chain = c],
               inbox' = Append(inbox, [type |-> "chainChanged", chain |-> c])
        PROVE  \E m \in Message :
                 /\ inbox' = Append(inbox, m)
                 /\ m.type \in {"accountsChanged", "answer"} => m.account = wallet'.account
                 /\ m.type \in {"chainChanged", "answer"} => m.chain = wallet'.chain
                 /\ m.type # "accountsChanged" => wallet'.account = wallet.account
                 /\ m.type # "chainChanged" => wallet'.chain = wallet.chain
    <3>1. [type |-> "chainChanged", chain |-> c] \in Message
      BY DEF Message
    <3>2. wallet'.chain = c /\ wallet'.account = wallet.account
      BY <2>w, <2>2
    <3> QED
      BY <2>2, <3>1, <3>2
  <2>3. CASE WalletAnswers
    <3>1. wallet' = wallet
      BY <2>3 DEF WalletAnswers
    <3>2. PICK m \in Answers : inbox' = Append(inbox, m)
      BY <2>3 DEF WalletAnswers
    <3>3. m \in Message
      BY <2>w, <3>2 DEF Answers, Message
    <3>4. \/ m.type = "refusal"
          \/ m.type = "answer" /\ m.account = wallet.account /\ m.chain = wallet.chain
      BY <3>2 DEF Answers
    <3> QED
      BY <3>1, <3>2, <3>3, <3>4
  <2> QED
    BY <2>1, <2>2, <2>3 DEF WalletChanges, Event
<1>4. /\ inbox \in Seq(Message) /\ Len(inbox) \in Nat /\ Len(inbox') = Len(inbox) + 1
      /\ \A i \in 1 .. Len(inbox) : inbox'[i] = inbox[i]
      /\ inbox'[Len(inbox) + 1] = m
  BY <1>3 DEF PageTypeOK
<1>5. ASSUME NEW i \in 1 .. Len(inbox')
      PROVE  i = Len(inbox) + 1 \/ i \in 1 .. Len(inbox)
  BY <1>4, <1>5
<1>6. Len(inbox) + 1 \in 1 .. Len(inbox') /\ 1 .. Len(inbox) \subseteq 1 .. Len(inbox')
  BY <1>4
<1>7. AccountsTold'
  <2> SUFFICES ASSUME NEW i \in 1 .. Len(inbox'),
                      inbox'[i].type \in {"accountsChanged", "answer"},
                      \A j \in 1 .. Len(inbox') : j > i => inbox'[j].type # "accountsChanged"
               PROVE  inbox'[i].account = wallet'.account
    BY DEF AccountsTold
  <2>1. CASE i = Len(inbox) + 1
    BY <1>3, <1>4, <2>1
  <2>2. CASE i \in 1 .. Len(inbox)
    <3>1. m.type # "accountsChanged"
      BY <1>4, <1>6, <2>2
    <3>2. \A j \in 1 .. Len(inbox) : j > i => inbox[j].type # "accountsChanged"
      BY <1>4, <1>6
    <3> QED
      BY <1>3, <1>4, <2>2, <3>1, <3>2 DEF AccountsTold
  <2> QED
    BY <1>5, <2>1, <2>2
<1>8. ChainsTold'
  <2> SUFFICES ASSUME NEW i \in 1 .. Len(inbox'),
                      inbox'[i].type \in {"chainChanged", "answer"},
                      \A j \in 1 .. Len(inbox') : j > i => inbox'[j].type # "chainChanged"
               PROVE  inbox'[i].chain = wallet'.chain
    BY DEF ChainsTold
  <2>1. CASE i = Len(inbox) + 1
    BY <1>3, <1>4, <2>1
  <2>2. CASE i \in 1 .. Len(inbox)
    <3>1. m.type # "chainChanged"
      BY <1>4, <1>6, <2>2
    <3>2. \A j \in 1 .. Len(inbox) : j > i => inbox[j].type # "chainChanged"
      BY <1>4, <1>6
    <3> QED
      BY <1>3, <1>4, <2>2, <3>1, <3>2 DEF ChainsTold
  <2> QED
    BY <1>5, <2>1, <2>2
<1>9. AccountKnown'
  <2> SUFFICES ASSUME \A i \in 1 .. Len(inbox') : inbox'[i].type # "accountsChanged"
               PROVE  page'.account \in {wallet'.account, NULL}
    BY DEF AccountKnown
  <2>1. m.type # "accountsChanged"
    BY <1>4, <1>6
  <2>2. \A i \in 1 .. Len(inbox) : inbox[i].type # "accountsChanged"
    BY <1>4, <1>6
  <2> QED
    BY <1>1, <1>3, <2>1, <2>2 DEF AccountKnown
<1>10. ChainKnown'
  <2> SUFFICES ASSUME \A i \in 1 .. Len(inbox') : inbox'[i].type # "chainChanged"
               PROVE  page'.chain \in {wallet'.chain, NULL}
    BY DEF ChainKnown
  <2>1. m.type # "chainChanged"
    BY <1>4, <1>6
  <2>2. \A i \in 1 .. Len(inbox) : inbox[i].type # "chainChanged"
    BY <1>4, <1>6
  <2> QED
    BY <1>1, <1>3, <2>1, <2>2 DEF ChainKnown
<1> QED
  BY <1>2, <1>7, <1>8, <1>9, <1>10

(* The page takes over what the first message tells, and nothing else.     *)
LEMMA MessageTakenOver ==
  ASSUME PageTypeOK, Receive
  PROVE  /\ \/ page'.account = page.account /\ Head(inbox).type # "accountsChanged"
            \/ /\ Head(inbox).type \in {"accountsChanged", "answer"}
               /\ page'.account = Head(inbox).account
         /\ \/ page'.chain = page.chain /\ Head(inbox).type # "chainChanged"
            \/ /\ Head(inbox).type \in {"chainChanged", "answer"}
               /\ page'.chain = Head(inbox).chain
         /\ \/ page'.awaiting = page.awaiting /\ reviewed' = reviewed
            \/ ~ page'.awaiting
<1> DEFINE m == Head(inbox)
<1>p. page \in Page
  BY DEF PageTypeOK
<1>1. CASE HandleAccounts(m)
  BY <1>p, <1>1 DEF HandleAccounts, Invalidated, Page
<1>2. CASE HandleChain(m)
  BY <1>p, <1>2 DEF HandleChain, Invalidated, Page
<1>3. CASE HandleAnswer(m)
  <2>1. m.type \in {"answer", "refusal"} /\ reviewed' = reviewed
    BY <1>3 DEF HandleAnswer
  <2>2. \/ page' = [page EXCEPT !.error = TRUE, !.rejected = m.rejected, !.pending = NULL]
        \/ page' = [page EXCEPT !.account = page.account]
        \/ m.type = "answer" /\ page' = [page EXCEPT !.account = m.account]
        \/ m.type = "answer" /\ page' = [page EXCEPT !.chain = m.chain, !.pending = NULL]
    BY <1>3 DEF HandleAnswer
  <2> HIDE DEF m
  <2>3. CASE page' = [page EXCEPT !.error = TRUE, !.rejected = m.rejected, !.pending = NULL]
    BY <1>p, <2>1, <2>3 DEF Page, m
  <2>4. CASE page' = [page EXCEPT !.account = page.account]
    BY <1>p, <2>1, <2>4 DEF Page, m
  <2>5. CASE m.type = "answer" /\ page' = [page EXCEPT !.account = m.account]
    BY <1>p, <2>1, <2>5 DEF Page, m
  <2>6. CASE m.type = "answer" /\ page' = [page EXCEPT !.chain = m.chain, !.pending = NULL]
    BY <1>p, <2>1, <2>6 DEF Page, m
  <2> QED
    BY <2>2, <2>3, <2>4, <2>5, <2>6
<1> QED
  BY <1>1, <1>2, <1>3 DEF Receive

LEMMA FirstMessageTells ==
  ASSUME PageTypeOK, ViewInv, Receive
  PROVE  ViewInv'
<1> USE DEF ViewInv
<1>1. /\ inbox \in Seq(Message) /\ Len(inbox) \in Nat \ {0} /\ Head(inbox) = inbox[1]
      /\ Len(inbox') = Len(inbox) - 1
      /\ \A i \in 1 .. Len(inbox') : i + 1 \in 1 .. Len(inbox) /\ inbox'[i] = inbox[i + 1]
      /\ UNCHANGED wallet
  BY DEF Receive, PageTypeOK
<1>2. ASSUME NEW j \in 1 .. Len(inbox), j > 1
      PROVE  j - 1 \in 1 .. Len(inbox') /\ inbox[j] = inbox'[j - 1]
  BY <1>1, <1>2
<1>3. AccountsTold'
  <2> SUFFICES ASSUME NEW i \in 1 .. Len(inbox'),
                      inbox'[i].type \in {"accountsChanged", "answer"},
                      \A j \in 1 .. Len(inbox') : j > i => inbox'[j].type # "accountsChanged"
               PROVE  inbox'[i].account = wallet'.account
    BY DEF AccountsTold
  <2>1. ASSUME NEW j \in 1 .. Len(inbox), j > i + 1
        PROVE  inbox[j].type # "accountsChanged"
    <3>1. j > 1 /\ j - 1 > i
      BY <1>1, <2>1
    <3> QED
      BY <1>2, <3>1
  <2> QED
    BY <1>1, <2>1 DEF AccountsTold
<1>4. ChainsTold'
  <2> SUFFICES ASSUME NEW i \in 1 .. Len(inbox'),
                      inbox'[i].type \in {"chainChanged", "answer"},
                      \A j \in 1 .. Len(inbox') : j > i => inbox'[j].type # "chainChanged"
               PROVE  inbox'[i].chain = wallet'.chain
    BY DEF ChainsTold
  <2>1. ASSUME NEW j \in 1 .. Len(inbox), j > i + 1
        PROVE  inbox[j].type # "chainChanged"
    <3>1. j > 1 /\ j - 1 > i
      BY <1>1, <2>1
    <3> QED
      BY <1>2, <3>1
  <2> QED
    BY <1>1, <2>1 DEF ChainsTold
<1>5. 1 \in 1 .. Len(inbox) /\ \A j \in 1 .. Len(inbox) : j = 1 \/ j > 1
  BY <1>1
<1>6. AccountKnown'
  <2> SUFFICES ASSUME \A i \in 1 .. Len(inbox') : inbox'[i].type # "accountsChanged"
               PROVE  page'.account \in {wallet'.account, NULL}
    BY DEF AccountKnown
  <2>1. \A j \in 1 .. Len(inbox) : j > 1 => inbox[j].type # "accountsChanged"
    BY <1>2
  <2>2. CASE page'.account = page.account /\ Head(inbox).type # "accountsChanged"
    BY <1>1, <1>5, <2>1, <2>2 DEF AccountKnown
  <2>3. CASE /\ Head(inbox).type \in {"accountsChanged", "answer"}
             /\ page'.account = Head(inbox).account
    BY <1>1, <1>5, <2>1, <2>3 DEF AccountsTold
  <2> QED
    BY <2>2, <2>3, MessageTakenOver
<1>7. ChainKnown'
  <2> SUFFICES ASSUME \A i \in 1 .. Len(inbox') : inbox'[i].type # "chainChanged"
               PROVE  page'.chain \in {wallet'.chain, NULL}
    BY DEF ChainKnown
  <2>1. \A j \in 1 .. Len(inbox) : j > 1 => inbox[j].type # "chainChanged"
    BY <1>2
  <2>2. CASE page'.chain = page.chain /\ Head(inbox).type # "chainChanged"
    BY <1>1, <1>5, <2>1, <2>2 DEF ChainKnown
  <2>3. CASE /\ Head(inbox).type \in {"chainChanged", "answer"}
             /\ page'.chain = Head(inbox).chain
    BY <1>1, <1>5, <2>1, <2>3 DEF ChainsTold
  <2> QED
    BY <2>2, <2>3, MessageTakenOver
<1>8. AwaitsReviewed'
  BY MessageTakenOver DEF AwaitsReviewed
<1> QED
  BY <1>3, <1>4, <1>6, <1>7, <1>8

(* Whatever else happens leaves the account and the chain on the page      *)
(* alone, and the page does not begin to await a signature unreviewed.     *)
LEMMA ViewKept ==
  ASSUME ViewInv, UNCHANGED outside,
         page'.account = page.account, page'.chain = page.chain,
         page'.awaiting => reviewed'
  PROVE  ViewInv'
BY DEF ViewInv, AccountsTold, ChainsTold, AccountKnown, ChainKnown, AwaitsReviewed

LEMMA OwnStepsKeepView ==
  ASSUME PageTypeOK, ViewInv,
         \/ Bootstrap \/ LoadTerms \/ LoadEnds \/ ReviewPayment \/ Reset
         \/ \E action \in WalletActions : StartCall(action)
         \/ \E s \in Slots : SignAndSubmit(s) \/ PaymentGoesOn(s)
  PROVE  ViewInv'
<1>p. page \in Page
  BY DEF PageTypeOK
<1>1. CASE Bootstrap
  BY <1>p, <1>1, ViewKept DEF Bootstrap, Page, ViewInv, AwaitsReviewed
<1>2. CASE LoadTerms
  BY <1>p, <1>2, ViewKept DEF LoadTerms, Page, ViewInv, AwaitsReviewed
<1>3. CASE LoadEnds
  <2>1. CASE page' = [page EXCEPT !.error = TRUE, !.pending = NULL] /\ UNCHANGED reviewed
    BY <1>p, <1>3, <2>1, ViewKept DEF LoadEnds, Page, ViewInv, AwaitsReviewed
  <2>2. ASSUME NEW quote,
               page' = [page EXCEPT !.quote = quote, !.awaiting = FALSE, !.pending = NULL]
        PROVE  ViewInv'
    BY <1>p, <1>3, <2>2, ViewKept DEF LoadEnds, Page
  <2> QED
    BY <1>3, <2>1, <2>2 DEF LoadEnds
<1>4. CASE ReviewPayment
  BY <1>p, <1>4, ViewKept DEF ReviewPayment, Page
<1>5. CASE Reset
  BY <1>p, <1>5, ViewKept DEF Reset, ResetState, Invalidated, Page
<1>6. ASSUME NEW action \in WalletActions, StartCall(action)
      PROVE  ViewInv'
  BY <1>p, <1>6, ViewKept DEF StartCall, Page, ViewInv, AwaitsReviewed
<1>7. ASSUME NEW s \in Slots, SignAndSubmit(s)
      PROVE  ViewInv'
  BY <1>p, <1>7, ViewKept DEF SignAndSubmit, Page, ViewInv, AwaitsReviewed
<1>8. ASSUME NEW s \in Slots, PaymentGoesOn(s)
      PROVE  ViewInv'
  <2>1. UNCHANGED <<outside, history>>
    BY <1>8 DEF PaymentGoesOn
  <2>2. CASE \E stage \in Stages : page' = [page EXCEPT !.stage = stage]
    BY <1>p, <2>1, <2>2, ViewKept DEF Page, ViewInv, AwaitsReviewed
  <2>3. /\ Ended \in Page /\ Ended.account = page.account /\ Ended.chain = page.chain
        /\ Ended.awaiting = page.awaiting
    BY <1>p DEF Ended, Page
  <2>4. CASE \E rejected \in BOOLEAN : Fails(s, rejected)
    BY <2>1, <2>3, <2>4, ViewKept DEF Fails, Page, ViewInv, AwaitsReviewed
  <2>5. CASE Unconfirmed(s)
    BY <2>1, <2>3, <2>5, ViewKept DEF Unconfirmed, Page, ViewInv, AwaitsReviewed
  <2>6. CASE Succeeds(s)
    BY <2>1, <2>3, <2>6, ViewKept DEF Succeeds, Page
  <2> QED
    BY <1>8, <2>2, <2>4, <2>5, <2>6
       DEF PaymentGoesOn, SigningEnds, SubmissionEnds, SettlementEnds, StageBegins
<1> QED
  BY <1>1, <1>2, <1>3, <1>4, <1>5, <1>6, <1>7, <1>8

LEMMA ViewInvariance == PageSpec => [](PageInv /\ ViewInv)
<1>1. PageInit => ViewInv
  <2> SUFFICES ASSUME PageInit PROVE ViewInv
    OBVIOUS
  <2>1. Len(inbox) = 0 /\ page.account = NULL /\ page.chain = NULL /\ ~ page.awaiting
    BY DEF PageInit, NewPage
  <2> QED
    BY <2>1 DEF ViewInv, AccountsTold, ChainsTold, AccountKnown, ChainKnown, AwaitsReviewed
<1>2. PageInv /\ ViewInv /\ [PageNext]_vars => ViewInv'
  <2> SUFFICES ASSUME PageTypeOK, ViewInv, [PageNext]_vars PROVE ViewInv'
    BY DEF PageInv
  <2>1. CASE UNCHANGED vars
    BY <2>1, ViewKept DEF vars, ViewInv, AwaitsReviewed
  <2>2. CASE PageNext
    BY <2>2, NewMessageTells, FirstMessageTells, OwnStepsKeepView DEF PageNext
  <2> QED
    BY <2>1, <2>2
<1> QED
  BY <1>1, <1>2, PageInvariance, PTL DEF PageSpec

(* PageFollowsWallet: when no message is on its way, an account or a chain *)
(* on the page is the wallet's, however events came between the requests   *)
(* that read them.                                                         *)
THEOREM ViewIsWallets == PageSpec => []PageFollowsWallet
<1>1. PageInv /\ ViewInv => PageFollowsWallet
  <2> SUFFICES ASSUME ViewInv, inbox = <<>>
               PROVE  page.account \in {wallet.account, NULL} /\ page.chain \in {wallet.chain, NULL}
    BY DEF PageFollowsWallet
  <2>1. Len(inbox) = 0
    OBVIOUS
  <2> QED
    BY <2>1 DEF ViewInv, AccountKnown, ChainKnown
<1> QED
  BY <1>1, ViewInvariance, PTL

(* ReviewedBeforeSigning: a signature is requested only for terms reviewed *)
(* since they were loaded.                                                 *)
THEOREM SignedAsReviewed == PageSpec => ReviewedBeforeSigning
<1>1. ViewInv => [\A s \in Slots : SignAndSubmit(s) => reviewed]_vars
  BY DEF ViewInv, AwaitsReviewed, SignAndSubmit, CanStart, Confirmed
<1> QED
  BY <1>1, ViewInvariance, PTL DEF PageSpec, ReviewedBeforeSigning

-----------------------------------------------------------------------------
(* What the page shows.                                                    *)

(* The configuration is there before the first payment, and the outcome of *)
(* a payment before nothing else begins.                                   *)
DisplayInv ==
  /\ bootstrap => page.config = NULL
  /\ page.pending # NULL => page.terminal = NULL
  /\ page.pending = "sign-and-submit" => page.config = "ready"

LEMMA DisplayKept ==
  ASSUME DisplayInv, bootstrap' = bootstrap, page'.config = page.config,
         page'.terminal = page.terminal, page'.pending \in {page.pending, NULL}
  PROVE  DisplayInv'
BY DEF DisplayInv

LEMMA ReceiveDisplays ==
  ASSUME PageTypeOK, Receive
  PROVE  /\ page'.config = page.config /\ page'.terminal = page.terminal
         /\ page'.pending \in {page.pending, NULL}
<1> DEFINE m == Head(inbox)
<1>p. page \in Page
  BY DEF PageTypeOK
<1>1. CASE HandleAccounts(m)
  BY <1>p, <1>1 DEF HandleAccounts, Invalidated, Page
<1>2. CASE HandleChain(m)
  BY <1>p, <1>2 DEF HandleChain, Invalidated, Page
<1>3. CASE HandleAnswer(m)
  <2>1. \/ page' = [page EXCEPT !.error = TRUE, !.rejected = m.rejected, !.pending = NULL]
        \/ page' = [page EXCEPT !.account = page.account]
        \/ page' = [page EXCEPT !.account = m.account]
        \/ page' = [page EXCEPT !.chain = m.chain, !.pending = NULL]
    BY <1>3 DEF HandleAnswer
  <2> HIDE DEF m
  <2>2. CASE page' = [page EXCEPT !.error = TRUE, !.rejected = m.rejected, !.pending = NULL]
    BY <1>p, <2>2 DEF Page
  <2>3. CASE page' = [page EXCEPT !.account = page.account]
    BY <1>p, <2>3 DEF Page
  <2>4. CASE page' = [page EXCEPT !.account = m.account]
    BY <1>p, <2>4 DEF Page
  <2>5. CASE page' = [page EXCEPT !.chain = m.chain, !.pending = NULL]
    BY <1>p, <2>5 DEF Page
  <2> QED
    BY <2>1, <2>2, <2>3, <2>4, <2>5
<1> QED
  BY <1>1, <1>2, <1>3 DEF Receive

LEMMA BootstrapDisplays ==
  ASSUME PageInv, DisplayInv, Bootstrap
  PROVE  DisplayInv' /\ page'.terminal = page.terminal
<1>1. page \in Page /\ page.config = NULL /\ page.pending # "sign-and-submit" /\ ~ bootstrap'
  BY DisplayAssumption DEF PageInv, PageTypeOK, DisplayInv, Bootstrap
<1>2. page'.terminal = page.terminal /\ page'.pending = page.pending
  <2>1. CASE page' = [page EXCEPT !.error = TRUE]
    BY <1>1, <2>1 DEF Page
  <2>2. CASE \E c \in {"ready", "placeholder"} : page' = [page EXCEPT !.config = c]
    BY <1>1, <2>2 DEF Page
  <2> QED
    BY <2>1, <2>2 DEF Bootstrap
<1> QED
  BY <1>1, <1>2 DEF DisplayInv

(* A payment ends in what it shows, and nothing else runs then.            *)
LEMMA PaymentDisplays ==
  ASSUME PageInv, DisplayInv, NEW s \in Slots, PaymentGoesOn(s)
  PROVE  DisplayInv'
<1>1. page \in Page /\ UNCHANGED bootstrap
  BY DEF PageInv, PageTypeOK, PaymentGoesOn
<1>2. CASE \E stage \in Stages : page' = [page EXCEPT !.stage = stage]
  BY <1>1, <1>2, DisplayKept DEF Page
<1>3. /\ Ended \in Page /\ Ended.config = page.config /\ Ended.pending = NULL
  BY <1>1 DEF Ended, Page
<1>4. CASE \/ \E rejected \in BOOLEAN : Fails(s, rejected)
           \/ Unconfirmed(s) \/ Succeeds(s)
  <2>1. page'.config = page.config /\ page'.pending = NULL
    <3>1. CASE \E rejected \in BOOLEAN : Fails(s, rejected)
      BY <1>3, <3>1 DEF Fails, Page
    <3>2. CASE Unconfirmed(s)
      BY <1>3, <3>2 DEF Unconfirmed, Page
    <3>3. CASE Succeeds(s)
      BY <1>3, <3>3 DEF Succeeds, Page
    <3> QED
      BY <1>4, <3>1, <3>2, <3>3
  <2> QED
    BY <1>1, <2>1 DEF DisplayInv
<1> QED
  BY <1>2, <1>4
     DEF PaymentGoesOn, SigningEnds, SubmissionEnds, SettlementEnds, StageBegins

LEMMA StepDisplays ==
  ASSUME PageInv, DisplayInv, PageNext
  PROVE  DisplayInv'
<1>p. page \in Page /\ PageTypeOK
  BY DEF PageInv, PageTypeOK
<1>1. CASE Bootstrap
  BY <1>1, BootstrapDisplays
<1>2. CASE Receive
  <2>1. bootstrap' = bootstrap
    BY <1>2 DEF Receive
  <2> QED
    BY <1>p, <1>2, <2>1, ReceiveDisplays, DisplayKept
<1>3. CASE LoadTerms
  BY <1>p, <1>3 DEF LoadTerms, CanStart, Page, DisplayInv
<1>4. CASE LoadEnds
  <2>1. CASE page' = [page EXCEPT !.error = TRUE, !.pending = NULL]
    BY <1>p, <1>4, <2>1, DisplayKept DEF LoadEnds, Page
  <2>2. ASSUME NEW quote,
               page' = [page EXCEPT !.quote = quote, !.awaiting = FALSE, !.pending = NULL]
        PROVE  DisplayInv'
    BY <1>p, <1>4, <2>2, DisplayKept DEF LoadEnds, Page
  <2> QED
    BY <1>4, <2>1, <2>2 DEF LoadEnds
<1>5. CASE ReviewPayment
  BY <1>p, <1>5, DisplayKept DEF ReviewPayment, Page
<1>6. CASE Reset
  BY <1>p, <1>6 DEF Reset, ResetState, Invalidated, Page, DisplayInv
<1>7. ASSUME NEW action \in WalletActions, StartCall(action)
      PROVE  DisplayInv'
  BY <1>p, <1>7 DEF StartCall, CanStart, Page, DisplayInv
<1>8. ASSUME NEW s \in Slots, SignAndSubmit(s)
      PROVE  DisplayInv'
  BY <1>p, <1>8 DEF SignAndSubmit, CanStart, Confirmed, Ready, Page, DisplayInv
<1>9. ASSUME NEW s \in Slots, PaymentGoesOn(s)
      PROVE  DisplayInv'
  BY <1>9, PaymentDisplays
<1>10. CASE WalletChanges \/ WalletAnswers
  BY <1>10, DisplayKept DEF WalletChanges, WalletAnswers
<1> QED
  BY <1>1, <1>2, <1>3, <1>4, <1>5, <1>6, <1>7, <1>8, <1>9, <1>10 DEF PageNext

LEMMA DisplayInvariance == PageSpec => [](PageInv /\ DisplayInv)
<1>1. PageInit => DisplayInv
  BY DEF PageInit, NewPage, DisplayInv
<1>2. PageInv /\ DisplayInv /\ [PageNext]_vars => DisplayInv'
  BY StepDisplays DEF vars, DisplayInv
<1> QED
  BY <1>1, <1>2, PageInvariance, PTL DEF PageSpec

(* PaymentShown: whatever events come while a payment runs, the page shows *)
(* one of its stages or a rejection, never that it is ready for another.   *)
THEOREM PaymentsShow == PageSpec => []PaymentShown
<1>1. ASSUME PageInv, DisplayInv, NEW s \in Slots, payments[s] # NULL
      PROVE  WalletState \in Stages \cup {"rejected-by-user"}
  <2>1. /\ page.pending = "sign-and-submit" /\ page.terminal = NULL /\ page.config = "ready"
        /\ page.stage \in Stages \cup {NULL}
    BY <1>1 DEF PageInv, PendingIsTrue, DisplayInv, PageTypeOK, Page
  <2>2. WalletState = FirstOf(EnabledRules)
    BY <2>1 DEF WalletState
  <2>3. ~ EnabledRules[1][1] /\ ~ EnabledRules[2][1]
    BY <2>1, DisplayAssumption, EnabledConditions
  <2>4. CASE EnabledRules[3][1]
    <3>1. \A i \in 1 .. 3 - 1 : ~ EnabledRules[i][1]
      BY <2>3
    <3> QED
      BY <2>2, <2>4, <3>1, EnabledNames, EnabledFirst
  <2>5. CASE ~ EnabledRules[3][1] /\ EnabledRules[4][1]
    <3>1. \A i \in 1 .. 4 - 1 : ~ EnabledRules[i][1]
      BY <2>3, <2>5
    <3> QED
      BY <2>2, <2>5, <3>1, EnabledNames, EnabledFirst
  <2>6. CASE ~ EnabledRules[3][1] /\ ~ EnabledRules[4][1] /\ EnabledRules[5][1]
    <3>1. \A i \in 1 .. 5 - 1 : ~ EnabledRules[i][1]
      BY <2>3, <2>6
    <3> QED
      BY <2>2, <2>6, <3>1, EnabledNames, EnabledFirst
  <2>7. CASE /\ ~ EnabledRules[3][1] /\ ~ EnabledRules[4][1] /\ ~ EnabledRules[5][1]
             /\ EnabledRules[6][1]
    <3>1. \A i \in 1 .. 6 - 1 : ~ EnabledRules[i][1]
      BY <2>3, <2>7
    <3> QED
      BY <2>2, <2>7, <3>1, EnabledNames, EnabledFirst
  <2>8. CASE /\ ~ EnabledRules[3][1] /\ ~ EnabledRules[4][1] /\ ~ EnabledRules[5][1]
             /\ ~ EnabledRules[6][1]
    <3>1. ~ EnabledRules[7][1] /\ ~ EnabledRules[8][1] /\ EnabledRules[9][1]
      BY <2>1, EnabledConditions
    <3>2. \A i \in 1 .. 9 - 1 : ~ EnabledRules[i][1]
      BY <2>3, <2>8, <3>1
    <3> QED
      BY <2>2, <3>1, <3>2, EnabledNames, EnabledFirst
  <2> QED
    BY <2>4, <2>5, <2>6, <2>7, <2>8
<1>2. PageInv /\ DisplayInv => PaymentShown
  BY <1>1 DEF PaymentShown
<1> QED
  BY <1>2, DisplayInvariance, PTL

(* What the page shows of a payment that is over.                          *)
OutcomeShown == page.terminal # NULL => WalletState = page.terminal

LEMMA OutcomeNamed == PageInv => OutcomeShown
<1> SUFFICES ASSUME page.terminal \in {"success", "potentially-submitted"}
             PROVE  WalletState = page.terminal
  BY DEF PageInv, PageTypeOK, Page, OutcomeShown
<1>1. ASSUME NEW rules \in {DisabledRules, EnabledRules}
      PROVE  FirstOf(rules) = page.terminal
  <2>1. /\ \E k \in {6, 16} : DOMAIN rules = 1 .. k
        /\ rules[1] = Rule(page.terminal = "success", "success")
        /\ rules[2] = Rule(page.terminal = "potentially-submitted", "potentially-submitted")
    BY Disabled, Enabled
  <2>2. /\ rules[1][1] <=> page.terminal = "success"
        /\ rules[2][1] <=> page.terminal = "potentially-submitted"
        /\ rules[1][2] = "success" /\ rules[2][2] = "potentially-submitted"
    BY <2>1, SuccessRule, UnconfirmedRule, OutcomeNames
  <2>3. CASE page.terminal = "success"
    <3>1. rules[1][1] /\ \A i \in 1 .. 1 - 1 : ~ rules[i][1]
      BY <2>2, <2>3
    <3> QED
      BY <2>1, <2>2, <2>3, <3>1, FirstFound
  <2>4. CASE page.terminal = "potentially-submitted"
    <3>1. rules[2][1] /\ \A i \in 1 .. 2 - 1 : ~ rules[i][1]
      BY <2>2, <2>4
    <3> QED
      BY <2>1, <2>2, <2>4, <3>1, FirstFound
  <2> QED
    BY <2>3, <2>4
<1> QED
  BY <1>1 DEF WalletState

LEMMA OutcomeStays ==
  ASSUME PageInv, DisplayInv, [PageNext]_vars, page.terminal # NULL, ~ Reset
  PROVE  page'.terminal = page.terminal /\ payments' = payments
<1>1. /\ page \in Page /\ page.pending = NULL /\ load = NULL
      /\ \A s \in Slots : payments[s] = NULL
  BY NothingRuns DEF PageInv, PageTypeOK, DisplayInv
<1>2. /\ ~ LoadTerms /\ ~ LoadEnds /\ ~ ReviewPayment
      /\ \A action \in WalletActions : ~ StartCall(action)
      /\ \A s \in Slots : ~ SignAndSubmit(s) /\ ~ PaymentGoesOn(s)
  BY <1>1 DEF LoadTerms, LoadEnds, ReviewPayment, StartCall, SignAndSubmit, PaymentGoesOn,
              CanStart
<1>3. CASE Bootstrap
  BY <1>3, BootstrapDisplays DEF Bootstrap
<1>4. CASE Receive
  BY <1>4, ReceiveDisplays DEF Receive, PageInv
<1>5. CASE WalletChanges \/ WalletAnswers \/ UNCHANGED vars
  BY <1>5 DEF WalletChanges, WalletAnswers, vars
<1> QED
  BY <1>2, <1>3, <1>4, <1>5 DEF PageNext

(* OutcomeShownUntilReset: only Reset takes an outcome off the page or     *)
(* lets another payment start.                                             *)
THEOREM OutcomesStay == PageSpec => OutcomeShownUntilReset
<1> DEFINE Inv == PageInv /\ DisplayInv /\ OutcomeShown
           Stays == page.terminal # NULL =>
                      \/ Reset
                      \/ WalletState' = WalletState /\ payments' = payments
<1>1. Inv /\ Inv' /\ [PageNext]_vars => Stays
  <2> SUFFICES ASSUME Inv, Inv', [PageNext]_vars, page.terminal # NULL, ~ Reset
               PROVE  WalletState' = WalletState /\ payments' = payments
    OBVIOUS
  <2>1. page'.terminal = page.terminal /\ payments' = payments
    BY OutcomeStays
  <2> QED
    BY <2>1 DEF OutcomeShown
<1>2. PageInv /\ DisplayInv => Inv
  BY OutcomeNamed
<1>3. Inv /\ Inv' /\ [PageNext]_vars => [Stays]_vars
  BY <1>1
<1> HIDE DEF Inv, Stays
<1>4. [][Stays]_vars => OutcomeShownUntilReset
  BY PTL DEF Stays, OutcomeShownUntilReset
<1> QED
  BY <1>2, <1>3, <1>4, DisplayInvariance, PTL DEF PageSpec

=============================================================================
