--------------------------- MODULE PayPageDisplay ---------------------------
(***************************************************************************)
(* What the testnet pay page shows of its state: deriveWalletState.        *)
(***************************************************************************)
EXTENDS PayPage, TLC

Rule(condition, name) == <<condition, name>>

StageRule(stage) == Rule(page.stage = stage, stage)

(* The first rule that applies names the wallet state.                     *)
FirstOf(rules) ==
  rules[CHOOSE i \in DOMAIN rules :
          rules[i][1] /\ \A j \in 1 .. i - 1 : ~ rules[j][1]][2]

OutcomeRules ==
  << Rule(page.terminal = "success", "success"),
     Rule(page.terminal = "potentially-submitted", "potentially-submitted") >>

StageRules ==
  << StageRule("awaiting-wallet-signature"), StageRule("submitting-payment"),
     StageRule("waiting-for-settlement") >>

DisabledRules ==
  OutcomeRules \o StageRules \o <<Rule(TRUE, "payment-disabled")>>

EnabledRulesByStage ==
  OutcomeRules
  \o << Rule(page.rejected, "rejected-by-user") >>
  \o StageRules
  \o << Rule(page.pending = "connect", "connecting"),
        Rule(page.pending = "load-terms", "loading-terms"),
        Rule(page.account = NULL /\ page.error, "failure"),
        Rule(page.account = NULL, "disconnected"),
        Rule(page.chain # Expected, "wrong-network"),
        Rule(page.awaiting /\ page.quote # NULL, "awaiting-confirmation"),
        Rule(page.quote # NULL, "terms-validated"),
        Rule(page.error, "failure"),
        Rule(TRUE, "ready") >>

EnabledRules ==
  OutcomeRules
  \o << Rule(page.rejected, "rejected-by-user") >>
  \o StageRules
  \o << Rule(page.pending = "connect", "connecting"),
        Rule(page.pending = "load-terms", "loading-terms"),
        Rule(page.pending = "sign-and-submit", "awaiting-wallet-signature"),
        Rule(page.account = NULL /\ page.error, "failure"),
        Rule(page.account = NULL, "disconnected"),
        Rule(page.chain # Expected, "wrong-network"),
        Rule(page.awaiting /\ page.quote # NULL, "awaiting-confirmation"),
        Rule(page.quote # NULL, "terms-validated"),
        Rule(page.error, "failure"),
        Rule(TRUE, "ready") >>

WalletState == FirstOf(IF page.config = "placeholder" THEN DisabledRules ELSE EnabledRules)

-----------------------------------------------------------------------------
(* Properties.                                                             *)

(* A payment that succeeded, or that may have been submitted, stays on     *)
(* display until Reset: no account or chain event, late result or error    *)
(* hides it, and no button but Reset does anything.                        *)
OutcomeShownUntilReset ==
  [][page.terminal # NULL =>
       \/ Reset
       \/ WalletState' = WalletState /\ payments' = payments]_vars

(* While a payment runs the page never seems ready for one, although an    *)
(* event may have erased the payment's stage and its terms: it shows a     *)
(* stage of the payment, or a rejection that was never cleared.            *)
PaymentShown ==
  (\E s \in Slots : payments[s] # NULL) =>
    WalletState \in Stages \cup {"rejected-by-user"}
=============================================================================
