------------------------------- MODULE PayOnce -------------------------------
(***************************************************************************)
(* What the mainnet paid route promises its buyers, without rows, leases,  *)
(* calls or failures.  A request orders an item, a payment identifier with *)
(* terms, and carries an authorization to pay for it.  A deal is made      *)
(* about an item with one authorization; the answer is decided before      *)
(* money can move, the money moves once or is given up for good, and       *)
(* everyone who is served gets that answer and that receipt, for money     *)
(* that has moved.  A request is told the outcome once, and may be put off *)
(* instead at any time; a deal is forgotten in the end.                    *)
(***************************************************************************)
CONSTANTS
  Requests, PaymentIds, Terms, Auths, Bodies, Receipts,
  None,    \* no answer decided, no receipt known
  NoDeal   \* no deal about an item

Items == PaymentIds \X Terms

Deal == [ auth    : Auths,
          money   : {"open", "moved", "never"},
          answer  : Bodies \cup {None},
          receipt : Receipts \cup {None} ]

VARIABLES
  deals,  \* the deal about each item, or NoDeal
  spent,  \* the authorizations that have paid
  order,  \* what each request asks for: an item and an authorization
  told    \* what each request has been answered

Made(k) == deals[k] # NoDeal

Nothing == [reply |-> "none", body |-> None, receipt |-> None]

(* Two deals share neither their identifier nor their authorization.       *)
Accept(w) ==
  LET k == order[w].item IN
  /\ \A j \in Items : Made(j) => j[1] # k[1] /\ deals[j].auth # order[w].auth
  /\ deals' = [deals EXCEPT ![k] = [auth |-> order[w].auth, money |-> "open",
                                    answer |-> None, receipt |-> None]]
  /\ UNCHANGED <<spent, order, told>>

Decide(k, answer) ==
  /\ Made(k) /\ deals[k].money = "open" /\ deals[k].answer = None
  /\ deals' = [deals EXCEPT ![k].answer = answer]
  /\ UNCHANGED <<spent, order, told>>

(* The receipt may be lost for good.                                       *)
Pay(k, receipt) ==
  /\ Made(k) /\ deals[k].money = "open" /\ deals[k].answer # None
  /\ deals[k].auth \notin spent
  /\ spent' = spent \cup {deals[k].auth}
  /\ deals' = [deals EXCEPT ![k].money = "moved", ![k].receipt = receipt]
  /\ UNCHANGED <<order, told>>

NeverPaid(k) ==
  /\ Made(k) /\ deals[k].money = "open"
  /\ deals' = [deals EXCEPT ![k].money = "never", ![k].answer = None]

GiveUp(k) == NeverPaid(k) /\ UNCHANGED <<spent, order, told>>

(* Every request is answered once.                                         *)
Tell(w, answer) ==
  /\ told[w] = Nothing
  /\ told' = [told EXCEPT ![w] = answer]
  /\ UNCHANGED <<spent, order>>

(* The item is paid for, and so has the authorization of this request.     *)
Serve(w) ==
  LET k == order[w].item IN
  /\ Made(k) /\ deals[k].money = "moved" /\ deals[k].receipt # None
  /\ order[w].auth \in spent
  /\ Tell(w, [reply |-> "served", body |-> deals[k].answer, receipt |-> deals[k].receipt])
  /\ UNCHANGED deals

(* The payment of this request's own deal has not been taken and never     *)
(* will be.                                                                *)
Refuse(w) ==
  LET k == order[w].item IN
  /\ Made(k) /\ deals[k].auth = order[w].auth
  /\ NeverPaid(k) \/ (deals[k].money = "never" /\ UNCHANGED deals)
  /\ Tell(w, [Nothing EXCEPT !.reply = "refused"])

PutOff(w) == Tell(w, [Nothing EXCEPT !.reply = "put off"]) /\ UNCHANGED deals

Forget(S) ==
  /\ deals' = [k \in Items |-> IF k \in S THEN NoDeal ELSE deals[k]]
  /\ UNCHANGED <<spent, order, told>>

Init ==
  /\ deals = [k \in Items |-> NoDeal]
  /\ spent = {}
  /\ order \in [Requests -> [item : Items, auth : Auths]]
  /\ told = [w \in Requests |-> Nothing]

Next ==
  \/ \E w \in Requests : Accept(w) \/ Serve(w) \/ Refuse(w) \/ PutOff(w)
  \/ \E k \in Items, answer \in Bodies : Decide(k, answer)
  \/ \E k \in Items, receipt \in Receipts \cup {None} : Pay(k, receipt)
  \/ \E k \in Items : GiveUp(k)
  \/ \E S \in SUBSET Items : Forget(S)

Spec == Init /\ [][Next]_<<deals, spent, order, told>>
=============================================================================
