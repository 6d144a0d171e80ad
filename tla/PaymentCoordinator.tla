------------------------- MODULE PaymentCoordinator -------------------------
(***************************************************************************)
(* The payment coordinator Durable Object                                  *)
(* (mainnet/durable/PaymentCoordinatorDurableObject.ts): one SQLite table  *)
(* payment_attempts with a row per payment attempt, changed only by the    *)
(* RPC methods below, by the clean-up alarm and by a restart.  The object  *)
(* is single threaded and no method awaits between reading and writing the *)
(* table, so every method is one action.  A call that changes nothing (a   *)
(* rejected or stale one, a read) is a stuttering step; its reply is an    *)
(* operator (PrepareReply, Replay, StatusOf).                              *)
(*                                                                         *)
(* The client here is the most general one: any method, with any           *)
(* arguments, in any order.  MainnetOrchestrator composes this module with *)
(* the client the program has.                                             *)
(*                                                                         *)
(* Time is relative: a row holds the time it has left before expires_at,   *)
(* the alarm the time left before it is due, and Tick lets one unit pass.  *)
(***************************************************************************)
EXTENDS Naturals

CONSTANTS
  PaymentIds,      \* payment identifiers chosen by buyers
  Terms,           \* terms fingerprints
  Auths,           \* authorization commitments
  Details,         \* the other identity columns, resource .. amount, as one
  Tokens,          \* random operation tokens; a bound on the leases granted
  Bodies,          \* response bodies that a caller offers for staging
  StageableBodies, \* those of JSON content type, small enough, valid JSON
  Receipts,        \* settlement receipts that a caller presents
  ValidReceipts,   \* those validateSettlementReceiptForStorage accepts
  RecordTtl,       \* RECORD_TTL_MS in ticks of the clock
  Cutoffs,         \* how far ahead of the clock a runTtlCleanup call may ask
  NULL,            \* SQL's NULL
  NoRow            \* no row under a record key

(* buildRecordKey hashes identifier and terms; no two pairs share a key.   *)
RecordKeys == PaymentIds \X Terms

InProgressStates == {"reserved", "verifying", "verified", "computing", "settling"}

States == InProgressStates \cup {"fulfilled", "failed-definitive", "uncertain"}

Kinds == {"verify", "settle"}

Row == [ auth    : Auths,
         details : Details,
         state   : States,
         kind    : Kinds \cup {NULL},
         gen     : Nat,
         token   : Tokens \cup {NULL},
         body    : Bodies \cup {NULL},
         receipt : Receipts \cup {NULL},
         ttl     : 0 .. RecordTtl ]

(* The arguments of prepareAttempt.                                        *)
Inputs == [pid : PaymentIds, terms : Terms, auth : Auths, details : Details]

(* The generations worth presenting: no row has any other (LeaseShape).    *)
Generations == 0 .. 2

ASSUME CoordinatorAssumption ==
  /\ RecordTtl \in Nat \ {0}
  /\ Cutoffs \subseteq 0 .. RecordTtl
  /\ StageableBodies \subseteq Bodies
  /\ ValidReceipts \subseteq Receipts
  /\ NULL \notin Kinds \cup Tokens \cup Bodies \cup Receipts \cup Nat
  /\ NULL \notin [body : Bodies, receipt : Receipts]
  /\ NoRow \notin Row

VARIABLES
  rows,    \* the table: the row under each record key, or NoRow
  issued,  \* operation tokens generated so far
  alarm    \* time left before the clean-up alarm is due, or NULL

vars == <<rows, issued, alarm>>

TypeOK ==
  /\ rows \in [RecordKeys -> Row \cup {NoRow}]
  /\ issued \subseteq Tokens
  /\ alarm \in 0 .. RecordTtl \cup {NULL}

-----------------------------------------------------------------------------
(* Reading the table.                                                      *)

Present(k) == rows[k] # NoRow

RowsByPaymentIdentifier(p) == {k \in RecordKeys : Present(k) /\ k[1] = p}

RowsByUnfinishedAuth(a) ==
  {k \in RecordKeys :
     Present(k) /\ rows[k].auth = a /\ rows[k].state \in InProgressStates}

RowsByAuthCommitment(a) == {k \in RecordKeys : Present(k) /\ rows[k].auth = a}

KeyOf(i) == <<i.pid, i.terms>>

IsAttemptWithAnyAuth(k, i) == k = KeyOf(i) /\ rows[k].details = i.details

IsSameAttemptIdentity(k, i) ==
  k = KeyOf(i) /\ rows[k].auth = i.auth /\ rows[k].details = i.details

ClassifyExistingPrepareRow(k, i) ==
  IF ~ IsSameAttemptIdentity(k, i) THEN "conflict"
  ELSE CASE rows[k].state = "fulfilled"         -> "replay"
         [] rows[k].state = "failed-definitive" -> "failed"
         [] rows[k].state = "uncertain"         -> "uncertain"
         [] rows[k].state \in InProgressStates  -> "wait"

(* The reply of prepareAttempt; only "created" comes with a change.        *)
PrepareReply(i) ==
  IF Present(KeyOf(i)) THEN ClassifyExistingPrepareRow(KeyOf(i), i)
  ELSE IF \/ RowsByPaymentIdentifier(i.pid) # {}
          \/ \E k \in RowsByAuthCommitment(i.auth) : k[1] # i.pid
       THEN "conflict"
       ELSE "created"

(* getReplay: the stored answer of a fulfilled attempt, or NULL.           *)
Replay(k) ==
  IF /\ Present(k)
     /\ rows[k].state = "fulfilled"
     /\ rows[k].body # NULL
     /\ rows[k].receipt \in ValidReceipts
  THEN [body |-> rows[k].body, receipt |-> rows[k].receipt]
  ELSE NULL

(* getStatusByPaymentIdentifier: the state and, once fulfilled, the        *)
(* result; a missing row and one that has expired are both NULL.           *)
StatusOf(p) ==
  LET unexpired == {k \in RowsByPaymentIdentifier(p) : rows[k].ttl > 0}
  IN  IF unexpired = {} THEN NULL
      ELSE LET row == rows[CHOOSE k \in unexpired : TRUE]
           IN  [ state  |-> row.state,
                 result |-> IF row.state = "fulfilled" THEN row.body ELSE NULL ]

-----------------------------------------------------------------------------
ScheduleLatestExpiry(pending) ==
  IF \A k \in RecordKeys : rows'[k] = NoRow
  THEN alarm' = pending
  ELSE \E k \in RecordKeys :
         /\ rows'[k] # NoRow
         /\ \A j \in RecordKeys : rows'[j] # NoRow => rows'[j].ttl <= rows'[k].ttl
         /\ alarm' = rows'[k].ttl

(* The clean-up alarm is set to the earliest expiry of the rows, and left  *)
(* as it is (`pending') when the table is empty.                           *)
ScheduleNextCleanupAlarm(pending) ==
  IF \A k \in RecordKeys : rows'[k] = NoRow
  THEN alarm' = pending
  ELSE \E k \in RecordKeys :
         /\ rows'[k] # NoRow
         /\ \A j \in RecordKeys : rows'[j] # NoRow => rows'[k].ttl <= rows'[j].ttl
         /\ alarm' = rows'[k].ttl

Put(k, row) == rows' = [rows EXCEPT ![k] = row]

NewRow(i) ==
  [ auth |-> i.auth, details |-> i.details, state |-> "reserved", kind |-> NULL,
    gen |-> 0, token |-> NULL, body |-> NULL, receipt |-> NULL, ttl |-> RecordTtl ]

(* The INSERT.  The two unique indexes would refuse what the look-ups      *)
(* before it let through; they let nothing through that the indexes refuse.*)
PrepareAttempt(i) ==
  /\ PrepareReply(i) = "created"
  /\ RowsByPaymentIdentifier(i.pid) = {}
  /\ RowsByAuthCommitment(i.auth) = {}
  /\ Put(KeyOf(i), NewRow(i))
  /\ ScheduleNextCleanupAlarm(alarm)
  /\ UNCHANGED issued

(* WHERE record_key = ? AND state IN (...).                                *)
InState(k, states) == Present(k) /\ rows[k].state \in states

(* ... AND operation_kind = ? AND operation_generation = ?                 *)
(*     AND operation_token = ?                                             *)
HoldsLease(k, kind, gen, token) ==
  rows[k].kind = kind /\ rows[k].gen = gen /\ rows[k].token = token

GrantLeaseSameGeneration(k, kind, state, token) ==
  /\ token \notin issued
  /\ issued' = issued \cup {token}
  /\ Put(k, [rows[k] EXCEPT !.state = state, !.kind = kind, !.token = token])
  /\ UNCHANGED alarm

GrantLease(k, kind, state, token) ==
  /\ token \notin issued
  /\ issued' = issued \cup {token}
  /\ Put(k, [rows[k] EXCEPT !.state = state, !.kind = kind, !.gen = @ + 1, !.token = token])
  /\ UNCHANGED alarm

SetState(k, state) ==
  /\ Put(k, [rows[k] EXCEPT !.state = state])
  /\ UNCHANGED <<issued, alarm>>

(* Terminal failure: the operation columns are cleared.                    *)
SetFailed(k) ==
  /\ Put(k, [rows[k] EXCEPT !.state = "failed-definitive", !.kind = NULL, !.token = NULL])
  /\ UNCHANGED <<issued, alarm>>

CanAcquireVerifyLease(k) == InState(k, {"reserved"})

AcquireVerifyLease(k, token) ==
  /\ CanAcquireVerifyLease(k)
  /\ GrantLease(k, "verify", "verifying", token)

CanCompleteVerifyTwice(k, gen, token) ==
  /\ InState(k, {"verifying", "uncertain", "verified", "computing"})
  /\ HoldsLease(k, "verify", gen, token)

CanCompleteVerify(k, gen, token) ==
  InState(k, {"verifying", "uncertain"}) /\ HoldsLease(k, "verify", gen, token)

CompleteVerify(k, gen, token) ==
  CanCompleteVerify(k, gen, token) /\ SetState(k, "verified")

(* The verify call of this lease is still awaited.                         *)
VerifyAwaited(k, gen, token) ==
  InState(k, {"verifying"}) /\ HoldsLease(k, "verify", gen, token)

MarkVerifyUncertain(k, gen, token) ==
  VerifyAwaited(k, gen, token) /\ SetState(k, "uncertain")

FailVerifyDefinitive(k, gen, token) ==
  VerifyAwaited(k, gen, token) /\ SetFailed(k)

CanRestageResponse(k, body) ==
  body \in StageableBodies /\ InState(k, {"verified", "computing"})

(* No lease is asked for: the state alone admits a response.               *)
CanStageResponse(k, body) == body \in StageableBodies /\ InState(k, {"verified"})

StageResponse(k, body) ==
  /\ CanStageResponse(k, body)
  /\ Put(k, [rows[k] EXCEPT !.state = "computing", !.body = body])
  /\ UNCHANGED <<issued, alarm>>

(* Verified by this lease, and no settle lease granted yet.                *)
AwaitsSettlement(k, gen, token) ==
  InState(k, {"verified", "computing"}) /\ HoldsLease(k, "verify", gen, token)

FailPostVerifyDefinitive(k, gen, token) ==
  AwaitsSettlement(k, gen, token) /\ SetFailed(k)

CanAcquireSettleLease(k) == InState(k, {"computing"}) /\ rows[k].body # NULL

AcquireSettleLease(k, token) ==
  /\ CanAcquireSettleLease(k)
  /\ GrantLease(k, "settle", "settling", token)

CanFulfillUnvalidated(k, gen, token, receipt) ==
  /\ InState(k, {"settling", "uncertain"}) /\ HoldsLease(k, "settle", gen, token)
  /\ rows[k].body # NULL

CanCompleteFulfillment(k, gen, token, receipt) ==
  /\ receipt \in ValidReceipts
  /\ InState(k, {"settling", "uncertain"}) /\ HoldsLease(k, "settle", gen, token)
  /\ rows[k].body # NULL

CompleteFulfillment(k, gen, token, receipt) ==
  /\ CanCompleteFulfillment(k, gen, token, receipt)
  /\ Put(k, [rows[k] EXCEPT !.state = "fulfilled", !.receipt = receipt,
                            !.kind = NULL, !.token = NULL])
  /\ UNCHANGED <<issued, alarm>>

(* The settle call of this lease is still awaited.                         *)
SettleAwaited(k, gen, token) ==
  InState(k, {"settling"}) /\ HoldsLease(k, "settle", gen, token)

MarkSettleUncertain(k, gen, token) ==
  SettleAwaited(k, gen, token) /\ SetState(k, "uncertain")

FailSettleFromUncertain(k, gen, token) ==
  /\ InState(k, {"settling", "uncertain"}) /\ HoldsLease(k, "settle", gen, token)
  /\ SetFailed(k)

FailSettleDefinitive(k, gen, token) ==
  SettleAwaited(k, gen, token) /\ SetFailed(k)

-----------------------------------------------------------------------------
(* Expiry.                                                                 *)

(* DELETE ... WHERE expires_at <= cutoff, whatever the state of the row.   *)
DeleteExpired(cutoff) ==
  rows' = [k \in RecordKeys |->
             IF Present(k) /\ rows[k].ttl > cutoff THEN rows[k] ELSE NoRow]

AlarmFiresOnce ==
  alarm = 0 /\ DeleteExpired(0) /\ alarm' = NULL /\ UNCHANGED issued

(* alarm(): the platform has cleared the alarm when it calls the handler.  *)
AlarmFires ==
  /\ alarm = 0
  /\ DeleteExpired(0)
  /\ ScheduleNextCleanupAlarm(NULL)
  /\ UNCHANGED issued

RunTtlCleanup(cutoff) ==
  /\ DeleteExpired(cutoff)
  /\ UNCHANGED <<issued, alarm>>

(* The object is evicted and constructed again: storage and alarm persist. *)
Restart ==
  /\ UNCHANGED <<rows, issued>>
  /\ ScheduleNextCleanupAlarm(alarm)

OneLess(n) == IF n = 0 THEN 0 ELSE n - 1

(* One unit of time passes; what is overdue stays overdue.                 *)
Tick ==
  /\ alarm \notin {NULL, 0} \/ \E k \in RecordKeys : Present(k) /\ rows[k].ttl > 0
  /\ rows' = [k \in RecordKeys |->
                IF Present(k) THEN [rows[k] EXCEPT !.ttl = OneLess(@)] ELSE NoRow]
  /\ alarm' = IF alarm = NULL THEN NULL ELSE OneLess(alarm)
  /\ UNCHANGED issued

-----------------------------------------------------------------------------
Init ==
  /\ rows = [k \in RecordKeys |-> NoRow]
  /\ issued = {}
  /\ alarm = NULL

Acquire(k, token) == AcquireVerifyLease(k, token) \/ AcquireSettleLease(k, token)

(* The methods that present a lease.                                       *)
Resolve(k, gen, token) ==
  \/ CompleteVerify(k, gen, token)
  \/ MarkVerifyUncertain(k, gen, token)
  \/ \E r \in Receipts : CompleteFulfillment(k, gen, token, r)
  \/ MarkSettleUncertain(k, gen, token)
  \/ FailVerifyDefinitive(k, gen, token)
  \/ FailPostVerifyDefinitive(k, gen, token)
  \/ FailSettleDefinitive(k, gen, token)

Housekeeping ==
  AlarmFires \/ (\E c \in Cutoffs : RunTtlCleanup(c)) \/ Restart \/ Tick

Next ==
  \/ \E i \in Inputs : PrepareAttempt(i)
  \/ \E k \in RecordKeys, t \in Tokens : Acquire(k, t)
  \/ \E k \in RecordKeys, g \in Generations, t \in Tokens : Resolve(k, g, t)
  \/ \E k \in RecordKeys, b \in Bodies : StageResponse(k, b)
  \/ Housekeeping

Spec == Init /\ [][Next]_vars

(* The clock advances and the platform delivers a due alarm; it retries a  *)
(* handler that fails.                                                     *)
FairSpec == Spec /\ WF_vars(Tick) /\ WF_vars(AlarmFires)

-----------------------------------------------------------------------------
(* Properties.                                                             *)

(* What the columns of a row may hold together, given its state and the    *)
(* tokens generated so far.                                                *)
WellFormed(row, tokens) ==
  /\ row.kind = NULL <=> row.state \in {"reserved", "fulfilled", "failed-definitive"}
  /\ row.kind = NULL <=> row.token = NULL
  /\ row.token # NULL => row.token \in tokens
  /\ row.kind = "verify" =>
       /\ row.gen = 1
       /\ row.state \in {"verifying", "uncertain", "verified", "computing"}
       /\ row.body # NULL => row.state = "computing"
  /\ row.kind = "settle" => row.gen = 2 /\ row.state \in {"settling", "uncertain"}
  /\ row.state = "reserved" => row.gen = 0 /\ row.body = NULL
  /\ (row.kind = "settle" \/ row.state \in {"computing", "fulfilled"}) =>
       row.body \in StageableBodies
  /\ row.state = "fulfilled" => row.receipt \in ValidReceipts
  /\ row.state # "fulfilled" => row.receipt = NULL

(* The operation columns, the staged body and the receipt always fit the   *)
(* state: a row that waits on an external call (verifying, settling) or    *)
(* lost sight of one (uncertain) keeps the lease that can still resolve    *)
(* it, with the generation that lease was granted under; settling starts   *)
(* from a staged body; a receipt is there in the fulfilled state only      *)
(* (the UPDATE of every method that changes a row).                        *)
LeaseShape == \A k \in RecordKeys : Present(k) => WellFormed(rows[k], issued)

(* A payment identifier and an authorization commitment belong to at most  *)
(* one attempt at a time, whatever mix of duplicates, conflicting requests *)
(* and expiries the table has seen (prepareAttempt and the unique indexes).*)
BindingsExclusive ==
  \A j, k \in RecordKeys :
    Present(j) /\ Present(k) /\ (j[1] = k[1] \/ rows[j].auth = rows[k].auth) => j = k

(* Once an attempt is fulfilled, getReplay never fails to rebuild its      *)
(* answer, and until it expires the status route shows that same answer    *)
(* (getReplay, getStatusByPaymentIdentifier).                              *)
ReplayAlwaysAvailable ==
  \A k \in RecordKeys : Present(k) /\ rows[k].state = "fulfilled" =>
    /\ Replay(k) # NULL
    /\ rows[k].ttl > 0 =>
         StatusOf(k[1]) = [state |-> "fulfilled", result |-> Replay(k).body]

(* The clean-up alarm is never later than the first expiry, so no row is   *)
(* left behind when rows come and go, the alarm handler runs late or the   *)
(* object restarts (scheduleNextCleanupAlarm and its three callers).       *)
AlarmCoversRows ==
  \A k \in RecordKeys : Present(k) => alarm # NULL /\ alarm <= rows[k].ttl

(* The phases of an attempt in the one order it can pass through them.  An *)
(* uncertain row is told apart by the operation it is uncertain about.     *)
Rank(row) ==
  CASE row.state = "reserved"  -> 0
    [] row.state = "verifying" -> 1
    [] row.state = "uncertain" /\ row.kind = "verify" -> 2
    [] row.state = "verified"  -> 3
    [] row.state = "computing" -> 4
    [] row.state = "settling"  -> 5
    [] row.state = "uncertain" /\ row.kind # "verify" -> 6
    [] row.state \in {"fulfilled", "failed-definitive"} -> 7

Advances(old, new) ==
  Rank(new) > Rank(old) \/ new = [old EXCEPT !.ttl = new.ttl]

(* Whatever is called, late, twice or out of order, a row only moves       *)
(* forward: each lease is granted once, and a fulfilled or failed row      *)
(* never changes again.  Time is the only other change (all methods).      *)
PhaseOnlyAdvances ==
  [][\A k \in RecordKeys :
       Present(k) /\ rows'[k] # NoRow => Advances(rows[k], rows'[k])]_vars

SameContent(old, new) ==
  /\ new.auth = old.auth /\ new.details = old.details
  /\ old.body # NULL => new.body = old.body

(* The identity an attempt was reserved with and the body it staged stay   *)
(* what they are while the row exists, so what is settled is what was      *)
(* verified and what is replayed is what was paid for (stageResponse).     *)
ContentFrozen ==
  [][\A k \in RecordKeys :
       Present(k) /\ rows'[k] # NoRow => SameContent(rows[k], rows'[k])]_vars

(* How an attempt looks to PaymentLedger.  Up to the settle lease it is    *)
(* open; a staged body counts from that lease on.                          *)
Outcome(row) ==
  CASE row.state = "fulfilled"         -> "settled"
    [] row.state = "failed-definitive" -> "failed"
    [] row.state = "settling"          -> "settling"
    [] row.state = "uncertain" /\ row.kind = "settle" -> "unresolved"
    [] OTHER                           -> "open"

EntryOf(row) ==
  IF row = NoRow THEN NoRow
  ELSE [ auth    |-> row.auth,
         outcome |-> Outcome(row),
         answer  |-> IF Outcome(row) \in {"open", "failed"} THEN NULL ELSE row.body ]

LedgerView == [k \in RecordKeys |-> EntryOf(rows[k])]

Ledger ==
  INSTANCE PaymentLedger
    WITH None <- NULL, Unbound <- NoRow, ledger <- LedgerView

ASSUME NoRowIsNoEntry == NoRow \notin Ledger!Entry

(* The coordinator keeps the promise of PaymentLedger: one binding per     *)
(* identifier and authorization, one decision to settle, no failure once a *)
(* settlement was lost sight of (every method, the alarm, the clock).      *)
ImplementsLedger == Ledger!Spec

(* Every attempt is forgotten in the end, whatever state it is stuck in    *)
(* (alarm, runTtlCleanup).                                                 *)
AttemptsForgotten == \A k \in RecordKeys : Present(k) ~> ~ Present(k)
=============================================================================
