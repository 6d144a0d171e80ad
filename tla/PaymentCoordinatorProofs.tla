---------------------- MODULE PaymentCoordinatorProofs ----------------------
(***************************************************************************)
(* What holds of the payment coordinator for any identifiers, tokens,      *)
(* bodies and receipts, any number of attempts and any time to live.       *)
(*                                                                         *)
(* The argument has one centre.  Every method that is not prepareAttempt   *)
(* moves a single row, and MethodMoves says of that move all that any of   *)
(* the properties needs; the theorems then treat these ten methods as one  *)
(* case beside prepareAttempt, the deletions, the clock and the restart.   *)
(***************************************************************************)
EXTENDS PaymentCoordinator, TLAPS

(* The methods that change a row that is there.                            *)
Method(k) ==
  \/ \E t \in Tokens : Acquire(k, t)
  \/ \E g \in Generations, t \in Tokens : Resolve(k, g, t)
  \/ \E b \in Bodies : StageResponse(k, b)

(* The ways from one outcome of PaymentLedger to the next.                 *)
OutcomeSteps ==
  { <<"open", "settling">>, <<"settling", "unresolved">>, <<"settling", "settled">>,
    <<"unresolved", "settled">>, <<"open", "failed">>, <<"settling", "failed">> }

(* What such a method does to the row: it brings it forward and leaves its *)
(* identity, its staged body and its expiry alone.                         *)
Moves(old, new) ==
  /\ Rank(new) > Rank(old)
  /\ Outcome(new) = Outcome(old) \/ <<Outcome(old), Outcome(new)>> \in OutcomeSteps
  /\ SameContent(old, new)
  /\ new.ttl = old.ttl

(* The row that a method leaves behind.                                    *)
MovesTo(k, row) ==
  /\ row \in Row
  /\ Put(k, row)
  /\ Moves(rows[k], row)
  /\ WellFormed(row, issued')
  /\ issued \subseteq issued' /\ issued' \subseteq Tokens
  /\ alarm' = alarm

(* A lease is granted to a reserved row, or to one with a staged body.     *)
LEMMA AcquireMoves ==
  ASSUME TypeOK, LeaseShape, NEW k \in RecordKeys, NEW t \in Tokens, Acquire(k, t)
  PROVE  \E row \in Row : MovesTo(k, row)
<1>. USE CoordinatorAssumption
<1>1. Present(k) /\ rows[k] \in Row /\ WellFormed(rows[k], issued)
  BY DEF TypeOK, LeaseShape, Acquire, AcquireVerifyLease, AcquireSettleLease,
         CanAcquireVerifyLease, CanAcquireSettleLease, InState, Present
<1>. USE <1>1
<1>2. rows[k].gen + 1 \in Nat
  BY DEF Row
<1>3. CASE AcquireVerifyLease(k, t)
  <2>. DEFINE row == [rows[k] EXCEPT !.state = "verifying", !.kind = "verify",
                                     !.gen = @ + 1, !.token = t]
  <2>1. Put(k, row) /\ issued' = issued \cup {t} /\ alarm' = alarm
    BY <1>3 DEF AcquireVerifyLease, GrantLease
  <2>2. rows[k].state = "reserved"
    BY <1>3 DEF AcquireVerifyLease, CanAcquireVerifyLease, InState
  <2>3. row \in Row
    BY <1>2 DEF Row, Kinds, States, InProgressStates
  <2>4. WellFormed(row, issued')
    BY <2>1, <2>2 DEF WellFormed, Row
  <2>5. Moves(rows[k], row)
    BY <2>2 DEF Moves, Rank, SameContent, Outcome, OutcomeSteps, Row, Kinds
  <2>. QED
    BY <2>1, <2>3, <2>4, <2>5 DEF MovesTo, TypeOK
<1>4. CASE AcquireSettleLease(k, t)
  <2>. DEFINE row == [rows[k] EXCEPT !.state = "settling", !.kind = "settle",
                                     !.gen = @ + 1, !.token = t]
  <2>1. Put(k, row) /\ issued' = issued \cup {t} /\ alarm' = alarm
    BY <1>4 DEF AcquireSettleLease, GrantLease
  <2>2. rows[k].state = "computing" /\ rows[k].kind = "verify"
    BY <1>4 DEF AcquireSettleLease, CanAcquireSettleLease, InState, WellFormed, Row, Kinds
  <2>3. row \in Row
    BY <1>2 DEF Row, Kinds, States, InProgressStates
  <2>4. WellFormed(row, issued')
    BY <2>1, <2>2 DEF WellFormed, Row, Kinds
  <2>5. Moves(rows[k], row)
    BY <2>2 DEF Moves, Rank, SameContent, Outcome, OutcomeSteps, Row, Kinds
  <2>. QED
    BY <2>1, <2>3, <2>4, <2>5 DEF MovesTo, TypeOK
<1>. QED
  BY <1>3, <1>4 DEF Acquire

(* Every method that presents a lease.                                     *)
LEMMA ResolveMoves ==
  ASSUME TypeOK, LeaseShape, NEW k \in RecordKeys, NEW g \in Generations,
         NEW t \in Tokens, Resolve(k, g, t)
  PROVE  \E row \in Row : MovesTo(k, row)
<1>. USE CoordinatorAssumption
<1>1. Present(k) => rows[k] \in Row /\ WellFormed(rows[k], issued)
  BY DEF TypeOK, LeaseShape, Present
<1>2. ASSUME CompleteVerify(k, g, t) \/ MarkVerifyUncertain(k, g, t)
             \/ MarkSettleUncertain(k, g, t)
      PROVE  \E row \in Row : MovesTo(k, row)
  <2>1. PICK state \in {"verified", "uncertain"} :
          /\ SetState(k, state)
          /\ Present(k)
          /\ \/ /\ rows[k].kind = "verify"
                /\ \/ rows[k].state \in {"verifying", "uncertain"} /\ state = "verified"
                   \/ rows[k].state = "verifying" /\ state = "uncertain"
             \/ /\ rows[k].kind = "settle" /\ rows[k].state = "settling"
                /\ state = "uncertain"
    BY <1>2 DEF CompleteVerify, CanCompleteVerify, MarkVerifyUncertain, VerifyAwaited,
                MarkSettleUncertain, SettleAwaited, InState, HoldsLease
  <2>. DEFINE row == [rows[k] EXCEPT !.state = state]
  <2>2. Put(k, row) /\ issued' = issued /\ alarm' = alarm
    BY <2>1 DEF SetState
  <2>3. row \in Row
    BY <1>1, <2>1 DEF Row, States, InProgressStates
  <2>4. WellFormed(row, issued')
    BY <1>1, <2>1, <2>2 DEF WellFormed, Row, Kinds
  <2>5. Moves(rows[k], row)
    BY <1>1, <2>1 DEF Moves, Rank, SameContent, Outcome, OutcomeSteps, Row, Kinds
  <2>. QED
    BY <2>2, <2>3, <2>4, <2>5 DEF MovesTo, TypeOK
<1>3. ASSUME FailVerifyDefinitive(k, g, t) \/ FailPostVerifyDefinitive(k, g, t)
             \/ FailSettleDefinitive(k, g, t)
      PROVE  \E row \in Row : MovesTo(k, row)
  <2>1. /\ SetFailed(k)
        /\ Present(k)
        /\ rows[k].state \in {"verifying", "verified", "computing", "settling"}
    BY <1>3 DEF FailVerifyDefinitive, VerifyAwaited, FailPostVerifyDefinitive,
                AwaitsSettlement, FailSettleDefinitive, SettleAwaited, InState
  <2>. DEFINE row == [rows[k] EXCEPT !.state = "failed-definitive", !.kind = NULL,
                                     !.token = NULL]
  <2>2. Put(k, row) /\ issued' = issued /\ alarm' = alarm
    BY <2>1 DEF SetFailed
  <2>3. row \in Row
    BY <1>1, <2>1 DEF Row, States, InProgressStates
  <2>4. WellFormed(row, issued')
    BY <1>1, <2>1, <2>2 DEF WellFormed, Row, Kinds
  <2>5. Moves(rows[k], row)
    BY <1>1, <2>1 DEF Moves, Rank, SameContent, Outcome, OutcomeSteps, Row, Kinds
  <2>. QED
    BY <2>2, <2>3, <2>4, <2>5 DEF MovesTo, TypeOK
<1>4. ASSUME NEW r \in Receipts, CompleteFulfillment(k, g, t, r)
      PROVE  \E row \in Row : MovesTo(k, row)
  <2>1. /\ Present(k) /\ rows[k].state \in {"settling", "uncertain"}
        /\ rows[k].kind = "settle" /\ r \in ValidReceipts
    BY <1>4 DEF CompleteFulfillment, CanCompleteFulfillment, InState, HoldsLease
  <2>. DEFINE row == [rows[k] EXCEPT !.state = "fulfilled", !.receipt = r,
                                     !.kind = NULL, !.token = NULL]
  <2>2. Put(k, row) /\ issued' = issued /\ alarm' = alarm
    BY <1>4 DEF CompleteFulfillment
  <2>3. row \in Row
    BY <1>1, <2>1 DEF Row, States, InProgressStates
  <2>4. WellFormed(row, issued')
    BY <1>1, <2>1, <2>2 DEF WellFormed, Row, Kinds
  <2>5. Moves(rows[k], row)
    BY <1>1, <2>1 DEF Moves, Rank, SameContent, Outcome, OutcomeSteps, Row, Kinds
  <2>. QED
    BY <2>2, <2>3, <2>4, <2>5 DEF MovesTo, TypeOK
<1>. QED
  BY <1>2, <1>3, <1>4 DEF Resolve

(* A response is staged in a verified row, which has none.                 *)
LEMMA StageMoves ==
  ASSUME TypeOK, LeaseShape, NEW k \in RecordKeys, NEW b \in Bodies, StageResponse(k, b)
  PROVE  \E row \in Row : MovesTo(k, row)
<1>. USE CoordinatorAssumption
<1>1. /\ Present(k) /\ rows[k].state = "verified" /\ b \in StageableBodies
      /\ rows[k] \in Row /\ WellFormed(rows[k], issued)
  BY DEF TypeOK, LeaseShape, Present, StageResponse, CanStageResponse, InState
<1>. DEFINE row == [rows[k] EXCEPT !.state = "computing", !.body = b]
<1>2. Put(k, row) /\ issued' = issued /\ alarm' = alarm
  BY DEF StageResponse
<1>3. row \in Row
  BY <1>1 DEF Row, States, InProgressStates
<1>4. WellFormed(row, issued')
  BY <1>1, <1>2 DEF WellFormed, Row, Kinds
<1>5. rows[k].kind = "verify" /\ rows[k].body = NULL
  BY <1>1 DEF WellFormed, Row, Kinds
<1>6. Moves(rows[k], row)
  BY <1>1, <1>5 DEF Moves, Rank, SameContent, Outcome, OutcomeSteps, Row, Kinds
<1>. QED
  BY <1>2, <1>3, <1>4, <1>6 DEF MovesTo, TypeOK

(* All that the theorems need to know of the ten methods.                  *)
LEMMA MethodMoves ==
  ASSUME TypeOK, LeaseShape, NEW k \in RecordKeys, Method(k)
  PROVE  Present(k) /\ \E row \in Row : MovesTo(k, row)
<1>1. Present(k)
  BY DEF Method, Acquire, AcquireVerifyLease, AcquireSettleLease, CanAcquireVerifyLease,
         CanAcquireSettleLease, Resolve, CompleteVerify, CanCompleteVerify,
         MarkVerifyUncertain, FailVerifyDefinitive, VerifyAwaited, CompleteFulfillment,
         CanCompleteFulfillment, MarkSettleUncertain, FailSettleDefinitive, SettleAwaited,
         FailPostVerifyDefinitive, AwaitsSettlement, StageResponse, CanStageResponse, InState
<1>. QED
  BY <1>1, AcquireMoves, ResolveMoves, StageMoves DEF Method

-----------------------------------------------------------------------------
(* Deletions, the clock, a restart and a stuttering step only take rows    *)
(* away or shorten the time they have left.                                *)
Ages ==
  \A k \in RecordKeys : rows'[k] # NoRow =>
    /\ Present(k)
    /\ \E n \in 0 .. RecordTtl : rows'[k] = [rows[k] EXCEPT !.ttl = n]

(* The alarm is in range and early enough after it has been scheduled.     *)
LEMMA ScheduledAlarm ==
  ASSUME rows' \in [RecordKeys -> Row \cup {NoRow}],
         NEW pending \in 0 .. RecordTtl \cup {NULL}, ScheduleNextCleanupAlarm(pending)
  PROVE  alarm' \in 0 .. RecordTtl \cup {NULL} /\ AlarmCoversRows'
<1>. USE CoordinatorAssumption
<1>1. CASE \A k \in RecordKeys : rows'[k] = NoRow
  BY <1>1 DEF ScheduleNextCleanupAlarm, AlarmCoversRows, Present
<1>2. CASE ~ \A k \in RecordKeys : rows'[k] = NoRow
  <2>1. PICK k \in RecordKeys :
          /\ rows'[k] # NoRow
          /\ \A j \in RecordKeys : rows'[j] # NoRow => rows'[k].ttl <= rows'[j].ttl
          /\ alarm' = rows'[k].ttl
    BY <1>2 DEF ScheduleNextCleanupAlarm
  <2>2. alarm' \in 0 .. RecordTtl
    BY <2>1 DEF Row
  <2>. QED
    BY <2>1, <2>2 DEF AlarmCoversRows, Present
<1>. QED
  BY <1>1, <1>2

(* A deletion keeps the rows that have not expired as they are.            *)
LEMMA DeletionAges ==
  ASSUME TypeOK, NEW cutoff \in Nat, DeleteExpired(cutoff)
  PROVE  /\ rows' \in [RecordKeys -> Row \cup {NoRow}]
         /\ \A k \in RecordKeys : rows'[k] # NoRow => Present(k) /\ rows'[k] = rows[k]
         /\ Ages
<1>1. rows' \in [RecordKeys -> Row \cup {NoRow}]
  BY DEF TypeOK, DeleteExpired
<1>2. ASSUME NEW k \in RecordKeys, rows'[k] # NoRow
      PROVE  Present(k) /\ rows'[k] = rows[k]
  BY <1>2 DEF DeleteExpired
<1>3. ASSUME NEW k \in RecordKeys, Present(k)
      PROVE  rows[k].ttl \in 0 .. RecordTtl /\ rows[k] = [rows[k] EXCEPT !.ttl = rows[k].ttl]
  BY <1>3 DEF TypeOK, Present, Row
<1>. QED
  BY <1>1, <1>2, <1>3 DEF Ages

(* One tick shortens every row, and the alarm by as much.                  *)
LEMMA TickAges ==
  ASSUME TypeOK, Tick
  PROVE  /\ rows' \in [RecordKeys -> Row \cup {NoRow}]
         /\ alarm' \in 0 .. RecordTtl \cup {NULL}
         /\ Ages
         /\ AlarmCoversRows => AlarmCoversRows'
<1>. USE CoordinatorAssumption
<1>1. ASSUME NEW n \in 0 .. RecordTtl
      PROVE  OneLess(n) \in 0 .. RecordTtl /\ \A m \in 0 .. RecordTtl :
               n <= m => OneLess(n) <= OneLess(m)
  BY DEF OneLess
<1>2. ASSUME NEW k \in RecordKeys, Present(k)
      PROVE  /\ rows'[k] = [rows[k] EXCEPT !.ttl = OneLess(rows[k].ttl)]
             /\ rows[k] \in Row /\ rows[k].ttl \in 0 .. RecordTtl
             /\ rows'[k] \in Row /\ rows'[k].ttl = OneLess(rows[k].ttl)
  <2>1. rows'[k] = [rows[k] EXCEPT !.ttl = OneLess(rows[k].ttl)]
    BY <1>2 DEF Tick
  <2>2. rows[k] \in Row /\ rows[k].ttl \in 0 .. RecordTtl
    BY <1>2 DEF TypeOK, Present, Row
  <2>3. OneLess(rows[k].ttl) \in 0 .. RecordTtl
    BY <1>1, <2>2
  <2>. QED
    BY <2>1, <2>2, <2>3 DEF Row
<1>3. ASSUME NEW k \in RecordKeys, ~ Present(k) PROVE rows'[k] = NoRow
  BY <1>3 DEF Tick
<1>4. rows' \in [RecordKeys -> Row \cup {NoRow}]
  BY <1>2, <1>3 DEF Tick
<1>5. alarm' \in 0 .. RecordTtl \cup {NULL}
  BY <1>1 DEF Tick, TypeOK
<1>6. Ages
  BY <1>1, <1>2, <1>3 DEF Ages
<1>7. ASSUME AlarmCoversRows PROVE AlarmCoversRows'
  <2>. SUFFICES ASSUME NEW k \in RecordKeys, Present(k)
                PROVE  alarm' # NULL /\ alarm' <= rows'[k].ttl
    BY <1>3 DEF AlarmCoversRows, Present
  <2>1. alarm \in 0 .. RecordTtl /\ alarm # NULL /\ alarm <= rows[k].ttl
    BY <1>7 DEF AlarmCoversRows, TypeOK
  <2>2. alarm' = OneLess(alarm) /\ OneLess(alarm) \in 0 .. RecordTtl
    BY <1>1, <2>1 DEF Tick
  <2>3. rows[k].ttl \in 0 .. RecordTtl /\ rows'[k].ttl = OneLess(rows[k].ttl)
    BY <1>2
  <2>4. OneLess(alarm) <= OneLess(rows[k].ttl)
    BY <1>1, <2>1, <2>3
  <2>. QED
    BY <2>2, <2>3, <2>4
<1>. QED
  BY <1>4, <1>5, <1>6, <1>7

(* All that the theorems need to know of the steps that call no method.    *)
LEMMA HousekeepingAges ==
  ASSUME TypeOK, Housekeeping \/ UNCHANGED vars
  PROVE  /\ rows' \in [RecordKeys -> Row \cup {NoRow}]
         /\ alarm' \in 0 .. RecordTtl \cup {NULL}
         /\ issued' = issued
         /\ Ages
         /\ AlarmCoversRows => AlarmCoversRows'
<1>. USE CoordinatorAssumption
<1>1. CASE AlarmFires
  BY <1>1, DeletionAges, ScheduledAlarm DEF AlarmFires
<1>2. CASE \E c \in Cutoffs : RunTtlCleanup(c)
  <2>1. PICK c \in Cutoffs : RunTtlCleanup(c)
    BY <1>2
  <2>2. DeleteExpired(c) /\ UNCHANGED <<issued, alarm>> /\ c \in Nat
    BY <2>1 DEF RunTtlCleanup
  <2>. QED
    BY <2>2, DeletionAges DEF TypeOK, AlarmCoversRows, Present
<1>3. ASSUME UNCHANGED rows PROVE Ages
  <2>1. ASSUME NEW k \in RecordKeys, Present(k)
        PROVE  rows[k].ttl \in 0 .. RecordTtl /\ rows[k] = [rows[k] EXCEPT !.ttl = rows[k].ttl]
    BY <2>1 DEF TypeOK, Present, Row
  <2>. QED
    BY <1>3, <2>1 DEF Ages, Present
<1>4. CASE Restart
  BY <1>3, <1>4, ScheduledAlarm DEF Restart, TypeOK
<1>5. CASE Tick
  BY <1>5, TickAges DEF Tick
<1>6. CASE UNCHANGED vars
  BY <1>3, <1>6 DEF vars, TypeOK, AlarmCoversRows, Present
<1>. QED
  BY <1>1, <1>2, <1>4, <1>5, <1>6 DEF Housekeeping

-----------------------------------------------------------------------------
(* The inductive invariant.  LeaseShape is what makes the methods move a   *)
(* row the right way; the other two need it only through MethodMoves.      *)
CoordinatorInv == TypeOK /\ LeaseShape /\ BindingsExclusive /\ AlarmCoversRows

(* One row is written, the others stay.                                    *)
LEMMA PutRow ==
  ASSUME TypeOK, NEW k \in RecordKeys, NEW row \in Row, Put(k, row)
  PROVE  /\ rows' \in [RecordKeys -> Row \cup {NoRow}]
         /\ rows'[k] = row /\ rows'[k] # NoRow
         /\ \A j \in RecordKeys \ {k} : rows'[j] = rows[j]
BY CoordinatorAssumption DEF TypeOK, Put

(* A row that fits keeps fitting when more tokens are issued.              *)
LEMMA FitsWithMoreTokens ==
  ASSUME NEW row \in Row, NEW S, NEW T, S \subseteq T, WellFormed(row, S)
  PROVE  WellFormed(row, T)
BY DEF WellFormed

(* Neither the time left nor anything else of LeaseShape is tied to ttl.   *)
LEMMA FitsWhateverTheTime ==
  ASSUME NEW row \in Row, NEW S, NEW n, WellFormed(row, S)
  PROVE  WellFormed([row EXCEPT !.ttl = n], S)
BY DEF WellFormed, Row

LEMMA NextCases ==
  [Next]_vars <=> \/ \E i \in Inputs : PrepareAttempt(i)
                  \/ \E k \in RecordKeys : Method(k)
                  \/ Housekeeping \/ UNCHANGED vars
BY DEF Next, Method

(* prepareAttempt inserts a well-formed row with bindings nobody holds and *)
(* schedules the alarm.                                                    *)
LEMMA PrepareKeepsInv ==
  ASSUME CoordinatorInv, NEW i \in Inputs, PrepareAttempt(i)
  PROVE  CoordinatorInv'
<1>. USE CoordinatorAssumption DEF CoordinatorInv
<1>1. KeyOf(i) \in RecordKeys /\ NewRow(i) \in Row
  BY DEF KeyOf, NewRow, Inputs, RecordKeys, Row, States, InProgressStates
<1>2. /\ rows' \in [RecordKeys -> Row \cup {NoRow}]
      /\ rows'[KeyOf(i)] = NewRow(i) /\ rows'[KeyOf(i)] # NoRow
      /\ \A j \in RecordKeys \ {KeyOf(i)} : rows'[j] = rows[j]
  BY <1>1, PutRow DEF PrepareAttempt
<1>3. alarm' \in 0 .. RecordTtl \cup {NULL} /\ AlarmCoversRows'
  BY <1>2, ScheduledAlarm DEF PrepareAttempt, TypeOK
<1>4. TypeOK'
  BY <1>2, <1>3 DEF TypeOK, PrepareAttempt
<1>5. LeaseShape'
  <2>1. WellFormed(NewRow(i), issued)
    BY DEF WellFormed, NewRow, Kinds
  <2>. QED
    BY <1>2, <2>1 DEF LeaseShape, Present, PrepareAttempt
<1>6. BindingsExclusive'
  <2>1. \A j \in RecordKeys : Present(j) => j[1] # i.pid /\ rows[j].auth # i.auth
    BY DEF PrepareAttempt, RowsByPaymentIdentifier, RowsByAuthCommitment
  <2>2. KeyOf(i)[1] = i.pid /\ NewRow(i).auth = i.auth
    BY DEF KeyOf, NewRow
  <2>. QED
    BY <1>2, <2>1, <2>2 DEF BindingsExclusive, Present
<1>. QED
  BY <1>3, <1>4, <1>5, <1>6

(* A method writes one row, which keeps its bindings and its expiry.       *)
LEMMA MethodKeepsInv ==
  ASSUME CoordinatorInv, NEW k \in RecordKeys, Method(k)
  PROVE  CoordinatorInv'
<1>. USE DEF CoordinatorInv
<1>1. Present(k)
  BY MethodMoves
<1>2. PICK row \in Row : MovesTo(k, row)
  BY MethodMoves
<1>3. /\ rows' \in [RecordKeys -> Row \cup {NoRow}]
      /\ rows'[k] = row
      /\ \A j \in RecordKeys \ {k} : rows'[j] = rows[j]
  BY <1>2, PutRow DEF MovesTo
<1>4. /\ row.auth = rows[k].auth /\ row.ttl = rows[k].ttl
      /\ WellFormed(row, issued') /\ issued \subseteq issued' /\ issued' \subseteq Tokens
      /\ alarm' = alarm
  BY <1>2 DEF MovesTo, Moves, SameContent
<1>5. \A j \in RecordKeys : rows'[j] # NoRow =>
        Present(j) /\ rows'[j].auth = rows[j].auth /\ rows'[j].ttl = rows[j].ttl
  BY <1>1, <1>3, <1>4 DEF Present
<1>6. TypeOK'
  BY <1>3, <1>4 DEF TypeOK
<1>7. LeaseShape'
  <2>1. ASSUME NEW j \in RecordKeys, j # k, rows'[j] # NoRow
        PROVE  WellFormed(rows'[j], issued')
    <3>1. rows'[j] = rows[j] /\ rows[j] \in Row /\ WellFormed(rows[j], issued)
      BY <1>3, <2>1 DEF LeaseShape, Present, TypeOK
    <3>. QED
      BY <1>4, <3>1, FitsWithMoreTokens
  <2>. QED
    BY <1>3, <1>4, <2>1 DEF LeaseShape, Present
<1>8. BindingsExclusive'
  BY <1>5 DEF BindingsExclusive, Present
<1>9. AlarmCoversRows'
  BY <1>4, <1>5 DEF AlarmCoversRows, Present
<1>. QED
  BY <1>6, <1>7, <1>8, <1>9

LEMMA HousekeepingKeepsInv ==
  ASSUME CoordinatorInv, Housekeeping \/ UNCHANGED vars
  PROVE  CoordinatorInv'
<1>. USE DEF CoordinatorInv
<1>1. /\ rows' \in [RecordKeys -> Row \cup {NoRow}]
      /\ alarm' \in 0 .. RecordTtl \cup {NULL}
      /\ issued' = issued
      /\ Ages
      /\ AlarmCoversRows'
  BY HousekeepingAges
<1>2. TypeOK'
  BY <1>1 DEF TypeOK
<1>3. LeaseShape'
  <2>1. ASSUME NEW k \in RecordKeys, rows'[k] # NoRow
        PROVE  WellFormed(rows'[k], issued')
    <3>1. Present(k) /\ rows[k] \in Row /\ WellFormed(rows[k], issued)
      BY <1>1, <2>1 DEF Ages, LeaseShape, Present, TypeOK
    <3>2. PICK n \in 0 .. RecordTtl : rows'[k] = [rows[k] EXCEPT !.ttl = n]
      BY <1>1, <2>1 DEF Ages
    <3>. QED
      BY <1>1, <3>1, <3>2, FitsWhateverTheTime
  <2>. QED
    BY <2>1 DEF LeaseShape, Present
<1>4. BindingsExclusive'
  <2>1. ASSUME NEW k \in RecordKeys, rows'[k] # NoRow
        PROVE  Present(k) /\ rows'[k].auth = rows[k].auth
    <3>1. PICK n \in 0 .. RecordTtl : rows'[k] = [rows[k] EXCEPT !.ttl = n]
      BY <1>1, <2>1 DEF Ages
    <3>. QED
      BY <1>1, <2>1, <3>1 DEF Ages, TypeOK, Present, Row
  <2>. QED
    BY <2>1 DEF BindingsExclusive, Present
<1>. QED
  BY <1>1, <1>2, <1>3, <1>4

(* The table starts empty, and every step keeps the invariant.             *)
THEOREM Invariance == Spec => []CoordinatorInv
<1>1. Init => CoordinatorInv
  BY CoordinatorAssumption
     DEF Init, CoordinatorInv, TypeOK, LeaseShape, BindingsExclusive, AlarmCoversRows, Present
<1>2. CoordinatorInv /\ [Next]_vars => CoordinatorInv'
  BY NextCases, PrepareKeepsInv, MethodKeepsInv, HousekeepingKeepsInv
<1>. QED
  BY <1>1, <1>2, PTL DEF Spec

(* TypeOK: every column stays in its range.                                *)
THEOREM TypeCorrect == Spec => []TypeOK
BY Invariance, PTL DEF CoordinatorInv

(* LeaseShape: the operation columns, the body and the receipt fit the     *)
(* state of every row.                                                     *)
THEOREM LeasesFit == Spec => []LeaseShape
BY Invariance, PTL DEF CoordinatorInv

(* BindingsExclusive: no identifier and no authorization has two attempts. *)
THEOREM OneAttemptPerPayment == Spec => []BindingsExclusive
BY Invariance, PTL DEF CoordinatorInv

(* AlarmCoversRows: the clean-up alarm never comes after an expiry.        *)
THEOREM AlarmInTime == Spec => []AlarmCoversRows
BY Invariance, PTL DEF CoordinatorInv

(* ReplayAlwaysAvailable: a fulfilled row has all that its replay needs,   *)
(* and the look-up by identifier finds that row and no other.              *)
THEOREM FulfilledReplays == Spec => []ReplayAlwaysAvailable
<1>1. CoordinatorInv => ReplayAlwaysAvailable
  <2>. SUFFICES ASSUME CoordinatorInv, NEW k \in RecordKeys, Present(k),
                       rows[k].state = "fulfilled"
                PROVE  /\ Replay(k) # NULL
                       /\ rows[k].ttl > 0 =>
                            StatusOf(k[1]) = [ state |-> "fulfilled",
                                               result |-> Replay(k).body ]
    BY DEF ReplayAlwaysAvailable
  <2>1. rows[k].body \in Bodies /\ rows[k].receipt \in Receipts /\ rows[k].receipt \in ValidReceipts
    BY CoordinatorAssumption DEF CoordinatorInv, LeaseShape, WellFormed
  <2>2. Replay(k) = [body |-> rows[k].body, receipt |-> rows[k].receipt]
    BY <2>1, CoordinatorAssumption DEF Replay
  <2>3. Replay(k) # NULL
    BY <2>1, <2>2, CoordinatorAssumption
  <2>4. ASSUME rows[k].ttl > 0
        PROVE  StatusOf(k[1]) = [state |-> "fulfilled", result |-> Replay(k).body]
    <3>. DEFINE unexpired == {j \in RowsByPaymentIdentifier(k[1]) : rows[j].ttl > 0}
    <3>1. unexpired = {k}
      BY <2>4 DEF RowsByPaymentIdentifier, CoordinatorInv, BindingsExclusive
    <3>2. (CHOOSE j \in unexpired : TRUE) = k
      BY <3>1
    <3>. QED
      BY <2>2, <3>1, <3>2 DEF StatusOf
  <2>. QED
    BY <2>3, <2>4
<1>. QED
  BY <1>1, Invariance, PTL

-----------------------------------------------------------------------------
(* Steps.                                                                  *)

(* A row that is still there after a step advanced, or aged, or is as it   *)
(* was; its identity and its staged body are the same in every case.       *)
LEMMA RowsAdvance ==
  ASSUME CoordinatorInv, [Next]_vars, NEW k \in RecordKeys, Present(k), rows'[k] # NoRow
  PROVE  Advances(rows[k], rows'[k]) /\ SameContent(rows[k], rows'[k])
<1>. USE DEF CoordinatorInv
<1>0. rows[k] \in Row
  BY DEF TypeOK, Present
<1>1. ASSUME NEW n, rows'[k] = [rows[k] EXCEPT !.ttl = n]
      PROVE  Advances(rows[k], rows'[k]) /\ SameContent(rows[k], rows'[k])
  BY <1>0, <1>1 DEF Advances, SameContent, Row
<1>2. ASSUME rows'[k] = rows[k]
      PROVE  Advances(rows[k], rows'[k]) /\ SameContent(rows[k], rows'[k])
  <2>1. rows'[k] = [rows[k] EXCEPT !.ttl = rows[k].ttl]
    BY <1>0, <1>2 DEF Row
  <2>. QED
    BY <1>1, <2>1
<1>3. CASE \E i \in Inputs : PrepareAttempt(i)
  <2>1. PICK i \in Inputs : PrepareAttempt(i)
    BY <1>3
  <2>2. KeyOf(i) \in RecordKeys /\ NewRow(i) \in Row /\ KeyOf(i) # k
    BY <2>1, CoordinatorAssumption
       DEF KeyOf, NewRow, Inputs, RecordKeys, Row, States, InProgressStates,
           PrepareAttempt, RowsByPaymentIdentifier
  <2>. QED
    BY <1>2, <2>1, <2>2, PutRow DEF PrepareAttempt
<1>4. CASE \E j \in RecordKeys : Method(j)
  <2>1. PICK j \in RecordKeys : Method(j)
    BY <1>4
  <2>2. PICK row \in Row : MovesTo(j, row)
    BY <2>1, MethodMoves
  <2>3. rows'[j] = row /\ (k # j => rows'[k] = rows[k])
    BY <2>2, PutRow DEF MovesTo
  <2>. QED
    BY <1>2, <2>2, <2>3 DEF MovesTo, Moves, Advances
<1>5. CASE Housekeeping \/ UNCHANGED vars
  BY <1>1, <1>5, HousekeepingAges DEF Ages
<1>. QED
  BY <1>3, <1>4, <1>5, NextCases

(* PhaseOnlyAdvances: no call, however late, brings a row back.            *)
THEOREM PhasesAdvance == Spec => PhaseOnlyAdvances
<1>1. CoordinatorInv /\ [Next]_vars =>
        [\A k \in RecordKeys :
           Present(k) /\ rows'[k] # NoRow => Advances(rows[k], rows'[k])]_vars
  BY RowsAdvance
<1>. QED
  BY <1>1, Invariance, PTL DEF Spec, PhaseOnlyAdvances

(* ContentFrozen: what was reserved and staged is what is settled and      *)
(* replayed.                                                               *)
THEOREM ContentStays == Spec => ContentFrozen
<1>1. CoordinatorInv /\ [Next]_vars =>
        [\A k \in RecordKeys :
           Present(k) /\ rows'[k] # NoRow => SameContent(rows[k], rows'[k])]_vars
  BY RowsAdvance
<1>. QED
  BY <1>1, Invariance, PTL DEF Spec, ContentFrozen

-----------------------------------------------------------------------------
(* The refinement of PaymentLedger, with the ledger seen through           *)
(* LedgerView.                                                             *)

LEMMA RecordKeysAreAttempts == RecordKeys = Ledger!Attempts
BY DEF RecordKeys, Ledger!Attempts

(* An attempt is bound in the ledger exactly when its row is there.        *)
LEMMA EntryOfRow ==
  ASSUME NEW row \in Row, NEW S, WellFormed(row, S)
  PROVE  /\ EntryOf(row) # NoRow /\ EntryOf(row) \in Ledger!Entry
         /\ EntryOf(row).auth = row.auth
         /\ EntryOf(row).outcome = Outcome(row)
         /\ Outcome(row) \in Ledger!Outcomes
         /\ Outcome(row) \notin {"open", "failed"} => row.body \in Bodies
<1>. USE CoordinatorAssumption
<1>1. Outcome(row) \in Ledger!Outcomes
  BY DEF Outcome, Ledger!Outcomes
<1>2. Outcome(row) \notin {"open", "failed"} => row.body \in Bodies
  BY DEF Outcome, WellFormed, Row, States, InProgressStates, Kinds
<1>3. EntryOf(row) \in Ledger!Entry
  BY <1>1, <1>2 DEF EntryOf, Ledger!Entry, Row
<1>. QED
  BY <1>1, <1>2, <1>3, NoRowIsNoEntry DEF EntryOf

(* An entry is determined by its binding, its outcome and its answer.      *)
LEMMA EntryEdited ==
  ASSUME NEW old \in Ledger!Entry, NEW new \in Ledger!Entry, new.auth = old.auth
  PROVE  /\ new = [old EXCEPT !.outcome = new.outcome, !.answer = new.answer]
         /\ new.answer = old.answer => new = [old EXCEPT !.outcome = new.outcome]
<1>1. [old EXCEPT !.outcome = new.outcome, !.answer = new.answer] \in Ledger!Entry
  BY DEF Ledger!Entry
<1>2. [old EXCEPT !.outcome = new.outcome] \in Ledger!Entry
  BY DEF Ledger!Entry
<1>. QED
  BY <1>1, <1>2 DEF Ledger!Entry

(* prepareAttempt binds an attempt whose identifier and authorization are  *)
(* free.                                                                   *)
LEMMA PrepareRefines ==
  ASSUME CoordinatorInv, NEW i \in Inputs, PrepareAttempt(i)
  PROVE  Ledger!Next
<1>. USE CoordinatorAssumption DEF CoordinatorInv
<1>1. KeyOf(i) \in RecordKeys /\ NewRow(i) \in Row /\ i.auth \in Auths
  BY DEF KeyOf, NewRow, Inputs, RecordKeys, Row, States, InProgressStates
<1>2. EntryOf(NewRow(i)) = [auth |-> i.auth, outcome |-> "open", answer |-> NULL]
  BY <1>1 DEF EntryOf, NewRow, Outcome
<1>3. LedgerView' = [LedgerView EXCEPT ![KeyOf(i)] = EntryOf(NewRow(i))]
  BY <1>1, PutRow DEF PrepareAttempt, LedgerView, Put, TypeOK
<1>4. ASSUME NEW b \in Ledger!Bound
      PROVE  b[1] # KeyOf(i)[1] /\ LedgerView[b].auth # i.auth
  <2>1. b \in RecordKeys /\ Present(b)
    BY <1>4, RecordKeysAreAttempts DEF Ledger!Bound, LedgerView, EntryOf, Present
  <2>2. LedgerView[b].auth = rows[b].auth
    BY <2>1, EntryOfRow DEF LedgerView, TypeOK, LeaseShape, Present
  <2>. QED
    BY <2>1, <2>2 DEF PrepareAttempt, RowsByPaymentIdentifier, RowsByAuthCommitment, KeyOf
<1>5. Ledger!Bind(KeyOf(i), i.auth)
  BY <1>2, <1>3, <1>4 DEF Ledger!Bind
<1>. QED
  BY <1>1, <1>5, RecordKeysAreAttempts DEF Ledger!Next

(* A method moves one entry along OutcomeSteps, or leaves it as it is.     *)
LEMMA MethodRefines ==
  ASSUME CoordinatorInv, NEW k \in RecordKeys, Method(k)
  PROVE  [Ledger!Next]_LedgerView
<1>. USE DEF CoordinatorInv
<1>1. Present(k) /\ rows[k] \in Row /\ WellFormed(rows[k], issued)
  BY MethodMoves DEF TypeOK, LeaseShape, Present
<1>2. PICK row \in Row : MovesTo(k, row)
  BY MethodMoves
<1>. DEFINE old == rows[k]
<1>3. LedgerView' = [LedgerView EXCEPT ![k] = EntryOf(row)]
  BY <1>2, PutRow DEF MovesTo, LedgerView, Put, TypeOK
<1>4. /\ SameContent(old, row)
      /\ Outcome(row) = Outcome(old) \/ <<Outcome(old), Outcome(row)>> \in OutcomeSteps
      /\ WellFormed(row, issued')
  BY <1>2 DEF MovesTo, Moves
<1>5. /\ k \in Ledger!Bound /\ k \in Ledger!Attempts
      /\ LedgerView[k] = EntryOf(old) /\ LedgerView[k].outcome = Outcome(old)
  BY <1>1, EntryOfRow, RecordKeysAreAttempts DEF Ledger!Bound, LedgerView
<1>6. /\ EntryOf(old) = [ auth |-> old.auth, outcome |-> Outcome(old),
                          answer |-> IF Outcome(old) \in {"open", "failed"}
                                     THEN NULL ELSE old.body ]
      /\ EntryOf(row) = [ auth |-> old.auth, outcome |-> Outcome(row),
                          answer |-> IF Outcome(row) \in {"open", "failed"}
                                     THEN NULL ELSE row.body ]
  BY <1>1, <1>4, CoordinatorAssumption DEF EntryOf, SameContent
<1>7. Outcome(old) \notin {"open", "failed"} => row.body = old.body
  BY <1>1, <1>4, EntryOfRow, CoordinatorAssumption DEF SameContent
<1>8. CASE Outcome(row) = Outcome(old)
  <2>1. EntryOf(row) = EntryOf(old)
    BY <1>6, <1>7, <1>8
  <2>. QED
    BY <1>3, <1>5, <2>1 DEF LedgerView
<1>9. ASSUME Outcome(row) # Outcome(old)
      PROVE  Ledger!Next
  <2>. DEFINE new == EntryOf(row)
  <2>1. /\ EntryOf(old) \in Ledger!Entry /\ new \in Ledger!Entry
        /\ new.auth = EntryOf(old).auth /\ new.outcome = Outcome(row)
    BY <1>1, <1>4, EntryOfRow DEF SameContent
  <2>2. LedgerView' = [LedgerView EXCEPT ![k] =
                        [@ EXCEPT !.outcome = new.outcome, !.answer = new.answer]]
    <3>1. new = [EntryOf(old) EXCEPT !.outcome = new.outcome, !.answer = new.answer]
      BY <2>1, EntryEdited
    <3>2. new = [LedgerView[k] EXCEPT !.outcome = new.outcome, !.answer = new.answer]
      BY <1>5, <3>1
    <3>. QED
      BY <1>3, <3>2, Zenon
  <2>3. CASE Outcome(old) = "open" /\ Outcome(row) = "settling"
    <3>1. new.answer = row.body /\ row.body \in Bodies
      BY <1>4, <1>6, <2>3, EntryOfRow
    <3>2. Ledger!DecideToSettle(k, row.body)
      BY <1>5, <2>1, <2>2, <2>3, <3>1 DEF Ledger!DecideToSettle
    <3>. QED
      BY <1>5, <3>1, <3>2 DEF Ledger!Next
  <2>4. CASE /\ Outcome(old) \in {"settling", "unresolved"}
             /\ Outcome(row) \in {"unresolved", "settled"}
    <3>1. new.answer = EntryOf(old).answer
      BY <1>6, <1>7, <2>4
    <3>2. LedgerView' = [LedgerView EXCEPT ![k] = [@ EXCEPT !.outcome = Outcome(row)]]
      BY <1>3, <1>5, <2>1, <3>1, EntryEdited
    <3>3. CASE Outcome(row) = "unresolved"
      <4>1. Outcome(old) = "settling"
        BY <1>4, <1>9, <2>4, <3>3 DEF OutcomeSteps
      <4>2. Ledger!LoseSight(k)
        BY <1>5, <3>2, <3>3, <4>1 DEF Ledger!LoseSight, Ledger!Move
      <4>. QED
        BY <1>5, <4>2 DEF Ledger!Next
    <3>4. CASE Outcome(row) = "settled"
      <4>1. Ledger!Settle(k)
        BY <1>5, <2>4, <3>2, <3>4 DEF Ledger!Settle, Ledger!Move
      <4>. QED
        BY <1>5, <4>1 DEF Ledger!Next
    <3>. QED
      BY <2>4, <3>3, <3>4
  <2>5. CASE Outcome(old) \in {"open", "settling"} /\ Outcome(row) = "failed"
    <3>1. new.answer = NULL
      BY <1>6, <2>5
    <3>2. Ledger!Fail(k)
      BY <1>5, <2>1, <2>2, <2>5, <3>1 DEF Ledger!Fail
    <3>. QED
      BY <1>5, <3>2 DEF Ledger!Next
  <2>. QED
    BY <1>4, <1>9, <2>3, <2>4, <2>5 DEF OutcomeSteps
<1>. QED
  BY <1>8, <1>9

(* Deleted rows are forgotten; the passing of time is not seen.            *)
LEMMA HousekeepingRefines ==
  ASSUME CoordinatorInv, Housekeeping \/ UNCHANGED vars
  PROVE  Ledger!Next
<1>. USE DEF CoordinatorInv
<1>. DEFINE gone == {k \in RecordKeys : rows'[k] = NoRow}
<1>1. ASSUME NEW k \in RecordKeys, k \notin gone
      PROVE  EntryOf(rows'[k]) = EntryOf(rows[k])
  <2>1. PICK n \in 0 .. RecordTtl : rows'[k] = [rows[k] EXCEPT !.ttl = n]
    BY <1>1, HousekeepingAges DEF Ages
  <2>2. Present(k) /\ rows[k] \in Row
    BY <1>1, HousekeepingAges DEF Ages, TypeOK, Present
  <2>. QED
    BY <1>1, <2>1, <2>2 DEF EntryOf, Outcome, Row, Present
<1>2. ASSUME NEW k \in gone PROVE EntryOf(rows'[k]) = NoRow
  BY DEF EntryOf
<1>3. Ledger!Forget(gone)
  BY <1>1, <1>2, RecordKeysAreAttempts DEF Ledger!Forget, LedgerView
<1>4. gone \in SUBSET Ledger!Attempts
  BY RecordKeysAreAttempts
<1>. QED
  BY <1>3, <1>4 DEF Ledger!Next

(* ImplementsLedger: the coordinator keeps the promise of PaymentLedger.   *)
THEOREM Refinement == Spec => ImplementsLedger
<1>1. Init => Ledger!Init
  BY RecordKeysAreAttempts DEF Init, Ledger!Init, LedgerView, EntryOf
<1>2. CoordinatorInv /\ [Next]_vars => [Ledger!Next]_LedgerView
  BY NextCases, PrepareRefines, MethodRefines, HousekeepingRefines
<1>. QED
  BY <1>1, <1>2, Invariance, PTL DEF Spec, ImplementsLedger, Ledger!Spec
=============================================================================
