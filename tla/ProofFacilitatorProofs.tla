----------------------- MODULE ProofFacilitatorProofs -----------------------
(***************************************************************************)
(* Proofs about ProofFacilitator, for any set of calls, any timeout and    *)
(* any limits.                                                             *)
(*                                                                         *)
(* Shape says how a call has come to where it is: one request was sent     *)
(* unless it is idle, a waiting call has its timer armed and is not older  *)
(* than the timeout, and the facilitator decides about sent requests only. *)
(* With the types it is inductive; the bound of the wait follows, and so   *)
(* does the refinement of FacilitatorPort, step by step.                   *)
(***************************************************************************)
EXTENDS ProofFacilitator, TLAPS

Shape(c) ==
  /\ call[c].sent = IF At(c, "idle") THEN 0 ELSE 1
  /\ At(c, "idle") => call[c].age = 0
  /\ At(c, "waiting") => call[c].timer /\ call[c].age <= Timeout
  /\ decision[c] # "open" => ~ At(c, "idle")

IInv == AdapterTypeOK /\ \A c \in Calls : Shape(c)

(* The records a call ends with, by Throw or Return.                       *)
Thrown(r, error) == [r EXCEPT !.pc = "threw", !.timer = FALSE, !.told = error]
Returned(r, told) == [r EXCEPT !.pc = "returned", !.told = told]

-----------------------------------------------------------------------------
(* What a step of one call does to it.                                     *)

(* A call that ends throwing was waiting or reading.                       *)
Throws(c, error) ==
  /\ call[c].pc \in {"waiting", "reading"}
  /\ error \in Errors
  /\ Throw(c, error)
  /\ UNCHANGED decision

(* A call that returns was reading, and says what the facilitator did.     *)
Returns(c, v) ==
  /\ At(c, "reading")
  /\ decision[c] = Verdict(call[c].op, v)
  /\ Return(c, v)
  /\ UNCHANGED decision

(* The other steps of a reading call.                                      *)
Begins(c) ==
  /\ At(c, "waiting")
  /\ \E ok \in BOOLEAN : StartReading(c, ok)
  /\ UNCHANGED decision

Keeps(c, n) ==
  /\ At(c, "reading")
  /\ n \in Nat /\ call[c].kept + n <= MaxBytes
  /\ call' = [call EXCEPT ![c].kept = @ + n]
  /\ UNCHANGED decision

(* The errors of the headers are categories (HeadersError).                *)
LEMMA HeadersErrorType ==
  ASSUME NEW op, NEW h
  PROVE  HeadersError(op, h) \in Categories \cup {"nothing"}
BY Zenon DEF HeadersError, Oversized, Categories

(* Headers lead to an exception or to reading.                             *)
LEMMA HeadersLead ==
  ASSUME NEW c \in Calls, NEW h \in Headers, HeadersArrive(c, h)
  PROVE  (\E error \in Errors : Throws(c, error)) \/ Begins(c)
<1> DEFINE error == HeadersError(call[c].op, h)
<1>1. error \in Categories \cup {"nothing"}
  BY HeadersErrorType
<1>2. CASE error # "nothing"
  <2>1. error \in Errors
    BY <1>1, <1>2 DEF Errors
  <2>2. Throws(c, error)
    BY <1>2, <2>1 DEF HeadersArrive, Throws, At
  <2> QED BY <2>1, <2>2
<1>3. CASE error = "nothing"
  <2>1. (h.status = "2xx") \in BOOLEAN
    OBVIOUS
  <2>2. Begins(c)
    BY <1>3, <2>1 DEF HeadersArrive, Begins
  <2> QED BY <2>2
<1> QED BY <1>2, <1>3

(* A chunk is kept or ends the call.                                       *)
LEMMA ChunkLeads ==
  ASSUME NEW c \in Calls, NEW n \in 1 .. MaxChunk, ChunkArrives(c, n), AdapterTypeOK
  PROVE  (\E error \in Errors : Throws(c, error)) \/ Keeps(c, n)
<1>1. call[c].kept \in Nat /\ MaxBytes \in Nat /\ n \in Nat
  BY AdapterAssumption DEF AdapterTypeOK, Call
<1>2. Oversized(call[c].ok) \in Errors
  BY DEF Oversized, Errors, Categories
<1>3. CASE call[c].kept + n > MaxBytes
  BY <1>2, <1>3 DEF ChunkArrives, Throws, At
<1>4. CASE ~ (call[c].kept + n > MaxBytes)
  BY <1>1, <1>4 DEF ChunkArrives, Keeps
<1> QED BY <1>3, <1>4

(* The end of a body is an exception, or the facilitator's own answer.     *)
LEMMA BodyLeads ==
  ASSUME NEW c \in Calls, NEW v \in Values, BodyEnds(c, v)
  PROVE  (\E error \in Errors : Throws(c, error)) \/ Returns(c, v)
<1>1. At(c, "reading") /\ UNCHANGED decision
  BY DEF BodyEnds
<1>2. CASE call[c].ok
  <2>1. AnswerRead(c, v)
    BY <1>2 DEF BodyEnds
  <2>2. CASE FitsSchema(call[c].op, v) /\ Return(c, v)
    <3>1. decision[c] = Verdict(call[c].op, v)
      BY <1>2, <2>2 DEF BodyEnds, SaysWhatItDid
    <3> QED BY <1>1, <2>2, <3>1 DEF Returns
  <2>3. CASE Throw(c, "invalid-json") \/ Throw(c, "schema")
    BY <1>1, <2>3 DEF Throws, Errors, Categories, At
  <2> QED BY <2>1, <2>2, <2>3 DEF AnswerRead
<1>3. CASE ~ call[c].ok
  <2>1. ErrorRead(c, v)
    BY <1>3 DEF BodyEnds
  <2>2. PICK error \in Errors : Throw(c, error)
    BY <2>1 DEF ErrorRead, Errors, Categories
  <2> QED BY <1>1, <2>2 DEF Throws, At
<1> QED BY <1>2, <1>3

(* So every step is one of these.                                          *)
LEMMA Steps ==
  ASSUME AdapterTypeOK, Next
  PROVE  \/ \E c \in Calls :
              \/ \E op \in Operations : Send(c, op)
              \/ \E error \in Errors : Throws(c, error)
              \/ \E v \in Values : Returns(c, v)
              \/ Begins(c)
              \/ \E n \in Nat : Keeps(c, n)
              \/ \E d \in Decisions : Decide(c, d)
         \/ Tick
<1>1. ASSUME NEW c \in Calls, FetchFails(c) \/ TimerFires(c) \/ BodyBreaks(c)
      PROVE  \E error \in Errors : Throws(c, error)
  <2>1. PICK error \in Errors : Throw(c, error)
    BY <1>1 DEF FetchFails, TimerFires, BodyBreaks, Errors, Categories
  <2>2. call[c].pc \in {"waiting", "reading"} /\ UNCHANGED decision
    BY <1>1 DEF FetchFails, TimerFires, BodyBreaks, At
  <2> QED BY <2>1, <2>2 DEF Throws
<1>2. \A n \in 1 .. MaxChunk : n \in Nat
  OBVIOUS
<1> QED BY <1>1, <1>2, HeadersLead, ChunkLeads, BodyLeads DEF Next, Read

-----------------------------------------------------------------------------
(* The invariant.                                                          *)

LEMMA InitShape == Init => IInv
<1> SUFFICES ASSUME Init PROVE IInv
  OBVIOUS
<1>1. NewCall \in Call
  BY AdapterAssumption DEF NewCall, Call, Operations
<1> QED BY <1>1, AdapterAssumption DEF Init, IInv, AdapterTypeOK, Shape, At, NewCall

(* A step of one call c keeps the invariant when the new record is a Call, *)
(* is not idle, has one request and waits only as it should.               *)
LEMMA StepOfOne ==
  ASSUME NEW c \in Calls, IInv, NEW r \in Call,
         call' = [call EXCEPT ![c] = r],
         r.pc # "idle", r.sent = 1,
         r.pc = "waiting" => r.timer /\ r.age <= Timeout,
         UNCHANGED decision
  PROVE  IInv'
<1>1. call \in [Calls -> Call] /\ decision \in [Calls -> Decisions \cup {"open"}]
  BY DEF IInv, AdapterTypeOK
<1>2. AdapterTypeOK'
  BY <1>1 DEF AdapterTypeOK
<1>3. ASSUME NEW d \in Calls PROVE Shape(d)'
  <2>1. Shape(d)
    BY DEF IInv
  <2>2. CASE d = c
    <3>1. call'[d] = r
      BY <1>1, <2>2
    <3> QED BY <3>1 DEF Shape, At
  <2>3. CASE d # c
    <3>1. call'[d] = call[d]
      BY <1>1, <2>3
    <3> QED BY <2>1, <3>1 DEF Shape, At
  <2> QED BY <2>2, <2>3
<1> QED BY <1>2, <1>3 DEF IInv

LEMMA NextShape == IInv /\ [Next]_vars => IInv'
<1> SUFFICES ASSUME IInv, [Next]_vars PROVE IInv'
  OBVIOUS
<1>0. AdapterTypeOK /\ call \in [Calls -> Call] /\ Timeout \in Nat /\ MaxBytes \in Nat
  BY AdapterAssumption DEF IInv, AdapterTypeOK
<1>1. ASSUME NEW c \in Calls, NEW op \in Operations, Send(c, op)
      PROVE  IInv'
  <2> DEFINE r == [call[c] EXCEPT !.pc = "waiting", !.op = op,
                                  !.sent = call[c].sent + 1, !.timer = TRUE]
  <2>1. call[c] \in Call /\ Shape(c)
    BY <1>0 DEF IInv
  <2>2. call[c].sent = 0 /\ call[c].age = 0
    BY <1>1, <2>1 DEF Send, Shape, At
  <2>6. call[c].sent + 1 \in Nat /\ op \in Operations
    BY <2>2
  <2>3. r \in Call
    BY <2>1, <2>6 DEF Call
  <2>4. r.pc = "waiting" /\ r.sent = 1 /\ r.timer /\ r.age <= Timeout
    BY <1>0, <2>1, <2>2 DEF Call
  <2>5. call' = [call EXCEPT ![c] = r] /\ UNCHANGED decision
    BY <1>1 DEF Send
  <2> HIDE DEF r
  <2> QED BY <2>3, <2>4, <2>5, StepOfOne
<1>2. ASSUME NEW c \in Calls, NEW r \in Call, ~ At(c, "idle"),
             r.pc \in {"returned", "threw"}, r.sent = call[c].sent,
             call' = [call EXCEPT ![c] = r], UNCHANGED decision
      PROVE  IInv'
  <2>1. call[c].sent = 1
    BY <1>2 DEF IInv, Shape
  <2> QED BY <1>2, <2>1, StepOfOne
<1>3. ASSUME NEW c \in Calls, NEW error \in Errors, Throws(c, error)
      PROVE  IInv'
  <2> DEFINE r == Thrown(call[c], error)
  <2>1. call[c] \in Call
    BY <1>0
  <2>2. r \in Call /\ r.pc = "threw" /\ r.sent = call[c].sent
    BY <2>1 DEF Thrown, Call
  <2>3. call' = [call EXCEPT ![c] = r]
    BY <1>3 DEF Throws, Throw, Thrown
  <2> HIDE DEF r
  <2> QED BY <1>2, <1>3, <2>2, <2>3 DEF Throws, At
<1>4. ASSUME NEW c \in Calls, NEW v \in Values, Returns(c, v)
      PROVE  IInv'
  <2> DEFINE told == Verdict(call[c].op, v)
             r == Returned(call[c], told)
  <2>1. told \in Decisions /\ call[c] \in Call
    BY <1>0 DEF Verdict, Decisions
  <2>2. call' = [call EXCEPT ![c] = r]
    BY <1>4 DEF Returns, Return, Returned
  <2> HIDE DEF told
  <2>3. r \in Call /\ r.pc = "returned" /\ r.sent = call[c].sent
    BY <2>1 DEF Returned, Call
  <2>4. UNCHANGED decision /\ ~ At(c, "idle")
    BY <1>4 DEF Returns, At
  <2> HIDE DEF r
  <2> QED BY <1>2, <2>2, <2>3, <2>4
<1>5. ASSUME NEW c \in Calls, NEW r \in Call, At(c, "waiting") \/ At(c, "reading"),
             call' = [call EXCEPT ![c] = r], r.pc = "reading", r.sent = call[c].sent,
             UNCHANGED decision
      PROVE  IInv'
  <2>1. Shape(c)
    BY DEF IInv
  <2>2. r.sent = 1 /\ r.pc # "idle" /\ r.pc # "waiting"
    BY <1>5, <2>1 DEF Shape, At
  <2> QED BY <1>5, <2>2, StepOfOne
<1>6. ASSUME NEW c \in Calls, Begins(c)
      PROVE  IInv'
  <2>1. PICK ok \in BOOLEAN : StartReading(c, ok)
    BY <1>6 DEF Begins
  <2> DEFINE r == [call[c] EXCEPT !.pc = "reading", !.timer = FALSE, !.ok = ok]
  <2>2. call[c] \in Call
    BY <1>0
  <2>3. r \in Call /\ r.pc = "reading" /\ r.sent = call[c].sent
    BY <2>2 DEF Call
  <2>4. call' = [call EXCEPT ![c] = r]
    BY <2>1 DEF StartReading
  <2> HIDE DEF r
  <2> QED BY <1>5, <1>6, <2>3, <2>4 DEF Begins
<1>7. ASSUME NEW c \in Calls, NEW n \in Nat, Keeps(c, n)
      PROVE  IInv'
  <2> DEFINE r == [call[c] EXCEPT !.kept = call[c].kept + n]
  <2>1. call[c] \in Call
    BY <1>0
  <2>2. call[c].kept + n \in 0 .. MaxBytes
    BY <1>0, <1>7, <2>1 DEF Keeps, Call
  <2>3. r \in Call /\ r.pc = "reading" /\ r.sent = call[c].sent
    BY <1>7, <2>1, <2>2 DEF Call, Keeps, At
  <2>4. call' = [call EXCEPT ![c] = r]
    BY <1>7 DEF Keeps
  <2> HIDE DEF r
  <2> QED BY <1>5, <1>7, <2>3, <2>4 DEF Keeps
<1>8. ASSUME NEW c \in Calls, NEW d \in Decisions, Decide(c, d)
      PROVE  IInv'
  <2>1. AdapterTypeOK'
    BY <1>0, <1>8 DEF AdapterTypeOK, Decide
  <2>2. ~ At(c, "idle")
    BY <1>8, <1>0 DEF IInv, Shape, Decide
  <2>3. ASSUME NEW e \in Calls PROVE Shape(e)'
    <3>1. Shape(e) /\ call' = call
      BY <1>8 DEF IInv, Decide
    <3>2. e # c => decision'[e] = decision[e]
      BY <1>0, <1>8 DEF AdapterTypeOK, Decide
    <3> QED BY <2>2, <3>1, <3>2 DEF Shape, At
  <2> QED BY <2>1, <2>3 DEF IInv
<1>9. CASE Tick
  <2>1. ASSUME NEW c \in Calls
        PROVE  /\ call'[c] \in Call
               /\ Shape(c)'
    <3>1. call[c] \in Call /\ Shape(c) /\ UNCHANGED decision
      BY <1>0, <1>9 DEF IInv, Tick
    <3>2. CASE c \in Running /\ call[c].age <= Timeout
      <4>1. call'[c] = [call[c] EXCEPT !.age = call[c].age + 1]
        BY <1>9, <3>2 DEF Tick
      <4>2. call[c].age \in 0 .. Timeout + 1
        BY <3>1 DEF Call
      <4>3. call[c].age + 1 \in 0 .. Timeout + 1
        BY <1>0, <3>2, <4>2
      <4>4. call'[c] \in Call
        BY <3>1, <4>1, <4>3 DEF Call
      <4>5. /\ call'[c].pc = call[c].pc /\ call'[c].sent = call[c].sent
            /\ call'[c].timer = call[c].timer /\ call'[c].age = call[c].age + 1
        BY <3>1, <4>1 DEF Call
      <4>6. At(c, "waiting") => call[c].timer /\ call[c].age # Timeout
        BY <1>9, <3>1, <3>2 DEF Tick, Due, Shape
      <4>7. At(c, "waiting") => call[c].age + 1 <= Timeout
        BY <1>0, <3>2, <4>2, <4>6
      <4>8. ~ At(c, "idle")
        BY <3>2 DEF Running, At
      <4>9. Shape(c)'
        BY <3>1, <4>5, <4>6, <4>7, <4>8 DEF Shape, At
      <4> QED BY <4>4, <4>9
    <3>3. CASE ~ (c \in Running /\ call[c].age <= Timeout)
      <4>1. call'[c] = call[c]
        BY <1>9, <3>3 DEF Tick
      <4> QED BY <3>1, <4>1 DEF Shape, At
    <3> QED BY <3>2, <3>3
  <2>2. call' = [c \in Calls |-> call'[c]]
    BY <1>9 DEF Tick
  <2>3. call' \in [Calls -> Call]
    BY <2>1, <2>2
  <2> QED BY <1>0, <1>9, <2>1, <2>3 DEF IInv, AdapterTypeOK, Tick
<1>10. CASE UNCHANGED vars
  BY <1>10 DEF vars, IInv, AdapterTypeOK, Shape, At
<1> QED BY <1>0, <1>1, <1>3, <1>4, <1>6, <1>7, <1>8, <1>9, <1>10, Steps

-----------------------------------------------------------------------------
(* The invariant holds in every behaviour, whatever the constants are.     *)
THEOREM AdapterInvariance == Spec => []IInv
BY InitShape, NextShape, PTL DEF Spec

(* Every field of a call stays in range; in particular no more than        *)
(* maxResponseBytes of a body is kept (readBoundedResponseBody).           *)
THEOREM AdapterTypeCorrect == Spec => []AdapterTypeOK
<1>1. IInv => AdapterTypeOK
  BY DEF IInv
<1> QED BY <1>1, AdapterInvariance, PTL

(* The wait for the headers is bounded by the timeout.                     *)
THEOREM HeadersInTime == Spec => []WaitBounded
<1>1. IInv => WaitBounded
  BY DEF IInv, Shape, WaitBounded
<1> QED BY <1>1, AdapterInvariance, PTL

-----------------------------------------------------------------------------
(* The refinement.                                                         *)

Sent == [c \in Calls |-> call[c].sent]
Outcomes == [c \in Calls |-> Outcome(c)]

(* A step that changes neither the requests sent nor what callers know is  *)
(* a stutter of the port.                                                  *)
LEMMA PortStutters ==
  ASSUME \A c \in Calls : call'[c].sent = call[c].sent /\ Outcome(c)' = Outcome(c),
         UNCHANGED decision
  PROVE  UNCHANGED Port!port
BY DEF Port!port

(* A step of one call that sends nothing changes its outcome and nothing   *)
(* else the port shows.                                                    *)
LEMMA PortEnds ==
  ASSUME NEW c \in Calls, call'[c].sent = call[c].sent,
         \A d \in Calls \ {c} : call'[d] = call[d]
  PROVE  /\ Sent' = Sent
         /\ Outcomes' = [Outcomes EXCEPT ![c] = Outcome(c)']
<1>1. \A d \in Calls \ {c} : Outcome(d)' = Outcome(d)
  BY DEF Outcome, At
<1> QED BY <1>1 DEF Sent, Outcomes

LEMMA PortInit == Init => Port!Init
BY DEF Init, NewCall, Port!Init, Outcome, At

LEMMA PortStep == IInv /\ [Next]_vars => [Port!Next]_(Port!port)
<1> SUFFICES ASSUME IInv, [Next]_vars PROVE [Port!Next]_(Port!port)
  OBVIOUS
<1>0. AdapterTypeOK /\ call \in [Calls -> Call]
  BY DEF IInv, AdapterTypeOK
<1>1. ASSUME NEW c \in Calls, NEW op \in Operations, Send(c, op)
      PROVE  Port!Ask(c)
  <2>1. call[c].sent = 0 /\ call[c] \in Call
    BY <1>0, <1>1 DEF IInv, Shape, Send
  <2>2. call'[c].sent = 1 /\ call'[c].pc = "waiting"
    BY <1>0, <1>1, <2>1 DEF Send, Call
  <2>3. \A d \in Calls \ {c} : call'[d] = call[d]
    BY <1>0, <1>1 DEF Send
  <2>4. Outcome(c) = "open" /\ Outcome(c)' = "open"
    BY <1>1, <2>2 DEF Send, Outcome, At
  <2>5. \A d \in Calls \ {c} : Outcome(d)' = Outcome(d)
    BY <2>3 DEF Outcome, At
  <2>6. Sent' = [Sent EXCEPT ![c] = 1] /\ Sent[c] = 0
    BY <2>1, <2>2, <2>3 DEF Sent
  <2>7. Outcomes' = Outcomes
    BY <2>4, <2>5 DEF Outcomes
  <2> QED BY <1>1, <2>6, <2>7 DEF Port!Ask, Sent, Outcomes, Send
<1>2. ASSUME NEW c \in Calls, NEW error \in Errors, Throws(c, error)
      PROVE  Port!GiveUp(c)
  <2>1. /\ call'[c] = Thrown(call[c], error) /\ call[c] \in Call
        /\ \A d \in Calls \ {c} : call'[d] = call[d]
    BY <1>0, <1>2 DEF Throws, Throw, Thrown
  <2>4. call'[c].pc = "threw" /\ call'[c].sent = call[c].sent
    BY <2>1 DEF Thrown, Call
  <2>5. Outcome(c)' = "thrown"
    BY <2>4 DEF Outcome, At
  <2>2. Sent' = Sent /\ Outcomes' = [Outcomes EXCEPT ![c] = "thrown"]
    BY <2>1, <2>4, <2>5, PortEnds
  <2>3. Sent[c] = 1 /\ Outcomes[c] = "open"
    BY <1>2 DEF Throws, IInv, Shape, At, Sent, Outcomes, Outcome
  <2> QED BY <1>2, <2>2, <2>3 DEF Port!GiveUp, Sent, Outcomes, Throws
<1>3. ASSUME NEW c \in Calls, NEW v \in Values, Returns(c, v)
      PROVE  Port!Tell(c)
  <2> DEFINE told == Verdict(call[c].op, v)
  <2>1. /\ call'[c] = Returned(call[c], told) /\ call[c] \in Call
        /\ \A d \in Calls \ {c} : call'[d] = call[d]
    BY <1>0, <1>3 DEF Returns, Return, Returned
  <2>2. told \in Decisions /\ decision[c] = told
    BY <1>3 DEF Verdict, Decisions, Returns
  <2> HIDE DEF told
  <2>5. /\ call'[c].pc = "returned" /\ call'[c].told = told
        /\ call'[c].sent = call[c].sent
    BY <2>1 DEF Returned, Call
  <2>6. Outcome(c)' = told
    BY <2>5 DEF Outcome, At
  <2>3. Sent' = Sent /\ Outcomes' = [Outcomes EXCEPT ![c] = told]
    BY <2>1, <2>5, <2>6, PortEnds
  <2>4. Outcomes[c] = "open" /\ UNCHANGED decision
    BY <1>3 DEF Returns, At, Outcomes, Outcome
  <2> QED BY <2>2, <2>3, <2>4 DEF Port!Tell, Sent, Outcomes, Port!Decisions, Decisions
<1>4. ASSUME NEW c \in Calls, Begins(c) \/ \E n \in Nat : Keeps(c, n)
      PROVE  UNCHANGED Port!port
  <2>1. /\ call'[c].sent = call[c].sent /\ call'[c].pc = "reading"
        /\ \A d \in Calls \ {c} : call'[d] = call[d]
    <3>1. call[c] \in Call
      BY <1>0
    <3>2. CASE Begins(c)
      <4>1. PICK ok \in BOOLEAN : StartReading(c, ok)
        BY <3>2 DEF Begins
      <4> QED BY <1>0, <3>1, <4>1 DEF StartReading, Call
    <3>3. CASE \E n \in Nat : Keeps(c, n)
      <4>1. PICK n \in Nat : Keeps(c, n)
        BY <3>3
      <4> QED BY <1>0, <3>1, <4>1 DEF Keeps, At, Call
    <3> QED BY <1>4, <3>2, <3>3
  <2>3. call[c].pc \in {"waiting", "reading"} /\ UNCHANGED decision
    BY <1>4 DEF Begins, Keeps, At
  <2>4. \A d \in Calls : call'[d].sent = call[d].sent
    BY <2>1
  <2>5. \A d \in Calls : Outcome(d)' = Outcome(d)
    BY <2>1, <2>3 DEF Outcome, At
  <2> QED BY <2>3, <2>4, <2>5, PortStutters
<1>5. ASSUME NEW c \in Calls, NEW d \in Decisions, Decide(c, d)
      PROVE  Port!Act(c, d)
  <2>1. call' = call /\ decision[c] = "open"
    BY <1>5 DEF Decide
  <2>2. call[c].sent = 1
    BY <1>5 DEF Decide, IInv, Shape
  <2>3. Sent' = Sent /\ Outcomes' = Outcomes
    BY <2>1 DEF Sent, Outcomes, Outcome, At
  <2> QED BY <1>5, <2>1, <2>2, <2>3 DEF Decide, Port!Act, Sent, Outcomes
<1>6. CASE Tick
  <2>1. ASSUME NEW c \in Calls
        PROVE  call'[c].sent = call[c].sent /\ Outcome(c)' = Outcome(c)
    <3>1. call[c] \in Call
      BY <1>0
    <3>2. /\ call'[c].sent = call[c].sent /\ call'[c].pc = call[c].pc
          /\ call'[c].told = call[c].told
      BY <1>6, <3>1 DEF Tick, Call
    <3> QED BY <3>2 DEF Outcome, At
  <2> QED BY <1>6, <2>1, PortStutters DEF Tick
<1>7. CASE UNCHANGED vars
  BY <1>7, PortStutters DEF vars, Outcome, At
<1> QED BY <1>0, <1>1, <1>2, <1>3, <1>4, <1>5, <1>6, <1>7, Steps
        DEF Port!Next, Port!Decisions, Decisions

(* The adapter implements the port, so the orchestrator may rely on one    *)
(* request per call and on answers that tell what the facilitator did.     *)
THEOREM PortRefinement == Spec => ImplementsPort
<1>1. Init => Port!Init
  BY PortInit
<1>2. IInv /\ [Next]_vars => [Port!Next]_(Port!port)
  BY PortStep
<1> QED BY <1>1, <1>2, AdapterInvariance, PTL DEF Spec, ImplementsPort, Port!Spec
=============================================================================
