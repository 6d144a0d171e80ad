-------------------------- MODULE ProofFacilitator --------------------------
(***************************************************************************)
(* Calls of the proof facilitator adapter: PayAIProofFacilitatorAdapter    *)
(* (mainnet/proof-facilitator-client.mainnet.ts), its transport            *)
(* (proof-facilitator-http.mainnet.ts), its schemas                        *)
(* (proof-facilitator-response-validation.mainnet.ts) and its errors       *)
(* (proof-facilitator-errors.mainnet.ts).  A call waits for the headers of *)
(* one HTTP request with a timer armed, and then reads the body in chunks. *)
(*                                                                         *)
(* The facilitator, the network and the clock are external.  The           *)
(* facilitator may act on a request at any time once it was sent; a 2xx    *)
(* answer that fits the schema says what it did, any other answer may come *)
(* from something in between and say anything.  A tick is a part of the    *)
(* timeout, and timers are not late.                                       *)
(***************************************************************************)
EXTENDS Naturals

CONSTANTS
  Calls,     \* calls of getSupported, verify and settle
  Timeout,   \* timeoutMs, in ticks
  MaxBytes,  \* maxResponseBytes, in blocks
  MaxChunk   \* the largest chunk a stream delivers, in blocks

ASSUME AdapterAssumption ==
  /\ Timeout \in Nat \ {0}
  /\ MaxBytes \in Nat
  /\ MaxChunk \in Nat \ {0}

VARIABLES
  call,     \* the local state of each call
  decision  \* what the facilitator did for it, "open" before

vars == <<call, decision>>

Operations == {"supported", "verify", "settle"}

Decisions == {"done", "refused"}

Categories ==
  {"invalid-path", "redirect", "timeout", "network", "http-status", "content-type",
   "oversized-body", "invalid-json", "schema"}

(* VerifyError and SettleError carry the facilitator's own words; "raw" is *)
(* an exception of the platform.                                           *)
Errors == Categories \cup {"VerifyError", "SettleError", "raw"}

Headers ==
  [ status   : {"2xx", "3xx", "error"},
    url      : {"fixed", "elsewhere", "none"},   \* response.url
    json     : BOOLEAN,                          \* isJsonContentType
    declared : {"absent", "fits", "unfit"} ]     \* content-length against MaxBytes

(* What a body decodes to: text that is not JSON, null, an array or a      *)
(* scalar, or an object of which the parsers ask these things.  The flag   *)
(* is isValid or success.                                                  *)
Objects ==
  [ kind     : {"object"},
    flag     : {"absent", "true", "false", "other"},
    required : BOOLEAN,     \* the other required fields have their types
    optional : BOOLEAN ]    \* every optional field is absent, null or of its type

Text == [kind |-> "text", flag |-> "absent", required |-> FALSE, optional |-> FALSE]

Other == [Text EXCEPT !.kind = "other"]

Values == Objects \cup {Text, Other}

Call ==
  [ pc    : {"idle", "waiting", "reading", "returned", "threw"},
    op    : Operations,
    sent  : Nat,            \* HTTP requests
    timer : BOOLEAN,        \* armed?
    age   : 0 .. Timeout + 1,  \* ticks since the request, the last meaning more
    ok    : BOOLEAN,        \* response.ok
    kept  : 0 .. MaxBytes,  \* blocks in chunks
    told  : Decisions \cup Errors \cup {"nothing"} ]

AdapterTypeOK ==
  /\ call \in [Calls -> Call]
  /\ decision \in [Calls -> Decisions \cup {"open"}]

-----------------------------------------------------------------------------
At(c, label) == call[c].pc = label
Over(c) == call[c].pc \in {"returned", "threw"}

Throw(c, error) ==
  call' = [call EXCEPT ![c].pc = "threw", ![c].timer = FALSE, ![c].told = error]

Verdict(op, v) == IF op = "supported" \/ v.flag = "true" THEN "done" ELSE "refused"

Return(c, v) ==
  call' = [call EXCEPT ![c].pc = "returned", ![c].told = Verdict(call[c].op, v)]

(* executeProofFacilitatorRequest: the timer is armed, the request sent.   *)
Send(c, op) ==
  /\ At(c, "idle")
  /\ call' = [call EXCEPT ![c].pc = "waiting", ![c].op = op,
                          ![c].sent = @ + 1, ![c].timer = TRUE]
  /\ UNCHANGED decision

(* Refused connections, and redirects: the request forbids to follow them. *)
FetchFails(c) ==
  /\ At(c, "waiting")
  /\ Throw(c, "network")
  /\ UNCHANGED decision

TimerFiresUnheard(c) ==
  /\ At(c, "waiting")
  /\ call[c].timer /\ call[c].age = Timeout
  /\ call' = [call EXCEPT ![c].timer = FALSE]
  /\ UNCHANGED decision

TimerFires(c) ==
  /\ At(c, "waiting")
  /\ call[c].timer /\ call[c].age = Timeout
  /\ Throw(c, "timeout")
  /\ UNCHANGED decision

(* The error that readBoundedResponseBody throws ends the call, or is      *)
(* swallowed where only an error body was to be read (tryParseErrorBody).  *)
Oversized(ok) == IF ok THEN "oversized-body" ELSE "http-status"

(* What the headers are refused for before anything is read: the checks of *)
(* executeProofFacilitatorRequest, of getSupported and of                  *)
(* readValidatedFacilitatorJsonResponse, and the declared length.          *)
HeadersError(op, h) ==
  LET ok == h.status = "2xx" IN
  CASE h.url = "elsewhere"                  -> "invalid-path"
    [] h.url = "none" /\ h.status = "3xx"   -> "redirect"
    [] OTHER ->
       CASE op = "supported" /\ ~ ok        -> "http-status"
         [] ok /\ ~ h.json                  -> "content-type"
         [] OTHER ->
            IF h.declared = "unfit" THEN Oversized(ok) ELSE "nothing"

StartReading(c, ok) ==
  call' = [call EXCEPT ![c].pc = "reading", ![c].timer = FALSE, ![c].ok = ok]

(* The headers arrive, and the timer is cleared.                           *)
HeadersArrive(c, h) ==
  /\ At(c, "waiting")
  /\ LET error == HeadersError(call[c].op, h) IN
     \/ error # "nothing" /\ Throw(c, error)
     \/ error = "nothing" /\ StartReading(c, h.status = "2xx")
  /\ UNCHANGED decision

(* readBoundedResponseBody: a chunk that exceeds the limit is not kept.    *)
ChunkArrives(c, n) ==
  /\ At(c, "reading")
  /\ IF call[c].kept + n > MaxBytes
     THEN Throw(c, Oversized(call[c].ok))
     ELSE call' = [call EXCEPT ![c].kept = @ + n]
  /\ UNCHANGED decision

(* No clause catches this on the way of a 2xx answer.                      *)
BodyBreaks(c) ==
  /\ At(c, "reading")
  /\ Throw(c, IF call[c].ok THEN "raw" ELSE "network")
  /\ UNCHANGED decision

(* parseFacilitatorJsonResponse does not throw.                            *)
FitsSchema(op, v) ==
  /\ v.kind = "object" /\ v.optional
  /\ op = "verify" \/ v.required
  /\ op = "supported" \/ v.flag \in {"true", "false"}

(* The whole body of a 2xx answer has arrived.                             *)
AnswerRead(c, v) ==
  \/ v = Text /\ Throw(c, "invalid-json")
  \/ v # Text /\ ~ FitsSchema(call[c].op, v) /\ Throw(c, "schema")
  \/ FitsSchema(call[c].op, v) /\ Return(c, v)

ErrorReadTrusted(c, v) ==
  IF FitsSchema(call[c].op, v) THEN Return(c, v) ELSE Throw(c, "http-status")

(* handleVerifyFailure and handleSettleFailure: other answers only throw.  *)
ErrorRead(c, v) ==
  \/ call[c].kept = 0 /\ Throw(c, "http-status")
  \/ call[c].kept > 0 /\ v = Text /\ Throw(c, "invalid-json")
  \/ /\ call[c].kept > 0 /\ v # Text
     /\ Throw(c, IF v.flag = "absent" THEN "http-status"
                 ELSE IF call[c].op = "verify" THEN "VerifyError" ELSE "SettleError")

(* A 2xx answer that fits is the facilitator's own.                        *)
SaysWhatItDid(c, v) ==
  call[c].ok /\ FitsSchema(call[c].op, v) =>
    decision[c] = Verdict(call[c].op, v)

BodyEnds(c, v) ==
  /\ At(c, "reading")
  /\ call[c].kept = 0 => v = Text
  /\ SaysWhatItDid(c, v)
  /\ IF call[c].ok THEN AnswerRead(c, v) ELSE ErrorRead(c, v)
  /\ UNCHANGED decision

(* The facilitator acts on the request, whether or not anybody waits.      *)
Decide(c, d) ==
  /\ call[c].sent > 0
  /\ decision[c] = "open"
  /\ decision' = [decision EXCEPT ![c] = d]
  /\ UNCHANGED call

Due(c) == call[c].timer /\ call[c].age = Timeout

Running == {c \in Calls : call[c].pc \in {"waiting", "reading"}}

Tick ==
  /\ \A c \in Running : ~ Due(c)
  /\ call' = [c \in Calls |->
                IF c \in Running /\ call[c].age <= Timeout
                THEN [call[c] EXCEPT !.age = @ + 1] ELSE call[c]]
  /\ UNCHANGED decision

-----------------------------------------------------------------------------
NewCall ==
  [ pc |-> "idle", op |-> "supported", sent |-> 0, timer |-> FALSE, age |-> 0,
    ok |-> FALSE, kept |-> 0, told |-> "nothing" ]

Init ==
  /\ call = [c \in Calls |-> NewCall]
  /\ decision = [c \in Calls |-> "open"]

Read(c) ==
  \/ \E n \in 1 .. MaxChunk : ChunkArrives(c, n)
  \/ BodyBreaks(c)
  \/ \E v \in Values : BodyEnds(c, v)

Next ==
  \/ \E c \in Calls :
       \/ \E op \in Operations : Send(c, op)
       \/ FetchFails(c) \/ TimerFires(c)
       \/ \E h \in Headers : HeadersArrive(c, h)
       \/ Read(c)
       \/ \E d \in Decisions : Decide(c, d)
  \/ Tick

Spec == Init /\ [][Next]_vars

(* Time passes, timers fire, and a body that has begun is delivered or     *)
(* breaks; the headers may never come.                                     *)
FairSpec ==
  /\ Spec
  /\ WF_vars(Tick)
  /\ \A c \in Calls : WF_vars(TimerFires(c)) /\ WF_vars(Read(c))

-----------------------------------------------------------------------------
(* Properties.                                                             *)

(* A call keeps its caller waiting for the headers no longer than the      *)
(* timeout, whatever the facilitator does (the timer of                    *)
(* executeProofFacilitatorRequest).                                        *)
WaitBounded == \A c \in Calls : At(c, "waiting") => call[c].age <= Timeout

(* What the caller of a call knows.                                        *)
Outcome(c) ==
  CASE At(c, "returned") -> call[c].told
    [] At(c, "threw")    -> "thrown"
    [] OTHER             -> "open"

(* The adapter is the port the orchestrator relies on: one HTTP request    *)
(* per call whatever fails, and an answer only when the facilitator has    *)
(* decided so; what timeouts, broken, oversized or malformed bodies and    *)
(* error statuses say is an exception, which claims nothing.               *)
Port == INSTANCE FacilitatorPort WITH
  asked <- [c \in Calls |-> call[c].sent],
  decision <- decision,
  outcome <- [c \in Calls |-> Outcome(c)]

ImplementsPort == Port!Spec

(* Every call ends, also when the facilitator never answers.               *)
CallsEnd == \A c \in Calls : At(c, "waiting") ~> Over(c)
=============================================================================
