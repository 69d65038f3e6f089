----------------------------- MODULE Middleware -----------------------------
(***************************************************************************)
(* The HTTP middleware (middleware/http.go): each request wraps its        *)
(* ResponseWriter in a recorder taken from a sync.Pool, lets the handler   *)
(* write through it, pushes an event with what the recorder has seen and   *)
(* puts it back.  And the gRPC interceptors (middleware/grpc.go), which    *)
(* push an event for each RPC and keep nothing.                            *)
(*                                                                         *)
(* Requests run concurrently.  The handler and the ResponseWriter of       *)
(* net/http are outside; beside the response that goes through the         *)
(* recorder the model keeps the one the same calls would have produced     *)
(* without it.  "Bug:" definitions are faulty variants that the runs must  *)
(* reject.                                                                 *)
(***************************************************************************)
EXTENDS Integers, FiniteSets

CONSTANTS
  Requests,   \* HTTP requests
  Rpcs,       \* gRPC calls
  Recorders,  \* recorder objects, enough for all that can exist at once
  Nobody,     \* no recorder, no request
  Codes,      \* status codes that handlers write
  Limit,      \* 2048 in the code: bytes of an error body that are kept
  MaxBody     \* bound: length of a response's body

ASSUME MiddlewareAssumption ==
  /\ IsFiniteSet(Requests) /\ Requests \cap Rpcs = {}
  /\ Nobody \notin Recorders \cup Requests
  /\ Codes \subseteq 100 .. 999 /\ Limit \in Nat \ {0} /\ MaxBody \in Nat

VARIABLES
  captureErrors,  \* cfg.CaptureErrorBody
  pool,           \* recorderPool
  recorder,       \* the state of each recorder, with the request whose
                  \*   ResponseWriter it wraps
  using,          \* the recorder a request holds
  stage,          \* of a request: "new", "serving", "returned", "pushed", "over";
                  \*   of an RPC: "new", "replied", "over"
  response,       \* what net/http has sent for a request
  plain,          \* history: what it would have sent without the recorder
  event,          \* the event pushed for a request or an RPC
  reply           \* history: what the handler of an RPC has returned

middlewareVars ==
  <<captureErrors, pool, recorder, using, stage, response, plain, event, reply>>

NoBytes  == [by |-> {}, len |-> 0]
Fresh    == [writer |-> Nobody, status |-> 200, wroteHeader |-> FALSE, captured |-> NoBytes]
NoEvent  == [status |-> 0, error |-> {}]
NoReply  == [outcome |-> "none", message |-> FALSE]

(* A ResponseWriter of net/http: the final status once it is decided, the  *)
(* length of the body, and whether an informational status was sent.       *)
Untouched == [final |-> 0, body |-> 0, early |-> FALSE]

MiddlewareInit ==
  /\ captureErrors \in BOOLEAN
  /\ pool = {} /\ recorder = [c \in Recorders |-> Fresh]
  /\ using = [r \in Requests |-> Nobody]
  /\ stage = [r \in Requests \cup Rpcs |-> "new"]
  /\ response = [r \in Requests |-> Untouched] /\ plain = [r \in Requests |-> Untouched]
  /\ event = [r \in Requests \cup Rpcs |-> NoEvent]
  /\ reply = [r \in Rpcs |-> NoReply]

-----------------------------------------------------------------------------
(* net/http: a 1xx status is sent at once and decides nothing; the first   *)
(* other one is final; a body or a flush without a status means 200.       *)
Informational(code) == code < 200

SendHeader(w, code) ==
  IF w.final # 0 THEN w
  ELSE IF Informational(code) THEN [w EXCEPT !.early = TRUE]
  ELSE [w EXCEPT !.final = code]

SendBody(w, n) == [SendHeader(w, 200) EXCEPT !.body = @ + n]
Final(w) == IF w.final = 0 THEN 200 ELSE w.final

-----------------------------------------------------------------------------
(* Bug: the header flag of the last request stays.                         *)
ResetKeepsHeader(rec, r) ==
  [rec EXCEPT !.writer = r, !.status = 200, !.captured = NoBytes]

(* Bug: the buffer is not emptied.                                         *)
ResetKeepsBytes(rec, r) ==
  [rec EXCEPT !.writer = r, !.status = 200, !.wroteHeader = FALSE]

(* responseRecorder.reset.                                                 *)
Reset(rec, r) ==
  [rec EXCEPT !.writer = r, !.status = 200, !.wroteHeader = FALSE, !.captured = NoBytes]

InUse == {using[r] : r \in Requests} \ {Nobody}

(* recorderPool.Get: a pooled recorder, or a new one although there may be *)
(* some in the pool; then reset.                                           *)
Enter(r, c) ==
  /\ stage[r] = "new" /\ stage' = [stage EXCEPT ![r] = "serving"]
  /\ using' = [using EXCEPT ![r] = c]
  /\ \/ /\ c \in pool /\ pool' = pool \ {c}
        /\ recorder' = [recorder EXCEPT ![c] = Reset(@, r)]
     \/ /\ c \notin pool \cup InUse
        /\ recorder' = [recorder EXCEPT ![c] = Reset(Fresh, r)]
        /\ UNCHANGED pool
  /\ UNCHANGED <<captureErrors, response, plain, event, reply>>

(* An ignored path is served with the ResponseWriter itself.               *)
Ignore(r) ==
  /\ stage[r] = "new" /\ stage' = [stage EXCEPT ![r] = "over"]
  /\ UNCHANGED <<captureErrors, pool, recorder, using, response, plain, event, reply>>

(* responseRecorder.WriteHeader: only the first call counts.               *)
RecordHeader(rec, code) ==
  IF rec.wroteHeader THEN rec
  ELSE [rec EXCEPT !.status = code, !.wroteHeader = TRUE]

PassHeader(rec, w, code) == IF rec.wroteHeader THEN w ELSE SendHeader(w, code)

(* Bug: the room that is left is not looked at.                            *)
CaptureAll(rec, r, n) ==
  IF captureErrors /\ rec.status >= 400 /\ rec.captured.len < Limit
  THEN [rec EXCEPT !.captured = [by |-> @.by \cup {r}, len |-> @.len + n]]
  ELSE rec

(* The part of a body of n bytes that responseRecorder.Write keeps.        *)
Capture(rec, r, n) ==
  LET room == Limit - rec.captured.len
      kept == IF n <= room THEN n ELSE room
  IN  IF captureErrors /\ rec.status >= 400 /\ room > 0
      THEN [rec EXCEPT !.captured = [by |-> @.by \cup {r}, len |-> @.len + kept]]
      ELSE rec

(* One call of the handler: what becomes of the recorder, of the response  *)
(* it writes to, and of the response without it.                           *)
Handle(r, rec, w, unwrapped) ==
  /\ recorder' = [recorder EXCEPT ![using[r]] = rec]
  /\ response' = [response EXCEPT ![rec.writer] = w]
  /\ plain' = [plain EXCEPT ![r] = unwrapped]
  /\ UNCHANGED <<captureErrors, pool, using, stage, event, reply>>

WriteHeader(r, code) ==
  /\ stage[r] = "serving"
  /\ LET rec == recorder[using[r]]
     IN  Handle(r, RecordHeader(rec, code), PassHeader(rec, response[rec.writer], code),
                SendHeader(plain[r], code))

Write(r, n) ==
  /\ stage[r] = "serving" /\ plain[r].body + n <= MaxBody
  /\ LET rec == recorder[using[r]]
     IN  Handle(r, Capture(RecordHeader(rec, 200), r, n),
                SendBody(PassHeader(rec, response[rec.writer], 200), n),
                SendBody(plain[r], n))

Flush(r) ==
  /\ stage[r] = "serving"
  /\ LET rec == recorder[using[r]]
     IN  Handle(r, RecordHeader(rec, 200),
                SendHeader(PassHeader(rec, response[rec.writer], 200), 200),
                SendHeader(plain[r], 200))

(* Bug: the recorder is back in the pool before the event is built.        *)
ReturnEarly(r) ==
  /\ stage[r] = "serving" /\ stage' = [stage EXCEPT ![r] = "returned"]
  /\ pool' = pool \cup {using[r]}
  /\ UNCHANGED <<captureErrors, recorder, using, response, plain, event, reply>>

HandlerReturns(r) ==
  /\ stage[r] = "serving" /\ stage' = [stage EXCEPT ![r] = "returned"]
  /\ UNCHANGED <<captureErrors, pool, recorder, using, response, plain, event, reply>>

(* The handler panics: nothing after ServeHTTP runs, so there is no event  *)
(* and the recorder is left to the garbage collector.                      *)
HandlerPanics(r) ==
  /\ stage[r] = "serving" /\ stage' = [stage EXCEPT ![r] = "over"]
  /\ using' = [using EXCEPT ![r] = Nobody]
  /\ UNCHANGED <<captureErrors, pool, recorder, response, plain, event, reply>>

(* PushEvent, with an error text taken from the kept bytes of a response   *)
(* with a 4xx or 5xx status.                                               *)
Record(r) ==
  LET rec == recorder[using[r]]
  IN  /\ stage[r] = "returned" /\ stage' = [stage EXCEPT ![r] = "pushed"]
      /\ event' = [event EXCEPT ![r] =
           [status |-> rec.status,
            error |-> IF rec.status >= 400 THEN rec.captured.by ELSE {}]]
      /\ UNCHANGED <<captureErrors, pool, recorder, using, response, plain, reply>>

(* release and Put.  The buffer never outgrows Limit, so release's test of *)
(* its capacity changes nothing.                                           *)
Recycle(r) ==
  /\ stage[r] = "pushed" /\ stage' = [stage EXCEPT ![r] = "over"]
  /\ recorder' = [recorder EXCEPT ![using[r]].writer = Nobody]
  /\ pool' = pool \cup {using[r]}
  /\ using' = [using EXCEPT ![r] = Nobody]
  /\ UNCHANGED <<captureErrors, response, plain, event, reply>>

(* The garbage collector may empty a sync.Pool.                            *)
DropPooled(c) ==
  /\ c \in pool /\ pool' = pool \ {c}
  /\ UNCHANGED <<captureErrors, recorder, using, stage, response, plain, event, reply>>

-----------------------------------------------------------------------------
(* httpStatusFromCode.  A code is any number: "unlisted" is one that is    *)
(* not named by the switch.                                                *)
HttpStatus ==
  [OK |-> 200, Canceled |-> 499, Unknown |-> 500, InvalidArgument |-> 400,
   DeadlineExceeded |-> 504, NotFound |-> 404, AlreadyExists |-> 409,
   PermissionDenied |-> 403, ResourceExhausted |-> 429, FailedPrecondition |-> 400,
   Aborted |-> 409, OutOfRange |-> 400, Unimplemented |-> 501, Internal |-> 500,
   Unavailable |-> 503, DataLoss |-> 500, Unauthenticated |-> 401]

HttpStatusFromCode(c) == IF c \in DOMAIN HttpStatus THEN HttpStatus[c] ELSE 500

(* What an RPC's handler may return: nothing wrong, a status of one of the *)
(* codes or an error that is no status, with an empty message or another.  *)
(* The errors of a context have a text of their own.                       *)
ContextErrors == {"context canceled", "context deadline"}
OtherErrors   == ContextErrors \cup {"other"}
Outcomes == DOMAIN HttpStatus \cup {"unlisted"} \cup OtherErrors

Replies ==
  {given \in [outcome : Outcomes, message : BOOLEAN] :
     /\ given.outcome = "OK" => ~given.message
     /\ given.outcome \in ContextErrors => given.message}

(* status.FromError: an error that is no status is Unknown.                *)
CodeOf(outcome) == IF outcome \in OtherErrors THEN "Unknown" ELSE outcome

(* GRPCUnary and GRPCStream: one event when the handler has returned, with *)
(* the message of a status that is not OK.                                 *)
ServeRpc(r, given) ==
  /\ stage[r] = "new" /\ stage' = [stage EXCEPT ![r] = "replied"]
  /\ reply' = [reply EXCEPT ![r] = given]
  /\ event' = [event EXCEPT ![r] =
       [status |-> HttpStatusFromCode(CodeOf(given.outcome)),
        error |-> IF CodeOf(given.outcome) # "OK" /\ given.message THEN {r} ELSE {}]]
  /\ UNCHANGED <<captureErrors, pool, recorder, using, response, plain>>

(* Nobody recovers a panic for the interceptor either: no event.           *)
RpcPanics(r) ==
  /\ stage[r] = "new" /\ stage' = [stage EXCEPT ![r] = "over"]
  /\ UNCHANGED <<captureErrors, pool, recorder, using, response, plain, event, reply>>

-----------------------------------------------------------------------------
AllServed ==
  /\ \A r \in Requests \cup Rpcs : stage[r] \in {"replied", "over"}
  /\ UNCHANGED middlewareVars

MiddlewareNext ==
  \/ \E r \in Requests, c \in Recorders : Enter(r, c)
  \/ \E r \in Requests : Ignore(r)
  \/ \E r \in Requests, code \in Codes : WriteHeader(r, code)
  \/ \E r \in Requests, n \in 1 .. MaxBody : Write(r, n)
  \/ \E r \in Requests : Flush(r)
  \/ \E r \in Requests : HandlerReturns(r)
  \/ \E r \in Requests : HandlerPanics(r)
  \/ \E r \in Requests : Record(r)
  \/ \E r \in Requests : Recycle(r)
  \/ \E c \in Recorders : DropPooled(c)
  \/ \E r \in Rpcs, given \in Replies : ServeRpc(r, given)
  \/ \E r \in Rpcs : RpcPanics(r)
  \/ AllServed

MiddlewareSpec == MiddlewareInit /\ [][MiddlewareNext]_middlewareVars

-----------------------------------------------------------------------------
Stages == {"new", "serving", "returned", "pushed", "replied", "over"}
Writers == [final : {0, 200} \cup Codes, body : 0 .. MaxBody, early : BOOLEAN]

MiddlewareTypeOK ==
  /\ captureErrors \in BOOLEAN /\ pool \subseteq Recorders
  /\ recorder \in [Recorders -> [writer : Requests \cup {Nobody},
                                 status : {200} \cup Codes, wroteHeader : BOOLEAN,
                                 captured : [by : SUBSET Requests, len : 0 .. Limit]]]
  /\ using \in [Requests -> Recorders \cup {Nobody}]
  /\ stage \in [Requests \cup Rpcs -> Stages]
  /\ response \in [Requests -> Writers] /\ plain \in [Requests -> Writers]
  /\ event \in [Requests \cup Rpcs ->
                  [status : Nat, error : SUBSET (Requests \cup Rpcs)]]
  /\ reply \in [Rpcs -> Replies \cup {NoReply}]

(***************************************************************************)
(* A recorder serves one request at a time: two requests never hold the    *)
(* same one, none that is held is in the pool, and each writes to the      *)
(* client of the request that holds it, those in the pool to nobody's.     *)
(***************************************************************************)
ExclusiveUse ==
  /\ \A r \in Requests : using[r] # Nobody => recorder[using[r]].writer = r
  /\ \A c \in pool : recorder[c].writer = Nobody
  /\ \A q, r \in Requests : using[q] = using[r] /\ using[q] # Nobody => q = r
  /\ InUse \cap pool = {}

Pushed(r) == stage[r] \in {"pushed", "over"} /\ event[r] # NoEvent

(* What grpc-go sends to the client: it knows the errors of a context.     *)
SentCode(outcome) ==
  IF outcome = "context canceled" THEN "Canceled"
  ELSE IF outcome = "context deadline" THEN "DeadlineExceeded" ELSE CodeOf(outcome)

HttpEventTells(r) ==
  Pushed(r) /\ ~response[r].early =>
    /\ event[r].status = Final(response[r])
    /\ event[r].error =
         IF captureErrors /\ event[r].status >= 400 /\ response[r].body > 0
         THEN {r} ELSE {}

RpcEventTells(r) ==
  stage[r] = "replied" =>
    /\ reply[r].outcome \notin ContextErrors =>
         event[r].status = HttpStatusFromCode(SentCode(reply[r].outcome))
    /\ event[r].error =
         IF event[r].status >= 400 /\ reply[r].message THEN {r} ELSE {}

(***************************************************************************)
(* An event tells the story of its own request, whoever had the recorder   *)
(* before: the status is the one the client gets, and there is an error    *)
(* text just for a 4xx or 5xx response with a body, from that body alone.  *)
(* An informational status is the exception: the recorder takes it for the *)
(* final one.  Likewise for an RPC: the status stands for the code that    *)
(* the client is sent, but for a bare error of the context, and the error  *)
(* text is the message of the failure, none if the handler has given none. *)
(***************************************************************************)
EventTellsOwnRequest ==
  /\ \A r \in Requests : HttpEventTells(r)
  /\ \A r \in Rpcs : RpcEventTells(r)

(***************************************************************************)
(* What the handler writes with Write, WriteHeader and Flush reaches the   *)
(* client as it would without the middleware, as long as the handler sends *)
(* no 1xx status.  Nothing is said of other uses of its ResponseWriter:    *)
(* the recorder hides http.Hijacker and has no Unwrap.                     *)
(***************************************************************************)
Transparent == \A r \in Requests : plain[r].early \/ response[r] = plain[r]
=============================================================================
