-------------------------- MODULE MiddlewareProofs --------------------------
(***************************************************************************)
(* Theorems about Middleware, for any number of requests, recorders and    *)
(* RPCs, any status codes and any limit on what is kept of an error body.  *)
(***************************************************************************)
EXTENDS Middleware, TLAPS

RecorderType ==
  [writer : Requests \cup {Nobody}, status : {200} \cup Codes,
   wroteHeader : BOOLEAN, captured : [by : SUBSET Requests, len : 0 .. Limit]]

Busy == {"serving", "returned", "pushed"}

UseTypes ==
  /\ captureErrors \in BOOLEAN /\ pool \subseteq Recorders
  /\ recorder \in [Recorders -> RecorderType]
  /\ using \in [Requests -> Recorders \cup {Nobody}]
  /\ stage \in [Requests \cup Rpcs -> Stages]

(* A request holds a recorder from the first step in the middleware to the *)
(* last.                                                                   *)
Holding ==
  \A r \in Requests : stage[r] # "replied" /\ (stage[r] \in Busy) = (using[r] # Nobody)

UseInv == UseTypes /\ Holding /\ ExclusiveUse

-----------------------------------------------------------------------------
(* What the recorder's operations do to one recorder.                      *)
LEMMA ResetRecorder ==
  ASSUME NEW rec \in RecorderType, NEW r \in Requests
  PROVE  /\ Reset(rec, r) \in RecorderType /\ Reset(rec, r).writer = r
         /\ Reset(rec, r).status = 200 /\ Reset(rec, r).wroteHeader = FALSE
         /\ Reset(rec, r).captured = NoBytes
<1>1. NoBytes \in [by : SUBSET Requests, len : 0 .. Limit]
  BY MiddlewareAssumption DEF NoBytes
<1> DEFINE one   == [rec EXCEPT !.writer = r]
           two   == [one EXCEPT !.status = 200]
           three == [two EXCEPT !.wroteHeader = FALSE]
           four  == [three EXCEPT !.captured = NoBytes]
<1>2. one \in RecorderType /\ one.writer = r
  BY DEF RecorderType
<1> HIDE DEF one
<1>3. two \in RecorderType /\ two.writer = r /\ two.status = 200
  BY <1>2 DEF RecorderType
<1> HIDE DEF two
<1>4. /\ three \in RecorderType /\ three.writer = r /\ three.status = 200
      /\ three.wroteHeader = FALSE
  BY <1>3 DEF RecorderType
<1> HIDE DEF three
<1>5. /\ four \in RecorderType /\ four.writer = r /\ four.status = 200
      /\ four.wroteHeader = FALSE /\ four.captured = NoBytes
  BY <1>1, <1>4 DEF RecorderType
<1>6. Reset(rec, r) = four
  BY DEF Reset, one, two, three
<1> QED
  BY <1>5, <1>6

LEMMA ResetType ==
  ASSUME NEW rec \in RecorderType, NEW r \in Requests
  PROVE  Reset(rec, r) \in RecorderType /\ Reset(rec, r).writer = r
  BY ResetRecorder, ZenonT(30)

LEMMA FreshType == Fresh \in RecorderType
  BY MiddlewareAssumption DEF RecorderType, Fresh, NoBytes

LEMMA HeaderType ==
  ASSUME NEW rec \in RecorderType, NEW code \in {200} \cup Codes
  PROVE  /\ RecordHeader(rec, code) \in RecorderType
         /\ RecordHeader(rec, code).writer = rec.writer
  BY DEF RecorderType, RecordHeader

LEMMA CaptureType ==
  ASSUME NEW rec \in RecorderType, NEW r \in Requests, NEW n \in Nat
  PROVE  /\ Capture(rec, r, n) \in RecorderType
         /\ Capture(rec, r, n).writer = rec.writer
         /\ Capture(rec, r, n).status = rec.status
         /\ Capture(rec, r, n).wroteHeader = rec.wroteHeader
<1> DEFINE room == Limit - rec.captured.len
           kept == IF n <= room THEN n ELSE room
           bytes == [by |-> rec.captured.by \cup {r}, len |-> rec.captured.len + kept]
<1>1. rec.captured.len \in 0 .. Limit /\ rec.captured.by \subseteq Requests /\ Limit \in Nat
  BY MiddlewareAssumption DEF RecorderType
<1>2. rec.captured.len + kept \in 0 .. Limit
  BY <1>1
<1>3. bytes \in [by : SUBSET Requests, len : 0 .. Limit]
  BY <1>1, <1>2
<1>4. CASE Capture(rec, r, n) = [rec EXCEPT !.captured = bytes]
  <2> HIDE DEF bytes
  <2> QED
    BY <1>3, <1>4 DEF RecorderType
<1>5. CASE Capture(rec, r, n) = rec
  BY <1>5
<1> QED
  BY <1>4, <1>5 DEF Capture

-----------------------------------------------------------------------------
LEMMA HandleKeepsUse ==
  ASSUME UseInv, NEW r \in Requests, stage[r] = "serving",
         NEW rec \in RecorderType, rec.writer = r,
         NEW w, NEW u, Handle(r, rec, w, u)
  PROVE  UseInv'
<1>1. using[r] \in Recorders
  BY DEF UseInv, UseTypes, Holding, Busy
<1>2. recorder' = [recorder EXCEPT ![using[r]] = rec]
  BY DEF Handle
<1>3. UNCHANGED <<captureErrors, pool, using, stage>>
  BY DEF Handle
<1>4. UseTypes'
  BY <1>1, <1>2, <1>3 DEF UseInv, UseTypes
<1>5. Holding'
  BY <1>3 DEF UseInv, Holding
<1>6. \A c \in Recorders : recorder'[c].writer = recorder[c].writer
  BY <1>1, <1>2, MiddlewareAssumption DEF UseInv, UseTypes, ExclusiveUse
<1>7. ExclusiveUse'
  BY <1>3, <1>6 DEF UseInv, UseTypes, ExclusiveUse, InUse
<1> QED
  BY <1>4, <1>5, <1>7 DEF UseInv

(* The three ways in which a handler uses its recorder.                    *)
LEMMA HandlerCalls ==
  ASSUME UseInv, NEW r \in Requests, stage[r] = "serving"
  PROVE  /\ using[r] \in Recorders /\ recorder[using[r]] \in RecorderType
         /\ recorder[using[r]].writer = r
  BY DEF UseInv, UseTypes, Holding, Busy, ExclusiveUse

LEMMA EnterKeepsUse ==
  ASSUME UseInv, NEW r \in Requests, NEW c \in Recorders, Enter(r, c)
  PROVE  UseInv'
<1>1. /\ stage[r] = "new" /\ stage' = [stage EXCEPT ![r] = "serving"]
      /\ using' = [using EXCEPT ![r] = c] /\ captureErrors' = captureErrors
  BY DEF Enter
<1>2. using[r] = Nobody
  BY <1>1 DEF UseInv, Holding, Busy
<1>3. /\ c \notin InUse /\ pool' = pool \ {c}
      /\ \E rec \in RecorderType : rec.writer = r /\ recorder' = [recorder EXCEPT ![c] = rec]
  <2>1. CASE c \in pool /\ pool' = pool \ {c} /\ recorder' = [recorder EXCEPT ![c] = Reset(@, r)]
    <3>1. recorder[c] \in RecorderType
      BY DEF UseInv, UseTypes
    <3>2. PICK old \in RecorderType : recorder' = [recorder EXCEPT ![c] = Reset(old, r)]
      BY <2>1, <3>1
    <3>3. InUse \cap pool = {} /\ c \in pool
      BY <2>1 DEF UseInv, ExclusiveUse
    <3>4. Reset(old, r) \in RecorderType /\ Reset(old, r).writer = r
      BY ResetType
    <3> QED
      BY <2>1, <3>2, <3>3, <3>4
  <2>2. CASE c \notin pool \cup InUse /\ recorder' = [recorder EXCEPT ![c] = Reset(Fresh, r)] /\ pool' = pool
    BY <2>2, FreshType, ResetType
  <2> QED
    BY <2>1, <2>2 DEF Enter
<1>4. PICK rec \in RecorderType : rec.writer = r /\ recorder' = [recorder EXCEPT ![c] = rec]
  BY <1>3
<1>5. UseTypes'
  BY <1>1, <1>3, <1>4 DEF UseInv, UseTypes, Stages
<1>6. Holding'
  BY <1>1, MiddlewareAssumption DEF UseInv, UseTypes, Holding, Busy, Stages
<1>7. \A q \in Requests : using[q] # c
  BY <1>3, MiddlewareAssumption DEF InUse
<1>8. ExclusiveUse'
  <2>1. \A q \in Requests : using'[q] # Nobody => recorder'[using'[q]].writer = q
    BY <1>1, <1>4, <1>7 DEF UseInv, UseTypes, ExclusiveUse
  <2>2. \A d \in pool' : recorder'[d].writer = Nobody
    BY <1>3, <1>4 DEF UseInv, UseTypes, ExclusiveUse
  <2>3. \A p, q \in Requests : using'[p] = using'[q] /\ using'[p] # Nobody => p = q
    BY <1>1, <1>7 DEF UseInv, UseTypes, ExclusiveUse
  <2>4. \A q \in Requests : using'[q] # Nobody => using'[q] \notin pool'
    BY <1>1, <1>3 DEF UseInv, UseTypes, ExclusiveUse, InUse
  <2> QED
    BY <2>1, <2>2, <2>3, <2>4 DEF ExclusiveUse, InUse
<1> QED
  BY <1>5, <1>6, <1>8 DEF UseInv

LEMMA RecycleKeepsUse ==
  ASSUME UseInv, NEW r \in Requests, Recycle(r)
  PROVE  UseInv'
<1> DEFINE c == using[r]
<1>1. /\ stage[r] = "pushed" /\ stage' = [stage EXCEPT ![r] = "over"]
      /\ recorder' = [recorder EXCEPT ![c] = [recorder[c] EXCEPT !.writer = Nobody]]
      /\ pool' = pool \cup {c} /\ using' = [using EXCEPT ![r] = Nobody]
      /\ captureErrors' = captureErrors
  BY DEF Recycle
<1>2. c \in Recorders /\ c # Nobody
  BY <1>1, MiddlewareAssumption DEF UseInv, UseTypes, Holding, Busy
<1>3. [recorder[c] EXCEPT !.writer = Nobody] \in RecorderType
  BY <1>2 DEF UseInv, UseTypes, RecorderType
<1>4. UseTypes'
  BY <1>1, <1>2, <1>3 DEF UseInv, UseTypes, Stages
<1>5. Holding'
  BY <1>1 DEF UseInv, UseTypes, Holding, Busy, Stages
<1>6. \A q \in Requests \ {r} : using[q] # c
  BY <1>2 DEF UseInv, ExclusiveUse
<1>7. ExclusiveUse'
  <2>1. \A q \in Requests : using'[q] # Nobody => recorder'[using'[q]].writer = q
    BY <1>1, <1>6 DEF UseInv, UseTypes, ExclusiveUse
  <2>2. \A d \in pool' : recorder'[d].writer = Nobody
    BY <1>1, <1>2, <1>3 DEF UseInv, UseTypes, ExclusiveUse, RecorderType
  <2>3. \A p, q \in Requests : using'[p] = using'[q] /\ using'[p] # Nobody => p = q
    BY <1>1 DEF UseInv, UseTypes, ExclusiveUse
  <2>4. \A q \in Requests : using'[q] # Nobody => using'[q] \notin pool'
    BY <1>1, <1>6 DEF UseInv, UseTypes, ExclusiveUse, InUse
  <2> QED
    BY <2>1, <2>2, <2>3, <2>4 DEF ExclusiveUse, InUse
<1> QED
  BY <1>4, <1>5, <1>7 DEF UseInv

(***************************************************************************)
(* Each step keeps a recorder with one request.                            *)
(***************************************************************************)
LEMMA UseStep == UseInv /\ [MiddlewareNext]_middlewareVars => UseInv'
<1> SUFFICES ASSUME UseInv, [MiddlewareNext]_middlewareVars PROVE UseInv'
  OBVIOUS
<1>1. ASSUME NEW r \in Requests, NEW c \in Recorders, Enter(r, c) PROVE UseInv'
  BY <1>1, EnterKeepsUse
<1>2. ASSUME NEW r \in Requests, Ignore(r) PROVE UseInv'
  BY <1>2 DEF Ignore, UseInv, UseTypes, Holding, Busy, Stages, ExclusiveUse, InUse
<1>3. ASSUME NEW r \in Requests, NEW code \in Codes, WriteHeader(r, code) PROVE UseInv'
  <2> DEFINE rec == recorder[using[r]]
  <2>1. stage[r] = "serving"
    BY <1>3 DEF WriteHeader
  <2>2. rec \in RecorderType /\ rec.writer = r
    BY <2>1, HandlerCalls
  <2> HIDE DEF rec
  <2>3. RecordHeader(rec, code) \in RecorderType /\ RecordHeader(rec, code).writer = r
    BY <2>2, HeaderType
  <2>4. \E w, u : Handle(r, RecordHeader(rec, code), w, u)
    BY <1>3 DEF WriteHeader, rec
  <2> QED
    BY <2>1, <2>3, <2>4, HandleKeepsUse
<1>4. ASSUME NEW r \in Requests, NEW n \in 1 .. MaxBody, Write(r, n) PROVE UseInv'
  <2> DEFINE rec  == recorder[using[r]]
             head == RecordHeader(rec, 200)
  <2>1. stage[r] = "serving"
    BY <1>4 DEF Write
  <2>2. rec \in RecorderType /\ rec.writer = r
    BY <2>1, HandlerCalls
  <2> HIDE DEF rec
  <2>3. head \in RecorderType /\ head.writer = r
    BY <2>2, HeaderType
  <2>4. \E w, u : Handle(r, Capture(head, r, n), w, u)
    BY <1>4 DEF Write, rec
  <2> HIDE DEF head
  <2>5. Capture(head, r, n) \in RecorderType /\ Capture(head, r, n).writer = r
    BY <2>3, CaptureType, MiddlewareAssumption
  <2> QED
    BY <2>1, <2>4, <2>5, HandleKeepsUse
<1>5. ASSUME NEW r \in Requests, Flush(r) PROVE UseInv'
  <2> DEFINE rec == recorder[using[r]]
  <2>1. stage[r] = "serving"
    BY <1>5 DEF Flush
  <2>2. rec \in RecorderType /\ rec.writer = r
    BY <2>1, HandlerCalls
  <2> HIDE DEF rec
  <2>3. RecordHeader(rec, 200) \in RecorderType /\ RecordHeader(rec, 200).writer = r
    BY <2>2, HeaderType
  <2>4. \E w, u : Handle(r, RecordHeader(rec, 200), w, u)
    BY <1>5 DEF Flush, rec
  <2> QED
    BY <2>1, <2>3, <2>4, HandleKeepsUse
<1>6. ASSUME NEW r \in Requests, HandlerReturns(r) PROVE UseInv'
  BY <1>6 DEF HandlerReturns, UseInv, UseTypes, Holding, Busy, Stages, ExclusiveUse, InUse
<1>7. ASSUME NEW r \in Requests, HandlerPanics(r) PROVE UseInv'
  BY <1>7 DEF HandlerPanics, UseInv, UseTypes, Holding, Busy, Stages, ExclusiveUse, InUse
<1>8. ASSUME NEW r \in Requests, Record(r) PROVE UseInv'
  BY <1>8 DEF Record, UseInv, UseTypes, Holding, Busy, Stages, ExclusiveUse, InUse
<1>9. ASSUME NEW r \in Requests, Recycle(r) PROVE UseInv'
  BY <1>9, RecycleKeepsUse
<1>10. ASSUME NEW c \in Recorders, DropPooled(c) PROVE UseInv'
  BY <1>10 DEF DropPooled, UseInv, UseTypes, Holding, ExclusiveUse, InUse
<1>11. ASSUME NEW r \in Rpcs, NEW given \in Replies, ServeRpc(r, given) PROVE UseInv'
  BY <1>11, MiddlewareAssumption
     DEF ServeRpc, UseInv, UseTypes, Holding, Stages, ExclusiveUse, InUse
<1>12. ASSUME NEW r \in Rpcs, RpcPanics(r) PROVE UseInv'
  BY <1>12, MiddlewareAssumption DEF RpcPanics, UseInv, UseTypes, Holding, Stages, ExclusiveUse, InUse
<1>13. CASE AllServed \/ UNCHANGED middlewareVars
  BY <1>13 DEF AllServed, middlewareVars, UseInv, UseTypes, Holding, ExclusiveUse, InUse
<1> QED
  BY <1>1, <1>2, <1>3, <1>4, <1>5, <1>6, <1>7, <1>8, <1>9, <1>10, <1>11, <1>12, <1>13
     DEF MiddlewareNext

LEMMA UseInvariant == MiddlewareSpec => []UseInv
<1>1. MiddlewareInit => UseInv
  BY FreshType, MiddlewareAssumption
     DEF MiddlewareInit, UseInv, UseTypes, Holding, Busy, Stages, ExclusiveUse, InUse
<1> QED
  BY <1>1, UseStep, PTL DEF MiddlewareSpec

(***************************************************************************)
(* No two requests ever share a recorder, and what a request writes goes   *)
(* to its own client, whoever had the recorder before, panicked with it or *)
(* has put it back.                                                        *)
(***************************************************************************)
THEOREM ExclusiveUseThm == MiddlewareSpec => []ExclusiveUse
<1>1. UseInv => ExclusiveUse
  BY DEF UseInv
<1> QED
  BY <1>1, UseInvariant, PTL

-----------------------------------------------------------------------------
(* Transparency.  While a request is served, and unless it has sent a 1xx  *)
(* status, its response is what it would be without the recorder, and the  *)
(* recorder knows whether the header is out.                               *)
WriterType == [final : {0, 200} \cup Codes, body : Nat, early : BOOLEAN]

Mirror(rec, w, u) == u.early \/ (w = u /\ (rec.wroteHeader <=> u.final # 0))

MirrorInv ==
  /\ response \in [Requests -> WriterType] /\ plain \in [Requests -> WriterType]
  /\ \A r \in Requests : stage[r] = "new" => response[r] = Untouched /\ plain[r] = Untouched
  /\ \A r \in Requests : stage[r] = "serving" =>
       Mirror(recorder[using[r]], response[r], plain[r])
  /\ Transparent

(* What net/http does with a status: a final one stays, and afterwards     *)
(* there is one unless it was informational.                               *)
LEMMA SendHeaderFacts ==
  ASSUME NEW w \in WriterType, NEW code \in {200} \cup Codes
  PROVE  /\ SendHeader(w, code) \in WriterType
         /\ w.final # 0 => SendHeader(w, code) = w
         /\ w.early => SendHeader(w, code).early
         /\ SendHeader(w, code).early \/ SendHeader(w, code).final # 0
<1>1. code \in Nat /\ code # 0
  BY MiddlewareAssumption
<1>2. CASE w.final # 0
  BY <1>2 DEF SendHeader, WriterType
<1>3. CASE w.final = 0 /\ Informational(code)
  <2> DEFINE sent == [w EXCEPT !.early = TRUE]
  <2>1. sent \in WriterType /\ sent.early
    BY DEF WriterType
  <2>2. SendHeader(w, code) = sent
    BY <1>3 DEF SendHeader
  <2> QED
    BY <1>3, <2>1, <2>2
<1>4. CASE w.final = 0 /\ ~Informational(code)
  <2> DEFINE sent == [w EXCEPT !.final = code]
  <2>1. sent \in WriterType /\ sent.early = w.early /\ sent.final = code
    BY DEF WriterType
  <2>2. SendHeader(w, code) = sent
    BY <1>4 DEF SendHeader
  <2> QED
    BY <1>1, <1>4, <2>1, <2>2
<1> QED
  BY <1>2, <1>3, <1>4

LEMMA BodyFacts ==
  ASSUME NEW w \in WriterType, NEW n \in Nat
  PROVE  /\ SendBody(w, n) \in WriterType
         /\ w.early => SendBody(w, n).early
         /\ SendBody(w, n).early \/ SendBody(w, n).final # 0
<1> DEFINE head == SendHeader(w, 200)
           sent == [head EXCEPT !.body = @ + n]
<1>1. head \in WriterType /\ (w.early => head.early) /\ (head.early \/ head.final # 0)
  BY SendHeaderFacts
<1> HIDE DEF head
<1>2. sent \in WriterType /\ sent.early = head.early /\ sent.final = head.final
  BY <1>1 DEF WriterType
<1>3. SendBody(w, n) = sent
  BY DEF SendBody, head
<1> HIDE DEF sent
<1> QED
  BY <1>1, <1>2, <1>3

LEMMA HeaderWritten ==
  ASSUME NEW rec \in RecorderType, NEW code \in {200} \cup Codes
  PROVE  RecordHeader(rec, code).wroteHeader = TRUE
  BY DEF RecordHeader, RecorderType

(* WriteHeader, which the two other calls begin with.                      *)
LEMMA HeaderMirrors ==
  ASSUME NEW rec \in RecorderType, NEW w \in WriterType, NEW u \in WriterType,
         NEW code \in {200} \cup Codes, Mirror(rec, w, u)
  PROVE  /\ PassHeader(rec, w, code) \in WriterType
         /\ Mirror(RecordHeader(rec, code), PassHeader(rec, w, code), SendHeader(u, code))
<1> DEFINE head == RecordHeader(rec, code)
           sent == PassHeader(rec, w, code)
           bare == SendHeader(u, code)
<1>1. head.wroteHeader = TRUE
  BY HeaderWritten
<1>2. sent = IF rec.wroteHeader THEN w ELSE SendHeader(w, code)
  BY DEF PassHeader
<1>3. sent \in WriterType
  BY <1>2, SendHeaderFacts
<1>4. /\ u.early => bare.early
      /\ bare.early \/ bare.final # 0
      /\ u.final # 0 => bare = u
  BY SendHeaderFacts
<1>5. ~u.early => sent = bare
  <2>1. rec.wroteHeader \in BOOLEAN
    BY DEF RecorderType
  <2>2. ~u.early => w = u /\ (rec.wroteHeader <=> u.final # 0)
    BY DEF Mirror
  <2> QED
    BY <1>2, <1>4, <2>1, <2>2
<1> HIDE DEF head, sent, bare
<1>6. Mirror(head, sent, bare)
  BY <1>1, <1>4, <1>5 DEF Mirror
<1> QED
  BY <1>3, <1>6 DEF head, sent, bare

LEMMA HandleKeepsMirror ==
  ASSUME UseInv, MirrorInv, NEW r \in Requests, stage[r] = "serving",
         NEW rec \in RecorderType, rec.writer = r,
         NEW w \in WriterType, NEW u \in WriterType, Mirror(rec, w, u),
         Handle(r, rec, w, u)
  PROVE  MirrorInv'
<1>1. using[r] \in Recorders
  BY HandlerCalls
<1>2. /\ recorder' = [recorder EXCEPT ![using[r]] = rec]
      /\ response' = [response EXCEPT ![r] = w] /\ plain' = [plain EXCEPT ![r] = u]
      /\ using' = using /\ stage' = stage
  BY DEF Handle
<1>3. \A q \in Requests : stage[q] = "serving" /\ q # r =>
        using[q] \in Recorders /\ using[q] # using[r]
  BY HandlerCalls, MiddlewareAssumption DEF UseInv, ExclusiveUse, Holding, Busy
<1>4. response' \in [Requests -> WriterType] /\ plain' \in [Requests -> WriterType]
  BY <1>2 DEF MirrorInv
<1>5. \A q \in Requests : stage'[q] = "new" => response'[q] = Untouched /\ plain'[q] = Untouched
  BY <1>2 DEF MirrorInv
<1>6. ASSUME NEW q \in Requests, stage'[q] = "serving"
      PROVE  Mirror(recorder'[using'[q]], response'[q], plain'[q])
  <2>1. CASE q = r
    <3>1. recorder'[using'[q]] = rec /\ response'[q] = w /\ plain'[q] = u
      BY <1>1, <1>2, <2>1 DEF UseInv, UseTypes, MirrorInv
    <3> QED
      BY <3>1
  <2>2. CASE q # r
    <3>1. /\ recorder'[using'[q]] = recorder[using[q]]
          /\ response'[q] = response[q] /\ plain'[q] = plain[q]
      BY <1>2, <1>3, <1>6, <2>2 DEF UseInv, UseTypes, MirrorInv
    <3>2. Mirror(recorder[using[q]], response[q], plain[q])
      BY <1>2, <1>6 DEF MirrorInv
    <3> QED
      BY <3>1, <3>2
  <2> QED
    BY <2>1, <2>2
<1>7. Transparent'
  BY <1>2 DEF MirrorInv, Transparent, Mirror
<1> QED
  BY <1>4, <1>5, <1>6, <1>7 DEF MirrorInv

LEMMA MirrorStep == UseInv /\ MirrorInv /\ [MiddlewareNext]_middlewareVars => MirrorInv'
<1> SUFFICES ASSUME UseInv, MirrorInv, [MiddlewareNext]_middlewareVars PROVE MirrorInv'
  OBVIOUS
<1>1. ASSUME NEW r \in Requests, stage[r] = "serving"
      PROVE  /\ recorder[using[r]] \in RecorderType /\ recorder[using[r]].writer = r
             /\ response[r] \in WriterType /\ plain[r] \in WriterType
             /\ Mirror(recorder[using[r]], response[r], plain[r])
  BY <1>1, HandlerCalls DEF MirrorInv
<1>2. ASSUME NEW r \in Requests, NEW c \in Recorders, Enter(r, c) PROVE MirrorInv'
  <2>1. /\ stage[r] = "new" /\ stage' = [stage EXCEPT ![r] = "serving"]
        /\ using' = [using EXCEPT ![r] = c] /\ UNCHANGED <<response, plain>>
    BY <1>2 DEF Enter
  <2>2. PICK old \in RecorderType : recorder' = [recorder EXCEPT ![c] = Reset(old, r)]
    BY <1>2, FreshType DEF Enter, UseInv, UseTypes
  <2>3. Reset(old, r).wroteHeader = FALSE
    BY ResetRecorder, ZenonT(30)
  <2>4. \A q \in Requests : using[q] # c
    BY <1>2, MiddlewareAssumption DEF Enter, UseInv, ExclusiveUse, InUse
  <2>5. ASSUME NEW q \in Requests, stage'[q] = "serving"
        PROVE  Mirror(recorder'[using'[q]], response'[q], plain'[q])
    <3>1. CASE q = r
      <4>1. recorder'[using'[q]].wroteHeader = FALSE
        BY <2>1, <2>2, <2>3, <3>1 DEF UseInv, UseTypes
      <4>2. response'[q] = Untouched /\ plain'[q] = Untouched
        BY <2>1, <3>1 DEF MirrorInv
      <4>3. Untouched.final = 0
        BY DEF Untouched
      <4> QED
        BY <4>1, <4>2, <4>3 DEF Mirror
    <3>2. CASE q # r
      <4>1. stage[q] = "serving" /\ using'[q] = using[q] /\ using[q] \in Recorders
        BY <2>1, <2>5, <3>2, HandlerCalls DEF UseInv, UseTypes
      <4>2. recorder'[using'[q]] = recorder[using[q]]
        BY <2>2, <2>4, <4>1 DEF UseInv, UseTypes
      <4> QED
        BY <1>1, <2>1, <4>1, <4>2
    <3> QED
      BY <3>1, <3>2
  <2>6. \A q \in Requests : stage'[q] = "new" => stage[q] = "new"
    BY <2>1 DEF UseInv, UseTypes
  <2> QED
    BY <2>1, <2>5, <2>6 DEF MirrorInv, Transparent
<1>3. ASSUME NEW r \in Requests, NEW code \in Codes, WriteHeader(r, code) PROVE MirrorInv'
  <2> DEFINE rec  == recorder[using[r]]
             head == RecordHeader(rec, code)
             sent == PassHeader(rec, response[r], code)
             bare == SendHeader(plain[r], code)
  <2>1. stage[r] = "serving"
    BY <1>3 DEF WriteHeader
  <2>2. /\ rec \in RecorderType /\ rec.writer = r /\ Mirror(rec, response[r], plain[r])
        /\ response[r] \in WriterType /\ plain[r] \in WriterType
    BY <1>1, <2>1
  <2>3. Handle(r, head, sent, bare)
    BY <1>3, <2>2 DEF WriteHeader
  <2> HIDE DEF rec
  <2>4. head \in RecorderType /\ head.writer = r
    BY <2>2, HeaderType
  <2>5. sent \in WriterType /\ Mirror(head, sent, bare)
    BY <2>2, HeaderMirrors
  <2>6. bare \in WriterType
    BY <2>2, SendHeaderFacts
  <2> HIDE DEF head, sent, bare
  <2> QED
    BY <2>1, <2>3, <2>4, <2>5, <2>6, HandleKeepsMirror
<1>4. ASSUME NEW r \in Requests, NEW n \in 1 .. MaxBody, Write(r, n) PROVE MirrorInv'
  <2> DEFINE rec  == recorder[using[r]]
             head == RecordHeader(rec, 200)
             kept == Capture(head, r, n)
             sent == PassHeader(rec, response[r], 200)
             bare == SendHeader(plain[r], 200)
             full == SendBody(sent, n)
             wide == SendBody(plain[r], n)
  <2>0. n \in Nat
    BY MiddlewareAssumption
  <2>1. stage[r] = "serving"
    BY <1>4 DEF Write
  <2>2. /\ rec \in RecorderType /\ rec.writer = r /\ Mirror(rec, response[r], plain[r])
        /\ response[r] \in WriterType /\ plain[r] \in WriterType
    BY <1>1, <2>1
  <2>3. Handle(r, kept, full, wide)
    BY <1>4, <2>2 DEF Write
  <2>4. Mirror(rec, response[r], plain[r]) /\ (plain[r].early \/ response[r] = plain[r])
    BY <2>2 DEF Mirror
  <2> HIDE DEF rec
  <2>5. head \in RecorderType /\ head.writer = r /\ head.wroteHeader = TRUE
    BY <2>2, HeaderType, HeaderWritten
  <2>6. sent \in WriterType /\ Mirror(head, sent, bare)
    BY <2>2, HeaderMirrors
  <2>7. full \in WriterType
    BY <2>0, <2>6, BodyFacts
  <2>8. /\ wide \in WriterType /\ (plain[r].early => wide.early)
        /\ wide.early \/ wide.final # 0
    BY <2>0, <2>2, BodyFacts
  <2> HIDE DEF head
  <2>9. kept \in RecorderType /\ kept.writer = r /\ kept.wroteHeader = TRUE
    BY <2>0, <2>5, CaptureType
  <2>10. ~plain[r].early => full = wide
    <3>1. SUFFICES ASSUME ~plain[r].early PROVE full = wide
      OBVIOUS
    <3>2. response[r] = plain[r] /\ (rec.wroteHeader <=> plain[r].final # 0)
      BY <2>2, <3>1 DEF Mirror
    <3>3. CASE rec.wroteHeader
      BY <3>2, <3>3 DEF PassHeader
    <3>4. CASE ~rec.wroteHeader
      <4>1. sent = bare
        BY <3>2, <3>4 DEF PassHeader
      <4>2. plain[r].final = 0 /\ ~Informational(200)
        BY <3>2, <3>4 DEF Informational
      <4>3. bare = [plain[r] EXCEPT !.final = 200]
        BY <4>2 DEF SendHeader
      <4>4. bare.final = 200
        BY <2>2, <4>3 DEF WriterType
      <4>5. SendHeader(bare, 200) = bare
        BY <4>4 DEF SendHeader
      <4> QED
        BY <4>1, <4>5 DEF SendBody
    <3> QED
      BY <2>2, <3>3, <3>4 DEF RecorderType
  <2> HIDE DEF kept, sent, bare, full, wide
  <2>11. Mirror(kept, full, wide)
    BY <2>8, <2>9, <2>10 DEF Mirror
  <2> QED
    BY <2>1, <2>3, <2>7, <2>8, <2>9, <2>11, HandleKeepsMirror
<1>5. ASSUME NEW r \in Requests, Flush(r) PROVE MirrorInv'
  <2> DEFINE rec  == recorder[using[r]]
             head == RecordHeader(rec, 200)
             sent == PassHeader(rec, response[r], 200)
             bare == SendHeader(plain[r], 200)
             flat == SendHeader(sent, 200)
  <2>1. stage[r] = "serving"
    BY <1>5 DEF Flush
  <2>2. /\ rec \in RecorderType /\ rec.writer = r /\ Mirror(rec, response[r], plain[r])
        /\ response[r] \in WriterType /\ plain[r] \in WriterType
    BY <1>1, <2>1
  <2>3. Handle(r, head, flat, bare)
    BY <1>5, <2>2 DEF Flush
  <2> HIDE DEF rec
  <2>4. head \in RecorderType /\ head.writer = r
    BY <2>2, HeaderType
  <2>5. sent \in WriterType /\ Mirror(head, sent, bare)
    BY <2>2, HeaderMirrors
  <2>6. bare \in WriterType /\ (bare.early \/ bare.final # 0)
    BY <2>2, SendHeaderFacts
  <2> HIDE DEF sent, bare, head
  <2>7. flat \in WriterType /\ (sent.final # 0 => flat = sent)
    BY <2>5, SendHeaderFacts
  <2> HIDE DEF flat
  <2>8. Mirror(head, flat, bare)
    BY <2>5, <2>6, <2>7 DEF Mirror
  <2> QED
    BY <2>1, <2>3, <2>4, <2>6, <2>7, <2>8, HandleKeepsMirror
<1>6. ASSUME NEW r \in Requests, Ignore(r) \/ HandlerReturns(r) \/ HandlerPanics(r)
      PROVE  MirrorInv'
  <2>1. UNCHANGED <<recorder, response, plain>>
    BY <1>6 DEF Ignore, HandlerReturns, HandlerPanics
  <2>2. \A q \in Requests : stage'[q] \in {"new", "serving"} =>
          stage'[q] = stage[q] /\ using'[q] = using[q]
    BY <1>6 DEF Ignore, HandlerReturns, HandlerPanics, UseInv, UseTypes
  <2> QED
    BY <2>1, <2>2 DEF MirrorInv, Transparent
<1>7. ASSUME NEW r \in Requests, Record(r) PROVE MirrorInv'
  <2>1. UNCHANGED <<recorder, using, response, plain>>
    BY <1>7 DEF Record
  <2>2. \A q \in Requests : stage'[q] \in {"new", "serving"} => stage'[q] = stage[q]
    BY <1>7 DEF Record, UseInv, UseTypes
  <2> QED
    BY <2>1, <2>2 DEF MirrorInv, Transparent
<1>8. ASSUME NEW r \in Requests, Recycle(r) PROVE MirrorInv'
  <2>1. /\ UNCHANGED <<response, plain>> /\ stage[r] = "pushed"
        /\ stage' = [stage EXCEPT ![r] = "over"] /\ using' = [using EXCEPT ![r] = Nobody]
        /\ \A c \in Recorders \ {using[r]} : recorder'[c] = recorder[c]
    BY <1>8 DEF Recycle, UseInv, UseTypes
  <2>2. \A q \in Requests : stage'[q] \in {"new", "serving"} =>
          q # r /\ stage'[q] = stage[q] /\ using'[q] = using[q]
    BY <2>1 DEF UseInv, UseTypes
  <2>3. \A q \in Requests : stage[q] = "serving" =>
          using[q] \in Recorders \ {using[r]} /\ recorder'[using[q]] = recorder[using[q]]
    BY <2>1, HandlerCalls, MiddlewareAssumption DEF UseInv, ExclusiveUse
  <2> QED
    BY <2>1, <2>2, <2>3 DEF MirrorInv, Transparent
<1>9. ASSUME NEW c \in Recorders, DropPooled(c) PROVE MirrorInv'
  BY <1>9 DEF DropPooled, MirrorInv, Transparent
<1>10. ASSUME NEW r \in Rpcs, NEW given \in Replies,
              ServeRpc(r, given) \/ RpcPanics(r)
       PROVE  MirrorInv'
  <2>1. /\ UNCHANGED <<recorder, using, response, plain>>
        /\ \A q \in Requests : stage'[q] = stage[q]
    BY <1>10, MiddlewareAssumption DEF ServeRpc, RpcPanics, UseInv, UseTypes
  <2> QED
    BY <2>1 DEF MirrorInv, Transparent
<1>11. CASE AllServed \/ UNCHANGED middlewareVars
  BY <1>11 DEF AllServed, middlewareVars, MirrorInv, Transparent
<1>12. [outcome |-> "OK", message |-> FALSE] \in Replies
  BY DEF Replies, Outcomes, HttpStatus, OtherErrors, ContextErrors
<1> QED
  BY <1>2, <1>3, <1>4, <1>5, <1>6, <1>7, <1>8, <1>9, <1>10, <1>11, <1>12
     DEF MiddlewareNext

(***************************************************************************)
(* With the middleware a client gets the response the handler's calls of   *)
(* Write, WriteHeader and Flush would have given it without: whatever      *)
(* their codes, order and number, whoever used the recorder before, as     *)
(* long as it sends no 1xx status.                                         *)
(***************************************************************************)
THEOREM TransparentThm == MiddlewareSpec => []Transparent
<1>1. MiddlewareInit => MirrorInv
  BY DEF MiddlewareInit, MirrorInv, Transparent, Untouched, WriterType
<1>2. MirrorInv => Transparent
  BY DEF MirrorInv
<1> QED
  BY <1>1, <1>2, MirrorStep, UseInvariant, PTL DEF MiddlewareSpec

-----------------------------------------------------------------------------
(* While no informational status was sent, the recorder of a request knows *)
(* its status, and has bytes of it just when the body of an error is read. *)
Story(r, rec, w) ==
  w.early \/
    /\ rec.wroteHeader <=> w.final # 0
    /\ w.body > 0 => w.final # 0
    /\ rec.status = Final(w)
    /\ rec.captured.by = IF captureErrors /\ rec.status >= 400 /\ w.body > 0 THEN {r} ELSE {}
    /\ rec.captured.by = {} => rec.captured.len = 0

EventType == [status : Nat, error : SUBSET (Requests \cup Rpcs)]

StoryInv ==
  /\ event \in [Requests \cup Rpcs -> EventType]
  /\ reply \in [Rpcs -> Replies \cup {NoReply}]
  /\ \A r \in Requests : response[r].body = plain[r].body /\ plain[r].body <= MaxBody
  /\ \A r \in Requests : stage[r] \in {"serving", "returned"} =>
       Story(r, recorder[using[r]], response[r])
  /\ \A r \in Requests : stage[r] \in {"new", "serving", "returned"} => event[r] = NoEvent
  /\ EventTellsOwnRequest

LEMMA CodesAreNumbers == \A code \in {200} \cup Codes : code \in Nat /\ code # 0
  BY MiddlewareAssumption

(* Events are told once and for all, if the response stays what it was.    *)
LEMMA ToldStays ==
  ASSUME StoryInv, captureErrors' = captureErrors, NEW q \in Requests,
         response'[q] = response[q], event'[q] = event[q], Pushed(q)' => Pushed(q)
  PROVE  HttpEventTells(q)'
<1>1. HttpEventTells(q)
  BY DEF StoryInv, EventTellsOwnRequest
<1> QED
  BY <1>1 DEF HttpEventTells

LEMMA RpcToldStays ==
  ASSUME StoryInv, NEW q \in Rpcs, event'[q] = event[q],
         reply'[q] = reply[q],
         stage'[q] = "replied" => stage[q] = "replied"
  PROVE  RpcEventTells(q)'
<1>1. RpcEventTells(q)
  BY DEF StoryInv, EventTellsOwnRequest
<1> QED
  BY <1>1 DEF RpcEventTells

LEMMA PassedIsWriter ==
  ASSUME NEW rec, NEW w \in WriterType, NEW code \in {200} \cup Codes
  PROVE  PassHeader(rec, w, code) \in WriterType
  BY SendHeaderFacts DEF PassHeader

LEMMA HeaderKeepsBody ==
  ASSUME NEW w \in WriterType, NEW code \in {200} \cup Codes
  PROVE  SendHeader(w, code).body = w.body
  BY DEF SendHeader, WriterType

LEMMA BodyGrows ==
  ASSUME NEW w \in WriterType, NEW n \in Nat
  PROVE  /\ SendBody(w, n).body = w.body + n
         /\ w.final # 0 => SendBody(w, n).final = w.final /\ SendBody(w, n).early = w.early
<1> DEFINE head == SendHeader(w, 200)
<1>1. head \in WriterType /\ head.body = w.body /\ (w.final # 0 => head = w)
  BY SendHeaderFacts, HeaderKeepsBody
<1> HIDE DEF head
<1>2. SendBody(w, n) = [head EXCEPT !.body = head.body + n]
  BY DEF SendBody, head
<1> QED
  BY <1>1, <1>2 DEF WriterType

(* The first status the recorder sees is the one net/http makes final.     *)
LEMMA HeaderTells ==
  ASSUME NEW r \in Requests, NEW rec \in RecorderType, NEW w \in WriterType,
         NEW code \in {200} \cup Codes, Story(r, rec, w)
  PROVE  /\ Story(r, RecordHeader(rec, code), PassHeader(rec, w, code))
         /\ PassHeader(rec, w, code).early \/ PassHeader(rec, w, code).final # 0
         /\ PassHeader(rec, w, code).body = w.body
<1>1. CASE rec.wroteHeader
  BY <1>1 DEF RecordHeader, PassHeader, Story
<1>2. CASE ~rec.wroteHeader
  <2> DEFINE head == RecordHeader(rec, code)
             sent == SendHeader(w, code)
  <2>1. PassHeader(rec, w, code) = sent
    BY <1>2 DEF PassHeader
  <2>2. sent.body = w.body /\ (w.early => sent.early) /\ (sent.early \/ sent.final # 0)
    BY SendHeaderFacts, HeaderKeepsBody
  <2>3. head.wroteHeader = TRUE /\ head.status = code /\ head.captured = rec.captured
    BY <1>2 DEF RecordHeader, RecorderType
  <2>4. ~sent.early => sent.final = code /\ w.final = 0
    <3>1. SUFFICES ASSUME ~sent.early PROVE sent.final = code /\ w.final = 0
      OBVIOUS
    <3>2. ~w.early
      BY <2>2, <3>1
    <3>3. w.final = 0
      BY <1>2, <3>2 DEF Story
    <3>4. ~Informational(code)
      BY <3>1, <3>3 DEF SendHeader, WriterType
    <3> QED
      BY <3>3, <3>4 DEF SendHeader, WriterType
  <2> HIDE DEF head, sent
  <2>5. Story(r, head, sent)
    <3>1. SUFFICES ASSUME ~sent.early
                   PROVE  /\ head.wroteHeader <=> sent.final # 0
                          /\ sent.body > 0 => sent.final # 0
                          /\ head.status = Final(sent)
                          /\ head.captured.by = IF captureErrors /\ head.status >= 400 /\ sent.body > 0
                                                THEN {r} ELSE {}
                          /\ head.captured.by = {} => head.captured.len = 0
      BY DEF Story
    <3>2. code # 0 /\ sent.final = code /\ w.final = 0 /\ ~w.early
      BY <2>2, <2>4, <3>1, MiddlewareAssumption
    <3>3. w.body = 0 /\ rec.captured.by = {} /\ rec.captured.len = 0
      BY <3>2 DEF Story, WriterType
    <3> QED
      BY <2>2, <2>3, <3>2, <3>3 DEF Final
  <2> QED
    BY <2>1, <2>2, <2>5 DEF head
<1> QED
  BY <1>1, <1>2 DEF RecorderType

(* The first bytes of an error are kept, as there is room for some.        *)
LEMMA BodyTells ==
  ASSUME NEW r \in Requests, NEW rec \in RecorderType, NEW w \in WriterType,
         NEW n \in Nat \ {0}, Story(r, rec, w), w.early \/ w.final # 0
  PROVE  Story(r, Capture(rec, r, n), SendBody(w, n))
<1> DEFINE kept == Capture(rec, r, n)
           full == SendBody(w, n)
<1>1. CASE w.early
  BY <1>1, BodyFacts DEF Story
<1>2. CASE ~w.early
  <2>1. full.final = w.final /\ full.early = w.early /\ full.body = w.body + n /\ w.body \in Nat
    BY <1>2, BodyGrows DEF WriterType
  <2>2. kept.status = rec.status /\ kept.wroteHeader = rec.wroteHeader
    BY CaptureType
  <2>3. /\ w.final # 0 /\ rec.wroteHeader /\ rec.status = Final(w)
        /\ rec.captured.by = IF captureErrors /\ rec.status >= 400 /\ w.body > 0 THEN {r} ELSE {}
        /\ rec.captured.by = {} => rec.captured.len = 0
    BY <1>2 DEF Story
  <2>4. /\ kept.captured.by = IF captureErrors /\ rec.status >= 400 THEN {r} ELSE {}
        /\ kept.captured.by = {} => kept.captured.len = 0
    <3> DEFINE room == Limit - rec.captured.len
               more == [by |-> rec.captured.by \cup {r},
                        len |-> rec.captured.len + IF n <= room THEN n ELSE room]
    <3>1. kept = IF captureErrors /\ rec.status >= 400 /\ room > 0
                 THEN [rec EXCEPT !.captured = more] ELSE rec
      BY DEF Capture
    <3>2. rec.captured.len \in Nat /\ Limit \in Nat \ {0}
      BY MiddlewareAssumption DEF RecorderType
    <3>3. CASE ~(captureErrors /\ rec.status >= 400)
      BY <2>3, <3>1, <3>3
    <3>4. CASE captureErrors /\ rec.status >= 400 /\ room > 0
      <4>1. kept.captured = more
        BY <3>1, <3>4 DEF RecorderType
      <4>2. more.by = {r}
        BY <2>3
      <4> QED
        BY <3>4, <4>1, <4>2
    <3>5. CASE captureErrors /\ rec.status >= 400 /\ ~(room > 0)
      <4>1. rec.captured.len # 0
        BY <3>2, <3>5
      <4> QED
        BY <2>3, <3>1, <3>5, <4>1
    <3> QED
      BY <3>3, <3>4, <3>5
  <2> HIDE DEF kept, full
  <2>5. full.body > 0 /\ Final(full) = Final(w)
    BY <2>1 DEF Final
  <2>6. kept.wroteHeader <=> full.final # 0
    BY <2>1, <2>2, <2>3
  <2>7. kept.status = Final(full)
    BY <2>2, <2>3, <2>5
  <2>8. kept.captured.by = IF captureErrors /\ kept.status >= 400 /\ full.body > 0
                           THEN {r} ELSE {}
    BY <2>2, <2>4, <2>5
  <2>9. full.body > 0 => full.final # 0
    BY <2>1, <2>3
  <2>10. Story(r, kept, full)
    BY <2>4, <2>6, <2>7, <2>8, <2>9 DEF Story
  <2> QED
    BY <2>10 DEF kept, full
<1> QED
  BY <1>1, <1>2 DEF WriterType

LEMMA HandleKeepsStory ==
  ASSUME UseInv, MirrorInv, StoryInv, NEW r \in Requests, stage[r] = "serving",
         NEW rec \in RecorderType, rec.writer = r,
         NEW w \in WriterType, NEW u \in WriterType,
         Story(r, rec, w), w.body = u.body, u.body <= MaxBody,
         Handle(r, rec, w, u)
  PROVE  StoryInv'
<1>1. using[r] \in Recorders
  BY HandlerCalls
<1>2. /\ recorder' = [recorder EXCEPT ![using[r]] = rec]
      /\ response' = [response EXCEPT ![r] = w] /\ plain' = [plain EXCEPT ![r] = u]
      /\ UNCHANGED <<captureErrors, using, stage, event, reply>>
  BY DEF Handle
<1>3. \A q \in Requests : stage[q] \in {"serving", "returned"} /\ q # r =>
        using[q] \in Recorders /\ using[q] # using[r]
  BY MiddlewareAssumption DEF UseInv, UseTypes, ExclusiveUse, Holding, Busy
<1>4. \A q \in Requests : /\ response'[q] = IF q = r THEN w ELSE response[q]
                          /\ plain'[q] = IF q = r THEN u ELSE plain[q]
  BY <1>2 DEF MirrorInv
<1>5. ASSUME NEW q \in Requests, stage'[q] \in {"serving", "returned"}
      PROVE  Story(q, recorder[using[q]], response[q])'
  <2>1. CASE q = r
    <3>1. recorder'[using'[q]] = rec /\ response'[q] = w
      BY <1>1, <1>2, <1>4, <2>1 DEF UseInv, UseTypes
    <3> QED
      BY <1>2, <2>1, <3>1 DEF Story
  <2>2. CASE q # r
    <3>1. recorder'[using'[q]] = recorder[using[q]] /\ response'[q] = response[q]
      BY <1>2, <1>3, <1>4, <1>5, <2>2 DEF UseInv, UseTypes
    <3>2. Story(q, recorder[using[q]], response[q])
      BY <1>2, <1>5 DEF StoryInv
    <3> QED
      BY <1>2, <3>1, <3>2 DEF Story
  <2> QED
    BY <2>1, <2>2
<1>6. \A q \in Requests : ~Pushed(q) \/ q # r
  BY DEF Pushed
<1>7. EventTellsOwnRequest'
  <2>1. ASSUME NEW q \in Requests PROVE HttpEventTells(q)'
    <3>1. CASE q = r
      BY <1>2, <1>6, <3>1 DEF HttpEventTells, Pushed
    <3>2. CASE q # r
      <4>1. response'[q] = response[q]
        BY <1>4, <3>2
      <4>2. Pushed(q)' => Pushed(q)
        BY <1>2 DEF Pushed
      <4> QED
        BY <1>2, <4>1, <4>2, ToldStays
    <3> QED
      BY <3>1, <3>2
  <2>2. ASSUME NEW q \in Rpcs PROVE RpcEventTells(q)'
    BY <1>2, RpcToldStays
  <2> QED
    BY <2>1, <2>2 DEF EventTellsOwnRequest
<1> QED
  BY <1>2, <1>4, <1>5, <1>7 DEF StoryInv

(* Steps in which no handler calls its recorder and no event is pushed.    *)
LEMMA QuietKeepsStory ==
  ASSUME UseInv, StoryInv, UNCHANGED <<captureErrors, response, plain, event, reply>>,
         \A q \in Requests :
           stage'[q] \in {"serving", "returned"} =>
             /\ stage[q] \in {"serving", "returned"}
             /\ recorder'[using'[q]] = recorder[using[q]],
         \A q \in Requests :
           stage'[q] \in {"new", "serving", "returned"} =>
             stage[q] \in {"new", "serving", "returned"},
         \A q \in Requests :
           stage'[q] \in {"pushed", "over"} => Pushed(q) \/ event[q] = NoEvent,
         \A q \in Rpcs : stage'[q] = "replied" => stage[q] = "replied"
  PROVE  StoryInv'
<1>1. ASSUME NEW q \in Requests, stage'[q] \in {"serving", "returned"}
      PROVE  Story(q, recorder[using[q]], response[q])'
  <2>1. Story(q, recorder[using[q]], response[q]) /\ recorder'[using'[q]] = recorder[using[q]]
    BY <1>1 DEF StoryInv
  <2> QED
    BY <2>1 DEF Story
<1>2. EventTellsOwnRequest'
  <2>1. \A q \in Requests : Pushed(q)' => Pushed(q)
    BY DEF Pushed
  <2>2. ASSUME NEW q \in Requests PROVE HttpEventTells(q)'
    BY <2>1, ToldStays
  <2>3. ASSUME NEW q \in Rpcs PROVE RpcEventTells(q)'
    BY RpcToldStays
  <2> QED
    BY <2>2, <2>3 DEF EventTellsOwnRequest
<1> QED
  BY <1>1, <1>2 DEF StoryInv

LEMMA EnterKeepsStory ==
  ASSUME UseInv, MirrorInv, StoryInv, NEW r \in Requests, NEW c \in Recorders, Enter(r, c)
  PROVE  StoryInv'
<1>1. /\ stage[r] = "new" /\ stage' = [stage EXCEPT ![r] = "serving"]
      /\ using' = [using EXCEPT ![r] = c]
      /\ UNCHANGED <<captureErrors, response, plain, event, reply>>
  BY DEF Enter
<1>2. PICK old \in RecorderType : recorder' = [recorder EXCEPT ![c] = Reset(old, r)]
  BY FreshType DEF Enter, UseInv, UseTypes
<1>3. /\ Reset(old, r).wroteHeader = FALSE /\ Reset(old, r).status = 200
      /\ Reset(old, r).captured = NoBytes
  <2>1. Reset(old, r).wroteHeader = FALSE
    BY ResetRecorder, ZenonT(30)
  <2>2. Reset(old, r).status = 200
    BY ResetRecorder, ZenonT(30)
  <2>3. Reset(old, r).captured = NoBytes
    BY ResetRecorder, ZenonT(30)
  <2> QED
    BY <2>1, <2>2, <2>3
<1>4. \A q \in Requests : using[q] # c
  BY MiddlewareAssumption DEF Enter, UseInv, ExclusiveUse, InUse
<1>5. ASSUME NEW q \in Requests, stage'[q] \in {"serving", "returned"}
      PROVE  Story(q, recorder[using[q]], response[q])'
  <2>1. CASE q = r
    <3>1. recorder'[using'[q]] = Reset(old, r)
      BY <1>1, <1>2, <2>1 DEF UseInv, UseTypes
    <3>2. response'[q] = Untouched
      BY <1>1, <2>1 DEF MirrorInv
    <3>3. /\ Untouched.final = 0 /\ Untouched.body = 0 /\ Final(Untouched) = 200
          /\ NoBytes.by = {} /\ NoBytes.len = 0
      BY DEF Untouched, Final, NoBytes
    <3> QED
      BY <1>3, <3>1, <3>2, <3>3 DEF Story
  <2>2. CASE q # r
    <3>1. /\ stage[q] \in {"serving", "returned"}
          /\ using'[q] = using[q] /\ using[q] \in Recorders
      BY <1>1, <1>5, <2>2, MiddlewareAssumption DEF UseInv, UseTypes, Holding, Busy
    <3>2. recorder'[using'[q]] = recorder[using[q]]
      BY <1>2, <1>4, <3>1 DEF UseInv, UseTypes
    <3>3. Story(q, recorder[using[q]], response[q])
      BY <3>1 DEF StoryInv
    <3> QED
      BY <1>1, <3>2, <3>3 DEF Story
  <2> QED
    BY <2>1, <2>2
<1>6. EventTellsOwnRequest'
  <2>1. \A q \in Requests : Pushed(q)' => Pushed(q)
    BY <1>1 DEF Pushed, UseInv, UseTypes
  <2>2. \A q \in Rpcs : stage'[q] = stage[q]
    BY <1>1, MiddlewareAssumption DEF UseInv, UseTypes
  <2>3. ASSUME NEW q \in Requests PROVE HttpEventTells(q)'
    BY <1>1, <2>1, ToldStays
  <2>4. ASSUME NEW q \in Rpcs PROVE RpcEventTells(q)'
    BY <1>1, <2>2, RpcToldStays
  <2> QED
    BY <2>3, <2>4 DEF EventTellsOwnRequest
<1>7. \A q \in Requests : stage'[q] \in {"new", "serving", "returned"} => event'[q] = NoEvent
  BY <1>1 DEF StoryInv, UseInv, UseTypes
<1> QED
  BY <1>1, <1>5, <1>6, <1>7 DEF StoryInv

LEMMA RecordKeepsStory ==
  ASSUME UseInv, MirrorInv, StoryInv, NEW r \in Requests, Record(r)
  PROVE  StoryInv'
<1> DEFINE rec  == recorder[using[r]]
           told == [status |-> rec.status,
                    error |-> IF rec.status >= 400 THEN rec.captured.by ELSE {}]
<1>1. /\ stage[r] = "returned" /\ stage' = [stage EXCEPT ![r] = "pushed"]
      /\ event' = [event EXCEPT ![r] = told]
      /\ UNCHANGED <<captureErrors, recorder, using, response, plain, reply>>
  BY DEF Record
<1>2. rec \in RecorderType /\ Story(r, rec, response[r])
  BY <1>1, MiddlewareAssumption DEF UseInv, UseTypes, Holding, Busy, StoryInv
<1> HIDE DEF rec
<1>3. told \in EventType
  <2>1. rec.status \in Nat
    <3>1. rec.status \in {200} \cup Codes
      BY <1>2 DEF RecorderType
    <3> QED
      BY <3>1, CodesAreNumbers
  <2>2. rec.captured.by \in SUBSET (Requests \cup Rpcs)
    BY <1>2 DEF RecorderType
  <2> QED
    BY <2>1, <2>2 DEF EventType
<1>4. ~response[r].early =>
        /\ told.status = Final(response[r])
        /\ told.error = IF captureErrors /\ told.status >= 400 /\ response[r].body > 0
                        THEN {r} ELSE {}
  BY <1>2 DEF Story
<1> HIDE DEF told
<1>5. /\ event' \in [Requests \cup Rpcs -> EventType]
      /\ \A q \in Requests \cup Rpcs : event'[q] = IF q = r THEN told ELSE event[q]
      /\ \A q \in Requests \cup Rpcs : stage'[q] = IF q = r THEN "pushed" ELSE stage[q]
  BY <1>1, <1>3 DEF StoryInv, UseInv, UseTypes
<1>6. ASSUME NEW q \in Requests, stage'[q] \in {"serving", "returned"}
      PROVE  Story(q, recorder[using[q]], response[q])'
  <2>1. Story(q, recorder[using[q]], response[q])
    BY <1>5, <1>6 DEF StoryInv
  <2> QED
    BY <1>1, <2>1 DEF Story
<1>7. EventTellsOwnRequest'
  <2>1. ASSUME NEW q \in Requests PROVE HttpEventTells(q)'
    <3>1. CASE q = r
      <4>1. event'[q] = told /\ response'[q] = response[q]
        BY <1>1, <1>5, <3>1
      <4> QED
        BY <1>1, <1>4, <3>1, <4>1 DEF HttpEventTells
    <3>2. CASE q # r
      <4>1. event'[q] = event[q] /\ stage'[q] = stage[q]
        BY <1>5, <3>2
      <4>2. Pushed(q)' => Pushed(q)
        BY <4>1 DEF Pushed
      <4> QED
        BY <1>1, <4>1, <4>2, ToldStays
    <3> QED
      BY <3>1, <3>2
  <2>2. \A q \in Rpcs : stage'[q] = stage[q] /\ event'[q] = event[q] /\ reply'[q] = reply[q]
    BY <1>1, <1>5, MiddlewareAssumption
  <2>3. ASSUME NEW q \in Rpcs PROVE RpcEventTells(q)'
    BY <2>2, RpcToldStays
  <2> QED
    BY <2>1, <2>3 DEF EventTellsOwnRequest
<1>8. \A q \in Requests : stage'[q] \in {"new", "serving", "returned"} => event'[q] = NoEvent
  BY <1>5 DEF StoryInv
<1> QED
  BY <1>1, <1>5, <1>6, <1>7, <1>8 DEF StoryInv

(* httpStatusFromCode gives an error status for all codes but OK.          *)
LEMMA StatusOfCodes ==
  ASSUME NEW outcome \in Outcomes
  PROVE  /\ HttpStatusFromCode(CodeOf(outcome)) \in Nat
         /\ HttpStatusFromCode(CodeOf(outcome)) >= 400 <=> outcome # "OK"
         /\ CodeOf(outcome) = "OK" <=> outcome = "OK"
         /\ outcome \notin ContextErrors => SentCode(outcome) = CodeOf(outcome)
<1>1. CodeOf(outcome) = "OK" <=> outcome = "OK"
  BY DEF CodeOf, OtherErrors, ContextErrors
<1>2. /\ \A code \in DOMAIN HttpStatus :
           HttpStatus[code] \in Nat /\ (HttpStatus[code] >= 400 <=> code # "OK")
      /\ "OK" \in DOMAIN HttpStatus
  BY DEF HttpStatus
<1>3. \A code : /\ HttpStatusFromCode(code) \in Nat
                /\ HttpStatusFromCode(code) >= 400 <=> code # "OK"
  BY <1>2 DEF HttpStatusFromCode
<1>4. outcome \notin ContextErrors => SentCode(outcome) = CodeOf(outcome)
  BY DEF SentCode, ContextErrors
<1> QED
  BY <1>1, <1>3, <1>4

LEMMA RpcKeepsStory ==
  ASSUME UseInv, StoryInv, NEW r \in Rpcs, NEW given \in Replies, ServeRpc(r, given)
  PROVE  StoryInv'
<1> DEFINE told ==
      [status |-> HttpStatusFromCode(CodeOf(given.outcome)),
       error |-> IF CodeOf(given.outcome) # "OK" /\ given.message THEN {r} ELSE {}]
<1>1. /\ stage' = [stage EXCEPT ![r] = "replied"] /\ event' = [event EXCEPT ![r] = told]
      /\ reply' = [reply EXCEPT ![r] = given]
      /\ UNCHANGED <<captureErrors, recorder, using, response, plain>>
  BY DEF ServeRpc
<1>2. given.outcome \in Outcomes
  BY DEF Replies
<1>3. told \in EventType
  BY <1>2, StatusOfCodes DEF EventType
<1>4. /\ given.outcome \notin ContextErrors =>
           told.status = HttpStatusFromCode(SentCode(given.outcome))
      /\ told.error = IF told.status >= 400 /\ given.message THEN {r} ELSE {}
  BY <1>2, StatusOfCodes
<1> HIDE DEF told
<1>5. /\ event' \in [Requests \cup Rpcs -> EventType]
      /\ \A q \in Requests \cup Rpcs : event'[q] = IF q = r THEN told ELSE event[q]
      /\ \A q \in Requests \cup Rpcs : stage'[q] = IF q = r THEN "replied" ELSE stage[q]
      /\ reply' \in [Rpcs -> Replies \cup {NoReply}]
      /\ \A q \in Rpcs : reply'[q] = IF q = r THEN given ELSE reply[q]
  BY <1>1, <1>3 DEF StoryInv, UseInv, UseTypes
<1>6. \A q \in Requests : stage'[q] = stage[q] /\ event'[q] = event[q]
  BY <1>5, MiddlewareAssumption
<1>7. ASSUME NEW q \in Requests, stage'[q] \in {"serving", "returned"}
      PROVE  Story(q, recorder[using[q]], response[q])'
  <2>1. Story(q, recorder[using[q]], response[q])
    BY <1>6, <1>7 DEF StoryInv
  <2> QED
    BY <1>1, <2>1 DEF Story
<1>8. EventTellsOwnRequest'
  <2>1. ASSUME NEW q \in Requests PROVE HttpEventTells(q)'
    <3>1. Pushed(q)' => Pushed(q)
      BY <1>6 DEF Pushed
    <3> QED
      BY <1>1, <1>6, <3>1, ToldStays
  <2>2. ASSUME NEW q \in Rpcs PROVE RpcEventTells(q)'
    <3>1. CASE q = r
      <4>1. event'[q] = told /\ reply'[q] = given
        BY <1>5, <3>1
      <4> QED
        BY <1>4, <3>1, <4>1 DEF RpcEventTells
    <3>2. CASE q # r
      BY <1>5, <3>2, RpcToldStays
    <3> QED
      BY <3>1, <3>2
  <2> QED
    BY <2>1, <2>2 DEF EventTellsOwnRequest
<1> QED
  BY <1>1, <1>5, <1>6, <1>7, <1>8 DEF StoryInv

LEMMA StoryStep ==
  UseInv /\ MirrorInv /\ StoryInv /\ [MiddlewareNext]_middlewareVars => StoryInv'
<1> SUFFICES ASSUME UseInv, MirrorInv, StoryInv, [MiddlewareNext]_middlewareVars
             PROVE  StoryInv'
  OBVIOUS
<1>1. ASSUME NEW r \in Requests, stage[r] = "serving"
      PROVE  /\ recorder[using[r]] \in RecorderType /\ recorder[using[r]].writer = r
             /\ response[r] \in WriterType /\ plain[r] \in WriterType
             /\ Story(r, recorder[using[r]], response[r])
             /\ response[r].body = plain[r].body /\ plain[r].body <= MaxBody
  BY <1>1, HandlerCalls DEF MirrorInv, StoryInv
<1>2. ASSUME NEW r \in Requests, NEW c \in Recorders, Enter(r, c) PROVE StoryInv'
  BY <1>2, EnterKeepsStory
<1>3. ASSUME NEW r \in Requests, NEW code \in Codes, WriteHeader(r, code) PROVE StoryInv'
  <2> DEFINE rec  == recorder[using[r]]
             head == RecordHeader(rec, code)
             sent == PassHeader(rec, response[r], code)
             bare == SendHeader(plain[r], code)
  <2>1. stage[r] = "serving"
    BY <1>3 DEF WriteHeader
  <2>2. /\ rec \in RecorderType /\ rec.writer = r /\ Story(r, rec, response[r])
        /\ response[r] \in WriterType /\ plain[r] \in WriterType
        /\ response[r].body = plain[r].body /\ plain[r].body <= MaxBody
    BY <1>1, <2>1
  <2>3. Handle(r, head, sent, bare)
    BY <1>3, <2>2 DEF WriteHeader
  <2> HIDE DEF rec
  <2>4. head \in RecorderType /\ head.writer = r
    BY <2>2, HeaderType
  <2>5. Story(r, head, sent) /\ sent.body = response[r].body
    <3>1. code \in {200} \cup Codes
      OBVIOUS
    <3>2. Story(r, head, sent)
      BY <2>2, <3>1, HeaderTells, Zenon
    <3>3. sent.body = response[r].body
      BY <2>2, <3>1, HeaderTells, Zenon
    <3> QED
      BY <3>2, <3>3
  <2>6. bare \in WriterType /\ bare.body = plain[r].body
    BY <2>2, SendHeaderFacts, HeaderKeepsBody
  <2>7. sent \in WriterType
    BY <2>2, PassedIsWriter
  <2> HIDE DEF head, sent, bare
  <2> QED
    BY <2>1, <2>2, <2>3, <2>4, <2>5, <2>6, <2>7, HandleKeepsStory
<1>4. ASSUME NEW r \in Requests, NEW n \in 1 .. MaxBody, Write(r, n) PROVE StoryInv'
  <2> DEFINE rec  == recorder[using[r]]
             head == RecordHeader(rec, 200)
             kept == Capture(head, r, n)
             sent == PassHeader(rec, response[r], 200)
             full == SendBody(sent, n)
             wide == SendBody(plain[r], n)
  <2>0. n \in Nat \ {0}
    BY MiddlewareAssumption
  <2>1. stage[r] = "serving" /\ plain[r].body + n <= MaxBody
    BY <1>4 DEF Write
  <2>2. /\ rec \in RecorderType /\ rec.writer = r /\ Story(r, rec, response[r])
        /\ response[r] \in WriterType /\ plain[r] \in WriterType
        /\ response[r].body = plain[r].body
    BY <1>1, <2>1
  <2>3. Handle(r, kept, full, wide)
    BY <1>4, <2>2 DEF Write
  <2> HIDE DEF rec
  <2>4. head \in RecorderType /\ head.writer = r
    BY <2>2, HeaderType
  <2>5. /\ Story(r, head, sent) /\ (sent.early \/ sent.final # 0)
        /\ sent.body = response[r].body
    BY <2>2, HeaderTells
  <2>6. sent \in WriterType
    BY <2>2, PassedIsWriter
  <2> HIDE DEF head, sent
  <2>7. kept \in RecorderType /\ kept.writer = r
    BY <2>0, <2>4, CaptureType
  <2>8. Story(r, kept, full)
    BY <2>0, <2>4, <2>5, <2>6, BodyTells
  <2>9. full \in WriterType /\ wide \in WriterType
    BY <2>0, <2>2, <2>6, BodyFacts
  <2>10. full.body = wide.body /\ wide.body <= MaxBody
    BY <2>0, <2>1, <2>2, <2>5, <2>6, BodyGrows
  <2> HIDE DEF kept, full, wide
  <2> QED
    BY <2>1, <2>3, <2>7, <2>8, <2>9, <2>10, HandleKeepsStory
<1>5. ASSUME NEW r \in Requests, Flush(r) PROVE StoryInv'
  <2> DEFINE rec  == recorder[using[r]]
             head == RecordHeader(rec, 200)
             sent == PassHeader(rec, response[r], 200)
             bare == SendHeader(plain[r], 200)
             flat == SendHeader(sent, 200)
  <2>1. stage[r] = "serving"
    BY <1>5 DEF Flush
  <2>2. /\ rec \in RecorderType /\ rec.writer = r /\ Story(r, rec, response[r])
        /\ response[r] \in WriterType /\ plain[r] \in WriterType
        /\ response[r].body = plain[r].body /\ plain[r].body <= MaxBody
    BY <1>1, <2>1
  <2>3. Handle(r, head, flat, bare)
    BY <1>5, <2>2 DEF Flush
  <2> HIDE DEF rec
  <2>4. head \in RecorderType /\ head.writer = r
    BY <2>2, HeaderType
  <2>5. /\ Story(r, head, sent) /\ (sent.early \/ sent.final # 0)
        /\ sent.body = response[r].body
    BY <2>2, HeaderTells
  <2>6. sent \in WriterType
    BY <2>2, PassedIsWriter
  <2>7. bare \in WriterType /\ bare.body = plain[r].body
    BY <2>2, SendHeaderFacts, HeaderKeepsBody
  <2> HIDE DEF sent, bare, head
  <2>8. /\ flat \in WriterType /\ flat.body = sent.body
        /\ (sent.final # 0 => flat = sent) /\ (sent.early => flat.early)
    BY <2>6, SendHeaderFacts, HeaderKeepsBody
  <2> HIDE DEF flat
  <2>9. Story(r, head, flat)
    <3>1. CASE sent.early
      BY <2>8, <3>1 DEF Story
    <3>2. CASE sent.final # 0
      BY <2>5, <2>8, <3>2
    <3> QED
      BY <2>5, <3>1, <3>2
  <2> QED
    BY <2>1, <2>2, <2>3, <2>4, <2>5, <2>7, <2>8, <2>9, HandleKeepsStory
<1>6. ASSUME NEW r \in Requests, Ignore(r) PROVE StoryInv'
  <2>1. /\ UNCHANGED <<captureErrors, recorder, using, response, plain, event, reply>>
        /\ stage[r] = "new"
        /\ \A q \in Requests \cup Rpcs : stage'[q] = IF q = r THEN "over" ELSE stage[q]
    BY <1>6 DEF Ignore, UseInv, UseTypes
  <2>2. event[r] = NoEvent
    BY <2>1 DEF StoryInv
  <2> QED
    BY <2>1, <2>2, MiddlewareAssumption, QuietKeepsStory DEF Pushed
<1>7. ASSUME NEW r \in Requests, HandlerReturns(r) PROVE StoryInv'
  <2>1. /\ UNCHANGED <<captureErrors, recorder, using, response, plain, event, reply>>
        /\ stage[r] = "serving"
        /\ \A q \in Requests \cup Rpcs : stage'[q] = IF q = r THEN "returned" ELSE stage[q]
    BY <1>7 DEF HandlerReturns, UseInv, UseTypes
  <2> QED
    BY <2>1, MiddlewareAssumption, QuietKeepsStory DEF Pushed
<1>8. ASSUME NEW r \in Requests, HandlerPanics(r) PROVE StoryInv'
  <2>1. /\ UNCHANGED <<captureErrors, recorder, response, plain, event, reply>>
        /\ stage[r] = "serving"
        /\ \A q \in Requests \cup Rpcs : stage'[q] = IF q = r THEN "over" ELSE stage[q]
        /\ \A q \in Requests \ {r} : using'[q] = using[q]
    BY <1>8 DEF HandlerPanics, UseInv, UseTypes
  <2>2. event[r] = NoEvent
    BY <2>1 DEF StoryInv
  <2> QED
    BY <2>1, <2>2, MiddlewareAssumption, QuietKeepsStory DEF Pushed
<1>9. ASSUME NEW r \in Requests, Record(r) PROVE StoryInv'
  BY <1>9, RecordKeepsStory
<1>10. ASSUME NEW r \in Requests, Recycle(r) PROVE StoryInv'
  <2>1. /\ UNCHANGED <<captureErrors, response, plain, event, reply>>
        /\ stage[r] = "pushed"
        /\ \A q \in Requests \cup Rpcs : stage'[q] = IF q = r THEN "over" ELSE stage[q]
        /\ \A q \in Requests \ {r} : using'[q] = using[q]
        /\ \A c \in Recorders \ {using[r]} : recorder'[c] = recorder[c]
    BY <1>10 DEF Recycle, UseInv, UseTypes
  <2>2. \A q \in Requests \ {r} : stage[q] \in {"serving", "returned"} =>
          using[q] \in Recorders \ {using[r]}
    BY <2>1, MiddlewareAssumption DEF UseInv, UseTypes, Holding, Busy, ExclusiveUse
  <2>3. Pushed(r) \/ event[r] = NoEvent
    BY <2>1 DEF Pushed
  <2>4. \A q \in Requests :
          stage'[q] \in {"serving", "returned"} =>
            /\ stage[q] \in {"serving", "returned"}
            /\ recorder'[using'[q]] = recorder[using[q]]
    BY <2>1, <2>2
  <2> QED
    BY <2>1, <2>3, <2>4, MiddlewareAssumption, QuietKeepsStory DEF Pushed
<1>11. ASSUME NEW c \in Recorders, DropPooled(c) PROVE StoryInv'
  <2>1. UNCHANGED <<captureErrors, recorder, using, stage, response, plain, event, reply>>
    BY <1>11 DEF DropPooled
  <2> QED
    BY <2>1, QuietKeepsStory DEF Pushed
<1>12. ASSUME NEW r \in Rpcs, NEW given \in Replies, ServeRpc(r, given) PROVE StoryInv'
  BY <1>12, RpcKeepsStory
<1>13. ASSUME NEW r \in Rpcs, RpcPanics(r) PROVE StoryInv'
  <2>1. /\ UNCHANGED <<captureErrors, recorder, using, response, plain, event, reply>>
        /\ \A q \in Requests \cup Rpcs : stage'[q] = IF q = r THEN "over" ELSE stage[q]
    BY <1>13 DEF RpcPanics, UseInv, UseTypes
  <2> QED
    BY <2>1, MiddlewareAssumption, QuietKeepsStory DEF Pushed
<1>14. CASE AllServed \/ UNCHANGED middlewareVars
  <2>1. UNCHANGED <<captureErrors, recorder, using, stage, response, plain, event, reply>>
    BY <1>14 DEF AllServed, middlewareVars
  <2> QED
    BY <2>1, QuietKeepsStory DEF Pushed
<1> QED
  BY <1>2, <1>3, <1>4, <1>5, <1>6, <1>7, <1>8, <1>9, <1>10, <1>11, <1>12, <1>13, <1>14
     DEF MiddlewareNext

LEMMA MiddlewareStarts == MiddlewareInit => UseInv /\ MirrorInv /\ StoryInv
<1> SUFFICES ASSUME MiddlewareInit PROVE UseInv /\ MirrorInv /\ StoryInv
  OBVIOUS
<1>1. UseInv
  BY FreshType, MiddlewareAssumption
     DEF MiddlewareInit, UseInv, UseTypes, Holding, Busy, Stages, ExclusiveUse, InUse
<1>2. MirrorInv
  BY DEF MiddlewareInit, MirrorInv, Transparent, Untouched, WriterType
<1>3. NoEvent \in EventType /\ Untouched.body = 0 /\ MaxBody \in Nat
  BY MiddlewareAssumption DEF NoEvent, EventType, Untouched
<1>4. \A q \in Requests \cup Rpcs : stage[q] = "new" /\ event[q] = NoEvent
  BY DEF MiddlewareInit
<1>5. EventTellsOwnRequest
  BY <1>4 DEF EventTellsOwnRequest, HttpEventTells, RpcEventTells, Pushed
<1>6. StoryInv
  BY <1>3, <1>4, <1>5 DEF MiddlewareInit, StoryInv
<1> QED
  BY <1>1, <1>2, <1>6

LEMMA StoryInvariant == MiddlewareSpec => [](UseInv /\ MirrorInv /\ StoryInv)
BY MiddlewareStarts, UseStep, MirrorStep, StoryStep, PTL DEF MiddlewareSpec

(***************************************************************************)
(* An event has the status the client got, and an error text just when an  *)
(* error has a body, from that body alone: nothing of an earlier request   *)
(* on the same pooled recorder and nothing of a concurrent one gets into   *)
(* it.  An RPC's event has the HTTP status of what the client is sent,     *)
(* whatever the code, and as its error the message of a failed status, if  *)
(* that has one.                                                           *)
(***************************************************************************)
THEOREM EventTellsOwnRequestThm == MiddlewareSpec => []EventTellsOwnRequest
<1>1. StoryInv => EventTellsOwnRequest
  BY DEF StoryInv
<1> QED
  BY <1>1, StoryInvariant, PTL

(***************************************************************************)
(* Type correctness: a recorder keeps at most 2048 bytes of a body, and a  *)
(* response with the middleware has no more of it than without.            *)
(***************************************************************************)
THEOREM MiddlewareTypeCorrect == MiddlewareSpec => []MiddlewareTypeOK
<1>1. UseInv /\ MirrorInv /\ StoryInv => MiddlewareTypeOK
  <2> SUFFICES ASSUME UseInv, MirrorInv, StoryInv PROVE MiddlewareTypeOK
    OBVIOUS
  <2>1. \A r \in Requests : response[r] \in Writers /\ plain[r] \in Writers
    <3>1. \A r \in Requests :
            /\ response[r] \in WriterType /\ plain[r] \in WriterType
            /\ response[r].body <= MaxBody /\ plain[r].body <= MaxBody
      BY DEF MirrorInv, StoryInv
    <3>2. ASSUME NEW w \in WriterType, w.body <= MaxBody PROVE w \in Writers
      BY <3>2, MiddlewareAssumption DEF WriterType, Writers
    <3> QED
      BY <3>1, <3>2
  <2>2. response \in [Requests -> Writers] /\ plain \in [Requests -> Writers]
    BY <2>1 DEF MirrorInv
  <2> QED
    BY <2>2 DEF UseInv, UseTypes, StoryInv, MiddlewareTypeOK, RecorderType, EventType
<1> QED
  BY <1>1, StoryInvariant, PTL
=============================================================================
