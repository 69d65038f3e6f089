---------------------------- MODULE ClientProofs ----------------------------
(***************************************************************************)
(* Theorems about the transport: what the three counters say of the sends  *)
(* of any number of callers, whatever the network does to their requests.  *)
(***************************************************************************)
EXTENDS Client, FiniteSetTheorems, TLAPS

-----------------------------------------------------------------------------
(* Who is in which send: no two callers are in the same one, and none is   *)
(* in one without a token.                                                 *)
SendsApart ==
  /\ \A c \in Callers : send[c] <= Len(body) /\ (send[c] # 0 <=> Waiting(c))
  /\ \A c, d \in Callers : Waiting(c) /\ send[c] = send[d] => c = d
  /\ \A c \in Callers : Waiting(c) => hasToken

(* What is on the wire belongs to a send that was made, and a 2xx answer   *)
(* is about a request the backend has stored.                              *)
WireIsHonest ==
  /\ \A r \in requests \cup stored : r[1] <= Len(body)
  /\ \A a \in replies : a.request[1] <= Len(body)
  /\ \A a \in replies : a.status = "ok" => a.request \in stored

ClientShape == ClientTypeOK /\ SendsApart /\ WireIsHonest

LEMMA ShapeInit == ClientInit => ClientShape
BY ClientAssumption
   DEF ClientInit, ClientShape, ClientTypeOK, SendsApart, WireIsHonest, Waiting

(* Posting keeps the callers apart, if no other one is in that send.       *)
LEMMA PostKeepsShape ==
  ASSUME ClientShape, NEW c \in Callers, NEW n \in 1 .. MaxSends, NEW k \in 1 .. 2,
         Post(c, n, k), hasToken, UNCHANGED hasToken,
         \A d \in Callers : send[d] = n => d = c,
         Len(body) \in Nat, Len(body') \in Nat, Len(body) <= Len(body'), n <= Len(body')
  PROVE  /\ send' \in [Callers -> 0 .. MaxSends] /\ attempt' \in [Callers -> 0 .. 2]
         /\ requests' \subseteq (1 .. MaxSends) \X (1 .. 2)
         /\ SendsApart'
         /\ \A r \in requests' : r[1] <= Len(body')
<1>1. /\ send \in [Callers -> 0 .. MaxSends] /\ attempt \in [Callers -> 0 .. 2]
      /\ requests \subseteq (1 .. MaxSends) \X (1 .. 2) /\ MaxSends \in Nat
  BY ClientAssumption DEF ClientShape, ClientTypeOK
<1>2. /\ send' \in [Callers -> 0 .. MaxSends] /\ attempt' \in [Callers -> 0 .. 2]
      /\ requests' \subseteq (1 .. MaxSends) \X (1 .. 2)
  BY <1>1 DEF Post
<1>3. \A d \in Callers : /\ send'[d] = IF d = c THEN n ELSE send[d]
                         /\ attempt'[d] = IF d = c THEN k ELSE attempt[d]
  BY <1>1 DEF Post
<1>4. SendsApart'
  <2>1. \A d \in Callers : send'[d] <= Len(body') /\ (send'[d] # 0 <=> attempt'[d] # 0)
    BY <1>1, <1>3 DEF ClientShape, SendsApart, Waiting
  <2>2. \A d, e \in Callers : attempt'[d] # 0 /\ send'[d] = send'[e] => d = e
    BY <1>1, <1>3 DEF ClientShape, SendsApart, Waiting
  <2> QED
    BY <2>1, <2>2 DEF SendsApart, Waiting
<1>5. \A r \in requests' : r[1] <= Len(body')
  <2>1. \A r \in requests : r[1] \in Nat /\ r[1] <= Len(body)
    BY <1>1 DEF ClientShape, WireIsHonest
  <2> QED
    BY <2>1 DEF Post
<1> QED
  BY <1>2, <1>4, <1>5

LEMMA ReturnKeepsShape ==
  ASSUME ClientShape, NEW c \in Callers, Return(c), UNCHANGED <<hasToken, body>>
  PROVE  /\ send' \in [Callers -> 0 .. MaxSends] /\ attempt' \in [Callers -> 0 .. 2]
         /\ SendsApart'
<1>1. /\ send \in [Callers -> 0 .. MaxSends] /\ attempt \in [Callers -> 0 .. 2]
      /\ Len(body) \in Nat /\ MaxSends \in Nat
  BY ClientAssumption DEF ClientShape, ClientTypeOK
<1>2. \A d \in Callers : /\ send'[d] = IF d = c THEN 0 ELSE send[d]
                         /\ attempt'[d] = IF d = c THEN 0 ELSE attempt[d]
  BY <1>1 DEF Return
<1> QED
  BY <1>1, <1>2 DEF Return, ClientShape, SendsApart, Waiting

LEMMA CallKeepsShape ==
  ASSUME ClientShape, NEW c \in Callers, NEW b \in Bodies, Call(c, b)
  PROVE  ClientShape'
<1>1. /\ body \in Seq(Bodies) /\ Len(body) \in Nat /\ Len(body) < MaxSends
      /\ body' = Append(body, b)
      /\ UNCHANGED <<hasToken, replies, stored, successCount, rejectCount>>
  BY DEF Call, ClientShape, ClientTypeOK
<1>2. body' \in Seq(Bodies) /\ Len(body') = Len(body) + 1 /\ Len(body') <= MaxSends
  BY <1>1, ClientAssumption
<1>3. /\ send' \in [Callers -> 0 .. MaxSends] /\ attempt' \in [Callers -> 0 .. 2]
      /\ requests' \subseteq (1 .. MaxSends) \X (1 .. 2)
      /\ SendsApart'
      /\ \A r \in requests' : r[1] <= Len(body')
  <2>1. CASE UNCHANGED <<send, attempt, requests>>
    BY <1>1, <1>2, <2>1 DEF ClientShape, ClientTypeOK, SendsApart, WireIsHonest, Waiting
  <2>2. CASE hasToken /\ Post(c, Len(body) + 1, 1)
    <3>1. \A d \in Callers : send[d] # Len(body) + 1
      BY <1>1 DEF ClientShape, ClientTypeOK, SendsApart
    <3>2. Len(body) + 1 \in 1 .. MaxSends
      BY <1>1, <1>2
    <3> QED
      BY <1>1, <1>2, <2>2, <3>1, <3>2, PostKeepsShape
  <2> QED
    BY <2>1, <2>2 DEF Call
<1>4. errorCount' \in Nat
  BY DEF Call, ClientShape, ClientTypeOK
<1>5. WireIsHonest'
  BY <1>1, <1>2, <1>3 DEF ClientShape, ClientTypeOK, WireIsHonest
<1> QED
  BY <1>1, <1>2, <1>3, <1>4, <1>5 DEF ClientShape, ClientTypeOK

LEMMA FailureKeepsShape ==
  ASSUME ClientShape, NEW c \in Callers, Waiting(c), AttemptFailed(c),
         UNCHANGED <<hasToken, body>>
  PROVE  /\ send' \in [Callers -> 0 .. MaxSends] /\ attempt' \in [Callers -> 0 .. 2]
         /\ requests' \subseteq (1 .. MaxSends) \X (1 .. 2)
         /\ SendsApart'
         /\ \A r \in requests' : r[1] <= Len(body)
         /\ errorCount' \in Nat
<1>1. /\ attempt[c] \in 1 .. 2 /\ send[c] \in 1 .. MaxSends /\ Len(body) \in Nat
      /\ send[c] <= Len(body) /\ hasToken
      /\ \A d \in Callers : send[d] = send[c] => d = c
  BY DEF ClientShape, ClientTypeOK, SendsApart, Waiting
<1>2. CASE attempt[c] < 2
  <2>1. PICK n \in 1 .. MaxSends, k \in 1 .. 2 : n = send[c] /\ Post(c, n, k)
    BY <1>1, <1>2 DEF AttemptFailed
  <2>2. UNCHANGED errorCount
    BY <1>2, <1>1 DEF AttemptFailed
  <2>3. /\ send' \in [Callers -> 0 .. MaxSends] /\ attempt' \in [Callers -> 0 .. 2]
        /\ requests' \subseteq (1 .. MaxSends) \X (1 .. 2)
        /\ SendsApart'
        /\ \A r \in requests' : r[1] <= Len(body')
    BY <1>1, <2>1, PostKeepsShape
  <2> QED
    BY <2>2, <2>3 DEF ClientShape, ClientTypeOK
<1>3. CASE attempt[c] = 2
  <2>1. Return(c) /\ errorCount' = errorCount + 1
    BY <1>3 DEF AttemptFailed
  <2>2. /\ send' \in [Callers -> 0 .. MaxSends] /\ attempt' \in [Callers -> 0 .. 2]
        /\ SendsApart'
    BY <2>1, ReturnKeepsShape
  <2> QED
    BY <2>1, <2>2 DEF ClientShape, ClientTypeOK, WireIsHonest, Return
<1> QED
  BY <1>1, <1>2, <1>3

LEMMA ReceiveKeepsShape ==
  ASSUME ClientShape, NEW c \in Callers, Receive(c)
  PROVE  ClientShape'
<1>1. PICK r \in Answers(c) :
        /\ replies' = replies \ {r}
        /\ \/ /\ Return(c)
              /\ \/ successCount' = successCount + 1 /\ UNCHANGED <<errorCount, rejectCount>>
                 \/ rejectCount' = rejectCount + 1 /\ UNCHANGED <<errorCount, successCount>>
           \/ AttemptFailed(c) /\ UNCHANGED <<successCount, rejectCount>>
  BY DEF Receive
<1>2. UNCHANGED <<hasToken, body, stored>>
  BY DEF Receive
<1>3. Waiting(c)
  BY <1>1 DEF Answers, Current, ClientShape, ClientTypeOK, Waiting
<1>4. CASE /\ Return(c)
           /\ \/ successCount' = successCount + 1 /\ UNCHANGED <<errorCount, rejectCount>>
              \/ rejectCount' = rejectCount + 1 /\ UNCHANGED <<errorCount, successCount>>
  <2>1. /\ send' \in [Callers -> 0 .. MaxSends] /\ attempt' \in [Callers -> 0 .. 2]
        /\ SendsApart'
    BY <1>2, <1>4, ReturnKeepsShape
  <2> QED
    BY <1>1, <1>2, <1>4, <2>1 DEF ClientShape, ClientTypeOK, WireIsHonest, Return
<1>5. CASE AttemptFailed(c) /\ UNCHANGED <<successCount, rejectCount>>
  BY <1>1, <1>2, <1>3, <1>5, FailureKeepsShape
     DEF ClientShape, ClientTypeOK, WireIsHonest
<1> QED
  BY <1>1, <1>4, <1>5

LEMMA ErrorKeepsShape ==
  ASSUME ClientShape, NEW c \in Callers, TransportError(c)
  PROVE  ClientShape'
BY FailureKeepsShape DEF TransportError, ClientShape, ClientTypeOK, WireIsHonest

LEMMA ProcessKeepsShape ==
  ASSUME ClientShape, NEW r \in requests, Process(r)
  PROVE  ClientShape'
<1>1. /\ r \in (1 .. MaxSends) \X (1 .. 2) /\ r[1] <= Len(body)
      /\ requests' = requests \ {r} /\ UNCHANGED <<hasToken, body, send, attempt, counters>>
  BY DEF Process, ClientShape, ClientTypeOK, WireIsHonest
<1>2. ASSUME NEW status \in Status, Answer(r, status)
      PROVE  replies' = replies \cup {[request |-> r, status |-> status]}
  BY <1>2 DEF Answer
<1>3. /\ stored' \subseteq (1 .. MaxSends) \X (1 .. 2)
      /\ stored \subseteq stored' /\ stored' \subseteq stored \cup {r}
  BY <1>1 DEF Process, ClientShape, ClientTypeOK
<1>4. \A a \in replies' : \/ a \in replies
                          \/ /\ a \in [request : {r}, status : Status]
                             /\ a.status = "ok" => r \in stored'
  BY <1>2 DEF Process
<1>5. replies' \subseteq [request : (1 .. MaxSends) \X (1 .. 2), status : Status]
  BY <1>1, <1>4 DEF ClientShape, ClientTypeOK
<1>6. WireIsHonest'
  BY <1>1, <1>3, <1>4 DEF ClientShape, WireIsHonest
<1> QED
  BY <1>1, <1>3, <1>5, <1>6 DEF ClientShape, ClientTypeOK, SendsApart, Waiting, counters

LEMMA ShapeStep == ClientShape /\ [ClientNext]_clientVars => ClientShape'
<1> SUFFICES ASSUME ClientShape, [ClientNext]_clientVars PROVE ClientShape'
  OBVIOUS
<1>1. CASE UNCHANGED clientVars
  BY <1>1 DEF clientVars, counters, ClientShape, ClientTypeOK, SendsApart, WireIsHonest,
              Waiting
<1>2. CASE \E c \in Callers, b \in Bodies : Call(c, b)
  BY <1>2, CallKeepsShape
<1>3. CASE \E c \in Callers : ClientStep(c)
  BY <1>3, ReceiveKeepsShape, ErrorKeepsShape DEF ClientStep
<1>4. CASE Backend
  BY <1>4, ProcessKeepsShape DEF Backend
<1> QED
  BY <1>1, <1>2, <1>3, <1>4 DEF ClientNext, SendsDone

(***************************************************************************)
(* A send makes two attempts at most, and what lies on the wire, has been  *)
(* answered or is stored is about attempts that were made.                 *)
(***************************************************************************)
THEOREM ClientTypeCorrect == ClientSpec => []ClientTypeOK
<1>1. ClientShape => ClientTypeOK
  BY DEF ClientShape
<1> QED
  BY <1>1, ShapeInit, ShapeStep, PTL DEF ClientSpec
-----------------------------------------------------------------------------
(* Sends that have returned and left nothing in the backend.               *)
Lost == {n \in Finished : ~IsStored(n)}

LEMMA FinishedIsFinite ==
  ASSUME ClientShape
  PROVE  /\ IsFiniteSet(Finished) /\ Cardinality(Finished) \in Nat
         /\ IsFiniteSet(Lost) /\ Cardinality(Lost) \in Nat
         /\ successCount \in Nat /\ errorCount \in Nat /\ rejectCount \in Nat
<1>1. IsFiniteSet(1 .. Len(body))
  BY FS_Interval DEF ClientShape, ClientTypeOK
<1>2. Finished \in SUBSET (1 .. Len(body)) /\ Lost \in SUBSET (1 .. Len(body))
  BY DEF Finished, Lost
<1>3. IsFiniteSet(Finished) /\ IsFiniteSet(Lost)
  BY <1>1, <1>2, FS_Subset
<1> QED
  BY <1>3, FS_CardinalityType DEF ClientShape, ClientTypeOK

LEMMA NothingFinished ==
  ASSUME ClientShape, Ledger, NoSilentLoss, UNCHANGED <<hasToken, Finished, counters>>,
         stored \subseteq stored'
  PROVE  Ledger' /\ NoSilentLoss'
<1>1. Ledger'
  BY DEF Ledger, counters
<1>2. Lost' \subseteq Lost
  BY DEF Lost, IsStored
<1>3. Cardinality(Lost') \in Nat /\ Cardinality(Lost') <= Cardinality(Lost)
  BY <1>2, FinishedIsFinite, FS_Subset, FS_CardinalityType
<1> QED
  BY <1>1, <1>3, FinishedIsFinite DEF NoSilentLoss, Lost, counters

LEMMA OneFinished ==
  ASSUME ClientShape, Ledger, NoSilentLoss, hasToken, UNCHANGED <<hasToken, stored>>,
         NEW n, n \notin Finished, Finished' = Finished \cup {n},
         \/ /\ IsStored(n) /\ successCount' = successCount + 1
            /\ UNCHANGED <<errorCount, rejectCount>>
         \/ errorCount' = errorCount + 1 /\ UNCHANGED <<successCount, rejectCount>>
         \/ rejectCount' = rejectCount + 1 /\ UNCHANGED <<successCount, errorCount>>
  PROVE  Ledger' /\ NoSilentLoss'
<1>1. Cardinality(Finished') = Cardinality(Finished) + 1
  BY FinishedIsFinite, FS_AddElement
<1>2. Ledger'
  BY <1>1, FinishedIsFinite DEF Ledger
<1>3. \A m : IsStored(m)' <=> IsStored(m)
  BY DEF IsStored
<1>4. /\ IsStored(n) => Lost' = Lost
      /\ ~IsStored(n) => Lost' = Lost \cup {n} /\ n \notin Lost
  BY <1>3 DEF Lost
<1>5. /\ IsStored(n) => Cardinality(Lost') = Cardinality(Lost)
      /\ ~IsStored(n) => Cardinality(Lost') = Cardinality(Lost) + 1
  BY <1>4, FinishedIsFinite, FS_AddElement
<1> QED
  BY <1>2, <1>5, FinishedIsFinite DEF NoSilentLoss, Lost

(* A caller that gets an answer or an error tries again, without counting, *)
(* or returns, and then counts once; a success only for what is stored.    *)
LEMMA RetriesOrReturns ==
  ASSUME ClientShape, NEW c \in Callers, ClientStep(c)
  PROVE  /\ Waiting(c) /\ hasToken /\ UNCHANGED <<hasToken, body, stored>>
         /\ \/ /\ UNCHANGED <<send, counters>>
               /\ \A d \in Callers : Waiting(d)' <=> Waiting(d)
            \/ /\ Return(c)
               /\ \/ /\ IsStored(send[c]) /\ successCount' = successCount + 1
                     /\ UNCHANGED <<errorCount, rejectCount>>
                  \/ errorCount' = errorCount + 1 /\ UNCHANGED <<successCount, rejectCount>>
                  \/ rejectCount' = rejectCount + 1 /\ UNCHANGED <<successCount, errorCount>>
<1>1. UNCHANGED <<hasToken, body, stored>>
  BY DEF ClientStep, Receive, TransportError
<1>2. ASSUME Waiting(c), AttemptFailed(c)
      PROVE  \/ /\ UNCHANGED <<send, errorCount>>
                /\ \A d \in Callers : Waiting(d)' <=> Waiting(d)
             \/ Return(c) /\ errorCount' = errorCount + 1
  <2>1. attempt[c] \in 1 .. 2 /\ send[c] \in 1 .. MaxSends
    BY <1>2 DEF ClientShape, ClientTypeOK, SendsApart, Waiting
  <2>2. CASE attempt[c] < 2
    <3>1. PICK k \in 1 .. 2 : Post(c, send[c], k)
      BY <1>2, <2>1, <2>2 DEF AttemptFailed
    <3>2. \A d \in Callers : Waiting(d)' <=> Waiting(d)
      BY <1>2, <3>1 DEF Post, Waiting, ClientShape, ClientTypeOK
    <3>3. UNCHANGED send
      BY <3>1 DEF Post, ClientShape, ClientTypeOK
    <3> QED
      BY <1>2, <2>2, <3>2, <3>3 DEF AttemptFailed
  <2> QED
    BY <1>2, <2>1, <2>2 DEF AttemptFailed
<1>3. Waiting(c) => hasToken
  BY DEF ClientShape, SendsApart
<1>4. CASE Receive(c)
  <2>1. PICK r \in Answers(c) :
          \/ /\ r.status = "ok" /\ Return(c)
             /\ successCount' = successCount + 1 /\ UNCHANGED <<errorCount, rejectCount>>
          \/ /\ Return(c)
             /\ rejectCount' = rejectCount + 1 /\ UNCHANGED <<errorCount, successCount>>
          \/ AttemptFailed(c) /\ UNCHANGED <<successCount, rejectCount>>
    BY <1>4 DEF Receive
  <2>2. r \in replies /\ r.request = <<send[c], attempt[c]>>
    BY <2>1 DEF Answers, Current
  <2>3. attempt[c] \in 1 .. 2 /\ Waiting(c)
    BY <2>2 DEF ClientShape, ClientTypeOK, Waiting
  <2>4. r.status = "ok" => IsStored(send[c])
    BY <2>2, <2>3 DEF ClientShape, WireIsHonest, IsStored
  <2> QED
    BY <1>1, <1>2, <1>3, <2>1, <2>3, <2>4 DEF counters
<1>5. CASE TransportError(c)
  <2>1. /\ Waiting(c) /\ AttemptFailed(c)
        /\ UNCHANGED <<successCount, rejectCount>>
    BY <1>5 DEF TransportError
  <2> QED
    BY <1>1, <1>2, <1>3, <2>1 DEF counters
<1> QED
  BY <1>4, <1>5 DEF ClientStep

LEMMA CallFinishesNone ==
  ASSUME ClientShape, NEW c \in Callers, ~Waiting(c), Post(c, Len(body) + 1, 1),
         Len(body') = Len(body) + 1
  PROVE  Finished' = Finished
<1>1. Active' = Active \cup {c} /\ c \notin Active
  BY DEF Post, Active, Waiting, ClientShape, ClientTypeOK
<1>2. \A d \in Callers : send'[d] = IF d = c THEN Len(body) + 1 ELSE send[d]
  BY DEF Post, ClientShape, ClientTypeOK
<1>3. {send'[d] : d \in Active'} = {send[d] : d \in Active} \cup {Len(body) + 1}
  BY <1>1, <1>2 DEF Active
<1>4. /\ Len(body) + 1 \notin 1 .. Len(body)
      /\ 1 .. Len(body') = (1 .. Len(body)) \cup {Len(body) + 1}
  BY DEF ClientShape, ClientTypeOK
<1> QED
  BY <1>3, <1>4 DEF Finished

LEMMA ReturnFinishesOne ==
  ASSUME ClientShape, NEW c \in Callers, Waiting(c), Return(c), UNCHANGED body
  PROVE  send[c] \notin Finished /\ Finished' = Finished \cup {send[c]}
<1>1. Active' = Active \ {c} /\ c \in Active
  BY DEF Return, Active, Waiting, ClientShape, ClientTypeOK
<1>2. \A d \in Active' : send'[d] = send[d] /\ send[d] # send[c]
  BY <1>1 DEF Return, Active, ClientShape, ClientTypeOK, SendsApart
<1>3. {send'[d] : d \in Active'} = {send[d] : d \in Active} \ {send[c]}
  BY <1>1, <1>2
<1>4. send[c] \in 1 .. Len(body)
  BY DEF ClientShape, ClientTypeOK, SendsApart
<1> QED
  BY <1>1, <1>3, <1>4 DEF Finished

LEMMA CallIsCounted ==
  ASSUME ClientShape, Ledger, NoSilentLoss, NEW c \in Callers, NEW b \in Bodies, Call(c, b)
  PROVE  Ledger' /\ NoSilentLoss'
<1>1. /\ ~Waiting(c) /\ Len(body) \in Nat /\ Len(body') = Len(body) + 1
      /\ UNCHANGED <<hasToken, stored, successCount, rejectCount>>
  BY DEF Call, ClientShape, ClientTypeOK
<1>2. CASE ~hasToken /\ UNCHANGED <<send, attempt, requests, errorCount>>
  BY <1>1, <1>2 DEF Ledger, NoSilentLoss
<1>3. CASE hasToken /\ errorCount' = errorCount + 1 /\ UNCHANGED <<send, attempt, requests>>
  <2>1. UNCHANGED {send[d] : d \in Active}
    BY <1>3 DEF Active, Waiting
  <2>2. /\ Len(body) + 1 \notin Finished
        /\ 1 .. Len(body') = (1 .. Len(body)) \cup {Len(body) + 1}
    BY <1>1 DEF Finished
  <2>3. Len(body) + 1 \notin {send[d] : d \in Active}
    BY <1>1 DEF Active, ClientShape, ClientTypeOK, SendsApart
  <2>4. Finished' = Finished \cup {Len(body) + 1}
    BY <2>1, <2>2, <2>3 DEF Finished
  <2> QED
    BY <1>1, <1>3, <2>2, <2>4, OneFinished
<1>4. CASE hasToken /\ Post(c, Len(body) + 1, 1) /\ UNCHANGED errorCount
  BY <1>1, <1>4, CallFinishesNone, NothingFinished DEF counters
<1> QED
  BY <1>2, <1>3, <1>4 DEF Call

LEMMA StepIsCounted ==
  ASSUME ClientShape, Ledger, NoSilentLoss, NEW c \in Callers, ClientStep(c)
  PROVE  Ledger' /\ NoSilentLoss'
<1>1. Waiting(c) /\ hasToken /\ UNCHANGED <<hasToken, body, stored>>
  BY RetriesOrReturns
<1>2. CASE UNCHANGED <<send, counters>> /\ \A d \in Callers : Waiting(d)' <=> Waiting(d)
  <2>1. UNCHANGED Finished
    BY <1>1, <1>2 DEF Finished, Active
  <2> QED
    BY <1>1, <1>2, <2>1, NothingFinished
<1>3. CASE Return(c)
  <2>1. send[c] \notin Finished /\ Finished' = Finished \cup {send[c]}
    BY <1>1, <1>3, ReturnFinishesOne
  <2> QED
    BY <1>1, <1>2, <2>1, RetriesOrReturns, OneFinished
<1> QED
  BY <1>2, <1>3, RetriesOrReturns

(* The invariant of the ledger, and with it the two theorems.              *)
LedgerInv == ClientShape /\ Ledger /\ NoSilentLoss

LEMMA LedgerInit == ClientInit => LedgerInv
<1> SUFFICES ASSUME ClientInit PROVE LedgerInv
  OBVIOUS
<1>1. Finished = {} /\ {n \in Finished : ~IsStored(n)} = {}
  BY DEF ClientInit, Finished
<1>2. Cardinality({}) = 0
  BY FS_EmptySet
<1> QED
  BY <1>1, <1>2, ShapeInit DEF LedgerInv, Ledger, NoSilentLoss, ClientInit

LEMMA LedgerStep == LedgerInv /\ [ClientNext]_clientVars => LedgerInv'
<1> SUFFICES ASSUME LedgerInv, [ClientNext]_clientVars PROVE LedgerInv'
  OBVIOUS
<1> USE DEF LedgerInv
<1>1. CASE UNCHANGED clientVars
  <2>1. UNCHANGED <<hasToken, Finished, counters, stored>>
    BY <1>1 DEF clientVars, Finished, Active, Waiting
  <2> QED
    BY <2>1, ShapeStep, NothingFinished
<1>2. CASE \E c \in Callers, b \in Bodies : Call(c, b)
  BY <1>2, ShapeStep, CallIsCounted
<1>3. CASE \E c \in Callers : ClientStep(c)
  BY <1>3, ShapeStep, StepIsCounted
<1>4. ASSUME NEW r \in requests, Process(r) PROVE LedgerInv'
  <2>1. stored \subseteq stored' /\ UNCHANGED <<hasToken, body, send, attempt, counters>>
    BY <1>4 DEF Process
  <2>2. UNCHANGED Finished
    BY <2>1 DEF Finished, Active, Waiting
  <2> QED
    BY <2>1, <2>2, ShapeStep, NothingFinished
<1> QED
  BY <1>1, <1>2, <1>3, <1>4 DEF ClientNext, SendsDone, Backend

(***************************************************************************)
(* Every send with a token that has returned is in exactly one of the      *)
(* three counters, whatever was retried, answered late or lost.            *)
(***************************************************************************)
THEOREM LedgerThm == ClientSpec => []Ledger
<1>1. LedgerInv => Ledger
  BY DEF LedgerInv
<1> QED
  BY <1>1, LedgerInit, LedgerStep, PTL DEF ClientSpec

(***************************************************************************)
(* A payload the backend has not stored is in the errors or the rejects.   *)
(***************************************************************************)
THEOREM NoSilentLossThm == ClientSpec => []NoSilentLoss
<1>1. LedgerInv => NoSilentLoss
  BY DEF LedgerInv
<1> QED
  BY <1>1, LedgerInit, LedgerStep, PTL DEF ClientSpec
=============================================================================
