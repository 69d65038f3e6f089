------------------------------- MODULE Client -------------------------------
(***************************************************************************)
(* The shared transport (client.go): each send is one POST, tried at most  *)
(* twice, with a timeout on every attempt, whose outcome shows only in     *)
(* three counters.  The sender goroutines of the buffer, the metrics loop  *)
(* and the host's own goroutines use it side by side.                      *)
(*                                                                         *)
(* The network and the backend are outside: a request may be processed     *)
(* late or never, also when its sender has given it up, and its answer may *)
(* be lost.  A request is the pair of its send number and its attempt.     *)
(* "Bug:" definitions are faulty variants that the runs must reject.       *)
(***************************************************************************)
EXTENDS Integers, Sequences, FiniteSets

CONSTANTS
  Callers,    \* goroutines that call a Send method
  Bodies,     \* what they send: never an empty slice, which returns at once
  MaxSends    \* bound: Send is called at most this often

ASSUME ClientAssumption == IsFiniteSet(Callers) /\ MaxSends \in Nat

VARIABLES
  hasToken,   \* c.token is not empty
  body,       \* body[n] is the payload of the n-th send
  send,       \* the send each caller is in, 0 outside send()
  attempt,    \* the attempt it waits for, 0 outside do()
  requests,   \* requests the backend has yet to process
  replies,    \* answers http.Do has got, not yet looked at
  stored,     \* requests whose payload the backend has stored
  successCount, errorCount, rejectCount

counters   == <<successCount, errorCount, rejectCount>>
clientVars == <<hasToken, body, send, attempt, requests, replies, stored, counters>>

(* Status classes of send(): 2xx, 4xx and all the rest.                    *)
Status == {"ok", "reject", "other"}

ClientInit ==
  /\ hasToken \in BOOLEAN
  /\ body = <<>>
  /\ send = [c \in Callers |-> 0] /\ attempt = [c \in Callers |-> 0]
  /\ requests = {} /\ replies = {} /\ stored = {}
  /\ successCount = 0 /\ errorCount = 0 /\ rejectCount = 0

-----------------------------------------------------------------------------
Current(c) == <<send[c], attempt[c]>>
Waiting(c) == attempt[c] # 0
Answers(c) == {r \in replies : r.request = Current(c)}

(* The k-th attempt of send n: do() puts a request on the wire.            *)
Post(c, n, k) ==
  /\ send' = [send EXCEPT ![c] = n]
  /\ attempt' = [attempt EXCEPT ![c] = k]
  /\ requests' = requests \cup {<<n, k>>}

(* send() returns.                                                         *)
Return(c) ==
  /\ send' = [send EXCEPT ![c] = 0]
  /\ attempt' = [attempt EXCEPT ![c] = 0]
  /\ UNCHANGED requests

(* A Send method is called: no token means nothing is sent or counted, a   *)
(* payload json.Marshal refuses (a NaN or infinite float) is an error, all *)
(* others are posted.                                                      *)
Call(c, b) ==
  /\ ~Waiting(c) /\ Len(body) < MaxSends
  /\ body' = Append(body, b)
  /\ \/ /\ ~hasToken
        /\ UNCHANGED <<send, attempt, requests, errorCount>>
     \/ /\ hasToken
        /\ errorCount' = errorCount + 1
        /\ UNCHANGED <<send, attempt, requests>>
     \/ /\ hasToken
        /\ Post(c, Len(body) + 1, 1)
        /\ UNCHANGED errorCount
  /\ UNCHANGED <<hasToken, replies, stored, successCount, rejectCount>>

(* Bug: the second failure is not the only one that counts.                *)
CountEachFailure(c) ==
  /\ errorCount' = errorCount + 1
  /\ \/ /\ attempt[c] < 2
        /\ Post(c, send[c], attempt[c] + 1)
     \/ /\ attempt[c] = 2
        /\ Return(c)

(* Bug: a failed attempt is always tried again.                            *)
RetryForever(c) == Post(c, send[c], 2) /\ UNCHANGED errorCount

(* Bug: the loop runs to attempt <= 2.                                     *)
RetryOnceMore(c) ==
  \/ /\ attempt[c] <= 2
     /\ Post(c, send[c], attempt[c] + 1)
     /\ UNCHANGED errorCount
  \/ /\ attempt[c] > 2
     /\ errorCount' = errorCount + 1
     /\ Return(c)

(* The attempt has failed: once more, without a pause, or give up.         *)
AttemptFailed(c) ==
  \/ /\ attempt[c] < 2
     /\ Post(c, send[c], attempt[c] + 1)
     /\ UNCHANGED errorCount
  \/ /\ attempt[c] = 2
     /\ errorCount' = errorCount + 1
     /\ Return(c)

(* Bug: every answer counts as a success.                                  *)
ReceiveAnything(c) ==
  /\ Answers(c) # {}
  /\ replies' = replies \ Answers(c)
  /\ successCount' = successCount + 1
  /\ Return(c)
  /\ UNCHANGED <<hasToken, body, stored, errorCount, rejectCount>>

(* http.Do returns a response; what comes of reading its body is ignored.  *)
Receive(c) ==
  /\ \E r \in Answers(c) :
       /\ replies' = replies \ {r}
       /\ \/ /\ r.status = "ok"
             /\ successCount' = successCount + 1
             /\ Return(c)
             /\ UNCHANGED <<errorCount, rejectCount>>
          \/ /\ r.status = "reject"
             /\ rejectCount' = rejectCount + 1
             /\ Return(c)
             /\ UNCHANGED <<errorCount, successCount>>
          \/ /\ r.status = "other"
             /\ AttemptFailed(c)
             /\ UNCHANGED <<successCount, rejectCount>>
  /\ UNCHANGED <<hasToken, body, stored>>

(* http.Do returns an error: no connection, a broken one, or the timeout.  *)
TransportError(c) ==
  /\ Waiting(c) /\ Answers(c) = {}
  /\ AttemptFailed(c)
  /\ UNCHANGED <<hasToken, body, replies, stored, successCount, rejectCount>>

(* The answer arrives while the caller waits for it.                       *)
Answer(r, status) ==
  /\ \E c \in Callers : Current(c) = r
  /\ replies' = replies \cup {[request |-> r, status |-> status]}

(* The backend takes up a request.  What it answers 2xx it has stored,     *)
(* what it answers 4xx it has not; with any other status it may have been  *)
(* either (a gateway in between).  The answer may be lost or be too late.  *)
(* A request that is neither stored nor answered is simply left alone.     *)
Process(r) ==
  /\ r \in requests
  /\ requests' = requests \ {r}
  /\ \/ /\ stored' = stored \cup {r}
        /\ UNCHANGED replies \/ \E status \in Status \ {"reject"} : Answer(r, status)
     \/ /\ \E status \in Status \ {"ok"} : Answer(r, status)
        /\ UNCHANGED stored
  /\ UNCHANGED <<hasToken, body, send, attempt, counters>>

ClientStep(c) == Receive(c) \/ TransportError(c)

Backend == \E r \in requests : Process(r)

SendsDone ==
  /\ Len(body) = MaxSends /\ \A c \in Callers : ~Waiting(c)
  /\ UNCHANGED clientVars

ClientNext ==
  \/ \E c \in Callers, b \in Bodies : Call(c, b)
  \/ \E c \in Callers : ClientStep(c)
  \/ Backend
  \/ SendsDone

ClientSpec == ClientInit /\ [][ClientNext]_clientVars

(* do() always comes back, because both the request's context and the HTTP *)
(* client carry the timeout.  Nothing is assumed of the network or backend.*)
ClientFairness == \A c \in Callers : WF_clientVars(ClientStep(c))

FairClientSpec == ClientSpec /\ ClientFairness

-----------------------------------------------------------------------------
Active == {c \in Callers : Waiting(c)}

(* Sends that have returned, and those of them the backend has stored.     *)
Finished == (1 .. Len(body)) \ {send[c] : c \in Active}
IsStored(n) == \E k \in 1 .. 2 : <<n, k>> \in stored

ClientTypeOK ==
  /\ hasToken \in BOOLEAN
  /\ body \in Seq(Bodies) /\ Len(body) <= MaxSends
  /\ send \in [Callers -> 0 .. MaxSends] /\ attempt \in [Callers -> 0 .. 2]
  /\ requests \subseteq (1 .. MaxSends) \X (1 .. 2)
  /\ replies \subseteq [request : (1 .. MaxSends) \X (1 .. 2), status : Status]
  /\ stored \subseteq (1 .. MaxSends) \X (1 .. 2)
  /\ successCount \in Nat /\ errorCount \in Nat /\ rejectCount \in Nat

(***************************************************************************)
(* The counters are a ledger of sends: each one that has a token and has   *)
(* returned is in exactly one of the three, whatever was retried, answered *)
(* late or lost on the way; without a token nothing is counted.            *)
(***************************************************************************)
Ledger ==
  successCount + errorCount + rejectCount =
    IF hasToken THEN Cardinality(Finished) ELSE 0

(***************************************************************************)
(* A payload that never reached the backend is not lost silently: there is *)
(* an error or a reject for it, so no success was counted in its place.    *)
(***************************************************************************)
NoSilentLoss ==
  hasToken =>
    Cardinality({n \in Finished : ~IsStored(n)}) <= errorCount + rejectCount

(***************************************************************************)
(* Every send returns, also when the backend is dead or never answers.     *)
(***************************************************************************)
SendReturns == \A c \in Callers : Waiting(c) ~> ~Waiting(c)
=============================================================================
