------------------------------ MODULE Delivery ------------------------------
(***************************************************************************)
(* The way of an event from Push to the backend: the buffer with its       *)
(* flushFn, which is Client.SendEvents (apm.New passes it to NewBuffer).   *)
(* A sender goroutine takes a batch and is in send() until the POST has    *)
(* succeeded, been rejected or failed twice; then it counts the batch as   *)
(* sent, whichever it was.                                                 *)
(*                                                                         *)
(* The senders are not alone on the transport: apm.New gives the same      *)
(* Client to the metrics loop, which posts its snapshots through it, and   *)
(* APM.Client() gives it to the host.  Their posts go into the same three  *)
(* counters.  "Bug:" definitions are faulty variants.                      *)
(***************************************************************************)
EXTENDS Buffer

CONSTANT OtherCallers  \* the metrics loop, and host goroutines that hold the client

ASSUME DeliveryAssumption ==
  IsFiniteSet(OtherCallers) /\ OtherCallers \cap Senders = {}

(* A metrics post carries nothing of the buffer.                           *)
NoEvents == <<>>

Callers == Senders \cup OtherCallers
Bodies  == Batches \cup {NoEvents}

VARIABLES hasToken, body, send, attempt, requests, replies, stored,
          successCount, errorCount, rejectCount

INSTANCE Client WITH MaxSends <- MaxPush

uploadVars   == <<hasToken, body, send, attempt, requests, replies, stored,
                  successCount, errorCount, rejectCount>>
deliveryVars == <<vars, uploadVars>>

DeliveryInit == Init /\ ClientInit

(* The metrics posts among the sends so far.                               *)
Posts == {n \in DOMAIN body : body[n] = NoEvents}

(* Bound: MaxPush is for Push calls and metrics posts together.            *)
MayCall == pushed + Cardinality(Posts) < MaxPush

(* flushFn(context.Background(), batch): a posted body is the batch.       *)
BeginUpload(s) == StartFlush(s) /\ Call(s, Head(batches))

(* Bug: the sender does not wait for the upload it has started.            *)
EndUploadEarly(s) == EndFlush(s) /\ UNCHANGED uploadVars

(* flushFn has returned.                                                   *)
EndUpload(s) == ~Waiting(s) /\ EndFlush(s) /\ UNCHANGED uploadVars

SenderStep(s) ==
  \/ BeginUpload(s)
  \/ EndUpload(s)
  \/ ExitSender(s) /\ UNCHANGED uploadVars
  \/ ClientStep(s) /\ UNCHANGED vars

(* SendSystemMetric, SendDBMetrics or SendRedisMetrics.                    *)
BeginPost(c) == MayCall /\ Call(c, NoEvents)

OtherStep(c) == (BeginPost(c) \/ ClientStep(c)) /\ UNCHANGED vars

Finish ==
  /\ stopper = "returned" /\ ~MayCall
  /\ UNCHANGED deliveryVars

DeliveryNext ==
  \/ MayCall /\ Push /\ UNCHANGED uploadVars
  \/ Collector /\ UNCHANGED uploadVars
  \/ \E s \in Senders : SenderStep(s)
  \/ \E c \in OtherCallers : OtherStep(c)
  \/ Stop /\ UNCHANGED uploadVars
  \/ Backend /\ UNCHANGED vars
  \/ Finish

DeliverySpec == DeliveryInit /\ [][DeliveryNext]_deliveryVars

(* As in Buffer and Client; the backend owes nothing, not even an answer,  *)
(* and the buffer does not depend on the other callers coming back.        *)
DeliveryFairness ==
  /\ SF_deliveryVars(CollectEvent /\ UNCHANGED uploadVars)
  /\ SF_deliveryVars(Tick /\ UNCHANGED uploadVars)
  /\ SF_deliveryVars(SeeStop /\ UNCHANGED uploadVars)
  /\ WF_deliveryVars(Dispatch /\ UNCHANGED uploadVars)
  /\ WF_deliveryVars(Drain /\ UNCHANGED uploadVars)
  /\ \A s \in Senders : WF_deliveryVars(SenderStep(s))
  /\ WF_deliveryVars(JoinCollector /\ UNCHANGED uploadVars)
  /\ WF_deliveryVars(JoinSenders /\ UNCHANGED uploadVars)

FairDeliverySpec == DeliverySpec /\ DeliveryFairness

-----------------------------------------------------------------------------
EventsOf(r) == Range(body[r[1]])
StoredEvents == UNION {EventsOf(r) : r \in stored}

(***************************************************************************)
(* End to end: as long as Stop has not been called, an event that was      *)
(* pushed, has left the buffer and is not in the backend shows in one of   *)
(* the four loss counters a host can read (a batch counter stands for at   *)
(* most BatchSize events).  No step between the two components loses       *)
(* events that neither counts.                                             *)
(***************************************************************************)
NoUncountedLoss ==
  hasToken /\ ~stopped =>
    Cardinality((1 .. pushed) \ (Resident \cup StoredEvents))
      <= droppedEvents + BatchSize * (droppedBatches + errorCount + rejectCount)

(* Verdicts of the client on batches: those on metrics posts taken off.    *)
FinishedPosts == Finished \cap Posts
BatchesJudged == successCount + errorCount + rejectCount - Cardinality(FinishedPosts)

(***************************************************************************)
(* sentBatches counts verdicts, not successes: whatever else is posted     *)
(* through the same client, it follows the client's verdicts on batches,   *)
(* lagging by at most one batch per sender, and never runs ahead of them.  *)
(***************************************************************************)
SentAreJudged ==
  hasToken =>
    /\ BatchesJudged - Cardinality(Senders) <= sentBatches
    /\ sentBatches <= BatchesJudged

(***************************************************************************)
(* An event reaches the backend in one batch only: if two stored requests  *)
(* share an event they are the two attempts of the same send.  So retries  *)
(* and late answers are the only source of duplicates, at most one each.   *)
(***************************************************************************)
OneBatchPerEvent ==
  \A q, r \in stored : EventsOf(q) \cap EventsOf(r) # {} => q[1] = r[1]

(***************************************************************************)
(* Stop waits for uploads: once it has returned no sender is in send() any *)
(* more ("waits for the sender pool to finish in-flight uploads",          *)
(* buffer.go) and every batch handed over has its verdict, though the      *)
(* backend may still process requests that were given up and other callers *)
(* may still be posting.                                                   *)
(***************************************************************************)
StopWaitsForUploads ==
  stopper = "returned" =>
    /\ \A s \in Senders : ~Waiting(s)
    /\ hasToken => sentBatches = BatchesJudged

(***************************************************************************)
(* Stop returns even when no request is ever answered: the timeouts alone  *)
(* bring every sender to the end of the egress channel.                    *)
(***************************************************************************)
StopSurvivesOutage == (stopper = "joinCollector") ~> (stopper = "returned")
=============================================================================
