------------------------------- MODULE Buffer -------------------------------
(***************************************************************************)
(* The trace buffer of the SDK (buffer.go): host goroutines Push events    *)
(* into a bounded channel, one collector goroutine cuts them into batches  *)
(* and hands these to a fixed pool of sender goroutines over a second      *)
(* bounded channel, and Stop drains the whole.                             *)
(*                                                                         *)
(* Each action is one communication of a goroutine (a channel operation, a *)
(* select, a len() of a shared channel, the call or return of flushFn)     *)
(* together with the goroutine-local work that follows it.  A Go select    *)
(* with several ready cases takes any of them, so each case is an action.  *)
(* A definition headed "Bug:" is a faulty variant of the one after it,     *)
(* which no specification here uses; the runs must reject it.              *)
(*                                                                         *)
(* Events are numbered by the order of their Push calls: event n is the    *)
(* n-th.  Their contents play no part.                                     *)
(***************************************************************************)
EXTENDS Integers, Sequences, FiniteSets, Functions

CONSTANTS
  Senders,      \* the sender goroutines, cfg.SenderWorkers of them
  ChannelSize,  \* cap(b.events)
  BatchSize,    \* b.batchSize
  MaxPush       \* bound: Push is called at most this often

ASSUME BufferAssumption ==
  /\ IsFiniteSet(Senders) /\ Senders # {}
  /\ ChannelSize \in Nat \ {0}
  /\ BatchSize \in Nat \ {0}
  /\ MaxPush \in Nat

(* cap(b.batches): make(chan []Event, workers*2).                          *)
BatchSlots == 2 * Cardinality(Senders)

VARIABLES
  events,          \* ingress channel, oldest first
  batches,         \* egress channel of finished batches, oldest first
  batchesClosed,   \* close(b.batches) has run
  stopped,         \* b.stopCh is closed
  batch,           \* the collector's growing batch
  out,             \* the copy dispatch() is handing over, <<>> outside it
  collector,       \* where the collector goroutine is
  phase,           \* which call of dispatch() this is: main loop, drain, last
  sender,          \* where each sender goroutine is
  inflight,        \* the batch each sender has passed to flushFn
  stopper,         \* where the goroutine calling Stop is
  droppedEvents, droppedBatches, sentBatches,  \* the atomic counters
  pushed,          \* number of Push calls so far
  flushed,         \* events whose flushFn call has returned
  stopMark         \* history: value of pushed when Stop closed stopCh

collectorVars == <<batch, out, collector, phase>>
senderVars    == <<sender, inflight, flushed, sentBatches>>
stopVars      == <<stopped, stopper, stopMark>>
vars == <<events, batches, batchesClosed, collectorVars, senderVars, stopVars,
          droppedEvents, droppedBatches, pushed>>

CollectorStates == {"select", "dispatch", "gauge", "wait", "drain", "close", "done"}
Phases          == {"run", "drain", "final"}
SenderStates    == {"recv", "flush", "exited"}
StopperStates   == {"idle", "joinCollector", "joinSenders", "returned"}

-----------------------------------------------------------------------------
(* NewBuffer: empty channels, every goroutine at its first statement.      *)
Init ==
  /\ events = <<>> /\ batches = <<>> /\ batchesClosed = FALSE
  /\ batch = <<>> /\ out = <<>> /\ collector = "select" /\ phase = "run"
  /\ sender = [s \in Senders |-> "recv"]
  /\ inflight = [s \in Senders |-> <<>>]
  /\ stopped = FALSE /\ stopper = "idle" /\ stopMark = 0
  /\ droppedEvents = 0 /\ droppedBatches = 0 /\ sentBatches = 0
  /\ pushed = 0 /\ flushed = {}

(* The hot path: enqueue if there is room, otherwise count and return.     *)
(* Nothing stops a host goroutine from calling it after Stop.              *)
Push ==
  /\ pushed < MaxPush
  /\ pushed' = pushed + 1
  /\ \/ /\ Len(events) < ChannelSize
        /\ events' = Append(events, pushed + 1)
        /\ UNCHANGED droppedEvents
     \/ /\ Len(events) = ChannelSize
        /\ droppedEvents' = droppedEvents + 1
        /\ UNCHANGED events
  /\ UNCHANGED <<batches, batchesClosed, collectorVars, senderVars, stopVars,
                 droppedBatches>>

-----------------------------------------------------------------------------
(* Bug: dispatch() forgets batch = batch[:0].                              *)
DispatchKeepsBatch(b, p) ==
  /\ out' = b /\ batch' = b
  /\ collector' = "dispatch" /\ phase' = p

(* dispatch() up to its select: b becomes the copy `out' and the batch is  *)
(* emptied; control comes back to the loop named by p.                     *)
EnterDispatch(b, p) ==
  /\ out' = b /\ batch' = <<>>
  /\ collector' = "dispatch" /\ phase' = p

(* dispatch() returns to the loop that called it.                          *)
LeaveDispatch ==
  /\ out' = <<>>
  /\ collector' = [run |-> "select", drain |-> "drain", final |-> "close"][phase]
  /\ UNCHANGED <<batch, phase>>

(* One event is taken from the channel and appended; a full batch is       *)
(* dispatched at once.  The main loop and the drain loop both do this.     *)
TakeEvent(p) ==
  /\ events # <<>>
  /\ events' = Tail(events)
  /\ LET b == Append(batch, Head(events)) IN
       \/ /\ Len(b) >= BatchSize
          /\ EnterDispatch(b, p)
       \/ /\ Len(b) < BatchSize
          /\ batch' = b
          /\ UNCHANGED <<out, collector, phase>>
  /\ UNCHANGED <<batches, batchesClosed, senderVars, stopVars,
                 droppedEvents, droppedBatches, pushed>>

(* The three cases of the collector's main select.                         *)
CollectEvent == collector = "select" /\ TakeEvent("run")

(* Bug: the ticker ships only what is full anyway.                         *)
TickFullOnly ==
  /\ collector = "select" /\ Len(batch) >= BatchSize
  /\ EnterDispatch(batch, "run")
  /\ UNCHANGED <<events, batches, batchesClosed, senderVars, stopVars,
                 droppedEvents, droppedBatches, pushed>>

(* The ticker fires: a partial batch is shipped, an empty one is not.      *)
Tick ==
  /\ collector = "select" /\ batch # <<>>
  /\ EnterDispatch(batch, "run")
  /\ UNCHANGED <<events, batches, batchesClosed, senderVars, stopVars,
                 droppedEvents, droppedBatches, pushed>>

(* Bug: on stopCh the collector ships its batch without draining events.   *)
StopWithoutDrain ==
  /\ collector = "select" /\ stopped
  /\ collector' = "close" /\ phase' = "final"
  /\ UNCHANGED <<events, batches, batchesClosed, batch, out, senderVars, stopVars,
                 droppedEvents, droppedBatches, pushed>>

SeeStop ==
  /\ collector = "select" /\ stopped
  /\ collector' = "drain" /\ phase' = "drain"
  /\ UNCHANGED <<events, batches, batchesClosed, batch, out, senderVars, stopVars,
                 droppedEvents, droppedBatches, pushed>>
-----------------------------------------------------------------------------
(* Bug: the egress channel is made one slot too large.                     *)
HasSlotOffByOne == Len(batches) <= BatchSlots

(* The select inside dispatch(): a slot is free ...                        *)
HasSlot == Len(batches) < BatchSlots

Handover ==
  /\ HasSlot
  /\ batches' = Append(batches, out)
  /\ LeaveDispatch
  /\ UNCHANGED <<events, batchesClosed, senderVars, stopVars,
                 droppedEvents, droppedBatches, pushed>>

DispatchSend == collector = "dispatch" /\ Handover

(* ... or stopCh is closed, and the batch is gone without a trace ...      *)
Abandon ==
  /\ stopped
  /\ LeaveDispatch
  /\ UNCHANGED <<events, batches, batchesClosed, senderVars, stopVars,
                 droppedEvents, droppedBatches, pushed>>

DispatchStop == collector = "dispatch" /\ Abandon

(* Bug: the select in dispatch() lacks its stopCh case.                    *)
DefaultIgnoresStop ==
  /\ collector = "dispatch" /\ ~HasSlot
  /\ collector' = "gauge"
  /\ UNCHANGED <<events, batches, batchesClosed, batch, out, phase, senderVars,
                 stopVars, droppedEvents, droppedBatches, pushed>>

(* ... or neither, and the default case goes on to gauge the ingress.      *)
DispatchDefault ==
  /\ collector = "dispatch" /\ ~HasSlot /\ ~stopped
  /\ collector' = "gauge"
  /\ UNCHANGED <<events, batches, batchesClosed, batch, out, phase, senderVars,
                 stopVars, droppedEvents, droppedBatches, pushed>>

(* len(b.events) < cap(b.events)*9/10, in Go's integer arithmetic.         *)
Headroom == Len(events) < (ChannelSize * 9) \div 10

(* The gauge is read after the select, so both channels may have moved.    *)
GaugeWait ==
  /\ collector = "gauge" /\ Headroom
  /\ collector' = "wait"
  /\ UNCHANGED <<events, batches, batchesClosed, batch, out, phase, senderVars,
                 stopVars, droppedEvents, droppedBatches, pushed>>

(* Bugs: shedding does not count, or counts events instead of batches.     *)
GaugeDropSilent ==
  /\ collector = "gauge" /\ ~Headroom
  /\ LeaveDispatch
  /\ UNCHANGED <<events, batches, batchesClosed, senderVars, stopVars,
                 droppedEvents, droppedBatches, pushed>>

GaugeDropPerEvent ==
  /\ collector = "gauge" /\ ~Headroom
  /\ droppedBatches' = droppedBatches + Len(out)
  /\ LeaveDispatch
  /\ UNCHANGED <<events, batches, batchesClosed, senderVars, stopVars,
                 droppedEvents, pushed>>

GaugeDrop ==
  /\ collector = "gauge" /\ ~Headroom
  /\ droppedBatches' = droppedBatches + 1
  /\ LeaveDispatch
  /\ UNCHANGED <<events, batches, batchesClosed, senderVars, stopVars,
                 droppedEvents, pushed>>

(* The inner select: the collector blocks until a slot frees or Stop.      *)
WaitSend == collector = "wait" /\ Handover
WaitStop == collector = "wait" /\ Abandon

-----------------------------------------------------------------------------
(* The drain loop after stopCh: take what is there, then ship the rest.    *)
DrainEvent == collector = "drain" /\ TakeEvent("drain")

DrainEmpty ==
  /\ collector = "drain" /\ events = <<>>
  /\ \/ /\ batch # <<>>
        /\ EnterDispatch(batch, "final")
     \/ /\ batch = <<>>
        /\ collector' = "close" /\ phase' = "final"
        /\ UNCHANGED <<batch, out>>
  /\ UNCHANGED <<events, batches, batchesClosed, senderVars, stopVars,
                 droppedEvents, droppedBatches, pushed>>

(* Bug: the collector returns without close(b.batches).                    *)
CloseForgotten ==
  /\ collector = "close"
  /\ collector' = "done"
  /\ UNCHANGED <<events, batches, batchesClosed, batch, out, phase, senderVars,
                 stopVars, droppedEvents, droppedBatches, pushed>>

(* close(b.batches), then return, whose defer closes collectorDone.        *)
CloseBatches ==
  /\ collector = "close"
  /\ batchesClosed' = TRUE /\ collector' = "done"
  /\ UNCHANGED <<events, batches, batch, out, phase, senderVars, stopVars,
                 droppedEvents, droppedBatches, pushed>>
-----------------------------------------------------------------------------
(* for batch := range b.batches: the next batch goes to flushFn, ...       *)
StartFlush(s) ==
  /\ sender[s] = "recv" /\ batches # <<>>
  /\ inflight' = [inflight EXCEPT ![s] = Head(batches)]
  /\ batches' = Tail(batches)
  /\ sender' = [sender EXCEPT ![s] = "flush"]
  /\ UNCHANGED <<events, batchesClosed, collectorVars, flushed, sentBatches,
                 stopVars, droppedEvents, droppedBatches, pushed>>

(* ... flushFn returns, whatever became of the POST, and it is counted ... *)
EndFlush(s) ==
  /\ sender[s] = "flush"
  /\ flushed' = flushed \cup Range(inflight[s])
  /\ inflight' = [inflight EXCEPT ![s] = <<>>]
  /\ sentBatches' = sentBatches + 1
  /\ sender' = [sender EXCEPT ![s] = "recv"]
  /\ UNCHANGED <<events, batches, batchesClosed, collectorVars, stopVars,
                 droppedEvents, droppedBatches, pushed>>

(* Bug: a sender leaves on a closed channel that still holds batches.      *)
ExitOnClose(s) ==
  /\ sender[s] = "recv" /\ batchesClosed
  /\ sender' = [sender EXCEPT ![s] = "exited"]
  /\ UNCHANGED <<events, batches, batchesClosed, collectorVars, inflight, flushed,
                 sentBatches, stopVars, droppedEvents, droppedBatches, pushed>>

(* ... and the range ends once the channel is closed and empty.            *)
ExitSender(s) ==
  /\ sender[s] = "recv" /\ batches = <<>> /\ batchesClosed
  /\ sender' = [sender EXCEPT ![s] = "exited"]
  /\ UNCHANGED <<events, batches, batchesClosed, collectorVars, inflight, flushed,
                 sentBatches, stopVars, droppedEvents, droppedBatches, pushed>>

-----------------------------------------------------------------------------
(* Stop, called once: APM.Shutdown guards it with a sync.Once.             *)
BeginStop ==
  /\ stopper = "idle"
  /\ stopped' = TRUE /\ stopMark' = pushed
  /\ stopper' = "joinCollector"
  /\ UNCHANGED <<events, batches, batchesClosed, collectorVars, senderVars,
                 droppedEvents, droppedBatches, pushed>>

JoinCollector ==
  /\ stopper = "joinCollector" /\ collector = "done"
  /\ stopper' = "joinSenders"
  /\ UNCHANGED <<events, batches, batchesClosed, collectorVars, senderVars, stopped,
                 stopMark, droppedEvents, droppedBatches, pushed>>

JoinSenders ==
  /\ stopper = "joinSenders" /\ \A s \in Senders : sender[s] = "exited"
  /\ stopper' = "returned"
  /\ UNCHANGED <<events, batches, batchesClosed, collectorVars, senderVars, stopped,
                 stopMark, droppedEvents, droppedBatches, pushed>>

(* Nothing is left to run: every goroutine has ended and Push is used up.  *)
Terminated ==
  /\ stopper = "returned" /\ pushed = MaxPush
  /\ UNCHANGED vars

-----------------------------------------------------------------------------
Dispatch ==
  \/ DispatchSend \/ DispatchStop \/ DispatchDefault
  \/ GaugeWait \/ GaugeDrop \/ WaitSend \/ WaitStop

Drain == DrainEvent \/ DrainEmpty \/ CloseBatches

Collector == CollectEvent \/ Tick \/ SeeStop \/ Dispatch \/ Drain

Sender(s) == StartFlush(s) \/ EndFlush(s) \/ ExitSender(s)

Stop == BeginStop \/ JoinCollector \/ JoinSenders

Next ==
  \/ Push
  \/ Collector
  \/ \E s \in Senders : Sender(s)
  \/ Stop
  \/ Terminated

Spec == Init /\ [][Next]_vars

(***************************************************************************)
(* The scheduler runs every goroutine that can run, and a channel serves   *)
(* its waiting receivers in turn.  The cases of the main select are drawn  *)
(* at random, so one that is ready infinitely often is taken: strong       *)
(* fairness.  flushFn returns because the HTTP client has a timeout.       *)
(* Nobody is obliged to Push or to call Stop.                              *)
(***************************************************************************)
Fairness ==
  /\ SF_vars(CollectEvent) /\ SF_vars(Tick) /\ SF_vars(SeeStop)
  /\ WF_vars(Dispatch) /\ WF_vars(Drain)
  /\ \A s \in Senders : WF_vars(Sender(s))
  /\ WF_vars(JoinCollector) /\ WF_vars(JoinSenders)

FairSpec == Spec /\ Fairness

-----------------------------------------------------------------------------
(* Where an accepted event can be.                                         *)
InEgress   == UNION {Range(batches[k]) : k \in DOMAIN batches}
InSenders  == UNION {Range(inflight[s]) : s \in Senders}
Collected  == Range(batch) \cup Range(out) \cup InEgress \cup InSenders
Resident   == Range(events) \cup Collected

(* Events pushed and neither resident nor flushed.                         *)
Missing == (1 .. pushed) \ (Resident \cup flushed)

(* Stats(): the counters and queue lengths the host application sees.      *)
Stats == [DroppedEvents  |-> droppedEvents,  DroppedBatches |-> droppedBatches,
          SentBatches    |-> sentBatches,    QueuedEvents   |-> Len(events),
          QueuedBatches  |-> Len(batches)]

(***************************************************************************)
(* Types, with the capacities of the channels and of a batch: NewBuffer's  *)
(* promise that memory is fixed.  Batches on their way are never empty.    *)
(***************************************************************************)
Batches == {b \in Seq(1 .. MaxPush) : Len(b) \in 1 .. BatchSize}

TypeOK ==
  /\ events \in Seq(1 .. MaxPush) /\ Len(events) <= ChannelSize
  /\ batches \in Seq(Batches) /\ Len(batches) <= BatchSlots
  /\ batchesClosed \in BOOLEAN /\ stopped \in BOOLEAN
  /\ batch \in Seq(1 .. MaxPush) /\ Len(batch) < BatchSize
  /\ out \in Batches \cup {<<>>}
  /\ collector \in CollectorStates /\ phase \in Phases
  /\ sender \in [Senders -> SenderStates]
  /\ inflight \in [Senders -> Batches \cup {<<>>}]
  /\ stopper \in StopperStates
  /\ droppedEvents \in Nat /\ droppedBatches \in Nat /\ sentBatches \in Nat
  /\ pushed \in 0 .. MaxPush /\ stopMark \in 0 .. MaxPush
  /\ flushed \subseteq 1 .. MaxPush

-----------------------------------------------------------------------------
Increasing(s) == \A i, j \in DOMAIN s : i < j => s[i] < s[j]
Precedes(S, T) == \A m \in S, n \in T : m < n

(***************************************************************************)
(* Order and at-most-once hand-over: along the pipeline from the senders   *)
(* back to the ingress channel the events are in the order of their Push   *)
(* calls, and no event is in two places, or still on its way after its     *)
(* flushFn call has returned.  What dispatch() could break by reusing the  *)
(* batch slice it has handed over, or by handing a copy over twice.        *)
(***************************************************************************)
PipelineOrder ==
  /\ Increasing(events) /\ Increasing(batch) /\ Increasing(out)
  /\ \A k \in DOMAIN batches : Increasing(batches[k])
  /\ \A s \in Senders : Increasing(inflight[s])
  /\ Precedes(Range(batch) \cup Range(out), Range(events))
  /\ Precedes(InEgress, Range(batch) \cup Range(out) \cup Range(events))
  /\ \A k, l \in DOMAIN batches : k < l => Precedes(Range(batches[k]), Range(batches[l]))
  /\ Precedes(InSenders \cup flushed,
              InEgress \cup Range(batch) \cup Range(out) \cup Range(events))
  /\ \A s, t \in Senders : s # t => Range(inflight[s]) \cap Range(inflight[t]) = {}
  /\ InSenders \cap flushed = {}

(***************************************************************************)
(* Until Stop is called, every event that is neither on its way nor handed *)
(* to flushFn is paid for by the counters: one per event refused at the    *)
(* door, one per batch shed, and no more of either than events are gone.   *)
(* ("In both cases a counter is incremented", buffer.go.)                  *)
(***************************************************************************)
EveryLossCounted ==
  ~stopped =>
    /\ Stats.DroppedEvents + Stats.DroppedBatches <= Cardinality(Missing)
    /\ Cardinality(Missing) <= Stats.DroppedEvents + BatchSize * Stats.DroppedBatches

(***************************************************************************)
(* When Stop returns, no batch is queued or being posted and every sender  *)
(* has ended ("waits for the sender pool to finish in-flight uploads").    *)
(***************************************************************************)
StopDrains ==
  stopper = "returned" =>
    /\ Collected = {}
    /\ batchesClosed
    /\ \A s \in Senders : sender[s] = "exited"

(***************************************************************************)
(* The drain leaves nothing behind in the ingress channel that was pushed  *)
(* before Stop was called; only pushes that race with or follow Stop can   *)
(* be stranded there.                                                      *)
(***************************************************************************)
DrainIsComplete ==
  collector \in {"close", "done"} => \A n \in Range(events) : n > stopMark

(***************************************************************************)
(* Once the collector is draining it never waits for a sender, so a dead   *)
(* backend cannot hold up the drain ("Drain the ingress channel without    *)
(* blocking").                                                             *)
(***************************************************************************)
DrainNeverBlocks == phase # "run" => collector \notin {"gauge", "wait"}

(***************************************************************************)
(* Stop loses nothing on its own account: once it has returned, with no    *)
(* drop counted, every event pushed before it was called has been handed   *)
(* to flushFn.  This is what apm.go says of Shutdown ("call Shutdown       *)
(* during graceful termination so the last batch is not lost"); the code   *)
(* does not keep it, because dispatch() may take its stopCh case.          *)
(***************************************************************************)
StopKeepsEarlierEvents ==
  stopper = "returned" /\ droppedEvents = 0 /\ droppedBatches = 0
    => 1 .. stopMark \subseteq flushed

-----------------------------------------------------------------------------
(***************************************************************************)
(* Every event that gets into the ingress channel leaves the buffer again, *)
(* full batch or not, stop or no stop, unless it arrived too late for the  *)
(* drain and is left in the channel of a collector that has ended.         *)
(***************************************************************************)
EventsLeave ==
  \A n \in 1 .. MaxPush :
    n \in Resident ~> (n \notin Resident \/ (n \in Range(events) /\ collector = "done"))

(***************************************************************************)
(* Stop returns, once the host has ceased to push: the drain ends, the     *)
(* channel is closed and every sender gets to see that.                    *)
(***************************************************************************)
StopReturns == (stopper = "joinCollector") ~> (stopper = "returned")

-----------------------------------------------------------------------------
(***************************************************************************)
(* The buffer implements EventPipeline: every step accepts or refuses one  *)
(* event, delivers, sheds or forfeits one whole batch, or is invisible.    *)
(***************************************************************************)
Stage == [idle |-> "running", joinCollector |-> "stopping",
          joinSenders |-> "stopping", returned |-> "stopped"][stopper]

Pipeline == INSTANCE EventPipeline
              WITH pending <- Resident, delivered <- flushed, stage <- Stage

ImplementsPipeline == Pipeline!Spec
=============================================================================
