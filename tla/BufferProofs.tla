---------------------------- MODULE BufferProofs ----------------------------
(***************************************************************************)
(* Theorems about Buffer, for every pool of senders, channel capacity,     *)
(* batch size and number of pushes.                                        *)
(***************************************************************************)
EXTENDS Buffer, SequenceTheorems, FiniteSetTheorems, TLAPS

(* Sequences of numbers as the channels and the batch use them.            *)
LEMMA RangeOfEmpty == Range(<<>>) = {}
  BY DEF Range

LEMMA RangeOfAppend ==
  ASSUME NEW S, NEW q \in Seq(S), NEW x \in S
  PROVE  Range(Append(q, x)) = Range(q) \cup {x}
<1>1. /\ Len(Append(q, x)) = Len(q) + 1 /\ Len(q) \in Nat
      /\ \A i \in 1 .. Len(q) : Append(q, x)[i] = q[i]
      /\ Append(q, x)[Len(q) + 1] = x
      /\ Append(q, x) \in Seq(S)
  BY AppendProperties, LenProperties
<1>2. /\ Range(q) = {q[i] : i \in 1 .. Len(q)}
      /\ Range(Append(q, x)) = {Append(q, x)[i] : i \in 1 .. Len(q) + 1}
  BY <1>1, RangeEquality
<1> QED
  BY <1>1, <1>2

LEMMA HeadAndTail ==
  ASSUME NEW S, NEW q \in Seq(S), q # <<>>
  PROVE  /\ Head(q) \in S /\ Tail(q) \in Seq(S)
         /\ Len(Tail(q)) = Len(q) - 1 /\ Len(q) \in Nat \ {0}
         /\ Head(q) = q[1]
         /\ \A i \in 1 .. Len(Tail(q)) : Tail(q)[i] = q[i + 1]
  BY HeadTailProperties, LenProperties, EmptySeq

LEMMA RangeOfTail ==
  ASSUME NEW S, NEW q \in Seq(S), q # <<>>
  PROVE  Range(q) = {Head(q)} \cup Range(Tail(q))
<1> DEFINE t == Tail(q)
<1>1. t \in Seq(S)
  BY HeadAndTail
<1>2. Range(t) = {t[i] : i \in 1 .. Len(t)}
  <2> HIDE DEF t
  <2> QED
    BY <1>1, RangeEquality
<1>3. Range(q) = {q[i] : i \in 1 .. Len(q)}
  BY RangeEquality
<1>4. \A i \in 1 .. Len(q) : i = 1 \/ (i - 1 \in 1 .. Len(t) /\ t[i - 1] = q[i])
  BY HeadAndTail
<1>5. \A i \in 1 .. Len(t) : i + 1 \in 1 .. Len(q) /\ t[i] = q[i + 1]
  BY HeadAndTail
<1>6. 1 \in 1 .. Len(q) /\ Head(q) = q[1]
  BY HeadAndTail
<1> HIDE DEF t
<1>7. Range(q) \subseteq {Head(q)} \cup Range(t)
  BY <1>2, <1>3, <1>4, <1>6
<1>8. {Head(q)} \cup Range(t) \subseteq Range(q)
  BY <1>2, <1>3, <1>5, <1>6
<1> QED
  BY <1>7, <1>8 DEF t

LEMMA SeqOfNat ==
  ASSUME NEW q \in Seq(1 .. MaxPush)
  PROVE  q \in Seq(Nat)
<1>1. \A i \in 1 .. Len(q) : q[i] \in Nat
  BY BufferAssumption, LenProperties
<1>2. Len(q) \in Nat /\ q = [i \in 1 .. Len(q) |-> q[i]]
  BY LenProperties
<1> QED
  BY <1>1, <1>2

LEMMA IncreasingEmpty == Increasing(<<>>)
  BY DEF Increasing

LEMMA IncreasingAppend ==
  ASSUME NEW q \in Seq(Nat), NEW x \in Nat, Increasing(q), Precedes(Range(q), {x})
  PROVE  Increasing(Append(q, x))
<1>1. \A i \in 1 .. Len(q) : q[i] < x
  BY RangeEquality DEF Precedes
<1>2. DOMAIN q = 1 .. Len(q) /\ DOMAIN Append(q, x) = 1 .. Len(q) + 1
  BY AppendProperties, LenProperties
<1> QED
  BY <1>1, <1>2, AppendProperties, LenProperties DEF Increasing

LEMMA IncreasingTail ==
  ASSUME NEW q \in Seq(Nat), q # <<>>, Increasing(q)
  PROVE  Increasing(Tail(q)) /\ Precedes({Head(q)}, Range(Tail(q)))
<1>1. DOMAIN q = 1 .. Len(q) /\ DOMAIN Tail(q) = 1 .. Len(Tail(q))
  BY HeadAndTail, LenProperties
<1>2. Increasing(Tail(q))
  BY <1>1, HeadAndTail DEF Increasing
<1>3. Precedes({Head(q)}, Range(Tail(q)))
  <2>1. \A i \in 1 .. Len(Tail(q)) : Head(q) < Tail(q)[i]
    BY <1>1, HeadAndTail DEF Increasing
  <2>2. Tail(q) \in Seq(Nat)
    BY HeadAndTail
  <2>3. Range(Tail(q)) = {Tail(q)[i] : i \in 1 .. Len(Tail(q))}
    BY <2>2, RangeEquality
  <2> QED
    BY <2>1, <2>3 DEF Precedes
<1> QED
  BY <1>2, <1>3

-----------------------------------------------------------------------------
InDispatch == {"dispatch", "gauge", "wait"}

(* While dispatch() runs it owns a batch and the collector's is empty.     *)
DispatchHolds ==
  /\ collector \in InDispatch => out # <<>> /\ batch = <<>>
  /\ collector \notin InDispatch => out = <<>>

TypeInv == TypeOK /\ DispatchHolds

LEMMA SlotsType == BatchSlots \in Nat
  BY BufferAssumption, FS_CardinalityType DEF BatchSlots

LEMMA TypeInit == Init => TypeInv
<1> SUFFICES ASSUME Init PROVE TypeInv
  OBVIOUS
<1> USE DEF Init
<1>1. events \in Seq(1 .. MaxPush) /\ Len(events) <= ChannelSize
  BY BufferAssumption
<1>2. batches \in Seq(Batches) /\ Len(batches) <= BatchSlots
  BY SlotsType
<1>3. batch \in Seq(1 .. MaxPush) /\ Len(batch) < BatchSize
  BY BufferAssumption
<1>4. sender \in [Senders -> SenderStates] /\ inflight \in [Senders -> Batches \cup {<<>>}]
  BY DEF SenderStates
<1>5. pushed \in 0 .. MaxPush /\ stopMark \in 0 .. MaxPush
  BY BufferAssumption
<1>6. DispatchHolds
  BY DEF DispatchHolds, InDispatch
<1> QED
  BY <1>1, <1>2, <1>3, <1>4, <1>5, <1>6
  DEF TypeInv, TypeOK, CollectorStates, Phases, StopperStates

(* The copy and the state a call of dispatch() starts with.                *)
LEMMA EnterType ==
  ASSUME NEW b \in Batches, NEW p \in Phases, EnterDispatch(b, p)
  PROVE  /\ out' \in Batches /\ batch' = <<>> /\ out' # <<>>
         /\ collector' = "dispatch" /\ phase' \in Phases
  BY DEF EnterDispatch, Batches

(* dispatch() gives control back to one of the two loops or to the close.  *)
LEMMA LeaveType ==
  ASSUME phase \in Phases, LeaveDispatch
  PROVE  /\ out' = <<>> /\ batch' = batch /\ phase' = phase
         /\ collector' \in {"select", "drain", "close"}
  BY DEF LeaveDispatch, Phases

(* Taking an event keeps the batch short of full, or makes a full copy.    *)
LEMMA TakeType ==
  ASSUME TypeInv, NEW p \in Phases, TakeEvent(p), collector \notin InDispatch
  PROVE  TypeInv'
<1> DEFINE b == Append(batch, Head(events))
<1>1. /\ events' \in Seq(1 .. MaxPush) /\ Len(events') <= ChannelSize
      /\ Head(events) \in 1 .. MaxPush
  BY BufferAssumption DEF TypeInv, TypeOK, TakeEvent
<1>2. b \in Seq(1 .. MaxPush) /\ Len(b) = Len(batch) + 1
  BY <1>1 DEF TypeInv, TypeOK
<1>3. Len(b) \in 1 .. BatchSize
  BY <1>2, BufferAssumption DEF TypeInv, TypeOK
<1>4. b \in Batches
  BY <1>2, <1>3 DEF Batches
<1>5. UNCHANGED <<batches, batchesClosed, senderVars, stopVars,
                  droppedEvents, droppedBatches, pushed>>
  BY DEF TakeEvent
<1>6. CASE EnterDispatch(b, p)
  <2> HIDE DEF b
  <2>1. /\ out' \in Batches /\ batch' = <<>> /\ out' # <<>>
        /\ collector' = "dispatch" /\ phase' \in Phases
    BY <1>4, <1>6, EnterType
  <2>2. batch' \in Seq(1 .. MaxPush) /\ Len(batch') < BatchSize
    BY <2>1, BufferAssumption
  <2> QED
    BY <1>1, <1>5, <2>1, <2>2 DEF TypeInv, TypeOK, DispatchHolds, InDispatch,
       CollectorStates, senderVars, stopVars
<1>7. CASE Len(b) < BatchSize /\ batch' = b /\ UNCHANGED <<out, collector, phase>>
  <2>1. batch' \in Seq(1 .. MaxPush) /\ Len(batch') < BatchSize
    BY <1>2, <1>7
  <2> QED
    BY <1>1, <1>5, <1>7, <2>1 DEF TypeInv, TypeOK, DispatchHolds, senderVars, stopVars
<1> QED
  BY <1>6, <1>7 DEF TakeEvent

LEMMA InflightType ==
  ASSUME TypeInv, NEW s \in Senders
  PROVE  inflight[s] \in Seq(1 .. MaxPush) /\ Range(inflight[s]) \subseteq 1 .. MaxPush
<1>1. inflight[s] \in Batches \cup {<<>>}
  BY DEF TypeInv, TypeOK
<1>2. inflight[s] \in Seq(1 .. MaxPush)
  <2>1. CASE inflight[s] \in Batches
    BY <2>1 DEF Batches
  <2>2. CASE inflight[s] = <<>>
    BY <2>2
  <2> QED
    BY <1>1, <2>1, <2>2
<1> QED
  BY <1>2, RangeOfSeq

LEMMA TypeStep == TypeInv /\ [Next]_vars => TypeInv'
<1> SUFFICES ASSUME TypeInv, [Next]_vars PROVE TypeInv'
  OBVIOUS
<1> USE DEF TypeInv, TypeOK
<1>p. /\ {"run", "drain", "final"} = Phases
      /\ {"select", "drain", "close"} \subseteq CollectorStates
      /\ {"select", "drain", "close"} \cap InDispatch = {}
      /\ {"dispatch", "gauge", "wait", "done"} \subseteq CollectorStates
  BY DEF Phases, CollectorStates, InDispatch
<1>1. CASE Push
  <2>1. pushed' \in 0 .. MaxPush /\ pushed + 1 \in 1 .. MaxPush
    BY <1>1, BufferAssumption DEF Push
  <2>2. events' \in Seq(1 .. MaxPush) /\ Len(events') <= ChannelSize
    <3>1. CASE Len(events) < ChannelSize /\ events' = Append(events, pushed + 1)
      <4> HIDE DEF TypeInv, TypeOK
      <4>1. events \in Seq(1 .. MaxPush)
        BY DEF TypeInv, TypeOK
      <4>2. events' \in Seq(1 .. MaxPush) /\ Len(events') = Len(events) + 1
        BY <2>1, <3>1, <4>1, AppendProperties
      <4> QED
        BY <3>1, <4>1, <4>2, BufferAssumption, LenProperties
    <3>2. CASE UNCHANGED events
      BY <3>2
    <3> QED
      BY <1>1, <3>1, <3>2 DEF Push
  <2>3. droppedEvents' \in Nat
    BY <1>1 DEF Push
  <2> QED
    BY <1>1, <2>1, <2>2, <2>3
    DEF Push, DispatchHolds, collectorVars, senderVars, stopVars
<1>2. CASE CollectEvent
  <2>1. collector \notin InDispatch /\ TakeEvent("run")
    BY <1>2 DEF CollectEvent, InDispatch
  <2> QED
    BY <2>1, <1>p, TakeType
<1>3. CASE Tick
  <2>1. batch \in Batches
    BY <1>3, BufferAssumption DEF Tick, Batches
  <2>2. /\ out' \in Batches /\ batch' = <<>> /\ out' # <<>>
        /\ collector' = "dispatch" /\ phase' \in Phases
    BY <1>3, <1>p, <2>1, EnterType DEF Tick
  <2>3. batch' \in Seq(1 .. MaxPush) /\ Len(batch') < BatchSize
    BY <2>2, BufferAssumption
  <2> QED
    BY <1>3, <1>p, <2>2, <2>3 DEF Tick, DispatchHolds, InDispatch, senderVars, stopVars
<1>4. CASE SeeStop
  BY <1>4, <1>p DEF SeeStop, DispatchHolds, InDispatch, senderVars, stopVars
<1>5. ASSUME collector \in InDispatch, Handover PROVE TypeInv'
  <2>1. out \in Batches
    BY <1>5 DEF DispatchHolds
  <2>2. batches' \in Seq(Batches) /\ Len(batches') <= BatchSlots
    BY <1>5, <2>1, SlotsType DEF Handover, HasSlot
  <2>3. /\ out' = <<>> /\ batch' = batch /\ phase' = phase
        /\ collector' \in {"select", "drain", "close"}
    BY <1>5, LeaveType DEF Handover
  <2> QED
    BY <1>5, <1>p, <2>2, <2>3 DEF Handover, DispatchHolds, senderVars, stopVars
<1>6. ASSUME collector \in InDispatch, Abandon PROVE TypeInv'
  <2>1. /\ out' = <<>> /\ batch' = batch /\ phase' = phase
        /\ collector' \in {"select", "drain", "close"}
    BY <1>6, LeaveType DEF Abandon
  <2> QED
    BY <1>6, <1>p, <2>1 DEF Abandon, DispatchHolds, senderVars, stopVars
<1>7. CASE DispatchDefault \/ GaugeWait
  BY <1>7, <1>p DEF DispatchDefault, GaugeWait, DispatchHolds, InDispatch,
     senderVars, stopVars
<1>8. CASE GaugeDrop
  <2>1. /\ out' = <<>> /\ batch' = batch /\ phase' = phase
        /\ collector' \in {"select", "drain", "close"}
    BY <1>8, LeaveType DEF GaugeDrop
  <2>2. droppedBatches' \in Nat
    BY <1>8 DEF GaugeDrop
  <2> QED
    BY <1>8, <1>p, <2>1, <2>2 DEF GaugeDrop, DispatchHolds, senderVars, stopVars
<1>9. CASE Dispatch
  BY <1>5, <1>6, <1>7, <1>8, <1>9
  DEF Dispatch, DispatchSend, DispatchStop, WaitSend, WaitStop, InDispatch
<1>10. CASE DrainEvent
  <2>1. collector \notin InDispatch /\ TakeEvent("drain")
    BY <1>10 DEF DrainEvent, InDispatch
  <2> QED
    BY <2>1, <1>p, TakeType
<1>11. CASE DrainEmpty
  <2>1. CASE batch # <<>> /\ EnterDispatch(batch, "final")
    <3>1. batch \in Batches
      BY <2>1, BufferAssumption DEF Batches
    <3>2. /\ out' \in Batches /\ batch' = <<>> /\ out' # <<>>
          /\ collector' = "dispatch" /\ phase' \in Phases
      BY <2>1, <1>p, <3>1, EnterType
    <3>3. batch' \in Seq(1 .. MaxPush) /\ Len(batch') < BatchSize
      BY <3>2, BufferAssumption
    <3> QED
      BY <1>11, <1>p, <3>2, <3>3
      DEF DrainEmpty, DispatchHolds, InDispatch, senderVars, stopVars
  <2>2. CASE batch = <<>> /\ collector' = "close" /\ phase' = "final"
             /\ UNCHANGED <<batch, out>>
    BY <1>11, <1>p, <2>2 DEF DrainEmpty, DispatchHolds, InDispatch, senderVars, stopVars
  <2> QED
    BY <1>11, <2>1, <2>2 DEF DrainEmpty
<1>12. CASE CloseBatches
  BY <1>12, <1>p DEF CloseBatches, DispatchHolds, InDispatch, senderVars, stopVars
<1>13. ASSUME NEW s \in Senders, StartFlush(s) PROVE TypeInv'
  <2>1. /\ batches' \in Seq(Batches) /\ Len(batches') <= BatchSlots
        /\ Head(batches) \in Batches
    BY <1>13, SlotsType DEF StartFlush
  <2>2. inflight' \in [Senders -> Batches \cup {<<>>}]
    BY <1>13, <2>1 DEF StartFlush
  <2>3. sender' \in [Senders -> SenderStates]
    BY <1>13 DEF StartFlush, SenderStates
  <2> QED
    BY <1>13, <2>1, <2>2, <2>3 DEF StartFlush, DispatchHolds, collectorVars, stopVars
<1>14. ASSUME NEW s \in Senders, EndFlush(s) PROVE TypeInv'
  <2>1. Range(inflight[s]) \subseteq 1 .. MaxPush
    BY InflightType
  <2>2. inflight' \in [Senders -> Batches \cup {<<>>}]
    BY <1>14 DEF EndFlush
  <2>3. sender' \in [Senders -> SenderStates]
    BY <1>14 DEF EndFlush, SenderStates
  <2>4. sentBatches' \in Nat /\ flushed' \subseteq 1 .. MaxPush
    <3>1. sentBatches' = sentBatches + 1 /\ flushed' = flushed \cup Range(inflight[s])
      BY <1>14 DEF EndFlush
    <3>2. sentBatches \in Nat /\ flushed \subseteq 1 .. MaxPush
      OBVIOUS
    <3> HIDE DEF TypeInv, TypeOK
    <3>3. sentBatches' \in Nat
      BY <3>1, <3>2
    <3>4. flushed' \subseteq 1 .. MaxPush
      BY <3>1, <3>2, <2>1
    <3> QED
      BY <3>3, <3>4
  <2> QED
    BY <1>14, <2>2, <2>3, <2>4 DEF EndFlush, DispatchHolds, collectorVars, stopVars
<1>15. ASSUME NEW s \in Senders, ExitSender(s) PROVE TypeInv'
  <2>1. sender' \in [Senders -> SenderStates]
    BY <1>15 DEF ExitSender, SenderStates
  <2> QED
    BY <1>15, <2>1 DEF ExitSender, DispatchHolds, collectorVars, stopVars
<1>16. CASE BeginStop
  BY <1>16 DEF BeginStop, StopperStates, DispatchHolds, collectorVars, senderVars
<1>17. CASE JoinCollector \/ JoinSenders
  BY <1>17 DEF JoinCollector, JoinSenders, StopperStates, DispatchHolds,
     collectorVars, senderVars
<1>18. CASE UNCHANGED vars
  BY <1>18 DEF vars, collectorVars, senderVars, stopVars, DispatchHolds
<1> QED
  BY <1>1, <1>2, <1>3, <1>4, <1>9, <1>10, <1>11, <1>12, <1>13, <1>14, <1>15,
     <1>16, <1>17, <1>18
  DEF Next, Collector, Drain, Sender, Stop, Terminated

(***************************************************************************)
(* Every variable keeps its type and every channel and batch its capacity. *)
(***************************************************************************)
THEOREM TypeCorrect == Spec => []TypeOK
<1>1. Spec => []TypeInv
  BY TypeInit, TypeStep, PTL DEF Spec
<1>2. TypeInv => TypeOK
  BY DEF TypeInv
<1> QED
  BY <1>1, <1>2, PTL

-----------------------------------------------------------------------------
(* Shutdown.  Why the goroutines end in the right order: the collector     *)
(* leaves its main loop only on stopCh and the drain ends only with an     *)
(* empty channel; the egress channel is closed by the collector's last     *)
(* step; a sender ends only when the channel is closed and empty, and      *)
(* nothing can be sent on it after that.                                   *)
LoopInv ==
  /\ collector \in {"drain", "close", "done"} => phase # "run"
  /\ collector \in {"close", "done"} => phase = "final" /\ batch = <<>>
  /\ phase # "run" => stopped
  /\ stopped <=> stopper # "idle"
  /\ DrainNeverBlocks

PoolInv ==
  /\ batchesClosed <=> collector = "done"
  /\ stopper \in {"joinSenders", "returned"} => collector = "done"
  /\ \A s \in Senders : sender[s] = "exited" => batchesClosed /\ batches = <<>>
  /\ \A s \in Senders : inflight[s] # <<>> <=> sender[s] = "flush"
  /\ stopper = "returned" => \A s \in Senders : sender[s] = "exited"

MarkInv ==
  /\ stopMark <= pushed
  /\ phase = "final" => \A n \in Range(events) : n > stopMark

StopInv == TypeInv /\ LoopInv /\ PoolInv /\ MarkInv

LEMMA StopInit == Init => StopInv
<1> SUFFICES ASSUME Init PROVE StopInv
  OBVIOUS
<1>1. TypeInv
  BY TypeInit
<1>2. LoopInv
  BY DEF Init, LoopInv, DrainNeverBlocks
<1>3. PoolInv
  BY DEF Init, PoolInv
<1>4. MarkInv
  BY DEF Init, MarkInv
<1> QED
  BY <1>1, <1>2, <1>3, <1>4 DEF StopInv

LEMMA LoopStep == TypeInv /\ LoopInv /\ [Next]_vars => LoopInv'
<1> SUFFICES ASSUME TypeInv, LoopInv, [Next]_vars PROVE LoopInv'
  OBVIOUS
<1> USE DEF LoopInv, DrainNeverBlocks
<1>t. /\ collector \in InDispatch => batch = <<>>
      /\ phase \in Phases /\ stopped \in BOOLEAN
  BY DEF TypeInv, TypeOK, DispatchHolds
<1>1. CASE CollectEvent \/ Tick \/ SeeStop
  BY <1>1, <1>t DEF CollectEvent, Tick, SeeStop, TakeEvent, EnterDispatch, stopVars
<1>2. CASE Dispatch
  <2>1. ASSUME LeaveDispatch, collector \in InDispatch, UNCHANGED stopVars
        PROVE  LoopInv'
    BY <1>t, <2>1 DEF LeaveDispatch, Phases, stopVars
  <2>2. CASE DispatchDefault \/ GaugeWait
    BY <1>t, <2>2 DEF DispatchDefault, GaugeWait, stopVars
  <2> QED
    BY <1>2, <2>1, <2>2 DEF Dispatch, DispatchSend, DispatchStop, GaugeDrop, WaitSend,
       WaitStop, Handover, Abandon, InDispatch
<1>3. CASE Drain
  BY <1>3, <1>t DEF Drain, DrainEvent, DrainEmpty, CloseBatches, TakeEvent,
     EnterDispatch, stopVars
<1>4. CASE Push \/ \E s \in Senders : Sender(s)
  BY <1>4 DEF Push, Sender, StartFlush, EndFlush, ExitSender, collectorVars, stopVars
<1>5. CASE Stop
  BY <1>5 DEF Stop, BeginStop, JoinCollector, JoinSenders, collectorVars
<1>6. CASE UNCHANGED vars
  BY <1>6 DEF vars, collectorVars, stopVars
<1> QED
  BY <1>1, <1>2, <1>3, <1>4, <1>5, <1>6 DEF Next, Collector, Terminated

LEMMA PoolStep == TypeInv /\ PoolInv /\ [Next]_vars => PoolInv'
<1> SUFFICES ASSUME TypeInv, PoolInv, [Next]_vars PROVE PoolInv'
  OBVIOUS
<1> USE DEF PoolInv
<1>t. /\ sender \in [Senders -> SenderStates] /\ batchesClosed \in BOOLEAN
      /\ inflight \in [Senders -> Batches \cup {<<>>}]
      /\ batches # <<>> => Head(batches) # <<>>
  BY HeadAndTail DEF TypeInv, TypeOK, Batches
<1>1. CASE CollectEvent \/ Tick \/ SeeStop \/ DrainEvent \/ DrainEmpty
  BY <1>1 DEF CollectEvent, Tick, SeeStop, DrainEvent, DrainEmpty, TakeEvent,
     EnterDispatch, senderVars, stopVars
<1>2. CASE Dispatch
  <2>1. collector \in InDispatch /\ collector' # "done"
    BY <1>2 DEF Dispatch, DispatchSend, DispatchStop, DispatchDefault, GaugeWait,
       GaugeDrop, WaitSend, WaitStop, Handover, Abandon, LeaveDispatch, InDispatch,
       TypeInv, TypeOK, Phases
  <2>2. UNCHANGED <<batchesClosed, senderVars, stopVars>>
    BY <1>2 DEF Dispatch, DispatchSend, DispatchStop, DispatchDefault, GaugeWait,
       GaugeDrop, WaitSend, WaitStop, Handover, Abandon
  <2> QED
    BY <2>1, <2>2 DEF senderVars, stopVars, InDispatch
<1>3. CASE CloseBatches
  BY <1>3 DEF CloseBatches, senderVars, stopVars
<1>4. CASE Push
  BY <1>4 DEF Push, collectorVars, senderVars, stopVars
<1>5. ASSUME NEW s \in Senders, Sender(s) PROVE PoolInv'
  <2>1. CASE StartFlush(s)
    BY <1>t, <2>1 DEF StartFlush, collectorVars, stopVars, SenderStates
  <2>2. CASE EndFlush(s)
    BY <1>t, <2>2 DEF EndFlush, collectorVars, stopVars, SenderStates
  <2>3. CASE ExitSender(s)
    BY <1>t, <2>3 DEF ExitSender, collectorVars, stopVars, SenderStates
  <2> QED
    BY <1>5, <2>1, <2>2, <2>3 DEF Sender
<1>6. CASE Stop
  BY <1>6 DEF Stop, BeginStop, JoinCollector, JoinSenders, collectorVars, senderVars
<1>7. CASE UNCHANGED vars
  BY <1>7 DEF vars, collectorVars, senderVars, stopVars
<1> QED
  BY <1>1, <1>2, <1>3, <1>4, <1>5, <1>6, <1>7 DEF Next, Collector, Drain, Terminated

LEMMA MarkStep == StopInv /\ [Next]_vars => MarkInv'
<1> SUFFICES ASSUME StopInv, [Next]_vars PROVE MarkInv'
  OBVIOUS
<1> USE DEF MarkInv
<1>t. /\ pushed \in Nat /\ stopMark \in Nat /\ stopMark <= pushed
      /\ events \in Seq(1 .. MaxPush) /\ pushed \in 0 .. MaxPush
      /\ phase = "final" => \A n \in Range(events) : n > stopMark
      /\ collector \in {"drain", "close", "done"} => phase # "run"
      /\ stopper = "idle" => phase = "run"
      /\ stopper # "idle" => phase \in Phases
  BY BufferAssumption DEF StopInv, TypeInv, TypeOK, LoopInv
<1>1. CASE Push
  <2>1. CASE Len(events) < ChannelSize /\ events' = Append(events, pushed + 1)
    <3>1. pushed + 1 \in 1 .. MaxPush
      BY <1>1, <1>t, BufferAssumption DEF Push
    <3>2. Range(events') = Range(events) \cup {pushed + 1}
      BY <1>t, <2>1, <3>1, RangeOfAppend
    <3> QED
      BY <1>1, <1>t, <3>2 DEF Push, collectorVars, stopVars
  <2>2. CASE UNCHANGED events
    BY <1>1, <1>t, <2>2 DEF Push, collectorVars, stopVars
  <2> QED
    BY <1>1, <2>1, <2>2 DEF Push
<1>2. ASSUME NEW p \in {"run", "drain"}, TakeEvent(p) PROVE MarkInv'
  <2>1. Range(events') \subseteq Range(events)
    BY <1>2, <1>t, RangeOfTail DEF TakeEvent
  <2>2. phase' = "final" => phase = "final"
    BY <1>2 DEF TakeEvent, EnterDispatch
  <2> QED
    BY <1>2, <1>t, <2>1, <2>2 DEF TakeEvent, stopVars
<1>3. CASE DrainEmpty
  BY <1>3, <1>t, RangeOfEmpty DEF DrainEmpty, EnterDispatch, stopVars
<1>4. CASE BeginStop
  BY <1>4, <1>t DEF BeginStop, collectorVars
<1>5. CASE Tick \/ SeeStop \/ CloseBatches
  BY <1>5, <1>t DEF Tick, SeeStop, CloseBatches, EnterDispatch, stopVars
<1>6. CASE Dispatch
  BY <1>6, <1>t DEF Dispatch, DispatchSend, DispatchStop, DispatchDefault, GaugeWait,
     GaugeDrop, WaitSend, WaitStop, Handover, Abandon, LeaveDispatch, stopVars
<1>7. CASE (\E s \in Senders : Sender(s)) \/ JoinCollector \/ JoinSenders
  BY <1>7, <1>t DEF Sender, StartFlush, EndFlush, ExitSender, JoinCollector,
     JoinSenders, collectorVars, stopVars
<1>8. CASE UNCHANGED vars
  BY <1>8, <1>t DEF vars, collectorVars, stopVars
<1> QED
  BY <1>1, <1>2, <1>3, <1>4, <1>5, <1>6, <1>7, <1>8
  DEF Next, Collector, Drain, Stop, Terminated, CollectEvent, DrainEvent

LEMMA StopStep == StopInv /\ [Next]_vars => StopInv'
  BY TypeStep, LoopStep, PoolStep, MarkStep DEF StopInv

LEMMA StopCorrect == Spec => []StopInv
  BY StopInit, StopStep, PTL DEF Spec

(***************************************************************************)
(* Stop's joins are complete: once it has returned nothing is queued or    *)
(* in flight, the egress channel is closed and every sender has ended.     *)
(***************************************************************************)
THEOREM StopDrainsThm == Spec => []StopDrains
<1>1. StopInv => StopDrains
  <2> SUFFICES ASSUME StopInv, stopper = "returned" PROVE StopDrains
    BY DEF StopDrains
  <2>1. /\ collector = "done" /\ batchesClosed
        /\ \A s \in Senders : sender[s] = "exited" /\ inflight[s] = <<>>
        /\ batches = <<>> /\ batch = <<>> /\ out = <<>>
    BY BufferAssumption DEF StopInv, TypeInv, DispatchHolds, InDispatch, LoopInv, PoolInv
  <2>2. InEgress = {}
    BY <2>1 DEF InEgress
  <2>3. InSenders = {}
    BY <2>1, RangeOfEmpty DEF InSenders
  <2> QED
    BY <2>1, <2>2, <2>3, RangeOfEmpty DEF StopDrains, Collected
<1> QED
  BY <1>1, StopCorrect, PTL

(***************************************************************************)
(* The drain loop leaves in the ingress channel nothing older than Stop.   *)
(***************************************************************************)
THEOREM DrainIsCompleteThm == Spec => []DrainIsComplete
<1>1. StopInv => DrainIsComplete
  BY DEF StopInv, LoopInv, MarkInv, DrainIsComplete
<1> QED
  BY <1>1, StopCorrect, PTL

(***************************************************************************)
(* A draining collector never waits for a slot in the egress channel.      *)
(***************************************************************************)
THEOREM DrainNeverBlocksThm == Spec => []DrainNeverBlocks
<1>1. StopInv => DrainNeverBlocks
  BY DEF StopInv, LoopInv
<1> QED
  BY <1>1, StopCorrect, PTL

-----------------------------------------------------------------------------
(* Order.  What each communication does to the sets of events in the four  *)
(* stages: the ingress channel, the collector, the egress channel and the  *)
(* senders.                                                                *)
InCollector == Range(batch) \cup Range(out)

(* No event is on its way, or has been flushed, before it is pushed.       *)
PushedFirst == Resident \cup flushed \subseteq 1 .. pushed

OrderInv == StopInv /\ PipelineOrder /\ PushedFirst

LEMMA OrderInit == Init => OrderInv
<1> SUFFICES ASSUME Init PROVE OrderInv
  OBVIOUS
<1>1. /\ Range(batch) = {} /\ Range(out) = {} /\ Range(events) = {}
      /\ InEgress = {} /\ flushed = {} /\ batches = <<>>
      /\ \A s \in Senders : inflight[s] = <<>>
  BY RangeOfEmpty DEF Init, InEgress
<1>2. \A s \in Senders : Range(inflight[s]) = {} /\ Increasing(inflight[s])
  BY <1>1, RangeOfEmpty, IncreasingEmpty
<1>3. InSenders = {}
  BY <1>2 DEF InSenders
<1>4. PipelineOrder
  BY <1>1, <1>2, <1>3, IncreasingEmpty DEF PipelineOrder, Precedes, Init
<1>5. PushedFirst
  BY <1>1, <1>3 DEF PushedFirst, Resident, Collected
<1> QED
  BY <1>4, <1>5, StopInit DEF OrderInv

(* The types the order lemmas need, without the rest of the invariant.     *)
LEMMA OrderTypes ==
  ASSUME TypeInv
  PROVE  /\ events \in Seq(1 .. MaxPush) /\ batch \in Seq(1 .. MaxPush)
         /\ out \in Seq(1 .. MaxPush) /\ batches \in Seq(Batches)
         /\ \A s \in Senders : inflight[s] \in Seq(1 .. MaxPush)
         /\ events \in Seq(Nat) /\ batch \in Seq(Nat) /\ out \in Seq(Nat)
         /\ pushed \in 0 .. MaxPush /\ pushed \in Nat /\ flushed \subseteq Nat
         /\ Range(events) \subseteq Nat /\ InCollector \subseteq Nat
         /\ InEgress \subseteq Nat /\ InSenders \subseteq Nat
<1>1. /\ events \in Seq(1 .. MaxPush) /\ batch \in Seq(1 .. MaxPush)
      /\ batches \in Seq(Batches) /\ pushed \in 0 .. MaxPush
      /\ flushed \subseteq 1 .. MaxPush /\ out \in Batches \cup {<<>>}
  BY DEF TypeInv, TypeOK
<1>2. out \in Seq(1 .. MaxPush)
  <2>1. CASE out \in Batches
    BY <2>1 DEF Batches
  <2>2. CASE out = <<>>
    BY <2>2
  <2> QED
    BY <1>1, <2>1, <2>2
<1>3. \A k \in DOMAIN batches : batches[k] \in Seq(1 .. MaxPush)
  <2>1. \A k \in DOMAIN batches : batches[k] \in Batches
    BY <1>1, LenProperties
  <2> QED
    BY <2>1 DEF Batches
<1>4. 1 .. MaxPush \subseteq Nat /\ 0 .. MaxPush \subseteq Nat
  BY BufferAssumption
<1>5. /\ Range(events) \subseteq 1 .. MaxPush
      /\ Range(batch) \subseteq 1 .. MaxPush /\ Range(out) \subseteq 1 .. MaxPush
  BY <1>1, <1>2, RangeOfSeq
<1>6. InEgress \subseteq 1 .. MaxPush
  BY <1>3, RangeOfSeq DEF InEgress
<1>7. InSenders \subseteq 1 .. MaxPush
  BY InflightType DEF InSenders
<1>8. /\ events \in Seq(Nat) /\ batch \in Seq(Nat) /\ out \in Seq(Nat)
  BY <1>1, <1>2, SeqOfNat
<1>9. \A s \in Senders : inflight[s] \in Seq(1 .. MaxPush)
  BY InflightType
<1> QED
  BY <1>1, <1>2, <1>4, <1>5, <1>6, <1>7, <1>8, <1>9 DEF InCollector

(* Sending on and receiving from the egress channel.                       *)
LEMMA EgressAppend ==
  ASSUME TypeInv, NEW b \in Batches, batches' = Append(batches, b)
  PROVE  /\ InEgress' = InEgress \cup Range(b)
         /\ DOMAIN batches' = DOMAIN batches \cup {Len(batches) + 1}
         /\ \A k \in DOMAIN batches : batches'[k] = batches[k] /\ k < Len(batches) + 1
         /\ batches'[Len(batches) + 1] = b
         /\ DOMAIN batches \subseteq Nat
<1>1. batches \in Seq(Batches)
  BY OrderTypes
<1>2. /\ Len(batches) \in Nat /\ DOMAIN batches = 1 .. Len(batches)
      /\ Len(batches') = Len(batches) + 1 /\ DOMAIN batches' = 1 .. Len(batches')
      /\ \A k \in 1 .. Len(batches) : batches'[k] = batches[k]
      /\ batches'[Len(batches) + 1] = b
  <2>1. batches' \in Seq(Batches)
    BY <1>1
  <2> QED
    BY <1>1, <2>1, AppendProperties, LenProperties
<1>3. DOMAIN batches' = DOMAIN batches \cup {Len(batches) + 1}
  BY <1>2
<1>4. InEgress' = InEgress \cup Range(b)
  BY <1>2, <1>3 DEF InEgress
<1> QED
  BY <1>2, <1>3, <1>4

LEMMA EgressTail ==
  ASSUME TypeInv, batches # <<>>, batches' = Tail(batches)
  PROVE  /\ InEgress = Range(Head(batches)) \cup InEgress'
         /\ Head(batches) = batches[1] /\ 1 \in DOMAIN batches
         /\ \A k \in DOMAIN batches' :
              k \in Nat \ {0} /\ k + 1 \in DOMAIN batches /\ batches'[k] = batches[k + 1]
<1>1. batches \in Seq(Batches)
  BY OrderTypes
<1>2. /\ batches' \in Seq(Batches) /\ Len(batches') = Len(batches) - 1
      /\ Len(batches) \in Nat \ {0} /\ Head(batches) = batches[1]
      /\ \A k \in 1 .. Len(batches') : batches'[k] = batches[k + 1]
  BY <1>1, HeadAndTail
<1>3. DOMAIN batches = 1 .. Len(batches) /\ DOMAIN batches' = 1 .. Len(batches')
  BY <1>1, <1>2, LenProperties
<1>4. \A k \in DOMAIN batches' :
        k \in Nat \ {0} /\ k + 1 \in DOMAIN batches /\ batches'[k] = batches[k + 1]
  BY <1>2, <1>3
<1>5. \A k \in DOMAIN batches : k = 1 \/ (k - 1 \in DOMAIN batches' /\ batches[k] = batches'[k - 1])
  BY <1>2, <1>3
<1>6. ASSUME NEW n \in InEgress PROVE n \in Range(Head(batches)) \cup InEgress'
  <2>1. PICK k \in DOMAIN batches : n \in Range(batches[k])
    BY DEF InEgress
  <2>2. CASE k = 1
    BY <1>2, <2>1, <2>2
  <2>3. CASE k # 1
    BY <1>5, <2>1, <2>3 DEF InEgress
  <2> QED
    BY <2>2, <2>3
<1>7. Range(Head(batches)) \cup InEgress' \subseteq InEgress
  BY <1>2, <1>3, <1>4 DEF InEgress
<1> QED
  BY <1>2, <1>3, <1>4, <1>6, <1>7

(* PipelineOrder with its stages named, as the steps use it.               *)
LEMMA OrderParts ==
  PipelineOrder <=>
    /\ Increasing(events) /\ Increasing(batch) /\ Increasing(out)
    /\ \A k \in DOMAIN batches : Increasing(batches[k])
    /\ \A s \in Senders : Increasing(inflight[s])
    /\ Precedes(InCollector, Range(events))
    /\ Precedes(InEgress, InCollector) /\ Precedes(InEgress, Range(events))
    /\ \A k, l \in DOMAIN batches : k < l => Precedes(Range(batches[k]), Range(batches[l]))
    /\ Precedes(InSenders \cup flushed, InEgress)
    /\ Precedes(InSenders \cup flushed, InCollector)
    /\ Precedes(InSenders \cup flushed, Range(events))
    /\ \A s, t \in Senders : s # t => Range(inflight[s]) \cap Range(inflight[t]) = {}
    /\ InSenders \cap flushed = {}
  BY DEF PipelineOrder, InCollector, Precedes

LEMMA PushedFirstParts ==
  PushedFirst <=>
    /\ Range(events) \subseteq 1 .. pushed /\ InCollector \subseteq 1 .. pushed
    /\ InEgress \subseteq 1 .. pushed /\ InSenders \subseteq 1 .. pushed
    /\ flushed \subseteq 1 .. pushed
  BY DEF PushedFirst, Resident, Collected, InCollector

(* Push appends the largest number so far.                                 *)
LEMMA OrderPush == OrderInv /\ Push => PipelineOrder' /\ PushedFirst'
<1> SUFFICES ASSUME OrderInv, Push PROVE PipelineOrder' /\ PushedFirst'
  OBVIOUS
<1>t. TypeInv /\ PipelineOrder /\ PushedFirst
  BY DEF OrderInv, StopInv
<1>1. /\ pushed' = pushed + 1 /\ pushed + 1 \in 1 .. MaxPush /\ pushed \in Nat
      /\ UNCHANGED <<batch, out, batches, inflight, flushed>>
  BY <1>t, BufferAssumption DEF Push, collectorVars, senderVars, TypeInv, TypeOK
<1>2. UNCHANGED <<InCollector, InEgress, InSenders>>
  BY <1>1 DEF InCollector, InEgress, InSenders
<1>3. /\ Range(events') \subseteq Range(events) \cup {pushed + 1}
      /\ Increasing(events')
  <2>1. CASE events' = Append(events, pushed + 1)
    <3>1. events \in Seq(1 .. MaxPush) /\ events \in Seq(Nat)
      BY <1>t, OrderTypes
    <3>2. Range(events') = Range(events) \cup {pushed + 1}
      BY <1>1, <2>1, <3>1, RangeOfAppend
    <3>3. Increasing(events) /\ Precedes(Range(events), {pushed + 1})
      BY <1>t, <1>1, OrderParts, PushedFirstParts DEF Precedes
    <3>4. Increasing(events')
      BY <1>1, <2>1, <3>1, <3>3, IncreasingAppend
    <3> QED
      BY <3>2, <3>4
  <2>2. CASE UNCHANGED events
    BY <2>2, <1>t, OrderParts
  <2> QED
    BY <2>1, <2>2 DEF Push
<1>4. PushedFirst'
  <2>1. 1 .. pushed' = (1 .. pushed) \cup {pushed + 1}
    BY <1>1
  <2> QED
    BY <1>t, <1>1, <1>2, <1>3, <2>1, PushedFirstParts
       DEF PushedFirst, Resident, Collected, InCollector
<1>5. \A n \in InCollector \cup InEgress \cup InSenders \cup flushed : n < pushed + 1
  BY <1>t, <1>1, PushedFirstParts
<1>6. PipelineOrder'
  <2>1. Precedes(InCollector, Range(events'))
    BY <1>t, <1>3, <1>5, OrderParts DEF Precedes
  <2>2. Precedes(InEgress, Range(events'))
    BY <1>t, <1>3, <1>5, OrderParts DEF Precedes
  <2>3. Precedes(InSenders \cup flushed, Range(events'))
    BY <1>t, <1>3, <1>5, OrderParts DEF Precedes
  <2> QED
    BY <1>t, <1>1, <1>2, <1>3, <2>1, <2>2, <2>3, OrderParts
    DEF PipelineOrder, Precedes, InCollector
<1> QED
  BY <1>4, <1>6

(* Taking an event moves the oldest one from the channel to the collector. *)
LEMMA OrderTake ==
  ASSUME OrderInv, NEW p, TakeEvent(p), collector \notin InDispatch
  PROVE  PipelineOrder' /\ PushedFirst'
<1> DEFINE h == Head(events)
           b == Append(batch, h)
<1>t. /\ TypeInv /\ PipelineOrder /\ PushedFirst /\ out = <<>>
  BY DEF OrderInv, StopInv, TypeInv, DispatchHolds
<1>1. /\ events # <<>> /\ events' = Tail(events)
      /\ UNCHANGED <<batches, inflight, flushed, pushed>>
      /\ \/ out' = b /\ batch' = <<>>
         \/ out' = out /\ batch' = b
  BY DEF TakeEvent, EnterDispatch, senderVars
<1>2. /\ events \in Seq(1 .. MaxPush) /\ events \in Seq(Nat)
      /\ batch \in Seq(1 .. MaxPush) /\ batch \in Seq(Nat)
      /\ Range(events) \subseteq Nat /\ InCollector \subseteq Nat /\ InEgress \subseteq Nat
      /\ InSenders \cup flushed \subseteq Nat
  BY <1>t, OrderTypes
<1>3. h \in 1 .. MaxPush /\ h \in Nat
  BY <1>1, <1>2, HeadAndTail
<1>4. Range(events) = {h} \cup Range(events')
  BY <1>1, <1>2, RangeOfTail
<1>5. Increasing(events') /\ Precedes({h}, Range(events'))
  BY <1>t, <1>1, <1>2, OrderParts, IncreasingTail
<1>6. InCollector = Range(batch)
  BY <1>t, RangeOfEmpty DEF InCollector
<1>7. Range(b) = Range(batch) \cup {h}
  BY <1>2, <1>3, RangeOfAppend
<1>8. Increasing(b)
  <2>1. Precedes(Range(batch), {h})
    BY <1>t, <1>4, <1>6, OrderParts DEF Precedes
  <2> QED
    BY <1>t, <1>2, <1>3, <2>1, OrderParts, IncreasingAppend
<1> HIDE DEF b, h
<1>9. /\ InCollector' = InCollector \cup {h}
      /\ Increasing(batch') /\ Increasing(out')
  <2>1. CASE out' = b /\ batch' = <<>>
    BY <2>1, <1>6, <1>7, <1>8, RangeOfEmpty, IncreasingEmpty DEF InCollector
  <2>2. CASE out' = out /\ batch' = b
    BY <2>2, <1>t, <1>6, <1>7, <1>8, RangeOfEmpty, IncreasingEmpty DEF InCollector
  <2> QED
    BY <1>1, <2>1, <2>2
<1>10. UNCHANGED <<InEgress, InSenders>>
  BY <1>1 DEF InEgress, InSenders
<1>11. PushedFirst'
  BY <1>t, <1>1, <1>4, <1>9, <1>10, PushedFirstParts
  DEF PushedFirst, Resident, Collected, InCollector
<1>12. PipelineOrder'
  <2>1. Precedes(InCollector', Range(events'))
    BY <1>t, <1>4, <1>5, <1>9, OrderParts DEF Precedes
  <2>2. Precedes(InEgress, InCollector') /\ Precedes(InEgress, Range(events'))
    BY <1>t, <1>4, <1>9, OrderParts DEF Precedes
  <2>3. /\ Precedes(InSenders \cup flushed, InCollector')
        /\ Precedes(InSenders \cup flushed, Range(events'))
    BY <1>t, <1>4, <1>9, OrderParts DEF Precedes
  <2> QED
    BY <1>t, <1>1, <1>5, <1>9, <1>10, <2>1, <2>2, <2>3, OrderParts
    DEF PipelineOrder, Precedes, InCollector
<1> QED
  BY <1>11, <1>12

(* The batch becomes the copy, unchanged: no event moves between stages.   *)
LEMMA OrderEnter ==
  ASSUME OrderInv, collector \notin InDispatch, NEW p, EnterDispatch(batch, p),
         UNCHANGED <<events, batches, inflight, flushed, pushed>>
  PROVE  PipelineOrder' /\ PushedFirst'
<1>t. TypeInv /\ PipelineOrder /\ PushedFirst /\ out = <<>>
  BY DEF OrderInv, StopInv, TypeInv, DispatchHolds
<1>1. UNCHANGED <<InEgress, InSenders, InCollector>>
  BY <1>t, RangeOfEmpty DEF InEgress, InSenders, InCollector, EnterDispatch
<1>2. Increasing(batch') /\ Increasing(out')
  BY <1>t, IncreasingEmpty, OrderParts DEF EnterDispatch
<1>3. PipelineOrder'
  BY <1>t, <1>1, <1>2, OrderParts DEF PipelineOrder, Precedes, InCollector
<1>4. PushedFirst'
  BY <1>t, <1>1, PushedFirstParts DEF PushedFirst, Resident, Collected, InCollector
<1> QED
  BY <1>3, <1>4

(* The copy joins the end of the egress channel.                           *)
LEMMA OrderHandover ==
  ASSUME OrderInv, collector \in InDispatch, Handover
  PROVE  PipelineOrder' /\ PushedFirst'
<1>t. TypeInv /\ PipelineOrder /\ PushedFirst /\ batch = <<>> /\ out \in Batches
  BY DEF OrderInv, StopInv, TypeInv, TypeOK, DispatchHolds
<1>1. /\ batches' = Append(batches, out) /\ out' = <<>> /\ batch' = <<>>
      /\ UNCHANGED <<events, inflight, flushed, pushed>>
  BY <1>t DEF Handover, LeaveDispatch, senderVars
<1>2. InCollector = Range(out) /\ InCollector' = {} /\ UNCHANGED InSenders
  BY <1>t, <1>1, RangeOfEmpty DEF InCollector, InSenders
<1>3. InEgress' = InEgress \cup InCollector
  BY <1>t, <1>1, <1>2, EgressAppend
<1>4. \A k \in DOMAIN batches' : Increasing(batches'[k])
  BY <1>t, <1>1, EgressAppend, OrderParts
<1>5. \A k, l \in DOMAIN batches' : k < l => Precedes(Range(batches'[k]), Range(batches'[l]))
  <2> SUFFICES ASSUME NEW k \in DOMAIN batches', NEW l \in DOMAIN batches', k < l
               PROVE  Precedes(Range(batches'[k]), Range(batches'[l]))
    OBVIOUS
  <2>1. Len(batches) \in Nat
    BY <1>t, OrderTypes, LenProperties
  <2>2. k \in DOMAIN batches /\ batches'[k] = batches[k]
    BY <1>t, <1>1, <2>1, EgressAppend
  <2>3. CASE l \in DOMAIN batches
    <3>1. batches'[l] = batches[l]
      BY <1>t, <1>1, <2>3, EgressAppend
    <3> QED
      BY <1>t, <2>2, <2>3, <3>1, OrderParts
  <2>4. CASE l = Len(batches) + 1
    <3>1. batches'[l] = out
      BY <1>t, <1>1, <2>4, EgressAppend
    <3>2. Range(batches[k]) \subseteq InEgress
      BY <2>2 DEF InEgress
    <3> QED
      BY <1>t, <1>2, <2>2, <3>1, <3>2, OrderParts DEF Precedes
  <2> QED
    BY <1>t, <1>1, <2>3, <2>4, EgressAppend
<1>6. PipelineOrder'
  <2>1. Precedes(InEgress', Range(events)) /\ Precedes(InSenders \cup flushed, InEgress')
    BY <1>t, <1>3, OrderParts DEF Precedes
  <2> QED
    BY <1>t, <1>1, <1>2, <1>4, <1>5, <2>1, OrderParts, IncreasingEmpty, RangeOfEmpty
    DEF PipelineOrder, Precedes
<1>7. PushedFirst'
  BY <1>t, <1>1, <1>2, <1>3, PushedFirstParts, RangeOfEmpty
  DEF PushedFirst, Resident, Collected
<1> QED
  BY <1>6, <1>7

(* The copy is given up: its events are nowhere any more.                  *)
LEMMA OrderLeave ==
  ASSUME OrderInv, LeaveDispatch, collector \in InDispatch,
         UNCHANGED <<events, batches, inflight, flushed, pushed>>
  PROVE  PipelineOrder' /\ PushedFirst'
<1>t. TypeInv /\ PipelineOrder /\ PushedFirst /\ batch = <<>>
  BY DEF OrderInv, StopInv, TypeInv, DispatchHolds
<1>1. /\ InCollector' = {} /\ UNCHANGED <<InEgress, InSenders>>
      /\ batch' = <<>> /\ out' = <<>>
  BY <1>t, RangeOfEmpty DEF InCollector, LeaveDispatch, InEgress, InSenders
<1>2. PipelineOrder'
  BY <1>t, <1>1, OrderParts, IncreasingEmpty, RangeOfEmpty DEF PipelineOrder, Precedes
<1>3. PushedFirst'
  BY <1>t, <1>1, PushedFirstParts, RangeOfEmpty DEF PushedFirst, Resident, Collected
<1> QED
  BY <1>2, <1>3

(* The head of the egress channel goes to an idle sender.                  *)
LEMMA OrderStartFlush ==
  ASSUME OrderInv, NEW s \in Senders, StartFlush(s)
  PROVE  PipelineOrder' /\ PushedFirst'
<1> DEFINE H == Range(batches[1])
<1>t. /\ TypeInv /\ PipelineOrder /\ PushedFirst
      /\ inflight[s] = <<>>
      /\ inflight \in [Senders -> Batches \cup {<<>>}]
  BY DEF OrderInv, StopInv, PoolInv, TypeInv, TypeOK, StartFlush
<1>1. /\ batches # <<>> /\ batches' = Tail(batches)
      /\ UNCHANGED <<events, batch, out, flushed, pushed>>
      /\ InEgress = H \cup InEgress'
      /\ 1 \in DOMAIN batches /\ Head(batches) = batches[1]
      /\ \A k \in DOMAIN batches' :
           k \in Nat \ {0} /\ k + 1 \in DOMAIN batches /\ batches'[k] = batches[k + 1]
  BY <1>t, EgressTail DEF StartFlush, collectorVars
<1>2. /\ inflight'[s] = batches[1]
      /\ \A t \in Senders : t # s => inflight'[t] = inflight[t]
  BY <1>t, <1>1 DEF StartFlush
<1>3. InSenders' = InSenders \cup H
  BY <1>t, <1>2, RangeOfEmpty DEF InSenders
<1>4. UNCHANGED InCollector
  BY <1>1 DEF InCollector
<1>5. Precedes(H, InEgress')
  <2>1. ASSUME NEW k \in DOMAIN batches' PROVE Precedes(H, Range(batches'[k]))
    <3>1. k + 1 \in DOMAIN batches /\ 1 < k + 1 /\ batches'[k] = batches[k + 1]
      BY <1>1
    <3> QED
      BY <1>t, <1>1, <3>1, OrderParts
  <2> QED
    BY <2>1 DEF Precedes, InEgress
<1>6. /\ \A k \in DOMAIN batches' : Increasing(batches'[k])
      /\ \A t \in Senders : Increasing(inflight'[t])
  BY <1>t, <1>1, <1>2, OrderParts
<1>7. \A k, l \in DOMAIN batches' : k < l => Precedes(Range(batches'[k]), Range(batches'[l]))
  <2> SUFFICES ASSUME NEW k \in DOMAIN batches', NEW l \in DOMAIN batches', k < l
               PROVE  Precedes(Range(batches'[k]), Range(batches'[l]))
    OBVIOUS
  <2>1. /\ k + 1 \in DOMAIN batches /\ batches'[k] = batches[k + 1]
        /\ l + 1 \in DOMAIN batches /\ batches'[l] = batches[l + 1]
        /\ k + 1 < l + 1
    BY <1>1
  <2> QED
    BY <1>t, <2>1, OrderParts
<1>8. (InSenders \cup flushed) \cap H = {}
  <2>1. InSenders \cup flushed \subseteq Nat
    BY <1>t, OrderTypes
  <2>2. Precedes(InSenders \cup flushed, InEgress) /\ H \subseteq InEgress
    BY <1>t, <1>1, OrderParts
  <2> QED
    BY <2>1, <2>2 DEF Precedes
<1>9. /\ \A t, u \in Senders : t # u => Range(inflight'[t]) \cap Range(inflight'[u]) = {}
      /\ InSenders' \cap flushed' = {}
  <2>1. \A t \in Senders : Range(inflight[t]) \subseteq InSenders
    BY DEF InSenders
  <2>2. ASSUME NEW t \in Senders, NEW u \in Senders, t # u
        PROVE  Range(inflight'[t]) \cap Range(inflight'[u]) = {}
    BY <1>t, <1>2, <1>8, <2>1, <2>2, OrderParts
  <2>3. InSenders' \cap flushed' = {}
    BY <1>t, <1>1, <1>3, <1>8, OrderParts
  <2> QED
    BY <2>2, <2>3
<1>10. /\ Precedes(InSenders' \cup flushed', InEgress')
       /\ Precedes(InSenders' \cup flushed', InCollector)
       /\ Precedes(InSenders' \cup flushed', Range(events))
       /\ Precedes(InEgress', InCollector) /\ Precedes(InEgress', Range(events))
  <2>1. flushed' = flushed
    BY <1>1
  <2> QED
    BY <1>t, <1>1, <1>3, <1>5, <2>1, OrderParts DEF Precedes
<1>11. PipelineOrder'
  <2> HIDE DEF H
  <2> QED
    BY <1>t, <1>1, <1>4, <1>6, <1>7, <1>9, <1>10, OrderParts
    DEF PipelineOrder, Precedes, InCollector
<1>12. PushedFirst'
  BY <1>t, <1>1, <1>3, <1>4, PushedFirstParts
  DEF PushedFirst, Resident, Collected, InCollector
<1> QED
  BY <1>11, <1>12

(* A sender's batch becomes flushed.                                       *)
LEMMA OrderEndFlush ==
  ASSUME OrderInv, NEW s \in Senders, EndFlush(s)
  PROVE  PipelineOrder' /\ PushedFirst'
<1>t. /\ TypeInv /\ PipelineOrder /\ PushedFirst
      /\ inflight \in [Senders -> Batches \cup {<<>>}]
  BY DEF OrderInv, StopInv, TypeInv, TypeOK
<1>1. /\ UNCHANGED <<events, batches, batch, out, pushed>>
      /\ flushed' = flushed \cup Range(inflight[s])
      /\ inflight'[s] = <<>>
      /\ \A t \in Senders : t # s => inflight'[t] = inflight[t]
  BY <1>t DEF EndFlush, collectorVars
<1>2. UNCHANGED <<InCollector, InEgress>>
  BY <1>1 DEF InCollector, InEgress
<1>3. Range(inflight[s]) \subseteq InSenders
  BY DEF InSenders
<1>4. \A n \in InSenders' : \E t \in Senders : t # s /\ n \in Range(inflight[t])
  BY <1>1, RangeOfEmpty DEF InSenders
<1>5. InSenders' \subseteq InSenders /\ InSenders' \cap Range(inflight[s]) = {}
  BY <1>t, <1>4, OrderParts DEF InSenders
<1>6. /\ \A t \in Senders : Increasing(inflight'[t])
      /\ \A t, u \in Senders : t # u => Range(inflight'[t]) \cap Range(inflight'[u]) = {}
  BY <1>t, <1>1, OrderParts, IncreasingEmpty, RangeOfEmpty
<1>7. InSenders' \cap flushed' = {}
  BY <1>t, <1>1, <1>5, OrderParts
<1>8. InSenders' \cup flushed' \subseteq InSenders \cup flushed
  BY <1>1, <1>3, <1>5
<1>9. /\ Precedes(InSenders' \cup flushed', InEgress)
      /\ Precedes(InSenders' \cup flushed', InCollector)
      /\ Precedes(InSenders' \cup flushed', Range(events))
  BY <1>t, <1>8, OrderParts DEF Precedes
<1>10. PipelineOrder'
  <2>1. UNCHANGED <<events, batches, batch, out>>
    BY <1>1
  <2> QED
    BY <1>t, <1>2, <1>6, <1>7, <1>9, <2>1, OrderParts
    DEF PipelineOrder, Precedes, InCollector
<1>11. PushedFirst'
  BY <1>t, <1>1, <1>2, <1>8, PushedFirstParts
  DEF PushedFirst, Resident, Collected, InCollector
<1> QED
  BY <1>10, <1>11

LEMMA OrderStep == OrderInv /\ [Next]_vars => OrderInv'
<1> SUFFICES ASSUME OrderInv, [Next]_vars PROVE OrderInv'
  OBVIOUS
<1>t. /\ StopInv /\ StopInv' /\ PipelineOrder /\ PushedFirst
      /\ collector \in InDispatch => out # <<>>
  BY StopStep DEF OrderInv, StopInv, TypeInv, DispatchHolds
<1>1. CASE Push
  BY <1>1, <1>t, OrderPush DEF OrderInv
<1>2. CASE CollectEvent \/ DrainEvent
  BY <1>2, <1>t, OrderTake DEF OrderInv, CollectEvent, DrainEvent, InDispatch
<1>3. ASSUME UNCHANGED <<events, batches, batch, out, inflight, flushed, pushed>>
      PROVE  PipelineOrder' /\ PushedFirst'
  <2>1. UNCHANGED <<InEgress, InSenders>>
    BY <1>3 DEF InEgress, InSenders
  <2>2. PushedFirst'
    BY <1>3, <1>t, <2>1 DEF PushedFirst, Resident, Collected
  <2>3. PipelineOrder'
    BY <1>3, <1>t, <2>1 DEF PipelineOrder, Precedes
  <2> QED
    BY <2>2, <2>3
<1>4. CASE Tick
  BY <1>4, <1>t, OrderEnter DEF OrderInv, Tick, InDispatch, senderVars
<1>5. CASE DrainEmpty
  <2>1. CASE EnterDispatch(batch, "final")
    BY <1>5, <2>1, <1>t, OrderEnter DEF OrderInv, DrainEmpty, InDispatch, senderVars
  <2>2. CASE UNCHANGED <<batch, out>>
    BY <1>5, <2>2, <1>t, <1>3 DEF OrderInv, DrainEmpty, senderVars
  <2> QED
    BY <1>5, <2>1, <2>2 DEF DrainEmpty
<1>6. CASE DispatchSend \/ WaitSend
  BY <1>6, <1>t, OrderHandover DEF OrderInv, DispatchSend, WaitSend, InDispatch
<1>7. CASE DispatchStop \/ WaitStop \/ GaugeDrop
  BY <1>7, <1>t, OrderLeave DEF OrderInv, DispatchStop, WaitStop, GaugeDrop, Abandon,
     InDispatch, senderVars
<1>8. CASE SeeStop \/ DispatchDefault \/ GaugeWait \/ CloseBatches
  BY <1>8, <1>t, <1>3 DEF OrderInv, SeeStop, DispatchDefault, GaugeWait, CloseBatches,
     senderVars
<1>9. ASSUME NEW s \in Senders, Sender(s) PROVE OrderInv'
  <2>1. CASE StartFlush(s)
    BY <2>1, <1>t, OrderStartFlush DEF OrderInv
  <2>2. CASE EndFlush(s)
    BY <2>2, <1>t, OrderEndFlush DEF OrderInv
  <2>3. CASE ExitSender(s)
    BY <2>3, <1>t, <1>3 DEF OrderInv, ExitSender, collectorVars
  <2> QED
    BY <1>9, <2>1, <2>2, <2>3 DEF Sender
<1>10. CASE Stop
  BY <1>10, <1>t, <1>3 DEF OrderInv, Stop, BeginStop, JoinCollector, JoinSenders,
     collectorVars, senderVars
<1>11. CASE UNCHANGED vars
  BY <1>11, <1>t, <1>3 DEF OrderInv, vars, collectorVars, senderVars
<1> QED
  BY <1>1, <1>2, <1>4, <1>5, <1>6, <1>7, <1>8, <1>9, <1>10, <1>11
  DEF Next, Collector, Dispatch, Drain, Terminated

(***************************************************************************)
(* Order and at-most-once hand-over hold for any number of senders and any *)
(* capacities: stages hold disjoint sets of events, older ones further on. *)
(***************************************************************************)
THEOREM PipelineOrderThm == Spec => []PipelineOrder
<1>1. Spec => []OrderInv
  BY OrderInit, OrderStep, PTL DEF Spec
<1>2. OrderInv => PipelineOrder
  BY DEF OrderInv
<1> QED
  BY <1>1, <1>2, PTL

-----------------------------------------------------------------------------
(***************************************************************************)
(* Refinement.  Every behaviour of Buffer is one of EventPipeline,         *)
(* whatever the capacities, the size of the pool and the number of pushes. *)
(* A step of the buffer moves events between its stages, which             *)
(* EventPipeline does not see, or takes exactly one batch out of them.     *)
(* That the rest of the events stays put is where PipelineOrder is needed: *)
(* the stages hold disjoint sets of events.                                *)
(***************************************************************************)
LEMMA BatchIsSmall ==
  ASSUME NEW b \in Batches
  PROVE  Range(b) # {} /\ Cardinality(Range(b)) <= BatchSize
<1>1. /\ b \in Seq(1 .. MaxPush) /\ Len(b) \in 1 .. BatchSize
      /\ BatchSize \in Nat
  BY BufferAssumption DEF Batches
<1>2. /\ b \in [1 .. Len(b) -> 1 .. MaxPush] /\ Len(b) \in Nat
      /\ Range(b) = {b[i] : i \in 1 .. Len(b)}
  BY <1>1, LenProperties, RangeEquality
<1>3. b \in Surjection(1 .. Len(b), Range(b))
  BY <1>2 DEF Surjection
<1>4. ExistsSurjection(1 .. Len(b), Range(b))
  BY <1>3 DEF ExistsSurjection
<1>5. Cardinality(Range(b)) <= Len(b)
  BY <1>2, <1>4, FS_SurjCardinalityBound
<1>6. Range(b) # {}
  BY <1>1, <1>2
<1>7. IsFiniteSet(Range(b)) /\ Cardinality(Range(b)) \in Nat
  BY <1>2, <1>3, FS_Interval, FS_Surjection, FS_CardinalityType
<1> QED
  BY <1>1, <1>5, <1>6, <1>7

LEMMA ResidentParts ==
  Resident = Range(events) \cup InCollector \cup InEgress \cup InSenders
  BY DEF Resident, Collected, InCollector

(* EventPipeline's Cardinality is the same operator, instantiated.         *)
LEMMA BatchIsABatch ==
  ASSUME NEW b \in Batches
  PROVE  Pipeline!ABatch(Range(b))
<1>1. Pipeline!Cardinality(Range(b)) = Cardinality(Range(b))
  BY DEF Pipeline!Cardinality, Cardinality
<1> QED
  BY <1>1, BatchIsSmall DEF Pipeline!ABatch

LEMMA PrecedesDisjoint ==
  ASSUME NEW S \in SUBSET Nat, NEW T \in SUBSET Nat, Precedes(S, T)
  PROVE  S \cap T = {}
<1> SUFFICES ASSUME NEW n \in S, n \in T PROVE FALSE
  OBVIOUS
<1>1. n < n /\ n \in Nat
  BY DEF Precedes
<1> QED
  BY <1>1

(* The stages are disjoint, since Precedes is irreflexive.                 *)
LEMMA StagesDisjoint ==
  ASSUME OrderInv
  PROVE  /\ InCollector \cap (Range(events) \cup InEgress \cup InSenders) = {}
         /\ InSenders \cap (Range(events) \cup InEgress \cup InCollector) = {}
<1>1. /\ TypeInv
      /\ Precedes(InCollector, Range(events)) /\ Precedes(InEgress, InCollector)
      /\ Precedes(InSenders \cup flushed, InEgress)
      /\ Precedes(InSenders \cup flushed, InCollector)
      /\ Precedes(InSenders \cup flushed, Range(events))
  BY OrderParts DEF OrderInv, StopInv
<1>2. /\ Range(events) \subseteq Nat /\ InCollector \subseteq Nat
      /\ InEgress \subseteq Nat /\ InSenders \subseteq Nat
  BY <1>1, OrderTypes
<1>3. Precedes(InSenders, Range(events)) /\ Precedes(InSenders, InEgress)
      /\ Precedes(InSenders, InCollector)
  BY <1>1 DEF Precedes
<1>4. /\ InCollector \cap Range(events) = {} /\ InEgress \cap InCollector = {}
      /\ InSenders \cap Range(events) = {} /\ InSenders \cap InEgress = {}
      /\ InSenders \cap InCollector = {}
  BY <1>1, <1>2, <1>3, PrecedesDisjoint
<1> QED
  BY <1>4

LEMMA PipelineInit == Init => Pipeline!Init
<1> SUFFICES ASSUME Init PROVE Pipeline!Init
  OBVIOUS
<1>1. /\ Range(events) = {} /\ InCollector = {} /\ InEgress = {}
      /\ \A s \in Senders : inflight[s] = <<>>
  BY RangeOfEmpty DEF Init, InCollector, InEgress
<1>2. InSenders = {}
  BY <1>1, RangeOfEmpty DEF InSenders
<1>3. Resident = {}
  BY <1>1, <1>2, ResidentParts
<1> QED
  BY <1>3 DEF Pipeline!Init, Init, Stage

(* Push is Accept or Refuse.                                               *)
LEMMA PushRefines == OrderInv /\ Push => Pipeline!Accept \/ Pipeline!Refuse
<1> SUFFICES ASSUME OrderInv, Push PROVE Pipeline!Accept \/ Pipeline!Refuse
  OBVIOUS
<1>1. /\ events \in Seq(1 .. MaxPush) /\ pushed + 1 \in 1 .. MaxPush
      /\ pushed < MaxPush /\ pushed' = pushed + 1
      /\ UNCHANGED <<flushed, sentBatches, droppedBatches, Stage>>
      /\ UNCHANGED <<InCollector, InEgress, InSenders>>
  BY BufferAssumption DEF Push, OrderInv, StopInv, TypeInv, TypeOK, collectorVars,
     senderVars, stopVars, Stage, InCollector, InEgress, InSenders
<1>2. CASE events' = Append(events, pushed + 1) /\ UNCHANGED droppedEvents
  <2>1. Range(events') = Range(events) \cup {pushed + 1}
    <3> DEFINE n == pushed + 1
               S == 1 .. MaxPush
    <3>1. events \in Seq(S) /\ n \in S /\ events' = Append(events, n)
      BY <1>1, <1>2
    <3> HIDE DEF n, S
    <3>2. Range(events') = Range(events) \cup {n}
      BY <3>1, RangeOfAppend
    <3> QED
      BY <3>2 DEF n
  <2>2. Resident' = Resident \cup {pushed + 1}
    BY <1>1, <2>1 DEF Resident, Collected, InCollector
  <2> QED
    BY <1>1, <1>2, <2>2 DEF Pipeline!Accept
<1>3. CASE droppedEvents' = droppedEvents + 1 /\ UNCHANGED events
  <2>1. Resident' = Resident
    BY <1>1, <1>3 DEF Resident, Collected, InCollector
  <2> QED
    BY <1>1, <1>3, <2>1 DEF Pipeline!Refuse
<1> QED
  BY <1>2, <1>3 DEF Push

(* A dispatch() that ends without a hand-over takes its copy out.          *)
LEMMA LeaveTakesOut ==
  ASSUME OrderInv, collector \in InDispatch, LeaveDispatch,
         UNCHANGED <<events, batches, inflight>>
  PROVE  /\ Range(out) \in SUBSET Resident /\ Pipeline!ABatch(Range(out))
         /\ Resident' = Resident \ Range(out)
<1>1. batch = <<>> /\ out \in Batches
  BY DEF OrderInv, StopInv, TypeInv, TypeOK, DispatchHolds
<1>2. InCollector = Range(out) /\ InCollector' = {}
  BY <1>1, RangeOfEmpty DEF InCollector, LeaveDispatch
<1>3. UNCHANGED <<InEgress, InSenders>>
  BY DEF InEgress, InSenders
<1>4. Resident' = Range(events) \cup InEgress \cup InSenders
  BY <1>2, <1>3 DEF Resident, Collected, InCollector
<1>5. Resident' = Resident \ InCollector
  BY <1>4, StagesDisjoint, ResidentParts
<1>6. Pipeline!ABatch(Range(out))
  BY <1>1, BatchIsABatch
<1>7. InCollector \subseteq Resident
  BY ResidentParts
<1> QED
  BY <1>2, <1>5, <1>6, <1>7

(* Moves inside the buffer that EventPipeline does not see.                *)
LEMMA MovesAreHidden ==
  ASSUME OrderInv,
         \/ CollectEvent \/ DrainEvent \/ Tick \/ DrainEmpty
         \/ DispatchSend \/ WaitSend
         \/ \E s \in Senders : StartFlush(s)
  PROVE  Resident' = Resident
<1>t. TypeInv /\ (collector \notin InDispatch => out = <<>>)
      /\ (collector \in InDispatch => batch = <<>> /\ out \in Batches)
  BY DEF OrderInv, StopInv, TypeInv, TypeOK, DispatchHolds
<1>1. ASSUME NEW p, TakeEvent(p), collector \notin InDispatch
      PROVE  Resident' = Resident
  <2> DEFINE b == Append(batch, Head(events))
  <2>1. /\ events \in Seq(1 .. MaxPush) /\ batch \in Seq(1 .. MaxPush)
        /\ events # <<>> /\ events' = Tail(events)
        /\ (out' = b /\ batch' = <<>>) \/ (out' = out /\ batch' = b)
        /\ UNCHANGED <<InEgress, InSenders>> /\ out = <<>>
    BY <1>1, <1>t, OrderTypes
    DEF TakeEvent, EnterDispatch, senderVars, InEgress, InSenders
  <2>2. Head(events) \in 1 .. MaxPush /\ Range(events) = {Head(events)} \cup Range(events')
    BY <2>1, HeadAndTail, RangeOfTail
  <2>3. Range(b) = Range(batch) \cup {Head(events)}
    BY <2>1, <2>2, RangeOfAppend
  <2> HIDE DEF b
  <2>4. InCollector' = InCollector \cup {Head(events)}
    BY <2>1, <2>3, RangeOfEmpty DEF InCollector
  <2> QED
    BY <2>1, <2>2, <2>4 DEF Resident, Collected, InCollector
<1>2. CASE CollectEvent \/ DrainEvent
  BY <1>1, <1>2 DEF CollectEvent, DrainEvent, InDispatch
<1>3. CASE Tick \/ DrainEmpty
  <2>1. /\ UNCHANGED <<events, InEgress, InSenders>> /\ out = <<>>
        /\ (out' = batch /\ batch' = <<>>) \/ UNCHANGED <<batch, out>>
    BY <1>3, <1>t DEF Tick, DrainEmpty, EnterDispatch, InDispatch, InEgress, InSenders,
       senderVars
  <2>2. InCollector' = InCollector
    BY <2>1, RangeOfEmpty DEF InCollector
  <2> QED
    BY <2>1, <2>2 DEF Resident, Collected, InCollector
<1>4. CASE DispatchSend \/ WaitSend
  <2>1. /\ batches' = Append(batches, out) /\ out' = <<>> /\ batch' = <<>>
        /\ batch = <<>> /\ out \in Batches /\ UNCHANGED <<events, inflight>>
    BY <1>4, <1>t DEF DispatchSend, WaitSend, Handover, LeaveDispatch, InDispatch,
       senderVars
  <2>2. InEgress' = InEgress \cup Range(out)
    BY <1>t, <2>1, EgressAppend
  <2>3. InCollector = Range(out) /\ InCollector' = {} /\ UNCHANGED InSenders
    BY <2>1, RangeOfEmpty DEF InCollector, InSenders
  <2> QED
    BY <2>1, <2>2, <2>3 DEF Resident, Collected, InCollector
<1>5. ASSUME NEW s \in Senders, StartFlush(s) PROVE Resident' = Resident
  <2>1. /\ batches # <<>> /\ batches' = Tail(batches)
        /\ inflight \in [Senders -> Batches \cup {<<>>}] /\ inflight[s] = <<>>
        /\ inflight' = [inflight EXCEPT ![s] = Head(batches)]
        /\ UNCHANGED <<events, InCollector>>
    BY <1>5 DEF StartFlush, collectorVars, InCollector, OrderInv, StopInv, PoolInv,
       TypeInv, TypeOK
  <2>2. InEgress = Range(Head(batches)) \cup InEgress'
    BY <1>t, <2>1, EgressTail
  <2>3. InSenders' = InSenders \cup Range(Head(batches))
    BY <2>1, RangeOfEmpty DEF InSenders
  <2> QED
    BY <2>1, <2>2, <2>3 DEF Resident, Collected, InCollector
<1> QED
  BY <1>2, <1>3, <1>4, <1>5

(* The end of a flush delivers the sender's batch.                         *)
LEMMA FlushRefines ==
  ASSUME OrderInv, NEW s \in Senders, EndFlush(s)
  PROVE  \E B \in SUBSET Resident : Pipeline!Deliver(B)
<1> DEFINE B == Range(inflight[s])
<1>1. /\ inflight \in [Senders -> Batches \cup {<<>>}]
      /\ inflight' = [inflight EXCEPT ![s] = <<>>]
      /\ UNCHANGED <<events, InCollector, InEgress, Stage>>
      /\ \A t, u \in Senders : t # u => Range(inflight[t]) \cap Range(inflight[u]) = {}
  BY OrderParts DEF EndFlush, OrderInv, StopInv, TypeInv, TypeOK, collectorVars, stopVars,
     InCollector, InEgress, Stage
<1>2. B \subseteq InSenders
  BY DEF InSenders
<1>3. InSenders' = InSenders \ B
  BY <1>1, RangeOfEmpty DEF InSenders
<1>4. Resident' = Resident \ B
  <2>1. Resident' = Range(events) \cup InCollector \cup InEgress \cup InSenders'
    BY <1>1 DEF Resident, Collected, InCollector
  <2> QED
    BY <1>2, <1>3, <2>1, StagesDisjoint, ResidentParts
<1>5. inflight[s] \in Batches
  <2>1. inflight[s] # <<>>
    BY DEF EndFlush, OrderInv, StopInv, PoolInv
  <2> QED
    BY <1>1, <2>1
<1>6. Pipeline!ABatch(B)
  BY <1>5, BatchIsABatch
<1>7. Stage # "stopped"
  BY DEF OrderInv, StopInv, PoolInv, TypeInv, TypeOK, StopperStates, EndFlush, Stage
<1>8. B \in SUBSET Resident
  BY <1>2, ResidentParts
<1> HIDE DEF B
<1>9. Pipeline!Deliver(B)
  BY <1>1, <1>4, <1>6, <1>7 DEF Pipeline!Deliver, EndFlush, B
<1> QED
  BY <1>8, <1>9

LEMMA PipelineStep == OrderInv /\ [Next]_vars => [Pipeline!Next]_(Pipeline!vars)
<1> SUFFICES ASSUME OrderInv, [Next]_vars
             PROVE  Pipeline!Next \/ UNCHANGED Pipeline!vars
  OBVIOUS
<1> USE DEF Pipeline!vars
<1>t. /\ stopper \in StopperStates
      /\ stopper = "returned" => collector = "done"
      /\ stopped <=> stopper # "idle"
  BY DEF OrderInv, StopInv, TypeInv, TypeOK, LoopInv, PoolInv
<1>1. CASE Push
  BY <1>1, PushRefines DEF Pipeline!Next
<1>2. CASE CollectEvent \/ DrainEvent
  <2>1. UNCHANGED <<flushed, Stage, droppedEvents, droppedBatches, sentBatches, pushed>>
    BY <1>2 DEF CollectEvent, DrainEvent, TakeEvent, senderVars, stopVars, Stage
  <2> QED
    BY <1>2, <2>1, MovesAreHidden
<1>3. CASE Tick \/ DrainEmpty \/ DispatchSend \/ WaitSend
  <2>1. UNCHANGED <<flushed, Stage, droppedEvents, droppedBatches, sentBatches, pushed>>
    BY <1>3 DEF Tick, DrainEmpty, DispatchSend, WaitSend, Handover, senderVars, stopVars,
       Stage
  <2> QED
    BY <1>3, <2>1, MovesAreHidden
<1>4. CASE DispatchStop \/ WaitStop
  <2>1. /\ collector \in InDispatch /\ LeaveDispatch /\ stopped
        /\ UNCHANGED <<events, batches, inflight>>
        /\ UNCHANGED <<flushed, Stage, droppedEvents, droppedBatches, sentBatches, pushed>>
    BY <1>4 DEF DispatchStop, WaitStop, Abandon, InDispatch, senderVars, stopVars, Stage
  <2>2. Stage = "stopping"
    BY <2>1, <1>t DEF Stage, StopperStates, InDispatch
  <2> QED
    BY <2>1, <2>2, LeaveTakesOut DEF Pipeline!Next, Pipeline!Forfeit
<1>5. CASE GaugeDrop
  <2>1. /\ collector \in InDispatch /\ LeaveDispatch
        /\ UNCHANGED <<events, batches, inflight>>
        /\ UNCHANGED <<flushed, Stage, droppedEvents, sentBatches, pushed>>
        /\ droppedBatches' = droppedBatches + 1
    BY <1>5 DEF GaugeDrop, InDispatch, senderVars, stopVars, Stage
  <2>2. Stage # "stopped"
    BY <2>1, <1>t DEF Stage, StopperStates, InDispatch
  <2> QED
    BY <2>1, <2>2, LeaveTakesOut DEF Pipeline!Next, Pipeline!Shed
<1>6. ASSUME UNCHANGED <<events, batch, out, batches, inflight, flushed, Stage,
                        droppedEvents, droppedBatches, sentBatches, pushed>>
      PROVE  UNCHANGED Pipeline!vars
  BY <1>6 DEF Resident, Collected, InEgress, InSenders
<1>7. CASE SeeStop \/ DispatchDefault \/ GaugeWait \/ CloseBatches
  BY <1>7, <1>6 DEF SeeStop, DispatchDefault, GaugeWait, CloseBatches, senderVars,
     stopVars, Stage
<1>8. ASSUME NEW s \in Senders, Sender(s) PROVE Pipeline!Next \/ UNCHANGED Pipeline!vars
  <2>1. CASE StartFlush(s)
    <3>1. UNCHANGED <<flushed, Stage, droppedEvents, droppedBatches, sentBatches, pushed>>
      BY <2>1 DEF StartFlush, stopVars, Stage
    <3> QED
      BY <2>1, <3>1, MovesAreHidden
  <2>2. CASE EndFlush(s)
    BY <2>2, FlushRefines DEF Pipeline!Next
  <2>3. CASE ExitSender(s)
    BY <2>3, <1>6 DEF ExitSender, collectorVars, stopVars, Stage
  <2> QED
    BY <1>8, <2>1, <2>2, <2>3 DEF Sender
<1>9. CASE Stop
  <2>1. UNCHANGED <<events, batch, out, batches, inflight, flushed,
                    droppedEvents, droppedBatches, sentBatches, pushed>>
    BY <1>9 DEF Stop, BeginStop, JoinCollector, JoinSenders, collectorVars, senderVars
  <2>2. UNCHANGED Resident
    BY <2>1 DEF Resident, Collected, InEgress, InSenders
  <2>3. CASE BeginStop
    BY <2>1, <2>2, <2>3 DEF BeginStop, Stage, Pipeline!Next, Pipeline!Begin
  <2>4. CASE JoinCollector
    BY <2>1, <2>2, <2>4 DEF JoinCollector, Stage
  <2>5. CASE JoinSenders
    BY <2>1, <2>2, <2>5 DEF JoinSenders, Stage, Pipeline!Next, Pipeline!End
  <2> QED
    BY <1>9, <2>3, <2>4, <2>5 DEF Stop
<1>10. CASE UNCHANGED vars
  BY <1>10, <1>6 DEF vars, collectorVars, senderVars, stopVars, Stage
<1> QED
  BY <1>1, <1>2, <1>3, <1>4, <1>5, <1>7, <1>8, <1>9, <1>10
  DEF Next, Collector, Dispatch, Drain, Terminated

(***************************************************************************)
(* The buffer implements EventPipeline: an accepted event is delivered at  *)
(* most once and in a batch, or lost with its whole batch; every loss is   *)
(* counted but for those a stop in progress causes; and nothing is         *)
(* delivered, shed or forfeited once Stop has returned.                    *)
(***************************************************************************)
THEOREM BufferImplementsPipeline == Spec => ImplementsPipeline
<1>1. Spec => []OrderInv
  BY OrderInit, OrderStep, PTL DEF Spec
<1>2. []OrderInv /\ [][Next]_vars => [][Pipeline!Next]_(Pipeline!vars)
  BY PipelineStep, PTL
<1>3. Spec => Pipeline!Spec
  BY <1>1, <1>2, PipelineInit, PTL DEF Spec, Pipeline!Spec
<1> QED
  BY <1>3 DEF ImplementsPipeline

-----------------------------------------------------------------------------
(* Losses.  EveryLossCounted is a fact about EventPipeline, so its proof   *)
(* has a case for each action there, and none for those of the buffer.     *)
LEMMA ResidentApart ==
  ASSUME OrderInv
  PROVE  Resident \cap flushed = {}
<1>1. /\ TypeInv /\ InSenders \cap flushed = {}
      /\ Precedes(flushed, InEgress) /\ Precedes(flushed, InCollector)
      /\ Precedes(flushed, Range(events))
  BY OrderParts DEF OrderInv, StopInv, Precedes
<1>2. /\ Range(events) \subseteq Nat /\ InCollector \subseteq Nat
      /\ InEgress \subseteq Nat /\ flushed \subseteq Nat
  BY <1>1, OrderTypes
<1>3. /\ flushed \cap InEgress = {} /\ flushed \cap InCollector = {}
      /\ flushed \cap Range(events) = {}
  BY <1>1, <1>2, PrecedesDisjoint
<1> QED
  BY <1>1, <1>3, ResidentParts

(* The disjoint union of two finite sets.                                  *)
LEMMA CardinalityOfDisjoint ==
  ASSUME NEW S, NEW T, IsFiniteSet(S), IsFiniteSet(T), S \cap T = {}
  PROVE  /\ IsFiniteSet(S \cup T)
         /\ Cardinality(S \cup T) = Cardinality(S) + Cardinality(T)
<1>1. Cardinality(S \cap T) = 0
  BY FS_EmptySet
<1>2. /\ IsFiniteSet(S \cup T)
      /\ Cardinality(S \cup T) = Cardinality(S) + Cardinality(T) - Cardinality(S \cap T)
  BY FS_Union
<1>3. Cardinality(S) \in Nat /\ Cardinality(T) \in Nat
  BY FS_CardinalityType
<1> QED
  BY <1>1, <1>2, <1>3

LEMMA MissingType ==
  ASSUME OrderInv
  PROVE  /\ IsFiniteSet(Missing) /\ Cardinality(Missing) \in Nat
         /\ pushed \in Nat /\ droppedEvents \in Nat /\ droppedBatches \in Nat
         /\ Resident \cup flushed \subseteq 1 .. pushed
<1>1. /\ pushed \in Nat /\ droppedEvents \in Nat /\ droppedBatches \in Nat
      /\ Resident \cup flushed \subseteq 1 .. pushed
  BY BufferAssumption DEF OrderInv, StopInv, TypeInv, TypeOK, PushedFirst
<1>2. IsFiniteSet(1 .. pushed) /\ Missing \in SUBSET (1 .. pushed)
  BY <1>1, FS_Interval DEF Missing
<1>3. IsFiniteSet(Missing)
  BY <1>2, FS_Subset
<1> QED
  BY <1>1, <1>3, FS_CardinalityType

LEMMA OneMoreBatch ==
  ASSUME NEW m \in Nat, NEW n \in Nat
  PROVE  m * (n + 1) = m * n + m /\ m * n \in Nat
  OBVIOUS

(* What a batch that is taken out adds to the events that are missing.     *)
LEMMA BatchGoesMissing ==
  ASSUME OrderInv, NEW B \in SUBSET Resident, Pipeline!ABatch(B),
         Resident' = Resident \ B, UNCHANGED <<flushed, pushed>>
  PROVE  /\ Cardinality(Missing') \in Nat
         /\ Cardinality(Missing') >= Cardinality(Missing) + 1
         /\ Cardinality(Missing') <= Cardinality(Missing) + BatchSize
<1>1. Missing' = Missing \cup B /\ Missing \cap B = {}
  BY ResidentApart, MissingType DEF Missing
<1>2. IsFiniteSet(B)
  <2>1. IsFiniteSet(1 .. pushed) /\ B \in SUBSET (1 .. pushed)
    BY MissingType, FS_Interval
  <2> QED
    BY <2>1, FS_Subset
<1>3. Cardinality(B) \in Nat /\ Cardinality(B) # 0 /\ Cardinality(B) <= BatchSize
  <2>1. Pipeline!Cardinality(B) = Cardinality(B)
    BY DEF Pipeline!Cardinality, Cardinality
  <2> QED
    BY <1>2, <2>1, FS_CardinalityType, FS_EmptySet DEF Pipeline!ABatch
<1>4. Cardinality(Missing') = Cardinality(Missing) + Cardinality(B)
  BY <1>1, <1>2, MissingType, CardinalityOfDisjoint
<1> QED
  BY <1>3, <1>4, MissingType, BufferAssumption

LEMMA LossInit == Init => EveryLossCounted
<1> SUFFICES ASSUME Init PROVE EveryLossCounted
  OBVIOUS
<1>1. Missing = {}
  BY DEF Init, Missing
<1>2. Cardinality(Missing) = 0
  BY <1>1, FS_EmptySet
<1> QED
  BY <1>2, BufferAssumption DEF EveryLossCounted, Stats, Init

LEMMA LossStep ==
  ASSUME OrderInv, OrderInv', EveryLossCounted, [Pipeline!Next]_(Pipeline!vars)
  PROVE  EveryLossCounted'
<1> SUFFICES ASSUME ~stopped'
             PROVE  /\ droppedEvents' + droppedBatches' <= Cardinality(Missing')
                    /\ Cardinality(Missing') <= droppedEvents' + BatchSize * droppedBatches'
  BY DEF EveryLossCounted, Stats
<1> DEFINE lost == BatchSize * droppedBatches
<1>1. Stage' = "running"
  BY DEF OrderInv, StopInv, LoopInv, Stage
<1>2. /\ stopper \in StopperStates /\ (stopped <=> stopper # "idle")
  BY DEF OrderInv, StopInv, TypeInv, TypeOK, LoopInv
<1>3. /\ Stage = "running" => ~stopped
      /\ Stage = "running" \/ Stage = "stopping" \/ Stage = "stopped"
  BY <1>2 DEF Stage, StopperStates
<1>4. ASSUME Stage = "running"
      PROVE  /\ droppedEvents + droppedBatches <= Cardinality(Missing)
             /\ Cardinality(Missing) <= droppedEvents + lost
  BY <1>3, <1>4 DEF EveryLossCounted, Stats
<1>5. /\ BatchSize \in Nat /\ lost \in Nat /\ Cardinality(Missing) \in Nat
      /\ pushed \in Nat /\ droppedEvents \in Nat /\ droppedBatches \in Nat
      /\ BatchSize * (droppedBatches + 1) = lost + BatchSize
  BY BufferAssumption, MissingType, OneMoreBatch
<1>6. CASE Pipeline!Accept
  <2>1. /\ pushed' = pushed + 1 /\ Resident' = Resident \cup {pushed + 1}
        /\ UNCHANGED <<flushed, Stage, droppedEvents, droppedBatches>>
    BY <1>6 DEF Pipeline!Accept
  <2>2. 1 .. pushed' = (1 .. pushed) \cup {pushed + 1} /\ pushed + 1 \notin 1 .. pushed
    BY <1>5, <2>1
  <2>3. Missing' = Missing
    BY <2>1, <2>2, MissingType DEF Missing
  <2> QED
    BY <1>1, <1>4, <2>1, <2>3
<1>7. CASE Pipeline!Refuse
  <2>1. /\ pushed' = pushed + 1 /\ droppedEvents' = droppedEvents + 1
        /\ UNCHANGED <<Resident, flushed, Stage, droppedBatches>>
    BY <1>7 DEF Pipeline!Refuse
  <2>2. 1 .. pushed' = (1 .. pushed) \cup {pushed + 1} /\ pushed + 1 \notin 1 .. pushed
    BY <1>5, <2>1
  <2>3. Missing' = Missing \cup {pushed + 1} /\ pushed + 1 \notin Missing
    BY <2>1, <2>2, MissingType DEF Missing
  <2>4. Cardinality(Missing') = Cardinality(Missing) + 1
    BY <2>3, MissingType, FS_AddElement
  <2> QED
    BY <1>1, <1>4, <1>5, <2>1, <2>4
<1>8. CASE Pipeline!Begin \/ Pipeline!End
  BY <1>1, <1>8 DEF Pipeline!Begin, Pipeline!End
<1>9. ASSUME NEW B \in SUBSET Resident, Pipeline!Deliver(B) PROVE Missing' = Missing
  BY <1>9 DEF Pipeline!Deliver, Missing
<1>10. ASSUME NEW B \in SUBSET Resident, Pipeline!Shed(B)
       PROVE  /\ droppedEvents' + droppedBatches' <= Cardinality(Missing')
              /\ Cardinality(Missing') <= droppedEvents' + BatchSize * droppedBatches'
  <2>1. /\ Pipeline!ABatch(B) /\ Resident' = Resident \ B
        /\ droppedBatches' = droppedBatches + 1
        /\ UNCHANGED <<flushed, pushed, Stage, droppedEvents>>
    BY <1>10 DEF Pipeline!Shed
  <2>2. /\ Cardinality(Missing') \in Nat
        /\ Cardinality(Missing') >= Cardinality(Missing) + 1
        /\ Cardinality(Missing') <= Cardinality(Missing) + BatchSize
    BY <2>1, BatchGoesMissing
  <2> QED
    BY <1>1, <1>4, <1>5, <2>1, <2>2
<1>11. ASSUME NEW B \in SUBSET Resident, Pipeline!Forfeit(B) PROVE FALSE
  BY <1>1, <1>11 DEF Pipeline!Forfeit
<1>12. CASE UNCHANGED Pipeline!vars
  <2>1. UNCHANGED <<Missing, Stage, droppedEvents, droppedBatches>>
    BY <1>12 DEF Pipeline!vars, Missing
  <2> QED
    BY <1>1, <1>4, <2>1
<1>13. CASE \E B \in SUBSET Resident : Pipeline!Deliver(B)
  <2>1. UNCHANGED <<Missing, Stage, droppedEvents, droppedBatches>>
    BY <1>9, <1>13 DEF Pipeline!Deliver
  <2> QED
    BY <1>1, <1>4, <2>1
<1> QED
  BY <1>6, <1>7, <1>8, <1>10, <1>11, <1>12, <1>13 DEF Pipeline!Next

(***************************************************************************)
(* Until Stop the two drop counters tell the number of events that are     *)
(* gone, exactly for a refused one and to within a batch for a shed one.   *)
(***************************************************************************)
THEOREM EveryLossCountedThm == Spec => []EveryLossCounted
<1>1. OrderInv /\ EveryLossCounted /\ [Next]_vars => OrderInv' /\ EveryLossCounted'
  BY OrderStep, PipelineStep, LossStep
<1>2. Init => OrderInv /\ EveryLossCounted
  BY OrderInit, LossInit
<1> QED
  BY <1>1, <1>2, PTL DEF Spec
=============================================================================
