-------------------------- MODULE CompositionProofs -------------------------
(***************************************************************************)
(* Theorems about the two compositions of the buffer: Apm, the runtime     *)
(* around it, and Delivery, the transport behind it.  In both a step is a  *)
(* step of Buffer or leaves Buffer's variables alone, so what BufferProofs *)
(* shows of the buffer holds there too.  They share nothing else.          *)
(***************************************************************************)
EXTENDS Apm, Delivery, BufferProofs

-----------------------------------------------------------------------------
(* Apm: the buffer in the runtime, Shutdown, and the lists of collectors.  *)

LEMMA ApmStepIsStep == [ApmNext]_allVars => [Next]_vars
<1> SUFFICES ASSUME [ApmNext]_allVars PROVE [Next]_vars
  OBVIOUS
<1>1. CASE Attach \/ MetricsLoop \/ CallShutdown
  BY <1>1 DEF Attach, MetricsLoop, InLoop, CallShutdown
<1>2. CASE BufferStep
  BY <1>2 DEF BufferStep, InBuffer, Next, Stop
<1>3. CASE \E h \in Hosts : Finishing(h)
  BY <1>3 DEF Finishing, Next, Stop
<1>4. CASE Halted \/ UNCHANGED allVars
  BY <1>4 DEF Halted, allVars
<1> QED
  BY <1>1, <1>2, <1>3, <1>4 DEF ApmNext

(***************************************************************************)
(* The runtime uses its buffer as Buffer says: Push at any time, Stop at   *)
(* most once.  All the theorems of BufferProofs hold of it.                *)
(***************************************************************************)
THEOREM ApmImplementsBuffer == ApmSpec => Spec
<1>1. ApmInit => Init
  BY DEF ApmInit
<1> QED
  BY <1>1, ApmStepIsStep, PTL DEF ApmSpec, Spec

-----------------------------------------------------------------------------
(* Shutdown.  One caller is inside the function given to once.Do, and how  *)
(* far it has come says what has ended; once is "done" after all of it.    *)
Running == {"joinLoop", "stopBuffer", "close"}

OnceInv ==
  /\ caller \in [Hosts -> CallerStates] /\ once \in {"new", "running", "done"}
  /\ \A h \in Hosts : caller[h] \in Running => once = "running"
  /\ \A g, h \in Hosts : caller[g] \in Running /\ caller[h] \in Running => g = h
  /\ \A h \in Hosts : caller[h] = "returned" => once = "done"

ProgressInv ==
  /\ \A h \in Hosts : caller[h] \in {"stopBuffer", "close"} => loop = "done"
  /\ \A h \in Hosts : caller[h] = "close" => stopper = "returned"
  /\ once = "done" => loop = "done" /\ stopper = "returned" /\ open = {}

ShutdownInv == OnceInv /\ ProgressInv

(* loop "done" and stopper "returned" are final.                           *)
LEMMA LoopStaysDone ==
  ASSUME loop = "done", [ApmNext]_allVars
  PROVE  loop' = "done"
<1>1. CASE MetricsLoop
  BY <1>1 DEF MetricsLoop, InLoop, Ship, CollectSystem, CallCollect, EndDbs, RangeEnds,
     EndCollection, ReturnCollect, MetricsTick, LoopSeesStop, Kinds
<1>2. CASE Attach \/ CallShutdown \/ BufferStep \/ \E h \in Hosts : Finishing(h)
  BY <1>2 DEF Attach, CallShutdown, BufferStep, InBuffer, Finishing, apmVars, loopVars
<1>3. CASE Halted \/ UNCHANGED allVars
  BY <1>3 DEF Halted, allVars, apmVars, loopVars
<1> QED
  BY <1>1, <1>2, <1>3 DEF ApmNext

LEMMA StopperStays ==
  ASSUME stopper = "returned", [Next]_vars
  PROVE  stopper' = "returned"
<1>1. CASE Collector
  <2>1. UNCHANGED stopVars
    BY <1>1 DEF Collector, CollectEvent, Tick, SeeStop, TakeEvent, Dispatch, DispatchSend,
       DispatchStop, DispatchDefault, GaugeWait, GaugeDrop, WaitSend, WaitStop, Handover,
       Abandon, Drain, DrainEvent, DrainEmpty, CloseBatches
  <2> QED
    BY <2>1 DEF stopVars
<1>2. CASE Push \/ \E s \in Senders : Sender(s)
  BY <1>2 DEF Push, Sender, StartFlush, EndFlush, ExitSender, stopVars
<1>3. CASE Stop
  BY <1>3 DEF Stop, BeginStop, JoinCollector, JoinSenders
<1>4. CASE Terminated \/ UNCHANGED vars
  BY <1>4 DEF Terminated, vars, stopVars
<1> QED
  BY <1>1, <1>2, <1>3, <1>4 DEF Next

LEMMA ShutdownStep == ShutdownInv /\ [ApmNext]_allVars => ShutdownInv'
<1> SUFFICES ASSUME ShutdownInv, [ApmNext]_allVars PROVE ShutdownInv'
  OBVIOUS
<1> USE DEF ShutdownInv, OnceInv, ProgressInv, Running, CallerStates, Goto
<1>s. /\ loop = "done" => loop' = "done"
      /\ stopper = "returned" => stopper' = "returned"
  BY LoopStaysDone, StopperStays, ApmStepIsStep
<1>1. CASE Attach \/ MetricsLoop \/ BufferStep \/ Halted \/ UNCHANGED allVars
  <2>1. UNCHANGED <<once, caller, open>>
    BY <1>1 DEF Attach, MetricsLoop, InLoop, BufferStep, InBuffer, Halted, allVars, apmVars,
       shutdownVars
  <2> QED
    BY <1>s, <2>1
<1>2. ASSUME NEW h \in Hosts, Shutdown(h) PROVE ShutdownInv'
  BY <1>2, <1>s DEF Shutdown
<1>3. ASSUME NEW h \in Hosts, Finishing(h) PROVE ShutdownInv'
  <2>1. CASE JoinLoop(h)
    BY <1>s, <2>1 DEF JoinLoop
  <2>2. CASE BufferStopped(h)
    BY <1>s, <2>2 DEF BufferStopped
  <2>3. CASE CloseOne(h)
    BY <1>s, <2>3 DEF CloseOne
  <2>4. CASE FinishOnce(h)
    BY <1>s, <2>4 DEF FinishOnce
  <2>5. CASE LeaveOnce(h)
    BY <1>s, <2>5 DEF LeaveOnce
  <2> QED
    BY <1>3, <2>1, <2>2, <2>3, <2>4, <2>5 DEF Finishing
<1> QED
  BY <1>1, <1>2, <1>3 DEF ApmNext, CallShutdown

LEMMA ShutdownCorrect == ApmSpec => []ShutdownInv
<1>1. ApmInit => ShutdownInv
  BY DEF ApmInit, ShutdownInv, OnceInv, ProgressInv, Running, CallerStates
<1> QED
  BY <1>1, ShutdownStep, PTL DEF ApmSpec

(***************************************************************************)
(* Whoever returns from Shutdown finds the metrics loop ended, the buffer  *)
(* drained and stopped, and the SDK's own connections closed.              *)
(***************************************************************************)
THEOREM ShutdownIsCompleteThm == ApmSpec => []ShutdownIsComplete
<1>1. StopInv /\ StopDrains /\ ShutdownInv => ShutdownIsComplete
  <2> SUFFICES ASSUME StopInv, StopDrains, ShutdownInv, NEW h \in Hosts, caller[h] = "returned"
               PROVE  /\ loop = "done" /\ stopper = "returned" /\ open = {}
                      /\ Collected = {} /\ \A n \in Resident : n > stopMark
    BY DEF ShutdownIsComplete
  <2>1. loop = "done" /\ stopper = "returned" /\ open = {}
    BY DEF ShutdownInv, OnceInv, ProgressInv
  <2>2. Collected = {} /\ Resident = Range(events)
    BY <2>1 DEF StopDrains, Resident
  <2>3. \A n \in Range(events) : n > stopMark
    BY <2>1 DEF StopInv, LoopInv, PoolInv, MarkInv
  <2> QED
    BY <2>1, <2>2, <2>3
<1> QED
  BY <1>1, ApmImplementsBuffer, StopCorrect, StopDrainsThm, ShutdownCorrect, PTL

-----------------------------------------------------------------------------
(* The lists.  Attaching changes nothing but the last entry, and only from *)
(* Hole; so what a range has passed stays as it was.                       *)
Slots == Collectors \cup {Hole}

ListInv ==
  /\ attached \in [Kinds -> Seq(Slots)]
  /\ \A k \in Kinds : \A i \in 1 .. Len(attached[k]) :
       /\ attached[k][i] = Hole => i = Len(attached[k])
       /\ attached[k][i] # Hole => KindOf(attached[k][i]) = k

LEMMA BeginAttachList ==
  ASSUME ListInv, NEW c \in HostCollectors, BeginAttach(c), NEW k \in Kinds
  PROVE  /\ attached'[k] \in Seq(Slots) /\ Len(attached'[k]) \in Nat
         /\ Len(attached[k]) \in Nat /\ Len(attached[k]) <= Len(attached'[k])
         /\ \A i \in 1 .. Len(attached[k]) :
              attached'[k][i] = attached[k][i] /\ attached[k][i] # Hole
         /\ \A i \in 1 .. Len(attached'[k]) :
              i \in 1 .. Len(attached[k]) \/ (i = Len(attached'[k]) /\ attached'[k][i] = Hole)
<1> DEFINE q == attached[k]
<1>1. q \in Seq(Slots) /\ Hole \in Slots
  BY DEF ListInv, Slots
<1>2. Hole \notin Range(q)
  BY DEF BeginAttach, Entries, Kinds
<1>3. \A i \in 1 .. Len(q) : q[i] # Hole
  <2> HIDE DEF q
  <2> QED
    BY <1>1, <1>2, RangeEquality
<1>4. attached'[k] = q \/ attached'[k] = Append(q, Hole)
  BY DEF BeginAttach, ListInv
<1> HIDE DEF q
<1>5. CASE attached'[k] = q
  BY <1>1, <1>3, <1>5, LenProperties DEF q
<1>6. CASE attached'[k] = Append(q, Hole)
  BY <1>1, <1>3, <1>6, AppendProperties, LenProperties DEF q
<1> QED
  BY <1>4, <1>5, <1>6

LEMMA EndAttachList ==
  ASSUME ListInv, NEW c \in HostCollectors, EndAttach(c), NEW k \in Kinds
  PROVE  /\ attached'[k] \in Seq(Slots) /\ Len(attached[k]) \in Nat
         /\ Len(attached'[k]) = Len(attached[k])
         /\ \A i \in 1 .. Len(attached[k]) :
              \/ attached'[k][i] = attached[k][i]
              \/ /\ attached[k][i] = Hole /\ attached'[k][i] = c
                 /\ k = KindOf(c) /\ i = Len(attached[k])
<1> DEFINE q == attached[k]
<1>1. q \in Seq(Slots) /\ c \in Slots
  BY DEF ListInv, Slots, Collectors
<1>2. CASE k # KindOf(c)
  <2>1. attached'[k] = q
    BY <1>2 DEF EndAttach, ListInv
  <2> QED
    BY <1>1, <2>1, LenProperties
<1>3. CASE k = KindOf(c)
  <2>1. attached'[k] = [q EXCEPT ![Len(q)] = c]
    BY <1>3 DEF EndAttach, ListInv
  <2>2. Hole \in Range(q)
    BY <1>3 DEF EndAttach
  <2>3. Len(q) \in Nat /\ q \in [1 .. Len(q) -> Slots]
    <3> HIDE DEF q
    <3> QED
      BY <1>1, LenProperties
  <2>4. q[Len(q)] = Hole
    <3>1. PICK i \in 1 .. Len(q) : q[i] = Hole
      <4> HIDE DEF q
      <4> QED
        BY <1>1, <2>2, RangeEquality
    <3> QED
      BY <3>1 DEF ListInv
  <2> HIDE DEF q
  <2>5. [q EXCEPT ![Len(q)] = c] \in [1 .. Len(q) -> Slots]
    BY <1>1, <2>3
  <2>6. [q EXCEPT ![Len(q)] = c] \in Seq(Slots) /\ Len([q EXCEPT ![Len(q)] = c]) = Len(q)
    BY <2>3, <2>5, ExceptSeq, <1>1
  <2> QED
    BY <1>3, <2>1, <2>3, <2>4, <2>6 DEF q
<1> QED
  BY <1>2, <1>3

(* Both halves of an append, as the invariants need them.                  *)
LEMMA AttachKeeps ==
  ASSUME ListInv, NEW c \in HostCollectors, BeginAttach(c) \/ EndAttach(c), NEW k \in Kinds
  PROVE  /\ Len(attached[k]) \in Nat /\ Len(attached'[k]) \in Nat
         /\ Len(attached[k]) <= Len(attached'[k])
         /\ \A i \in 1 .. Len(attached[k]) :
              attached[k][i] # Hole => attached'[k][i] = attached[k][i]
         /\ \A i \in 1 .. Len(attached'[k]) :
              \/ attached'[k][i] \in {Hole, c}
              \/ i \in 1 .. Len(attached[k]) /\ attached'[k][i] = attached[k][i]
<1>1. CASE BeginAttach(c)
  BY <1>1, BeginAttachList
<1>2. CASE EndAttach(c)
  BY <1>2, EndAttachList
<1> QED
  BY <1>1, <1>2

LEMMA ListAttach ==
  ASSUME ListInv, NEW c \in HostCollectors, BeginAttach(c) \/ EndAttach(c)
  PROVE  ListInv'
<1>1. c # Hole /\ KindOf(c) \in Kinds
  BY ApmAssumption DEF Collectors, Kinds, KindOf
<1>2. ASSUME NEW k \in Kinds
      PROVE  /\ attached'[k] \in Seq(Slots)
             /\ \A i \in 1 .. Len(attached'[k]) :
                  /\ attached'[k][i] = Hole => i = Len(attached'[k])
                  /\ attached'[k][i] # Hole => KindOf(attached'[k][i]) = k
  <2>0. \A i \in 1 .. Len(attached[k]) :
          /\ attached[k][i] = Hole => i = Len(attached[k])
          /\ attached[k][i] # Hole => KindOf(attached[k][i]) = k
    BY DEF ListInv
  <2>1. CASE BeginAttach(c)
    BY <2>0, <2>1, BeginAttachList
  <2>2. CASE EndAttach(c)
    BY <1>1, <2>0, <2>2, EndAttachList
  <2> QED
    BY <2>1, <2>2
<1>3. attached' = [k \in Kinds |-> attached'[k]]
  BY DEF BeginAttach, EndAttach, ListInv
<1>4. attached' \in [Kinds -> Seq(Slots)]
  BY <1>2, <1>3
<1> QED
  BY <1>2, <1>4 DEF ListInv

(* The loop's program counter: a range stays within the list, and whatever *)
(* entry it has passed, or is calling, has been asked.                     *)
RangeInv ==
  /\ loop \in LoopStates /\ calling \in BOOLEAN /\ final \in BOOLEAN
  /\ position \in Nat \ {0} /\ end \in Nat /\ asked \subseteq Collectors
  /\ calling => loop \in Kinds /\ position <= end
  /\ loop \in Kinds =>
       /\ end <= Len(attached[loop])
       /\ \A i \in 1 .. end :
            i < position \/ (i = position /\ calling) => attached[loop][i] \in asked

LoopInvariant == ListInv /\ RangeInv

LEMMA RangeStep ==
  ASSUME LoopInvariant, Ship \/ ReturnCollect \/ MetricsTick \/ LoopSeesStop, UNCHANGED attached
  PROVE  RangeInv'
<1> USE DEF LoopInvariant, RangeInv
<1>t. \A k \in Kinds : Len(attached[k]) \in Nat
  BY LenProperties DEF ListInv
<1>1. ASSUME NEW k \in Kinds, BeginRange(k), ~calling PROVE RangeInv'
  BY <1>t, <1>1 DEF BeginRange, LoopStates
<1>2. CASE CollectSystem
  BY <1>1, <1>2 DEF CollectSystem, Kinds
<1>3. CASE EndDbs
  BY <1>1, <1>3 DEF EndDbs, RangeEnds, Kinds
<1>4. CASE CallCollect
  <2>1. attached[loop][position] \in Slots
    <3> DEFINE q == attached[loop]
    <3>1. q \in Seq(Slots) /\ position \in 1 .. Len(q)
      BY <1>t, <1>4 DEF CallCollect, ListInv
    <3> HIDE DEF q
    <3>2. q[position] \in Slots
      BY <3>1, LenProperties
    <3> QED
      BY <3>2 DEF q
  <2>2. CASE attached[loop][position] # Hole
    <3>1. /\ loop' = loop /\ position' = position /\ end' = end /\ final' = final
          /\ calling' = TRUE /\ asked' = asked \cup {attached[loop][position]}
          /\ loop \in Kinds /\ position <= end /\ attached' = attached
      BY <1>4, <2>2 DEF CallCollect
    <3>2. asked' \subseteq Collectors
      BY <2>1, <2>2, <3>1 DEF Slots
    <3>3. \A i \in 1 .. end : i < position \/ i = position => attached[loop][i] \in asked'
      BY <3>1
    <3> QED
      BY <3>1, <3>2, <3>3
  <2>3. CASE attached[loop][position] = Hole
    BY <1>4, <2>3 DEF CallCollect
  <2> QED
    BY <2>2, <2>3
<1>5. CASE ReturnCollect
  <2>1. /\ loop' = loop /\ end' = end /\ final' = final /\ asked' = asked
        /\ calling' = FALSE /\ calling /\ position' = position + 1 /\ attached' = attached
    BY <1>5 DEF ReturnCollect
  <2>2. \A i \in 1 .. end : i < position + 1 => attached[loop][i] \in asked
    BY <2>1
  <2>3. position + 1 \in Nat \ {0} /\ ~calling'
    BY <2>1
  <2>4. \A i \in 1 .. end' :
          i < position' \/ (i = position' /\ calling') => attached'[loop'][i] \in asked'
    BY <2>1, <2>2, <2>3
  <2>5. calling' \in BOOLEAN /\ (calling' => loop' \in Kinds /\ position' <= end')
    BY <2>1
  <2>6. loop' \in Kinds /\ end' <= Len(attached'[loop'])
    BY <2>1
  <2> QED
    BY <2>1, <2>3, <2>4, <2>5, <2>6
<1>6. CASE EndCollection
  BY <1>6 DEF EndCollection, RangeEnds, LoopStates, Kinds
<1>7. CASE MetricsTick \/ LoopSeesStop
  <2>1. /\ loop' = "system" /\ asked' = {} /\ final' \in BOOLEAN /\ loop = "select"
        /\ calling' = calling /\ position' = position /\ end' = end
    BY <1>7 DEF MetricsTick, LoopSeesStop, BeginCollection
  <2>2. ~calling /\ loop' \notin Kinds /\ loop' \in LoopStates
    BY <2>1 DEF Kinds, LoopStates
  <2> QED
    BY <2>1, <2>2
<1> QED
  BY <1>2, <1>3, <1>4, <1>5, <1>6, <1>7 DEF Ship

LEMMA RangeAttach ==
  ASSUME LoopInvariant, NEW c \in HostCollectors, BeginAttach(c) \/ EndAttach(c),
         UNCHANGED loopVars
  PROVE  RangeInv'
<1>1. UNCHANGED <<loop, calling, final, position, end, asked>>
  BY DEF loopVars
<1>2. ASSUME loop \in Kinds
      PROVE  /\ end <= Len(attached'[loop])
             /\ \A i \in 1 .. end :
                  i < position \/ (i = position /\ calling) => attached'[loop][i] \in asked
  <2>1. /\ Len(attached[loop]) \in Nat /\ Len(attached'[loop]) \in Nat
        /\ Len(attached[loop]) <= Len(attached'[loop])
        /\ \A i \in 1 .. Len(attached[loop]) :
              attached[loop][i] # Hole => attached'[loop][i] = attached[loop][i]
    BY <1>2, AttachKeeps DEF LoopInvariant
  <2>2. end \in Nat /\ end <= Len(attached[loop]) /\ Hole \notin asked
    BY <1>2, ApmAssumption DEF LoopInvariant, RangeInv
  <2> QED
    BY <1>2, <2>1, <2>2 DEF LoopInvariant, RangeInv
<1> QED
  BY <1>1, <1>2 DEF LoopInvariant, RangeInv

LEMMA LoopInvariantStep == LoopInvariant /\ [ApmNext]_allVars => LoopInvariant'
<1> SUFFICES ASSUME LoopInvariant, [ApmNext]_allVars PROVE LoopInvariant'
  OBVIOUS
<1>1. CASE Attach
  <2>1. PICK c \in HostCollectors : BeginAttach(c) \/ EndAttach(c)
    BY <1>1 DEF Attach
  <2>2. UNCHANGED loopVars
    BY <1>1 DEF Attach
  <2> QED
    BY <2>1, <2>2, ListAttach, RangeAttach DEF LoopInvariant
<1>2. CASE MetricsLoop
  <2>1. RangeInv'
    BY <1>2, RangeStep DEF MetricsLoop, InLoop
  <2>2. ListInv'
    BY <1>2 DEF MetricsLoop, InLoop, LoopInvariant, ListInv
  <2> QED
    BY <2>1, <2>2 DEF LoopInvariant
<1>3. ASSUME UNCHANGED <<attached, loopVars>> PROVE LoopInvariant'
  BY <1>3 DEF LoopInvariant, ListInv, RangeInv, loopVars
<1>4. CASE CallShutdown \/ BufferStep \/ Halted \/ UNCHANGED allVars
  BY <1>3, <1>4 DEF CallShutdown, BufferStep, InBuffer, Halted, allVars, apmVars
<1>5. CASE \E h \in Hosts : Finishing(h)
  BY <1>3, <1>5 DEF Finishing
<1> QED
  BY <1>1, <1>2, <1>4, <1>5 DEF ApmNext

LEMMA LoopInvariantInit == ApmInit => LoopInvariant
<1> SUFFICES ASSUME ApmInit PROVE LoopInvariant
  OBVIOUS
<1>1. AutoDb \in Slots \ {Hole} /\ AutoRedis \in Slots \ {Hole}
  BY ApmAssumption DEF Slots, Collectors, AutoCollectors
<1>2. KindOf(AutoDb) = "db" /\ KindOf(AutoRedis) = "redis"
  BY ApmAssumption DEF KindOf, AutoCollectors, HostCollectors
<1>3. PICK d \in {<<>>, <<AutoDb>>}, r \in {<<>>, <<AutoRedis>>} :
             attached = [db |-> d, redis |-> r]
  BY DEF ApmInit
<1>d. d \in Seq(Slots) /\ \A i \in 1 .. Len(d) : i = Len(d) /\ d[i] = AutoDb
  <2>1. CASE d = <<>>
    BY <2>1
  <2>2. CASE d = <<AutoDb>>
    BY <1>1, <2>2
  <2> QED
    BY <2>1, <2>2
<1>r. r \in Seq(Slots) /\ \A i \in 1 .. Len(r) : i = Len(r) /\ r[i] = AutoRedis
  <2>1. CASE r = <<>>
    BY <2>1
  <2>2. CASE r = <<AutoRedis>>
    BY <1>1, <2>2
  <2> QED
    BY <2>1, <2>2
<1>4. /\ d \in Seq(Slots) /\ \A i \in 1 .. Len(d) : i = Len(d) /\ d[i] = AutoDb
      /\ r \in Seq(Slots) /\ \A i \in 1 .. Len(r) : i = Len(r) /\ r[i] = AutoRedis
  BY <1>d, <1>r
<1>5. ListInv
  <2>1. attached["db"] = d /\ attached["redis"] = r
    BY <1>3
  <2>2. attached \in [Kinds -> Seq(Slots)]
    BY <1>3, <1>4 DEF Kinds
  <2>3. ASSUME NEW k \in Kinds, NEW i \in 1 .. Len(attached[k])
        PROVE  i = Len(attached[k]) /\ attached[k][i] # Hole /\ KindOf(attached[k][i]) = k
    <3>1. CASE k = "db"
      BY <1>1, <1>2, <1>4, <2>1, <3>1
    <3>2. CASE k = "redis"
      BY <1>1, <1>2, <1>4, <2>1, <3>2
    <3> QED
      BY <3>1, <3>2 DEF Kinds
  <2> QED
    BY <2>2, <2>3 DEF ListInv
<1>6. RangeInv
  <2>1. /\ loop = "system" /\ calling = FALSE /\ position = 1 /\ end = 0 
        /\ final = FALSE /\ asked = {}
    BY DEF ApmInit
  <2>2. ~calling /\ loop \notin Kinds /\ loop \in LoopStates
    BY <2>1 DEF Kinds, LoopStates
  <2>3. calling \in BOOLEAN /\ final \in BOOLEAN
    BY <2>1
  <2>4. position \in Nat \ {0} /\ end \in Nat /\ asked \subseteq Collectors
    BY <2>1
  <2> QED
    BY <2>2, <2>3, <2>4 DEF RangeInv
<1> QED
  BY <1>5, <1>6 DEF LoopInvariant

-----------------------------------------------------------------------------
(* What the lists hold, by kind.                                           *)
LEMMA ListEntries ==
  ASSUME NEW l \in [Kinds -> Seq(Slots)]
  PROVE  \A c : c \in Range(l["db"]) \cup Range(l["redis"]) <=>
           \E k \in Kinds : \E i \in 1 .. Len(l[k]) : l[k][i] = c
<1>1. ASSUME NEW k \in Kinds PROVE Range(l[k]) = {l[k][i] : i \in 1 .. Len(l[k])}
  <2> DEFINE q == l[k]
  <2>1. q \in Seq(Slots)
    OBVIOUS
  <2> HIDE DEF q
  <2>2. Range(q) = {q[i] : i \in 1 .. Len(q)}
    BY <2>1, RangeEquality
  <2> QED
    BY <2>2 DEF q
<1>2. "db" \in Kinds /\ "redis" \in Kinds /\ \A k \in Kinds : k = "db" \/ k = "redis"
  BY DEF Kinds
<1>3. \A c : c \in Range(l["db"]) \cup Range(l["redis"]) <=> \E k \in Kinds : c \in Range(l[k])
  BY <1>2
<1> QED
  BY <1>1, <1>3

LEMMA AttachedEntries ==
  ASSUME ListInv
  PROVE  \A c : c \in Attached <=>
           /\ c # Hole /\ KindOf(c) \in Kinds
           /\ \E i \in 1 .. Len(attached[KindOf(c)]) : attached[KindOf(c)][i] = c
<1>1. \A c : c \in Attached <=>
        c # Hole /\ \E k \in Kinds : \E i \in 1 .. Len(attached[k]) : attached[k][i] = c
  BY ListEntries DEF ListInv, Attached, Entries
<1>2. \A k \in Kinds : \A i \in 1 .. Len(attached[k]) :
        attached[k][i] # Hole => KindOf(attached[k][i]) = k
  BY DEF ListInv
<1> QED
  BY <1>1, <1>2

LEMMA AttachedGrows ==
  ASSUME ListInv, NEW c \in HostCollectors, BeginAttach(c) \/ EndAttach(c)
  PROVE  Attached \subseteq Attached' /\ Attached' \subseteq Attached \cup {c}
<1>1. ListInv'
  BY ListAttach
<1>2. \A a : a \in Attached <=>
        a # Hole /\ \E k \in Kinds : \E i \in 1 .. Len(attached[k]) : attached[k][i] = a
  BY ListEntries DEF ListInv, Attached, Entries
<1>3. \A a : a \in Attached' <=>
        a # Hole /\ \E k \in Kinds : \E i \in 1 .. Len(attached'[k]) : attached'[k][i] = a
  BY <1>1, ListEntries DEF ListInv, Attached, Entries
<1>4. ASSUME NEW a \in Attached PROVE a \in Attached'
  <2>1. PICK k \in Kinds : \E i \in 1 .. Len(attached[k]) : attached[k][i] = a
    BY <1>2, <1>4
  <2>2. PICK i \in 1 .. Len(attached[k]) : attached[k][i] = a
    BY <2>1
  <2>3. i \in 1 .. Len(attached'[k]) /\ attached'[k][i] = a
    BY <1>2, <1>4, <2>2, AttachKeeps
  <2> QED
    BY <1>2, <1>3, <1>4, <2>3
<1>5. ASSUME NEW a \in Attached' PROVE a \in Attached \cup {c}
  <2>1. PICK k \in Kinds : \E i \in 1 .. Len(attached'[k]) : attached'[k][i] = a
    BY <1>3, <1>5
  <2>2. PICK i \in 1 .. Len(attached'[k]) : attached'[k][i] = a
    BY <2>1
  <2>3. a = c \/ (i \in 1 .. Len(attached[k]) /\ attached[k][i] = a)
    BY <1>3, <1>5, <2>2, AttachKeeps
  <2> QED
    BY <1>2, <1>3, <1>5, <2>3
<1> QED
  BY <1>4, <1>5

LEMMA LoopInvariantCorrect == ApmSpec => []LoopInvariant
  BY LoopInvariantInit, LoopInvariantStep, PTL DEF ApmSpec

(* Only Attach touches the lists.                                          *)
LEMMA ListsUnchanged ==
  ASSUME [ApmNext]_allVars, ~Attach
  PROVE  attached' = attached
<1>1. CASE MetricsLoop \/ CallShutdown \/ BufferStep \/ Halted \/ UNCHANGED allVars
  BY <1>1 DEF MetricsLoop, InLoop, CallShutdown, BufferStep, InBuffer, Halted, allVars, apmVars
<1>2. CASE \E h \in Hosts : Finishing(h)
  BY <1>2 DEF Finishing
<1> QED
  BY <1>1, <1>2 DEF ApmNext

(***************************************************************************)
(* The final collection, and every other, finds the connections of         *)
(* auto-discovery open: they are closed by the one caller that runs the    *)
(* function of the sync.Once, which has waited for the loop before.        *)
(***************************************************************************)
THEOREM ConnectionsOutliveLoopThm == ApmSpec => []ConnectionsOutliveLoop
<1>1. ApmInit => ConnectionsOutliveLoop
  <2> SUFFICES ASSUME ApmInit, NEW c \in Attached \cap AutoCollectors PROVE c \in open
    BY DEF ConnectionsOutliveLoop
  <2>1. LoopInvariant
    BY LoopInvariantInit
  <2>2. PICK k \in Kinds : \E i \in 1 .. Len(attached[k]) : attached[k][i] = c
    BY <2>1, AttachedEntries DEF LoopInvariant
  <2>3. CASE k = "db"
    <3>1. attached[k] = IF AutoDb \in open THEN <<AutoDb>> ELSE <<>>
      BY <2>3 DEF ApmInit
    <3> QED
      BY <2>2, <3>1
  <2>4. CASE k = "redis"
    <3>1. attached[k] = IF AutoRedis \in open THEN <<AutoRedis>> ELSE <<>>
      BY <2>4 DEF ApmInit
    <3> QED
      BY <2>2, <3>1
  <2> QED
    BY <2>3, <2>4 DEF Kinds
<1>2. /\ LoopInvariant /\ ShutdownInv /\ ConnectionsOutliveLoop /\ [ApmNext]_allVars
      => ConnectionsOutliveLoop'
  <2> SUFFICES ASSUME LoopInvariant, ShutdownInv, ConnectionsOutliveLoop, [ApmNext]_allVars,
                      loop # "done"
               PROVE  Attached' \cap AutoCollectors \subseteq open'
    BY LoopStaysDone DEF ConnectionsOutliveLoop
  <2>1. Attached' \cap AutoCollectors \subseteq Attached \cap AutoCollectors
    <3>1. CASE Attach
      <4>1. PICK c \in HostCollectors : BeginAttach(c) \/ EndAttach(c)
        BY <3>1 DEF Attach
      <4>2. Attached' \subseteq Attached \cup {c}
        BY <4>1, AttachedGrows DEF LoopInvariant
      <4> QED
        BY <4>2, ApmAssumption
    <3>2. CASE ~Attach
      BY <3>2, ListsUnchanged DEF Attached, Entries
    <3> QED
      BY <3>1, <3>2
  <2>2. open' = open
    <3>1. ASSUME NEW h \in Hosts, Finishing(h) PROVE open' = open
      <4>1. caller[h] # "close"
        BY DEF ShutdownInv, ProgressInv
      <4> QED
        BY <3>1, <4>1 DEF Finishing, JoinLoop, BufferStopped, CloseOne, FinishOnce, LeaveOnce
    <3>2. ASSUME NEW h \in Hosts, Shutdown(h) PROVE open' = open
      BY <3>2 DEF Shutdown
    <3>3. CASE Attach \/ MetricsLoop \/ BufferStep \/ Halted \/ UNCHANGED allVars
      BY <3>3 DEF Attach, MetricsLoop, InLoop, BufferStep, InBuffer, Halted, allVars, apmVars,
         shutdownVars
    <3> QED
      BY <3>1, <3>2, <3>3 DEF ApmNext, CallShutdown
  <2> QED
    BY <2>1, <2>2 DEF ConnectionsOutliveLoop
<1> QED
  BY <1>1, <1>2, LoopInvariantCorrect, ShutdownCorrect, PTL DEF ApmSpec

-----------------------------------------------------------------------------
(* The final collection.  What was due when Shutdown began lies within the *)
(* range the loop is in, and has been asked where the range has ended.     *)
InRange(kind) == \A c \in due : KindOf(c) = kind => \E i \in 1 .. end : attached[kind][i] = c
HasAsked(kind) == \A c \in due : KindOf(c) = kind => c \in asked

FinalInv ==
  /\ apmStopped => once # "new"
  /\ final => apmStopped
  /\ loop = "done" => final
  /\ due \subseteq Attached
  /\ final /\ loop \in Kinds => InRange(loop)
  /\ final /\ loop \in {"redis", "done"} => HasAsked("db")
  /\ final /\ loop = "done" => HasAsked("redis")

LEMMA RangeCovers ==
  ASSUME LoopInvariant, FinalInv, NEW kind \in Kinds, BeginRange(kind), UNCHANGED <<attached, due>>
  PROVE  InRange(kind)'
<1> SUFFICES ASSUME NEW c \in due, KindOf(c) = kind
             PROVE  \E i \in 1 .. Len(attached[kind]) : attached[kind][i] = c
  BY DEF InRange, BeginRange
<1> QED
  BY AttachedEntries DEF LoopInvariant, FinalInv

LEMMA RangeAsks ==
  ASSUME LoopInvariant, NEW kind \in Kinds, RangeEnds(kind), InRange(kind)
  PROVE  HasAsked(kind)
<1> SUFFICES ASSUME NEW c \in due, KindOf(c) = kind PROVE c \in asked
  BY DEF HasAsked
<1>1. PICK i \in 1 .. end : attached[kind][i] = c
  BY DEF InRange
<1>2. loop = kind /\ position > end /\ position \in Nat /\ end \in Nat
  BY DEF RangeEnds, LoopInvariant, RangeInv
<1>3. i < position
  BY <1>2
<1> QED
  BY <1>1, <1>2, <1>3 DEF LoopInvariant, RangeInv

LEMMA FinalLoopStep ==
  ASSUME LoopInvariant, FinalInv, MetricsLoop
  PROVE  FinalInv'
<1>1. UNCHANGED <<attached, apmStopped, due, once>>
  BY DEF MetricsLoop, InLoop, shutdownVars
<1>2. Attached' = Attached
  BY <1>1 DEF Attached, Entries
<1>k. "db" \in Kinds /\ "redis" \in Kinds /\ "system" \notin Kinds /\ "select" \notin Kinds
      /\ "done" \notin Kinds
  BY DEF Kinds
<1>3. CASE CollectSystem
  <2>1. loop' = "db" /\ final' = final
    BY <1>3 DEF CollectSystem, BeginRange
  <2>2. InRange("db")'
    BY <1>1, <1>3, <1>k, RangeCovers DEF CollectSystem
  <2> QED
    BY <1>1, <1>2, <2>1, <2>2 DEF FinalInv
<1>4. CASE CallCollect \/ ReturnCollect
  <2>1. /\ UNCHANGED <<loop, end, final>> /\ asked \subseteq asked' /\ loop \in Kinds
    BY <1>4 DEF CallCollect, ReturnCollect, LoopInvariant, RangeInv
  <2>2. \A k : (InRange(k) => InRange(k)') /\ (HasAsked(k) => HasAsked(k)')
    BY <1>1, <2>1 DEF InRange, HasAsked
  <2> QED
    BY <1>1, <1>2, <2>1, <2>2 DEF FinalInv
<1>5. CASE EndDbs
  <2>1. loop = "db" /\ loop' = "redis" /\ final' = final /\ asked' = asked
    BY <1>5 DEF EndDbs, BeginRange, RangeEnds
  <2>2. InRange("redis")'
    BY <1>1, <1>5, <1>k, RangeCovers DEF EndDbs
  <2>3. final => HasAsked("db")
    BY <1>5, <1>k, <2>1, RangeAsks DEF EndDbs, FinalInv
  <2>4. final => HasAsked("db")'
    BY <1>1, <2>1, <2>3 DEF HasAsked
  <2> QED
    BY <1>1, <1>2, <2>1, <2>2, <2>4 DEF FinalInv
<1>6. CASE EndCollection
  <2>1. /\ loop = "redis" /\ final' = final /\ asked' = asked
        /\ loop' = IF final THEN "done" ELSE "select"
    BY <1>6 DEF EndCollection, RangeEnds
  <2>2. final => HasAsked("db") /\ HasAsked("redis")
    BY <1>6, <1>k, <2>1, RangeAsks DEF EndCollection, FinalInv
  <2>3. final => HasAsked("db")' /\ HasAsked("redis")'
    BY <1>1, <2>1, <2>2 DEF HasAsked
  <2> QED
    BY <1>1, <1>2, <1>k, <2>1, <2>3 DEF FinalInv
<1>7. CASE MetricsTick \/ LoopSeesStop
  <2>1. loop' = "system" /\ (final' => apmStopped)
    BY <1>7 DEF MetricsTick, LoopSeesStop, BeginCollection
  <2> QED
    BY <1>1, <1>2, <1>k, <2>1 DEF FinalInv
<1> QED
  BY <1>3, <1>4, <1>5, <1>6, <1>7 DEF MetricsLoop, InLoop, Ship

LEMMA FinalStep ==
  ASSUME LoopInvariant, FinalInv, [ApmNext]_allVars
  PROVE  FinalInv'
<1>1. ASSUME NEW c \in HostCollectors, BeginAttach(c) \/ EndAttach(c),
             UNCHANGED <<loopVars, shutdownVars>>
      PROVE  FinalInv'
  <2>1. UNCHANGED <<loop, end, final, asked, apmStopped, due, once>>
    BY <1>1 DEF loopVars, shutdownVars
  <2>2. due \subseteq Attached'
    BY <1>1, AttachedGrows DEF LoopInvariant, FinalInv
  <2>3. ASSUME loop \in Kinds, InRange(loop) PROVE InRange(loop)'
    <3> SUFFICES ASSUME NEW d \in due, KindOf(d) = loop
                 PROVE  \E i \in 1 .. end : attached'[loop][i] = d
      BY <2>1 DEF InRange
    <3>1. PICK i \in 1 .. end : attached[loop][i] = d
      BY <2>3 DEF InRange
    <3>2. d # Hole
      BY DEF FinalInv, Attached
    <3>3. i \in 1 .. Len(attached[loop])
      BY <1>1, <2>3, AttachKeeps DEF LoopInvariant, RangeInv
    <3> QED
      BY <1>1, <2>3, <3>1, <3>2, <3>3, AttachKeeps DEF LoopInvariant
  <2>4. \A k : HasAsked(k) => HasAsked(k)'
    BY <2>1 DEF HasAsked
  <2> QED
    BY <2>1, <2>2, <2>3, <2>4 DEF FinalInv
<1>2. CASE Attach
  BY <1>1, <1>2 DEF Attach
<1>3. CASE MetricsLoop
  BY <1>3, FinalLoopStep
<1>4. ASSUME UNCHANGED <<attached, loopVars, apmStopped, due>>, once = "new" \/ once' # "new"
      PROVE  FinalInv'
  <2>1. UNCHANGED <<loop, end, final, asked>> /\ Attached' = Attached
    BY <1>4 DEF loopVars, Attached, Entries
  <2>2. \A k : (InRange(k) => InRange(k)') /\ (HasAsked(k) => HasAsked(k)')
    BY <1>4, <2>1 DEF InRange, HasAsked
  <2>3. apmStopped' => once' # "new"
    BY <1>4 DEF FinalInv
  <2> QED
    BY <1>4, <2>1, <2>2, <2>3 DEF FinalInv
<1>5. ASSUME NEW h \in Hosts, Shutdown(h), UNCHANGED <<attached, loopVars>>
      PROVE  FinalInv'
  <2>1. CASE once = "new"
    <3>1. ~final /\ loop # "done"
      BY <2>1 DEF FinalInv
    <3>2. UNCHANGED <<loop, final>> /\ due' = Attached /\ Attached' = Attached /\ once' = "running"
      BY <1>5, <2>1 DEF Shutdown, loopVars, Attached, Entries
    <3> QED
      BY <3>1, <3>2 DEF FinalInv
  <2>2. CASE once # "new"
    BY <1>4, <1>5, <2>2 DEF Shutdown
  <2> QED
    BY <2>1, <2>2
<1>6. ASSUME NEW h \in Hosts, Finishing(h) PROVE FinalInv'
  BY <1>4, <1>6 DEF Finishing, JoinLoop, BufferStopped, CloseOne, FinishOnce, LeaveOnce
<1>7. CASE BufferStep \/ Halted \/ UNCHANGED allVars
  BY <1>4, <1>7 DEF BufferStep, InBuffer, Halted, allVars, apmVars, shutdownVars
<1> QED
  BY <1>2, <1>3, <1>5, <1>6, <1>7 DEF ApmNext, CallShutdown

LEMMA FinalCorrect == ApmSpec => []FinalInv
<1>1. ApmInit => FinalInv
  BY DEF ApmInit, FinalInv, Kinds
<1>2. LoopInvariant /\ FinalInv /\ [ApmNext]_allVars => FinalInv'
  BY FinalStep
<1> QED
  BY <1>1, <1>2, LoopInvariantCorrect, PTL DEF ApmSpec

(***************************************************************************)
(* However long the lists and whenever the host attaches: the collection   *)
(* that ends the metrics loop has asked every collector that was attached  *)
(* when Shutdown was called.                                               *)
(***************************************************************************)
THEOREM FinalCollectionThm == ApmSpec => []FinalCollection
<1>1. LoopInvariant /\ FinalInv => FinalCollection
  <2> SUFFICES ASSUME LoopInvariant, FinalInv, loop = "done", NEW c \in due PROVE c \in asked
    BY DEF FinalCollection
  <2>1. KindOf(c) \in Kinds
    BY DEF KindOf, Kinds
  <2> QED
    BY <2>1 DEF FinalInv, HasAsked, Kinds
<1> QED
  BY <1>1, LoopInvariantCorrect, FinalCorrect, PTL

(***************************************************************************)
(* Type correctness of the runtime: the lists hold collectors and entries  *)
(* not yet written, and a collection asks collectors only.                 *)
(***************************************************************************)
THEOREM ApmTypeCorrect == ApmSpec => []ApmTypeOK
<1> DEFINE Rest == open \subseteq AutoCollectors /\ apmStopped \in BOOLEAN /\ panicked \in BOOLEAN
<1>1. ApmInit => Rest
  BY DEF ApmInit
<1>2. Rest /\ [ApmNext]_allVars => Rest'
  <2> SUFFICES ASSUME Rest, [ApmNext]_allVars PROVE Rest'
    OBVIOUS
  <2>1. CASE MetricsLoop
    <3>1. UNCHANGED <<open, apmStopped>>
      BY <2>1 DEF MetricsLoop, InLoop, shutdownVars
    <3>2. panicked' \in {panicked, TRUE}
      BY <2>1 DEF MetricsLoop, InLoop, Ship, CollectSystem, BeginRange, CallCollect, EndDbs,
         EndCollection, ReturnCollect, MetricsTick, LoopSeesStop, BeginCollection
    <3> QED
      BY <3>1, <3>2
  <2>2. ASSUME NEW h \in Hosts, Shutdown(h), UNCHANGED panicked PROVE Rest'
    BY <2>2 DEF Shutdown
  <2>3. ASSUME NEW h \in Hosts, Finishing(h) PROVE Rest'
    BY <2>3 DEF Finishing, JoinLoop, BufferStopped, CloseOne, FinishOnce, LeaveOnce
  <2>4. CASE Attach \/ BufferStep \/ Halted \/ UNCHANGED allVars
    BY <2>4 DEF Attach, BufferStep, InBuffer, Halted, allVars, apmVars, shutdownVars
  <2> QED
    BY <2>1, <2>2, <2>3, <2>4 DEF ApmNext, CallShutdown
<1>3. TypeOK /\ LoopInvariant /\ ShutdownInv /\ FinalInv /\ Rest => ApmTypeOK
  <2> SUFFICES ASSUME TypeOK, LoopInvariant, ShutdownInv, FinalInv, Rest PROVE ApmTypeOK
    OBVIOUS
  <2>1. due \subseteq Collectors
    <3> SUFFICES ASSUME NEW c \in due PROVE c \in Collectors
      OBVIOUS
    <3>1. PICK k \in Kinds : \E i \in 1 .. Len(attached[k]) : attached[k][i] = c
      BY AttachedEntries DEF LoopInvariant, FinalInv
    <3>2. PICK i \in 1 .. Len(attached[k]) : attached[k][i] = c
      BY <3>1
    <3>3. attached[k][i] \in Slots
      BY <3>2 DEF LoopInvariant, ListInv
    <3> QED
      BY <3>2, <3>3 DEF FinalInv, Attached, Slots
  <2> QED
    BY <2>1 DEF ApmTypeOK, LoopInvariant, ListInv, RangeInv, ShutdownInv, OnceInv, Slots
<1> HIDE DEF Rest
<1> QED
  BY <1>1, <1>2, <1>3, ApmImplementsBuffer, TypeCorrect, LoopInvariantCorrect, ShutdownCorrect,
     FinalCorrect, PTL DEF ApmSpec

-----------------------------------------------------------------------------
(* Delivery: the buffer behind a real flushFn behaves as Buffer, whose     *)
(* senders stay in flushFn for as long as they like; the transport behind  *)
(* the senders and the metrics loop behaves as Client; and what the two    *)
(* promise together.                                                       *)

(* The transport by itself: its theorems are those of ClientProofs.        *)
Transport == INSTANCE ClientProofs WITH MaxSends <- MaxPush

LEMMA DeliveryStepIsStep == [DeliveryNext]_deliveryVars => [Next]_vars
<1> SUFFICES ASSUME [DeliveryNext]_deliveryVars PROVE [Next]_vars
  OBVIOUS
<1>1. ASSUME NEW s \in Senders, SenderStep(s) PROVE [Next]_vars
  BY <1>1 DEF SenderStep, BeginUpload, EndUpload, Sender, Next
<1>2. CASE Push \/ Collector \/ Stop
  BY <1>2 DEF Next
<1>3. CASE \/ (Backend /\ UNCHANGED vars) \/ \E c \in OtherCallers : OtherStep(c)
           \/ Finish \/ UNCHANGED deliveryVars
  BY <1>3 DEF OtherStep, Finish, deliveryVars
<1> QED
  BY <1>1, <1>2, <1>3 DEF DeliveryNext

(***************************************************************************)
(* Retries, late answers, outages and metrics posts change nothing in the  *)
(* buffer but when its senders return, so all the theorems of BufferProofs *)
(* hold of it.                                                             *)
(***************************************************************************)
THEOREM DeliveryImplementsBuffer == DeliverySpec => Spec
BY DeliveryStepIsStep, PTL DEF DeliverySpec, Spec, DeliveryInit

-----------------------------------------------------------------------------
(* The other half: the senders are among the callers of the transport.     *)
LEMMA TransportAssumption == Transport!ClientAssumption
<1>1. IsFiniteSet(Callers)
  BY BufferAssumption, DeliveryAssumption, FS_Union DEF Callers
<1> QED
  BY <1>1, BufferAssumption
     DEF Transport!ClientAssumption, Transport!IsFiniteSet, IsFiniteSet

LEMMA TransportInit == DeliveryInit => Transport!ClientInit
BY DEF DeliveryInit, ClientInit, Transport!ClientInit

LEMMA BatchToSend == ASSUME TypeInv, batches # <<>> PROVE Head(batches) \in Batches
BY DEF TypeInv, TypeOK

(* A caller's step and the backend's are the same in either vocabulary.    *)
LEMMA SameCall ==
  ASSUME NEW c \in Callers, NEW b, Call(c, b) PROVE Transport!Call(c, b)
BY DEF Call, Transport!Call, Post, Transport!Post, Waiting, Transport!Waiting

LEMMA SameStep ==
  ASSUME NEW c \in Callers, ClientStep(c) PROVE Transport!ClientStep(c)
<1>1. ASSUME AttemptFailed(c) PROVE Transport!AttemptFailed(c)
  BY <1>1 DEF AttemptFailed, Transport!AttemptFailed, Post, Transport!Post,
              Return, Transport!Return
<1>2. Answers(c) = Transport!Answers(c)
  BY DEF Answers, Transport!Answers, Current, Transport!Current
<1>3. ASSUME Receive(c) PROVE Transport!Receive(c)
  BY <1>1, <1>2, <1>3 DEF Receive, Transport!Receive, Return, Transport!Return
<1>4. ASSUME TransportError(c) PROVE Transport!TransportError(c)
  BY <1>1, <1>2, <1>4 DEF TransportError, Transport!TransportError, Waiting, Transport!Waiting
<1> QED
  BY <1>3, <1>4 DEF ClientStep, Transport!ClientStep

LEMMA SameBackend == Backend => Transport!Backend
<1>1. ASSUME NEW r, NEW status, Answer(r, status) PROVE Transport!Answer(r, status)
  BY <1>1 DEF Answer, Transport!Answer, Current, Transport!Current
<1>2. ASSUME NEW r, Process(r) PROVE Transport!Process(r)
  BY <1>1, <1>2 DEF Process, Transport!Process, Status, Transport!Status,
                    counters, Transport!counters
<1> QED
  BY <1>2 DEF Backend, Transport!Backend

LEMMA TransportStep ==
  TypeInv /\ [DeliveryNext]_deliveryVars =>
    [Transport!ClientNext]_(Transport!clientVars)
<1> SUFFICES ASSUME TypeInv, [DeliveryNext]_deliveryVars
             PROVE  Transport!ClientNext \/ UNCHANGED Transport!clientVars
  OBVIOUS
<1>1. UNCHANGED uploadVars => UNCHANGED Transport!clientVars
  BY DEF uploadVars, Transport!clientVars, Transport!counters
<1>2. ASSUME NEW s \in Senders, BeginUpload(s) PROVE Transport!ClientNext
  <2>1. Head(batches) \in Batches /\ Call(s, Head(batches))
    BY <1>2, BatchToSend DEF BeginUpload, StartFlush
  <2> QED
    BY <2>1, SameCall DEF Transport!ClientNext, Callers, Bodies
<1>3. ASSUME NEW c \in Callers, ClientStep(c) PROVE Transport!ClientNext
  BY <1>3, SameStep DEF Transport!ClientNext
<1>4. ASSUME NEW s \in Senders, SenderStep(s)
      PROVE  Transport!ClientNext \/ UNCHANGED Transport!clientVars
  BY <1>1, <1>2, <1>3, <1>4 DEF SenderStep, EndUpload, Callers
<1>7. ASSUME NEW c \in OtherCallers, OtherStep(c) PROVE Transport!ClientNext
  <2>1. c \in Callers /\ NoEvents \in Bodies
    BY DEF Callers, Bodies
  <2>2. CASE BeginPost(c)
    BY <2>1, <2>2, SameCall DEF BeginPost, Transport!ClientNext
  <2> QED
    BY <1>3, <1>7, <2>1, <2>2 DEF OtherStep
<1>5. CASE Backend
  BY <1>5, SameBackend DEF Transport!ClientNext
<1>6. CASE UNCHANGED uploadVars \/ Finish \/ UNCHANGED deliveryVars
  BY <1>1, <1>6 DEF Finish, deliveryVars
<1> QED
  BY <1>4, <1>5, <1>6, <1>7 DEF DeliveryNext

(***************************************************************************)
(* The senders use the transport as any caller does, with their batches as *)
(* bodies and the metrics loop beside them, so the theorems of             *)
(* ClientProofs hold of it.                                                *)
(***************************************************************************)
THEOREM DeliveryImplementsClient == DeliverySpec => Transport!ClientSpec
<1>1. DeliverySpec => []TypeInv
  <2>1. Spec => []TypeInv
    BY TypeInit, TypeStep, PTL DEF Spec
  <2> QED
    BY <2>1, DeliveryImplementsBuffer, PTL
<1> QED
  BY <1>1, TransportInit, TransportStep, PTL DEF DeliverySpec, Transport!ClientSpec
-----------------------------------------------------------------------------
(* What the transport's invariant says, in the names of Delivery.          *)
LEMMA UploadShape ==
  ASSUME Transport!LedgerInv
  PROVE  /\ body \in Seq(Bodies) /\ Len(body) \in Nat /\ DOMAIN body = 1 .. Len(body)
         /\ send \in [Callers -> 0 .. MaxPush] /\ attempt \in [Callers -> 0 .. 2]
         /\ \A c \in Callers : send[c] <= Len(body) /\ (send[c] # 0 <=> Waiting(c))
         /\ \A c, d \in Callers : Waiting(c) /\ send[c] = send[d] => c = d
         /\ \A r \in stored : r \in (1 .. MaxPush) \X (1 .. 2) /\ r[1] <= Len(body)
         /\ successCount \in Nat /\ errorCount \in Nat /\ rejectCount \in Nat
<1>1. Transport!ClientTypeOK /\ Transport!SendsApart /\ Transport!WireIsHonest
  BY DEF Transport!LedgerInv, Transport!ClientShape
<1>2. /\ body \in Seq(Bodies)
      /\ send \in [Callers -> 0 .. MaxPush] /\ attempt \in [Callers -> 0 .. 2]
      /\ stored \subseteq (1 .. MaxPush) \X (1 .. 2)
      /\ successCount \in Nat /\ errorCount \in Nat /\ rejectCount \in Nat
  BY <1>1 DEF Transport!ClientTypeOK
<1>3. /\ \A c \in Callers : send[c] <= Len(body) /\ (send[c] # 0 <=> Waiting(c))
      /\ \A c, d \in Callers : Waiting(c) /\ send[c] = send[d] => c = d
  BY <1>1 DEF Transport!SendsApart, Transport!Waiting, Waiting
<1>4. \A r \in stored : r \in (1 .. MaxPush) \X (1 .. 2) /\ r[1] <= Len(body)
  BY <1>1, <1>2 DEF Transport!WireIsHonest
<1>5. Len(body) \in Nat /\ DOMAIN body = 1 .. Len(body)
  BY <1>2, LenProperties
<1> QED
  BY <1>2, <1>3, <1>4, <1>5

LEMMA UploadEnds ==
  ASSUME Transport!LedgerInv, NEW c \in Callers, ClientStep(c)
  PROVE  /\ Waiting(c) /\ hasToken /\ UNCHANGED <<hasToken, body, stored>>
         /\ \/ /\ UNCHANGED <<send, counters>>
               /\ \A d \in Callers : Waiting(d)' <=> Waiting(d)
            \/ /\ Return(c)
               /\ \/ /\ IsStored(send[c]) /\ successCount' = successCount + 1
                     /\ UNCHANGED <<errorCount, rejectCount>>
                  \/ errorCount' = errorCount + 1 /\ UNCHANGED <<successCount, rejectCount>>
                  \/ rejectCount' = rejectCount + 1 /\ UNCHANGED <<successCount, errorCount>>
<1>1. Transport!ClientShape /\ Transport!ClientStep(c)
  BY SameStep DEF Transport!LedgerInv
<1> QED
  BY <1>1, TransportAssumption, Transport!RetriesOrReturns
     DEF Transport!Waiting, Waiting, Transport!counters, counters,
         Transport!Return, Return, Transport!IsStored, IsStored

(* The same of a call: one more send, which is over at once or has begun.  *)
LEMMA CallMoves ==
  ASSUME Transport!LedgerInv, NEW c \in Callers, NEW b \in Bodies, Call(c, b),
         NEW new, new = Len(body) + 1
  PROVE  /\ UNCHANGED <<hasToken, stored, successCount, rejectCount>>
         /\ new \notin DOMAIN body /\ DOMAIN body' = DOMAIN body \cup {new}
         /\ body'[new] = b /\ \A n \in DOMAIN body : body'[n] = body[n]
         /\ ~Waiting(c)
         /\ Waiting(c)' => send'[c] = new
         /\ \A d \in Callers : d # c => (Waiting(d)' <=> Waiting(d)) /\ send'[d] = send[d]
         /\ \/ /\ hasToken => errorCount' = errorCount + 1
               /\ ~Waiting(c)' /\ Finished' = Finished \cup {new}
            \/ /\ hasToken /\ UNCHANGED errorCount
               /\ Waiting(c)' /\ Finished' = Finished
<1>1. /\ UNCHANGED <<hasToken, stored, successCount, rejectCount>>
      /\ body' = Append(body, b) /\ ~Waiting(c)
  BY DEF Call
<1>2. /\ Len(body) \in Nat /\ DOMAIN body = 1 .. Len(body) /\ new \notin DOMAIN body
      /\ Len(body') = new /\ DOMAIN body' = DOMAIN body \cup {new}
      /\ body'[new] = b /\ \A n \in DOMAIN body : body'[n] = body[n]
  <2>1. body \in Seq(Bodies) /\ Len(body) \in Nat /\ DOMAIN body = 1 .. Len(body)
    BY UploadShape
  <2>2. body' \in Seq(Bodies)
    BY <1>1, <2>1
  <2>3. DOMAIN body' = 1 .. Len(body')
    BY <2>2, LenProperties
  <2>4. Len(body') = new /\ body'[new] = b /\ \A n \in 1 .. Len(body) : body'[n] = body[n]
    BY <1>1, <2>1, AppendProperties
  <2> QED
    BY <2>1, <2>3, <2>4
<1>3. /\ \A d \in Callers : d # c => (Waiting(d)' <=> Waiting(d)) /\ send'[d] = send[d]
      /\ \/ (hasToken => errorCount' = errorCount + 1) /\ ~Waiting(c)'
         \/ hasToken /\ UNCHANGED errorCount /\ Waiting(c)' /\ send'[c] = new
  BY UploadShape DEF Call, Post, Waiting
<1>4. \A d \in Callers : send[d] # new
  BY <1>2, UploadShape
<1>5. Finished = DOMAIN body \ {send[d] : d \in Active}
  BY <1>2 DEF Finished
<1>6. Finished' = DOMAIN body' \ {send'[d] : d \in Active'}
  BY <1>2 DEF Finished
<1>7. CASE ~Waiting(c)'
  <2>1. {send'[d] : d \in Active'} = {send[d] : d \in Active}
    BY <1>1, <1>3, <1>7 DEF Active
  <2>2. Finished' = Finished \cup {new}
    BY <1>2, <1>4, <1>5, <1>6, <2>1 DEF Active
  <2> QED
    BY <1>1, <1>2, <1>3, <1>7, <2>2
<1>8. CASE hasToken /\ UNCHANGED errorCount /\ Waiting(c)' /\ send'[c] = new
  <2>1. {send'[d] : d \in Active'} = {send[d] : d \in Active} \cup {new}
    BY <1>1, <1>3, <1>8 DEF Active
  <2>2. Finished' = Finished
    BY <1>2, <1>5, <1>6, <2>1
  <2> QED
    BY <1>1, <1>2, <1>3, <1>8, <2>2
<1> QED
  BY <1>3, <1>7, <1>8

(* A send that returns is finished, and no other is.                       *)
LEMMA ReturnMoves ==
  ASSUME Transport!LedgerInv, NEW c \in Callers, Waiting(c), Return(c), UNCHANGED body
  PROVE  /\ ~Waiting(c)' /\ send[c] \in DOMAIN body
         /\ \A d \in Callers : d # c => (Waiting(d)' <=> Waiting(d)) /\ send'[d] = send[d]
         /\ send[c] \notin Finished /\ Finished' = Finished \cup {send[c]}
<1>1. /\ ~Waiting(c)'
      /\ \A d \in Callers : d # c => (Waiting(d)' <=> Waiting(d)) /\ send'[d] = send[d]
  BY UploadShape DEF Return, Waiting
<1>2. /\ send[c] \in 1 .. Len(body) /\ DOMAIN body = 1 .. Len(body)
      /\ \A d \in Callers : Waiting(d) /\ send[d] = send[c] => d = c
  BY UploadShape
<1>3. {send[d] : d \in Active} = {send'[d] : d \in Active'} \cup {send[c]}
  BY <1>1 DEF Active
<1>4. send[c] \notin {send'[d] : d \in Active'}
  BY <1>1, <1>2 DEF Active
<1>5. send[c] \notin Finished /\ Finished' = Finished \cup {send[c]}
  BY <1>2, <1>3, <1>4 DEF Finished
<1> QED
  BY <1>1, <1>2, <1>5

(* Where the two components meet: what a sender waits for is the batch it  *)
(* has in flight, what the others wait for is a metrics post, and no two   *)
(* sends have an event in common.                                          *)
EventsIn(N) == UNION {Range(body[n]) : n \in N}

UploadsMatch ==
  \A s \in Senders : Waiting(s) => sender[s] = "flush" /\ body[send[s]] = inflight[s]
PostsMatch   == \A c \in OtherCallers : Waiting(c) => body[send[c]] = NoEvents
BodiesTaken  == EventsIn(DOMAIN body) = InSenders \cup flushed
BodiesApart  == \A m, n \in DOMAIN body : m # n => Range(body[m]) \cap Range(body[n]) = {}

MeetInv == UploadsMatch /\ PostsMatch /\ BodiesTaken /\ BodiesApart

LEMMA StartMoves ==
  ASSUME OrderInv, NEW s \in Senders, StartFlush(s)
  PROVE  /\ Head(batches) \in Batches
         /\ sender[s] = "recv" /\ sender'[s] = "flush" /\ inflight'[s] = Head(batches)
         /\ \A t \in Senders : t # s => sender'[t] = sender[t] /\ inflight'[t] = inflight[t]
         /\ InSenders' = InSenders \cup Range(Head(batches))
         /\ UNCHANGED <<flushed, sentBatches>>
         /\ Range(Head(batches)) \cap (InSenders \cup flushed) = {}
<1>1. /\ TypeInv /\ batches # <<>> /\ inflight[s] = <<>>
      /\ inflight \in [Senders -> Batches \cup {<<>>}]
      /\ sender \in [Senders -> SenderStates]
      /\ Precedes(InSenders \cup flushed, InEgress)
  BY OrderParts DEF OrderInv, StopInv, PoolInv, TypeInv, TypeOK, StartFlush
<1>2. Head(batches) \in Batches
  BY <1>1, BatchToSend
<1>3. Range(Head(batches)) \subseteq InEgress
  BY <1>1, EgressTail DEF StartFlush
<1>4. (InSenders \cup flushed) \cap InEgress = {}
  BY <1>1, OrderTypes, PrecedesDisjoint
<1>5. /\ inflight'[s] = Head(batches) /\ sender'[s] = "flush" /\ sender[s] = "recv"
      /\ \A t \in Senders : t # s => sender'[t] = sender[t] /\ inflight'[t] = inflight[t]
  BY <1>1 DEF StartFlush
<1>6. InSenders' = InSenders \cup Range(Head(batches))
  BY <1>1, <1>5, RangeOfEmpty DEF InSenders
<1> QED
  BY <1>2, <1>3, <1>4, <1>5, <1>6 DEF StartFlush

LEMMA EndMoves ==
  ASSUME OrderInv, NEW s \in Senders, EndFlush(s)
  PROVE  /\ sender[s] = "flush" /\ sender'[s] = "recv" /\ sentBatches' = sentBatches + 1
         /\ \A t \in Senders : t # s => sender'[t] = sender[t] /\ inflight'[t] = inflight[t]
         /\ InSenders' \cup flushed' = InSenders \cup flushed
<1>1. /\ inflight \in [Senders -> Batches \cup {<<>>}]
      /\ sender \in [Senders -> SenderStates]
  BY DEF OrderInv, StopInv, TypeInv, TypeOK
<1>2. /\ sender[s] = "flush" /\ sender'[s] = "recv" /\ inflight'[s] = <<>>
      /\ \A t \in Senders : t # s => sender'[t] = sender[t] /\ inflight'[t] = inflight[t]
      /\ flushed' = flushed \cup Range(inflight[s]) /\ sentBatches' = sentBatches + 1
  BY <1>1 DEF EndFlush
<1>3. InSenders' \cup Range(inflight[s]) = InSenders
  BY <1>2, RangeOfEmpty DEF InSenders
<1> QED
  BY <1>2, <1>3

(* The steps of the buffer in which no batch changes hands.                *)
Quiet ==
  /\ UNCHANGED <<uploadVars, inflight, flushed, sentBatches>>
  /\ \A s \in Senders : sender'[s] = "flush" <=> sender[s] = "flush"

LEMMA QuietSteps ==
  ASSUME OrderInv,
         \/ (Push \/ Collector \/ Stop) /\ UNCHANGED uploadVars
         \/ \E s \in Senders : ExitSender(s) /\ UNCHANGED uploadVars
         \/ Finish \/ UNCHANGED deliveryVars
  PROVE  Quiet
<1>1. CASE (Push \/ Collector \/ Stop) /\ UNCHANGED uploadVars
  BY <1>1 DEF Quiet, Push, Collector, CollectEvent, Tick, SeeStop, Dispatch, DispatchSend,
     DispatchStop, DispatchDefault, GaugeWait, GaugeDrop, WaitSend, WaitStop, Handover, Abandon,
     Drain, DrainEvent, DrainEmpty, CloseBatches, TakeEvent, Stop, BeginStop,
     JoinCollector, JoinSenders, senderVars
<1>2. CASE \E s \in Senders : ExitSender(s) /\ UNCHANGED uploadVars
  BY <1>2 DEF Quiet, ExitSender, OrderInv, StopInv, TypeInv, TypeOK
<1>3. CASE Finish \/ UNCHANGED deliveryVars
  BY <1>3 DEF Quiet, Finish, deliveryVars, vars, senderVars
<1> QED
  BY <1>1, <1>2, <1>3

LEMMA MeetInit == DeliveryInit => MeetInv
<1> SUFFICES ASSUME DeliveryInit PROVE MeetInv
  OBVIOUS
<1>1. /\ body = <<>> /\ flushed = {} /\ \A s \in Senders : inflight[s] = <<>>
      /\ \A c \in Callers : ~Waiting(c)
  BY DEF DeliveryInit, Init, ClientInit, Waiting
<1>2. InSenders = {} /\ DOMAIN body = {}
  BY <1>1, RangeOfEmpty DEF InSenders
<1> QED
  BY <1>1, <1>2 DEF MeetInv, UploadsMatch, PostsMatch, BodiesTaken, BodiesApart, EventsIn, Callers

(* A new send joins the others, and what is in it no other has.            *)
LEMMA MeetCall ==
  ASSUME Transport!LedgerInv, MeetInv, NEW c \in Callers, NEW b \in Bodies, Call(c, b),
         Range(b) \cap EventsIn(DOMAIN body) = {}
  PROVE  /\ EventsIn(DOMAIN body)' = EventsIn(DOMAIN body) \cup Range(b)
         /\ BodiesApart'
         /\ Waiting(c)' => body'[send'[c]] = b
         /\ \A d \in Callers : d # c /\ Waiting(d)' =>
              Waiting(d) /\ send'[d] = send[d] /\ body'[send'[d]] = body[send[d]]
<1>0. PICK new : new = Len(body) + 1
  OBVIOUS
<1>1. /\ new \notin DOMAIN body /\ DOMAIN body' = DOMAIN body \cup {new}
      /\ body'[new] = b /\ \A n \in DOMAIN body : body'[n] = body[n]
      /\ Waiting(c)' => send'[c] = new
      /\ \A d \in Callers : d # c => (Waiting(d)' <=> Waiting(d)) /\ send'[d] = send[d]
  BY <1>0, CallMoves
<1>2. \A d \in Callers : Waiting(d) => send[d] \in DOMAIN body
  BY UploadShape
<1>3. EventsIn(DOMAIN body)' = EventsIn(DOMAIN body) \cup Range(b)
  BY <1>1 DEF EventsIn
<1>4. \A n \in DOMAIN body : Range(body[n]) \cap Range(b) = {}
  BY DEF EventsIn
<1>5. BodiesApart'
  BY <1>1, <1>4 DEF MeetInv, BodiesApart
<1> QED
  BY <1>1, <1>2, <1>3, <1>5

LEMMA MeetBegin ==
  ASSUME OrderInv, Transport!LedgerInv, MeetInv, NEW s \in Senders, BeginUpload(s)
  PROVE  MeetInv'
<1> DEFINE h == Head(batches)
<1>1. /\ h \in Batches /\ sender'[s] = "flush" /\ inflight'[s] = h
      /\ \A t \in Senders : t # s => sender'[t] = sender[t] /\ inflight'[t] = inflight[t]
      /\ InSenders' = InSenders \cup Range(h) /\ flushed' = flushed
      /\ Range(h) \cap (InSenders \cup flushed) = {}
      /\ Call(s, h)
  BY StartMoves DEF BeginUpload
<1>2. s \in Callers /\ h \in Bodies
  BY <1>1 DEF Callers, Bodies
<1> HIDE DEF h
<1>3. /\ EventsIn(DOMAIN body)' = EventsIn(DOMAIN body) \cup Range(h)
      /\ BodiesApart'
      /\ Waiting(s)' => body'[send'[s]] = h
      /\ \A d \in Callers : d # s /\ Waiting(d)' =>
           Waiting(d) /\ send'[d] = send[d] /\ body'[send'[d]] = body[send[d]]
  BY <1>1, <1>2, MeetCall DEF MeetInv, BodiesTaken
<1>4. UploadsMatch'
  BY <1>1, <1>3 DEF MeetInv, UploadsMatch, Callers
<1>5. PostsMatch'
  BY <1>3, DeliveryAssumption DEF MeetInv, PostsMatch, Callers
<1>6. BodiesTaken'
  BY <1>1, <1>3 DEF MeetInv, BodiesTaken
<1> QED
  BY <1>3, <1>4, <1>5, <1>6 DEF MeetInv

LEMMA MeetPost ==
  ASSUME Transport!LedgerInv, MeetInv, NEW c \in OtherCallers, BeginPost(c), UNCHANGED vars
  PROVE  MeetInv'
<1>1. c \in Callers /\ NoEvents \in Bodies /\ Range(NoEvents) = {} /\ Call(c, NoEvents)
  BY RangeOfEmpty DEF Callers, Bodies, NoEvents, BeginPost
<1>2. /\ EventsIn(DOMAIN body)' = EventsIn(DOMAIN body)
      /\ BodiesApart'
      /\ Waiting(c)' => body'[send'[c]] = NoEvents
      /\ \A d \in Callers : d # c /\ Waiting(d)' =>
           Waiting(d) /\ send'[d] = send[d] /\ body'[send'[d]] = body[send[d]]
  BY <1>1, MeetCall
<1>3. UNCHANGED <<sender, inflight, flushed, InSenders>>
  BY DEF vars, senderVars, InSenders
<1>4. UploadsMatch'
  BY <1>2, <1>3, DeliveryAssumption DEF MeetInv, UploadsMatch, Callers
<1>5. PostsMatch'
  BY <1>2 DEF MeetInv, PostsMatch, Callers
<1>6. BodiesTaken'
  BY <1>2, <1>3 DEF MeetInv, BodiesTaken
<1> QED
  BY <1>2, <1>4, <1>5, <1>6 DEF MeetInv

LEMMA MeetEnd ==
  ASSUME OrderInv, Transport!LedgerInv, MeetInv, NEW s \in Senders, EndUpload(s)
  PROVE  MeetInv'
<1>1. /\ ~Waiting(s) /\ UNCHANGED <<body, send, attempt>>
      /\ InSenders' \cup flushed' = InSenders \cup flushed
      /\ \A t \in Senders : t # s => sender'[t] = sender[t] /\ inflight'[t] = inflight[t]
  BY EndMoves DEF EndUpload, uploadVars
<1>2. UploadsMatch' /\ PostsMatch'
  BY <1>1 DEF MeetInv, UploadsMatch, PostsMatch, Waiting
<1>3. BodiesTaken' /\ BodiesApart'
  BY <1>1 DEF MeetInv, BodiesTaken, BodiesApart, EventsIn
<1> QED
  BY <1>2, <1>3 DEF MeetInv

LEMMA MeetClient ==
  ASSUME Transport!LedgerInv, MeetInv, NEW c \in Callers, ClientStep(c), UNCHANGED vars
  PROVE  MeetInv'
<1>1. /\ UNCHANGED <<body, sender, inflight, flushed, InSenders>>
      /\ \A d \in Callers : Waiting(d)' => Waiting(d) /\ send'[d] = send[d]
  BY UploadEnds, UploadShape DEF vars, senderVars, InSenders, Return, Waiting
<1>2. UploadsMatch' /\ PostsMatch'
  BY <1>1 DEF MeetInv, UploadsMatch, PostsMatch, Callers
<1>3. BodiesTaken' /\ BodiesApart'
  BY <1>1 DEF MeetInv, BodiesTaken, BodiesApart, EventsIn
<1> QED
  BY <1>2, <1>3 DEF MeetInv

LEMMA MeetQuiet ==
  ASSUME MeetInv, UNCHANGED <<body, send, attempt, inflight, flushed>>,
         \A s \in Senders : sender'[s] = "flush" <=> sender[s] = "flush"
  PROVE  MeetInv'
BY DEF MeetInv, UploadsMatch, PostsMatch, BodiesTaken, BodiesApart, EventsIn, InSenders, Waiting
-----------------------------------------------------------------------------
(* The accounts: verdicts against sentBatches, which lags by the senders   *)
(* that have a verdict and have yet to count, and the finished metrics     *)
(* posts; and the events of sends without a trace in the backend against   *)
(* errors and rejects.                                                     *)
Judged    == {s \in Senders : sender[s] = "flush" /\ ~Waiting(s)}
LostSends == {n \in Finished : ~IsStored(n)}

JudgedExactly ==
  hasToken =>
    successCount + errorCount + rejectCount =
      sentBatches + Cardinality(Judged) + Cardinality(FinishedPosts)
LostIsCounted ==
  hasToken => Cardinality(EventsIn(LostSends)) <= BatchSize * (errorCount + rejectCount)

LEMMA JudgedType ==
  /\ IsFiniteSet(Judged) /\ Cardinality(Judged) \in Nat
  /\ Cardinality(Senders) \in Nat /\ Cardinality(Judged) <= Cardinality(Senders)
<1>1. Judged \in SUBSET Senders
  BY DEF Judged
<1> QED
  BY <1>1, BufferAssumption, FS_Subset, FS_CardinalityType

LEMMA PostsType ==
  ASSUME Transport!LedgerInv
  PROVE  IsFiniteSet(FinishedPosts) /\ Cardinality(FinishedPosts) \in Nat
<1>1. FinishedPosts \in SUBSET (1 .. Len(body)) /\ Len(body) \in Nat
  BY UploadShape DEF FinishedPosts, Posts
<1>2. IsFiniteSet(1 .. Len(body))
  BY <1>1, FS_Interval
<1> QED
  BY <1>1, <1>2, FS_Subset, FS_CardinalityType

LEMMA BodyShape == ASSUME NEW b \in Bodies PROVE b \in Seq(1 .. MaxPush)
<1>1. CASE b \in Batches
  BY <1>1 DEF Batches
<1>2. CASE b = <<>>
  BY <1>2
<1> QED
  BY <1>1, <1>2 DEF Bodies, NoEvents

(* Which events a set of sends stands for, and how many one send adds.     *)
LEMMA EventsOfSends ==
  ASSUME Transport!LedgerInv, NEW N \in SUBSET DOMAIN body
  PROVE  IsFiniteSet(EventsIn(N)) /\ Cardinality(EventsIn(N)) \in Nat
<1>1. \A n \in DOMAIN body : body[n] \in Seq(1 .. MaxPush)
  <2>1. \A n \in DOMAIN body : body[n] \in Bodies
    BY UploadShape
  <2> QED
    BY <2>1, BodyShape
<1>2. EventsIn(N) \in SUBSET (1 .. MaxPush)
  <2>1. \A n \in DOMAIN body : Range(body[n]) \subseteq 1 .. MaxPush
    BY <1>1, RangeOfSeq
  <2> QED
    BY <2>1 DEF EventsIn
<1>3. IsFiniteSet(1 .. MaxPush)
  BY BufferAssumption, FS_Interval
<1> QED
  BY <1>2, <1>3, FS_Subset, FS_CardinalityType

LEMMA LostAreSends ==
  ASSUME Transport!LedgerInv
  PROVE  LostSends \in SUBSET DOMAIN body
BY UploadShape DEF LostSends, Finished

LEMMA BodySet ==
  ASSUME NEW b \in Bodies
  PROVE  IsFiniteSet(Range(b)) /\ Cardinality(Range(b)) \in 0 .. BatchSize
<1>1. b \in Seq(1 .. MaxPush)
  BY BodyShape
<1>2. Range(b) \in SUBSET (1 .. MaxPush) /\ IsFiniteSet(1 .. MaxPush)
  BY <1>1, RangeOfSeq, BufferAssumption, FS_Interval
<1>3. IsFiniteSet(Range(b)) /\ Cardinality(Range(b)) \in Nat
  BY <1>2, FS_Subset, FS_CardinalityType
<1>4. CASE b \in Batches
  BY <1>3, <1>4, BatchIsSmall, BufferAssumption
<1>5. CASE b = NoEvents
  BY <1>5, RangeOfEmpty, FS_EmptySet, BufferAssumption DEF NoEvents
<1> QED
  BY <1>3, <1>4, <1>5 DEF Bodies

LEMMA UnionBound ==
  ASSUME NEW S, NEW T, IsFiniteSet(S), IsFiniteSet(T), NEW U, U \subseteq S \cup T
  PROVE  /\ IsFiniteSet(U) /\ Cardinality(U) \in Nat
         /\ Cardinality(U) <= Cardinality(S) + Cardinality(T)
<1>1. /\ IsFiniteSet(S \cup T) /\ IsFiniteSet(S \cap T)
      /\ Cardinality(S \cup T) = Cardinality(S) + Cardinality(T) - Cardinality(S \cap T)
  BY FS_Union, FS_Intersection
<1>2. /\ Cardinality(S) \in Nat /\ Cardinality(T) \in Nat /\ Cardinality(S \cap T) \in Nat
  BY <1>1, FS_CardinalityType
<1>3. /\ IsFiniteSet(U) /\ Cardinality(U) <= Cardinality(S \cup T)
      /\ Cardinality(U) \in Nat
  BY <1>1, FS_Subset, FS_CardinalityType
<1> QED
  BY <1>1, <1>2, <1>3

LEMMA LossBound ==
  ASSUME Transport!LedgerInv, LostIsCounted, UNCHANGED hasToken, NEW b \in Bodies,
         errorCount' \in Nat, rejectCount' \in Nat,
         \/ /\ EventsIn(LostSends)' \subseteq EventsIn(LostSends)
            /\ errorCount' + rejectCount' = errorCount + rejectCount
         \/ /\ EventsIn(LostSends)' \subseteq EventsIn(LostSends) \cup Range(b)
            /\ errorCount' + rejectCount' = errorCount + rejectCount + 1
  PROVE  LostIsCounted'
<1> SUFFICES ASSUME hasToken
             PROVE  Cardinality(EventsIn(LostSends)') <= BatchSize * (errorCount' + rejectCount')
  BY DEF LostIsCounted
<1> DEFINE E == EventsIn(LostSends)
           F == EventsIn(LostSends)'
           m == errorCount + rejectCount
<1>1. /\ IsFiniteSet(E) /\ Cardinality(E) \in Nat /\ m \in Nat /\ BatchSize \in Nat
      /\ Cardinality(E) <= BatchSize * m
  BY LostAreSends, EventsOfSends, UploadShape, BufferAssumption DEF LostIsCounted
<1>2. BatchSize * (m + 1) = BatchSize * m + BatchSize /\ BatchSize * m \in Nat
  BY <1>1, OneMoreBatch
<1>3. IsFiniteSet(Range(b)) /\ Cardinality(Range(b)) \in 0 .. BatchSize
  BY BodySet
<1>4. \/ F \subseteq E /\ errorCount' + rejectCount' = m
      \/ F \subseteq E \cup Range(b) /\ errorCount' + rejectCount' = m + 1
  OBVIOUS
<1> HIDE DEF E, F, m
<1>5. CASE F \subseteq E /\ errorCount' + rejectCount' = m
  <2>1. Cardinality(F) <= Cardinality(E) /\ Cardinality(F) \in Nat
    BY <1>1, <1>5, FS_Subset, FS_CardinalityType
  <2>2. Cardinality(F) <= BatchSize * m
    BY <1>1, <1>2, <2>1
  <2> QED
    BY <1>5, <2>2 DEF F
<1>6. CASE F \subseteq E \cup Range(b) /\ errorCount' + rejectCount' = m + 1
  <2>1. Cardinality(F) <= Cardinality(E) + Cardinality(Range(b)) /\ Cardinality(F) \in Nat
    BY <1>1, <1>3, <1>6, UnionBound
  <2>2. Cardinality(F) <= BatchSize * (m + 1)
    BY <1>1, <1>2, <1>3, <2>1
  <2> QED
    BY <1>6, <2>2 DEF F
<1> QED
  BY <1>4, <1>5, <1>6

AccountInv == JudgedExactly /\ LostIsCounted

LEMMA AccountInit == DeliveryInit => AccountInv
<1> SUFFICES ASSUME DeliveryInit PROVE AccountInv
  OBVIOUS
<1>1. Judged = {} /\ FinishedPosts = {} /\ EventsIn(LostSends) = {}
  BY DEF DeliveryInit, Init, ClientInit, Judged, EventsIn, LostSends, Finished, FinishedPosts
<1>2. Cardinality({}) = 0
  BY FS_EmptySet
<1>3. successCount = 0 /\ errorCount = 0 /\ rejectCount = 0 /\ sentBatches = 0
  BY DEF DeliveryInit, Init, ClientInit
<1> QED
  BY <1>1, <1>2, <1>3, BufferAssumption DEF AccountInv, JudgedExactly, LostIsCounted

LEMMA CountersType ==
  ASSUME Transport!LedgerInv
  PROVE  successCount \in Nat /\ errorCount \in Nat /\ rejectCount \in Nat
BY UploadShape

(* A call that is over at once has lost its payload and is an error; one   *)
(* that has begun has lost nothing yet.                                    *)
LEMMA CallLoses ==
  ASSUME Transport!LedgerInv, Transport!LedgerInv', LostIsCounted,
         NEW c \in Callers, NEW b \in Bodies, Call(c, b)
  PROVE  LostIsCounted'
<1> DEFINE new == Len(body) + 1
<1>1. /\ UNCHANGED <<hasToken, stored, successCount, rejectCount>>
      /\ body'[new] = b /\ \A n \in DOMAIN body : body'[n] = body[n]
      /\ \/ (hasToken => errorCount' = errorCount + 1) /\ Finished' = Finished \cup {new}
         \/ UNCHANGED errorCount /\ Finished' = Finished
  BY CallMoves
<1> HIDE DEF new
<1>2. errorCount' \in Nat /\ rejectCount' \in Nat /\ errorCount \in Nat /\ rejectCount \in Nat
  <2>1. Transport!ClientTypeOK'
    BY DEF Transport!LedgerInv, Transport!ClientShape
  <2> QED
    BY <2>1, CountersType DEF Transport!ClientTypeOK
<1>3. LostSends \subseteq DOMAIN body
  BY LostAreSends
<1>4. CASE (hasToken => errorCount' = errorCount + 1) /\ Finished' = Finished \cup {new}
  <2>1. LostSends' \subseteq LostSends \cup {new}
    BY <1>1, <1>4 DEF LostSends, IsStored
  <2>2. \A n \in LostSends' : (n \in LostSends /\ body'[n] = body[n]) \/ body'[n] = b
    BY <1>1, <1>3, <2>1
  <2>3. EventsIn(LostSends)' \subseteq EventsIn(LostSends) \cup Range(b)
    BY <2>2 DEF EventsIn
  <2>4. CASE hasToken
    BY <1>1, <1>2, <1>4, <2>3, <2>4, LossBound
  <2> QED
    BY <1>1, <2>4 DEF LostIsCounted
<1>5. CASE UNCHANGED errorCount /\ Finished' = Finished
  <2>1. LostSends' = LostSends
    BY <1>1, <1>5 DEF LostSends, IsStored
  <2>2. EventsIn(LostSends)' \subseteq EventsIn(LostSends)
    BY <1>1, <1>3, <2>1 DEF EventsIn
  <2> QED
    BY <1>1, <1>2, <1>5, <2>2, LossBound
<1> QED
  BY <1>1, <1>4, <1>5

(* Only a caller's return from send() gives up a payload, and then it      *)
(* counts an error or a reject unless the payload is stored.               *)
LEMMA StepLoses ==
  ASSUME Transport!LedgerInv, LostIsCounted, NEW c \in Callers, ClientStep(c)
  PROVE  LostIsCounted'
<1>1. Waiting(c) /\ UNCHANGED <<hasToken, body, stored>>
  BY UploadEnds
<1>2. CASE UNCHANGED <<send, counters>> /\ \A d \in Callers : Waiting(d)' <=> Waiting(d)
  <2>1. UNCHANGED <<LostSends, errorCount, rejectCount>>
    BY <1>1, <1>2 DEF LostSends, Finished, Active, IsStored, counters
  <2> QED
    BY <1>1, <2>1 DEF LostIsCounted, EventsIn
<1>3. ASSUME Return(c),
             \/ /\ IsStored(send[c]) /\ successCount' = successCount + 1
                /\ UNCHANGED <<errorCount, rejectCount>>
             \/ errorCount' = errorCount + 1 /\ UNCHANGED <<successCount, rejectCount>>
             \/ rejectCount' = rejectCount + 1 /\ UNCHANGED <<successCount, errorCount>>
      PROVE  LostIsCounted'
  <2>1. send[c] \in DOMAIN body /\ Finished' = Finished \cup {send[c]}
    BY <1>1, <1>3, ReturnMoves
  <2>2. LostSends' \subseteq LostSends \cup {send[c]}
    BY <1>1, <2>1 DEF LostSends, IsStored
  <2>3. IsStored(send[c]) => LostSends' \subseteq LostSends
    BY <1>1, <2>2 DEF LostSends, IsStored
  <2>4. PICK b \in Bodies : b = body[send[c]]
    BY <2>1, UploadShape
  <2>5. EventsIn(LostSends)' \subseteq EventsIn(LostSends) \cup Range(b)
    BY <1>1, <2>2, <2>4 DEF EventsIn
  <2>6. IsStored(send[c]) => EventsIn(LostSends)' \subseteq EventsIn(LostSends)
    BY <1>1, <2>3 DEF EventsIn
  <2>7. /\ errorCount' \in Nat /\ rejectCount' \in Nat
        /\ \/ IsStored(send[c]) /\ errorCount' + rejectCount' = errorCount + rejectCount
           \/ errorCount' + rejectCount' = errorCount + rejectCount + 1
    BY <1>3, CountersType
  <2> QED
    BY <1>1, <2>4, <2>5, <2>6, <2>7, LossBound
<1> QED
  BY <1>2, <1>3, UploadEnds

LEMMA AccountBegin ==
  ASSUME OrderInv, Transport!LedgerInv, Transport!LedgerInv', AccountInv,
         NEW s \in Senders, BeginUpload(s)
  PROVE  AccountInv'
<1> DEFINE h == Head(batches)
           new == Len(body) + 1
<1>1. /\ h \in Batches /\ Call(s, h)
      /\ sender[s] = "recv" /\ sender'[s] = "flush"
      /\ \A t \in Senders : t # s => sender'[t] = sender[t]
      /\ UNCHANGED sentBatches
  BY StartMoves DEF BeginUpload
<1>2. s \in Callers /\ h \in Bodies /\ h # NoEvents
  BY <1>1 DEF Callers, Bodies, Batches, NoEvents
<1> HIDE DEF h
<1>3. /\ UNCHANGED <<hasToken, successCount, rejectCount>>
      /\ new \notin DOMAIN body /\ DOMAIN body' = DOMAIN body \cup {new}
      /\ body'[new] = h /\ \A n \in DOMAIN body : body'[n] = body[n]
      /\ \A d \in Callers : d # s => (Waiting(d)' <=> Waiting(d))
      /\ \/ (hasToken => errorCount' = errorCount + 1) /\ ~Waiting(s)'
            /\ Finished' = Finished \cup {new}
         \/ UNCHANGED errorCount /\ Waiting(s)' /\ Finished' = Finished
  BY <1>1, <1>2, CallMoves
<1> HIDE DEF new
<1>4. FinishedPosts' = FinishedPosts
  <2>1. Posts' = Posts /\ new \notin Posts
    BY <1>2, <1>3 DEF Posts
  <2> QED
    BY <1>3, <2>1 DEF FinishedPosts
<1>5. LostIsCounted'
  BY <1>1, <1>2, CallLoses DEF AccountInv
<1>6. JudgedExactly'
  <2> SUFFICES ASSUME hasToken
               PROVE  successCount' + errorCount' + rejectCount' =
                        sentBatches' + Cardinality(Judged') + Cardinality(FinishedPosts')
    BY <1>3 DEF JudgedExactly
  <2>1. successCount + errorCount + rejectCount =
          sentBatches + Cardinality(Judged) + Cardinality(FinishedPosts)
    BY DEF AccountInv, JudgedExactly
  <2>2. CASE errorCount' = errorCount + 1 /\ ~Waiting(s)'
    <3>1. Judged' = Judged \cup {s} /\ s \notin Judged
      BY <1>1, <1>3, <2>2 DEF Judged, Callers
    <3>2. Cardinality(Judged') = Cardinality(Judged) + 1
      BY <3>1, JudgedType, FS_AddElement
    <3>3. sentBatches \in Nat /\ Cardinality(Judged) \in Nat /\ Cardinality(FinishedPosts) \in Nat
      BY JudgedType, PostsType DEF OrderInv, StopInv, TypeInv, TypeOK
    <3> QED
      BY <1>1, <1>3, <1>4, <2>1, <2>2, <3>2, <3>3, CountersType
  <2>3. CASE UNCHANGED errorCount /\ Waiting(s)'
    <3>1. Judged' = Judged
      BY <1>1, <1>3, <2>3 DEF Judged, Callers
    <3> QED
      BY <1>1, <1>3, <1>4, <2>1, <2>3, <3>1
  <2> QED
    BY <1>3, <2>2, <2>3
<1> QED
  BY <1>5, <1>6 DEF AccountInv

LEMMA AccountPost ==
  ASSUME OrderInv, Transport!LedgerInv, Transport!LedgerInv', AccountInv,
         NEW c \in OtherCallers, BeginPost(c), UNCHANGED vars
  PROVE  AccountInv'
<1> DEFINE new == Len(body) + 1
<1>1. /\ c \in Callers /\ NoEvents \in Bodies /\ Call(c, NoEvents)
      /\ UNCHANGED <<sender, sentBatches>>
  BY DEF Callers, Bodies, BeginPost, vars, senderVars
<1>2. /\ UNCHANGED <<hasToken, successCount, rejectCount>>
      /\ new \notin DOMAIN body /\ DOMAIN body' = DOMAIN body \cup {new}
      /\ body'[new] = NoEvents /\ \A n \in DOMAIN body : body'[n] = body[n]
      /\ \A d \in Callers : d # c => (Waiting(d)' <=> Waiting(d))
      /\ \/ (hasToken => errorCount' = errorCount + 1) /\ Finished' = Finished \cup {new}
         \/ UNCHANGED errorCount /\ Finished' = Finished
  BY <1>1, CallMoves
<1> HIDE DEF new
<1>3. Posts' = Posts \cup {new} /\ Finished \subseteq DOMAIN body
  BY <1>2, UploadShape DEF Posts, Finished
<1>4. Judged' = Judged
  BY <1>1, <1>2, DeliveryAssumption DEF Judged, Callers
<1>5. LostIsCounted'
  BY <1>1, CallLoses DEF AccountInv
<1>6. JudgedExactly'
  <2> SUFFICES ASSUME hasToken
               PROVE  successCount' + errorCount' + rejectCount' =
                        sentBatches' + Cardinality(Judged') + Cardinality(FinishedPosts')
    BY <1>2 DEF JudgedExactly
  <2>1. successCount + errorCount + rejectCount =
          sentBatches + Cardinality(Judged) + Cardinality(FinishedPosts)
    BY DEF AccountInv, JudgedExactly
  <2>2. CASE errorCount' = errorCount + 1 /\ Finished' = Finished \cup {new}
    <3>1. FinishedPosts' = FinishedPosts \cup {new} /\ new \notin FinishedPosts
      BY <1>2, <1>3, <2>2 DEF FinishedPosts
    <3>2. Cardinality(FinishedPosts') = Cardinality(FinishedPosts) + 1
      BY <3>1, PostsType, FS_AddElement
    <3>3. sentBatches \in Nat /\ Cardinality(Judged) \in Nat /\ Cardinality(FinishedPosts) \in Nat
      BY JudgedType, PostsType DEF OrderInv, StopInv, TypeInv, TypeOK
    <3> QED
      BY <1>1, <1>2, <1>4, <2>1, <2>2, <3>2, <3>3, CountersType
  <2>3. CASE UNCHANGED errorCount /\ Finished' = Finished
    <3>1. FinishedPosts' = FinishedPosts
      BY <1>2, <1>3, <2>3 DEF FinishedPosts
    <3> QED
      BY <1>1, <1>2, <1>4, <2>1, <2>3, <3>1
  <2> QED
    BY <1>2, <2>2, <2>3
<1> QED
  BY <1>5, <1>6 DEF AccountInv

LEMMA AccountEnd ==
  ASSUME OrderInv, Transport!LedgerInv, AccountInv, NEW s \in Senders, EndUpload(s)
  PROVE  AccountInv'
<1>1. /\ ~Waiting(s) /\ UNCHANGED uploadVars
      /\ sender[s] = "flush" /\ sender'[s] = "recv" /\ sentBatches' = sentBatches + 1
      /\ \A t \in Senders : t # s => sender'[t] = sender[t]
  BY EndMoves DEF EndUpload
<1>2. LostIsCounted' /\ UNCHANGED FinishedPosts
  BY <1>1 DEF AccountInv, LostIsCounted, EventsIn, LostSends, FinishedPosts, Posts, Finished,
              Active, Waiting, IsStored, uploadVars
<1>3. Judged' = Judged \ {s} /\ s \in Judged
  BY <1>1 DEF Judged, Waiting, uploadVars
<1>4. Cardinality(Judged') = Cardinality(Judged) - 1
  BY <1>3, JudgedType, FS_RemoveElement
<1>5. sentBatches \in Nat /\ Cardinality(Judged) \in Nat
  BY JudgedType DEF OrderInv, StopInv, TypeInv, TypeOK
<1>6. sentBatches' + Cardinality(Judged') = sentBatches + Cardinality(Judged)
  BY <1>1, <1>4, <1>5
<1>7. JudgedExactly'
  BY <1>1, <1>2, <1>6 DEF AccountInv, JudgedExactly, uploadVars
<1> QED
  BY <1>2, <1>7 DEF AccountInv

LEMMA AccountClient ==
  ASSUME OrderInv, Transport!LedgerInv, MeetInv, AccountInv,
         NEW c \in Callers, ClientStep(c), UNCHANGED vars
  PROVE  AccountInv'
<1>1. /\ Waiting(c) /\ hasToken /\ UNCHANGED <<hasToken, body, stored, sender, sentBatches>>
  BY UploadEnds DEF vars, senderVars
<1>2. LostIsCounted'
  BY StepLoses DEF AccountInv
<1>3. CASE UNCHANGED <<send, counters>> /\ \A d \in Callers : Waiting(d)' <=> Waiting(d)
  <2>1. UNCHANGED <<Judged, FinishedPosts, successCount, errorCount, rejectCount>>
    BY <1>1, <1>3 DEF Judged, FinishedPosts, Posts, Finished, Active, counters, Callers
  <2> QED
    BY <1>1, <1>2, <2>1 DEF AccountInv, JudgedExactly
<1>4. ASSUME Return(c),
             \/ /\ IsStored(send[c]) /\ successCount' = successCount + 1
                /\ UNCHANGED <<errorCount, rejectCount>>
             \/ errorCount' = errorCount + 1 /\ UNCHANGED <<successCount, rejectCount>>
             \/ rejectCount' = rejectCount + 1 /\ UNCHANGED <<successCount, errorCount>>
      PROVE  AccountInv'
  <2>1. /\ ~Waiting(c)' /\ send[c] \in DOMAIN body
        /\ \A d \in Callers : d # c => (Waiting(d)' <=> Waiting(d))
        /\ send[c] \notin Finished /\ Finished' = Finished \cup {send[c]}
    BY <1>1, <1>4, ReturnMoves
  <2>2. Posts' = Posts
    BY <1>1 DEF Posts
  <2>3. successCount' + errorCount' + rejectCount' = successCount + errorCount + rejectCount + 1
    BY <1>4, CountersType
  <2>4. successCount + errorCount + rejectCount =
          sentBatches + Cardinality(Judged) + Cardinality(FinishedPosts)
    BY <1>1 DEF AccountInv, JudgedExactly
  <2>5. /\ sentBatches \in Nat /\ Cardinality(Judged) \in Nat
        /\ Cardinality(FinishedPosts) \in Nat
    BY JudgedType, PostsType DEF OrderInv, StopInv, TypeInv, TypeOK
  <2>6. Cardinality(Judged') + Cardinality(FinishedPosts') =
          Cardinality(Judged) + Cardinality(FinishedPosts) + 1
    <3>1. CASE c \in Senders
      <4>1. sender[c] = "flush" /\ body[send[c]] # NoEvents
        BY <1>1, <3>1 DEF MeetInv, UploadsMatch, OrderInv, StopInv, PoolInv, NoEvents
      <4>2. Judged' = Judged \cup {c} /\ c \notin Judged
        BY <1>1, <2>1, <3>1, <4>1 DEF Judged, Callers
      <4>3. FinishedPosts' = FinishedPosts
        BY <2>1, <2>2, <4>1 DEF FinishedPosts, Posts
      <4>4. Cardinality(Judged') = Cardinality(Judged) + 1
        BY <4>2, JudgedType, FS_AddElement
      <4> QED
        BY <2>5, <4>3, <4>4
    <3>2. CASE c \in OtherCallers
      <4>1. body[send[c]] = NoEvents
        BY <1>1, <3>2 DEF MeetInv, PostsMatch
      <4>2. Judged' = Judged
        BY <1>1, <2>1, <3>2, DeliveryAssumption DEF Judged, Callers
      <4>3. FinishedPosts' = FinishedPosts \cup {send[c]} /\ send[c] \notin FinishedPosts
        BY <2>1, <2>2, <4>1 DEF FinishedPosts, Posts
      <4>4. Cardinality(FinishedPosts') = Cardinality(FinishedPosts) + 1
        BY <4>3, PostsType, FS_AddElement
      <4> QED
        BY <2>5, <4>2, <4>4
    <3> QED
      BY <3>1, <3>2 DEF Callers
  <2>7. Cardinality(Judged') \in Nat /\ Cardinality(FinishedPosts') \in Nat
    <3>1. Judged' \in SUBSET Senders
      BY DEF Judged
    <3>2. FinishedPosts' \subseteq FinishedPosts \cup {send[c]}
      BY <2>1, <2>2 DEF FinishedPosts
    <3>3. IsFiniteSet(FinishedPosts \cup {send[c]})
      BY PostsType, FS_AddElement
    <3> QED
      BY <3>1, <3>2, <3>3, BufferAssumption, FS_Subset, FS_CardinalityType
  <2>8. JudgedExactly'
    BY <1>1, <2>3, <2>4, <2>5, <2>6, <2>7 DEF JudgedExactly
  <2> QED
    BY <1>2, <2>8 DEF AccountInv
<1> QED
  BY <1>3, <1>4, UploadEnds

(* The backend may only store, and the buffer's own steps do neither.      *)
LEMMA AccountQuiet ==
  ASSUME Transport!LedgerInv, AccountInv, stored \subseteq stored',
         UNCHANGED <<hasToken, body, send, attempt, counters, sentBatches>>,
         \A s \in Senders : sender'[s] = "flush" <=> sender[s] = "flush"
  PROVE  AccountInv'
<1>1. UNCHANGED <<Judged, FinishedPosts>> /\ LostSends' \subseteq LostSends
  BY DEF Judged, FinishedPosts, Posts, LostSends, Finished, Active, IsStored, Waiting
<1>2. EventsIn(LostSends)' \subseteq EventsIn(LostSends)
  BY <1>1 DEF EventsIn
<1>3. /\ Cardinality(EventsIn(LostSends)') <= Cardinality(EventsIn(LostSends))
      /\ Cardinality(EventsIn(LostSends)') \in Nat
  BY <1>2, LostAreSends, EventsOfSends, FS_Subset, FS_CardinalityType
<1>4. /\ errorCount \in Nat /\ rejectCount \in Nat
      /\ Cardinality(EventsIn(LostSends)) \in Nat
  BY UploadShape, LostAreSends, EventsOfSends
<1>5. BatchSize * (errorCount + rejectCount) \in Nat
  BY <1>4, OneMoreBatch, BufferAssumption
<1>6. LostIsCounted'
  BY <1>3, <1>4, <1>5 DEF AccountInv, LostIsCounted, counters
<1>7. JudgedExactly'
  BY <1>1 DEF AccountInv, JudgedExactly, counters
<1> QED
  BY <1>6, <1>7 DEF AccountInv

-----------------------------------------------------------------------------
DeliveryInv ==
  OrderInv /\ EveryLossCounted /\ Transport!LedgerInv /\ MeetInv /\ AccountInv

LEMMA DeliveryInvInit == DeliveryInit => DeliveryInv
<1> SUFFICES ASSUME DeliveryInit PROVE DeliveryInv
  OBVIOUS
<1>1. OrderInv /\ EveryLossCounted
  BY OrderInit, LossInit DEF DeliveryInit
<1>2. Transport!LedgerInv
  BY TransportAssumption, TransportInit, Transport!LedgerInit
<1> QED
  BY <1>1, <1>2, MeetInit, AccountInit DEF DeliveryInv

LEMMA DeliveryInvStep == DeliveryInv /\ [DeliveryNext]_deliveryVars => DeliveryInv'
<1> SUFFICES ASSUME DeliveryInv, [DeliveryNext]_deliveryVars PROVE DeliveryInv'
  OBVIOUS
<1> USE DEF DeliveryInv
<1>1. OrderInv' /\ EveryLossCounted'
  BY DeliveryStepIsStep, OrderStep, PipelineStep, LossStep
<1>2. Transport!LedgerInv'
  <2>1. TypeInv
    BY DEF OrderInv, StopInv
  <2> QED
    BY <2>1, TransportAssumption, TransportStep, Transport!LedgerStep
<1>3. ASSUME NEW s \in Senders, SenderStep(s) PROVE MeetInv' /\ AccountInv'
  <2>1. CASE BeginUpload(s)
    BY <1>2, <2>1, MeetBegin, AccountBegin
  <2>2. CASE EndUpload(s)
    BY <2>2, MeetEnd, AccountEnd
  <2>3. CASE ClientStep(s) /\ UNCHANGED vars
    BY <2>3, MeetClient, AccountClient DEF Callers
  <2>4. CASE ExitSender(s) /\ UNCHANGED uploadVars
    BY <2>4, QuietSteps, MeetQuiet, AccountQuiet DEF Quiet, uploadVars, counters
  <2> QED
    BY <1>3, <2>1, <2>2, <2>3, <2>4 DEF SenderStep
<1>4. CASE Backend /\ UNCHANGED vars
  <2>1. /\ stored \subseteq stored' /\ UNCHANGED <<hasToken, body, send, attempt, counters>>
    BY <1>4 DEF Backend, Process
  <2> QED
    BY <1>1, <1>2, <1>4, <2>1, MeetQuiet, AccountQuiet DEF vars, senderVars
<1>5. CASE \/ (Push \/ Collector \/ Stop) /\ UNCHANGED uploadVars
           \/ Finish \/ UNCHANGED deliveryVars
  BY <1>1, <1>2, <1>5, QuietSteps, MeetQuiet, AccountQuiet DEF Quiet, uploadVars, counters
<1>6. ASSUME NEW c \in OtherCallers, OtherStep(c) PROVE MeetInv' /\ AccountInv'
  <2>1. CASE BeginPost(c)
    BY <1>2, <1>6, <2>1, MeetPost, AccountPost DEF OtherStep
  <2>2. CASE ClientStep(c)
    BY <1>6, <2>2, MeetClient, AccountClient DEF OtherStep, Callers
  <2> QED
    BY <1>6, <2>1, <2>2 DEF OtherStep
<1> QED
  BY <1>1, <1>2, <1>3, <1>4, <1>5, <1>6 DEF DeliveryNext

LEMMA DeliveryCorrect == DeliverySpec => []DeliveryInv
BY DeliveryInvInit, DeliveryInvStep, PTL DEF DeliverySpec

(***************************************************************************)
(* Whatever else is posted through the client, sentBatches never runs      *)
(* ahead of its verdicts on batches and lags by at most one per sender.    *)
(***************************************************************************)
THEOREM SentAreJudgedThm == DeliverySpec => []SentAreJudged
<1>1. DeliveryInv => SentAreJudged
  <2> SUFFICES ASSUME DeliveryInv, hasToken
               PROVE  /\ BatchesJudged - Cardinality(Senders) <= sentBatches
                      /\ sentBatches <= BatchesJudged
    BY DEF SentAreJudged
  <2>1. successCount + errorCount + rejectCount =
          sentBatches + Cardinality(Judged) + Cardinality(FinishedPosts)
    BY DEF DeliveryInv, AccountInv, JudgedExactly
  <2>2. sentBatches \in Nat /\ Cardinality(FinishedPosts) \in Nat
    BY PostsType DEF DeliveryInv, OrderInv, StopInv, TypeInv, TypeOK
  <2>3. Cardinality(Judged) \in Nat
    BY JudgedType
  <2>4. BatchesJudged = sentBatches + Cardinality(Judged)
    BY <2>1, <2>2, <2>3, CountersType DEF BatchesJudged, DeliveryInv
  <2> QED
    BY <2>2, <2>4, JudgedType
<1> QED
  BY <1>1, DeliveryCorrect, PTL

(***************************************************************************)
(* When Stop has returned no sender is in send(), and every batch they     *)
(* took has its verdict in the client's counters, metrics posts apart.     *)
(***************************************************************************)
THEOREM StopWaitsForUploadsThm == DeliverySpec => []StopWaitsForUploads
<1>1. DeliveryInv => StopWaitsForUploads
  <2> SUFFICES ASSUME DeliveryInv, stopper = "returned"
               PROVE  /\ \A s \in Senders : ~Waiting(s)
                      /\ hasToken => sentBatches = BatchesJudged
    BY DEF StopWaitsForUploads
  <2>1. \A s \in Senders : sender[s] = "exited"
    BY DEF DeliveryInv, OrderInv, StopInv, PoolInv
  <2>2. (\A s \in Senders : ~Waiting(s)) /\ Judged = {}
    BY <2>1 DEF DeliveryInv, MeetInv, UploadsMatch, Judged
  <2>3. Cardinality(Judged) = 0
    BY <2>2, FS_EmptySet
  <2>4. sentBatches \in Nat /\ Cardinality(FinishedPosts) \in Nat
    BY PostsType DEF DeliveryInv, OrderInv, StopInv, TypeInv, TypeOK
  <2>5. hasToken => sentBatches = BatchesJudged
    BY <2>3, <2>4, CountersType DEF DeliveryInv, AccountInv, JudgedExactly, BatchesJudged
  <2> QED
    BY <2>2, <2>5
<1> QED
  BY <1>1, DeliveryCorrect, PTL

(***************************************************************************)
(* Two requests the backend has stored have an event in common only if     *)
(* they are attempts of the same send.                                     *)
(***************************************************************************)
THEOREM OneBatchPerEventThm == DeliverySpec => []OneBatchPerEvent
<1>1. DeliveryInv => OneBatchPerEvent
  <2> SUFFICES ASSUME DeliveryInv PROVE OneBatchPerEvent
    OBVIOUS
  <2>1. \A r \in stored : r[1] \in DOMAIN body
    BY UploadShape DEF DeliveryInv
  <2> QED
    BY <2>1 DEF OneBatchPerEvent, EventsOf, DeliveryInv, MeetInv, BodiesApart
<1> QED
  BY <1>1, DeliveryCorrect, PTL

(* A flushed event that is not in the backend belongs to a send that has   *)
(* returned without leaving anything there.                                *)
LEMMA UnstoredIsLost ==
  ASSUME DeliveryInv
  PROVE  flushed \ StoredEvents \subseteq EventsIn(LostSends)
<1> SUFFICES ASSUME NEW e \in flushed, e \notin StoredEvents
             PROVE  e \in EventsIn(LostSends)
  OBVIOUS
<1>1. PICK n \in DOMAIN body : e \in Range(body[n])
  BY DEF DeliveryInv, MeetInv, BodiesTaken, EventsIn
<1>2. InSenders \cap flushed = {}
  BY OrderParts DEF DeliveryInv, OrderInv
<1>3. ASSUME NEW c \in Active, send[c] = n PROVE FALSE
  <2>1. c \in Senders \cup OtherCallers /\ Waiting(c)
    BY <1>3 DEF Active, Callers
  <2>2. CASE c \in Senders
    BY <1>1, <1>2, <1>3, <2>1, <2>2 DEF DeliveryInv, MeetInv, UploadsMatch, InSenders
  <2>3. CASE c \in OtherCallers
    BY <1>1, <1>3, <2>1, <2>3, RangeOfEmpty DEF DeliveryInv, MeetInv, PostsMatch, NoEvents
  <2> QED
    BY <2>1, <2>2, <2>3
<1>4. n \in Finished
  BY <1>1, <1>3, UploadShape DEF Finished, DeliveryInv
<1>5. ~IsStored(n)
  <2> SUFFICES ASSUME NEW k \in 1 .. 2, <<n, k>> \in stored PROVE FALSE
    BY DEF IsStored
  <2>1. EventsOf(<<n, k>>) = Range(body[n])
    BY DEF EventsOf
  <2> QED
    BY <1>1, <2>1 DEF StoredEvents
<1> QED
  BY <1>1, <1>4, <1>5 DEF EventsIn, LostSends

LEMMA Distribute ==
  ASSUME NEW m \in Nat, NEW a \in Nat, NEW b \in Nat
  PROVE  m * (a + b) = m * a + m * b /\ m * a \in Nat /\ m * b \in Nat
  OBVIOUS

(***************************************************************************)
(* End to end, until Stop is called: what was pushed, has left the buffer  *)
(* and is not in the backend shows in one of the four loss counters.       *)
(***************************************************************************)
THEOREM NoUncountedLossThm == DeliverySpec => []NoUncountedLoss
<1>1. DeliveryInv => NoUncountedLoss
  <2> DEFINE Gone == (1 .. pushed) \ (Resident \cup StoredEvents)
             E    == EventsIn(LostSends)
             m    == errorCount + rejectCount
  <2> SUFFICES ASSUME DeliveryInv, hasToken, ~stopped
               PROVE  Cardinality(Gone) <= droppedEvents + BatchSize * (droppedBatches + m)
    <3>1. DeliveryInv => errorCount \in Nat /\ rejectCount \in Nat /\ droppedBatches \in Nat
      BY UploadShape DEF DeliveryInv, OrderInv, StopInv, TypeInv, TypeOK
    <3> QED
      BY <3>1 DEF NoUncountedLoss
  <2>1. /\ IsFiniteSet(Missing) /\ Cardinality(Missing) \in Nat
        /\ droppedEvents \in Nat /\ droppedBatches \in Nat
    BY MissingType DEF DeliveryInv
  <2>2. /\ IsFiniteSet(E) /\ Cardinality(E) \in Nat /\ m \in Nat /\ BatchSize \in Nat
    BY LostAreSends, EventsOfSends, UploadShape, BufferAssumption DEF DeliveryInv
  <2>3. Gone \subseteq Missing \cup E
    BY UnstoredIsLost DEF Missing
  <2>4. Cardinality(Missing) <= droppedEvents + BatchSize * droppedBatches
    BY DEF DeliveryInv, EveryLossCounted, Stats
  <2>5. Cardinality(E) <= BatchSize * m
    BY DEF DeliveryInv, AccountInv, LostIsCounted
  <2> HIDE DEF Gone, E, m
  <2>6. /\ Cardinality(Gone) \in Nat
        /\ Cardinality(Gone) <= Cardinality(Missing) + Cardinality(E)
    BY <2>1, <2>2, <2>3, UnionBound
  <2>7. /\ BatchSize * (droppedBatches + m) = BatchSize * droppedBatches + BatchSize * m
        /\ BatchSize * droppedBatches \in Nat /\ BatchSize * m \in Nat
    BY <2>1, <2>2, Distribute
  <2> QED
    BY <2>1, <2>2, <2>4, <2>5, <2>6, <2>7
<1> QED
  BY <1>1, DeliveryCorrect, PTL
=============================================================================
