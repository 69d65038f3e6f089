--------------------------------- MODULE Apm ---------------------------------
(***************************************************************************)
(* The runtime of the SDK (apm.go) around its buffer: New has started the  *)
(* metrics loop, which collects at once, on every tick and a last time on  *)
(* Shutdown; the host attaches collectors while the loop runs; Shutdown    *)
(* joins the loop, stops the buffer and closes what auto-discovery opened. *)
(*                                                                         *)
(* A POST of the metrics loop always returns (Client!SendReturns), so it   *)
(* is part of the step that makes it.  Probes and scrapes have timeouts.   *)
(* "Bug:" definitions are faulty variants that the runs must reject.       *)
(***************************************************************************)
EXTENDS Buffer

CONSTANTS
  AutoDb, AutoRedis,      \* the collectors auto-discovery may install
  HostDbs, HostRedis,     \* the collectors the host may attach
  Hosts,                  \* host goroutines that may call Shutdown
  Hole                    \* an entry append() has made but not yet written

AutoCollectors == {AutoDb, AutoRedis}
HostCollectors == HostDbs \cup HostRedis
Collectors == AutoCollectors \cup HostCollectors

ASSUME ApmAssumption ==
  /\ Hole \notin Collectors /\ AutoDb # AutoRedis
  /\ HostDbs \cap HostRedis = {} /\ AutoCollectors \cap HostCollectors = {}

VARIABLES
  attached,        \* a.dbs and a.redis
  open,            \* resources of auto-discovery not yet closed
  apmStopped,      \* a.stopCh is closed
  loop,            \* where metricsLoop is; "db" and "redis" are the ranges
  calling,         \* it is in a collector's Collect
  position, end,   \* the entry its range is at, and the length it started with
  final,           \* this collection is the one after stopCh
  asked,           \* history: collectors asked since this collection began
  due,             \* history: collectors attached when Shutdown was called
  once,            \* state of the sync.Once
  caller,          \* where each goroutine calling Shutdown is
  panicked         \* metricsLoop has panicked, and the host process with it

loopVars     == <<loop, calling, position, end, final, asked>>
shutdownVars == <<open, apmStopped, due, once, caller>>
apmVars      == <<attached, loopVars, shutdownVars, panicked>>
allVars      == <<vars, apmVars>>

Kinds == {"db", "redis"}
KindOf(c) == IF c \in HostDbs \cup {AutoDb} THEN "db" ELSE "redis"

LoopStates == {"system", "select", "done"} \cup Kinds
CallerStates == {"idle", "joinLoop", "stopBuffer", "close", "wait", "returned"}

-----------------------------------------------------------------------------
(* New: auto-discovery finds what the configuration names; the metrics     *)
(* loop starts with a collection.                                          *)
ApmInit ==
  /\ Init
  /\ open \in SUBSET AutoCollectors
  /\ attached = [db    |-> IF AutoDb \in open THEN <<AutoDb>> ELSE <<>>,
                 redis |-> IF AutoRedis \in open THEN <<AutoRedis>> ELSE <<>>]
  /\ loop = "system" /\ calling = FALSE /\ position = 1 /\ end = 0 /\ final = FALSE /\ asked = {}
  /\ apmStopped = FALSE /\ due = {} /\ once = "new"
  /\ caller = [h \in Hosts |-> "idle"]
  /\ panicked = FALSE

Entries  == Range(attached.db) \cup Range(attached.redis)
Attached == Entries \ {Hole}

(* a.dbs = append(a.dbs, c) takes no lock.  The compiled code stores the   *)
(* new length first and the element after it: a range that starts in       *)
(* between will read an entry that is still nil (or, if the array moved,   *)
(* one beyond the old array).  One goroutine of the host attaches.         *)
BeginAttach(c) ==
  /\ Hole \notin Entries /\ c \notin Attached
  /\ attached' = [attached EXCEPT ![KindOf(c)] = Append(@, Hole)]

EndAttach(c) ==
  /\ Hole \in Range(attached[KindOf(c)]) /\ c \notin Attached
  /\ attached' = [attached EXCEPT ![KindOf(c)] = [@ EXCEPT ![Len(@)] = c]]

-----------------------------------------------------------------------------
(* The steps of metricsLoop say what becomes of loopVars and panicked.     *)
(* collectAndShip begins, with the system snapshot.                        *)
BeginCollection(last) ==
  /\ loop' = "system" /\ final' = last /\ asked' = {}
  /\ UNCHANGED <<calling, position, end, panicked>>

(* Bug: the last entry of a list is never reached.                         *)
RangeShort(kind) ==
  /\ loop' = kind /\ position' = 1 /\ end' = Len(attached[kind]) - 1
  /\ UNCHANGED <<calling, final, asked, panicked>>

(* A range statement takes the slice, and so its length, once.             *)
BeginRange(kind) ==
  /\ loop' = kind /\ position' = 1 /\ end' = Len(attached[kind])
  /\ UNCHANGED <<calling, final, asked, panicked>>

(* Probes of the discovered resources, host metrics, POST.                 *)
CollectSystem == loop = "system" /\ BeginRange("db")

(* The range calls Collect on its next entry; a nil entry panics.          *)
CallCollect ==
  /\ loop \in Kinds /\ ~calling /\ position <= end
  /\ LET entry == attached[loop][position] IN
       \/ /\ entry # Hole
          /\ calling' = TRUE /\ asked' = asked \cup {entry}
          /\ UNCHANGED panicked
       \/ /\ entry = Hole
          /\ panicked' = TRUE
          /\ UNCHANGED <<calling, asked>>
  /\ UNCHANGED <<loop, position, end, final>>

(* Collect returns, with ok or without, and the metric is posted or not.   *)
ReturnCollect ==
  /\ calling
  /\ calling' = FALSE /\ position' = position + 1
  /\ UNCHANGED <<loop, end, final, asked, panicked>>

RangeEnds(kind) == loop = kind /\ ~calling /\ position > end

EndDbs == RangeEnds("db") /\ BeginRange("redis")

(* Bug: the loop goes on after the final collection.                       *)
EndlessLoop ==
  /\ RangeEnds("redis")
  /\ loop' = "select"
  /\ UNCHANGED <<calling, position, end, final, asked, panicked>>

(* Custom metrics and the stats line end a collection, and the final one   *)
(* ends the loop, whose defer closes doneCh.                               *)
EndCollection ==
  /\ RangeEnds("redis")
  /\ loop' = IF final THEN "done" ELSE "select"
  /\ UNCHANGED <<calling, position, end, final, asked, panicked>>

(* The two cases of the loop's select.                                     *)
MetricsTick == loop = "select" /\ BeginCollection(FALSE)

(* Bug: the loop ends on stopCh without the last collection.               *)
LeaveAtStop ==
  /\ loop = "select" /\ apmStopped
  /\ loop' = "done"
  /\ UNCHANGED <<calling, position, end, final, asked, panicked>>

LoopSeesStop == loop = "select" /\ apmStopped /\ BeginCollection(TRUE)

(* collectAndShip apart from the calls it makes into collectors' code.     *)
Ship == CollectSystem \/ CallCollect \/ EndDbs \/ EndCollection

-----------------------------------------------------------------------------
Goto(h, state) == caller' = [caller EXCEPT ![h] = state]

(* Bug: a flag in place of the sync.Once, so later callers do not wait.    *)
ShutdownByFlag(h) ==
  /\ caller[h] = "idle"
  /\ \/ /\ once = "new"
        /\ once' = "running" /\ apmStopped' = TRUE /\ due' = Attached
        /\ Goto(h, "joinLoop")
     \/ /\ once # "new"
        /\ Goto(h, "returned")
        /\ UNCHANGED <<once, apmStopped, due>>
  /\ UNCHANGED open

(* Shutdown: the first caller runs the function and begins by closing      *)
(* stopCh, any other waits for its end.  The context is not looked at.     *)
Shutdown(h) ==
  /\ caller[h] = "idle"
  /\ \/ /\ once = "new"
        /\ once' = "running" /\ apmStopped' = TRUE /\ due' = Attached
        /\ Goto(h, "joinLoop")
     \/ /\ once # "new"
        /\ Goto(h, "wait")
        /\ UNCHANGED <<once, apmStopped, due>>
  /\ UNCHANGED open

(* Bug: Shutdown does not wait for doneCh.                                 *)
SkipDone(h) ==
  /\ caller[h] = "joinLoop"
  /\ Goto(h, "stopBuffer")
  /\ UNCHANGED <<open, apmStopped, due, once>>

(* <-a.doneCh, and the call of buffer.Stop.                                *)
JoinLoop(h) ==
  /\ caller[h] = "joinLoop" /\ loop = "done"
  /\ Goto(h, "stopBuffer")
  /\ UNCHANGED <<open, apmStopped, due, once>>

(* buffer.Stop has returned.                                               *)
BufferStopped(h) ==
  /\ caller[h] = "stopBuffer" /\ stopper = "returned"
  /\ Goto(h, "close")
  /\ UNCHANGED <<open, apmStopped, due, once>>

(* autoCloseFns in their order, the database before the Redis client.      *)
CloseOne(h) ==
  /\ caller[h] = "close" /\ open # {}
  /\ open' = IF AutoDb \in open THEN open \ {AutoDb} ELSE {}
  /\ UNCHANGED <<apmStopped, due, once, caller>>

FinishOnce(h) ==
  /\ caller[h] = "close" /\ open = {}
  /\ once' = "done" /\ Goto(h, "returned")
  /\ UNCHANGED <<open, apmStopped, due>>

LeaveOnce(h) ==
  /\ caller[h] = "wait" /\ once = "done"
  /\ Goto(h, "returned")
  /\ UNCHANGED <<open, apmStopped, due, once>>

-----------------------------------------------------------------------------
(* A panic in metricsLoop ends the process, so nothing steps after it.     *)
InLoop(A)   == ~panicked /\ A /\ UNCHANGED <<vars, attached, shutdownVars>>
InBuffer(A) == ~panicked /\ A /\ UNCHANGED apmVars

Attach ==
  /\ ~panicked
  /\ \E c \in HostCollectors : BeginAttach(c) \/ EndAttach(c)
  /\ UNCHANGED <<vars, loopVars, shutdownVars, panicked>>

MetricsLoop == InLoop(Ship \/ ReturnCollect \/ MetricsTick \/ LoopSeesStop)

CallShutdown ==
  /\ ~panicked
  /\ \E h \in Hosts : Shutdown(h)
  /\ UNCHANGED <<vars, attached, loopVars, panicked>>

(* The rest of Shutdown; the buffer moves with JoinLoop, which calls Stop. *)
Finishing(h) ==
  /\ ~panicked
  /\ \/ JoinLoop(h) /\ BeginStop
     \/ (BufferStopped(h) \/ CloseOne(h) \/ FinishOnce(h) \/ LeaveOnce(h)) /\ UNCHANGED vars
  /\ UNCHANGED <<attached, loopVars, panicked>>

(* PushEvent, and the goroutines of the buffer.                            *)
BufferStep ==
  InBuffer(Push \/ Collector \/ (\E s \in Senders : Sender(s)) \/ JoinCollector \/ JoinSenders)

(* Nothing is left to run.                                                 *)
Halted ==
  /\ panicked \/ \A h \in Hosts : caller[h] = "returned"
  /\ UNCHANGED allVars

ApmNext ==
  \/ Attach \/ MetricsLoop \/ CallShutdown \/ BufferStep \/ Halted
  \/ \E h \in Hosts : Finishing(h)

ApmSpec == ApmInit /\ [][ApmNext]_allVars

(***************************************************************************)
(* As in Buffer, and: the cases of the loop's select are drawn at random;  *)
(* a collector's Collect returns (those of auto-discovery have timeouts,   *)
(* the host answers for its own); a host that has called Shutdown goes on. *)
(***************************************************************************)
ApmFairness ==
  /\ WF_allVars(InLoop(Ship \/ ReturnCollect \/ MetricsTick))
  /\ SF_allVars(InLoop(LoopSeesStop))
  /\ \A h \in Hosts : WF_allVars(Finishing(h))
  /\ SF_allVars(InBuffer(CollectEvent))
  /\ SF_allVars(InBuffer(Tick))
  /\ SF_allVars(InBuffer(SeeStop))
  /\ WF_allVars(InBuffer(Dispatch \/ Drain))
  /\ \A s \in Senders : WF_allVars(InBuffer(Sender(s)))
  /\ WF_allVars(InBuffer(JoinCollector \/ JoinSenders))

FairApmSpec == ApmSpec /\ ApmFairness

-----------------------------------------------------------------------------
ApmTypeOK ==
  /\ TypeOK
  /\ attached \in [Kinds -> Seq(Collectors \cup {Hole})]
  /\ open \subseteq AutoCollectors
  /\ apmStopped \in BOOLEAN
  /\ loop \in LoopStates /\ position \in Nat \ {0} /\ end \in Nat /\ final \in BOOLEAN
  /\ calling \in BOOLEAN
  /\ asked \subseteq Collectors /\ due \subseteq Collectors
  /\ once \in {"new", "running", "done"}
  /\ caller \in [Hosts -> CallerStates]
  /\ panicked \in BOOLEAN

(***************************************************************************)
(* Whoever returns from Shutdown, first caller or not, finds the metrics   *)
(* loop ended, no batch queued or being posted, no event left that was     *)
(* pushed before the final collection had ended, and every connection of   *)
(* auto-discovery closed ("Safe to call multiple times").                  *)
(***************************************************************************)
ShutdownIsComplete ==
  \A h \in Hosts :
    caller[h] = "returned" =>
      /\ loop = "done" /\ stopper = "returned" /\ open = {}
      /\ Collected = {}
      /\ \A n \in Resident : n > stopMark

(***************************************************************************)
(* The connections of auto-discovery are open for as long as the metrics   *)
(* loop may use them, in a probe or a Collect ("Done LAST so the final     *)
(* metrics collection in metricsLoop can still use them").                 *)
(***************************************************************************)
ConnectionsOutliveLoop ==
  loop # "done" => Attached \cap AutoCollectors \subseteq open

(***************************************************************************)
(* When the metrics loop has ended, every collector that was attached when *)
(* Shutdown was called has been asked in the final collection ("runs one   *)
(* final metrics collection"), including one attached a moment before.     *)
(***************************************************************************)
FinalCollection == loop = "done" => due \subseteq asked

(***************************************************************************)
(* A nil entry never reaches a call of Collect ("The metrics loop simply   *)
(* skips nil entries").  The code makes no such check, and its appends can *)
(* be seen half done.                                                      *)
(***************************************************************************)
NilEntriesSkipped == ~panicked

(***************************************************************************)
(* Every caller of Shutdown returns.                                       *)
(***************************************************************************)
ShutdownReturns ==
  \A h \in Hosts : caller[h] # "idle" ~> (caller[h] = "returned" \/ panicked)

(***************************************************************************)
(* A collector attached while the loop runs is asked, sooner or later.     *)
(***************************************************************************)
AttachedIsAsked ==
  \A c \in HostCollectors :
    c \in Attached ~> (c \in asked \/ loop = "done" \/ panicked)
=============================================================================
