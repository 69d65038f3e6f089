---------------------------- MODULE SqlCollector ----------------------------
(***************************************************************************)
(* The manual SQL collector (collector/db_sql.go): goroutines of the host  *)
(* report queries through Observe, under a mutex, or through TrackRead and *)
(* TrackWrite, which only add atomically; once per interval the metrics    *)
(* loop flushes the counters into a metric, resets them and posts it.      *)
(*                                                                         *)
(* A plain increment under the mutex is a load and a store, and an atomic  *)
(* add may come between them.  Which goroutine holds the mutex makes no    *)
(* difference, only what it does there.  "Bug:" definitions are faulty     *)
(* variants that the runs must reject.                                     *)
(***************************************************************************)
EXTENDS Integers, FiniteSets, Functions

CONSTANTS
  Durations,  \* query durations in ms; int(d) >= slowMs is d >= slowMs
  SlowMs,     \* slowMs
  SampleCap,  \* 4096 in the code: samples kept per interval
  MaxCalls,   \* bound: calls of Observe, TrackRead and TrackWrite
  MaxTicks    \* bound: ticks of the metrics loop

ASSUME SqlAssumption ==
  /\ Durations \subseteq Nat /\ IsFiniteSet(Durations) /\ 0 \in Durations
  /\ SlowMs \in Nat /\ SampleCap \in Nat
  /\ MaxCalls \in Nat /\ MaxTicks \in Nat

Kinds == {"read", "write"}

VARIABLES
  mu,         \* who holds c.mu: nobody ("free"), "observe" or "flush"
  queries, slow, sumMs, maxMs,
  samples,    \* c.samples as a bag: percentile() sorts a copy
  counter,    \* c.reads and c.writes
  kind,       \* Observe between load and store: the counter it increments
  loaded,     \*   and the value it has loaded
  loop,       \* the metrics loop: "idle", "flush", "reset", "size" or "post"
  metric,     \* m, while Collect and the loop hold it
  ticks,      \* history: ticks so far
  interval,   \* history: the durations observed since the last flush, a bag
  observed,   \* history: calls of Observe
  calls,      \* history: calls that count a read, a write
  raced,      \* history: those of them that fell between a load and its store
  posted, lost  \* history: what was in metrics that were posted, that were not

hostVars    == <<mu, queries, slow, sumMs, maxMs, samples, counter, kind, loaded>>
historyVars == <<interval, observed, calls, raced>>
tallyVars   == <<posted, lost>>
sqlVars     == <<hostVars, loop, metric, ticks, historyVars, tallyVars>>

EmptyBag == [d \in Durations |-> 0]
Zeros    == [k \in Kinds |-> 0]
NoMetric == [queries |-> 0, slow |-> 0, sum |-> 0, max |-> 0, p95 |-> 0, counts |-> Zeros]
NoTally  == [queries |-> 0, counts |-> Zeros]

SqlInit ==
  /\ mu = "free" /\ queries = 0 /\ slow = 0 /\ sumMs = 0 /\ maxMs = 0
  /\ samples = EmptyBag /\ counter = Zeros /\ kind = "read" /\ loaded = 0
  /\ loop = "idle" /\ metric = NoMetric /\ ticks = 0
  /\ interval = EmptyBag /\ observed = 0 /\ calls = Zeros /\ raced = Zeros
  /\ posted = NoTally /\ lost = NoTally

-----------------------------------------------------------------------------
Size(bag)      == SumFunction(bag)
UpTo(bag, d)   == SumFunctionOnSet(bag, {e \in Durations : e <= d})
Add(bag, d)    == [bag EXCEPT ![d] = @ + 1]
Larger(a, b)   == IF a > b THEN a ELSE b

(* percentile(values, 0.95): the element at index int((n-1)*0.95) of the   *)
(* sorted values.                                                          *)
Percentile95(bag) ==
  LET index == ((Size(bag) - 1) * 95) \div 100
  IN  CHOOSE d \in Durations : UpTo(bag, d) - bag[d] <= index /\ index < UpTo(bag, d)

-----------------------------------------------------------------------------
Calls == calls["read"] + calls["write"]

(* Bug: Observe does not take the mutex a flush holds.                     *)
ObserveUnlocked(d, k) ==
  /\ mu # "observe" /\ Calls < MaxCalls
  /\ mu' = "observe"
  /\ queries' = queries + 1 /\ sumMs' = sumMs + d /\ maxMs' = Larger(maxMs, d)
  /\ slow' = slow + (IF d >= SlowMs THEN 1 ELSE 0)
  /\ samples' = IF Size(samples) < SampleCap THEN Add(samples, d) ELSE samples
  /\ kind' = k /\ loaded' = counter[k]
  /\ interval' = Add(interval, d) /\ observed' = observed + 1
  /\ calls' = Add(calls, k)
  /\ UNCHANGED <<counter, loop, metric, ticks, raced, tallyVars>>

(* Observe takes the mutex, updates what only its holder touches, and      *)
(* loads c.reads or c.writes.                                              *)
BeginObserve(d, k) ==
  /\ mu = "free" /\ Calls < MaxCalls
  /\ mu' = "observe"
  /\ queries' = queries + 1 /\ sumMs' = sumMs + d /\ maxMs' = Larger(maxMs, d)
  /\ slow' = slow + (IF d >= SlowMs THEN 1 ELSE 0)
  /\ samples' = IF Size(samples) < SampleCap THEN Add(samples, d) ELSE samples
  /\ kind' = k /\ loaded' = counter[k]
  /\ interval' = Add(interval, d) /\ observed' = observed + 1
  /\ calls' = Add(calls, k)
  /\ UNCHANGED <<counter, loop, metric, ticks, raced, tallyVars>>

(* It stores the increment and releases the mutex.                         *)
EndObserve ==
  /\ mu = "observe"
  /\ mu' = "free"
  /\ counter' = [counter EXCEPT ![kind] = loaded + 1]
  /\ UNCHANGED <<queries, slow, sumMs, maxMs, samples, kind, loaded>>
  /\ UNCHANGED <<loop, metric, ticks, historyVars, tallyVars>>

(* A plain load of counter k has happened and its store has not: c.reads++ *)
(* in Observe, or the reading and the zeroing in flushCounters.            *)
WindowOpen(k) == (mu = "observe" /\ kind = k) \/ loop = "reset"

(* TrackRead, TrackWrite: atomic.AddInt64, without the mutex.              *)
Track(k) ==
  /\ Calls < MaxCalls
  /\ counter' = Add(counter, k)
  /\ calls' = Add(calls, k)
  /\ raced' = IF WindowOpen(k) THEN Add(raced, k) ELSE raced
  /\ UNCHANGED <<mu, queries, slow, sumMs, maxMs, samples, kind, loaded>>
  /\ UNCHANGED <<loop, metric, ticks, interval, observed, tallyVars>>

-----------------------------------------------------------------------------
(* The metrics loop calls Collect.                                         *)
BeginCollect ==
  /\ loop = "idle" /\ ticks < MaxTicks
  /\ loop' = "flush" /\ ticks' = ticks + 1
  /\ UNCHANGED <<hostVars, metric, historyVars, tallyVars>>

Snapshot ==
  [queries |-> queries, slow |-> slow, sum |-> sumMs, max |-> maxMs,
   p95 |-> IF Size(samples) > 0 THEN Percentile95(samples) ELSE 0,
   counts |-> counter]

(* Bug: flushCounters does not take the mutex.                             *)
FlushUnlocked ==
  /\ loop = "flush"
  /\ loop' = "reset" /\ metric' = Snapshot
  /\ UNCHANGED <<hostVars, ticks, historyVars, tallyVars>>

(* flushCounters takes the mutex and fills the metric.  The average is     *)
(* kept as the sum it is computed from.                                    *)
FlushRead ==
  /\ loop = "flush" /\ mu = "free"
  /\ mu' = "flush" /\ loop' = "reset" /\ metric' = Snapshot
  /\ UNCHANGED <<queries, slow, sumMs, maxMs, samples, counter, kind, loaded>>
  /\ UNCHANGED <<ticks, historyVars, tallyVars>>

(* Bug: the samples outlive the interval.                                  *)
ResetKeepsSamples ==
  /\ queries' = 0 /\ slow' = 0 /\ sumMs' = 0 /\ maxMs' = 0
  /\ counter' = Zeros /\ UNCHANGED samples

Reset ==
  /\ queries' = 0 /\ slow' = 0 /\ sumMs' = 0 /\ maxMs' = 0
  /\ counter' = Zeros /\ samples' = EmptyBag

(* flushCounters zeroes everything and releases the mutex.                 *)
FlushReset ==
  /\ loop = "reset"
  /\ loop' = "size" /\ mu' = "free"
  /\ Reset /\ interval' = EmptyBag
  /\ UNCHANGED <<kind, loaded, metric, ticks, observed, calls, raced, tallyVars>>

(* Bug: Collect returns false when the size query fails.                   *)
SizeQueryFatal ==
  /\ loop = "size"
  /\ loop' \in {"post", "idle"}
  /\ UNCHANGED <<hostVars, metric, ticks, historyVars, tallyVars>>

(* The optional size query; the metric is returned whether it succeeds.    *)
SizeQuery ==
  /\ loop = "size"
  /\ loop' = "post"
  /\ UNCHANGED <<hostVars, metric, ticks, historyVars, tallyVars>>

Credit(tally) ==
  [queries |-> tally.queries + metric.queries,
   counts |-> [k \in Kinds |-> tally.counts[k] + metric.counts[k]]]

(* The loop posts the snapshot; a POST that fails is not repeated.         *)
Ship ==
  /\ loop = "post"
  /\ loop' = "idle" /\ metric' = NoMetric
  /\ \/ posted' = Credit(posted) /\ UNCHANGED lost
     \/ lost' = Credit(lost) /\ UNCHANGED posted
  /\ UNCHANGED <<hostVars, ticks, historyVars>>

(* All calls made and all ticks over.                                      *)
SqlDone ==
  /\ Calls = MaxCalls /\ mu = "free" /\ loop = "idle" /\ ticks = MaxTicks
  /\ UNCHANGED sqlVars

SqlNext ==
  \/ \E d \in Durations, k \in Kinds : BeginObserve(d, k)
  \/ EndObserve
  \/ \E k \in Kinds : Track(k)
  \/ BeginCollect \/ FlushRead \/ FlushReset \/ SizeQuery \/ Ship
  \/ SqlDone

SqlSpec == SqlInit /\ [][SqlNext]_sqlVars

-----------------------------------------------------------------------------
Tallies == [queries : Nat, counts : [Kinds -> Nat]]
Metrics == [queries : Nat, slow : Nat, sum : Nat, max : Durations,
            p95 : Durations, counts : [Kinds -> Nat]]

SqlTypeOK ==
  /\ mu \in {"free", "observe", "flush"}
  /\ queries \in Nat /\ slow \in Nat /\ sumMs \in Nat /\ maxMs \in Durations
  /\ samples \in [Durations -> Nat] /\ counter \in [Kinds -> Nat]
  /\ kind \in Kinds /\ loaded \in Nat
  /\ loop \in {"idle", "flush", "reset", "size", "post"}
  /\ (mu = "flush") = (loop = "reset")
  /\ metric \in Metrics
  /\ ticks \in 0 .. MaxTicks
  /\ interval \in [Durations -> Nat] /\ observed \in Nat
  /\ calls \in [Kinds -> Nat] /\ raced \in [Kinds -> Nat]
  /\ posted \in Tallies /\ lost \in Tallies

(* What the counters stand for when the stores under way have been made.   *)
Held(k) ==
  IF loop = "reset" THEN 0
  ELSE IF mu = "observe" /\ kind = k THEN loaded + 1
  ELSE counter[k]

(***************************************************************************)
(* An observed query is in exactly one place: still in the counters, in    *)
(* the metric being posted, in one that was posted, or in one whose POST   *)
(* failed; the flush of the metrics loop neither drops nor repeats it,     *)
(* whatever Observe does at the same time.                                 *)
(***************************************************************************)
EveryObservationOnce ==
  observed = posted.queries + lost.queries + metric.queries
             + (IF loop = "reset" THEN 0 ELSE queries)

(***************************************************************************)
(* Reads and writes are lost only to the race of TrackRead and TrackWrite  *)
(* with a plain increment or with the reset: with every such call taken    *)
(* off, all others are accounted for once.                                 *)
(***************************************************************************)
OnlyRacesLose ==
  \A k \in Kinds :
    calls[k] = posted.counts[k] + lost.counts[k] + metric.counts[k]
               + Held(k) + raced[k]

(***************************************************************************)
(* The metric describes the queries of its own interval and no other:      *)
(* their number, the slow ones, their sum and maximum; and while they fit  *)
(* the sample, at most a twentieth of them (rounded up) are above p95.     *)
(***************************************************************************)
Above(d) == Size(interval) - UpTo(interval, d)

MetricIsInterval ==
  loop = "reset" =>
    /\ metric.queries = Size(interval)
    /\ metric.slow = Size(interval) - UpTo(interval, SlowMs - 1)
    /\ metric.sum = SumFunction([d \in Durations |-> d * interval[d]])
    /\ metric.p95 <= metric.max /\ Above(metric.max) = 0
    /\ metric.queries > 0 => interval[metric.max] > 0
    /\ metric.queries \in 1 .. SampleCap => 20 * Above(metric.p95) < metric.queries + 19

(***************************************************************************)
(* "TrackRead is sugar for Observe(0, false)": once nothing is under way,  *)
(* every call has been counted, as it is for Observe.                      *)
(***************************************************************************)
TracksAreCounted ==
  mu = "free" /\ loop = "idle" =>
    \A k \in Kinds : calls[k] = posted.counts[k] + lost.counts[k] + counter[k]
=============================================================================
