-------------------------- MODULE SqlCollectorProofs --------------------------
(***************************************************************************)
(* Theorems about the manual SQL collector: every query and every read or  *)
(* write is accounted for, and a metric describes its own interval, for    *)
(* any number of goroutines, calls and flushes.                            *)
(***************************************************************************)
EXTENDS SqlCollector, Sums

-----------------------------------------------------------------------------
(* What the counting needs of the types: SqlTypeOK without the interval,   *)
(* the samples and the statistics of the metric.                           *)
CountTypes ==
  /\ mu \in {"free", "observe", "flush"}
  /\ loop \in {"idle", "flush", "reset", "size", "post"}
  /\ kind \in Kinds
  /\ queries \in Nat /\ observed \in Nat /\ loaded \in Nat
  /\ counter \in [Kinds -> Nat]
  /\ calls \in [Kinds -> Nat] /\ raced \in [Kinds -> Nat]
  /\ metric.queries \in Nat /\ metric.counts \in [Kinds -> Nat]
  /\ posted \in Tallies /\ lost \in Tallies

(* The mutex is held between the reading of the counters and their zeroing *)
(* and at no other time, and a metric exists only from there to its POST.  *)
FlushWindow ==
  /\ mu = "flush" <=> loop = "reset"
  /\ loop \in {"idle", "flush"} => metric.queries = 0 /\ metric.counts = Zeros

CountInv == CountTypes /\ FlushWindow /\ EveryObservationOnce /\ OnlyRacesLose

-----------------------------------------------------------------------------
LEMMA AddOne ==
  ASSUME NEW f \in [Kinds -> Nat], NEW k \in Kinds
  PROVE  /\ Add(f, k) \in [Kinds -> Nat]
         /\ Add(f, k)[k] = f[k] + 1
         /\ \A j \in Kinds : j # k => Add(f, k)[j] = f[j]
BY DEF Add

(* Adding the metric to a tally keeps it one.                              *)
LEMMA CreditAddsMetric ==
  ASSUME NEW tally \in Tallies, CountTypes
  PROVE  /\ Credit(tally) \in Tallies
         /\ Credit(tally).queries = tally.queries + metric.queries
         /\ \A k \in Kinds :
              Credit(tally).counts[k] = tally.counts[k] + metric.counts[k]
<1>1. /\ metric.queries \in Nat /\ tally.queries \in Nat
      /\ \A k \in Kinds : metric.counts[k] \in Nat /\ tally.counts[k] \in Nat
  BY DEF CountTypes, Tallies
<1>2. /\ tally.queries + metric.queries \in Nat
      /\ [k \in Kinds |-> tally.counts[k] + metric.counts[k]] \in [Kinds -> Nat]
  BY <1>1
<1> QED
  BY <1>2 DEF Credit, Tallies

LEMMA CountInit == SqlInit => CountInv
<1> SUFFICES ASSUME SqlInit PROVE CountInv
  OBVIOUS
<1>1. /\ Zeros \in [Kinds -> Nat] /\ \A k \in Kinds : Zeros[k] = 0
  BY DEF Zeros
<1>2. /\ metric.queries = 0 /\ metric.counts = Zeros
      /\ posted \in Tallies /\ lost \in Tallies
      /\ posted.queries = 0 /\ posted.counts = Zeros
      /\ lost.queries = 0 /\ lost.counts = Zeros
  BY <1>1 DEF SqlInit, NoMetric, NoTally, Tallies
<1>3. CountTypes /\ FlushWindow
  BY <1>1, <1>2 DEF SqlInit, CountTypes, FlushWindow, Kinds
<1>4. EveryObservationOnce /\ OnlyRacesLose
  BY <1>1, <1>2 DEF SqlInit, EveryObservationOnce, OnlyRacesLose, Held
<1> QED
  BY <1>3, <1>4 DEF CountInv

-----------------------------------------------------------------------------
LEMMA BeginObserveKeeps ==
  ASSUME CountInv, NEW d \in Durations, NEW k \in Kinds, BeginObserve(d, k)
  PROVE  CountInv'
<1>1. /\ CountTypes /\ FlushWindow /\ mu = "free" /\ mu' = "observe" /\ loop # "reset"
      /\ queries' = queries + 1 /\ observed' = observed + 1
      /\ kind' = k /\ loaded' = counter[k] /\ calls' = Add(calls, k)
      /\ UNCHANGED <<counter, loop, metric, raced, posted, lost>>
  BY DEF CountInv, FlushWindow, BeginObserve, tallyVars
<1>2. /\ calls' \in [Kinds -> Nat] /\ calls'[k] = calls[k] + 1
      /\ \A j \in Kinds : j # k => calls'[j] = calls[j]
  BY <1>1, AddOne DEF CountTypes
<1>3. CountTypes' /\ FlushWindow'
  BY <1>1, <1>2 DEF CountTypes, FlushWindow
<1>4. EveryObservationOnce'
  BY <1>1 DEF CountInv, EveryObservationOnce, CountTypes, Tallies
<1>5. OnlyRacesLose'
  <2>1. /\ Held(k)' = Held(k) + 1
        /\ \A j \in Kinds : j # k => Held(j)' = Held(j)
    BY <1>1 DEF Held
  <2>2. \A j \in Kinds : /\ Held(j) \in Nat /\ posted.counts[j] \in Nat
                         /\ lost.counts[j] \in Nat /\ metric.counts[j] \in Nat
                         /\ raced[j] \in Nat /\ calls[j] \in Nat
    BY <1>1 DEF Held, CountTypes, Tallies
  <2>3. ASSUME NEW j \in Kinds
        PROVE  calls'[j] = posted'.counts[j] + lost'.counts[j] + metric'.counts[j]
                           + Held(j)' + raced'[j]
    <3>1. calls[j] = posted.counts[j] + lost.counts[j] + metric.counts[j] + Held(j) + raced[j]
      BY DEF CountInv, OnlyRacesLose
    <3>2. UNCHANGED <<metric.counts[j], raced[j], posted.counts[j], lost.counts[j]>>
      BY <1>1
    <3>3. CASE j = k
      BY <1>2, <2>1, <2>2, <3>1, <3>2, <3>3
    <3>4. CASE j # k
      BY <1>2, <2>1, <2>2, <3>1, <3>2, <3>4
    <3> QED
      BY <3>3, <3>4
  <2> QED
    BY <2>3 DEF OnlyRacesLose
<1> QED
  BY <1>3, <1>4, <1>5 DEF CountInv

LEMMA EndObserveKeeps ==
  ASSUME CountInv, EndObserve
  PROVE  CountInv'
<1>1. /\ CountTypes /\ FlushWindow /\ mu = "observe" /\ mu' = "free" /\ loop # "reset"
      /\ counter' = [counter EXCEPT ![kind] = loaded + 1]
      /\ UNCHANGED <<queries, kind, loaded, loop, metric, observed, calls, raced,
                     posted, lost>>
  BY DEF CountInv, FlushWindow, EndObserve, historyVars, tallyVars
<1>2. /\ counter' \in [Kinds -> Nat]
      /\ \A j \in Kinds : counter'[j] = IF j = kind THEN loaded + 1 ELSE counter[j]
  BY <1>1 DEF CountTypes
<1>3. CountTypes' /\ FlushWindow'
  BY <1>1, <1>2 DEF CountTypes, FlushWindow
<1>4. EveryObservationOnce'
  BY <1>1 DEF CountInv, EveryObservationOnce
<1>5. \A j \in Kinds : Held(j)' = Held(j)
  BY <1>1, <1>2 DEF Held
<1>6. OnlyRacesLose'
  BY <1>1, <1>5 DEF CountInv, OnlyRacesLose
<1> QED
  BY <1>3, <1>4, <1>6 DEF CountInv

(* An add that falls between a load and its store is in no counter, and    *)
(* raced says so; any other one is in its counter.                         *)
LEMMA TrackKeeps ==
  ASSUME CountInv, NEW k \in Kinds, Track(k)
  PROVE  CountInv'
<1>1. /\ CountTypes /\ FlushWindow
      /\ counter' = Add(counter, k) /\ calls' = Add(calls, k)
      /\ raced' = IF WindowOpen(k) THEN Add(raced, k) ELSE raced
      /\ UNCHANGED <<mu, queries, kind, loaded, loop, metric, observed, posted, lost>>
  BY DEF CountInv, Track, tallyVars
<1>2. /\ counter' \in [Kinds -> Nat] /\ calls' \in [Kinds -> Nat]
      /\ counter'[k] = counter[k] + 1 /\ calls'[k] = calls[k] + 1
      /\ \A j \in Kinds : j # k => counter'[j] = counter[j] /\ calls'[j] = calls[j]
  BY <1>1, AddOne DEF CountTypes
<1>3. /\ raced' \in [Kinds -> Nat]
      /\ raced'[k] = IF WindowOpen(k) THEN raced[k] + 1 ELSE raced[k]
      /\ \A j \in Kinds : j # k => raced'[j] = raced[j]
  BY <1>1, AddOne DEF CountTypes
<1>4. CountTypes' /\ FlushWindow'
  BY <1>1, <1>2, <1>3 DEF CountTypes, FlushWindow
<1>5. EveryObservationOnce'
  BY <1>1 DEF CountInv, EveryObservationOnce
<1>6. OnlyRacesLose'
  <2>1. /\ Held(k)' = IF WindowOpen(k) THEN Held(k) ELSE Held(k) + 1
        /\ \A j \in Kinds : j # k => Held(j)' = Held(j)
    BY <1>1, <1>2 DEF Held, WindowOpen
  <2>2. \A j \in Kinds : /\ Held(j) \in Nat /\ posted.counts[j] \in Nat
                         /\ lost.counts[j] \in Nat /\ metric.counts[j] \in Nat
                         /\ raced[j] \in Nat /\ calls[j] \in Nat
    BY <1>1 DEF Held, CountTypes, Tallies
  <2>3. ASSUME NEW j \in Kinds
        PROVE  calls'[j] = posted'.counts[j] + lost'.counts[j] + metric'.counts[j]
                           + Held(j)' + raced'[j]
    <3>1. calls[j] = posted.counts[j] + lost.counts[j] + metric.counts[j] + Held(j) + raced[j]
      BY DEF CountInv, OnlyRacesLose
    <3>2. UNCHANGED <<metric.counts[j], posted.counts[j], lost.counts[j]>>
      BY <1>1
    <3>3. CASE j = k
      BY <1>2, <1>3, <2>1, <2>2, <3>1, <3>2, <3>3
    <3>4. CASE j # k
      BY <1>2, <1>3, <2>1, <2>2, <3>1, <3>2, <3>4
    <3> QED
      BY <3>3, <3>4
  <2> QED
    BY <2>3 DEF OnlyRacesLose
<1> QED
  BY <1>4, <1>5, <1>6 DEF CountInv

-----------------------------------------------------------------------------
(* The counters move into the metric: until they are zeroed, what they     *)
(* still hold stands for nothing.                                          *)
LEMMA FlushReadKeeps ==
  ASSUME CountInv, FlushRead
  PROVE  CountInv'
<1>1. /\ CountTypes /\ FlushWindow /\ loop = "flush" /\ mu = "free"
      /\ mu' = "flush" /\ loop' = "reset"
      /\ metric'.queries = queries /\ metric'.counts = counter
      /\ metric.queries = 0 /\ metric.counts = Zeros
      /\ UNCHANGED <<queries, counter, kind, loaded, observed, calls, raced, posted, lost>>
  BY DEF CountInv, FlushWindow, FlushRead, Snapshot, historyVars, tallyVars
<1>2. CountTypes' /\ FlushWindow'
  BY <1>1 DEF CountTypes, FlushWindow
<1>3. EveryObservationOnce'
  BY <1>1 DEF CountInv, EveryObservationOnce, CountTypes, Tallies
<1>4. OnlyRacesLose'
  <2>1. \A j \in Kinds : /\ Held(j) = counter[j] /\ Held(j)' = 0
                         /\ metric.counts[j] = 0 /\ metric'.counts[j] = counter[j]
    BY <1>1 DEF Held, Zeros
  <2>2. \A j \in Kinds : /\ counter[j] \in Nat /\ posted.counts[j] \in Nat
                         /\ lost.counts[j] \in Nat
                         /\ raced[j] \in Nat /\ calls[j] \in Nat
    BY <1>1 DEF CountTypes, Tallies
  <2> QED
    BY <1>1, <2>1, <2>2 DEF CountInv, OnlyRacesLose
<1> QED
  BY <1>2, <1>3, <1>4 DEF CountInv

LEMMA FlushResetKeeps ==
  ASSUME CountInv, FlushReset
  PROVE  CountInv'
<1>1. /\ CountTypes /\ FlushWindow /\ loop = "reset" /\ loop' = "size" /\ mu' = "free"
      /\ queries' = 0 /\ counter' = Zeros
      /\ UNCHANGED <<kind, loaded, metric, observed, calls, raced, posted, lost>>
  BY DEF CountInv, FlushReset, Reset, tallyVars
<1>2. Zeros \in [Kinds -> Nat] /\ \A j \in Kinds : Zeros[j] = 0
  BY DEF Zeros
<1>3. CountTypes' /\ FlushWindow'
  BY <1>1, <1>2 DEF CountTypes, FlushWindow
<1>4. EveryObservationOnce'
  BY <1>1 DEF CountInv, EveryObservationOnce, CountTypes, Tallies
<1>5. \A j \in Kinds : Held(j) = 0 /\ Held(j)' = 0
  BY <1>1, <1>2 DEF Held
<1>6. OnlyRacesLose'
  BY <1>1, <1>5 DEF CountInv, OnlyRacesLose
<1> QED
  BY <1>3, <1>4, <1>6 DEF CountInv

LEMMA BeginCollectKeeps ==
  ASSUME CountInv, BeginCollect
  PROVE  CountInv'
<1>1. /\ CountTypes /\ FlushWindow /\ loop = "idle" /\ loop' = "flush"
      /\ UNCHANGED <<mu, queries, counter, kind, loaded, metric, observed, calls, raced,
                     posted, lost>>
  BY DEF CountInv, BeginCollect, hostVars, historyVars, tallyVars
<1>2. CountTypes' /\ FlushWindow'
  BY <1>1 DEF CountTypes, FlushWindow
<1>3. EveryObservationOnce' /\ OnlyRacesLose'
  BY <1>1 DEF CountInv, EveryObservationOnce, OnlyRacesLose, Held
<1> QED
  BY <1>2, <1>3 DEF CountInv

LEMMA SizeQueryKeeps ==
  ASSUME CountInv, SizeQuery
  PROVE  CountInv'
<1>1. /\ CountTypes /\ FlushWindow /\ loop = "size" /\ loop' = "post"
      /\ UNCHANGED <<mu, queries, counter, kind, loaded, metric, observed, calls, raced,
                     posted, lost>>
  BY DEF CountInv, SizeQuery, hostVars, historyVars, tallyVars
<1>2. CountTypes' /\ FlushWindow'
  BY <1>1 DEF CountTypes, FlushWindow
<1>3. EveryObservationOnce' /\ OnlyRacesLose'
  BY <1>1 DEF CountInv, EveryObservationOnce, OnlyRacesLose, Held
<1> QED
  BY <1>2, <1>3 DEF CountInv

(* The metric moves into one of the two tallies.                           *)
LEMMA ShipKeeps ==
  ASSUME CountInv, Ship
  PROVE  CountInv'
<1>1. /\ CountTypes /\ FlushWindow /\ loop = "post" /\ loop' = "idle"
      /\ metric'.queries = 0 /\ metric'.counts = Zeros
      /\ UNCHANGED <<mu, queries, counter, kind, loaded, observed, calls, raced>>
  BY DEF CountInv, Ship, NoMetric, hostVars, historyVars
<1>2. Zeros \in [Kinds -> Nat] /\ \A j \in Kinds : Zeros[j] = 0
  BY DEF Zeros
<1>3. posted \in Tallies /\ lost \in Tallies
  BY <1>1 DEF CountTypes
<1>4. /\ posted' \in Tallies /\ lost' \in Tallies
      /\ posted'.queries + lost'.queries
           = posted.queries + lost.queries + metric.queries
      /\ \A j \in Kinds : posted'.counts[j] + lost'.counts[j]
                            = posted.counts[j] + lost.counts[j] + metric.counts[j]
  <2>1. \A t \in Tallies : t.queries \in Nat /\ \A j \in Kinds : t.counts[j] \in Nat
    BY DEF Tallies
  <2>2. metric.queries \in Nat /\ \A j \in Kinds : metric.counts[j] \in Nat
    BY <1>1 DEF CountTypes
  <2>3. CASE posted' = Credit(posted) /\ UNCHANGED lost
    BY <1>1, <1>3, <2>1, <2>2, <2>3, CreditAddsMetric
  <2>4. CASE lost' = Credit(lost) /\ UNCHANGED posted
    BY <1>1, <1>3, <2>1, <2>2, <2>4, CreditAddsMetric
  <2> QED
    BY <2>3, <2>4 DEF Ship
<1>5. CountTypes' /\ FlushWindow'
  BY <1>1, <1>2, <1>4 DEF CountTypes, FlushWindow
<1>6. EveryObservationOnce'
  BY <1>1, <1>4 DEF CountInv, EveryObservationOnce, CountTypes, Tallies
<1>7. OnlyRacesLose'
  <2>1. \A j \in Kinds : /\ Held(j)' = Held(j) /\ metric'.counts[j] = 0
                         /\ Held(j) \in Nat /\ raced[j] \in Nat
    BY <1>1, <1>2 DEF Held, CountTypes
  <2>2. \A j \in Kinds : posted'.counts[j] \in Nat /\ lost'.counts[j] \in Nat
    BY <1>4 DEF Tallies
  <2> QED
    BY <1>1, <1>4, <2>1, <2>2 DEF CountInv, OnlyRacesLose
<1> QED
  BY <1>5, <1>6, <1>7 DEF CountInv

-----------------------------------------------------------------------------
LEMMA CountStep == CountInv /\ [SqlNext]_sqlVars => CountInv'
<1> SUFFICES ASSUME CountInv, [SqlNext]_sqlVars PROVE CountInv'
  OBVIOUS
<1>1. CASE \E d \in Durations, k \in Kinds : BeginObserve(d, k)
  BY <1>1, BeginObserveKeeps
<1>2. CASE EndObserve
  BY <1>2, EndObserveKeeps
<1>3. CASE \E k \in Kinds : Track(k)
  BY <1>3, TrackKeeps
<1>4. CASE BeginCollect
  BY <1>4, BeginCollectKeeps
<1>5. CASE FlushRead
  BY <1>5, FlushReadKeeps
<1>6. CASE FlushReset
  BY <1>6, FlushResetKeeps
<1>7. CASE SizeQuery
  BY <1>7, SizeQueryKeeps
<1>8. CASE Ship
  BY <1>8, ShipKeeps
<1>9. CASE UNCHANGED sqlVars
  BY <1>9 DEF CountInv, CountTypes, FlushWindow, EveryObservationOnce, OnlyRacesLose,
              Held, sqlVars, hostVars, historyVars, tallyVars
<1> QED
  BY <1>1, <1>2, <1>3, <1>4, <1>5, <1>6, <1>7, <1>8, <1>9 DEF SqlNext, SqlDone

LEMMA CountInvariant == SqlSpec => []CountInv
BY CountInit, CountStep, PTL DEF SqlSpec

(***************************************************************************)
(* A query seen by Observe is at every moment in exactly one of the        *)
(* counters, the metric being posted, a posted one or one whose POST       *)
(* failed: flushCounters neither drops nor repeats one.                    *)
(***************************************************************************)
THEOREM EveryObservationOnceThm == SqlSpec => []EveryObservationOnce
<1>1. CountInv => EveryObservationOnce
  BY DEF CountInv
<1> QED
  BY <1>1, CountInvariant, PTL

(***************************************************************************)
(* Reads and writes are lost only to an atomic add of TrackRead or         *)
(* TrackWrite between the load and the store of a plain c.reads++ or the   *)
(* reading and zeroing in flushCounters, one per such call.                *)
(***************************************************************************)
THEOREM OnlyRacesLoseThm == SqlSpec => []OnlyRacesLose
<1>1. CountInv => OnlyRacesLose
  BY DEF CountInv
<1> QED
  BY <1>1, CountInvariant, PTL

-----------------------------------------------------------------------------
(* DurationBags of durations.                                                      *)
DurationBags == [Durations -> Nat]

LEMMA SizeType ==
  ASSUME NEW bag \in DurationBags
  PROVE  /\ Size(bag) = SumFunctionOnSet(bag, Durations)
         /\ Size(bag) \in Nat
<1>1. DOMAIN bag = Durations /\ \A d \in Durations : bag[d] \in Nat
  BY DEF DurationBags
<1>2. SumFunctionOnSet(bag, Durations) \in Nat
  BY <1>1, SumType, SqlAssumption
<1> QED
  BY <1>1, <1>2 DEF Size, SumFunction

LEMMA UpToType ==
  ASSUME NEW bag \in DurationBags, NEW b
  PROVE  /\ IsFiniteSet({e \in Durations : e <= b})
         /\ UpTo(bag, b) \in Nat
<1> DEFINE S == {e \in Durations : e <= b}
<1>1. IsFiniteSet(S)
  BY FS_Subset, SqlAssumption
<1>2. \A e \in S : bag[e] \in Nat
  BY DEF DurationBags
<1> HIDE DEF S
<1>3. SumFunctionOnSet(bag, S) \in Nat
  BY <1>1, <1>2, SumType
<1> QED
  BY <1>1, <1>3 DEF UpTo, S

(* Another query of duration d: the size, the part up to a bound, and the  *)
(* sum of the durations.                                                   *)
LEMMA AddType ==
  ASSUME NEW bag \in DurationBags, NEW d \in Durations
  PROVE  /\ Add(bag, d) \in DurationBags
         /\ Add(bag, d)[d] = bag[d] + 1
         /\ \A e \in Durations \ {d} : Add(bag, d)[e] = bag[e]
BY DEF Add, DurationBags

LEMMA SizeAdd ==
  ASSUME NEW bag \in DurationBags, NEW d \in Durations
  PROVE  Size(Add(bag, d)) = Size(bag) + 1
<1> DEFINE more == Add(bag, d)
<1>1. /\ more \in DurationBags /\ more[d] = bag[d] + 1
      /\ \A e \in Durations \ {d} : more[e] = bag[e]
  BY AddType
<1> HIDE DEF more
<1>2. \A e \in Durations : bag[e] \in Nat /\ more[e] \in Nat
  BY <1>1 DEF DurationBags
<1>3. SumFunctionOnSet(more, Durations)
        = SumFunctionOnSet(bag, Durations) - bag[d] + more[d]
  <2>1. IsFiniteSet(Durations) /\ d \in Durations
    BY SqlAssumption
  <2> QED
    BY ONLY <1>1, <1>2, <2>1, SumUpdate
<1>4. /\ Size(bag) = SumFunctionOnSet(bag, Durations) /\ Size(bag) \in Nat
      /\ Size(more) = SumFunctionOnSet(more, Durations)
  BY <1>1, SizeType
<1> QED
  BY <1>1, <1>2, <1>3, <1>4 DEF more

LEMMA UpToAdd ==
  ASSUME NEW bag \in DurationBags, NEW d \in Durations, NEW b
  PROVE  UpTo(Add(bag, d), b) = UpTo(bag, b) + (IF d <= b THEN 1 ELSE 0)
<1> DEFINE more == Add(bag, d)
           S == {e \in Durations : e <= b}
<1>1. /\ more \in DurationBags /\ more[d] = bag[d] + 1
      /\ \A e \in Durations \ {d} : more[e] = bag[e]
  BY AddType
<1>2. IsFiniteSet(S) /\ UpTo(bag, b) \in Nat
  BY UpToType
<1>3. d \in S <=> d <= b
  OBVIOUS
<1>4. /\ UpTo(more, b) = SumFunctionOnSet(more, S)
      /\ UpTo(bag, b) = SumFunctionOnSet(bag, S)
  BY DEF UpTo
<1>5. S \subseteq Durations
  OBVIOUS
<1> HIDE DEF more, S
<1>6. \A e \in S : bag[e] \in Nat /\ more[e] \in Nat
  BY <1>1, <1>5 DEF DurationBags
<1>7. CASE d \in S
  <2>1. \A e \in S \ {d} : more[e] = bag[e]
    BY <1>1, <1>5
  <2>2. SumFunctionOnSet(more, S) = SumFunctionOnSet(bag, S) - bag[d] + more[d]
    BY <1>2, <1>6, <1>7, <2>1, SumUpdate
  <2> QED
    BY <1>1, <1>2, <1>3, <1>4, <1>6, <1>7, <2>2 DEF more
<1>8. CASE d \notin S
  <2>1. \A e \in S : more[e] = bag[e]
    BY <1>1, <1>5, <1>8
  <2>2. SumFunctionOnSet(more, S) = SumFunctionOnSet(bag, S)
    BY <1>2, <2>1, SumAgree
  <2> QED
    BY <1>2, <1>3, <1>4, <1>8, <2>2 DEF more
<1> QED
  BY <1>7, <1>8

Weights(bag) == [d \in Durations |-> d * bag[d]]

LEMMA WeightOf ==
  ASSUME NEW bag \in DurationBags
  PROVE  /\ Weights(bag) \in DurationBags
         /\ \A d \in Durations : Weights(bag)[d] = d * bag[d]
<1>1. \A d \in Durations : d \in Nat /\ bag[d] \in Nat
  BY SqlAssumption DEF DurationBags
<1>2. \A m, n \in Nat : m * n \in Nat
  OBVIOUS
<1>3. \A d \in Durations : d * bag[d] \in Nat
  BY <1>1, <1>2
<1> QED
  BY <1>3 DEF Weights, DurationBags

LEMMA WeightAdd ==
  ASSUME NEW bag \in DurationBags, NEW d \in Durations
  PROVE  SumFunction(Weights(Add(bag, d))) = SumFunction(Weights(bag)) + d
<1> DEFINE more == Add(bag, d)
           old == Weights(bag)
           new == Weights(more)
<1>1. /\ more \in DurationBags /\ more[d] = bag[d] + 1
      /\ \A e \in Durations \ {d} : more[e] = bag[e]
  BY AddType
<1> HIDE DEF more
<1>2. /\ old \in DurationBags /\ \A e \in Durations : old[e] = e * bag[e]
      /\ new \in DurationBags /\ \A e \in Durations : new[e] = e * more[e]
  BY <1>1, WeightOf
<1>3. d \in Nat /\ bag[d] \in Nat
  BY SqlAssumption DEF DurationBags
<1>4. \A m, n \in Nat : m * (n + 1) = m * n + m
  OBVIOUS
<1>5. d * (bag[d] + 1) = d * bag[d] + d
  BY <1>3, <1>4
<1>6. new[d] = old[d] + d
  BY <1>1, <1>2, <1>5
<1>7. \A e \in Durations \ {d} : new[e] = old[e]
  BY <1>1, <1>2
<1> HIDE DEF old, new
<1>8. \A e \in Durations : old[e] \in Nat /\ new[e] \in Nat
  BY <1>2 DEF DurationBags
<1>9. SumFunctionOnSet(new, Durations) = SumFunctionOnSet(old, Durations) - old[d] + new[d]
  <2>1. IsFiniteSet(Durations) /\ d \in Durations
    BY SqlAssumption
  <2> QED
    BY ONLY <1>7, <1>8, <2>1, SumUpdate
<1>10. SumFunctionOnSet(old, Durations) \in Nat
  BY <1>8, SumType, SqlAssumption
<1>11. SumFunction(new) = SumFunctionOnSet(new, Durations)
       /\ SumFunction(old) = SumFunctionOnSet(old, Durations)
  BY <1>2 DEF SumFunction, DurationBags
<1>12. old[d] \in Nat
  BY <1>8
<1>13. SumFunction(new) = SumFunction(old) + d
  BY <1>3, <1>6, <1>9, <1>10, <1>11, <1>12
<1> QED
  BY <1>13 DEF new, old, more

(* The empty bag.                                                          *)
LEMMA EmptyBagSums ==
  /\ EmptyBag \in DurationBags /\ Size(EmptyBag) = 0 /\ SumFunction(Weights(EmptyBag)) = 0
  /\ \A b : UpTo(EmptyBag, b) = 0
<1> DEFINE empty == EmptyBag
           weights == Weights(EmptyBag)
<1>1. empty \in DurationBags /\ \A d \in Durations : empty[d] = 0
  BY DEF EmptyBag, DurationBags
<1>2. weights \in DurationBags /\ \A d \in Durations : weights[d] = d * 0
  BY <1>1, WeightOf DEF EmptyBag
<1>3. \A d \in Durations : weights[d] = 0
  BY <1>2, SqlAssumption
<1> HIDE DEF empty, weights
<1>4. SumFunctionOnSet(empty, Durations) = 0 /\ SumFunctionOnSet(weights, Durations) = 0
  BY <1>1, <1>3, SumOfZeros, SqlAssumption
<1>5. Size(empty) = 0
  BY <1>1, <1>4, SizeType
<1>6. SumFunction(weights) = 0
  BY <1>2, <1>4 DEF SumFunction, DurationBags
<1>7. ASSUME NEW b PROVE UpTo(empty, b) = 0
  <2> DEFINE S == {e \in Durations : e <= b}
  <2>1. IsFiniteSet(S) /\ \A e \in S : empty[e] = 0
    BY <1>1, UpToType
  <2> HIDE DEF S
  <2>2. SumFunctionOnSet(empty, S) = 0
    BY <2>1, SumOfZeros
  <2> QED
    BY <2>2 DEF UpTo, S
<1> QED
  BY <1>1, <1>5, <1>6, <1>7 DEF empty, weights

(* A bound on the durations in a bag.                                      *)
LEMMA UpToAll ==
  ASSUME NEW bag \in DurationBags, NEW b, \A d \in Durations : bag[d] > 0 => d <= b
  PROVE  UpTo(bag, b) = Size(bag)
<1> DEFINE S == {e \in Durations : e <= b}
<1>1. S \in SUBSET Durations
  OBVIOUS
<1>2. \A d \in Durations : bag[d] \in Nat
  BY DEF DurationBags
<1>3. \A d \in Durations \ S : bag[d] = 0
  BY <1>2
<1>4. UpTo(bag, b) = SumFunctionOnSet(bag, S)
  BY DEF UpTo
<1> HIDE DEF S
<1>5. SumFunctionOnSet(bag, Durations) = SumFunctionOnSet(bag, S)
  BY <1>1, <1>2, <1>3, SumOfSupport, SqlAssumption
<1> QED
  BY <1>4, <1>5, SizeType

LEMMA Below ==
  ASSUME NEW bag \in DurationBags, NEW d \in Durations
  PROVE  UpTo(bag, d) - bag[d] = SumFunctionOnSet(bag, {e \in Durations : e < d})
<1> DEFINE S == {e \in Durations : e <= d}
           T == {e \in Durations : e < d}
<1>1. \A e \in Durations : e \in Nat
  BY SqlAssumption
<1>2. d \in S /\ T = S \ {d} /\ S \subseteq Durations
  BY <1>1
<1>3. IsFiniteSet(S)
  BY UpToType
<1>4. UpTo(bag, d) = SumFunctionOnSet(bag, S)
  BY DEF UpTo
<1> HIDE DEF S
<1>5. \A e \in S : bag[e] \in Nat
  BY <1>2 DEF DurationBags
<1>6. SumFunctionOnSet(bag, S) = bag[d] + SumFunctionOnSet(bag, S \ {d})
  BY <1>2, <1>3, <1>5, SumRemove
<1>7. SumFunctionOnSet(bag, S \ {d}) \in Nat
  <2>1. IsFiniteSet(S \ {d})
    BY <1>3, FS_Subset
  <2> QED
    BY <1>5, <2>1, SumType
<1>8. SumFunctionOnSet(bag, T) = SumFunctionOnSet(bag, S \ {d})
  BY <1>2
<1> HIDE DEF T
<1>9. bag[d] \in Nat
  BY DEF DurationBags
<1>10. UpTo(bag, d) - bag[d] = SumFunctionOnSet(bag, T)
  BY <1>4, <1>6, <1>7, <1>8, <1>9
<1> QED
  BY <1>10 DEF T

(* The element at an index of the sorted bag exists: it is the least       *)
(* duration with more than index elements up to it.                        *)
LEMMA ElementAt ==
  ASSUME NEW bag \in DurationBags, NEW index \in Nat, index < Size(bag)
  PROVE  \E d \in Durations :
           UpTo(bag, d) - bag[d] <= index /\ index < UpTo(bag, d)
<1> DEFINE D == {d \in Durations : index < UpTo(bag, d)}
<1>1. /\ IsFiniteSet(Durations) /\ Durations \subseteq Nat /\ Durations # {}
      /\ \A d \in Durations : d \in Nat
  BY SqlAssumption
<1>2. PICK g \in Durations : \A d \in Durations : d <= g
  <2> USE <1>1
  <2> QED
    BY ONLY <1>1, GreatestOf
<1>3. UpTo(bag, g) = Size(bag)
  BY <1>2, UpToAll
<1>4. g \in D
  BY <1>2, <1>3
<1>5. IsFiniteSet(D) /\ D \subseteq Nat /\ D # {} /\ D \subseteq Durations
  BY <1>1, <1>4, FS_Subset
<1> HIDE DEF D
<1>6. PICK m \in D : \A d \in D : m <= d
  BY ONLY <1>5, LeastOf
<1>7. m \in Durations /\ index < UpTo(bag, m)
  BY <1>6 DEF D
<1> DEFINE T == {e \in Durations : e < m}
<1>8. UpTo(bag, m) - bag[m] = SumFunctionOnSet(bag, T)
  BY <1>7, Below
<1>9. SumFunctionOnSet(bag, T) <= index
  <2>1. CASE T = {}
    <3>1. SumFunctionOnSet(bag, T) = 0
      BY <2>1, SumEmpty
    <3> QED
      BY <3>1
  <2>2. CASE T # {}
    <3>1. IsFiniteSet(T) /\ T \subseteq Nat /\ T \subseteq Durations
      BY <1>1, FS_Subset
    <3>2. PICK h \in T : \A e \in T : e <= h
      <4> HIDE DEF T
      <4> QED
        BY ONLY <2>2, <3>1, GreatestOf
    <3>3. h \in Durations /\ h < m
      BY <3>2
    <3>4. \A e \in Durations : e < m <=> e <= h
      <4>1. ASSUME NEW e \in Durations, e < m PROVE e <= h
        BY <3>2, <4>1
      <4>2. ASSUME NEW e \in Durations, e <= h PROVE e < m
        <5>1. e \in Nat /\ h \in Nat /\ m \in Nat
          BY <1>1, <1>7, <3>3
        <5> QED
          BY <3>3, <4>2, <5>1
      <4> QED
        BY <4>1, <4>2
    <3>5. UpTo(bag, h) = SumFunctionOnSet(bag, T)
      <4>1. T = {e \in Durations : e <= h}
        BY <3>4
      <4> QED
        BY <4>1 DEF UpTo
    <3>6. h \notin D
      BY <1>1, <1>6, <1>7, <3>3
    <3>7. ~(index < UpTo(bag, h)) /\ UpTo(bag, h) \in Nat
      BY <3>3, <3>6, UpToType DEF D
    <3> HIDE DEF T
    <3> QED
      BY <3>5, <3>7
  <2> QED
    BY <2>1, <2>2
<1> HIDE DEF T
<1> QED
  BY <1>7, <1>8, <1>9

(* Numbers: where the 95th percentile of n elements falls, and how many    *)
(* elements are behind it.                                                 *)
LEMMA IndexOf95 ==
  ASSUME NEW n \in Nat, n > 0
  PROVE  /\ ((n - 1) * 95) \div 100 \in Nat
         /\ ((n - 1) * 95) \div 100 < n
         /\ 20 * (n - 1 - ((n - 1) * 95) \div 100) < n + 19
OBVIOUS

(***************************************************************************)
(* percentile(values, 0.95) of any sample that is not empty is one of its  *)
(* values, and at most a twentieth of them, rounded up, are above it.  The *)
(* truncation of (n-1)*0.95 to an index costs no more than that.           *)
(***************************************************************************)
THEOREM PercentileCorrect ==
  ASSUME NEW bag \in DurationBags, Size(bag) > 0
  PROVE  /\ Percentile95(bag) \in Durations
         /\ bag[Percentile95(bag)] > 0
         /\ 20 * (Size(bag) - UpTo(bag, Percentile95(bag))) < Size(bag) + 19
<1> DEFINE n == Size(bag)
           index == ((n - 1) * 95) \div 100
           p == Percentile95(bag)
           At(d) == UpTo(bag, d) - bag[d] <= index /\ index < UpTo(bag, d)
<1>1. n \in Nat /\ n > 0
  BY SizeType
<1>2. index \in Nat /\ index < n /\ 20 * (n - 1 - index) < n + 19
  <2> HIDE DEF n
  <2> QED
    BY <1>1, IndexOf95
<1>3. p = CHOOSE d \in Durations : At(d)
  BY DEF Percentile95
<1> HIDE DEF index, n
<1>4. \E d \in Durations : At(d)
  BY <1>2, ElementAt DEF n
<1>5. p \in Durations /\ At(p)
  <2> HIDE DEF At, p
  <2> QED
    BY <1>3, <1>4
<1> HIDE DEF p
<1>6. UpTo(bag, p) \in Nat /\ bag[p] \in Nat
  BY <1>5, UpToType DEF DurationBags
<1>7. UpTo(bag, p) >= index + 1 /\ bag[p] > 0
  BY <1>2, <1>5, <1>6
<1>8. 20 * (n - UpTo(bag, p)) < n + 19
  BY <1>1, <1>2, <1>6, <1>7
<1> QED
  BY <1>5, <1>7, <1>8 DEF n, p

-----------------------------------------------------------------------------
(* The counters and the samples say nothing but what was observed since    *)
(* the last flush; the samples are all of it while it fits.                *)
IntervalTypes ==
  /\ slow \in Nat /\ sumMs \in Nat /\ maxMs \in Durations
  /\ samples \in DurationBags /\ interval \in DurationBags
  /\ metric \in Metrics /\ ticks \in 0 .. MaxTicks

CountersAreInterval ==
  /\ queries = Size(interval)
  /\ slow = Size(interval) - UpTo(interval, SlowMs - 1)
  /\ sumMs = SumFunction(Weights(interval))
  /\ \A d \in Durations : interval[d] > 0 => d <= maxMs
  /\ IF queries = 0 THEN maxMs = 0 ELSE interval[maxMs] > 0

SamplesAreOfInterval ==
  /\ \A d \in Durations : samples[d] <= interval[d]
  /\ queries <= SampleCap => samples = interval

IntervalInv ==
  IntervalTypes /\ CountersAreInterval /\ SamplesAreOfInterval /\ MetricIsInterval

LEMMA NoMetricType == NoMetric \in Metrics
<1>1. Zeros \in [Kinds -> Nat] /\ 0 \in Durations
  BY SqlAssumption DEF Zeros
<1> QED
  BY <1>1 DEF NoMetric, Metrics

LEMMA IntervalInit == SqlInit => IntervalInv
<1> SUFFICES ASSUME SqlInit PROVE IntervalInv
  OBVIOUS
<1>1. /\ queries = 0 /\ slow = 0 /\ sumMs = 0 /\ maxMs = 0 /\ ticks = 0 /\ loop = "idle"
      /\ samples = EmptyBag /\ interval = EmptyBag /\ metric = NoMetric
  BY DEF SqlInit
<1>2. 0 \in Durations /\ MaxTicks \in Nat
  BY SqlAssumption
<1>3. \A d \in Durations : EmptyBag[d] = 0
  BY DEF EmptyBag
<1>4. IntervalTypes
  BY <1>1, <1>2, EmptyBagSums, NoMetricType DEF IntervalTypes
<1>5. CountersAreInterval
  BY <1>1, <1>3, EmptyBagSums DEF CountersAreInterval
<1>6. SamplesAreOfInterval
  BY <1>1, <1>3 DEF SamplesAreOfInterval
<1>7. MetricIsInterval
  BY <1>1 DEF MetricIsInterval
<1> QED
  BY <1>4, <1>5, <1>6, <1>7 DEF IntervalInv

(* One more query, in the counters and in the interval alike.              *)
LEMMA BeginObserveInterval ==
  ASSUME CountInv, IntervalInv, NEW d \in Durations, NEW k \in Kinds, BeginObserve(d, k)
  PROVE  IntervalInv'
<1>1. /\ loop # "reset" /\ queries' = queries + 1 /\ sumMs' = sumMs + d
      /\ maxMs' = Larger(maxMs, d)
      /\ slow' = slow + (IF d >= SlowMs THEN 1 ELSE 0)
      /\ samples' = IF Size(samples) < SampleCap THEN Add(samples, d) ELSE samples
      /\ interval' = Add(interval, d)
      /\ UNCHANGED <<loop, metric, ticks>>
  BY DEF CountInv, FlushWindow, BeginObserve
<1>2. /\ IntervalTypes /\ CountersAreInterval /\ SamplesAreOfInterval
      /\ queries \in Nat
  BY DEF IntervalInv, CountInv, CountTypes
<1>3. /\ samples \in DurationBags /\ interval \in DurationBags
      /\ slow \in Nat /\ sumMs \in Nat /\ maxMs \in Durations
  BY <1>2 DEF IntervalTypes
<1>4. d \in Nat /\ maxMs \in Nat /\ SlowMs \in Nat /\ SampleCap \in Nat
  BY <1>3, SqlAssumption
<1>5. /\ interval' \in DurationBags /\ interval'[d] = interval[d] + 1
      /\ \A e \in Durations \ {d} : interval'[e] = interval[e]
  BY <1>1, <1>3, AddType
<1>6. samples' \in DurationBags
  BY <1>1, <1>3, AddType
<1>7. /\ maxMs' \in Durations /\ maxMs <= maxMs' /\ d <= maxMs'
      /\ maxMs' = d \/ (maxMs' = maxMs /\ d <= maxMs)
  BY <1>1, <1>3, <1>4 DEF Larger
<1>8. \A e \in Durations : e \in Nat /\ interval[e] \in Nat /\ samples[e] \in Nat
  BY <1>3, SqlAssumption DEF DurationBags
<1>9. IntervalTypes'
  <2>1. slow' \in Nat /\ sumMs' \in Nat
    BY <1>1, <1>3, <1>4
  <2> QED
    BY <1>1, <1>2, <1>5, <1>6, <1>7, <2>1 DEF IntervalTypes
<1>10. CountersAreInterval'
  <2>1. Size(interval') = Size(interval) + 1 /\ Size(interval) \in Nat
    BY <1>1, <1>3, SizeAdd, SizeType
  <2>2. /\ UpTo(interval', SlowMs - 1)
             = UpTo(interval, SlowMs - 1) + (IF d <= SlowMs - 1 THEN 1 ELSE 0)
        /\ UpTo(interval, SlowMs - 1) \in Nat
    BY <1>1, <1>3, UpToAdd, UpToType
  <2>3. SumFunction(Weights(interval')) = SumFunction(Weights(interval)) + d
    BY <1>1, <1>3, WeightAdd
  <2>4. /\ queries = Size(interval)
        /\ slow = Size(interval) - UpTo(interval, SlowMs - 1)
        /\ sumMs = SumFunction(Weights(interval))
        /\ \A e \in Durations : interval[e] > 0 => e <= maxMs
    BY <1>2 DEF CountersAreInterval
  <2>5. queries' = Size(interval')
    BY <1>1, <2>1, <2>4
  <2>6. slow' = Size(interval') - UpTo(interval', SlowMs - 1)
    <3>1. CASE d >= SlowMs
      <4>1. ~(d <= SlowMs - 1)
        BY <1>4, <3>1
      <4> QED
        BY <1>1, <2>1, <2>2, <2>4, <3>1, <4>1
    <3>2. CASE ~(d >= SlowMs)
      <4>1. d <= SlowMs - 1
        BY <1>4, <3>2
      <4> QED
        BY <1>1, <2>1, <2>2, <2>4, <3>2, <4>1
    <3> QED
      BY <3>1, <3>2
  <2>7. sumMs' = SumFunction(Weights(interval'))
    BY <1>1, <2>3, <2>4
  <2>8. ASSUME NEW e \in Durations, interval'[e] > 0 PROVE e <= maxMs'
    <3>1. CASE e = d
      BY <1>7, <3>1
    <3>2. CASE e # d
      <4>1. e <= maxMs
        BY <1>5, <2>4, <2>8, <3>2
      <4>2. maxMs' \in Nat
        BY <1>7, SqlAssumption
      <4> QED
        BY <1>4, <1>7, <1>8, <4>1, <4>2
    <3> QED
      BY <3>1, <3>2
  <2>9. interval'[maxMs'] > 0
    <3>1. CASE maxMs' = d
      BY <1>5, <1>8, <3>1
    <3>2. CASE maxMs' # d
      <4>1. maxMs' = maxMs /\ d <= maxMs /\ interval'[maxMs] = interval[maxMs]
        BY <1>3, <1>5, <1>7, <3>2
      <4>2. maxMs # 0
        BY <1>4, <3>2, <4>1
      <4>3. interval[maxMs] > 0
        BY <1>2, <4>2 DEF CountersAreInterval
      <4> QED
        BY <4>1, <4>3
    <3> QED
      BY <3>1, <3>2
  <2>10. queries' # 0
    BY <1>1, <1>2
  <2> QED
    BY <2>5, <2>6, <2>7, <2>8, <2>9, <2>10 DEF CountersAreInterval
<1>11. SamplesAreOfInterval'
  <2>1. CASE Size(samples) < SampleCap
    <3>1. /\ samples' = Add(samples, d) /\ samples'[d] = samples[d] + 1
          /\ \A e \in Durations \ {d} : samples'[e] = samples[e]
      BY <1>1, <1>3, <2>1, AddType
    <3>2. \A e \in Durations : samples'[e] <= interval'[e]
      BY <1>2, <1>5, <1>8, <3>1 DEF SamplesAreOfInterval
    <3>3. queries' <= SampleCap => samples' = interval'
      <4>1. queries' <= SampleCap => queries <= SampleCap
        BY <1>1, <1>2, <1>4
      <4> QED
        BY <1>1, <1>2, <3>1, <4>1 DEF SamplesAreOfInterval
    <3> QED
      BY <3>2, <3>3 DEF SamplesAreOfInterval
  <2>2. CASE ~(Size(samples) < SampleCap)
    <3>1. samples' = samples
      BY <1>1, <2>2
    <3>2. \A e \in Durations : samples'[e] <= interval'[e]
      BY <1>2, <1>5, <1>8, <3>1 DEF SamplesAreOfInterval
    <3>3. ~(queries' <= SampleCap)
      <4>1. queries = Size(interval)
        BY <1>2 DEF CountersAreInterval
      <4>2. queries <= SampleCap => samples = interval
        BY <1>2 DEF SamplesAreOfInterval
      <4> QED
        BY <1>1, <1>2, <1>4, <2>2, <4>1, <4>2
    <3> QED
      BY <3>2, <3>3 DEF SamplesAreOfInterval
  <2> QED
    BY <2>1, <2>2
<1>12. MetricIsInterval'
  BY <1>1 DEF MetricIsInterval
<1> QED
  BY <1>9, <1>10, <1>11, <1>12 DEF IntervalInv

(* The snapshot that flushCounters takes is the interval's.                *)
LEMMA FlushReadInterval ==
  ASSUME CountInv, IntervalInv, FlushRead
  PROVE  IntervalInv'
<1>1. /\ metric' = Snapshot
      /\ UNCHANGED <<queries, slow, sumMs, maxMs, samples, ticks, interval>>
  BY DEF FlushRead, historyVars
<1>2. /\ IntervalTypes /\ CountersAreInterval /\ SamplesAreOfInterval
      /\ queries \in Nat /\ counter \in [Kinds -> Nat]
  BY DEF IntervalInv, CountInv, CountTypes
<1>3. /\ samples \in DurationBags /\ interval \in DurationBags
      /\ slow \in Nat /\ sumMs \in Nat /\ maxMs \in Durations /\ maxMs \in Nat
  BY <1>2, SqlAssumption DEF IntervalTypes
<1> DEFINE p == IF Size(samples) > 0 THEN Percentile95(samples) ELSE 0
<1>4. /\ metric'.queries = queries /\ metric'.slow = slow /\ metric'.sum = sumMs
      /\ metric'.max = maxMs /\ metric'.p95 = p /\ metric'.counts = counter
  BY <1>1 DEF Snapshot
<1>5. /\ p \in Durations /\ p <= maxMs
      /\ Size(samples) > 0 => 20 * (Size(samples) - UpTo(samples, p)) < Size(samples) + 19
  <2>1. CASE Size(samples) > 0
    <3>1. /\ p \in Durations /\ samples[p] > 0
          /\ 20 * (Size(samples) - UpTo(samples, p)) < Size(samples) + 19
      BY <1>3, <2>1, PercentileCorrect
    <3> HIDE DEF p
    <3>2. interval[p] > 0
      <4>1. samples[p] <= interval[p] /\ samples[p] \in Nat /\ interval[p] \in Nat
        BY <1>2, <1>3, <3>1 DEF SamplesAreOfInterval, DurationBags
      <4> QED
        BY <3>1, <4>1
    <3>3. p <= maxMs
      BY <1>2, <3>1, <3>2 DEF CountersAreInterval
    <3> QED
      BY <3>1, <3>3
  <2>2. CASE ~(Size(samples) > 0)
    <3>1. p = 0 /\ 0 \in Durations
      BY <2>2, SqlAssumption
    <3> HIDE DEF p
    <3> QED
      BY <1>3, <2>2, <3>1
  <2> QED
    BY <2>1, <2>2
<1> HIDE DEF p
<1>6. metric' \in Metrics
  <2>1. metric' = [queries |-> queries, slow |-> slow, sum |-> sumMs, max |-> maxMs,
                   p95 |-> p, counts |-> counter]
    BY <1>1 DEF Snapshot, p
  <2> QED
    BY <1>2, <1>3, <1>5, <2>1 DEF Metrics
<1>7. IntervalTypes' /\ CountersAreInterval' /\ SamplesAreOfInterval'
  BY <1>1, <1>2, <1>6 DEF IntervalTypes, CountersAreInterval, SamplesAreOfInterval
<1>8. UpTo(interval, maxMs) = Size(interval) /\ Size(interval) \in Nat
  BY <1>2, <1>3, UpToAll, SizeType DEF CountersAreInterval
<1>9. queries > 0 => interval[maxMs] > 0
  BY <1>2 DEF CountersAreInterval
<1>10. queries \in 1 .. SampleCap =>
         20 * (Size(interval) - UpTo(interval, p)) < queries + 19
  <2> SUFFICES ASSUME queries \in 1 .. SampleCap
               PROVE  20 * (Size(interval) - UpTo(interval, p)) < queries + 19
    OBVIOUS
  <2>1. queries > 0 /\ queries <= SampleCap
    BY SqlAssumption
  <2>2. samples = interval /\ queries = Size(interval)
    BY <1>2, <2>1 DEF SamplesAreOfInterval, CountersAreInterval
  <2> QED
    BY <1>5, <2>1, <2>2
<1>11. MetricIsInterval'
  <2>1. /\ queries = Size(interval)
        /\ slow = Size(interval) - UpTo(interval, SlowMs - 1)
        /\ sumMs = SumFunction([d \in Durations |-> d * interval[d]])
    BY <1>2 DEF CountersAreInterval, Weights
  <2>2. Size(interval) - UpTo(interval, maxMs) = 0
    BY <1>8
  <2>3. interval' = interval
    BY <1>1
  <2>4. /\ metric'.queries = Size(interval')
        /\ metric'.slow = Size(interval') - UpTo(interval', SlowMs - 1)
        /\ metric'.sum = SumFunction([d \in Durations |-> d * interval'[d]])
    BY <1>4, <2>1, <2>3
  <2>5. metric'.p95 <= metric'.max
    BY <1>4, <1>5
  <2>6. Above(metric.max)' = 0
    BY <1>4, <2>2, <2>3 DEF Above
  <2>7. metric'.queries > 0 => interval'[metric'.max] > 0
    BY <1>4, <1>9, <2>3
  <2>8. metric'.queries \in 1 .. SampleCap =>
          20 * Above(metric.p95)' < metric'.queries + 19
    BY <1>4, <1>10, <2>3 DEF Above
  <2> QED
    BY <2>4, <2>5, <2>6, <2>7, <2>8 DEF MetricIsInterval
<1> QED
  BY <1>6, <1>7, <1>11 DEF IntervalInv

(* The reset begins an interval in which nothing was observed.             *)
LEMMA FlushResetInterval ==
  ASSUME IntervalInv, FlushReset
  PROVE  IntervalInv'
<1>1. /\ loop' = "size" /\ queries' = 0 /\ slow' = 0 /\ sumMs' = 0 /\ maxMs' = 0
      /\ samples' = EmptyBag /\ interval' = EmptyBag /\ UNCHANGED <<metric, ticks>>
  BY DEF FlushReset, Reset
<1>2. 0 \in Durations /\ \A d \in Durations : EmptyBag[d] = 0
  BY SqlAssumption DEF EmptyBag
<1>3. IntervalTypes'
  BY <1>1, <1>2, EmptyBagSums DEF IntervalInv, IntervalTypes
<1>4. CountersAreInterval'
  BY <1>1, <1>2, EmptyBagSums DEF CountersAreInterval
<1>5. SamplesAreOfInterval'
  BY <1>1, <1>2 DEF SamplesAreOfInterval
<1>6. MetricIsInterval'
  BY <1>1 DEF MetricIsInterval
<1> QED
  BY <1>3, <1>4, <1>5, <1>6 DEF IntervalInv

(* The other steps leave the counters, the samples and the interval alone. *)
LEMMA RestKeepsInterval ==
  ASSUME IntervalInv,
         UNCHANGED <<queries, slow, sumMs, maxMs, samples, interval>>,
         metric' \in Metrics, ticks' \in 0 .. MaxTicks,
         loop' # "reset" \/ UNCHANGED <<loop, metric>>
  PROVE  IntervalInv'
<1>1. IntervalTypes'
  BY DEF IntervalInv, IntervalTypes
<1>2. CountersAreInterval' /\ SamplesAreOfInterval'
  BY DEF IntervalInv, CountersAreInterval, SamplesAreOfInterval
<1>3. ASSUME loop' # "reset" PROVE MetricIsInterval'
  BY <1>3 DEF MetricIsInterval
<1>4. ASSUME UNCHANGED <<loop, metric>> PROVE MetricIsInterval'
  BY <1>4 DEF IntervalInv, MetricIsInterval, Above
<1> QED
  BY <1>1, <1>2, <1>3, <1>4 DEF IntervalInv

SqlInv == CountInv /\ IntervalInv

LEMMA SqlStep == SqlInv /\ [SqlNext]_sqlVars => SqlInv'
<1> SUFFICES ASSUME SqlInv, [SqlNext]_sqlVars PROVE SqlInv'
  OBVIOUS
<1>1. CountInv /\ IntervalInv /\ CountInv'
  BY CountStep DEF SqlInv
<1>2. metric \in Metrics /\ ticks \in 0 .. MaxTicks
  BY <1>1 DEF IntervalInv, IntervalTypes
<1>3. ASSUME NEW d \in Durations, NEW k \in Kinds, BeginObserve(d, k) PROVE IntervalInv'
  BY <1>1, <1>3, BeginObserveInterval
<1>4. ASSUME EndObserve PROVE IntervalInv'
  BY <1>1, <1>2, <1>4, RestKeepsInterval DEF EndObserve, historyVars
<1>5. ASSUME NEW k \in Kinds, Track(k) PROVE IntervalInv'
  BY <1>1, <1>2, <1>5, RestKeepsInterval DEF Track
<1>6. ASSUME BeginCollect PROVE IntervalInv'
  <2>1. ticks' \in 0 .. MaxTicks
    BY <1>2, <1>6, SqlAssumption DEF BeginCollect
  <2> QED
    BY <1>1, <1>2, <1>6, <2>1, RestKeepsInterval DEF BeginCollect, hostVars, historyVars
<1>7. ASSUME FlushRead PROVE IntervalInv'
  BY <1>1, <1>7, FlushReadInterval
<1>8. ASSUME FlushReset PROVE IntervalInv'
  BY <1>1, <1>8, FlushResetInterval
<1>9. ASSUME SizeQuery PROVE IntervalInv'
  BY <1>1, <1>2, <1>9, RestKeepsInterval DEF SizeQuery, hostVars, historyVars
<1>10. ASSUME Ship PROVE IntervalInv'
  BY <1>1, <1>2, <1>10, NoMetricType, RestKeepsInterval DEF Ship, hostVars, historyVars
<1>11. ASSUME UNCHANGED sqlVars PROVE IntervalInv'
  BY <1>1, <1>2, <1>11, RestKeepsInterval DEF sqlVars, hostVars, historyVars
<1>12. IntervalInv'
  BY <1>3, <1>4, <1>5, <1>6, <1>7, <1>8, <1>9, <1>10, <1>11 DEF SqlNext, SqlDone
<1> QED
  BY <1>1, <1>12 DEF SqlInv

LEMMA SqlInvariant == SqlSpec => []SqlInv
<1>1. SqlInit => SqlInv
  BY CountInit, IntervalInit DEF SqlInv
<1> QED
  BY <1>1, SqlStep, PTL DEF SqlSpec

(***************************************************************************)
(* The types of the collector.  The metric's p95 is one of the durations   *)
(* observed, whichever samples percentile() finds: its index is inside the *)
(* sorted sample.                                                          *)
(***************************************************************************)
THEOREM SqlTypeCorrect == SqlSpec => []SqlTypeOK
<1>1. SqlInv => SqlTypeOK
  <2> SUFFICES ASSUME SqlInv PROVE SqlTypeOK
    OBVIOUS
  <2>1. CountTypes /\ FlushWindow /\ IntervalTypes
    BY DEF SqlInv, CountInv, IntervalInv
  <2> QED
    BY <2>1 DEF CountTypes, FlushWindow, IntervalTypes, DurationBags, SqlTypeOK
<1> QED
  BY <1>1, SqlInvariant, PTL

(***************************************************************************)
(* What flushCounters reports describes the queries of its own interval:   *)
(* their number, the slow ones, their sum and maximum, and, while they fit *)
(* the sample, a p95 with at most a twentieth of them above it.            *)
(***************************************************************************)
THEOREM MetricIsIntervalThm == SqlSpec => []MetricIsInterval
<1>1. SqlInv => MetricIsInterval
  BY DEF SqlInv, IntervalInv
<1> QED
  BY <1>1, SqlInvariant, PTL
=============================================================================
