--------------------------- MODULE SqlDeltaProofs ---------------------------
(***************************************************************************)
(* Theorems about SqlDelta: its types, and what its two action properties  *)
(* promise about the rates.  The server's counters are sums over the       *)
(* statements, so a step of the server is followed through the sum first;  *)
(* then through the reading and the baseline.                              *)
(***************************************************************************)
EXTENDS SqlDelta, Sums

(* The columns that are summed.                                            *)
LEMMA ClassIsFinite ==
  ASSUME NEW class
  PROVE  IsFiniteSet({s \in Statements : Class[s] \in class})
BY DeltaAssumption, FS_Subset

LEMMA TotalType ==
  ASSUME NEW f \in [Statements -> Nat], NEW class
  PROVE  Total(f, class) \in Nat
<1> DEFINE S == {s \in Statements : Class[s] \in class}
<1>1. IsFiniteSet(S)
  BY ClassIsFinite
<1>2. \A s \in S : f[s] \in Nat
  OBVIOUS
<1> HIDE DEF S
<1>3. SumFunctionOnSet(f, S) \in Nat
  BY <1>1, <1>2, SumType
<1> QED
  BY <1>3 DEF Total, S

LEMMA TotalZeros ==
  ASSUME NEW f, NEW class, \A s \in Statements : f[s] = 0
  PROVE  Total(f, class) = 0
<1> DEFINE S == {s \in Statements : Class[s] \in class}
<1>1. IsFiniteSet(S)
  BY ClassIsFinite
<1>2. \A s \in S : f[s] = 0
  OBVIOUS
<1> HIDE DEF S
<1>3. SumFunctionOnSet(f, S) = 0
  BY <1>1, <1>2, SumOfZeros
<1> QED
  BY <1>3 DEF Total, S

(* What a statement adds to its column it adds to the sum of its class.    *)
LEMMA TotalUpdate ==
  ASSUME NEW f \in [Statements -> Nat], NEW g \in [Statements -> Nat],
         NEW class, NEW e \in Statements,
         \A s \in Statements \ {e} : g[s] = f[s]
  PROVE  Total(g, class)
           = Total(f, class) + (IF Class[e] \in class THEN g[e] - f[e] ELSE 0)
<1> DEFINE S == {s \in Statements : Class[s] \in class}
<1>1. IsFiniteSet(S)
  BY ClassIsFinite
<1>2. /\ \A s \in S : f[s] \in Nat /\ g[s] \in Nat
      /\ \A s \in S \ {e} : g[s] = f[s]
  OBVIOUS
<1>3. e \in S <=> Class[e] \in class
  OBVIOUS
<1> HIDE DEF S
<1>4. CASE e \in S
  <2>1. SumFunctionOnSet(g, S) = SumFunctionOnSet(f, S) - f[e] + g[e]
    BY <1>1, <1>2, <1>4, SumUpdate
  <2>2. SumFunctionOnSet(f, S) \in Nat /\ f[e] \in Nat /\ g[e] \in Nat
    BY <1>1, <1>2, SumType
  <2> QED
    BY <1>3, <1>4, <2>1, <2>2 DEF Total, S
<1>5. CASE e \notin S
  <2>1. \A s \in S : g[s] = f[s]
    BY <1>2, <1>5
  <2>2. SumFunctionOnSet(g, S) = SumFunctionOnSet(f, S)
    BY <1>1, <2>1, SumAgree
  <2>3. SumFunctionOnSet(f, S) \in Nat
    BY <1>1, <1>2, SumType
  <2> QED
    BY <1>3, <1>5, <2>2, <2>3 DEF Total, S
<1> QED
  BY <1>4, <1>5

-----------------------------------------------------------------------------
(* Types.                                                                  *)
LEMMA Fields == DOMAIN Zero = {"calls", "reads", "writes", "slow", "totalMs"}
BY DEF Zero

LEMMA CountsRecord ==
  ASSUME NEW a \in Nat, NEW b \in Nat, NEW c \in Nat, NEW d \in Nat, NEW e \in Nat
  PROVE  [calls |-> a, reads |-> b, writes |-> c, slow |-> d, totalMs |-> e] \in Counts
BY Fields DEF Counts

LEMMA CountsFields ==
  ASSUME NEW c \in Counts
  PROVE  /\ c.calls \in Nat /\ c.reads \in Nat /\ c.writes \in Nat
         /\ c.slow \in Nat /\ c.totalMs \in Nat
BY Fields DEF Counts

LEMMA ZeroIsCounts == Zero \in Counts
BY CountsRecord DEF Zero

LEMMA UntouchedIsRow == Untouched \in Rows
BY DEF Untouched, Rows

LEMMA LargerOfTwo ==
  ASSUME NEW m \in Nat, NEW n \in Nat
  PROVE  Max({m, n}) \in Nat
<1>1. \E x \in {m, n} : \A y \in {m, n} : x >= y
  OBVIOUS
<1> QED
  BY <1>1 DEF Max

LEMMA ExecutedIsRow ==
  ASSUME NEW old \in Rows, NEW d \in Nat
  PROVE  Executed(old, d) \in Rows
<1>1. /\ old.calls + 1 \in Nat /\ old.totalMs + d \in Nat
      /\ Max({old.maxMs, d}) \in Nat
      /\ old.slow + (IF d >= SlowMs THEN 1 ELSE 0) \in Nat
  BY LargerOfTwo DEF Rows
<1> QED
  BY <1>1 DEF Executed, Rows

(* The greatest time of the view exists, for the view is finite.           *)
LEMMA MaxMsType ==
  ASSUME table \in [Statements -> Rows]
  PROVE  MaxMs \in Nat
<1> DEFINE t == [s \in Statements |-> table[s].maxMs]
           img == {table[s].maxMs : s \in Statements}
           all == {0} \cup img
<1>1. t \in Surjection(Statements, img)
  BY DEF Surjection
<1>2. IsFiniteSet(Statements)
  BY DeltaAssumption
<1>3. img \subseteq Nat
  BY DEF Rows
<1>4. IsFiniteSet(img)
  <2> HIDE DEF t, img
  <2> QED
    BY <1>1, <1>2, FS_Surjection
<1>5. IsFiniteSet(all)
  <2> HIDE DEF img
  <2>1. IsFiniteSet(img \cup {0})
    BY <1>4, FS_AddElement
  <2>2. all = img \cup {0}
    OBVIOUS
  <2> QED
    BY <2>1, <2>2
<1>6. all \subseteq Nat /\ all # {}
  BY <1>3
<1> HIDE DEF all
<1>7. \E x \in all : \A y \in all : y <= x
  BY <1>5, <1>6, GreatestOf
<1>8. \E x \in all : \A y \in all : x >= y
  BY <1>6, <1>7
<1>9. Max(all) \in all
  BY <1>8 DEF Max
<1> QED
  BY <1>6, <1>9 DEF MaxMs, all

LEMMA CountersType ==
  ASSUME table \in [Statements -> Rows]
  PROVE  PostgresCounters \in Counts /\ MySQLCounters \in Counts
<1> DEFINE ms    == [s \in Statements |-> table[s].totalMs]
           slow1 == [s \in Statements |-> IF ms[s] >= SlowMs * Calls[s] THEN Calls[s] ELSE 0]
           slow2 == [s \in Statements |-> table[s].slow]
<1>1. /\ Calls \in [Statements -> Nat] /\ ms \in [Statements -> Nat]
      /\ slow2 \in [Statements -> Nat]
  BY DEF Calls, Rows
<1>2. slow1 \in [Statements -> Nat]
  BY <1>1
<1>3. /\ PostgresCounters =
           [calls |-> Total(Calls, AnyClass), reads |-> Total(Calls, {"read"}),
            writes |-> Total(Calls, {"write"}), slow |-> Total(slow1, AnyClass),
            totalMs |-> Total(ms, AnyClass)]
      /\ MySQLCounters =
           [calls |-> Total(Calls, AnyClass), reads |-> Total(Calls, {"read"}),
            writes |-> Total(Calls, {"write"}), slow |-> Total(slow2, AnyClass),
            totalMs |-> 0]
  BY DEF PostgresCounters, MySQLCounters
<1> HIDE DEF ms, slow1, slow2
<1>4. /\ Total(Calls, AnyClass) \in Nat /\ Total(Calls, {"read"}) \in Nat
      /\ Total(Calls, {"write"}) \in Nat
  BY <1>1, TotalType
<1>5. /\ Total(slow1, AnyClass) \in Nat /\ Total(slow2, AnyClass) \in Nat
      /\ Total(ms, AnyClass) \in Nat
  BY <1>1, <1>2, TotalType
<1> QED
  BY <1>3, <1>4, <1>5, CountsRecord

LEMMA DeltaTypeInit == DeltaInit => DeltaTypeOK
<1> SUFFICES ASSUME DeltaInit PROVE DeltaTypeOK
  OBVIOUS
<1>1. Zero \in Counts /\ Untouched \in Rows
  BY ZeroIsCounts, UntouchedIsRow
<1>2. table \in [Statements -> Rows]
  <2>1. PICK past \in [Statements -> Durations \cup {-1}] :
          table = [s \in Statements |->
                     IF past[s] = -1 THEN Untouched ELSE Executed(Untouched, past[s])]
    BY DEF DeltaInit
  <2>2. ASSUME NEW s \in Statements, past[s] # -1
        PROVE  Executed(Untouched, past[s]) \in Rows
    BY <1>1, <2>2, DeltaAssumption, ExecutedIsRow
  <2> QED
    BY <1>1, <2>1, <2>2
<1>3. reading \in [counters : Counts, maxMs : Nat, p95 : Rows]
  BY <1>1 DEF DeltaInit, NoReading
<1>4. metric \in [queriesPerMin : Nat, readsPerMin : Nat, writesPerMin : Nat,
                  slowQueries : Nat, avg : [ms : Nat, calls : Nat], maxMs : Nat,
                  p95 : Rows, connections : {"none", "server", "pool"}, size : BOOLEAN]
  BY <1>1 DEF DeltaInit, NoMetric
<1>5. pending \in [grown : Counts, upset : BOOLEAN]
  BY <1>1 DEF DeltaInit
<1>6. ticks \in 0 .. MaxTicks /\ runs \in 0 .. MaxRuns /\ upsets \in 0 .. MaxUpsets
      /\ age \in 0 .. MaxPause
  BY DeltaAssumption DEF DeltaInit
<1> QED
  BY <1>1, <1>2, <1>3, <1>4, <1>5, <1>6 DEF DeltaInit, DeltaTypeOK

(* The metric, with each of its fields.                                    *)
Metrics ==
  [queriesPerMin : Nat, readsPerMin : Nat, writesPerMin : Nat,
   slowQueries : Nat, avg : [ms : Nat, calls : Nat], maxMs : Nat,
   p95 : Rows, connections : {"none", "server", "pool"}, size : BOOLEAN]

LEMMA ExecuteType ==
  ASSUME DeltaTypeOK, NEW s \in Statements, NEW d \in Durations, Execute(s, d)
  PROVE  DeltaTypeOK'
<1>1. d \in Nat /\ table \in [Statements -> Rows]
  BY DeltaAssumption DEF DeltaTypeOK
<1>2. Executed(table[s], d) \in Rows
  BY <1>1, ExecutedIsRow
<1>3. table' \in [Statements -> Rows]
  BY <1>1, <1>2 DEF Execute
<1>4. grown \in Counts
  BY DEF DeltaTypeOK
<1>5. grown' \in Counts
  <2>1. /\ grown.calls + 1 \in Nat
        /\ grown.reads + (IF Class[s] = "read" THEN 1 ELSE 0) \in Nat
        /\ grown.writes + (IF Class[s] = "write" THEN 1 ELSE 0) \in Nat
        /\ grown.slow + (IF d >= SlowMs THEN 1 ELSE 0) \in Nat
        /\ grown.totalMs + (IF driver = "mysql" THEN 0 ELSE d) \in Nat
    BY <1>1, <1>4, CountsFields
  <2> QED
    BY <2>1, CountsRecord DEF Execute
<1>6. runs' \in 0 .. MaxRuns
  BY DeltaAssumption DEF Execute, DeltaTypeOK
<1> QED
  BY <1>3, <1>5, <1>6 DEF Execute, DeltaTypeOK, collectVars

LEMMA LossType ==
  ASSUME DeltaTypeOK, Restart \/ \E s \in Statements : Forget(s)
  PROVE  DeltaTypeOK'
<1>1. Untouched \in Rows
  BY UntouchedIsRow
<1>2. table' \in [Statements -> Rows]
  <2>1. CASE Restart
    BY <1>1, <2>1 DEF Restart
  <2>2. ASSUME NEW s \in Statements, Forget(s) PROVE table' \in [Statements -> Rows]
    BY <1>1, <2>2 DEF Forget, DeltaTypeOK
  <2> QED
    BY <2>1, <2>2
<1>5. upset' \in BOOLEAN
  BY DEF Restart, Forget
<1>3. upsets' \in 0 .. MaxUpsets
  BY DeltaAssumption DEF DeltaTypeOK, Restart, Forget
<1>4. UNCHANGED <<driver, grown, ticks, runs, collectVars>>
  BY DEF Restart, Forget
<1> QED
  BY <1>2, <1>5, <1>3, <1>4 DEF DeltaTypeOK, collectVars

LEMMA NoMetricIsMetric == NoMetric \in Metrics
BY UntouchedIsRow DEF NoMetric, Metrics

LEMMA MetricBegins ==
  ASSUME NEW source \in {"server", "pool"}, NEW sized \in BOOLEAN
  PROVE  [NoMetric EXCEPT !.connections = source, !.size = sized] \in Metrics
<1>1. [NoMetric EXCEPT !.connections = source] \in Metrics
  BY NoMetricIsMetric DEF Metrics
<1>2. [[NoMetric EXCEPT !.connections = source] EXCEPT !.size = sized] \in Metrics
  BY <1>1 DEF Metrics
<1>3. [[NoMetric EXCEPT !.connections = source] EXCEPT !.size = sized]
        = [NoMetric EXCEPT !.connections = source, !.size = sized]
  OBVIOUS
<1> QED
  BY <1>2, <1>3

LEMMA QueryType ==
  ASSUME DeltaTypeOK,
         BeginCollect \/ StatsUnavailable \/ ReadPostgresStats \/ ReadMySQLStatus \/ ReadP95
  PROVE  DeltaTypeOK'
<1>1. CASE BeginCollect
  <2>1. PICK source \in {"server", "pool"}, sized \in BOOLEAN :
          metric' = [NoMetric EXCEPT !.connections = source, !.size = sized]
    BY <1>1 DEF BeginCollect
  <2>2. metric' \in Metrics
    BY <2>1, MetricBegins
  <2>3. ticks' \in 0 .. MaxTicks
    <3>1. ticks < MaxTicks /\ ticks' = ticks + 1 /\ ticks \in 0 .. MaxTicks
      BY <1>1 DEF BeginCollect, DeltaTypeOK
    <3> QED
      BY <3>1, DeltaAssumption
  <2> QED
    BY <1>1, <2>2, <2>3 DEF BeginCollect, DeltaTypeOK, serverVars, Metrics
<1>2. CASE StatsUnavailable
  BY <1>2 DEF StatsUnavailable, DeltaTypeOK, serverVars, boundVars
<1>3. ASSUME NEW counters \in Counts, NEW max \in Nat, Read(counters, max),
             stage' \in {"p95", "apply"}
      PROVE  DeltaTypeOK'
  <2>1. reading' \in [counters : Counts, maxMs : Nat, p95 : Rows]
    BY <1>3, UntouchedIsRow DEF Read
  <2>2. grown' \in Counts /\ pending' \in [grown : Counts, upset : BOOLEAN]
        /\ upset' \in BOOLEAN
    BY <1>3, ZeroIsCounts DEF Read, DeltaTypeOK
  <2> QED
    BY <1>3, <2>1, <2>2 DEF Read, DeltaTypeOK, boundVars
<1>4. PostgresCounters \in Counts /\ MySQLCounters \in Counts /\ MaxMs \in Nat
  BY CountersType, MaxMsType DEF DeltaTypeOK
<1>5. CASE ReadPostgresStats
  BY <1>3, <1>4, <1>5 DEF ReadPostgresStats
<1>6. CASE ReadMySQLStatus
  BY <1>3, <1>4, <1>6 DEF ReadMySQLStatus
<1>7. CASE ReadP95
  <2>1. PICK p95 \in {Untouched} \cup {table[s] : s \in TopTwentieth} :
          reading' = [reading EXCEPT !.p95 = p95]
    BY <1>7 DEF ReadP95
  <2>2. TopTwentieth \subseteq Statements
    BY DEF TopTwentieth, Known
  <2>3. p95 \in Rows
    BY <2>1, <2>2, UntouchedIsRow DEF DeltaTypeOK
  <2>4. reading' \in [counters : Counts, maxMs : Nat, p95 : Rows]
    BY <2>1, <2>3 DEF DeltaTypeOK
  <2> QED
    BY <1>7, <2>4 DEF ReadP95, DeltaTypeOK, serverVars, boundVars
<1> QED
  BY <1>1, <1>2, <1>5, <1>6, <1>7

LEMMA ProductIsNat == ASSUME NEW m \in Nat, NEW n \in Nat PROVE m * n \in Nat
OBVIOUS

LEMMA QuotientIsNat ==
  ASSUME NEW m \in Nat, NEW n \in Nat \ {0} PROVE m \div n \in Nat
OBVIOUS

LEMMA PerMinType ==
  ASSUME NEW count \in Nat, age \in Nat \ {0}
  PROVE  PerMin(count) \in Nat
<1>1. count * PerMinute \in Nat
  BY DeltaAssumption, ProductIsNat
<1> QED
  BY <1>1, QuotientIsNat DEF PerMin

(* What a reading adds to the baseline, field by field.                    *)
LEMMA DeltaFields ==
  ASSUME DeltaTypeOK
  PROVE  \A f \in DOMAIN Zero :
           /\ Delta[f] = reading.counters[f] - prev[f]
           /\ reading.counters[f] \in Nat /\ prev[f] \in Nat
BY DEF Delta, DeltaTypeOK, Counts

LEMMA DeltaNotNegative ==
  ASSUME DeltaTypeOK, \A f \in DOMAIN Zero : Delta[f] >= 0
  PROVE  /\ Delta.calls \in Nat /\ Delta.reads \in Nat /\ Delta.writes \in Nat
         /\ Delta.slow \in Nat /\ Delta.totalMs \in Nat
<1>1. \A f \in DOMAIN Zero : Delta[f] \in Nat
  BY DeltaFields
<1> QED
  BY <1>1, Fields

LEMMA ApplyType ==
  ASSUME DeltaTypeOK, ApplyDelta
  PROVE  DeltaTypeOK'
<1>1. stage' = "post" /\ UNCHANGED <<driver, table, boundVars, reading, pending>>
  BY DEF ApplyDelta
<1>2. reading.counters \in Counts /\ reading.maxMs \in Nat /\ reading.p95 \in Rows
      /\ metric \in Metrics /\ prev \in Counts
  BY DEF DeltaTypeOK, Metrics
<1>3. Rebase => prev' \in Counts /\ seeded' \in BOOLEAN /\ age' \in 0 .. MaxPause
  BY <1>2, DeltaAssumption DEF Rebase
<1>4. CASE Seed
  <2>1. metric' \in Metrics
    BY <1>2, <1>4 DEF Seed, Metrics
  <2> QED
    BY <1>1, <1>3, <1>4, <2>1 DEF Seed, DeltaTypeOK, boundVars, Metrics
<1>5. CASE TooEarly
  <2>1. grown \in Counts /\ pending.grown \in Counts /\ upset \in BOOLEAN
        /\ pending.upset \in BOOLEAN
    BY DEF DeltaTypeOK
  <2>2. grown' \in Counts /\ upset' \in BOOLEAN
    BY <1>5, <2>1 DEF TooEarly, Counts
  <2> QED
    BY <1>1, <1>5, <2>2 DEF TooEarly, DeltaTypeOK, boundVars
<1>6. CASE Reseed
  BY <1>1, <1>3, <1>6 DEF Reseed, DeltaTypeOK, boundVars
<1>7. CASE Report
  <2>1. /\ Delta.calls \in Nat /\ Delta.reads \in Nat /\ Delta.writes \in Nat
        /\ Delta.slow \in Nat /\ Delta.totalMs \in Nat
    BY <1>7, DeltaNotNegative DEF Report
  <2>2. age \in Nat \ {0}
    BY <1>7, DeltaAssumption DEF Report, DeltaTypeOK
  <2>3. /\ PerMin(Delta.calls) \in Nat /\ PerMin(Delta.reads) \in Nat
        /\ PerMin(Delta.writes) \in Nat
    BY <2>1, <2>2, PerMinType
  <2>4. metric' \in Metrics
    BY <1>2, <1>7, <2>1, <2>3 DEF Report, Metrics
  <2> QED
    BY <1>1, <1>3, <1>7, <2>4 DEF Report, DeltaTypeOK, boundVars, Metrics
<1> QED
  BY <1>4, <1>5, <1>6, <1>7 DEF ApplyDelta

LEMMA DeltaTypeStep == DeltaTypeOK /\ [DeltaNext]_deltaVars => DeltaTypeOK'
<1> SUFFICES ASSUME DeltaTypeOK, [DeltaNext]_deltaVars PROVE DeltaTypeOK'
  OBVIOUS
<1>1. CASE \E s \in Statements, d \in Durations : Execute(s, d)
  BY <1>1, ExecuteType
<1>2. CASE Restart \/ \E s \in Statements : Forget(s)
  BY <1>2, LossType
<1>3. CASE Pass
  <2>1. age' \in 0 .. MaxPause
    BY <1>3, DeltaAssumption DEF Pass, DeltaTypeOK
  <2> QED
    BY <1>3, <2>1 DEF Pass, DeltaTypeOK, serverVars, boundVars
<1>4. CASE BeginCollect \/ StatsUnavailable \/ ReadPostgresStats \/ ReadMySQLStatus \/ ReadP95
  BY <1>4, QueryType
<1>5. CASE ApplyDelta
  BY <1>5, ApplyType
<1>6. CASE Post
  <2>1. NoMetric \in Metrics /\ NoReading \in [counters : Counts, maxMs : Nat, p95 : Rows]
    BY UntouchedIsRow, ZeroIsCounts DEF NoMetric, NoReading, Metrics
  <2> QED
    BY <1>6, <2>1 DEF Post, DeltaTypeOK, serverVars, boundVars, Metrics
<1>7. CASE DeltaDone \/ UNCHANGED deltaVars
  BY <1>7 DEF DeltaDone, deltaVars, serverVars, boundVars, collectVars, DeltaTypeOK
<1> QED
  BY <1>1, <1>2, <1>3, <1>4, <1>5, <1>6, <1>7 DEF DeltaNext, CollectStep

(***************************************************************************)
(* Type correctness: the counters read are sums of natural numbers, and a  *)
(* rate is never negative, because applyDelta looks at every difference    *)
(* before it makes a rate of it.                                           *)
(***************************************************************************)
THEOREM DeltaTypeCorrect == DeltaSpec => []DeltaTypeOK
BY DeltaTypeInit, DeltaTypeStep, PTL DEF DeltaSpec

-----------------------------------------------------------------------------
(***************************************************************************)
(* What the counters are worth.  Between two readings the server's         *)
(* counters grow by what was executed, or fall short of that when the      *)
(* server has lost something; so does a reading, against the baseline.     *)
(* Postgres' slow count is left out: it may fall with nothing lost.        *)
(***************************************************************************)
Server == IF driver = "pgx" THEN PostgresCounters ELSE MySQLCounters

Cumulative == {f \in DOMAIN Zero : driver = "pgx" => f # "slow"}

Grew(fields, old, new, growth, lossy) ==
  \A f \in fields :
    /\ new[f] <= old[f] + growth[f]
    /\ ~lossy => new[f] = old[f] + growth[f]

HasRead == stage \in {"p95", "apply"}

GrowthInv ==
  /\ HasRead => Grew(Cumulative, reading.counters, Server, grown, upset)
  /\ HasRead /\ seeded =>
       Grew(Cumulative, prev, reading.counters, pending.grown, pending.upset)
  /\ ~HasRead /\ seeded => Grew(Cumulative, prev, Server, grown, upset)

(* The fields of a tick that has not been applied are zero.                *)
RatesInv ==
  stage # "post" =>
    metric.queriesPerMin = 0 /\ metric.readsPerMin = 0 /\ metric.writesPerMin = 0

DeltaInv == DeltaTypeOK /\ GrowthInv /\ RatesInv

LEMMA GrewSelf ==
  ASSUME NEW fields \in SUBSET DOMAIN Zero, NEW old \in Counts
  PROVE  Grew(fields, old, old, Zero, FALSE)
<1>1. \A f \in DOMAIN Zero : Zero[f] = 0 /\ old[f] \in Nat
  BY DEF Zero, Counts
<1> QED
  BY <1>1 DEF Grew

LEMMA GrewMore ==
  ASSUME NEW fields \in SUBSET DOMAIN Zero, NEW lossy \in BOOLEAN,
         NEW old \in Counts, NEW new \in Counts, NEW growth \in Counts,
         NEW newer \in Counts, NEW more \in Counts,
         Grew(fields, old, new, growth, lossy),
         \A f \in fields : newer[f] - new[f] = more[f] - growth[f]
  PROVE  Grew(fields, old, newer, more, lossy)
<1> SUFFICES ASSUME NEW f \in fields
             PROVE  /\ newer[f] <= old[f] + more[f]
                    /\ ~lossy => newer[f] = old[f] + more[f]
  BY DEF Grew
<1>1. /\ old[f] \in Nat /\ new[f] \in Nat /\ growth[f] \in Nat
      /\ newer[f] \in Nat /\ more[f] \in Nat
  BY DEF Counts
<1>2. /\ new[f] <= old[f] + growth[f]
      /\ newer[f] - new[f] = more[f] - growth[f]
  BY DEF Grew
<1>3. ~lossy => new[f] = old[f] + growth[f]
  BY DEF Grew
<1> QED
  BY <1>1, <1>2, <1>3

LEMMA GrewLess ==
  ASSUME NEW fields \in SUBSET DOMAIN Zero, NEW lossy \in BOOLEAN,
         NEW old \in Counts, NEW new \in Counts, NEW growth \in Counts, NEW newer \in Counts,
         Grew(fields, old, new, growth, lossy),
         \A f \in fields : newer[f] <= new[f]
  PROVE  Grew(fields, old, newer, growth, TRUE)
<1> SUFFICES ASSUME NEW f \in fields PROVE newer[f] <= old[f] + growth[f]
  BY DEF Grew
<1>1. old[f] \in Nat /\ new[f] \in Nat /\ growth[f] \in Nat /\ newer[f] \in Nat
  BY DEF Counts
<1>2. new[f] <= old[f] + growth[f] /\ newer[f] <= new[f]
  BY DEF Grew
<1> QED
  BY <1>1, <1>2

(* A reading that is thrown away is made up for.                           *)
LEMMA GrewTwice ==
  ASSUME NEW fields \in SUBSET DOMAIN Zero,
         NEW lossy1 \in BOOLEAN, NEW lossy2 \in BOOLEAN,
         NEW a \in Counts, NEW b \in Counts, NEW c \in Counts,
         NEW growth1 \in Counts, NEW growth2 \in Counts, NEW both \in Counts,
         \A f \in DOMAIN Zero : both[f] = growth2[f] + growth1[f],
         Grew(fields, a, b, growth1, lossy1), Grew(fields, b, c, growth2, lossy2)
  PROVE  Grew(fields, a, c, both, lossy2 \/ lossy1)
<1> SUFFICES ASSUME NEW f \in fields
             PROVE  /\ c[f] <= a[f] + both[f]
                    /\ ~(lossy2 \/ lossy1) => c[f] = a[f] + both[f]
  BY DEF Grew
<1>1. /\ a[f] \in Nat /\ b[f] \in Nat /\ c[f] \in Nat
      /\ growth1[f] \in Nat /\ growth2[f] \in Nat
      /\ both[f] = growth2[f] + growth1[f]
  BY DEF Counts
<1>2. b[f] <= a[f] + growth1[f] /\ c[f] <= b[f] + growth2[f]
  BY DEF Grew
<1>3. ~lossy1 => b[f] = a[f] + growth1[f]
  BY DEF Grew
<1>4. ~lossy2 => c[f] = b[f] + growth2[f]
  BY DEF Grew
<1>5. c[f] <= a[f] + both[f]
  BY <1>1, <1>2
<1>6. ASSUME ~lossy1, ~lossy2 PROVE c[f] = a[f] + both[f]
  <2>1. b[f] = a[f] + growth1[f] /\ c[f] = b[f] + growth2[f]
    BY <1>3, <1>4, <1>6
  <2> QED
    BY <1>1, <2>1
<1> QED
  BY <1>5, <1>6

-----------------------------------------------------------------------------
(* The server's steps, followed through the sums.                          *)
TotalMs == [s \in Statements |-> table[s].totalMs]
SlowOnes == [s \in Statements |-> table[s].slow]

LEMMA ServerFields ==
  /\ Server.calls = Total(Calls, AnyClass)
  /\ Server.reads = Total(Calls, {"read"})
  /\ Server.writes = Total(Calls, {"write"})
  /\ Server.totalMs = (IF driver = "pgx" THEN Total(TotalMs, AnyClass) ELSE 0)
  /\ driver # "pgx" => Server.slow = Total(SlowOnes, AnyClass)
BY DEF Server, PostgresCounters, MySQLCounters, TotalMs, SlowOnes

LEMMA NextServerFields ==
  /\ Server'.calls = Total(Calls', AnyClass)
  /\ Server'.reads = Total(Calls', {"read"})
  /\ Server'.writes = Total(Calls', {"write"})
  /\ Server'.totalMs = (IF driver' = "pgx" THEN Total(TotalMs', AnyClass) ELSE 0)
  /\ driver' # "pgx" => Server'.slow = Total(SlowOnes', AnyClass)
BY DEF Server, PostgresCounters, MySQLCounters, TotalMs, SlowOnes

LEMMA ServerType ==
  ASSUME table \in [Statements -> Rows]
  PROVE  Server \in Counts
BY CountersType DEF Server

LEMMA ColumnTypes ==
  ASSUME table \in [Statements -> Rows]
  PROVE  /\ Calls \in [Statements -> Nat] /\ TotalMs \in [Statements -> Nat]
         /\ SlowOnes \in [Statements -> Nat]
BY DEF Calls, TotalMs, SlowOnes, Rows

LEMMA NextColumnTypes ==
  ASSUME table' \in [Statements -> Rows]
  PROVE  /\ Calls' \in [Statements -> Nat] /\ TotalMs' \in [Statements -> Nat]
         /\ SlowOnes' \in [Statements -> Nat]
BY DEF Calls, TotalMs, SlowOnes, Rows

LEMMA TotalTypes ==
  ASSUME table \in [Statements -> Rows]
  PROVE  \A class : /\ Total(Calls, class) \in Nat /\ Total(TotalMs, class) \in Nat
                    /\ Total(SlowOnes, class) \in Nat
BY ColumnTypes, TotalType

LEMMA ServerExecutes ==
  ASSUME DeltaTypeOK, DeltaTypeOK', NEW s \in Statements, NEW d \in Durations, Execute(s, d)
  PROVE  \A f \in Cumulative : Server'[f] - Server[f] = grown'[f] - grown[f]
<1>1. /\ table \in [Statements -> Rows] /\ table' \in [Statements -> Rows]
      /\ driver' = driver /\ grown \in Counts /\ d \in Nat /\ table[s] \in Rows
      /\ table' = [table EXCEPT ![s] = Executed(@, d)]
  BY DeltaAssumption DEF DeltaTypeOK, Execute
<1>2. Class[s] \in AnyClass
  BY DeltaAssumption DEF AnyClass
<1>3. /\ Calls \in [Statements -> Nat] /\ Calls' \in [Statements -> Nat]
      /\ TotalMs \in [Statements -> Nat] /\ TotalMs' \in [Statements -> Nat]
      /\ SlowOnes \in [Statements -> Nat] /\ SlowOnes' \in [Statements -> Nat]
  BY <1>1, ColumnTypes, NextColumnTypes
<1>4. /\ Calls'[s] = Calls[s] + 1
      /\ TotalMs'[s] = TotalMs[s] + d
      /\ SlowOnes'[s] = SlowOnes[s] + (IF d >= SlowMs THEN 1 ELSE 0)
  BY <1>1 DEF Calls, TotalMs, SlowOnes, Executed, Rows
<1>5. \A t \in Statements \ {s} :
        Calls'[t] = Calls[t] /\ TotalMs'[t] = TotalMs[t] /\ SlowOnes'[t] = SlowOnes[t]
  BY <1>1 DEF Calls, TotalMs, SlowOnes
<1>6. \A class : /\ Total(Calls, class) \in Nat /\ Total(TotalMs, class) \in Nat
                 /\ Total(SlowOnes, class) \in Nat
  BY <1>1, TotalTypes
<1>7. ASSUME NEW class
      PROVE  /\ Total(Calls', class)
                  = Total(Calls, class) + (IF Class[s] \in class THEN 1 ELSE 0)
             /\ Total(TotalMs', class)
                  = Total(TotalMs, class) + (IF Class[s] \in class THEN d ELSE 0)
             /\ Total(SlowOnes', class)
                  = Total(SlowOnes, class)
                    + (IF Class[s] \in class /\ d >= SlowMs THEN 1 ELSE 0)
  <2>1. Total(Calls', class)
          = Total(Calls, class) + (IF Class[s] \in class THEN Calls'[s] - Calls[s] ELSE 0)
    BY <1>3, <1>5, TotalUpdate
  <2>2. Total(TotalMs', class)
          = Total(TotalMs, class) + (IF Class[s] \in class THEN TotalMs'[s] - TotalMs[s] ELSE 0)
    BY <1>3, <1>5, TotalUpdate
  <2>3. Total(SlowOnes', class)
          = Total(SlowOnes, class)
            + (IF Class[s] \in class THEN SlowOnes'[s] - SlowOnes[s] ELSE 0)
    BY <1>3, <1>5, TotalUpdate
  <2>4. Calls[s] \in Nat /\ TotalMs[s] \in Nat /\ SlowOnes[s] \in Nat
    BY <1>3
  <2> QED
    BY <1>1, <1>4, <1>6, <2>1, <2>2, <2>3, <2>4, DeltaAssumption
<1>8. /\ grown'.calls = grown.calls + 1
      /\ grown'.reads = grown.reads + (IF Class[s] = "read" THEN 1 ELSE 0)
      /\ grown'.writes = grown.writes + (IF Class[s] = "write" THEN 1 ELSE 0)
      /\ grown'.slow = grown.slow + (IF d >= SlowMs THEN 1 ELSE 0)
      /\ grown'.totalMs = grown.totalMs + (IF driver = "mysql" THEN 0 ELSE d)
  BY DEF Execute
<1>9. /\ grown.calls \in Nat /\ grown.reads \in Nat /\ grown.writes \in Nat
      /\ grown.slow \in Nat /\ grown.totalMs \in Nat
  BY <1>1, CountsFields
<1>10. Server'.calls - Server.calls = grown'.calls - grown.calls
  BY <1>2, <1>6, <1>7, <1>8, <1>9, ServerFields, NextServerFields
<1>11. Server'.reads - Server.reads = grown'.reads - grown.reads
  BY <1>6, <1>7, <1>8, <1>9, ServerFields, NextServerFields
<1>12. Server'.writes - Server.writes = grown'.writes - grown.writes
  BY <1>6, <1>7, <1>8, <1>9, ServerFields, NextServerFields
<1>13. Server'.totalMs - Server.totalMs = grown'.totalMs - grown.totalMs
  <2>1. driver \in {"pgx", "mysql"}
    BY DEF DeltaTypeOK
  <2> QED
    BY <1>1, <1>2, <1>6, <1>7, <1>8, <1>9, <2>1, ServerFields, NextServerFields
<1>14. driver # "pgx" => Server'.slow - Server.slow = grown'.slow - grown.slow
  BY <1>1, <1>2, <1>6, <1>7, <1>8, <1>9, ServerFields, NextServerFields
<1> QED
  BY <1>10, <1>11, <1>12, <1>13, <1>14, Fields DEF Cumulative

LEMMA ServerLoses ==
  ASSUME DeltaTypeOK, DeltaTypeOK', Restart \/ \E s \in Statements : Forget(s)
  PROVE  \A f \in Cumulative : Server'[f] <= Server[f]
<1>1. /\ table \in [Statements -> Rows] /\ table' \in [Statements -> Rows]
      /\ driver' = driver
  BY DEF DeltaTypeOK, Restart, Forget
<1>2. /\ Calls \in [Statements -> Nat] /\ Calls' \in [Statements -> Nat]
      /\ TotalMs \in [Statements -> Nat] /\ TotalMs' \in [Statements -> Nat]
      /\ SlowOnes \in [Statements -> Nat] /\ SlowOnes' \in [Statements -> Nat]
  BY <1>1, ColumnTypes, NextColumnTypes
<1>3. \A class : /\ Total(Calls, class) \in Nat /\ Total(TotalMs, class) \in Nat
                 /\ Total(SlowOnes, class) \in Nat
  BY <1>1, TotalTypes
<1>4. ASSUME NEW class
      PROVE  /\ Total(Calls', class) <= Total(Calls, class)
             /\ Total(TotalMs', class) <= Total(TotalMs, class)
             /\ Total(SlowOnes', class) <= Total(SlowOnes, class)
  <2>1. CASE Restart
    <3>1. \A t \in Statements : Calls'[t] = 0 /\ TotalMs'[t] = 0 /\ SlowOnes'[t] = 0
      BY <2>1 DEF Restart, Untouched, Calls, TotalMs, SlowOnes
    <3>2. Total(Calls', class) = 0 /\ Total(TotalMs', class) = 0 /\ Total(SlowOnes', class) = 0
      BY <3>1, TotalZeros
    <3> QED
      BY <1>3, <3>2
  <2>2. ASSUME NEW s \in Statements, Forget(s)
        PROVE  /\ Total(Calls', class) <= Total(Calls, class)
               /\ Total(TotalMs', class) <= Total(TotalMs, class)
               /\ Total(SlowOnes', class) <= Total(SlowOnes, class)
    <3>1. Calls'[s] = 0 /\ TotalMs'[s] = 0 /\ SlowOnes'[s] = 0
      BY <1>1, <2>2 DEF Forget, Untouched, Calls, TotalMs, SlowOnes
    <3>2. \A t \in Statements \ {s} :
            Calls'[t] = Calls[t] /\ TotalMs'[t] = TotalMs[t] /\ SlowOnes'[t] = SlowOnes[t]
      BY <1>1, <2>2 DEF Forget, Calls, TotalMs, SlowOnes
    <3>3. Total(Calls', class)
            = Total(Calls, class) + (IF Class[s] \in class THEN Calls'[s] - Calls[s] ELSE 0)
      BY <1>2, <3>2, TotalUpdate
    <3>4. Total(TotalMs', class)
            = Total(TotalMs, class)
              + (IF Class[s] \in class THEN TotalMs'[s] - TotalMs[s] ELSE 0)
      BY <1>2, <3>2, TotalUpdate
    <3>5. Total(SlowOnes', class)
            = Total(SlowOnes, class)
              + (IF Class[s] \in class THEN SlowOnes'[s] - SlowOnes[s] ELSE 0)
      BY <1>2, <3>2, TotalUpdate
    <3>6. Calls[s] \in Nat /\ TotalMs[s] \in Nat /\ SlowOnes[s] \in Nat
      BY <1>2
    <3> QED
      BY <1>3, <3>1, <3>3, <3>4, <3>5, <3>6
  <2> QED
    BY <2>1, <2>2
<1>5. /\ Server'.calls <= Server.calls /\ Server'.reads <= Server.reads
      /\ Server'.writes <= Server.writes
  BY <1>4, ServerFields, NextServerFields
<1>6. Server'.totalMs <= Server.totalMs
  BY <1>1, <1>4, ServerFields, NextServerFields
<1>7. driver # "pgx" => Server'.slow <= Server.slow
  BY <1>1, <1>4, ServerFields, NextServerFields
<1> QED
  BY <1>5, <1>6, <1>7, Fields DEF Cumulative

-----------------------------------------------------------------------------
(* The invariant.                                                          *)
LEMMA DeltaInvInit == DeltaInit => DeltaInv
<1> SUFFICES ASSUME DeltaInit PROVE DeltaInv
  OBVIOUS
<1>1. DeltaTypeOK
  BY DeltaTypeInit
<1>2. stage = "idle" /\ seeded = FALSE /\ metric = NoMetric
  BY DEF DeltaInit
<1> QED
  BY <1>1, <1>2 DEF DeltaInv, GrowthInv, RatesInv, HasRead, NoMetric

LEMMA SameServer ==
  ASSUME UNCHANGED <<driver, table>>
  PROVE  Server' = Server /\ Cumulative' = Cumulative
BY DEF Server, PostgresCounters, MySQLCounters, Calls, Cumulative

LEMMA DeltaParts ==
  ASSUME DeltaTypeOK
  PROVE  /\ Server \in Counts /\ Cumulative \in SUBSET DOMAIN Zero
         /\ reading.counters \in Counts /\ prev \in Counts
         /\ grown \in Counts /\ pending.grown \in Counts
         /\ upset \in BOOLEAN /\ pending.upset \in BOOLEAN
BY ServerType DEF DeltaTypeOK, Cumulative

LEMMA NextServerType ==
  ASSUME DeltaTypeOK'
  PROVE  Server' \in Counts
<1>1. table' \in [Statements -> Rows]
  BY DEF DeltaTypeOK
<1>2. PostgresCounters' \in Counts /\ MySQLCounters' \in Counts
  <2> DEFINE slow1 == [s \in Statements |->
                         IF TotalMs'[s] >= SlowMs * Calls'[s] THEN Calls'[s] ELSE 0]
  <2>1. /\ Calls' \in [Statements -> Nat] /\ TotalMs' \in [Statements -> Nat]
        /\ SlowOnes' \in [Statements -> Nat]
    BY <1>1, NextColumnTypes
  <2>2. slow1 \in [Statements -> Nat]
    BY <2>1
  <2>3. /\ PostgresCounters' =
             [calls |-> Total(Calls', AnyClass), reads |-> Total(Calls', {"read"}),
              writes |-> Total(Calls', {"write"}), slow |-> Total(slow1, AnyClass),
              totalMs |-> Total(TotalMs', AnyClass)]
        /\ MySQLCounters' =
             [calls |-> Total(Calls', AnyClass), reads |-> Total(Calls', {"read"}),
              writes |-> Total(Calls', {"write"}), slow |-> Total(SlowOnes', AnyClass),
              totalMs |-> 0]
    BY DEF PostgresCounters, MySQLCounters, TotalMs, SlowOnes
  <2> HIDE DEF slow1
  <2>4. /\ Total(Calls', AnyClass) \in Nat /\ Total(Calls', {"read"}) \in Nat
        /\ Total(Calls', {"write"}) \in Nat
    BY <2>1, TotalType
  <2>5. /\ Total(slow1, AnyClass) \in Nat /\ Total(SlowOnes', AnyClass) \in Nat
        /\ Total(TotalMs', AnyClass) \in Nat
    BY <2>1, <2>2, TotalType
  <2> QED
    BY <2>3, <2>4, <2>5, CountsRecord
<1> QED
  BY <1>2 DEF Server

LEMMA GrowthServer ==
  ASSUME DeltaInv, DeltaTypeOK',
         \/ \E s \in Statements, d \in Durations : Execute(s, d)
         \/ Restart \/ \E s \in Statements : Forget(s)
  PROVE  GrowthInv'
<1>1. /\ Server \in Counts /\ Cumulative \in SUBSET DOMAIN Zero
      /\ reading.counters \in Counts /\ prev \in Counts
      /\ grown \in Counts /\ pending.grown \in Counts
      /\ upset \in BOOLEAN /\ pending.upset \in BOOLEAN
  BY DeltaParts DEF DeltaInv
<1>2. Server' \in Counts /\ grown' \in Counts
  BY NextServerType DEF DeltaTypeOK
<1>3. UNCHANGED <<driver, stage, reading, prev, seeded, pending>>
  BY DEF Execute, Restart, Forget, collectVars
<1>4. Cumulative' = Cumulative /\ (HasRead' <=> HasRead)
  BY <1>3 DEF Cumulative, HasRead
<1>5. ASSUME NEW old \in Counts, Grew(Cumulative, old, Server, grown, upset)
      PROVE  Grew(Cumulative, old, Server', grown', upset')
  <2>1. ASSUME NEW s \in Statements, NEW d \in Durations, Execute(s, d)
        PROVE  Grew(Cumulative, old, Server', grown', upset')
    <3>1. \A f \in Cumulative : Server'[f] - Server[f] = grown'[f] - grown[f]
      BY <2>1, ServerExecutes DEF DeltaInv
    <3>2. upset' = upset
      BY <2>1 DEF Execute
    <3> QED
      BY <1>1, <1>2, <1>5, <3>1, <3>2, GrewMore
  <2>2. CASE Restart \/ \E s \in Statements : Forget(s)
    <3>1. \A f \in Cumulative : Server'[f] <= Server[f]
      BY <2>2, ServerLoses DEF DeltaInv
    <3>2. upset' = TRUE /\ grown' = grown
      BY <2>2 DEF Restart, Forget
    <3>3. Grew(Cumulative, old, Server', grown, TRUE)
      BY <1>1, <1>2, <1>5, <3>1, GrewLess
    <3> QED
      BY <3>2, <3>3
  <2> QED
    BY <2>1, <2>2
<1>6. /\ HasRead => Grew(Cumulative, reading.counters, Server, grown, upset)
      /\ HasRead /\ seeded =>
           Grew(Cumulative, prev, reading.counters, pending.grown, pending.upset)
      /\ ~HasRead /\ seeded => Grew(Cumulative, prev, Server, grown, upset)
  BY DEF DeltaInv, GrowthInv
<1> QED
  BY <1>1, <1>3, <1>4, <1>5, <1>6 DEF GrowthInv

LEMMA GrowthRead ==
  ASSUME DeltaInv, stage = "stats", NEW max, Read(Server, max),
         stage' \in {"p95", "apply"}
  PROVE  GrowthInv'
<1>1. Server \in Counts /\ Cumulative \in SUBSET DOMAIN Zero
  BY DeltaParts DEF DeltaInv
<1>2. /\ reading'.counters = Server /\ pending' = [grown |-> grown, upset |-> upset]
      /\ grown' = Zero /\ upset' = FALSE /\ UNCHANGED <<driver, table, prev, seeded>>
  BY DEF Read
<1>3. Server' = Server /\ Cumulative' = Cumulative
  BY <1>2, SameServer
<1>4. HasRead' /\ ~HasRead
  BY DEF HasRead
<1>5. Grew(Cumulative, Server, Server, Zero, FALSE)
  BY <1>1, GrewSelf
<1>6. Grew(Cumulative', reading'.counters, Server', grown', upset')
  BY <1>2, <1>3, <1>5
<1>7. seeded => Grew(Cumulative, prev, Server, grown, upset)
  BY <1>4 DEF DeltaInv, GrowthInv
<1>8. seeded' =>
        Grew(Cumulative', prev', reading'.counters, pending'.grown, pending'.upset)
  BY <1>2, <1>3, <1>7
<1> QED
  BY <1>4, <1>6, <1>8 DEF GrowthInv

LEMMA GrowthApply ==
  ASSUME DeltaInv, ApplyDelta
  PROVE  GrowthInv'
<1>1. /\ Server \in Counts /\ Cumulative \in SUBSET DOMAIN Zero
      /\ reading.counters \in Counts /\ prev \in Counts
      /\ grown \in Counts /\ pending.grown \in Counts
      /\ upset \in BOOLEAN /\ pending.upset \in BOOLEAN
  BY DeltaParts DEF DeltaInv
<1>2. Server' = Server /\ Cumulative' = Cumulative
  BY SameServer DEF ApplyDelta
<1>3. HasRead /\ ~HasRead'
  BY DEF HasRead, ApplyDelta
<1>4. Grew(Cumulative, reading.counters, Server, grown, upset)
  BY <1>3 DEF DeltaInv, GrowthInv
<1>5. CASE Rebase /\ UNCHANGED <<grown, upset>>
  <2>1. Grew(Cumulative', prev', Server', grown', upset')
    BY <1>2, <1>4, <1>5 DEF Rebase
  <2> QED
    BY <1>3, <2>1 DEF GrowthInv
<1>6. CASE TooEarly
  <2>1. Grew(Cumulative, prev, reading.counters, pending.grown, pending.upset)
    BY <1>3, <1>6 DEF DeltaInv, GrowthInv, TooEarly
  <2>2. /\ grown' = [f \in DOMAIN Zero |-> grown[f] + pending.grown[f]]
        /\ upset' = (upset \/ pending.upset) /\ prev' = prev
    BY <1>6 DEF TooEarly
  <2>3. grown' \in Counts /\ \A f \in DOMAIN Zero : grown'[f] = grown[f] + pending.grown[f]
    BY <1>1, <2>2 DEF Counts
  <2>4. Grew(Cumulative, prev, Server, grown', upset \/ pending.upset)
    BY <1>1, <1>4, <2>1, <2>3, GrewTwice
  <2>5. Grew(Cumulative', prev', Server', grown', upset')
    BY <1>2, <2>2, <2>4
  <2> QED
    BY <1>3, <2>5 DEF GrowthInv
<1> QED
  BY <1>5, <1>6 DEF ApplyDelta, Seed, Reseed, Report

LEMMA GrowthStays ==
  ASSUME DeltaInv, UNCHANGED <<driver, table, prev, seeded, pending, grown, upset>>,
         HasRead' <=> HasRead, HasRead => reading'.counters = reading.counters
  PROVE  GrowthInv'
<1>1. Server' = Server /\ Cumulative' = Cumulative
  BY SameServer
<1>2. GrowthInv
  BY DEF DeltaInv
<1> QED
  BY <1>1, <1>2 DEF GrowthInv

LEMMA GrowthStep == DeltaInv /\ DeltaTypeOK' /\ [DeltaNext]_deltaVars => GrowthInv'
<1> SUFFICES ASSUME DeltaInv, DeltaTypeOK', [DeltaNext]_deltaVars PROVE GrowthInv'
  OBVIOUS
<1>1. CASE \/ \E s \in Statements, d \in Durations : Execute(s, d)
           \/ Restart \/ \E s \in Statements : Forget(s)
  BY <1>1, GrowthServer
<1>2. CASE Pass
  BY <1>2, GrowthStays DEF Pass, HasRead, serverVars
<1>3. CASE BeginCollect \/ StatsUnavailable
  BY <1>3, GrowthStays DEF BeginCollect, StatsUnavailable, HasRead, serverVars
<1>4. CASE ReadPostgresStats
  <2>1. Server = PostgresCounters
    BY <1>4 DEF ReadPostgresStats, Server
  <2>2. stage = "stats" /\ Read(Server, MaxMs) /\ stage' \in {"p95", "apply"}
    BY <1>4, <2>1 DEF ReadPostgresStats
  <2> QED
    BY <2>2, GrowthRead
<1>5. CASE ReadMySQLStatus
  <2>1. Server = MySQLCounters
    BY <1>5 DEF ReadMySQLStatus, Server
  <2>2. stage = "stats" /\ Read(Server, 0) /\ stage' \in {"p95", "apply"}
    BY <1>5, <2>1 DEF ReadMySQLStatus
  <2> QED
    BY <2>2, GrowthRead
<1>6. CASE ReadP95
  <2>1. reading'.counters = reading.counters
    BY <1>6 DEF ReadP95, DeltaInv, DeltaTypeOK
  <2> QED
    BY <1>6, <2>1, GrowthStays DEF ReadP95, HasRead, serverVars
<1>7. CASE ApplyDelta
  BY <1>7, GrowthApply
<1>8. CASE Post
  BY <1>8, GrowthStays DEF Post, HasRead, serverVars
<1>9. CASE DeltaDone \/ UNCHANGED deltaVars
  BY <1>9, GrowthStays DEF DeltaDone, deltaVars, serverVars, collectVars, HasRead
<1> QED
  BY <1>1, <1>2, <1>3, <1>4, <1>5, <1>6, <1>7, <1>8, <1>9 DEF DeltaNext, CollectStep

LEMMA RatesStep == DeltaInv /\ [DeltaNext]_deltaVars => RatesInv'
<1> SUFFICES ASSUME DeltaInv, [DeltaNext]_deltaVars, stage' # "post"
             PROVE  /\ metric'.queriesPerMin = 0 /\ metric'.readsPerMin = 0
                    /\ metric'.writesPerMin = 0
  BY DEF RatesInv
<1>1. CASE BeginCollect
  BY <1>1 DEF BeginCollect, NoMetric
<1>2. CASE Post
  BY <1>2 DEF Post, NoMetric
<1>3. CASE UNCHANGED metric /\ (stage = "post" => stage' = "post")
  BY <1>3 DEF DeltaInv, RatesInv
<1>4. CASE \E s \in Statements, d \in Durations : Execute(s, d)
  BY <1>3, <1>4 DEF Execute, collectVars
<1>5. CASE Restart \/ \E s \in Statements : Forget(s)
  BY <1>3, <1>5 DEF Restart, Forget, collectVars
<1>6. CASE Pass \/ StatsUnavailable \/ ReadPostgresStats \/ ReadMySQLStatus \/ ReadP95
  BY <1>3, <1>6 DEF Pass, StatsUnavailable, ReadPostgresStats, ReadMySQLStatus, Read, ReadP95
<1>7. CASE DeltaDone \/ UNCHANGED deltaVars
  BY <1>3, <1>7 DEF DeltaDone, deltaVars, collectVars
<1>8. CASE ApplyDelta
  BY <1>8 DEF ApplyDelta
<1> QED
  BY <1>1, <1>2, <1>4, <1>5, <1>6, <1>7, <1>8 DEF DeltaNext, CollectStep

LEMMA DeltaInvStep == DeltaInv /\ [DeltaNext]_deltaVars => DeltaInv'
BY DeltaTypeStep, GrowthStep, RatesStep DEF DeltaInv

LEMMA DeltaCorrect == DeltaSpec => []DeltaInv
BY DeltaInvInit, DeltaInvStep, PTL DEF DeltaSpec

-----------------------------------------------------------------------------
(* The rates.                                                              *)
LEMMA QuotientTimes ==
  ASSUME NEW m \in Nat, NEW n \in Nat \ {0}
  PROVE  (m \div n) * n <= m
OBVIOUS

LEMMA ProductGrows ==
  ASSUME NEW m \in Nat, NEW n \in Nat, NEW p \in Nat, m <= n
  PROVE  m * p <= n * p
OBVIOUS

LEMMA PerMinAtMost ==
  ASSUME NEW count \in Nat, NEW bound \in Nat, count <= bound, age \in Nat \ {0}
  PROVE  AtMost(PerMin(count), bound)
<1>1. PerMinute \in Nat
  BY DeltaAssumption
<1>2. count * PerMinute \in Nat /\ bound * PerMinute \in Nat
  BY <1>1, ProductIsNat
<1>3. PerMin(count) * age <= count * PerMinute
  BY <1>2, QuotientTimes DEF PerMin
<1>4. count * PerMinute <= bound * PerMinute
  BY <1>1, ProductGrows
<1>5. PerMin(count) \in Nat
  BY PerMinType
<1>6. PerMin(count) * age \in Nat
  BY <1>5, ProductIsNat
<1>7. PerMin(count) * age <= bound * PerMinute
  BY <1>2, <1>3, <1>4, <1>6
<1> QED
  BY <1>7 DEF AtMost

LEMMA NothingIsAtMost ==
  ASSUME NEW bound \in Nat, age \in Nat
  PROVE  AtMost(0, bound)
<1>1. bound * PerMinute \in Nat
  BY DeltaAssumption, ProductIsNat
<1> QED
  BY <1>1 DEF AtMost

(* Only applyDelta leads from "apply" to "post".                           *)
LEMMA AppliedByApplyDelta ==
  ASSUME [DeltaNext]_deltaVars, Applied
  PROVE  ApplyDelta
<1>1. stage = "apply" /\ stage' = "post"
  BY DEF Applied
<1>2. CASE \E s \in Statements, d \in Durations : Execute(s, d)
  BY <1>1, <1>2 DEF Execute, collectVars
<1>3. CASE Restart \/ \E s \in Statements : Forget(s)
  BY <1>1, <1>3 DEF Restart, Forget, collectVars
<1>4. CASE Pass \/ BeginCollect \/ StatsUnavailable \/ ReadPostgresStats
           \/ ReadMySQLStatus \/ ReadP95 \/ Post
  BY <1>1, <1>4 DEF Pass, BeginCollect, StatsUnavailable, ReadPostgresStats,
     ReadMySQLStatus, ReadP95, Post
<1>5. CASE DeltaDone \/ UNCHANGED deltaVars
  BY <1>1, <1>5 DEF DeltaDone, deltaVars, collectVars
<1> QED
  BY <1>2, <1>3, <1>4, <1>5 DEF DeltaNext, CollectStep

(* A reading against the baseline, field by field.                         *)
LEMMA ReadingGrew ==
  ASSUME DeltaInv, stage = "apply", seeded
  PROVE  /\ \A f \in {"calls", "reads", "writes"} : Delta[f] <= pending.grown[f]
         /\ ~pending.upset =>
              \A f \in Cumulative : Delta[f] = pending.grown[f]
         /\ \A f \in DOMAIN Zero : pending.grown[f] \in Nat
<1>1. Grew(Cumulative, prev, reading.counters, pending.grown, pending.upset)
  BY DEF DeltaInv, GrowthInv, HasRead
<1>2. pending.grown \in Counts /\ DeltaTypeOK
  BY DeltaParts DEF DeltaInv
<1>3. \A f \in DOMAIN Zero : /\ Delta[f] = reading.counters[f] - prev[f]
                             /\ reading.counters[f] \in Nat /\ prev[f] \in Nat
                             /\ pending.grown[f] \in Nat
  BY <1>2, DeltaFields DEF Counts
<1>4. {"calls", "reads", "writes"} \subseteq Cumulative
  BY Fields DEF Cumulative
<1>5. \A f \in Cumulative : reading.counters[f] <= prev[f] + pending.grown[f]
  BY <1>1 DEF Grew
<1>6. \A f \in Cumulative : f \in DOMAIN Zero
  BY DEF Cumulative
<1>7. ASSUME ~pending.upset, NEW f \in Cumulative PROVE Delta[f] = pending.grown[f]
  <2>1. reading.counters[f] = prev[f] + pending.grown[f]
    BY <1>1, <1>7 DEF Grew
  <2> QED
    BY <1>3, <1>6, <2>1
<1>8. ASSUME NEW f \in {"calls", "reads", "writes"} PROVE Delta[f] <= pending.grown[f]
  BY <1>3, <1>4, <1>5, <1>6
<1> QED
  BY <1>3, <1>7, <1>8

LEMMA AppliedIsBounded ==
  ASSUME DeltaInv, [DeltaNext]_deltaVars, Applied
  PROVE  /\ AtMost(metric'.queriesPerMin, pending.grown.calls)
         /\ AtMost(metric'.readsPerMin, pending.grown.reads)
         /\ AtMost(metric'.writesPerMin, pending.grown.writes)
<1>1. ApplyDelta /\ stage = "apply" /\ DeltaTypeOK
  BY AppliedByApplyDelta DEF Applied, DeltaInv
<1>2. pending.grown \in Counts /\ age \in Nat
  BY <1>1, DeltaParts, DeltaAssumption DEF DeltaTypeOK
<1>3. /\ pending.grown.calls \in Nat /\ pending.grown.reads \in Nat
      /\ pending.grown.writes \in Nat
  BY <1>2, CountsFields
<1>4. /\ metric.queriesPerMin = 0 /\ metric.readsPerMin = 0 /\ metric.writesPerMin = 0
      /\ metric \in Metrics
  BY <1>1 DEF DeltaInv, RatesInv, DeltaTypeOK, Metrics
<1>5. CASE Seed \/ TooEarly \/ Reseed
  <2>1. /\ metric'.queriesPerMin = 0 /\ metric'.readsPerMin = 0
        /\ metric'.writesPerMin = 0
    BY <1>4, <1>5 DEF Seed, TooEarly, Reseed, Metrics
  <2> QED
    BY <1>2, <1>3, <2>1, NothingIsAtMost
<1>6. CASE Report
  <2>1. /\ Delta.calls \in Nat /\ Delta.reads \in Nat /\ Delta.writes \in Nat
    BY <1>1, <1>6, DeltaNotNegative DEF Report
  <2>2. /\ Delta.calls <= pending.grown.calls /\ Delta.reads <= pending.grown.reads
        /\ Delta.writes <= pending.grown.writes
    BY <1>1, <1>6, ReadingGrew DEF Report
  <2>3. age \in Nat \ {0}
    BY <1>2, <1>6 DEF Report
  <2>4. /\ AtMost(PerMin(Delta.calls), pending.grown.calls)
        /\ AtMost(PerMin(Delta.reads), pending.grown.reads)
        /\ AtMost(PerMin(Delta.writes), pending.grown.writes)
    BY <1>3, <2>1, <2>2, <2>3, PerMinAtMost
  <2>5. /\ metric'.queriesPerMin = PerMin(Delta.calls)
        /\ metric'.readsPerMin = PerMin(Delta.reads)
        /\ metric'.writesPerMin = PerMin(Delta.writes)
    BY <1>4, <1>6 DEF Report, Metrics
  <2> QED
    BY <2>4, <2>5
<1> QED
  BY <1>1, <1>5, <1>6 DEF ApplyDelta

(***************************************************************************)
(* The rates of queries, reads and writes are never inflated: whatever the *)
(* server had counted before the SDK came, however often it restarts or    *)
(* forgets a statement, and however many readings fail or are thrown away, *)
(* a rate times the time since the baseline is at most what was executed   *)
(* in that time.                                                           *)
(***************************************************************************)
THEOREM NeverInflatedThm == DeltaSpec => NeverInflated
<1>1. DeltaInv /\ [DeltaNext]_deltaVars =>
        [Applied =>
           /\ AtMost(metric'.queriesPerMin, pending.grown.calls)
           /\ AtMost(metric'.readsPerMin, pending.grown.reads)
           /\ AtMost(metric'.writesPerMin, pending.grown.writes)]_deltaVars
  BY AppliedIsBounded
<1> QED
  BY <1>1, DeltaCorrect, PTL DEF DeltaSpec, NeverInflated

LEMMA AppliedIsExact ==
  ASSUME DeltaInv, [DeltaNext]_deltaVars, Applied, Undisturbed,
         reading.counters.slow >= prev.slow
  PROVE  /\ verdict' = "report"
         /\ metric'.queriesPerMin = PerMin(pending.grown.calls)
         /\ metric'.readsPerMin = PerMin(pending.grown.reads)
         /\ metric'.writesPerMin = PerMin(pending.grown.writes)
         /\ driver = "mysql" => metric'.slowQueries = pending.grown.slow
         /\ pending.grown.calls > 0 =>
              metric'.avg = [ms |-> pending.grown.totalMs, calls |-> pending.grown.calls]
<1>1. /\ ApplyDelta /\ stage = "apply" /\ DeltaTypeOK
      /\ seeded /\ age > 0 /\ ~pending.upset
  BY AppliedByApplyDelta DEF Applied, DeltaInv, Undisturbed
<1>2. /\ \A f \in Cumulative : Delta[f] = pending.grown[f]
      /\ \A f \in DOMAIN Zero : pending.grown[f] \in Nat
  BY <1>1, ReadingGrew
<1>3. /\ Delta.calls = pending.grown.calls /\ Delta.reads = pending.grown.reads
      /\ Delta.writes = pending.grown.writes /\ Delta.totalMs = pending.grown.totalMs
      /\ driver = "mysql" => Delta.slow = pending.grown.slow
  BY <1>2, Fields DEF Cumulative
<1>4. Delta.slow >= 0
  BY <1>1, DeltaFields, Fields
<1>5. \A f \in DOMAIN Zero : Delta[f] >= 0
  BY <1>2, <1>3, <1>4, Fields
<1>6. Report
  <2>1. Seed \/ TooEarly \/ Reseed \/ Report
    BY <1>1 DEF ApplyDelta
  <2>2. ~Seed /\ ~TooEarly
    <3>1. age # 0
      BY <1>1
    <3> QED
      BY <1>1, <3>1 DEF Seed, TooEarly
  <2>3. \A f \in DOMAIN Zero : ~(Delta[f] < 0)
    BY <1>1, <1>5, DeltaFields
  <2>4. ~Reseed
    BY <2>3 DEF Reseed
  <2> QED
    BY <2>1, <2>2, <2>4
<1>7. metric \in Metrics
  BY <1>1 DEF DeltaTypeOK, Metrics
<1>8. /\ metric'.queriesPerMin = PerMin(Delta.calls)
      /\ metric'.readsPerMin = PerMin(Delta.reads)
      /\ metric'.writesPerMin = PerMin(Delta.writes)
      /\ metric'.slowQueries = Delta.slow
      /\ Delta.calls > 0 => metric'.avg = [ms |-> Delta.totalMs, calls |-> Delta.calls]
  BY <1>6, <1>7 DEF Report, Metrics
<1>9. verdict' = "report"
  BY <1>6 DEF Report
<1> QED
  BY <1>3, <1>8, <1>9

(***************************************************************************)
(* While the server loses nothing, a tick reports exactly what was         *)
(* executed since the last successful reading, failed ticks and readings   *)
(* thrown away included; for Postgres' slow count see the property.        *)
(***************************************************************************)
THEOREM ExactWhenUndisturbedThm == DeltaSpec => ExactWhenUndisturbed
<1>1. DeltaInv /\ [DeltaNext]_deltaVars =>
        [Applied /\ Undisturbed /\ reading.counters.slow >= prev.slow =>
           /\ verdict' = "report"
           /\ metric'.queriesPerMin = PerMin(pending.grown.calls)
           /\ metric'.readsPerMin = PerMin(pending.grown.reads)
           /\ metric'.writesPerMin = PerMin(pending.grown.writes)
           /\ driver = "mysql" => metric'.slowQueries = pending.grown.slow
           /\ pending.grown.calls > 0 =>
                metric'.avg = [ms |-> pending.grown.totalMs, calls |-> pending.grown.calls]
        ]_deltaVars
  BY AppliedIsExact
<1> QED
  BY <1>1, DeltaCorrect, PTL DEF DeltaSpec, ExactWhenUndisturbed
=============================================================================
