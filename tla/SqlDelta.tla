------------------------------ MODULE SqlDelta ------------------------------
(***************************************************************************)
(* The SQL collector of auto-discovery (autodiscovery.go): it reads        *)
(* cumulative statistics from the database server once per tick and turns  *)
(* them into rates, the growth since the previous reading over the time    *)
(* since then.                                                             *)
(*                                                                         *)
(* The server is outside: it executes statements at any time, also between *)
(* two queries of one Collect, it may restart and count from zero, and     *)
(* pg_stat_statements may forget a statement.  "Bug:" definitions are      *)
(* faulty variants that the runs must reject.                              *)
(***************************************************************************)
EXTENDS Integers, FiniteSets, FiniteSetsExt, Functions

CONSTANTS
  Statements,   \* normalized statements
  Class,        \* "read", "write" or "other" for each of them
  Durations,    \* execution times
  SlowMs,       \* the slow query threshold
  PerMinute,    \* units of time in a minute
  MaxRuns,      \* bound: executions
  MaxTicks,     \* bound: calls of Collect
  MaxPause,     \* bound: units of time since the baseline was taken
  MaxUpsets     \* bound: restarts and forgotten statements

ASSUME DeltaAssumption ==
  /\ IsFiniteSet(Statements) /\ Class \in [Statements -> {"read", "write", "other"}]
  /\ Durations \subseteq Nat /\ SlowMs \in Nat /\ PerMinute \in Nat \ {0}
  /\ MaxRuns \in Nat /\ MaxTicks \in Nat /\ MaxPause \in Nat /\ MaxUpsets \in Nat

VARIABLES
  driver,   \* "pgx" or "mysql"
  table,    \* the server's statistics of each statement
  stage,    \* Collect: "idle", "stats", "p95", "apply", or "post"
  reading,  \* what this Collect has read of the server's counters
  prev,     \* c.prevCalls ... c.prevTotalMs
  seeded,   \* c.prevAt is not zero
  age,      \* the time since c.prevAt
  metric,   \* m
  verdict,  \* what the last Collect has made of its reading
  ticks, runs, upsets,  \* history: how much has happened
  grown,    \* history: what was executed since the reading of the baseline
  upset,    \* history: the statistics have lost something since then
  pending   \* history: both at the reading that has not been applied yet

serverVars  == <<table, grown, upset>>
boundVars   == <<ticks, runs, upsets>>
collectVars == <<stage, reading, prev, seeded, age, metric, verdict, pending>>
deltaVars   == <<driver, serverVars, boundVars, collectVars>>

Untouched == [calls |-> 0, totalMs |-> 0, maxMs |-> 0, slow |-> 0]
Zero      == [calls |-> 0, reads |-> 0, writes |-> 0, slow |-> 0, totalMs |-> 0]
NoReading == [counters |-> Zero, maxMs |-> 0, p95 |-> Untouched]

(* A tick without statistics: all fields but the connections and the size. *)
NoMetric ==
  [queriesPerMin |-> 0, readsPerMin |-> 0, writesPerMin |-> 0, slowQueries |-> 0,
   avg |-> [ms |-> 0, calls |-> 0], maxMs |-> 0, p95 |-> Untouched,
   connections |-> "none", size |-> FALSE]

Executed(old, d) ==
  [calls |-> old.calls + 1, totalMs |-> old.totalMs + d,
   maxMs |-> Max({old.maxMs, d}),
   slow |-> old.slow + (IF d >= SlowMs THEN 1 ELSE 0)]

(* The server has a past of its own when the SDK starts.                   *)
DeltaInit ==
  /\ driver \in {"pgx", "mysql"}
  /\ \E past \in [Statements -> Durations \cup {-1}] :
       table = [s \in Statements |->
                  IF past[s] = -1 THEN Untouched ELSE Executed(Untouched, past[s])]
  /\ stage = "idle" /\ reading = NoReading
  /\ prev = Zero /\ seeded = FALSE /\ age = 0
  /\ metric = NoMetric /\ verdict = "none"
  /\ ticks = 0 /\ runs = 0 /\ upsets = 0
  /\ grown = Zero /\ upset = FALSE /\ pending = [grown |-> Zero, upset |-> FALSE]

-----------------------------------------------------------------------------
Known == {s \in Statements : table[s].calls > 0}

(* The sum of a column over the statements of some classes.                *)
Total(column, class) ==
  SumFunctionOnSet(column, {s \in Statements : Class[s] \in class})
AnyClass == {"read", "write", "other"}
Calls    == [s \in Statements |-> table[s].calls]

(* The aggregate of pg_stat_statements.  Postgres calls every execution of *)
(* a statement slow, or none, after its mean.                              *)
PostgresCounters ==
  LET ms   == [s \in Statements |-> table[s].totalMs]
      slow == [s \in Statements |-> IF ms[s] >= SlowMs * Calls[s] THEN Calls[s] ELSE 0]
  IN  [calls |-> Total(Calls, AnyClass), reads |-> Total(Calls, {"read"}),
       writes |-> Total(Calls, {"write"}), slow |-> Total(slow, AnyClass),
       totalMs |-> Total(ms, AnyClass)]

(* SHOW GLOBAL STATUS: MySQL judges each execution, and has no times.      *)
MySQLCounters ==
  LET slow == [s \in Statements |-> table[s].slow]
  IN  [calls |-> Total(Calls, AnyClass), reads |-> Total(Calls, {"read"}),
       writes |-> Total(Calls, {"write"}), slow |-> Total(slow, AnyClass),
       totalMs |-> 0]

MaxMs == Max({0} \cup {table[s].maxMs : s \in Statements})

(* The mean of s is above that of t.                                       *)
Slower(s, t) ==
  table[s].totalMs * table[t].calls > table[t].totalMs * table[s].calls

(* The statement whose mean is at OFFSET count/20 of the means, largest    *)
(* first; of equal means it does not matter which.                         *)
TopTwentieth ==
  {s \in Known :
     LET offset == Cardinality(Known) \div 20
     IN  /\ Cardinality({t \in Known : Slower(t, s)}) <= offset
         /\ offset < Cardinality({t \in Known : ~Slower(s, t)})}

-----------------------------------------------------------------------------
(* The server executes a statement.                                        *)
Execute(s, d) ==
  /\ runs < MaxRuns /\ runs' = runs + 1
  /\ table' = [table EXCEPT ![s] = Executed(@, d)]
  /\ grown' = [calls |-> grown.calls + 1,
               reads |-> grown.reads + (IF Class[s] = "read" THEN 1 ELSE 0),
               writes |-> grown.writes + (IF Class[s] = "write" THEN 1 ELSE 0),
               slow |-> grown.slow + (IF d >= SlowMs THEN 1 ELSE 0),
               totalMs |-> grown.totalMs + (IF driver = "mysql" THEN 0 ELSE d)]
  /\ UNCHANGED <<driver, upset, ticks, upsets, collectVars>>

(* The server restarts, or its statistics are reset.                       *)
Restart ==
  /\ upsets < MaxUpsets /\ upsets' = upsets + 1
  /\ table' = [s \in Statements |-> Untouched] /\ upset' = TRUE
  /\ UNCHANGED <<driver, grown, ticks, runs, collectVars>>

(* pg_stat_statements is full and evicts a statement.                      *)
Forget(s) ==
  /\ driver = "pgx" /\ s \in Known
  /\ upsets < MaxUpsets /\ upsets' = upsets + 1
  /\ table' = [table EXCEPT ![s] = Untouched] /\ upset' = TRUE
  /\ UNCHANGED <<driver, grown, ticks, runs, collectVars>>

Pass ==
  /\ seeded /\ age < MaxPause
  /\ age' = age + 1
  /\ UNCHANGED <<driver, serverVars, boundVars>>
  /\ UNCHANGED <<stage, reading, prev, seeded, metric, verdict, pending>>

-----------------------------------------------------------------------------
(* Collect begins: the connection counts come from the server or, if that  *)
(* query fails, from the SDK's own pool; the size query may fail.          *)
BeginCollect ==
  /\ stage = "idle" /\ ticks < MaxTicks /\ ticks' = ticks + 1
  /\ \E source \in {"server", "pool"}, sized \in BOOLEAN :
       metric' = [NoMetric EXCEPT !.connections = source, !.size = sized]
  /\ stage' = "stats" /\ verdict' = "none"
  /\ UNCHANGED <<driver, serverVars, runs, upsets>>
  /\ UNCHANGED <<reading, prev, seeded, age, pending>>

(* The statistics cannot be read: no extension, no permission, a timeout.  *)
(* The fields stay zero and the baseline is kept.                          *)
StatsUnavailable ==
  /\ stage = "stats" /\ stage' = "post" /\ verdict' = "unread"
  /\ UNCHANGED <<driver, serverVars, boundVars, reading, prev, seeded, age, metric, pending>>

(* The counters are read.                                                  *)
Read(counters, maxMs) ==
  /\ reading' = [counters |-> counters, maxMs |-> maxMs, p95 |-> Untouched]
  /\ pending' = [grown |-> grown, upset |-> upset]
  /\ grown' = Zero /\ upset' = FALSE
  /\ UNCHANGED <<driver, table, boundVars, prev, seeded, age, metric, verdict>>

ReadPostgresStats ==
  /\ driver = "pgx" /\ stage = "stats" /\ stage' = "p95"
  /\ Read(PostgresCounters, MaxMs)

ReadMySQLStatus ==
  /\ driver = "mysql" /\ stage = "stats" /\ stage' = "apply"
  /\ Read(MySQLCounters, 0)

(* The second query, on what the view shows by then; an error is ignored.  *)
ReadP95 ==
  /\ stage = "p95" /\ stage' = "apply"
  /\ \E p95 \in {Untouched} \cup {table[s] : s \in TopTwentieth} :
       reading' = [reading EXCEPT !.p95 = p95]
  /\ UNCHANGED <<driver, serverVars, boundVars, prev, seeded, age, metric, verdict, pending>>

-----------------------------------------------------------------------------
(* applyDelta.                                                             *)
Delta == [f \in DOMAIN Zero |-> reading.counters[f] - prev[f]]
PerMin(count) == (count * PerMinute) \div age

(* The reading becomes the baseline.                                       *)
Rebase == prev' = reading.counters /\ seeded' = TRUE /\ age' = 0

(* Bug: the first reading is reported as growth since zero.                *)
SeedReports ==
  /\ ~seeded /\ verdict' = "report"
  /\ metric' = [metric EXCEPT !.queriesPerMin = reading.counters.calls,
                              !.maxMs = reading.maxMs, !.p95 = reading.p95]
  /\ Rebase /\ UNCHANGED <<grown, upset>>

(* The first reading: no rates.                                            *)
Seed ==
  /\ ~seeded /\ verdict' = "seed"
  /\ metric' = [metric EXCEPT !.maxMs = reading.maxMs, !.p95 = reading.p95]
  /\ Rebase /\ UNCHANGED <<grown, upset>>

(* No time has passed: the reading is thrown away, the baseline stays.     *)
TooEarly ==
  /\ seeded /\ age = 0 /\ verdict' = "early"
  /\ grown' = [f \in DOMAIN Zero |-> grown[f] + pending.grown[f]]
  /\ upset' = (upset \/ pending.upset)
  /\ UNCHANGED <<metric, prev, seeded, age>>

(* Bug: a counter that has fallen does not make a new baseline.            *)
FallIgnored ==
  /\ seeded /\ age > 0 /\ \E f \in DOMAIN Zero : Delta[f] < 0
  /\ verdict' = "reseed"
  /\ UNCHANGED <<metric, prev, seeded, age, grown, upset>>

(* Bug: the signs of the differences are not looked at.                    *)
FallReported ==
  /\ seeded /\ age > 0 /\ \E f \in DOMAIN Zero : Delta[f] < 0
  /\ verdict' = "report"
  /\ metric' = [metric EXCEPT !.queriesPerMin = PerMin(Delta.calls), !.slowQueries = Delta.slow]
  /\ Rebase /\ UNCHANGED <<grown, upset>>

(* A counter has fallen: a new baseline and zeros for this tick.           *)
Reseed ==
  /\ seeded /\ age > 0 /\ \E f \in DOMAIN Zero : Delta[f] < 0
  /\ verdict' = "reseed"
  /\ Rebase /\ UNCHANGED <<metric, grown, upset>>

Report ==
  /\ seeded /\ age > 0 /\ \A f \in DOMAIN Zero : Delta[f] >= 0
  /\ verdict' = "report"
  /\ metric' = [metric EXCEPT
       !.queriesPerMin = PerMin(Delta.calls), !.readsPerMin = PerMin(Delta.reads),
       !.writesPerMin = PerMin(Delta.writes), !.slowQueries = Delta.slow,
       !.avg = IF Delta.calls > 0 THEN [ms |-> Delta.totalMs, calls |-> Delta.calls] ELSE @,
       !.maxMs = reading.maxMs, !.p95 = reading.p95]
  /\ Rebase /\ UNCHANGED <<grown, upset>>

ApplyDelta ==
  /\ stage = "apply" /\ stage' = "post"
  /\ Seed \/ TooEarly \/ Reseed \/ Report
  /\ UNCHANGED <<driver, table, boundVars, reading, pending>>

(* The loop posts the metric; whether the POST fails, it is not kept.      *)
Post ==
  /\ stage = "post" /\ stage' = "idle"
  /\ metric' = NoMetric /\ reading' = NoReading /\ verdict' = "none"
  /\ UNCHANGED <<driver, serverVars, boundVars, prev, seeded, age, pending>>

CollectStep ==
  \/ BeginCollect \/ StatsUnavailable \/ ReadPostgresStats \/ ReadMySQLStatus
  \/ ReadP95 \/ ApplyDelta \/ Post

(* All ticks over.                                                         *)
DeltaDone == stage = "idle" /\ ticks = MaxTicks /\ UNCHANGED deltaVars

DeltaNext ==
  \/ \E s \in Statements, d \in Durations : Execute(s, d)
  \/ Restart
  \/ \E s \in Statements : Forget(s)
  \/ Pass
  \/ CollectStep
  \/ DeltaDone

DeltaSpec == DeltaInit /\ [][DeltaNext]_deltaVars

-----------------------------------------------------------------------------
Rows   == [calls : Nat, totalMs : Nat, maxMs : Nat, slow : Nat]
Counts == [DOMAIN Zero -> Nat]

DeltaTypeOK ==
  /\ driver \in {"pgx", "mysql"}
  /\ table \in [Statements -> Rows]
  /\ stage \in {"idle", "stats", "p95", "apply", "post"}
  /\ reading \in [counters : Counts, maxMs : Nat, p95 : Rows]
  /\ prev \in Counts /\ seeded \in BOOLEAN /\ age \in 0 .. MaxPause
  /\ metric \in [queriesPerMin : Nat, readsPerMin : Nat, writesPerMin : Nat,
                 slowQueries : Nat, avg : [ms : Nat, calls : Nat], maxMs : Nat,
                 p95 : Rows, connections : {"none", "server", "pool"}, size : BOOLEAN]
  /\ verdict \in {"none", "unread", "seed", "early", "reseed", "report"}
  /\ ticks \in 0 .. MaxTicks /\ runs \in 0 .. MaxRuns /\ upsets \in 0 .. MaxUpsets
  /\ grown \in Counts /\ upset \in BOOLEAN
  /\ pending \in [grown : Counts, upset : BOOLEAN]

Applied == stage = "apply" /\ stage' = "post"

(* With the time since the baseline, the rate stands for at most count.    *)
AtMost(rate, count) == IF age = 0 THEN rate = 0 ELSE rate * age <= count * PerMinute

(***************************************************************************)
(* The rates of queries, reads and writes are never inflated: they stand   *)
(* for no more than was executed since the reading of the baseline,        *)
(* through restarts, evictions, failed ticks and whatever the server did   *)
(* before the SDK came.  Nothing is said of the slow queries: Postgres     *)
(* counts all calls of a statement as slow once its mean is.               *)
(***************************************************************************)
NeverInflated ==
  [][Applied =>
       /\ AtMost(metric'.queriesPerMin, pending.grown.calls)
       /\ AtMost(metric'.readsPerMin, pending.grown.reads)
       /\ AtMost(metric'.writesPerMin, pending.grown.writes)]_deltaVars

(* The server has lost nothing since the baseline was read.                *)
Undisturbed == seeded /\ age > 0 /\ ~pending.upset

(***************************************************************************)
(* While the server loses nothing, a tick reports just what was executed   *)
(* since the last successful reading: a tick that could not read is made   *)
(* up for by the next, one restart costs one tick, and nothing is reported *)
(* twice.  The exception is Postgres' slow count, which may fall although  *)
(* nothing was lost.                                                       *)
(***************************************************************************)
ExactWhenUndisturbed ==
  [][Applied /\ Undisturbed /\ reading.counters.slow >= prev.slow =>
       /\ verdict' = "report"
       /\ metric'.queriesPerMin = PerMin(pending.grown.calls)
       /\ metric'.readsPerMin = PerMin(pending.grown.reads)
       /\ metric'.writesPerMin = PerMin(pending.grown.writes)
       /\ driver = "mysql" => metric'.slowQueries = pending.grown.slow
       /\ pending.grown.calls > 0 =>
            metric'.avg = [ms |-> pending.grown.totalMs, calls |-> pending.grown.calls]
    ]_deltaVars

(***************************************************************************)
(* "the second reading onwards is the real per-minute rate" (README): from *)
(* then on, a tick that could read reports, unless the server has lost     *)
(* statistics.                                                             *)
(***************************************************************************)
SecondReadingIsReal == [][Applied /\ Undisturbed => verdict' = "report"]_deltaVars
=============================================================================
