# Verification of the Yammi APM Go SDK

TLA+ specifications of `yammiApmSdkGo`, checked with TLC on small instances, and
theorems about them proved with TLAPS for every value of the constants. Paths and line
numbers refer to the repository.

## 1. The system

The SDK runs inside a host application and ships three kinds of data to an ingest
endpoint: request traces, metric snapshots, and (to a log only) custom Prometheus
metrics. Its one hard rule is that it must never slow down the host; so everything is
bounded, and what does not fit is dropped and counted.

| component | state | operations | interacts with |
|---|---|---|---|
| Trace buffer, `buffer.go` | two bounded channels, the collector's batch, `stopCh`, three counters | `Push`, `Stop`, `Stats`; goroutines `collector`, `sender` × n | host goroutines push; senders call `flushFn` |
| HTTP transport, `client.go` | token, three counters, HTTP connection pool | `Send*`, `Stats` | called by the senders, the metrics loop and host goroutines; talks to the backend |
| APM runtime, `apm.go` | lists of collectors, `stopCh`, `doneCh`, `sync.Once`, close functions | `New`, `Attach*`, `PushEvent`, `Shutdown`; goroutine `metricsLoop` | owns buffer and transport, calls all collectors |
| Auto-discovery, `autodiscovery.go` | own `*sql.DB` and Redis client; the previous values of cumulative SQL counters | `autoDiscover`, probes, `Collect`, `applyDelta` | attached to the runtime by `New` |
| System collector, `system_collector.go` | previous CPU reading | `Collect` | `/proc`, cgroup files, the Prometheus collector, probes |
| Prometheus collector, `prom_collector.go` | the last scrape and its time | `FillHostMetrics`, `CollectCustom` | a Prometheus server, a `/metrics` page |
| Manual SQL collector, `collector/db_sql.go` | counters and samples under a mutex | `Observe`, `TrackRead`, `TrackWrite`, `Collect` | host goroutines and the metrics loop |
| Manual Redis and runtime collectors, `collector/` | none | `Collect` | the metrics loop |
| HTTP middleware, `middleware/http.go` | a pool of response recorders | one handler per request | pushes an event per request |
| gRPC interceptors, `middleware/grpc.go` | none | unary, stream | push an event per call |
| Configuration, payload types, examples | none | | |

What is hard here is concurrency and shutdown: a `select` with several ready cases, a
shared gauge read after the decision it is for, two channels closed and joined in order,
a retry racing with a late answer, a list appended to while another goroutine ranges over
it, cumulative counters of a server that may restart. `hazards` in `PROJECT.json` lists
each with its line and the properties that cover it.

What makes each component correct:

* buffer: events keep their order and are handed over at most once; every loss before
  `Stop` is counted; `Stop` returns, and then nothing is left behind that was pushed
  before it;
* transport: each send ends in exactly one counter and always ends;
* runtime: `Shutdown` returns only when everything has ended, whoever called it; the
  final collection is complete and finds its connections open;
* host metrics: one source for the host group in each snapshot, and always one asked; the
  container's CPU share is of one interval;
* SQL deltas: a rate is the growth since the previous reading, never more, also across
  restarts and ticks that could not read (the slow queries of Postgres excepted);
* manual SQL collector: no observation is lost or counted twice, and a metric describes
  one interval;
* middleware: an event carries its own request's status and body, and the client gets the
  response it would have got without the middleware.

## 2. Modules

    EventPipeline             what the buffer promises (abstract)
      ^ implemented by
    Buffer                    buffer.go
      |-- BufferProofs        theorems, the refinement among them
      |-- Delivery            buffer.go + client.go, instantiates Client
      |-- Apm                 apm.go + buffer.go
            |-- CompositionProofs    of Apm and of Delivery, instantiates ClientProofs
    Client                    client.go
      |-- ClientProofs
    SqlCollector              collector/db_sql.go
      |-- SqlCollectorProofs
    SqlDelta                  autodiscovery.go, the SQL collector
      |-- SqlDeltaProofs
    Sums                      lemmas about sums, for the proofs of both SQL collectors
    HostMetrics               system_collector.go + prom_collector.go
      |-- HostMetricsProofs
    Middleware                middleware/http.go + middleware/grpc.go
      |-- MiddlewareProofs

`SqlCollector`, `SqlDelta`, `HostMetrics` and `Middleware` share no state with the rest:
a collector hands its metric to the loop,
which posts it, and the middleware ends in `PushEvent`.

`MC<module>` and its `.cfg` files are the TLC instances. A definition headed `Bug:` is a
plausible faulty variant of the one after it; nothing uses it, and each property is known
to fail when the variant takes the original's place (`mutants` in `PROJECT.json`).

**Buffer.** Events are the numbers of their `Push` calls. An action is one communication
of a goroutine (channel operation, `select`, `len` of a shared channel, call or return of
`flushFn`) with the local work that follows.

| code | model |
|---|---|
| `b.events`, `b.batches`, `stopCh` | `events`, `batches` with `batchesClosed`, `stopped` |
| the collector's position | `collector`; the call of `dispatch()` it is in: `phase` |
| `batch`, the copy `out` | `batch`, `out` |
| main `select`, 204–214 | `CollectEvent`, `Tick`, `SeeStop` |
| `select` of `dispatch`, 182–187 | `DispatchSend`, `DispatchStop`, `DispatchDefault` |
| the 90 % gauge, 192 | `GaugeWait`, `GaugeDrop` (a step of its own: the channels may have moved since the `select`) |
| inner `select`, 193–196 | `WaitSend`, `WaitStop` |
| drain loop and end, 219–232 | `DrainEvent`, `DrainEmpty`, `CloseBatches` |
| `sender`, 241–247 | `StartFlush`, `EndFlush`, `ExitSender` |
| `Stop`, 264–273 | `BeginStop`, `JoinCollector`, `JoinSenders` |

A `time.Ticker` drops ticks nobody waits for, so `Tick` is simply possible whenever the
main `select` is reached. `flushed` and `stopMark` are history variables.

**EventPipeline** is the same service without channels and goroutines: events are
accepted or refused, then delivered, shed (counted) or, once a stop has begun, forfeited
(not counted), a batch at a time. `Buffer!ImplementsPipeline` is the refinement, with
`pending <- Resident`, `delivered <- flushed`, `stage <- Stage`.

**Client.** `Call` is the head of `send()` with the token test and `json.Marshal`;
`Receive` and `TransportError` are the two outcomes of `do()`; `AttemptFailed` is the end
of the loop body. Status codes are the three classes the code tells apart. The network
and the backend are external: a request may be processed late, after the caller has given
up, or never; an answer may be lost. A 2xx answer means stored, a 4xx one not stored,
another status either.

**Delivery** is Buffer with Client as its `flushFn` (`apm.New`, line 100): a sender between
`StartFlush` and `EndFlush` is in `send()`. The same client belongs to the metrics loop
(`apm.go:215`, `:220`, `:226`) and, through `APM.Client()`, to host goroutines; they are
`OtherCallers`, each of which posts any number of bodies that hold no event of the buffer
(`BeginPost`). These posts go into the same three counters, from the first snapshot on
(`apm.go:189`), so their sum is more than `sentBatches`. What holds is said of
`BatchesJudged`, the verdicts with those on metrics posts taken off.

**Apm** adds the runtime to Buffer. `loop`, `calling`, `position`, `end` are the program
counter of `metricsLoop` and of the two `range` statements of `collectAndShip`; a `range`
fixes its length when it starts. `Attach*` is two steps, because the compiled `append`
stores the new length before the element and holds no lock: `Hole` is the entry between
them. `once`, `caller` are the `sync.Once` and the goroutines in `Shutdown`. The POSTs of
the metrics loop are part of the step that makes them, since `Client!SendReturns`.

**SqlCollector.** A plain `c.reads++` under the mutex is a load and a store, and so is the
flush (144, then 154); an atomic add of `TrackRead` can fall in between. What only the
holder of the mutex touches changes in one step.

| code | model |
|---|---|
| `c.mu`, `c.reads` and `c.writes`, the other counters | `mu`, `counter`, `queries`, `slow`, `sumMs`, `maxMs` |
| `c.samples`, of which `percentile` sorts a copy | `samples`, a bag |
| `Observe`, 77–99 | `BeginObserve` (with the load of the counter), `EndObserve` (its store) |
| `TrackRead`, `TrackWrite` | `Track` |
| `Collect` and `flushCounters` | `BeginCollect`, `FlushRead`, `FlushReset`, `SizeQuery` |
| the POST of `apm.go:218` | `Ship`, which may fail |

**SqlDelta.** The server's statistics (`table`) are the environment: statements run at any
time (`Execute`), also between two queries of one `Collect`, the server restarts
(`Restart`), `pg_stat_statements` evicts (`Forget`). `PostgresCounters`, `MySQLCounters`
and `TopTwentieth` say what the queries of the code compute from it. A call of `Collect` is
`BeginCollect`, `ReadPostgresStats` with `ReadP95`, or `ReadMySQLStatus`, or
`StatsUnavailable`, then `ApplyDelta` with its four outcomes `Seed`, `TooEarly`, `Reseed`
and `Report`. `grown` and `upset` are history: what was executed since the reading that
became the baseline, and whether the server has lost statistics since.

**HostMetrics.** A tick is a sequence of writes into one snapshot; the model keeps which
sources have written each field. `QueryServer` and `QueryLocal` are the two halves of
`FillHostMetrics`, `Decide` and `FillFromProc` the fallback, `FillContainer` the step of
the cgroup with the probes and features after it, `CollectCustom` the second user of the
scrape. `CacheExpires` is the passing of 500 ms.

The container's CPU share is a number, since it is the one value that is computed from two
ticks: `CpuStatRead` has the two guards of `system_collector.go:191`, the percentage and
its cut-off, `CpuStatUnread` a tick whose file is missing or shows no time. `usage` and
`clock` are outside: they only grow, as `usage_usec` and Go's monotonic clock do, and the
model reads both at the same instant, although the code takes the time just after the
file. `since` and `span` are history, what was used and has passed between readings.
Percentages are whole, rounded down. Which numbers a server sends (a NaN makes
`json.Marshal` refuse the snapshot) is not modelled: `Post` is the end of a snapshot,
sent or not.

**Middleware.** `recorder` is the state of each recorder object, `pool` those in the
`sync.Pool`, which may lose some (`DropPooled`) or not be asked for one it has (`Enter`).
`response` is what `net/http` sends for a request, `plain` what the same calls of the handler
would have sent without the recorder. A body is the set of requests whose bytes are in it
and its length. An RPC keeps no state between call and event, so it is one step, with what
the handler has returned (`reply`): nothing wrong, a status of any code, named by
`httpStatusFromCode` or not, or an error that is no status; with an empty message or
another. Only Write, WriteHeader and Flush are calls of a handler here.

## 3. Runs

| run | instance | shows |
|---|---|---|
| `buffer` | 1 sender, channel 2, batch 2, 5 pushes, fair | `TypeOK`, `PipelineOrder`, `EveryLossCounted`, `StopDrains`, `DrainIsComplete`, `DrainNeverBlocks`, the refinement of `EventPipeline`, `EventsLeave`, `StopReturns` |
| `buffer_stop_loses_batch` | 1 sender, 2 pushes | finding 1: `StopKeepsEarlierEvents` fails |
| `client` | 2 callers, 3 sends, fair | `ClientTypeOK`, `Ledger`, `NoSilentLoss`, `SendReturns` |
| `delivery` | 2 senders, the metrics loop, 2 pushes or posts, fair | `NoUncountedLoss`, `SentAreJudged`, `OneBatchPerEvent`, `StopWaitsForUploads`, `StopSurvivesOutage` |
| `apm` | 1 sender, 1 push, one late collector, 2 callers of `Shutdown`, fair | `ApmTypeOK`, `ShutdownIsComplete`, `ConnectionsOutliveLoop`, `FinalCollection`, `ShutdownReturns`, `AttachedIsAsked` |
| `apm_attach` | the same, 1 caller | finding 2: `NilEntriesSkipped` fails |
| `sql_collector` | 3 durations, 5 calls, 2 ticks, cap 3 | `SqlTypeOK`, `EveryObservationOnce`, `OnlyRacesLose`, `MetricIsInterval` |
| `sql_collector_track` | 2 calls, 1 tick | finding 3: `TracksAreCounted` fails |
| `sql_delta` | 2 statements, 2 executions after the past, 3 ticks, 1 upset, both drivers | `DeltaTypeOK`, `NeverInflated`, `ExactWhenUndisturbed` |
| `sql_delta_zero` | the same | finding 4: `SecondReadingIsReal` fails |
| `host_metrics` | 3 ticks, every configuration | `HostTypeOK`, `SourcesDoNotMix`, `FallsBack`, `ShareIsOfInterval`, `OneScrapePerTick` |
| `middleware` | 2 requests, 2 recorders, 1 RPC with any code, bodies up to 2, limit 1 | `MiddlewareTypeOK`, `ExclusiveUse`, `EventTellsOwnRequest`, `Transparent` |

**Bounds.** `MaxPush` bounds the calls of `Push`, `MaxSends` those of `Send*`. Five pushes
with a batch of two and two egress slots fill the sender, both slots, `dispatch()` and the
ingress channel, so every stage overflows, before and after `Stop`. Capacity 2 makes the
90 % gauge `2*9/10 = 1`, so both its outcomes occur. Three sends of two callers suffice
for a late answer to the first attempt to meet the second attempt and another caller's
send. In Delivery `MaxPush` is for pushes and metrics posts together. With two of them it
never sheds a batch (that case is in `buffer`); it has partial batches, two concurrent
uploads, or an upload beside a metrics post of the loop, and `Stop` between them. Two
uploads and a post at once take longer than such a run should, and are left to the
theorems: all five properties but `StopSurvivesOutage` are proved. In `apm` one event is
enough to be anywhere in the buffer while the loop, the late collector and the two callers
interleave. Where a property might depend on a size (`PipelineOrder`, `StopDrains`, ...)
it is also proved for all of them.

`sql_collector`: five calls (`MaxCalls`) exceed the sample cap of three within one interval
and spread over the two flushes (`MaxTicks`); only two goroutines can be between a load and
a store, so more add nothing. `sql_delta`: each statement may have run before the SDK came;
three ticks (`MaxTicks`) are the baseline, a reading that fails or is disturbed
(`MaxUpsets`) and the one after it; `MaxPause` ends the time between two ticks. Rates are
rounded down as `uint32` does; its width is never reached. `host_metrics`: three ticks
(`MaxTicks`), so that a CPU share can reach over a tick that could not read cpu.stat; up to
two microseconds are used (`MaxUsed`) while one passes or none (`MaxElapsed`), which with a
cut-off of 150 % has shares above and below it and either time standing still. The server
has data for four queries (`Series`) and the page shows four gauges (`Shown`), those the
decision and its exceptions depend on; each tick answers any subset. `middleware`: a limit of one byte and bodies up to two
(`MaxBody`) truncate; of the two recorders one may be dropped, shared or new for the second
request; codes 103, 200 and 404 are the classes the code tells apart.

**Fairness.** Goroutines that can run do run: weak fairness for each of their next
steps. A `select` draws among its ready cases, so a case that is ready infinitely often
is taken: strong fairness for the cases of the two main selects. `flushFn` and `do()`
return because request and HTTP client have a timeout; nothing is assumed of the network
or the backend. In `apm` a collector's `Collect` is assumed to return; the SQL collectors
of auto-discovery have timeouts, but `collector/db_sql.go:127` runs its size query
without one, and a query that hangs there stops the loop and `Shutdown` with it. Nobody
need push or stop. `StopReturns` rests on the pushes being finitely many: the drain loop
ends when it finds the channel empty, and has no other limit.

**Findings.**
1. `Stop` can lose batches (`buffer.go:185`). Once `stopCh` is closed, the `select` of
   `dispatch()` has two ready cases even when a slot is free, and Go draws one; each batch
   of the drain is thus as likely dropped as sent, and nothing counts it. `apm.go:43` says
   that `Shutdown` is called "so the last batch is not lost".
2. `AttachDBCollector` and `AttachRedisCollector` race with the metrics loop `New` has
   started (`apm.go:124`, `:132`, `:218`); the loop may call a nil entry and panic, where
   `apm.go:50` says that it skips nil entries.
3. `TrackRead` and `TrackWrite` (`collector/db_sql.go:105`) add atomically but without the
   mutex under which `Observe` and the flush load and store; such an add can be
   overwritten. `db_sql.go:102` calls it "sugar for Observe(0, false)".
4. Postgres' slow count (`autodiscovery.go:435`) falls when a statement gets faster;
   `applyDelta` (`:598`) takes that for a restart and reports a tick of zeros.
   `autodiscovery.go:251` says that "every subsequent call produces a real-per-minute
   number".

**Other divergences** met while modelling, where no run refutes anything:
* `send()` also retries after 5xx and 3xx answers (`client.go:199`), where `client.go:28`
  and `:169` speak of transport errors.
* The recorder takes an informational status for the final one (`http.go:147`): the
  handler's later status is neither recorded nor passed on. `EventTellsOwnRequest` and
  `Transparent` except such responses.
* "Never read /proc and Prometheus for the same field" (`system_collector.go:48`) has two
  exceptions, named in `SourcesDoNotMix`: the container's CPU share overwrites the host's
  in one field (`:200`), and load5 and load15 of a page without load1 and memory are
  written before `/proc` is asked. A group that Prometheus fills in part stays in part
  zero; `CPUCores` is never set by it.
* "At most one scrape per tick" (`prom_collector.go:214`) holds for ticks shorter than
  500 ms after the scrape; `OneScrapePerTick` states what remains of it. That a quick
  second tick reports values up to 500 ms old is not its subject.
* The README's "no x2" rule (`README.md:97-107`) has the same exceptions.
* The slow count of Postgres is of all calls of a statement whose mean is slow now, so its
  rate can exceed what was executed since the last reading; `NeverInflated` speaks of
  queries, reads and writes only.
* The recorder hides `http.Hijacker` and has no `Unwrap`, so a handler that takes over its
  connection fails behind the middleware. `Transparent` speaks of Write, WriteHeader and
  Flush only.
* A failed RPC whose status has no message has an error status and no error text
  (`grpc.go:50`).
* A bare `context.Canceled` or `DeadlineExceeded` from a gRPC handler is recorded as 500
  (`status.FromError`), while grpc-go sends the matching code.
* An undetected restart of the database between two ticks makes rates too low, and after
  it, as after an eviction, the average can exceed the maximum.

## 4. Proofs

The theorems hold for all values of the constants that the assumptions of the modules
allow:

| assumption | says |
|---|---|
| `BufferAssumption` | a finite non-empty pool of senders, positive channel and batch sizes, any `MaxPush` |
| `ClientAssumption` | finitely many callers, any `MaxSends` |
| `DeliveryAssumption` | finitely many other callers of the client, none of them a sender |
| `ApmAssumption` | the collectors of host and auto-discovery are different; any set of callers |
| `HostAssumption` | the snapshot's other features are among the three of the code; a server and a page have any of the queries and gauges; any cut-off, any `MaxTicks`, `MaxUsed`, `MaxElapsed` |
| `SqlAssumption` | finitely many durations (an `int64` has no more), all natural numbers; any threshold, sample cap, `MaxCalls`, `MaxTicks` |
| `DeltaAssumption` | finitely many statements, each a read, a write or neither; durations are natural numbers; any length of a minute but 0, any threshold, any bounds |
| `MiddlewareAssumption` | finitely many requests, none of them an RPC; status codes in 100 .. 999, the range `net/http` accepts; a positive limit on the kept bytes (2048 in the code); any bound on the body |

As the bounds (`MaxPush`, ...) are constants too, a theorem covers runs of any length.
Every inductive invariant below was given to TLC on the module's instance before it was
proved.

### Buffer

* `TypeCorrect`: `Spec => []TypeOK`. Inductive with `DispatchHolds`: while `dispatch()`
  runs it owns a non-empty copy and the collector's batch is empty, which is what keeps
  batches within `BatchSize` and empty ones off the channel.
* `StopDrainsThm`, `DrainIsCompleteThm`, `DrainNeverBlocksThm` from `StopInv`:
  `LoopInv` (the collector leaves its main loop only after `stopCh`, and the drain ends
  with an empty batch), `PoolInv` (the channel is closed exactly when the collector has
  ended; a sender ends only when it is closed and empty; a sender holds a batch exactly
  while it flushes), `MarkInv` (after the drain all queued events are newer than `Stop`).
* `PipelineOrderThm` from `OrderInv`: `PipelineOrder` is inductive once every event
  anywhere is known to have been pushed (`PushedFirst`), so that a new one is the largest.
* `EveryLossCountedThm`: inductive with `OrderInv`, which makes the batch that
  `dispatch()` sheds a set of 1 to `BatchSize` events that are nowhere else; so `Missing`
  grows by as much as the counter can stand for.
* `BufferImplementsPipeline`: `Spec => ImplementsPipeline`, step by step, using
  `OrderInv` to show that a delivered or dropped batch is a set of that many pending
  events.

### Client

* `ClientTypeCorrect` from `ClientShape`: the types, `SendsApart` (no two callers are in
  the same send) and `WireIsHonest` (what is on the wire belongs to a send that was made,
  and a 2xx answer to a stored request).
* `LedgerThm` and `NoSilentLossThm` from `LedgerInv`. `SendsApart` makes a return finish
  exactly one send, so the ledger grows by one on both sides; `WireIsHonest` makes a
  success finish a stored one. A late answer to the first attempt, or a request that is
  processed after its caller has given up, only ever makes a send stored.

### Delivery

* `DeliveryImplementsBuffer` and `DeliveryImplementsClient`: each step is a step of the
  one component or leaves its variables alone, and a step of the other or leaves *its*
  variables alone. So all theorems about `Buffer` hold with the real `flushFn`, and all
  about `Client` with the senders, the metrics loop and the host as its callers; their invariants are the first
  parts of `DeliveryInv`.
* `MeetInv` is what holds between the two: a sender that waits for an answer is in
  `flushFn` with the batch it took (`UploadsMatch`), the bodies of all sends have just the
  events handed over, as a metrics post has none (`BodiesTaken`), and no two have an event in common (`BodiesApart`,
  from the order of the pipeline). `OneBatchPerEventThm` follows.
* `AccountInv` adds the accounts: verdicts on batches, that is `BatchesJudged`, are
  `sentBatches` and the senders that have a verdict they have yet to count
  (`JudgedExactly`; a metrics post that ends adds one to a counter and one to
  `FinishedPosts`), and the events of lost sends are
  within `BatchSize` times errors and rejects (`LostIsCounted`). `SentAreJudgedThm` and
  `StopWaitsForUploadsThm` follow from the first, as there are no senders between verdict
  and count once all have ended; `NoUncountedLossThm` from the second with
  `EveryLossCounted`: what has left the buffer is missing there or was in a body.

### Apm

* `ApmImplementsBuffer`: all theorems about the buffer hold inside the runtime.
* `ShutdownIsCompleteThm` from `ShutdownInv`: `OnceInv` (at most one caller is in the
  function of the `sync.Once`, and others return only after it) and `ProgressInv` (what
  that caller has waited for stays true), with `StopInv` and `StopDrains` of the buffer.
* `ConnectionsOutliveLoopThm` is inductive with `ShutdownInv` (only a caller at "close"
  closes anything, and it has seen the loop end) and `ListInv`: half-done appends are at
  the end of a list, and an append adds a collector of the host only.
* `FinalCollectionThm` from `FinalInv`: `due` is fixed while `final` is false, lies within
  the range the final collection takes (`InRange`), and has been asked when the range ends
  (`HasAsked`). `RangeInv` says what a range has asked so far; it survives a concurrent
  append because `AttachKeeps`: no entry that is written ever changes.
* `ApmTypeCorrect` from these invariants together.

### HostMetrics

All from `HostInv`, whose core is `StageInv`: what the snapshot may hold at each stage of
a tick. Before `Decide` its writers are those of one half of `FillHostMetrics`, the
server's only if it has filled something; when `/proc` is asked, at most the load5 and
load15 that a page without load1 and memory leaves behind (`Leftover`); from
the container's step on it is one of three complete pictures (`Complete`).

* `SourcesDoNotMixThm`, `FallsBackThm` from `Complete`; the policy "sdk" adds `PolicyInv`.
* `ShareIsOfIntervalThm` from `ShareInv`: over all ticks, read or not, `prevCPUUsec` and
  what was used since are the usage, `prevCPUTime` and what has passed since the clock, and
  a previous time is not zero exactly if there was a reading (`ReadingInv`). So the two
  differences of `CpuStatRead` are the interval's, and `CutOff` is the arithmetic of the
  rounded and cut-off quotient.
* `OneScrapePerTickThm` from `FetchInv`: a tick that has used a scrape for the host group
  still has it in the cache unless it has expired.
* `HostTypeCorrect`.

### Sums

The models of the SQL collectors add up columns and bags with the sums of the community
modules, which are recursive functions on the subsets of a finite set. The library's
induction theorems cannot be instantiated by the prover, so each fact in `Sums` is proved
by a least counterexample: the strict subset order is well founded on finite sets
(`FS_StrictSubsetOrderingWellFounded`, `WFMin`), so if any subset violates the fact, one
does none of whose proper subsets does; and one unfolding of the sum refutes that. In this
way it is shown that the library's function exists and satisfies its equation
(`SummerEquation`), that any element may be taken out first (`SumRemove`), that a sum
changes by as much as the one element that changes (`SumUpdate`), and that elements which
count nothing do not matter (`SumOfSupport`); likewise that a finite set of numbers has a
greatest and a least element.

### SqlCollector

* `EveryObservationOnceThm` and `OnlyRacesLoseThm` from `CountInv`: the two properties,
  the types of what is counted, and `FlushWindow` (the mutex is the flush's exactly
  between its reading and its zeroing, and there is no metric before it, so that a new
  snapshot replaces none). The mutex is needed for the first: an `Observe` between the two
  halves of the flush would be zeroed unseen. For the second, `Held` is what a counter
  stands for once the store under way has been made, and each atomic add changes either
  that or `raced`.
* `PercentileCorrect`: the element at the index of `percentile` exists, as the least
  duration with more than index elements up to it; and the truncation leaves at most a
  twentieth of the sample, rounded up, above it.
* `MetricIsIntervalThm` and `SqlTypeCorrect` from `IntervalInv`: at every moment the
  counters are the statistics of `interval` (`CountersAreInterval`: size, slow part, sum,
  and a maximum that was observed and bounds all), and the samples are part of it, all of
  it while it fits (`SamplesAreOfInterval`). `FlushWindow` keeps `interval` as it is
  between the snapshot and the reset. The p95 is at most the maximum because a sample is
  an observation.

### SqlDelta

All from `DeltaInv`:

* `DeltaTypeCorrect`: each counter that is read is a sum of natural numbers, and a rate is
  made only of differences that `applyDelta` has found not to be negative.
* `GrowthInv`: between two readings the server's cumulative counters grow by what was
  executed, or by less when it has lost something; the same holds of a reading against the
  baseline (`Grew`). Which reading `grown` and `pending` count from depends on the stage: a
  tick that has read and not yet applied compares the baseline with its reading, and its
  reading with the server, which runs on. Postgres' slow count is not among the
  `Cumulative` fields: it may fall with nothing lost.
* `NeverInflatedThm`: `Report` divides a difference by the time since the baseline, and
  the other outcomes leave the rates at zero (`RatesInv`).
* `ExactWhenUndisturbedThm`: without an upset the difference is the growth, so none of the
  differences is negative and `Report` is the only outcome.

### Middleware

* `ExclusiveUseThm` from `UseInv`: types, `ExclusiveUse` itself and `Holding`, which says
  that a request holds a recorder exactly from its first step in the middleware to its
  last. Without `Holding` a request could put back a recorder it no longer has.
* `TransparentThm` from `MirrorInv` on top of `UseInv`: while a request is served and has
  sent no 1xx status, its response is the one it would have without the recorder (what
  `Transparent` says), and the recorder knows whether the header is out. The second half
  is what a dirty recorder would break, and needs `ExclusiveUse`: no other request writes
  to the recorder in between.
* `EventTellsOwnRequestThm` from `StoryInv` on top of both: until the event is pushed, the
  recorder of a request tells its `Story`, the final status and the bytes of its own body
  just when there are some to be kept. For that the limit must be positive, the
  first bytes of an error must find an empty buffer (`Reset`), and a body must imply a
  final status, as the status must not change under bytes already kept. For an RPC it
  takes `StatusOfCodes`: every code but OK, unlisted ones too, has an error status.
* `MiddlewareTypeCorrect` from the three; the response has as much body as the bare one.

### Only model-checked

* All liveness: `EventsLeave`, `StopReturns`, `SendReturns`, `StopSurvivesOutage`,
  `ShutdownReturns`, `AttachedIsAsked`. Fairness and `ENABLED` are beyond the prover.

Every invariant and every action property of the passing runs is a theorem. The properties
of the four runs that expect a violation are false.

## 5. Not modelled, and why

Event contents, URL building, JSON, header and error-text parsing, the exposition format,
`/proc` and cgroup parsing: pure data conversion without state. Batches are values, so that
the slice `dispatch()` copies before it reuses it (`buffer.go:180`) cannot be shared by
mistake in the model, and `PipelineOrder` and `OneBatchPerEvent` say nothing of it. `config.go` reads the
environment once. The Redis and runtime collectors keep no state. A disabled APM has no
goroutines; its `Client()` is nil (`apm.go:146`), so calling a `Send` method on it panics
at once. A handler that uses its `ResponseWriter` after it has returned would write into
another request's recorder (`http.go:88`); `net/http` forbids it, and the model's handlers
do not. A manual SQL collector with a nil database never flushes.

## 6. Plan

Done, in this order: Buffer with its proofs, EventPipeline, Client, Delivery, Apm with
its proofs, SqlCollector, SqlDelta, HostMetrics, Middleware with its first proofs; the
proofs of Client, Delivery, HostMetrics and the rest of Buffer's and Middleware's; then
Sums, and with it the proofs of SqlDelta and the rest of SqlCollector's. All invariants
and action properties the passing runs check are theorems now. What is left:

1. One composition of Apm and Delivery, in which the loop of Apm is the caller that shares
   the transport with the senders, instead of one that may post at any time.
2. The disabled APM, whose `Client()` is nil (`apm.go:146`), as a module of its own.
