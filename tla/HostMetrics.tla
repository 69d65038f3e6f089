---------------------------- MODULE HostMetrics ----------------------------
(***************************************************************************)
(* The host metrics of one tick (system_collector.go, prom_collector.go):  *)
(* PromQL, the scrape of a local page, /proc and the container's cgroup    *)
(* write into the same snapshot one after the other, and the local scrape  *)
(* is cached for the custom metrics at the end of the tick.                *)
(*                                                                         *)
(* The snapshot is what matters of a tick: which sources have written each *)
(* field, and the container's CPU share, the only number that is computed  *)
(* from two ticks.  What the sources have to offer is outside and changes  *)
(* from tick to tick; so are the CPU time the kernel has counted for the   *)
(* container and the clock, both in microseconds.  "Bug:" definitions are  *)
(* faulty variants that the runs must reject.                              *)
(***************************************************************************)
EXTENDS Integers, FiniteSets

CONSTANTS
  Extras,     \* features that need no source: the health probes installed
              \*   and, unless cfg.Monitor.Runtime says no, "go-runtime"
  Series,     \* the queries the Prometheus server has data for
  Shown,      \* the gauges the local page can show
  MaxShare,   \* the percentage a CPU share is cut off at, 10000
  MaxTicks,   \* bound: ticks of the metrics loop
  MaxUsed,    \* bound: CPU time used from one tick to the next
  MaxElapsed  \* bound: time from one tick to the next

Memory == {"memUsed", "memTotal"}
Disk   == {"diskUsed", "diskTotal"}
Loads  == {"load1", "load5", "load15"}
Queries == {"cpuPct"} \cup Memory \cup Disk \cup Loads
Fields == Queries \cup {"cores"}
Sources == {"server", "local", "proc", "cgroup"}

(* What the local page may show, and what each field is computed from.     *)
Gauges == Loads \cup {"memTotal", "memAvailable"}
Needs(f) == IF f = "memUsed" THEN {"memTotal", "memAvailable"} ELSE {f}
LocalFields == Loads \cup Memory

ASSUME HostAssumption ==
  /\ Series \subseteq Queries /\ Shown \subseteq Gauges
  /\ Extras \subseteq {"db", "redis", "go-runtime"}
  /\ MaxShare \in Nat /\ MaxTicks \in Nat /\ MaxUsed \in Nat /\ MaxElapsed \in Nat

VARIABLES
  config,       \* cfg.Prometheus
  stage,        \* the next step of the tick, "idle" between ticks
  filled,       \* filled in FillHostMetrics
  writers,      \* the sources that have written each field of m
  share,        \* what the cgroup has written into cpuPct, 0 if nothing
  features,     \* m.Features
  prevCPUUsec, prevCPUTime,  \* the previous reading of cpu.stat; 0 is no time yet
  cache,        \* the last scrape, while it is not older than 500 ms
  usage, clock, \* outside: usage_usec and the time, at the last tick's reading
  ticks,        \* history: ticks so far
  fetched,      \* history: fetches of the local page in this tick
  hostScrape,   \* history: the host group has used the scrape in the cache
  since,        \* history: time used and passed since cpu.stat was last read
  span          \* history: that time, when this tick has read it again

snapshotVars == <<filled, writers, share, features, span>>
cpuVars   == <<prevCPUUsec, prevCPUTime, usage, clock, since>>
cacheVars == <<cache, fetched, hostScrape>>
hostMetricsVars == <<config, stage, snapshotVars, cpuVars, cacheVars, ticks>>

NoScrape == [gauges |-> {}, fresh |-> FALSE]

(* Times used and passed from one reading of cpu.stat on, if there is one. *)
NoSpan == [known |-> FALSE, used |-> 0, time |-> 0]
JustRead == [known |-> TRUE, used |-> 0, time |-> 0]
Longer(s, used, time) ==
  [known |-> s.known, used |-> s.used + used, time |-> s.time + time]

HostInit ==
  /\ config \in [enabled : BOOLEAN, host : {"auto", "sdk", "prometheus"},
                 server : BOOLEAN, local : BOOLEAN, custom : BOOLEAN]
  /\ stage = "idle" /\ filled = FALSE
  /\ writers = [f \in Fields |-> {}] /\ share = 0 /\ features = {}
  /\ prevCPUUsec = 0 /\ prevCPUTime = 0 /\ cache = NoScrape
  /\ usage = 0 /\ clock = 1 /\ since = NoSpan /\ span = NoSpan
  /\ ticks = 0 /\ fetched = 0 /\ hostScrape = FALSE

-----------------------------------------------------------------------------
(* readLoadAvg, readMemInfo, readDiskUsage: all of their fields or none.   *)
ProcFiles == {Loads, Memory, Disk}

(* Fields S of m are set by source src.                                    *)
Set(S, src) ==
  writers' = [f \in Fields |-> IF f \in S THEN writers[f] \cup {src} ELSE writers[f]]

PolicyAllowsProm == config.host \in {"auto", "prometheus"}
HostFromProm     == config.enabled /\ PolicyAllowsProm

(* SystemCollector.Collect begins, with an empty snapshot.                 *)
BeginTick ==
  /\ stage = "idle" /\ ticks < MaxTicks /\ ticks' = ticks + 1
  /\ stage' = IF HostFromProm THEN "server" ELSE "proc"
  /\ fetched' = 0 /\ hostScrape' = FALSE
  /\ UNCHANGED <<config, snapshotVars, cpuVars, cache>>

(* instantQuery: which of the queries give a number.  Each may fail, and   *)
(* finds nothing if the server has no data for it.                         *)
Answers == SUBSET Series

(* The eight PromQL queries.                                               *)
QueryServer ==
  /\ stage = "server" /\ stage' = "local"
  /\ \/ /\ config.server
        /\ \E answered \in Answers :
             Set(answered, "server") /\ filled' = (answered # {})
     \/ /\ ~config.server
        /\ UNCHANGED <<writers, filled>>
  /\ UNCHANGED <<config, share, features, span, cpuVars, cacheVars, ticks>>

(* Bug: the time of the scrape is not kept.                                *)
ScrapeUncached(scrape) ==
  /\ scrape.fresh /\ fetched' = fetched + 1 /\ cache' = NoScrape

(* scrapeLocal: a scrape of the last 500 ms, or a new one.                 *)
Scrape(scrape) ==
  \/ /\ cache.fresh /\ scrape = cache
     /\ UNCHANGED <<cache, fetched>>
  \/ /\ ~cache.fresh /\ scrape.fresh
     /\ cache' = scrape /\ fetched' = fetched + 1

ScrapeFails == ~cache.fresh /\ UNCHANGED <<cache, fetched>>

Scrapes == [gauges : SUBSET Shown, fresh : {TRUE}]

(* Bug: the local page is read although the server has answered.           *)
LocalAlways == config.local

(* The local page is asked only if the server has not filled anything.     *)
LocalWanted == config.local /\ ~filled

(* load1 and the total memory count as filled, load5 and load15 do not.    *)
FillFromLocal(scrape) ==
  LET present == {f \in LocalFields : Needs(f) \subseteq scrape.gauges}
  IN  /\ Set(present, "local")
      /\ filled' = (filled \/ present \cap {"load1", "memTotal"} # {})

QueryLocal ==
  /\ stage = "local" /\ stage' = "decide"
  /\ \/ /\ ~LocalWanted
        /\ UNCHANGED <<writers, filled, cacheVars>>
     \/ /\ LocalWanted /\ ScrapeFails
        /\ UNCHANGED <<writers, filled, hostScrape>>
     \/ /\ LocalWanted
        /\ \E scrape \in Scrapes :
             Scrape(scrape) /\ FillFromLocal(scrape)
        /\ hostScrape' = TRUE
  /\ UNCHANGED <<config, share, features, span, cpuVars, ticks>>

(* Bug: Prometheus is trusted whether it has filled anything or not.       *)
DecideAlways ==
  /\ stage = "decide"
  /\ features' = {"prometheus"} /\ stage' = "container"
  /\ UNCHANGED <<config, filled, writers, share, span, cpuVars, cacheVars, ticks>>

(* FillHostMetrics returns: true keeps /proc out.                          *)
Decide ==
  /\ stage = "decide"
  /\ features' = IF filled THEN {"prometheus"} ELSE {}
  /\ stage' = IF filled THEN "container" ELSE "proc"
  /\ UNCHANGED <<config, filled, writers, share, span, cpuVars, cacheVars, ticks>>

(* fillHostFromProc: the cores always, and each file that can be read.     *)
FillFromProc ==
  /\ stage = "proc" /\ stage' = "container"
  /\ \E files \in SUBSET ProcFiles :
       Set({"cores"} \cup UNION files, "proc")
  /\ UNCHANGED <<config, filled, share, features, span, cpuVars, cacheVars, ticks>>

(* Bug: a tick that cannot read cpu.stat moves the time of the reading.    *)
CpuStatMissed(currentUsec, now) ==
  /\ prevCPUTime' = now
  /\ since' = Longer(since, currentUsec - usage, now - clock)
  /\ UNCHANGED <<writers, share, span, prevCPUUsec>>

(* cpu.stat cannot be read or shows no time used: the previous reading is  *)
(* kept, and the next share is of a longer time.                           *)
CpuStatUnread(currentUsec, now) ==
  /\ since' = Longer(since, currentUsec - usage, now - clock)
  /\ UNCHANGED <<writers, share, span, prevCPUUsec, prevCPUTime>>

(* A share in percent of the time since the previous reading, if there is  *)
(* one and both times have grown; cut off where it would make no sense.    *)
CpuStatRead(currentUsec, now) ==
  LET deltaUsec == currentUsec - prevCPUUsec
      deltaTime == now - prevCPUTime
      pct       == (100 * deltaUsec) \div deltaTime
      hasShare  == prevCPUTime # 0 /\ deltaTime > 0 /\ deltaUsec > 0
  IN  /\ currentUsec > 0
      /\ \/ /\ hasShare /\ Set({"cpuPct"}, "cgroup")
            /\ share' = IF pct > MaxShare THEN MaxShare ELSE pct
         \/ /\ ~hasShare
            /\ UNCHANGED <<writers, share>>
      /\ prevCPUUsec' = currentUsec /\ prevCPUTime' = now
      /\ span' = Longer(since, currentUsec - usage, now - clock)
      /\ since' = JustRead

(* The probes report, and with the Go runtime they are listed as features. *)
ListFeatures == features' = features \cup Extras

(* fillContainerMetrics and the rest of Collect.                           *)
FillContainer ==
  /\ stage = "container" /\ stage' = "post"
  /\ \E currentUsec \in usage .. usage + MaxUsed, now \in clock .. clock + MaxElapsed :
       /\ usage' = currentUsec /\ clock' = now
       /\ CpuStatUnread(currentUsec, now) \/ CpuStatRead(currentUsec, now)
  /\ ListFeatures
  /\ UNCHANGED <<config, filled, cacheVars, ticks>>

(* SendSystemMetric, and with it the snapshot is gone, sent or not.        *)
Post ==
  /\ stage = "post" /\ stage' = "custom"
  /\ filled' = FALSE /\ writers' = [f \in Fields |-> {}]
  /\ share' = 0 /\ span' = NoSpan /\ features' = {}
  /\ UNCHANGED <<config, cpuVars, cacheVars, ticks>>

(* Bug: the page is fetched for each of the configured prefixes.           *)
CollectPerPrefix ==
  /\ stage = "custom" /\ stage' = "idle"
  /\ fetched' = IF config.enabled /\ config.local THEN fetched + 2 ELSE fetched
  /\ UNCHANGED <<config, snapshotVars, cpuVars, cache, hostScrape, ticks>>

(* CollectCustom ends the tick; whether it finds metrics shows only in the *)
(* log.                                                                    *)
CollectCustom ==
  /\ stage = "custom" /\ stage' = "idle"
  /\ \/ /\ ~(config.enabled /\ config.local /\ config.custom)
        /\ UNCHANGED <<cache, fetched>>
     \/ /\ config.enabled /\ config.local /\ config.custom
        /\ ScrapeFails \/ \E scrape \in Scrapes : Scrape(scrape)
  /\ UNCHANGED <<config, snapshotVars, cpuVars, hostScrape, ticks>>

(* 500 ms have passed since the last scrape.                               *)
CacheExpires ==
  /\ cache.fresh /\ cache' = NoScrape /\ hostScrape' = FALSE
  /\ UNCHANGED <<config, stage, snapshotVars, cpuVars, fetched, ticks>>

(* All ticks over.                                                         *)
TicksDone == stage = "idle" /\ ticks = MaxTicks /\ UNCHANGED hostMetricsVars

HostNext ==
  \/ BeginTick \/ QueryServer \/ QueryLocal \/ Decide \/ FillFromProc
  \/ FillContainer \/ Post \/ CollectCustom \/ CacheExpires
  \/ TicksDone

HostSpec == HostInit /\ [][HostNext]_hostMetricsVars

-----------------------------------------------------------------------------
HostTypeOK ==
  /\ config \in [enabled : BOOLEAN, host : {"auto", "sdk", "prometheus"},
                 server : BOOLEAN, local : BOOLEAN, custom : BOOLEAN]
  /\ stage \in {"idle", "server", "local", "decide", "proc", "container", "post", "custom"}
  /\ filled \in BOOLEAN
  /\ writers \in [Fields -> SUBSET Sources] /\ share \in 0 .. MaxShare
  /\ features \subseteq {"prometheus", "db", "redis", "go-runtime"}
  /\ prevCPUUsec \in Nat /\ prevCPUTime \in Nat /\ usage \in Nat /\ clock \in Nat \ {0}
  /\ since \in [known : BOOLEAN, used : Nat, time : Nat]
  /\ span \in [known : BOOLEAN, used : Nat, time : Nat]
  /\ cache \in [gauges : SUBSET Gauges, fresh : BOOLEAN]
  /\ ticks \in 0 .. MaxTicks /\ fetched \in 0 .. 2 /\ hostScrape \in BOOLEAN

AllWriters == UNION {writers[f] : f \in Fields}

(***************************************************************************)
(* The "no x2" rule: no field of a snapshot is written by two sources, and *)
(* a snapshot that says "prometheus" has nothing from /proc.  The code has *)
(* two exceptions: the container's CPU share replaces the host's that      *)
(* PromQL has put there, and load5 and load15 of a local page without      *)
(* load1 and memory are written before /proc is asked.                     *)
(***************************************************************************)
SourcesDoNotMix ==
  /\ \A f \in Fields :
       \/ Cardinality(writers[f]) <= 1
       \/ f = "cpuPct" /\ writers[f] = {"server", "cgroup"}
       \/ f \in {"load5", "load15"} /\ writers[f] = {"local", "proc"}
  /\ "server" \in AllWriters => AllWriters \subseteq {"server", "cgroup"}
  /\ "prometheus" \in features => "proc" \notin AllWriters
  /\ config.host = "sdk" => AllWriters \cap {"server", "local"} = {}

(***************************************************************************)
(* The dashboard is not flat: a snapshot carries a load or the memory or a *)
(* value of the server, or /proc was asked for all of them.                *)
(***************************************************************************)
FallsBack ==
  stage = "post" =>
    \/ "proc" \in writers["cores"]
    \/ "server" \in AllWriters
    \/ writers["load1"] # {} \/ writers["memTotal"] # {}

(***************************************************************************)
(* The container's CPU share is of one interval: the time used and the     *)
(* time passed are both from the last tick whose cpu.stat was read to this *)
(* one, however many ticks in between could not read it ("percent over the *)
(* previous interval", system_collector.go).  It is the true percentage,   *)
(* rounded down and cut off at MaxShare; without an earlier reading, or if *)
(* either time has stood still, the cgroup says nothing.                   *)
(***************************************************************************)
ShareIsOfInterval ==
  stage = "post" =>
    /\ "cgroup" \in writers["cpuPct"] <=> span.known /\ span.used > 0 /\ span.time > 0
    /\ "cgroup" \in writers["cpuPct"] =>
         /\ share * span.time <= 100 * span.used
         /\ share < MaxShare => 100 * span.used < (share + 1) * span.time

(***************************************************************************)
(* Host group and custom metrics of a tick come from one scrape: once the  *)
(* host group has used it, the page is fetched again only if the scrape    *)
(* has expired, however long the collectors in between have taken.         *)
(***************************************************************************)
OneScrapePerTick ==
  [][stage = "custom" /\ hostScrape => fetched' = fetched]_hostMetricsVars
=============================================================================
