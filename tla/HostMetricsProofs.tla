------------------------- MODULE HostMetricsProofs -------------------------
(***************************************************************************)
(* Theorems about HostMetrics: what a snapshot can hold, whatever the      *)
(* sources have to offer and however much time is used and passes, for any *)
(* number of ticks and any installed probe.                                *)
(***************************************************************************)
EXTENDS HostMetrics, FiniteSetTheorems, TLAPS

-----------------------------------------------------------------------------
(* Who may have written what.  Besides the source of the host group only   *)
(* the container may, and only the CPU share.                              *)
Has(src)  == \E f \in Fields : src \in writers[f]
Beside(f) == IF f = "cpuPct" THEN {"cgroup"} ELSE {}

Blank == (\A f \in Fields : writers[f] = {}) /\ ~filled

FromServer == \A f \in Fields : writers[f] \subseteq {"server"} \cup Beside(f)

(* A page that shows the used memory shows the total.                      *)
FromLocal ==
  /\ \A f \in Fields : writers[f] \subseteq
       Beside(f) \cup IF f \in LocalFields THEN {"local"} ELSE {}
  /\ writers["memUsed"] \subseteq writers["memTotal"]

LocalEnough == writers["load1"] # {} \/ writers["memTotal"] # {}

(* What a page without load1 and memory leaves behind for /proc.           *)
Leftover ==
  \A f \in Fields : writers[f] \subseteq
    Beside(f) \cup IF f \in {"load5", "load15"} THEN {"local"} ELSE {}

FromProc ==
  /\ "proc" \in writers["cores"] /\ "prometheus" \notin features
  /\ \A f \in Fields : writers[f] \subseteq
       IF f = "cpuPct" THEN {"cgroup"}
       ELSE IF f \in {"load5", "load15"} THEN {"proc", "local"} ELSE {"proc"}

Complete ==
  \/ FromServer /\ Has("server")
  \/ FromLocal /\ LocalEnough
  \/ FromProc

(* The snapshot as it grows from step to step of a tick.                   *)
StageInv ==
  /\ stage \in {"idle", "server", "custom"} => Blank
  /\ stage \in {"idle", "server", "custom", "local", "decide", "proc"} => features = {}
  /\ stage = "local" => FromServer /\ (filled <=> Has("server"))
  /\ stage = "decide" => \/ FromServer /\ Has("server") /\ filled
                         \/ FromLocal /\ (filled <=> LocalEnough)
  /\ stage = "proc" => Leftover /\ ~filled
  /\ stage \in {"container", "post"} => Complete

(* Without Prometheus for the host, nothing of it gets in.                 *)
PolicyInv ==
  ~HostFromProm => /\ stage \notin {"server", "local", "decide"}
                   /\ ~Has("server") /\ ~Has("local")

(* The previous reading of cpu.stat against what has been used and has     *)
(* passed since, over ticks that could not read it as well.                *)
Spans == [known : BOOLEAN, used : Nat, time : Nat]

ReadingInv ==
  /\ since.known <=> prevCPUTime # 0
  /\ since.known => usage = prevCPUUsec + since.used /\ clock = prevCPUTime + since.time

ShareInv ==
  /\ ReadingInv /\ ShareIsOfInterval
  /\ stage # "post" => "cgroup" \notin writers["cpuPct"] /\ span = NoSpan

FetchInv ==
  /\ stage \in {"server", "local"} => fetched = 0
  /\ stage # "idle" => fetched <= 1
  /\ hostScrape => cache.fresh

HostInv == HostTypeOK /\ StageInv /\ PolicyInv /\ FetchInv /\ ShareInv

LEMMA HostInvInit == HostInit => HostInv
<1> SUFFICES ASSUME HostInit PROVE HostInv
  OBVIOUS
<1>1. HostTypeOK
  <2>1. cache \in [gauges : SUBSET Gauges, fresh : BOOLEAN]
    BY DEF HostInit, NoScrape
  <2>2. writers \in [Fields -> SUBSET Sources] /\ ticks \in 0 .. MaxTicks /\ fetched \in 0 .. 2
    BY HostAssumption DEF HostInit
  <2>3. since \in Spans /\ span \in Spans /\ share \in 0 .. MaxShare
    BY HostAssumption DEF HostInit, NoSpan, Spans
  <2>4. prevCPUUsec \in Nat /\ prevCPUTime \in Nat /\ usage \in Nat /\ clock \in Nat \ {0}
    BY DEF HostInit
  <2> QED
    BY <2>1, <2>2, <2>3, <2>4 DEF HostInit, HostTypeOK, Spans
<1>2. StageInv /\ FetchInv
  BY DEF HostInit, StageInv, Blank, FetchInv
<1>4. ShareInv
  BY DEF HostInit, NoSpan, ShareInv, ReadingInv, ShareIsOfInterval, Fields, Queries
<1>3. PolicyInv
  BY DEF HostInit, PolicyInv, Has
<1> QED
  BY <1>1, <1>2, <1>3, <1>4 DEF HostInv

-----------------------------------------------------------------------------
(* What a source can read, and what a write does.                          *)
LEMMA WhatIsScraped ==
  ASSUME NEW scrape \in Scrapes
  PROVE  /\ scrape \in [gauges : SUBSET Gauges, fresh : BOOLEAN]
         /\ scrape.fresh
BY HostAssumption DEF Scrapes

LEMMA Written ==
  ASSUME HostTypeOK, NEW S \in SUBSET Fields, NEW src \in Sources, Set(S, src)
  PROVE  /\ writers' \in [Fields -> SUBSET Sources]
         /\ \A f \in S : writers'[f] = writers[f] \cup {src}
         /\ \A f \in Fields \ S : writers'[f] = writers[f]
BY DEF HostTypeOK, Set

LEMMA Scraped ==
  ASSUME HostTypeOK, FetchInv, NEW scrape \in Scrapes, Scrape(scrape)
  PROVE  /\ cache' \in [gauges : SUBSET Gauges, fresh : BOOLEAN]
         /\ cache'.fresh
         /\ fetched' = fetched \/ (fetched' = fetched + 1 /\ ~cache.fresh)
BY WhatIsScraped DEF HostTypeOK, Scrape

(* The steps that neither read cpu.stat nor send the snapshot.             *)
LEMMA ShareStays ==
  ASSUME ShareInv, UNCHANGED cpuVars, stage' # "post",
         "cgroup" \notin writers'["cpuPct"], span' = NoSpan
  PROVE  ShareInv'
BY DEF ShareInv, ReadingInv, ShareIsOfInterval, cpuVars

LEMMA CpuTypes ==
  ASSUME HostTypeOK, UNCHANGED cpuVars
  PROVE  /\ prevCPUUsec' \in Nat /\ prevCPUTime' \in Nat /\ usage' \in Nat
         /\ clock' \in Nat \ {0} /\ since' \in [known : BOOLEAN, used : Nat, time : Nat]
BY DEF HostTypeOK, cpuVars

-----------------------------------------------------------------------------
LEMMA BeginStep == HostInv /\ BeginTick => HostInv'
<1> SUFFICES ASSUME HostInv, BeginTick PROVE HostInv'
  OBVIOUS
<1>1. /\ stage = "idle" /\ Blank /\ features = {} /\ ticks' \in 0 .. MaxTicks
      /\ stage' = IF HostFromProm THEN "server" ELSE "proc"
      /\ fetched' = 0 /\ hostScrape' = FALSE
      /\ UNCHANGED <<config, filled, writers, share, features, span, cpuVars, cache>>
  BY HostAssumption
     DEF BeginTick, HostInv, HostTypeOK, StageInv, snapshotVars
<1>2. HostTypeOK'
  <2>1. stage' \in {"server", "proc"}
    BY <1>1
  <2>2. hostScrape' \in BOOLEAN
    BY <1>1
  <2>3. fetched' \in 0 .. 2
    BY <1>1
  <2> QED
    BY <1>1, <2>1, <2>2, <2>3, CpuTypes DEF HostInv, HostTypeOK
<1>3. StageInv'
  BY <1>1 DEF StageInv, Blank, Leftover
<1>4. PolicyInv' /\ FetchInv'
  BY <1>1 DEF PolicyInv, FetchInv, Blank, Has, HostFromProm, PolicyAllowsProm
<1>5. ShareInv'
  BY <1>1, ShareStays DEF HostInv, ShareInv
<1> QED
  BY <1>2, <1>3, <1>4, <1>5 DEF HostInv

LEMMA ServerStep == HostInv /\ QueryServer => HostInv'
<1> SUFFICES ASSUME HostInv, QueryServer PROVE HostInv'
  OBVIOUS
<1>1. /\ stage = "server" /\ stage' = "local" /\ Blank /\ features = {} /\ HostFromProm
      /\ fetched = 0
      /\ UNCHANGED <<config, share, features, span, cpuVars, cache, fetched, hostScrape, ticks>>
  BY DEF QueryServer, HostInv, StageInv, PolicyInv, FetchInv, cacheVars
<1>2. PICK S \in SUBSET Queries : Set(S, "server") /\ filled' = (S # {})
  <2>1. CASE UNCHANGED <<writers, filled>>
    <3>1. Set({}, "server")
      BY <2>1 DEF Set, HostInv, HostTypeOK
    <3> QED
      BY <1>1, <2>1, <3>1 DEF Blank, HostInv, HostTypeOK
  <2>2. ASSUME NEW answered \in Answers, Set(answered, "server"), filled' = (answered # {})
        PROVE  \E S \in SUBSET Queries : Set(S, "server") /\ filled' = (S # {})
    BY <2>2, HostAssumption DEF Answers
  <2> QED
    BY <2>1, <2>2 DEF QueryServer
<1>3. /\ writers' \in [Fields -> SUBSET Sources]
      /\ \A f \in S : writers'[f] = {"server"}
      /\ \A f \in Fields \ S : writers'[f] = {}
  <2>1. HostTypeOK /\ "server" \in Sources /\ S \in SUBSET Fields
    BY <1>2 DEF HostInv, Sources, Fields
  <2>2. /\ writers' \in [Fields -> SUBSET Sources]
        /\ \A f \in S : writers'[f] = writers[f] \cup {"server"}
        /\ \A f \in Fields \ S : writers'[f] = writers[f]
    BY <1>2, <2>1, Written
  <2> QED
    BY <1>1, <2>1, <2>2 DEF Blank
<1>4. FromServer' /\ (filled' <=> Has("server")')
  BY <1>2, <1>3 DEF FromServer, Has, Fields
<1>5. HostTypeOK'
  <2>1. filled' \in BOOLEAN
    BY <1>2
  <2>2. writers' \in [Fields -> SUBSET Sources]
    BY <1>3
  <2>3. /\ stage' = "local"
        /\ UNCHANGED <<config, share, features, span, cpuVars, cache, fetched, hostScrape, ticks>>
    BY <1>1
  <2> QED
    BY <2>1, <2>2, <2>3, CpuTypes DEF HostInv, HostTypeOK
<1>6. StageInv'
  BY <1>1, <1>4 DEF StageInv
<1>7. PolicyInv' /\ FetchInv'
  BY <1>1 DEF HostInv, PolicyInv, FetchInv, HostFromProm, PolicyAllowsProm
<1>8. ShareInv'
  <2>1. "cgroup" \notin writers'["cpuPct"]
    BY <1>3 DEF Fields, Queries
  <2> QED
    BY <1>1, <2>1, ShareStays DEF HostInv, ShareInv
<1> QED
  BY <1>5, <1>6, <1>7, <1>8 DEF HostInv

LEMMA LocalStep == HostInv /\ QueryLocal => HostInv'
<1> SUFFICES ASSUME HostInv, QueryLocal PROVE HostInv'
  OBVIOUS
<1>1. /\ stage = "local" /\ stage' = "decide" /\ features = {} /\ HostFromProm
      /\ fetched = 0 /\ FromServer /\ (filled <=> Has("server")) /\ filled \in BOOLEAN
      /\ UNCHANGED <<config, share, features, span, cpuVars, ticks>>
  BY DEF QueryLocal, HostInv, HostTypeOK, StageInv, PolicyInv, FetchInv
<1>2. ~filled => \A f \in Fields : writers[f] \subseteq Beside(f)
  BY <1>1 DEF FromServer, Has, Beside
<1>3. ASSUME UNCHANGED <<writers, filled>>
      PROVE  /\ writers' \in [Fields -> SUBSET Sources]
             /\ filled' \in BOOLEAN /\ writers'["cpuPct"] = writers["cpuPct"]
             /\ \/ FromServer' /\ Has("server")' /\ filled'
                \/ FromLocal' /\ (filled' <=> LocalEnough')
  <2>1. CASE filled
    BY <1>1, <1>3, <2>1 DEF HostInv, HostTypeOK, FromServer, Has
  <2>2. CASE ~filled
    <3>1. \A f \in Fields : writers'[f] \subseteq Beside(f)
      BY <1>2, <1>3, <2>2
    <3>2. writers'["memUsed"] = {} /\ writers'["load1"] = {} /\ writers'["memTotal"] = {}
      BY <3>1 DEF Beside, Fields, Queries, Memory, Loads
    <3>3. FromLocal' /\ ~LocalEnough'
      BY <3>1, <3>2 DEF FromLocal, LocalEnough, Beside
    <3> QED
      BY <1>1, <1>3, <2>2, <3>3 DEF HostInv, HostTypeOK
  <2> QED
    BY <1>1, <2>1, <2>2
<1>4. ASSUME NEW scrape \in Scrapes, FillFromLocal(scrape), ~filled
      PROVE  /\ writers' \in [Fields -> SUBSET Sources]
             /\ filled' \in BOOLEAN /\ writers'["cpuPct"] = writers["cpuPct"]
             /\ FromLocal' /\ (filled' <=> LocalEnough')
  <2> DEFINE present == {f \in LocalFields : Needs(f) \subseteq scrape.gauges}
  <2>1. Set(present, "local") /\ filled' = (filled \/ present \cap {"load1", "memTotal"} # {})
    BY <1>4 DEF FillFromLocal
  <2>2. present \subseteq LocalFields
    OBVIOUS
  <2>3. present \subseteq Fields
    BY DEF LocalFields, Fields, Queries
  <2>4. "memUsed" \in present => "memTotal" \in present
    BY DEF Needs, LocalFields, Memory
  <2> HIDE DEF present
  <2>5. /\ writers' \in [Fields -> SUBSET Sources]
        /\ \A f \in present : writers'[f] = writers[f] \cup {"local"}
        /\ \A f \in Fields \ present : writers'[f] = writers[f]
    <3>1. HostTypeOK /\ "local" \in Sources /\ present \in SUBSET Fields
      BY <2>2, <2>3 DEF HostInv, Sources
    <3>2. Set(present, "local")
      BY <2>1
    <3> QED
      BY <3>1, <3>2, Written
  <2>6. "cpuPct" \notin present
    BY <2>2 DEF LocalFields, Loads, Memory
  <2>7. /\ \A f \in present : writers'[f] = {"local"}
        /\ \A f \in Fields \ present : writers'[f] \subseteq Beside(f)
    BY <1>2, <1>4, <2>3, <2>5, <2>6 DEF Beside
  <2>9. FromLocal'
    <3>1. \A f \in Fields : writers'[f] \subseteq
            Beside(f) \cup IF f \in LocalFields THEN {"local"} ELSE {}
      BY <2>2, <2>7
    <3>2. writers'["memUsed"] \subseteq writers'["memTotal"]
      BY <2>4, <2>7 DEF Beside, Fields, Queries, Memory
    <3> QED
      BY <3>1, <3>2 DEF FromLocal
  <2>10. filled' <=> LocalEnough'
    BY <1>4, <2>1, <2>7 DEF LocalEnough, Beside, Fields, Queries, Memory, Loads
  <2>11. filled' \in BOOLEAN
    BY <2>1
  <2>12. writers'["cpuPct"] = writers["cpuPct"]
    BY <2>5, <2>6 DEF Fields, Queries
  <2> QED
    BY <2>5, <2>9, <2>10, <2>11, <2>12
<1>5. /\ writers' \in [Fields -> SUBSET Sources]
      /\ filled' \in BOOLEAN /\ writers'["cpuPct"] = writers["cpuPct"]
      /\ \/ FromServer' /\ Has("server")' /\ filled'
         \/ FromLocal' /\ (filled' <=> LocalEnough')
  BY <1>3, <1>4 DEF QueryLocal, LocalWanted
<1>6. /\ cache' \in [gauges : SUBSET Gauges, fresh : BOOLEAN]
      /\ hostScrape' => cache'.fresh
      /\ hostScrape' \in BOOLEAN /\ fetched' \in {0, 1}
  <2>1. CASE UNCHANGED cacheVars
    BY <1>1, <2>1 DEF cacheVars, HostInv, HostTypeOK, FetchInv
  <2>2. CASE ScrapeFails /\ UNCHANGED hostScrape
    BY <1>1, <2>2 DEF ScrapeFails, HostInv, HostTypeOK, FetchInv
  <2>3. CASE (\E scrape \in Scrapes : Scrape(scrape)) /\ hostScrape' = TRUE
    BY <1>1, <2>3, Scraped DEF HostInv
  <2> QED
    BY <2>1, <2>2, <2>3 DEF QueryLocal
<1>7. HostTypeOK'
  <2>1. fetched' \in 0 .. 2
    BY <1>6
  <2> QED
    BY <1>1, <1>5, <1>6, <2>1, CpuTypes DEF HostInv, HostTypeOK
<1>8. StageInv'
  BY <1>1, <1>5 DEF StageInv
<1>9. PolicyInv' /\ FetchInv'
  BY <1>1, <1>6 DEF HostInv, PolicyInv, FetchInv, HostFromProm, PolicyAllowsProm
<1>10. ShareInv'
  BY <1>1, <1>5, ShareStays DEF HostInv, ShareInv
<1> QED
  BY <1>7, <1>8, <1>9, <1>10 DEF HostInv

LEMMA DecideStep == HostInv /\ Decide => HostInv'
<1> SUFFICES ASSUME HostInv, Decide PROVE HostInv'
  OBVIOUS
<1>1. /\ stage = "decide" /\ HostFromProm
      /\ \/ FromServer /\ Has("server") /\ filled
         \/ FromLocal /\ (filled <=> LocalEnough)
      /\ features' = (IF filled THEN {"prometheus"} ELSE {})
      /\ stage' = (IF filled THEN "container" ELSE "proc")
      /\ UNCHANGED <<config, filled, writers, share, span, cpuVars, cache, fetched, hostScrape,
                     ticks>>
  BY DEF Decide, HostInv, StageInv, PolicyInv, cacheVars
<1>2. HostTypeOK'
  <2>1. features' \subseteq {"prometheus", "db", "redis", "go-runtime"}
    BY <1>1
  <2>2. stage' \in {"container", "proc"}
    BY <1>1
  <2> QED
    BY <1>1, <2>1, <2>2, CpuTypes DEF HostInv, HostTypeOK
<1>3. ~filled => Leftover
  BY <1>1 DEF FromLocal, LocalEnough, Leftover, LocalFields, Loads, Memory, Beside,
              Fields, Queries
<1>4. filled => Complete'
  BY <1>1 DEF Complete, FromServer, Has, FromLocal, LocalEnough
<1>5. StageInv'
  <2>1. CASE filled
    BY <1>1, <1>4, <2>1 DEF StageInv
  <2>2. CASE ~filled
    BY <1>1, <1>3, <2>2 DEF StageInv, Leftover
  <2> QED
    BY <2>1, <2>2
<1>6. PolicyInv' /\ FetchInv'
  BY <1>1 DEF HostInv, PolicyInv, Has, FetchInv, HostFromProm, PolicyAllowsProm
<1>7. ShareInv'
  BY <1>1, ShareStays DEF HostInv, ShareInv
<1> QED
  BY <1>2, <1>5, <1>6, <1>7 DEF HostInv

LEMMA ProcStep == HostInv /\ FillFromProc => HostInv'
<1> SUFFICES ASSUME HostInv, FillFromProc PROVE HostInv'
  OBVIOUS
<1>1. /\ stage = "proc" /\ stage' = "container" /\ Leftover /\ features = {} /\ fetched <= 1
      /\ UNCHANGED <<config, filled, share, features, span, cpuVars, cache, fetched, hostScrape,
                     ticks>>
  BY DEF FillFromProc, HostInv, StageInv, FetchInv, cacheVars
<1>2. PICK S \in SUBSET Fields :
        "cores" \in S /\ "cpuPct" \notin S /\ Set(S, "proc")
  <2>1. PICK files \in SUBSET ProcFiles : Set({"cores"} \cup UNION files, "proc")
    BY DEF FillFromProc
  <2>2. {"cores"} \cup UNION files \subseteq Fields /\ "cpuPct" \notin {"cores"} \cup UNION files
    BY DEF ProcFiles, Loads, Memory, Disk, Fields, Queries
  <2> QED
    BY <2>1, <2>2
<1>3. /\ writers' \in [Fields -> SUBSET Sources]
      /\ \A f \in S : writers'[f] = writers[f] \cup {"proc"}
      /\ \A f \in Fields \ S : writers'[f] = writers[f]
  <2>1. HostTypeOK /\ "proc" \in Sources
    BY DEF HostInv, Sources
  <2> QED
    BY <1>2, <2>1, Written
<1>4. HostTypeOK'
  <2>1. writers' \in [Fields -> SUBSET Sources]
    BY <1>3
  <2> QED
    BY <1>1, <2>1, CpuTypes DEF HostInv, HostTypeOK
<1>5. FromProc'
  <2>1. \A f \in Fields : writers'[f] \subseteq
          IF f = "cpuPct" THEN {"cgroup"}
          ELSE IF f \in {"load5", "load15"} THEN {"proc", "local"} ELSE {"proc"}
    BY <1>1, <1>2, <1>3 DEF Leftover, Beside
  <2> QED
    BY <1>1, <1>2, <1>3, <2>1 DEF FromProc
<1>6. StageInv'
  BY <1>1, <1>5 DEF StageInv, Complete
<1>7. ShareInv'
  <2>1. writers'["cpuPct"] = writers["cpuPct"]
    BY <1>2, <1>3 DEF Fields, Queries
  <2> QED
    BY <1>1, <2>1, ShareStays DEF HostInv, ShareInv
<1>8. PolicyInv'
  BY <1>1, <1>3 DEF HostInv, PolicyInv, Has, HostFromProm, PolicyAllowsProm
<1>9. FetchInv'
  BY <1>1 DEF HostInv, FetchInv
<1> QED
  BY <1>4, <1>6, <1>7, <1>8, <1>9 DEF HostInv

LEMMA LongerIs ==
  ASSUME NEW s \in Spans, NEW u \in Nat, NEW t \in Nat
  PROVE  /\ Longer(s, u, t) \in Spans /\ Longer(s, u, t).known = s.known
         /\ Longer(s, u, t).used = s.used + u /\ Longer(s, u, t).time = s.time + t
<1>1. s = [known |-> s.known, used |-> s.used, time |-> s.time]
      /\ s.known \in BOOLEAN /\ s.used \in Nat /\ s.time \in Nat
  BY DEF Spans
<1>2. Longer(s, u, t) = [known |-> s.known, used |-> s.used + u, time |-> s.time + t]
  BY <1>1 DEF Longer
<1>3. s.used + u \in Nat /\ s.time + t \in Nat
  BY <1>1
<1> QED
  BY <1>1, <1>2, <1>3 DEF Spans

LEMMA ProductType == ASSUME NEW m \in Nat, NEW n \in Nat PROVE m * n \in Nat
OBVIOUS

LEMMA QuotientType == ASSUME NEW m \in Nat, NEW n \in Nat \ {0} PROVE m \div n \in Nat
OBVIOUS

LEMMA QuotientBounds ==
  ASSUME NEW m \in Nat, NEW n \in Nat \ {0}
  PROVE  (m \div n) * n <= m /\ m < ((m \div n) + 1) * n
OBVIOUS

LEMMA ProductMonotone ==
  ASSUME NEW k \in Nat, NEW m \in Nat, NEW n \in Nat, k <= m
  PROVE  k * n <= m * n
OBVIOUS

(* A percentage cut off at c is at most the true one, and if it is not     *)
(* the cut-off itself then the true one is less than one above it.         *)
LEMMA CutOff ==
  ASSUME NEW used \in Nat, NEW time \in Nat \ {0}, NEW c \in Nat,
         NEW pct \in Nat, pct = (100 * used) \div time,
         NEW sh \in Nat, sh = IF pct > c THEN c ELSE pct
  PROVE  /\ sh \in 0 .. c /\ sh * time <= 100 * used
         /\ sh < c => 100 * used < (sh + 1) * time
<1>1. 100 * used \in Nat /\ pct \in Nat
  OBVIOUS
<1>2. pct * time <= 100 * used /\ 100 * used < (pct + 1) * time
  BY <1>1, QuotientBounds
<1>3. CASE pct > c
  <2>1. sh = c /\ c * time <= pct * time
    BY <1>1, <1>3, ProductMonotone
  <2>2. c * time \in Nat /\ pct * time \in Nat
    BY <1>1, ProductType
  <2>3. c * time <= 100 * used
    BY <1>1, <1>2, <2>1, <2>2
  <2> QED
    BY <2>1, <2>3
<1>4. CASE ~(pct > c)
  BY <1>1, <1>2, <1>4
<1> QED
  BY <1>3, <1>4

(* What fillContainerMetrics does to the state, reading by reading.        *)
LEMMA Reading ==
  ASSUME HostTypeOK, ShareInv, stage = "container", stage' = "post",
         NEW u \in Nat, NEW t \in Nat, NEW currentUsec, NEW now,
         currentUsec = usage + u, now = clock + t, usage' = currentUsec, clock' = now,
         CpuStatUnread(currentUsec, now) \/ CpuStatRead(currentUsec, now)
  PROVE  /\ share' \in 0 .. MaxShare /\ span' \in Spans /\ since' \in Spans
         /\ prevCPUUsec' \in Nat /\ prevCPUTime' \in Nat
         /\ UNCHANGED writers \/ Set({"cpuPct"}, "cgroup")
         /\ ShareInv'
<1>1. /\ share \in 0 .. MaxShare /\ span \in Spans /\ since \in Spans
      /\ prevCPUUsec \in Nat /\ prevCPUTime \in Nat /\ usage \in Nat /\ clock \in Nat \ {0}
      /\ writers \in [Fields -> SUBSET Sources]
      /\ "cgroup" \notin writers["cpuPct"] /\ span = NoSpan
  BY DEF HostTypeOK, Spans, ShareInv
<1>2. currentUsec - usage = u /\ now - clock = t
  BY <1>1
<1>3. /\ Longer(since, u, t) \in Spans /\ Longer(since, u, t).known = since.known
      /\ Longer(since, u, t).used = since.used + u /\ Longer(since, u, t).time = since.time + t
  BY <1>1, LongerIs
<1>4. /\ since.known \in BOOLEAN /\ since.used \in Nat /\ since.time \in Nat
      /\ since.known <=> prevCPUTime # 0
      /\ since.known => usage = prevCPUUsec + since.used /\ clock = prevCPUTime + since.time
  BY <1>1 DEF Spans, ShareInv, ReadingInv
<1>5. CASE CpuStatUnread(currentUsec, now)
  <2>1. /\ since' = Longer(since, u, t)
        /\ UNCHANGED <<writers, share, span, prevCPUUsec, prevCPUTime>>
    BY <1>2, <1>5 DEF CpuStatUnread
  <2>2. ReadingInv'
    <3>1. since'.known <=> prevCPUTime' # 0
      BY <1>3, <1>4, <2>1
    <3>2. ASSUME since'.known
          PROVE  usage' = prevCPUUsec' + since'.used /\ clock' = prevCPUTime' + since'.time
      <4>1. usage = prevCPUUsec + since.used /\ clock = prevCPUTime + since.time
        BY <1>3, <1>4, <2>1, <3>2
      <4>2. since'.used = since.used + u /\ since'.time = since.time + t
        BY <1>3, <2>1
      <4> QED
        BY <1>1, <1>4, <2>1, <4>1, <4>2
    <3> QED
      BY <3>1, <3>2 DEF ReadingInv
  <2>3. ShareIsOfInterval'
    <3>1. "cgroup" \notin writers'["cpuPct"] /\ span'.known = FALSE
      BY <1>1, <2>1 DEF NoSpan
    <3> QED
      BY <3>1 DEF ShareIsOfInterval
  <2> QED
    BY <1>1, <1>3, <2>1, <2>2, <2>3 DEF ShareInv
<1>6. CASE CpuStatRead(currentUsec, now)
  <2> DEFINE deltaUsec == currentUsec - prevCPUUsec
             deltaTime == now - prevCPUTime
             pct       == (100 * deltaUsec) \div deltaTime
             hasShare  == prevCPUTime # 0 /\ deltaTime > 0 /\ deltaUsec > 0
  <2>1. /\ \/ /\ hasShare /\ Set({"cpuPct"}, "cgroup")
              /\ share' = IF pct > MaxShare THEN MaxShare ELSE pct
           \/ ~hasShare /\ UNCHANGED <<writers, share>>
        /\ prevCPUUsec' = currentUsec /\ prevCPUTime' = now
        /\ span' = Longer(since, u, t) /\ since' = JustRead
    <3>1. /\ span' = Longer(since, currentUsec - usage, now - clock)
          /\ since' = JustRead
          /\ prevCPUUsec' = currentUsec /\ prevCPUTime' = now
      BY <1>6 DEF CpuStatRead
    <3>2. span' = Longer(since, u, t)
      BY <1>2, <3>1
    <3>3. \/ /\ hasShare /\ Set({"cpuPct"}, "cgroup")
             /\ share' = IF pct > MaxShare THEN MaxShare ELSE pct
          \/ ~hasShare /\ UNCHANGED <<writers, share>>
      BY <1>6 DEF CpuStatRead
    <3> QED
      BY <3>1, <3>2, <3>3
  <2>2. since' \in Spans /\ since'.known = TRUE /\ since'.used = 0 /\ since'.time = 0
    BY <2>1 DEF JustRead, Spans
  <2>3. /\ span' \in Spans /\ span'.known = since.known
        /\ span'.used = since.used + u /\ span'.time = since.time + t
    BY <1>3, <2>1
  <2>4. since.known => deltaUsec = span'.used /\ deltaTime = span'.time
    BY <1>1, <1>4, <2>3
  <2>5. ReadingInv'
    BY <1>1, <2>1, <2>2 DEF ReadingInv
  <2>6. hasShare <=> span'.known /\ span'.used > 0 /\ span'.time > 0
    BY <1>4, <2>3, <2>4
  <2>7. CASE hasShare
    <3>1. /\ span'.used \in Nat /\ span'.time \in Nat \ {0} /\ MaxShare \in Nat
          /\ pct = (100 * span'.used) \div span'.time
      BY <2>3, <2>4, <2>6, <2>7, HostAssumption DEF Spans
    <3>2. share' = IF pct > MaxShare THEN MaxShare ELSE pct
      BY <2>1, <2>7
    <3>3. /\ share' \in 0 .. MaxShare /\ share' * span'.time <= 100 * span'.used
          /\ share' < MaxShare => 100 * span'.used < (share' + 1) * span'.time
      <4>1. PICK used \in Nat : used = span'.used
        BY <3>1
      <4>2. PICK time \in Nat \ {0} : time = span'.time
        BY <3>1
      <4>3. PICK p : p = pct
        OBVIOUS
      <4>4. PICK sh : sh = share'
        OBVIOUS
      <4>5. p = (100 * used) \div time /\ sh = IF p > MaxShare THEN MaxShare ELSE p
        BY <3>1, <3>2, <4>1, <4>2, <4>3, <4>4
      <4>6. /\ sh \in 0 .. MaxShare /\ sh * time <= 100 * used
            /\ sh < MaxShare => 100 * used < (sh + 1) * time
        <5>1. MaxShare \in Nat
          BY HostAssumption DEF HostAssumption
        <5>2. p \in Nat
          <6>1. 100 * used \in Nat
            OBVIOUS
          <6> QED
            BY <4>5, <6>1, QuotientType
        <5>3. sh \in Nat
          BY <4>5, <5>1, <5>2
        <5> HIDE DEF pct, hasShare, deltaUsec, deltaTime
        <5> QED
          BY ONLY <4>5, <5>1, <5>2, <5>3, CutOff, used \in Nat, time \in Nat \ {0}
      <4> QED
        BY <4>1, <4>2, <4>4, <4>6
    <3> HIDE DEF pct, hasShare, deltaUsec, deltaTime
    <3>4. Set({"cpuPct"}, "cgroup") /\ "cgroup" \in writers'["cpuPct"]
      BY <2>1, <2>7 DEF Set, Fields, Queries
    <3>5. ShareIsOfInterval'
      BY <2>6, <2>7, <3>3, <3>4 DEF ShareIsOfInterval
    <3> QED
      BY <1>1, <2>1, <2>2, <2>3, <2>5, <3>3, <3>4, <3>5 DEF ShareInv
  <2>8. CASE ~hasShare
    <3>1. UNCHANGED <<writers, share>>
      BY <2>1, <2>8
    <3>2. ShareIsOfInterval'
      BY <1>1, <2>6, <2>8, <3>1 DEF ShareIsOfInterval
    <3> QED
      BY <1>1, <2>1, <2>2, <2>3, <2>5, <3>1, <3>2 DEF ShareInv
  <2> QED
    BY <2>7, <2>8
<1> QED
  BY <1>5, <1>6

LEMMA ContainerStep == HostInv /\ FillContainer => HostInv'
<1> SUFFICES ASSUME HostInv, FillContainer PROVE HostInv'
  OBVIOUS
<1>1. /\ stage = "container" /\ stage' = "post" /\ Complete /\ fetched <= 1
      /\ features' = features \cup Extras
      /\ UNCHANGED <<config, filled, cache, fetched, hostScrape, ticks>>
  BY DEF FillContainer, ListFeatures, HostInv, HostTypeOK, StageInv, FetchInv, cacheVars
<1>2. /\ share' \in 0 .. MaxShare /\ span' \in Spans /\ since' \in Spans
      /\ prevCPUUsec' \in Nat /\ prevCPUTime' \in Nat
      /\ usage' \in Nat /\ clock' \in Nat \ {0}
      /\ UNCHANGED writers \/ Set({"cpuPct"}, "cgroup")
      /\ ShareInv'
  <2>1. PICK currentUsec \in usage .. usage + MaxUsed, now \in clock .. clock + MaxElapsed :
          /\ usage' = currentUsec /\ clock' = now
          /\ CpuStatUnread(currentUsec, now) \/ CpuStatRead(currentUsec, now)
    BY DEF FillContainer
  <2>2. usage \in Nat /\ clock \in Nat \ {0} /\ MaxUsed \in Nat /\ MaxElapsed \in Nat
    BY HostAssumption DEF HostInv, HostTypeOK
  <2>3. PICK u \in Nat : currentUsec = usage + u
    <3>1. currentUsec - usage \in Nat /\ currentUsec = usage + (currentUsec - usage)
      BY <2>2
    <3> QED
      BY <3>1
  <2>4. PICK t \in Nat : now = clock + t
    <3>1. now - clock \in Nat /\ now = clock + (now - clock)
      BY <2>2
    <3> QED
      BY <3>1
  <2>5. usage' \in Nat /\ clock' \in Nat \ {0}
    BY <2>1, <2>2, <2>3, <2>4
  <2>6. HostTypeOK /\ ShareInv
    BY DEF HostInv
  <2> QED
    BY <1>1, <2>1, <2>3, <2>4, <2>5, <2>6, Reading
<1>3. PICK S \in SUBSET {"cpuPct"} : Set(S, "cgroup")
  <2>1. CASE UNCHANGED writers
    <3>1. Set({}, "cgroup")
      BY <2>1 DEF Set, HostInv, HostTypeOK
    <3> QED
      BY <3>1
  <2> QED
    BY <1>2, <2>1
<1>4. /\ writers' \in [Fields -> SUBSET Sources]
      /\ \A f \in S : writers'[f] = writers[f] \cup {"cgroup"}
      /\ \A f \in Fields \ S : writers'[f] = writers[f]
  <2>1. HostTypeOK /\ "cgroup" \in Sources /\ S \in SUBSET Fields
    BY DEF HostInv, Sources, Fields, Queries
  <2> QED
    BY <1>3, <2>1, Written
<1>5. HostTypeOK'
  <2>1. features' \subseteq {"prometheus", "db", "redis", "go-runtime"}
    BY <1>1, HostAssumption DEF HostInv, HostTypeOK
  <2>2. /\ prevCPUUsec' \in Nat /\ prevCPUTime' \in Nat /\ usage' \in Nat
        /\ clock' \in Nat \ {0} /\ share' \in 0 .. MaxShare
        /\ since' \in [known : BOOLEAN, used : Nat, time : Nat]
        /\ span' \in [known : BOOLEAN, used : Nat, time : Nat]
    BY <1>2 DEF Spans
  <2> QED
    BY <1>1, <1>4, <2>1, <2>2 DEF HostInv, HostTypeOK
<1>6. /\ \A f \in Fields : f # "cpuPct" => writers'[f] = writers[f]
      /\ writers'["cpuPct"] \subseteq writers["cpuPct"] \cup {"cgroup"}
      /\ writers["cpuPct"] \subseteq writers'["cpuPct"]
  BY <1>3, <1>4 DEF Fields, Queries
<1>7. Complete'
  <2>1. CASE FromServer /\ Has("server")
    BY <1>6, <2>1 DEF Complete, FromServer, Has, Beside
  <2>2. CASE FromLocal /\ LocalEnough
    BY <1>6, <2>2 DEF Complete, FromLocal, LocalEnough, Beside, Fields, Queries, Loads, Memory
  <2>3. CASE FromProc
    BY <1>1, <1>6, <2>3, HostAssumption DEF Complete, FromProc, Fields
  <2> QED
    BY <1>1, <2>1, <2>2, <2>3 DEF Complete
<1>8. StageInv'
  BY <1>1, <1>7 DEF StageInv
<1>9. PolicyInv'
  <2>1. (Has("server")' => Has("server")) /\ (Has("local")' => Has("local"))
    BY <1>3, <1>4 DEF Has, Fields, Queries
  <2> QED
    BY <1>1, <2>1 DEF HostInv, PolicyInv, HostFromProm, PolicyAllowsProm
<1>10. FetchInv'
  BY <1>1 DEF HostInv, FetchInv
<1> QED
  BY <1>2, <1>5, <1>8, <1>9, <1>10 DEF HostInv

LEMMA PostStep == HostInv /\ Post => HostInv'
<1> SUFFICES ASSUME HostInv, Post PROVE HostInv'
  OBVIOUS
<1>1. /\ stage = "post" /\ stage' = "custom" /\ fetched <= 1
      /\ filled' = FALSE /\ features' = {} /\ share' = 0 /\ span' = NoSpan
      /\ writers' \in [Fields -> SUBSET Sources]
      /\ \A f \in Fields : writers'[f] = {}
      /\ UNCHANGED <<config, cpuVars, cache, fetched, hostScrape, ticks>>
  BY DEF Post, HostInv, FetchInv, cacheVars
<1>2. HostTypeOK'
  <2>1. share' \in 0 .. MaxShare /\ span' \in [known : BOOLEAN, used : Nat, time : Nat]
    BY <1>1, HostAssumption DEF NoSpan
  <2> QED
    BY <1>1, <2>1, CpuTypes DEF HostInv, HostTypeOK
<1>3. StageInv'
  BY <1>1 DEF StageInv, Blank
<1>4. PolicyInv'
  BY <1>1 DEF PolicyInv, Has
<1>5. FetchInv'
  BY <1>1 DEF HostInv, FetchInv
<1>6. ShareInv'
  <2>1. "cgroup" \notin writers'["cpuPct"]
    BY <1>1 DEF Fields, Queries
  <2> QED
    BY <1>1, <2>1, ShareStays DEF HostInv
<1> QED
  BY <1>2, <1>3, <1>4, <1>5, <1>6 DEF HostInv

(* At the end of a tick the page is fetched once more at most, and not at  *)
(* all while the host group's scrape is in the cache.                      *)
LEMMA CustomFetch ==
  ASSUME HostTypeOK, FetchInv, CollectCustom
  PROVE  /\ cache' \in [gauges : SUBSET Gauges, fresh : BOOLEAN]
         /\ cache.fresh => cache'.fresh /\ fetched' = fetched
         /\ fetched' = fetched \/ fetched' = fetched + 1
<1>1. CASE UNCHANGED <<cache, fetched>>
  BY <1>1 DEF HostTypeOK
<1>2. ASSUME NEW scrape \in Scrapes, Scrape(scrape)
      PROVE  /\ cache' \in [gauges : SUBSET Gauges, fresh : BOOLEAN]
             /\ cache.fresh => cache'.fresh /\ fetched' = fetched
             /\ fetched' = fetched \/ fetched' = fetched + 1
  BY <1>2, Scraped DEF Scrape
<1> QED
  BY <1>1, <1>2 DEF CollectCustom, ScrapeFails

LEMMA CustomStep == HostInv /\ CollectCustom => HostInv'
<1> SUFFICES ASSUME HostInv, CollectCustom PROVE HostInv'
  OBVIOUS
<1>1. /\ stage = "custom" /\ stage' = "idle" /\ fetched <= 1 /\ fetched \in 0 .. 2
      /\ UNCHANGED <<config, filled, writers, share, features, span, cpuVars, hostScrape, ticks>>
  BY DEF CollectCustom, HostInv, HostTypeOK, FetchInv, snapshotVars
<1>2. /\ cache' \in [gauges : SUBSET Gauges, fresh : BOOLEAN]
      /\ cache.fresh => cache'.fresh
      /\ fetched' = fetched \/ fetched' = fetched + 1
  BY CustomFetch DEF HostInv
<1>3. HostTypeOK'
  <2>1. fetched' \in 0 .. 2
    BY <1>1, <1>2
  <2> QED
    BY <1>1, <1>2, <2>1, CpuTypes DEF HostInv, HostTypeOK
<1>4. StageInv'
  BY <1>1 DEF HostInv, StageInv, Blank
<1>5. PolicyInv' /\ FetchInv'
  BY <1>1, <1>2 DEF HostInv, PolicyInv, FetchInv, Has, HostFromProm, PolicyAllowsProm
<1>6. ShareInv'
  BY <1>1, ShareStays DEF HostInv, ShareInv
<1> QED
  BY <1>3, <1>4, <1>5, <1>6 DEF HostInv

LEMMA ExpiryStep == HostInv /\ CacheExpires => HostInv'
<1> SUFFICES ASSUME HostInv, CacheExpires PROVE HostInv'
  OBVIOUS
<1>1. /\ cache' \in [gauges : SUBSET Gauges, fresh : BOOLEAN]
      /\ hostScrape' = FALSE
      /\ UNCHANGED <<config, stage, filled, writers, share, features, span, cpuVars, fetched, ticks>>
  BY DEF CacheExpires, NoScrape, snapshotVars
<1>2. HostTypeOK'
  <2>1. HostTypeOK /\ UNCHANGED cpuVars
    BY <1>1 DEF HostInv
  <2>2. /\ prevCPUUsec' \in Nat /\ prevCPUTime' \in Nat /\ usage' \in Nat
        /\ clock' \in Nat \ {0} /\ since' \in [known : BOOLEAN, used : Nat, time : Nat]
    BY <2>1, CpuTypes
  <2>3. /\ filled' \in BOOLEAN /\ writers' \in [Fields -> SUBSET Sources]
        /\ share' \in 0 .. MaxShare /\ features' \subseteq {"prometheus", "db", "redis", "go-runtime"}
        /\ span' \in [known : BOOLEAN, used : Nat, time : Nat]
        /\ ticks' \in 0 .. MaxTicks /\ fetched' \in 0 .. 2 /\ hostScrape' \in BOOLEAN
    BY <1>1, <2>1 DEF HostTypeOK
  <2> QED
    BY <1>1, <2>1, <2>2, <2>3 DEF HostTypeOK
<1>3. StageInv' /\ PolicyInv' /\ FetchInv'
  BY <1>1 DEF HostInv, StageInv, Blank, FromServer, FromLocal, LocalEnough, Leftover,
     FromProc, Complete, PolicyInv, FetchInv, Has, HostFromProm, PolicyAllowsProm
<1>4. ShareInv'
  BY <1>1 DEF HostInv, ShareInv, ReadingInv, ShareIsOfInterval, cpuVars
<1> QED
  BY <1>2, <1>3, <1>4 DEF HostInv

LEMMA HostInvStep == HostInv /\ [HostNext]_hostMetricsVars => HostInv'
<1>1. HostInv /\ UNCHANGED hostMetricsVars => HostInv'
  <2> SUFFICES ASSUME HostInv, UNCHANGED hostMetricsVars PROVE HostInv'
    OBVIOUS
  <2>1. UNCHANGED <<config, stage, filled, writers, share, features, span, cpuVars, cache, fetched,
                    hostScrape, ticks>>
    BY DEF hostMetricsVars, snapshotVars, cacheVars
  <2>2. HostTypeOK'
    BY <2>1, CpuTypes DEF HostInv, HostTypeOK
  <2>3. StageInv' /\ PolicyInv' /\ FetchInv'
    BY <2>1 DEF HostInv, StageInv, Blank, FromServer, FromLocal, LocalEnough, Leftover,
       FromProc, Complete, PolicyInv, FetchInv, Has, HostFromProm, PolicyAllowsProm
  <2>4. ShareInv'
    BY <2>1 DEF HostInv, ShareInv, ReadingInv, ShareIsOfInterval, cpuVars
  <2> QED
    BY <2>2, <2>3, <2>4 DEF HostInv
<1> QED
  BY <1>1, BeginStep, ServerStep, LocalStep, DecideStep, ProcStep, ContainerStep,
     PostStep, CustomStep, ExpiryStep DEF HostNext, TicksDone

LEMMA HostInvariant == HostSpec => []HostInv
BY HostInvInit, HostInvStep, PTL DEF HostSpec

-----------------------------------------------------------------------------
(***************************************************************************)
(* The types, and with them that a tick fetches the local page at most     *)
(* twice.                                                                  *)
(***************************************************************************)
THEOREM HostTypeCorrect == HostSpec => []HostTypeOK
<1>1. HostInv => HostTypeOK
  BY DEF HostInv
<1> QED
  BY <1>1, HostInvariant, PTL

LEMMA AtMostOne ==
  ASSUME NEW S, NEW x, S \subseteq {x}
  PROVE  Cardinality(S) <= 1
<1>1. CASE S = {}
  BY <1>1, FS_EmptySet
<1>2. CASE S = {x}
  BY <1>2, FS_Singleton
<1> QED
  BY <1>1, <1>2

(***************************************************************************)
(* No field of a snapshot has two sources, but for the CPU share and for   *)
(* load5 and load15 of a local page without load1 and memory.              *)
(***************************************************************************)
THEOREM SourcesDoNotMixThm == HostSpec => []SourcesDoNotMix
<1>1. HostInv => SourcesDoNotMix
  <2> SUFFICES ASSUME HostInv PROVE SourcesDoNotMix
    OBVIOUS
  <2>1. \A src : src \in AllWriters <=> Has(src)
    BY DEF AllWriters, Has
  <2>2. CASE Blank
    <3>1. AllWriters = {} /\ \A f \in Fields : Cardinality(writers[f]) <= 1
      BY <2>2, FS_EmptySet DEF Blank, AllWriters
    <3> QED
      BY <3>1 DEF SourcesDoNotMix
  <2>3. CASE FromServer
    <3>1. ASSUME NEW f \in Fields
          PROVE  \/ Cardinality(writers[f]) <= 1
                 \/ f = "cpuPct" /\ writers[f] = {"server", "cgroup"}
      <4>1. \/ writers[f] \subseteq {"server"} \/ writers[f] \subseteq {"cgroup"}
            \/ f = "cpuPct" /\ writers[f] = {"server", "cgroup"}
        BY <2>3 DEF FromServer, Beside
      <4> QED
        BY <4>1, AtMostOne
    <3>2. AllWriters \subseteq {"server", "cgroup"}
      BY <2>3 DEF FromServer, Beside, AllWriters
    <3>3. config.host = "sdk" => ~Has("server")
      BY DEF HostInv, PolicyInv, HostFromProm, PolicyAllowsProm
    <3> QED
      BY <2>1, <3>1, <3>2, <3>3 DEF SourcesDoNotMix
  <2>4. CASE FromLocal \/ Leftover
    <3>1. ASSUME NEW f \in Fields PROVE Cardinality(writers[f]) <= 1
      <4>1. writers[f] \subseteq {"local"} \/ writers[f] \subseteq {"cgroup"}
        BY <2>4 DEF FromLocal, Leftover, Beside, LocalFields, Loads, Memory
      <4> QED
        BY <4>1, AtMostOne
    <3>2. AllWriters \subseteq {"local", "cgroup"}
      BY <2>4 DEF FromLocal, Leftover, Beside, AllWriters
    <3>3. config.host = "sdk" => ~Has("local")
      BY DEF HostInv, PolicyInv, HostFromProm, PolicyAllowsProm
    <3> QED
      BY <2>1, <3>1, <3>2, <3>3 DEF SourcesDoNotMix
  <2>5. CASE FromProc
    <3>1. ASSUME NEW f \in Fields
          PROVE  \/ Cardinality(writers[f]) <= 1
                 \/ f \in {"load5", "load15"} /\ writers[f] = {"local", "proc"}
      <4>1. \/ writers[f] \subseteq {"proc"} \/ writers[f] \subseteq {"cgroup"}
            \/ writers[f] \subseteq {"local"}
            \/ f \in {"load5", "load15"} /\ writers[f] = {"local", "proc"}
        BY <2>5 DEF FromProc
      <4> QED
        BY <4>1, AtMostOne
    <3>2. "server" \notin AllWriters
      BY <2>5 DEF FromProc, AllWriters
    <3>3. config.host = "sdk" => ~Has("local")
      BY DEF HostInv, PolicyInv, HostFromProm, PolicyAllowsProm
    <3>4. "prometheus" \notin features
      BY <2>5 DEF FromProc
    <3> QED
      BY <2>1, <3>1, <3>2, <3>3, <3>4 DEF SourcesDoNotMix
  <2> QED
    BY <2>2, <2>3, <2>4, <2>5 DEF HostInv, HostTypeOK, StageInv, Complete
<1> QED
  BY <1>1, HostInvariant, PTL

(***************************************************************************)
(* A snapshot that is sent has a load, the memory or a value of the server *)
(* in it, or /proc was asked for everything.                               *)
(***************************************************************************)
THEOREM FallsBackThm == HostSpec => []FallsBack
<1>1. HostInv => FallsBack
  <2> SUFFICES ASSUME HostInv, stage = "post"
               PROVE  \/ "proc" \in writers["cores"]
                      \/ "server" \in AllWriters
                      \/ writers["load1"] # {} \/ writers["memTotal"] # {}
    BY DEF FallsBack
  <2>1. Complete
    BY DEF HostInv, StageInv
  <2> QED
    BY <2>1 DEF Complete, Has, AllWriters, LocalEnough, FromProc
<1> QED
  BY <1>1, HostInvariant, PTL

(***************************************************************************)
(* The container's CPU share is the true percentage of the time from one   *)
(* reading of cpu.stat to the next, rounded down and cut off, and it is    *)
(* there exactly if both times have grown since an earlier reading.        *)
(***************************************************************************)
THEOREM ShareIsOfIntervalThm == HostSpec => []ShareIsOfInterval
<1>1. HostInv => ShareIsOfInterval
  BY DEF HostInv, ShareInv
<1> QED
  BY <1>1, HostInvariant, PTL

(***************************************************************************)
(* Once the host group has used a scrape the custom metrics do not fetch   *)
(* the page again, unless that scrape has expired.                         *)
(***************************************************************************)
THEOREM OneScrapePerTickThm == HostSpec => OneScrapePerTick
<1>1. HostInv /\ [HostNext]_hostMetricsVars =>
        [stage = "custom" /\ hostScrape => fetched' = fetched]_hostMetricsVars
  <2> SUFFICES ASSUME HostInv, HostNext, stage = "custom", hostScrape
               PROVE  fetched' = fetched
    OBVIOUS
  <2>1. cache.fresh
    BY DEF HostInv, FetchInv
  <2>2. CASE CollectCustom
    BY <2>1, <2>2, CustomFetch DEF HostInv
  <2>3. CASE CacheExpires
    BY <2>3 DEF CacheExpires
  <2>4. CASE TicksDone
    BY <2>4 DEF TicksDone
  <2> QED
    BY <2>2, <2>3, <2>4 DEF HostNext, BeginTick, QueryServer, QueryLocal, Decide,
       FillFromProc, FillContainer, Post
<1> QED
  BY <1>1, HostInvariant, PTL DEF HostSpec, OneScrapePerTick
=============================================================================
