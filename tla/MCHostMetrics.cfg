\* Three ticks, because a CPU share may reach over a tick that cannot read cpu.stat;
\* two microseconds used in one passed are more than the cut-off, one is less.
\* The server and the page have what the decision and its exceptions depend on.
CONSTANTS
  Extras = {"db", "go-runtime"}
  Series = {"cpuPct", "memUsed", "memTotal", "load5"}
  Shown = {"load1", "load5", "memTotal", "memAvailable"}
  MaxShare = 150
  MaxTicks = 3
  MaxUsed = 2
  MaxElapsed = 1
SPECIFICATION HostSpec
INVARIANTS
  HostTypeOK
  SourcesDoNotMix
  FallsBack
  ShareIsOfInterval
PROPERTIES
  OneScrapePerTick
