\* One collector attached late, two callers of Shutdown, one event.
CONSTANTS
  Senders = {s1}
  ChannelSize = 1
  BatchSize = 2
  MaxPush = 1
  AutoDb = autoDb
  AutoRedis = autoRedis
  HostDbs = {hostDb}
  HostRedis = {}
  Hosts = {h1, h2}
  Hole = hole
SPECIFICATION FairApmSpec
INVARIANTS
  ApmTypeOK
  ShutdownIsComplete
  ConnectionsOutliveLoop
  FinalCollection
PROPERTIES
  ShutdownReturns
  AttachedIsAsked
