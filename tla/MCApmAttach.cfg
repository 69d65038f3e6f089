\* The host attaches one collector, as the documentation shows, after New.
CONSTANTS
  Senders = {s1}
  ChannelSize = 1
  BatchSize = 2
  MaxPush = 1
  AutoDb = autoDb
  AutoRedis = autoRedis
  HostDbs = {hostDb}
  HostRedis = {}
  Hosts = {h1}
  Hole = hole
SPECIFICATION ApmSpec
INVARIANT NilEntriesSkipped
