\* Two senders upload side by side, a partial batch is left at every point where
\* Stop may come, a metrics post shares the client with them, and the backend may
\* never answer.
CONSTANTS
  Senders = {s1, s2}
  ChannelSize = 2
  BatchSize = 2
  MaxPush = 2
  OtherCallers = {loop}
SPECIFICATION FairDeliverySpec
INVARIANTS
  NoUncountedLoss
  SentAreJudged
  OneBatchPerEvent
  StopWaitsForUploads
PROPERTIES
  StopSurvivesOutage
