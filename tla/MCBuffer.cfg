\* One sender, two egress slots: five pushes fill every stage, make dispatch()
\* wait and shed, and overflow the ingress channel, before and during Stop.
CONSTANTS
  Senders = {s1}
  ChannelSize = 2
  BatchSize = 2
  MaxPush = 5
SPECIFICATION FairSpec
INVARIANTS
  TypeOK
  PipelineOrder
  EveryLossCounted
  StopDrains
  DrainIsComplete
  DrainNeverBlocks
PROPERTIES
  ImplementsPipeline
  EventsLeave
  StopReturns
