CONSTANTS
  Senders = {s1}
  ChannelSize = 2
  BatchSize = 2
  MaxPush = 2
SPECIFICATION Spec
INVARIANT StopKeepsEarlierEvents
