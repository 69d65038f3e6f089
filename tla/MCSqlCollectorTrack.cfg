\* One call of each kind and one flush are enough for an atomic add to be lost.
CONSTANTS
  Durations <- MCDurations
  SlowMs = 2
  SampleCap = 3
  MaxCalls = 2
  MaxTicks = 1
SPECIFICATION SqlSpec
INVARIANTS
  TracksAreCounted
