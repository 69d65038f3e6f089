\* Five calls and two flushes: an interval can exceed the sample cap, and each
\* flush can meet an Observe and a Track at any point.
CONSTANTS
  Durations <- MCDurations
  SlowMs = 2
  SampleCap = 3
  MaxCalls = 5
  MaxTicks = 2
SPECIFICATION SqlSpec
INVARIANTS
  SqlTypeOK
  EveryObservationOnce
  OnlyRacesLose
  MetricIsInterval
