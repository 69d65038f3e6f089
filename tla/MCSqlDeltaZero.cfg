\* The same instance: the mean of a slow statement falls below the threshold.
CONSTANTS
  select = select
  insert = insert
  Statements <- MCStatements
  Class <- MCClass
  Durations = {1, 3}
  SlowMs = 2
  PerMinute = 2
  MaxRuns = 2
  MaxTicks = 3
  MaxPause = 2
  MaxUpsets = 1
SPECIFICATION DeltaSpec
PROPERTIES
  SecondReadingIsReal
