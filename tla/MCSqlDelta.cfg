\* Each statement may have run before the SDK came; three ticks are a baseline,
\* a failed or disturbed reading, and the one after it.
CONSTANTS
  select = select
  insert = insert
  Statements <- MCStatements
  Class <- MCClass
  Durations = {1, 3}
  SlowMs = 2
  PerMinute = 2
  MaxRuns = 2
  MaxTicks = 3
  MaxPause = 2
  MaxUpsets = 1
SPECIFICATION DeltaSpec
INVARIANTS
  DeltaTypeOK
PROPERTIES
  NeverInflated
  ExactWhenUndisturbed
