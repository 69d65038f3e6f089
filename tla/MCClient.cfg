CONSTANTS
  Callers = {sender, metricsLoop}
  Bodies = {b}
  MaxSends = 3
SPECIFICATION FairClientSpec
INVARIANTS
  ClientTypeOK
  Ledger
  NoSilentLoss
PROPERTIES
  SendReturns
