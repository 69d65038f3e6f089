\* Two requests side by side or one after the other on the same recorder; a
\* body can exceed the limit; one RPC.
CONSTANTS
  Requests = {r1, r2}
  Rpcs = {rpc}
  Recorders = {c1, c2}
  Nobody = nobody
  Codes = {103, 200, 404}
  Limit = 1
  MaxBody = 2
SPECIFICATION MiddlewareSpec
SYMMETRY RecorderSymmetry
INVARIANTS
  MiddlewareTypeOK
  ExclusiveUse
  EventTellsOwnRequest
  Transparent
