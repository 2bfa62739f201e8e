\* One connection, one request.
SPECIFICATION Spec
CONSTANTS
  MaxSessions = 1
  Providers = {p1}
  Requests = {r1}
  NoProvider = NoProvider
  NoRequest = NoRequest
  Buffer = 2
  MaxChunks = 1
INVARIANTS GracefulStop
CHECK_DEADLOCK FALSE
