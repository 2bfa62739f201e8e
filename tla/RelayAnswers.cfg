\* One connection, one request, a buffer shorter than the answer.
SPECIFICATION Spec
CONSTANTS
  MaxSessions = 1
  Providers = {p1}
  Requests = {r1}
  NoProvider = NoProvider
  NoRequest = NoRequest
  Buffer = 8
  MaxChunks = 9
INVARIANTS CompleteAnswers
CHECK_DEADLOCK FALSE
