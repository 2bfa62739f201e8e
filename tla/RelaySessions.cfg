\* Two connections of one provider, one request.
SPECIFICATION FairSpec
CONSTANTS
  MaxSessions = 2
  Providers = {p1}
  Requests = {r1}
  NoProvider = NoProvider
  NoRequest = NoRequest
  Buffer = 1
  MaxChunks = 1
INVARIANTS NoStrandedRequest SessionIndex
PROPERTIES ResponsesEnd
CHECK_DEADLOCK FALSE
