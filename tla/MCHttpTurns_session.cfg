\* One turn renders while a turn of another session is in the graph.
CONSTANTS
  s1 = s1
  s2 = s2
  r1 = r1
  r2 = r2
  r3 = r3
  i1 = i1
  NoId = NoId
  NoRequest = NoRequest
  Session <- Sessions
  Request <- Requests
  SessionOf <- InSessions
  IdOf <- WithIds
  Node = {preview_render}
  MaxRepair = 1
  Window = 1
  MaxChunks = 1
  MaxVisits = 1
  MaxLive = 2
  MaxTime = 2
SPECIFICATION Spec
CHECK_DEADLOCK FALSE
INVARIANTS
  TextStaysInSession
