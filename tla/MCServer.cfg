\* One service, a request inside the gate and one outside.
CONSTANTS
  chat = chat
  stray = stray
  ServiceCount = 1
  Requests = {chat, stray}
  Tasks = {t1, t2}
  Kind <- MCKind
SPECIFICATION ServerSpec
INVARIANTS SpanBoundary DrainCoversSpans
PROPERTIES ToldAtShutdown SpanEnds
CHECK_DEADLOCK FALSE
