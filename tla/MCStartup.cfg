SPECIFICATION StartupSpec
CONSTANTS
  CallCount = 3
  ServiceCount = 2
  Requests = {r1}
CHECK_DEADLOCK FALSE
INVARIANT GateCoversServer
