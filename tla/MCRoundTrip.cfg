SPECIFICATION Spec
CONSTANTS
  Calls <- MCCalls
  Routes <- MCRoutes
  RawIssues <- MCRawIssues
  MaxIssues = 2
  MaxSegments = 2
  Depth = 5
  Bodies <- MCBodies
  Unions <- MCUnions
CHECK_DEADLOCK FALSE
INVARIANTS  MeaningKept ResultIsTyped RefusalExplained
