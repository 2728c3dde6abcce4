\* A budget of 3 bytes for frames of 1, 2, 2 and 5, and a heartbeat of 1.
CONSTANTS
  Events <- MCEvents
  Size <- MCSize
  Beat <- MCBeat
  BeatSize = 1
  LargestFrame = 5
  Budget = TRUE
  Limit = 3
  Heartbeat = TRUE
SPECIFICATION Spec
INVARIANTS RetainedBound NoLostWakeup EventsAccounted EndIsClean
PROPERTIES ParkedSettles
CHECK_DEADLOCK FALSE
