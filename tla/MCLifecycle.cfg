\* Three services, so that both loops have a middle element; two requests
\* and two tasks, so that the poll can see one kind of work without the other
\* and one of a kind without its fellow.
CONSTANTS
  ServiceCount = 3
  Requests = {r1, r2}
  Tasks = {t1, t2}
SPECIFICATION Spec
INVARIANTS ServicesOutliveWork GateHolds
PROPERTIES ImplementsContract ShutdownEnds HeldIsAnswered
CHECK_DEADLOCK FALSE
