\* Windows of three ticks, seconds of two, so that neither divides the other,
\* and time for a third window to begin.
CONSTANTS
  Requests <- MCRequests
  Buckets = {"login"}
  Bucket <- MCBucket
  Limit <- MCLimit
  Window = 3
  Second = 2
  EndOfTime = 6
SPECIFICATION LimitSpec
INVARIANTS AdmissionsBounded RefusalHonest
CHECK_DEADLOCK FALSE
