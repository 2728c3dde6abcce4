------------------------------ MODULE RateLimit ------------------------------
(***************************************************************************)
(* The rateLimit() guard over its counting store: fixed windows that start *)
(* at the first hit, concurrent requests between the guard's call of the   *)
(* store and its answer, and the Retry-After of a refusal.                 *)
(*                                                                         *)
(* The store is the application's.  The reference store counts in the turn *)
(* of the call; another may count at any moment before it answers, as an   *)
(* atomic increment, or fail having counted or not.                        *)
(***************************************************************************)
EXTENDS Naturals, FiniteSets

CONSTANTS
  Requests,   \* requests that reach a limited route
  Buckets,    \* the keys of the store: keyPrefix and what key() extracts
  Bucket,     \* the bucket of each request
  Limit,      \* the limit of its route's limiter
  Window,     \* windowMs, the same for the limiters that share a bucket
  Second,     \* milliseconds in a second, as the clock of the model counts
  EndOfTime   \* a bound on the clock

ASSUME LimiterAssumption ==
  /\ Bucket \in [Requests -> Buckets]
  /\ Limit \in [Requests -> Nat \ {0}]
  /\ Window \in Nat \ {0} /\ Second \in Nat \ {0} /\ EndOfTime \in Nat

VARIABLES
  now,         \* Date.now()
  buckets,     \* the store: a snapshot per key, resetAt = 0 while undefined
  request,     \* what the guard is doing for each request
  entry,       \* the snapshot that increment() gave it
  hitAt,       \* when the store counted it
  answeredAt,  \* when the guard answered 429
  retryAfter   \* and the seconds it named

limitVars == <<now, buckets, request, entry, hitAt, answeredAt, retryAfter>>

Snapshots == [count : Nat, resetAt : Nat]
Phases == {"new", "called", "counted", "admitted", "refused", "failed"}

LimitTypeOK ==
  /\ now \in 0 .. EndOfTime
  /\ buckets \in [Buckets -> Snapshots]
  /\ request \in [Requests -> Phases]
  /\ entry \in [Requests -> Snapshots]
  /\ hitAt \in [Requests -> 0 .. EndOfTime] /\ answeredAt \in [Requests -> 0 .. EndOfTime]
  /\ retryAfter \in [Requests -> Nat]

undefined == [count |-> 0, resetAt |-> 0]

LimitInit ==
  /\ now = 0
  /\ buckets = [b \in Buckets |-> undefined]
  /\ request = [r \in Requests |-> "new"]
  /\ entry = [r \in Requests |-> undefined]
  /\ hitAt = [r \in Requests |-> 0] /\ answeredAt = [r \in Requests |-> 0]
  /\ retryAfter = [r \in Requests |-> 0]

-----------------------------------------------------------------------------
Tick ==
  /\ now < EndOfTime
  /\ now' = now + 1
  /\ UNCHANGED <<buckets, request, entry, hitAt, answeredAt, retryAfter>>

\* The guard runs, extracts its key and calls increment().
Call(r) ==
  /\ request[r] = "new"
  /\ request' = [request EXCEPT ![r] = "called"]
  /\ UNCHANGED <<now, buckets, entry, hitAt, answeredAt, retryAfter>>

\* No window, or one that is over.
expired(b) == buckets[b].resetAt <= now

\* The snapshot after one more hit.
advanced(b) ==
  IF expired(b) THEN [count |-> 1, resetAt |-> now + Window]
                ELSE [buckets[b] EXCEPT !.count = @ + 1]

\* increment() counts the hit.
Count(r) ==
  /\ request[r] = "called"
  /\ buckets' = [buckets EXCEPT ![Bucket[r]] = advanced(Bucket[r])]
  /\ entry' = [entry EXCEPT ![r] = advanced(Bucket[r])]
  /\ hitAt' = [hitAt EXCEPT ![r] = now]
  /\ request' = [request EXCEPT ![r] = "counted"]
  /\ UNCHANGED <<now, answeredAt, retryAfter>>

\* increment() rejects: the guard throws, and the error policy answers.
StoreFails(r) ==
  /\ request[r] \in {"called", "counted"}
  /\ request' = [request EXCEPT ![r] = "failed"]
  /\ UNCHANGED <<now, buckets, entry, hitAt, answeredAt, retryAfter>>

\* Mutant: one more than the limit.
withinLimitLoose(r) == entry[r].count <= Limit[r] + 1

\* The limit-th request of a window passes.
withinLimit(r) == entry[r].count <= Limit[r]

remaining(r) == Limit[r] - entry[r].count

Admit(r) ==
  /\ request[r] = "counted" /\ withinLimit(r)
  /\ request' = [request EXCEPT ![r] = "admitted"]
  /\ UNCHANGED <<now, buckets, entry, hitAt, answeredAt, retryAfter>>

\* Mutant: whole seconds only.
secondsLeftFloor(resetAt) == IF resetAt <= now THEN 0 ELSE (resetAt - now) \div Second

\* Math.max(0, Math.ceil(...)).
secondsLeft(resetAt) == IF resetAt <= now THEN 0 ELSE (resetAt - now + Second - 1) \div Second

Refuse(r) ==
  /\ request[r] = "counted" /\ ~withinLimit(r)
  /\ request' = [request EXCEPT ![r] = "refused"]
  /\ answeredAt' = [answeredAt EXCEPT ![r] = now]
  /\ retryAfter' = [retryAfter EXCEPT ![r] = secondsLeft(entry[r].resetAt)]
  /\ UNCHANGED <<now, buckets, entry, hitAt>>

LimitNext ==
  \/ Tick
  \/ \E r \in Requests : Call(r) \/ Count(r) \/ StoreFails(r) \/ Admit(r) \/ Refuse(r)

LimitSpec == LimitInit /\ [][LimitNext]_limitVars

-----------------------------------------------------------------------------
(* Properties.                                                             *)

hits == {r \in Requests : entry[r].count > 0}
admitted == {r \in Requests : request[r] = "admitted"}

\* The requests counted with r: same bucket, same window.
window(r) == {q \in hits : Bucket[q] = Bucket[r] /\ entry[q].resetAt = entry[r].resetAt}

\* However the answers of the store interleave, a window admits no more than
\* the limit, and an admitted request's `remaining` is a bound on those
\* admitted after it by the same limit (rate-limit.ts:68, RateLimitInfo).
WindowBound ==
  \A r \in admitted :
    LET same == {q \in window(r) \cap admitted : Limit[q] = Limit[r]}
    IN  /\ Cardinality(same) <= Limit[r]
        /\ Cardinality({q \in same : entry[q].count > entry[r].count}) <= remaining(r)

\* docs/rate-limit.md, "Fixed windows", tells clients of a double burst across
\* a boundary.  As a window starts at its first hit, an interval as long as a
\* window never quite admits twice the limit, by the time of the hits.
BurstBound ==
  \A r \in admitted :
    Cardinality({q \in admitted : /\ Bucket[q] = Bucket[r] /\ Limit[q] = Limit[r]
                                  /\ hitAt[q] >= hitAt[r] /\ hitAt[q] < hitAt[r] + Window})
      < 2 * Limit[r]

\* What a limit admits is bounded, in a window and in any interval of its length.
AdmissionsBounded == WindowBound /\ BurstBound

\* A refusal is earned, by as many requests as the limit counted before it in
\* its window; and a request that heeds its Retry-After, which never exceeds
\* what is left of a window by a second, is counted in another window.
RefusalHonest ==
  \A r \in Requests : request[r] = "refused" =>
    /\ Cardinality({q \in window(r) : entry[q].count < entry[r].count}) >= Limit[r]
    /\ retryAfter[r] * Second < Window + Second
    /\ \A q \in hits : hitAt[q] >= answeredAt[r] + retryAfter[r] * Second => q \notin window(r)
=============================================================================
