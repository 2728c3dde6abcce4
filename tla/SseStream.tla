------------------------------ MODULE SseStream ------------------------------
(***************************************************************************)
(* One sse() response: the writer an application's producer calls, the     *)
(* parked sendAwait() events in front of the stream's queue, the heartbeat *)
(* timer, and the paths on which the stream ends.                          *)
(*                                                                         *)
(* The queue, its high-water mark and the pull protocol belong to the      *)
(* platform's ReadableStream; they are modelled after its standard because *)
(* the wake-up of parked events depends on when pull is called.            *)
(* JavaScript runs to completion, so an action is one call, callback or    *)
(* microtask; the flush loop, the one loop, takes one action per turn, and *)
(* nothing else happens until it is over.                                  *)
(***************************************************************************)
EXTENDS Integers, Sequences

CONSTANTS
  Events,        \* frames the producer may send, each at most once
  Size,          \* encoded bytes of each event
  Beat,          \* the heartbeat frame
  BeatSize,      \* its encoded bytes
  LargestFrame,  \* a bound on both
  Budget,        \* is queueByteLimit configured?
  Limit,         \* queueByteLimit
  Heartbeat      \* is heartbeatMs configured?

ASSUME FramesAssumption ==
  /\ Beat \notin Events
  /\ Size \in [Events -> Nat \ {0}] /\ BeatSize \in Nat \ {0}
  /\ LargestFrame \in Nat
  /\ BeatSize <= LargestFrame /\ \A e \in Events : Size[e] <= LargestFrame

ASSUME ConfigAssumption == Budget \in BOOLEAN /\ Heartbeat \in BOOLEAN /\ Limit \in Nat \ {0}

Frames == Events \cup {Beat}

VARIABLES
  phase,             \* sse() itself: its start callback runs, it returned, it threw
  closed,            \* state.closed
  cleanup,           \* is `cleanup` defined?
  cleanupRuns,       \* how often it was called
  heartbeat,         \* is the interval timer set?
  waiters,           \* parked sendAwait() events, oldest first
  pendingSendBytes,  \* the counter kept beside them
  verdict,           \* what the producer was told of each event
  calls,             \* the sendAwait() events taken on, in the order of the calls
  stream,            \* the platform's stream; "closing" has still frames to deliver
  queue,             \* its queue
  queueTotalSize,    \* and the total size of the queue
  started,           \* its start() promise has resolved
  reading,           \* a read of the consumer waits for a frame
  pull,              \* the pull() call: none, in the flush loop, its promise settling
  pullAgain,         \* another pull was asked for meanwhile
  delivered          \* events the consumer has read

ends == <<phase, closed, cleanup, cleanupRuns, heartbeat>>
parking == <<waiters, pendingSendBytes>>
told == <<verdict, calls>>
frames == <<queue, queueTotalSize, reading, delivered>>
pulls == <<pull, pullAgain>>
vars == <<ends, parking, told, stream, frames, started, pulls>>

\* "bypass": enqueued by send().  "sent": a sendAwait() that resolved true.
\* "refused": false, the parked-bytes cap.  "ended": false, the stream ended.
Verdicts == {"new", "parked", "sent", "bypass", "refused", "ended"}

TypeOK ==
  /\ phase \in {"starting", "running", "failed"}
  /\ closed \in BOOLEAN /\ cleanup \in BOOLEAN /\ cleanupRuns \in Nat
  /\ heartbeat \in BOOLEAN
  /\ waiters \in Seq(Events) /\ pendingSendBytes \in Int
  /\ verdict \in [Events -> Verdicts] /\ calls \in Seq(Events)
  /\ stream \in {"readable", "closing", "closed"}
  /\ queue \in Seq(Frames) /\ queueTotalSize \in Int
  /\ started \in BOOLEAN /\ reading \in BOOLEAN
  /\ pull \in {"none", "flushing", "settling"} /\ pullAgain \in BOOLEAN
  /\ delivered \in Seq(Events)

Init ==
  /\ phase = "starting" /\ closed = FALSE /\ cleanup = FALSE /\ cleanupRuns = 0
  /\ heartbeat = FALSE
  /\ waiters = <<>> /\ pendingSendBytes = 0
  /\ verdict = [e \in Events |-> "new"] /\ calls = <<>>
  /\ stream = "readable" /\ queue = <<>> /\ queueTotalSize = 0
  /\ started = FALSE /\ reading = FALSE
  /\ pull = "none" /\ pullAgain = FALSE
  /\ delivered = <<>>

-----------------------------------------------------------------------------
(* The platform's stream.                                                  *)

\* The strategy: encoded bytes with a budget, otherwise one per chunk.
highWaterMark == IF Budget THEN Limit ELSE 1
ChunkSize(f) == IF ~Budget THEN 1 ELSE IF f = Beat THEN BeatSize ELSE Size[f]

desiredSize == highWaterMark - queueTotalSize

\* The stream wants frames: asked for after anything that may raise demand.
PullIfWanted ==
  IF started' /\ stream' = "readable" /\ (reading' \/ queueTotalSize' < highWaterMark)
    THEN IF pull = "none" THEN pull' = "flushing" /\ UNCHANGED pullAgain
                          ELSE pullAgain' = TRUE /\ UNCHANGED pull
    ELSE UNCHANGED pulls

\* The consumer does not see heartbeats: EventSource ignores comments.
Receive(f) == delivered' = IF f = Beat THEN delivered ELSE Append(delivered, f)

\* controller.enqueue(): to a waiting read at once, otherwise to the queue.
Enqueue(f) ==
  /\ IF reading
       THEN Receive(f) /\ UNCHANGED <<queue, queueTotalSize>>
       ELSE /\ queue' = Append(queue, f)
            /\ queueTotalSize' = queueTotalSize + ChunkSize(f)
            /\ UNCHANGED delivered
  /\ reading' = FALSE
  /\ UNCHANGED <<stream, started>>
  /\ PullIfWanted

\* No callback is running: run to completion.
idle == pull # "flushing"

\* The stream's own start() has resolved, after sse() has returned.
Started ==
  /\ idle /\ ~started /\ phase # "starting"
  /\ started' = TRUE
  /\ UNCHANGED <<ends, parking, told, stream, frames>>
  /\ PullIfWanted

\* The consumer takes a frame, which may be the last of a closing stream.
Read ==
  /\ idle /\ phase = "running" /\ stream # "closed" /\ ~reading
  /\ IF queue = <<>>
       THEN reading' = TRUE /\ UNCHANGED <<queue, queueTotalSize, delivered, stream>>
       ELSE /\ queue' = Tail(queue)
            /\ queueTotalSize' = queueTotalSize - ChunkSize(Head(queue))
            /\ Receive(Head(queue))
            /\ stream' = IF stream = "closing" /\ Len(queue) = 1 THEN "closed" ELSE stream
            /\ UNCHANGED reading
  /\ UNCHANGED <<ends, parking, told, started>>
  /\ PullIfWanted

\* The promise of the last pull() resolves; a pull asked for meanwhile follows.
PullSettles ==
  /\ pull = "settling"
  /\ pull' = IF /\ pullAgain
                /\ started /\ stream = "readable" /\ (reading \/ desiredSize > 0)
               THEN "flushing" ELSE "none"
  /\ pullAgain' = FALSE
  /\ UNCHANGED <<ends, parking, told, stream, frames, started>>

-----------------------------------------------------------------------------
(* The writer.                                                             *)

\* flushWaiters(), one turn of its loop, called by pull().
FlushOne ==
  /\ pull = "flushing" /\ waiters # <<>> /\ desiredSize > 0
  /\ waiters' = Tail(waiters)
  /\ pendingSendBytes' = pendingSendBytes - Size[Head(waiters)]
  /\ verdict' = [verdict EXCEPT ![Head(waiters)] = "sent"]
  /\ Enqueue(Head(waiters))
  /\ UNCHANGED <<ends, calls>>

FlushDone ==
  /\ pull = "flushing" /\ ~(waiters # <<>> /\ desiredSize > 0)
  /\ pull' = "settling"
  /\ UNCHANGED <<ends, parking, told, stream, frames, started, pullAgain>>

\* send(), comment() and retry(): enqueueOrFalse.
Send(e) ==
  /\ idle /\ verdict[e] = "new" /\ ~closed
  /\ verdict' = [verdict EXCEPT ![e] = "bypass"]
  /\ Enqueue(e)
  /\ UNCHANGED <<ends, parking, calls>>

\* Mutant: capacity is enough, whoever waits.
SendAwaitOvertakes(e) ==
  /\ idle /\ verdict[e] = "new" /\ ~closed
  /\ desiredSize > 0
  /\ verdict' = [verdict EXCEPT ![e] = "sent"]
  /\ calls' = Append(calls, e)
  /\ Enqueue(e)
  /\ UNCHANGED <<ends, parking>>

\* sendAwait() that overtakes nothing and finds capacity.
SendAwaitNow(e) ==
  /\ idle /\ verdict[e] = "new" /\ ~closed
  /\ waiters = <<>> /\ desiredSize > 0
  /\ verdict' = [verdict EXCEPT ![e] = "sent"]
  /\ calls' = Append(calls, e)
  /\ Enqueue(e)
  /\ UNCHANGED <<ends, parking>>

\* Mutant: the cap is compared with the event alone.
tooLarge(e) == Budget /\ Size[e] > Limit

capExceeded(e) == Budget /\ pendingSendBytes + Size[e] > Limit

\* sendAwait() over the parked-bytes cap: the declared overload outcome.
SendAwaitRefused(e) ==
  /\ idle /\ verdict[e] = "new" /\ ~closed
  /\ ~(waiters = <<>> /\ desiredSize > 0)
  /\ capExceeded(e)
  /\ verdict' = [verdict EXCEPT ![e] = "refused"]
  /\ UNCHANGED <<ends, parking, calls, stream, frames, started, pulls>>

\* Mutant: an event may park although there is capacity.
SendAwaitMayPark(e) ==
  /\ idle /\ verdict[e] = "new" /\ ~closed
  /\ ~capExceeded(e)
  /\ waiters' = Append(waiters, e)
  /\ pendingSendBytes' = pendingSendBytes + Size[e]
  /\ verdict' = [verdict EXCEPT ![e] = "parked"]
  /\ calls' = Append(calls, e)
  /\ UNCHANGED <<ends, stream, frames, started, pulls>>

\* sendAwait() that parks.
SendAwaitParks(e) ==
  /\ idle /\ verdict[e] = "new" /\ ~closed
  /\ ~(waiters = <<>> /\ desiredSize > 0)
  /\ ~capExceeded(e)
  /\ waiters' = Append(waiters, e)
  /\ pendingSendBytes' = pendingSendBytes + Size[e]
  /\ verdict' = [verdict EXCEPT ![e] = "parked"]
  /\ calls' = Append(calls, e)
  /\ UNCHANGED <<ends, stream, frames, started, pulls>>

\* Any send after the end resolves or returns false.
SendLate(e) ==
  /\ idle /\ verdict[e] = "new" /\ closed
  /\ verdict' = [verdict EXCEPT ![e] = "ended"]
  /\ UNCHANGED <<ends, parking, calls, stream, frames, started, pulls>>

congested == waiters # <<>> \/ desiredSize <= 0

\* The interval timer fires; with a budget a congested beat is skipped.
HeartbeatFires ==
  /\ idle /\ heartbeat
  /\ ~closed /\ ~(Budget /\ congested)
  /\ Enqueue(Beat)
  /\ UNCHANGED <<ends, parking, told>>

-----------------------------------------------------------------------------
(* The ways a stream ends.                                                 *)

\* Mutant: no cleanedUp flag.
RunCleanupAgain(known) ==
  /\ heartbeat' = FALSE
  /\ waiters' = <<>> /\ pendingSendBytes' = 0
  /\ verdict' = [e \in Events |-> IF verdict[e] = "parked" THEN "ended" ELSE verdict[e]]
  /\ cleanupRuns' = IF known THEN cleanupRuns + 1 ELSE cleanupRuns

\* Mutant: parked events are left to the next pull, which never comes.
RunCleanupStrands(known) ==
  /\ heartbeat' = FALSE
  /\ UNCHANGED <<waiters, pendingSendBytes, verdict>>
  /\ cleanupRuns' = IF known /\ cleanupRuns = 0 THEN 1 ELSE cleanupRuns

\* runCleanup(): the timer, the parked events, then the producer's function,
\* which start() may not have returned yet.
RunCleanup(known) ==
  /\ heartbeat' = FALSE
  /\ waiters' = <<>> /\ pendingSendBytes' = 0
  /\ verdict' = [e \in Events |-> IF verdict[e] = "parked" THEN "ended" ELSE verdict[e]]
  /\ cleanupRuns' = IF known /\ cleanupRuns = 0 THEN 1 ELSE cleanupRuns

\* writer.close(): what is queued is still delivered.
Close ==
  /\ idle /\ ~closed
  /\ closed' = TRUE
  /\ stream' = IF queue = <<>> THEN "closed" ELSE "closing"
  /\ reading' = FALSE
  /\ RunCleanup(cleanup)
  /\ UNCHANGED <<phase, cleanup, calls, queue, queueTotalSize, delivered, started, pulls>>

\* The client disconnects or the server forces the connection shut.
Cancel ==
  /\ idle /\ phase = "running" /\ stream # "closed"
  /\ closed' = TRUE
  /\ stream' = "closed" /\ queue' = <<>> /\ queueTotalSize' = 0
  /\ reading' = FALSE
  /\ RunCleanup(cleanup)
  /\ UNCHANGED <<phase, cleanup, calls, delivered, started, pulls>>

\* start(writer) returns, with a cleanup function or without; it may have
\* ended its own stream.
StartReturns(withCleanup) ==
  /\ idle /\ phase = "starting"
  /\ phase' = "running" /\ cleanup' = withCleanup
  /\ IF withCleanup /\ closed
       THEN RunCleanup(TRUE)
       ELSE heartbeat' = (Heartbeat /\ ~closed) /\ UNCHANGED <<parking, verdict, cleanupRuns>>
  /\ UNCHANGED <<closed, calls, stream, frames, started, pulls>>

\* start(writer) throws: sse() throws, and the stream never has a consumer.
StartThrows ==
  /\ idle /\ phase = "starting"
  /\ phase' = "failed"
  /\ UNCHANGED <<closed, cleanup, cleanupRuns, heartbeat>>
  /\ UNCHANGED <<parking, told, stream, frames, started, pulls>>

-----------------------------------------------------------------------------
SendAwait(e) == SendAwaitNow(e) \/ SendAwaitRefused(e) \/ SendAwaitParks(e)

Next ==
  \/ Started \/ Read \/ PullSettles \/ FlushOne \/ FlushDone
  \/ \E e \in Events : Send(e) \/ SendAwait(e) \/ SendLate(e)
  \/ HeartbeatFires
  \/ Close \/ Cancel \/ StartThrows
  \/ \E withCleanup \in BOOLEAN : StartReturns(withCleanup)

\* Microtasks run, start() returns, and the consumer keeps reading.  Nothing
\* obliges the producer to send or to close, or the timer to fire.
Fairness ==
  /\ WF_vars(Started \/ PullSettles \/ FlushOne \/ FlushDone)
  /\ WF_vars(StartThrows \/ \E withCleanup \in BOOLEAN : StartReturns(withCleanup))
  /\ WF_vars(Read)

Spec == Init /\ [][Next]_vars /\ Fairness
-----------------------------------------------------------------------------
(* What a budget promises: sse.ts:55-62, ADR-0036.                         *)

queuedBytes == IF closed THEN 0 ELSE highWaterMark - desiredSize

onlyAwaited == \A e \in Events : verdict[e] # "bypass"

\* Neither a stalled consumer nor concurrent sendAwait() calls, nor the
\* heartbeat, make the framework retain more than the queue's budget, the
\* parked budget and one largest frame; only send() may.
RetainedBound ==
  Budget =>
    /\ pendingSendBytes <= Limit
    /\ onlyAwaited => queuedBytes + pendingSendBytes < 2 * Limit + LargestFrame

\* Parked events wait for a reason: with capacity, or a read that waits for a
\* frame, the flush loop is running or will run again.  No wake-up is lost
\* between the platform's pull protocol and the writer.
NoLostWakeup ==
  waiters # <<>> /\ started /\ (reading \/ desiredSize > 0) => pull = "flushing" \/ pullAgain

Has(s, f) == \E i \in 1 .. Len(s) : s[i] = f

Ahead(s, f, g) == \E i, j \in 1 .. Len(s) : i < j /\ s[i] = f /\ s[j] = g

\* From the consumer back to the parked events.
line == delivered \o queue \o waiters

\* sendAwait() events reach the consumer in the order of the calls, none
\* twice, none missing from the middle, however they were parked and flushed;
\* the end of the stream cuts only the tail.
InCallOrder ==
  /\ \A e \in Events : ~Ahead(line, e, e)
  /\ \A i, j \in 1 .. Len(calls) :
       i < j /\ Has(line, calls[j]) => Ahead(line, calls[i], calls[j])
  /\ ~closed => \A i \in 1 .. Len(calls) : Has(line, calls[i])
  /\ \A i \in 1 .. Len(waiters) : Has(calls, waiters[i])

parkedSum[n \in 0 .. Len(waiters)] == IF n = 0 THEN 0 ELSE parkedSum[n - 1] + Size[waiters[n]]

\* The counter is the parked bytes, whichever path took an event out.
ParkedBytes == pendingSendBytes = parkedSum[Len(waiters)]

\* An event its producer was told is not accepted never reaches the consumer,
\* and a stream that is still open lost none it said it had enqueued.
AnswersHonest ==
  \A e \in Events :
    LET kept == Has(delivered \o queue, e)
    IN  /\ verdict[e] \in {"new", "parked", "refused", "ended"} => ~kept
        /\ ~closed /\ verdict[e] \in {"sent", "bypass"} => kept

\* Whether an event is parked, flushed, refused or cut off: its place among the
\* others, its bytes and the answer its producer got agree.
EventsAccounted == InCallOrder /\ ParkedBytes /\ AnswersHonest

\* A stream that ended has stopped its timer, settled every parked event and
\* run the producer's cleanup exactly once, whichever of close() and cancel
\* came first and even when start() ended its own stream; an open one has not.
EndIsClean ==
  /\ closed => ~heartbeat /\ waiters = <<>> /\ \A e \in Events : verdict[e] # "parked"
  /\ cleanupRuns = IF closed /\ cleanup THEN 1 ELSE 0
  /\ stream # "readable" => closed

\* With a consumer that makes progress, every parked event is settled.
ParkedSettles ==
  \A e \in Events :
    verdict[e] = "parked" ~> verdict[e] # "parked" \/ phase = "failed"
=============================================================================
