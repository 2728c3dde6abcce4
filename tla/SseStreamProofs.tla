--------------------------- MODULE SseStreamProofs ---------------------------
(***************************************************************************)
(* Proofs about SseStream for any events, sizes, budget and timer.         *)
(*                                                                         *)
(* The bound on what is retained needs that the flush loop only takes      *)
(* events whose producer still waits.  That no wake-up is lost needs, of   *)
(* the platform's stream, that a read only waits on an empty queue and     *)
(* that an empty queue has size zero.  The latter is an induction over the *)
(* queue; Totals carries it without one, by the running totals themselves. *)
(*                                                                         *)
(* The account of every event is kept apart, in CInv: where each is, what  *)
(* its producer was told, and, of two calls, that the first is never the   *)
(* later in any of the three sequences on the way to the consumer.         *)
(***************************************************************************)
EXTENDS SseStream, WellFoundedInduction, TLAPS

\* `total` is the sum of the weights of s: running totals lead up to it.
RunningTotals(s, total, weight) ==
  \E p \in [0 .. Len(s) -> Int] :
    /\ p[0] = 0 /\ p[Len(s)] = total
    /\ \A i \in 1 .. Len(s) : p[i] = p[i - 1] + weight[s[i]]

\* The weights of the platform's queue.
Chunks == [f \in Frames |-> ChunkSize(f)]

Totals(s, total) == RunningTotals(s, total, Chunks)

\* Exactly the parked events wait, each once.
WaitersShape ==
  /\ \A i \in 1 .. Len(waiters) : verdict[waiters[i]] = "parked"
  /\ \A i, j \in 1 .. Len(waiters) : waiters[i] = waiters[j] => i = j

\* The platform's stream as the writer left it.
QueueShape ==
  /\ Totals(queue, queueTotalSize)
  /\ reading => queue = <<>>
  /\ closed <=> stream # "readable"

SizeShape ==
  /\ Budget => pendingSendBytes <= Limit
  /\ Budget /\ onlyAwaited => queueTotalSize < Limit + LargestFrame

EndShape ==
  /\ phase # "running" => ~cleanup /\ ~heartbeat
  /\ EndIsClean

IInv == TypeOK /\ WaitersShape /\ QueueShape /\ SizeShape /\ EndShape /\ NoLostWakeup

-----------------------------------------------------------------------------
(* Frames, sizes and running totals.                                       *)

LEMMA ChunkSizes ==
  ASSUME NEW f \in Frames PROVE ChunkSize(f) \in Nat \ {0} /\ (Budget => ChunkSize(f) <= LargestFrame)
  BY FramesAssumption, ConfigAssumption DEF ChunkSize, Frames

\* How running totals follow a sequence that grows and shrinks.
LEMMA RunningEmpty == \A weight : RunningTotals(<<>>, 0, weight)
<1> DEFINE q == [i \in 0 .. 0 |-> 0]
<1>1. Len(<<>>) = 0 /\ q \in [0 .. 0 -> Int] /\ q[0] = 0
  OBVIOUS
<1> HIDE DEF q
<1>2. QED
  BY <1>1 DEF RunningTotals

LEMMA RunningAppend ==
  ASSUME NEW S, NEW s \in Seq(S), NEW weight \in [S -> Int], NEW total \in Int, NEW f \in S,
         RunningTotals(s, total, weight)
  PROVE  RunningTotals(Append(s, f), total + weight[f], weight)
<1>1. PICK p \in [0 .. Len(s) -> Int] :
        /\ p[0] = 0 /\ p[Len(s)] = total
        /\ \A i \in 1 .. Len(s) : p[i] = p[i - 1] + weight[s[i]]
  BY DEF RunningTotals
<1> DEFINE q == [i \in 0 .. Len(s) + 1 |-> IF i = Len(s) + 1 THEN total + weight[f] ELSE p[i]]
<1>2. Len(Append(s, f)) = Len(s) + 1 /\ Len(s) \in Nat
  OBVIOUS
<1>3. q \in [0 .. Len(Append(s, f)) -> Int]
  BY <1>2
<1>4. q[0] = 0 /\ q[Len(s) + 1] = total + weight[f]
  BY <1>1, <1>2
<1>5. ASSUME NEW i \in 1 .. Len(s) + 1 PROVE q[i] = q[i - 1] + weight[Append(s, f)[i]]
  <2>1. CASE i = Len(s) + 1
    BY <1>1, <1>2, <2>1
  <2>2. CASE i \in 1 .. Len(s)
    <3>1. Append(s, f)[i] = s[i] /\ q[i] = p[i] /\ q[i - 1] = p[i - 1]
      BY <1>2, <2>2
    <3>2. QED
      BY <1>1, <2>2, <3>1
  <2>3. QED
    BY <1>2, <2>1, <2>2
<1> HIDE DEF q
<1>6. QED
  BY <1>2, <1>3, <1>4, <1>5 DEF RunningTotals

LEMMA RunningTail ==
  ASSUME NEW S, NEW s \in Seq(S), NEW weight \in [S -> Int], NEW total \in Int, s # <<>>,
         RunningTotals(s, total, weight)
  PROVE  RunningTotals(Tail(s), total - weight[Head(s)], weight)
<1>1. PICK p \in [0 .. Len(s) -> Int] :
        /\ p[0] = 0 /\ p[Len(s)] = total
        /\ \A i \in 1 .. Len(s) : p[i] = p[i - 1] + weight[s[i]]
  BY DEF RunningTotals
<1> DEFINE q == [i \in 0 .. Len(s) - 1 |-> p[i + 1] - p[1]]
<1>2. Len(s) \in Nat \ {0} /\ Len(Tail(s)) = Len(s) - 1 /\ Head(s) = s[1]
  OBVIOUS
<1>3. p[1] = weight[Head(s)] /\ p[1] \in Int
  <2>1. s[1] \in S /\ 1 \in 1 .. Len(s) /\ 1 - 1 = 0
    BY <1>2
  <2>2. p[1] = 0 + weight[s[1]]
    BY <1>1, <2>1
  <2>3. QED
    BY <1>2, <2>1, <2>2
<1>4. q \in [0 .. Len(Tail(s)) -> Int]
  BY <1>2
<1>5. q[0] = 0 /\ q[Len(Tail(s))] = total - weight[Head(s)]
  BY <1>1, <1>2, <1>3
<1>6. ASSUME NEW i \in 1 .. Len(Tail(s)) PROVE q[i] = q[i - 1] + weight[Tail(s)[i]]
  <2>1. Tail(s)[i] = s[i + 1] /\ i + 1 \in 1 .. Len(s)
    BY <1>2
  <2>2. p[i + 1] = p[i] + weight[s[i + 1]]
    BY <1>1, <2>1
  <2>3. q[i] = p[i + 1] - p[1] /\ q[i - 1] = p[i] - p[1] /\ p[i] \in Int
    <3>1. /\ i \in 0 .. Len(s) - 1 /\ i - 1 \in 0 .. Len(s) - 1 /\ (i - 1) + 1 = i
          /\ i \in 0 .. Len(s)
      BY <1>2
    <3>2. QED
      BY <3>1
  <2>4. weight[s[i + 1]] \in Int
    <3>1. s[i + 1] \in S
      BY <2>1
    <3>2. QED
      BY <3>1
  <2>5. QED
    BY <1>3, <2>1, <2>2, <2>3, <2>4
<1> HIDE DEF q
<1>7. QED
  BY <1>4, <1>5, <1>6 DEF RunningTotals

\* The same for the frames of the queue.
LEMMA ChunkWeights == Chunks \in [Frames -> Int] /\ \A f \in Frames : Chunks[f] = ChunkSize(f)
  BY ChunkSizes DEF Chunks

LEMMA TotalsEmpty == Totals(<<>>, 0) /\ \A total \in Int : Totals(<<>>, total) => total = 0
<1>1. Totals(<<>>, 0)
  BY RunningEmpty DEF Totals
<1>2. \A total \in Int : Totals(<<>>, total) => total = 0
  BY DEF Totals, RunningTotals
<1>3. QED
  BY <1>1, <1>2

LEMMA TotalsAppend ==
  ASSUME NEW s \in Seq(Frames), NEW total \in Int, NEW f \in Frames, Totals(s, total)
  PROVE  Totals(Append(s, f), total + ChunkSize(f))
<1>1. RunningTotals(Append(s, f), total + Chunks[f], Chunks)
  BY ChunkWeights, RunningAppend DEF Totals
<1>2. QED
  BY <1>1, ChunkWeights DEF Totals

LEMMA TotalsTail ==
  ASSUME NEW s \in Seq(Frames), NEW total \in Int, s # <<>>, Totals(s, total)
  PROVE  Totals(Tail(s), total - ChunkSize(Head(s)))
<1>1. Head(s) \in Frames
  OBVIOUS
<1>2. RunningTotals(Tail(s), total - Chunks[Head(s)], Chunks)
  BY ChunkWeights, RunningTail DEF Totals
<1>3. QED
  BY <1>1, <1>2, ChunkWeights DEF Totals
-----------------------------------------------------------------------------
(* What an enqueue does to the queue and to the wake-up.                   *)

\* Enqueueing keeps the queue's shape and never strands a parked event.
LEMMA EnqueueShape ==
  ASSUME TypeOK, QueueShape, NEW f \in Frames, Enqueue(f), ~closed
  PROVE  /\ queue' \in Seq(Frames) /\ queueTotalSize' \in Int /\ reading' \in BOOLEAN
         /\ delivered' \in Seq(Events)
         /\ pull' \in {"none", "flushing", "settling"} /\ pullAgain' \in BOOLEAN
         /\ Totals(queue', queueTotalSize') /\ ~reading'
         /\ queueTotalSize' \in {queueTotalSize, queueTotalSize + ChunkSize(f)}
         /\ started' /\ queueTotalSize' < highWaterMark => pull' = "flushing" \/ pullAgain'
<1> USE ConfigAssumption DEF TypeOK, QueueShape, Enqueue
<1>1. ChunkSize(f) \in Int
  BY ChunkSizes
<1>2. /\ pull' \in {"none", "flushing", "settling"} /\ pullAgain' \in BOOLEAN
      /\ started' /\ queueTotalSize' < highWaterMark => pull' = "flushing" \/ pullAgain'
  BY DEF PullIfWanted, pulls
<1>3. delivered' \in Seq(Events)
  <2>1. CASE reading /\ f # Beat
    <3>1. f \in Events /\ delivered' = Append(delivered, f)
      BY <2>1 DEF Receive, Frames
    <3>2. QED
      BY <3>1
  <2>2. CASE ~(reading /\ f # Beat)
    <3>1. delivered' = delivered
      BY <2>2 DEF Receive
    <3>2. QED
      BY <3>1
  <2>3. QED
    BY <2>1, <2>2
<1>4. Totals(queue', queueTotalSize')
  BY TotalsAppend
<1>5. /\ queue' \in Seq(Frames) /\ queueTotalSize' \in Int /\ ~reading'
      /\ queueTotalSize' \in {queueTotalSize, queueTotalSize + ChunkSize(f)}
  <2>1. CASE reading
    BY <2>1
  <2>2. CASE ~reading
    <3>1. queue' = Append(queue, f) /\ queueTotalSize' = queueTotalSize + ChunkSize(f) /\ ~reading'
      BY <2>2
    <3>2. QED
      BY <1>1, <3>1
  <2>3. QED
    BY <2>1, <2>2
<1>6. reading' \in BOOLEAN
  OBVIOUS
<1>7. QED
  BY <1>2, <1>3, <1>4, <1>5, <1>6
-----------------------------------------------------------------------------
(* The inductive invariant.                                                *)

LEMMA InvInit == Init => IInv
<1> SUFFICES ASSUME Init PROVE IInv
  OBVIOUS
<1> USE DEF Init
<1>1. TypeOK
  <2>1. /\ closed \in BOOLEAN /\ cleanup \in BOOLEAN /\ heartbeat \in BOOLEAN
        /\ started \in BOOLEAN /\ reading \in BOOLEAN /\ pullAgain \in BOOLEAN
    OBVIOUS
  <2>2. QED
    BY <2>1 DEF TypeOK, Verdicts
<1>2. QueueShape
  BY TotalsEmpty DEF QueueShape
<1>3. SizeShape
  BY FramesAssumption, ConfigAssumption DEF SizeShape
<1>4. WaitersShape /\ EndShape /\ NoLostWakeup
  BY DEF WaitersShape, EndShape, EndIsClean, NoLostWakeup
<1>5. QED
  BY <1>1, <1>2, <1>3, <1>4 DEF IInv

\* An enqueue of the writer, given what it does to the parked events.
LEMMA InvEnqueue ==
  ASSUME IInv, NEW f \in Frames, Enqueue(f), ~closed, UNCHANGED ends, TypeOK', WaitersShape',
         Budget => pendingSendBytes' <= Limit,
         Budget /\ onlyAwaited' => onlyAwaited /\ desiredSize > 0
  PROVE  IInv'
<1> USE DEF IInv
<1>1. QueueShape'
  BY EnqueueShape DEF QueueShape, Enqueue, ends
<1>2. SizeShape'
  <2>1. ASSUME Budget, onlyAwaited' PROVE queueTotalSize' < Limit + LargestFrame
    <3>1. queueTotalSize \in Int /\ queueTotalSize < Limit
      BY <2>1, ConfigAssumption DEF desiredSize, highWaterMark, TypeOK
    <3>2. ChunkSize(f) \in Nat /\ ChunkSize(f) <= LargestFrame
      BY <2>1, ChunkSizes
    <3>3. queueTotalSize' \in {queueTotalSize, queueTotalSize + ChunkSize(f)}
      BY EnqueueShape
    <3>4. QED
      BY <3>1, <3>2, <3>3, FramesAssumption, ConfigAssumption
  <2>2. QED
    BY <2>1 DEF SizeShape
<1>3. EndShape'
  <2>1. UNCHANGED <<phase, closed, cleanup, cleanupRuns, heartbeat, stream>>
    BY DEF ends, Enqueue
  <2>2. QED
    BY <2>1 DEF EndShape, EndIsClean
<1>4. NoLostWakeup'
  <2>1. highWaterMark \in Int
    BY ConfigAssumption DEF highWaterMark
  <2>2. desiredSize' > 0 => queueTotalSize' < highWaterMark
    BY <2>1, EnqueueShape DEF desiredSize
  <2>3. QED
    BY <2>2, EnqueueShape DEF NoLostWakeup
<1>5. QED
  BY <1>1, <1>2, <1>3, <1>4

\* Asking for a pull leaves nothing parked without one.
LEMMA Woken ==
  ASSUME TypeOK, PullIfWanted, stream' = "readable"
  PROVE  /\ pull' \in {"none", "flushing", "settling"} /\ pullAgain' \in BOOLEAN
         /\ started' /\ (reading' \/ queueTotalSize' < highWaterMark) =>
              pull' = "flushing" \/ pullAgain'
  BY DEF TypeOK, PullIfWanted, pulls

\* The same, as the action leaves the writer.
LEMMA WokenInv ==
  ASSUME IInv, PullIfWanted, stream' = "readable", queueTotalSize' \in Int PROVE NoLostWakeup'
<1>1. highWaterMark \in Int
  BY ConfigAssumption DEF highWaterMark
<1>2. \A h, q \in Int : h - q > 0 => q < h
  OBVIOUS
<1>3. desiredSize' > 0 => queueTotalSize' < highWaterMark
  BY <1>1, <1>2 DEF desiredSize, highWaterMark
<1>4. QED
  BY <1>3, Woken DEF NoLostWakeup, IInv

LEMMA InvNext == ASSUME IInv, [Next]_vars PROVE IInv'
<1> USE DEF IInv
<1>1. CASE Started
  <2> USE <1>1 DEF Started
  <2>0. pull' \in {"none", "flushing", "settling"} /\ pullAgain' \in BOOLEAN
    BY DEF TypeOK, PullIfWanted, pulls
  <2>1. TypeOK' /\ NoLostWakeup'
    <3>1. TypeOK'
      BY <2>0 DEF TypeOK, ends, parking, told, frames
    <3>2. CASE stream = "readable"
      BY <3>1, <3>2, WokenInv DEF TypeOK
    <3>3. CASE stream # "readable"
      <4>1. waiters = <<>>
        BY <3>3 DEF QueueShape, EndShape, EndIsClean
      <4>2. QED
        BY <3>1, <4>1 DEF NoLostWakeup, parking
    <3>4. QED
      BY <3>1, <3>2, <3>3
  <2>2. WaitersShape' /\ QueueShape' /\ SizeShape' /\ EndShape'
    BY DEF WaitersShape, QueueShape, SizeShape, EndShape, EndIsClean, onlyAwaited, ends, parking, told, frames
  <2>3. QED
    BY <2>1, <2>2
<1>2. CASE Read
  <2> USE <1>2 DEF Read
  <2>1. pull' \in {"none", "flushing", "settling"} /\ pullAgain' \in BOOLEAN
    BY DEF TypeOK, PullIfWanted, pulls
  <2>2. queue # <<>> =>
          Head(queue) \in Frames /\ Tail(queue) \in Seq(Frames) /\ ChunkSize(Head(queue)) \in Nat
    BY ChunkSizes DEF TypeOK
  <2>3. delivered' \in Seq(Events)
    <3>1. CASE queue # <<>> /\ Head(queue) # Beat
      <4>1. delivered' = Append(delivered, Head(queue)) /\ Head(queue) \in Events
        BY <2>2, <3>1 DEF Receive, Frames
      <4>2. QED
        BY <4>1 DEF TypeOK
    <3>2. CASE ~(queue # <<>> /\ Head(queue) # Beat)
      BY <3>2 DEF Receive, TypeOK
    <3>3. QED
      BY <3>1, <3>2
  <2>4. queue' \in Seq(Frames) /\ queueTotalSize' \in Int /\ queueTotalSize' <= queueTotalSize
    <3>1. CASE queue = <<>>
      BY <3>1 DEF TypeOK
    <3>2. CASE queue # <<>>
      <4>1. queue' = Tail(queue) /\ queueTotalSize' = queueTotalSize - ChunkSize(Head(queue))
        BY <3>2
      <4>2. QED
        BY <2>2, <3>2, <4>1 DEF TypeOK
    <3>3. QED
      BY <3>1, <3>2
  <2>5. TypeOK'
    <3>1. reading' \in BOOLEAN /\ stream' \in {"readable", "closing", "closed"}
      BY DEF TypeOK
    <3>2. QED
      BY <2>1, <2>3, <2>4, <3>1 DEF TypeOK, ends, parking, told
  <2>6. QueueShape'
    BY TotalsTail DEF QueueShape, TypeOK, ends
  <2>7. SizeShape'
    BY <2>4, FramesAssumption, ConfigAssumption DEF SizeShape, TypeOK, onlyAwaited, parking, told
  <2>8. NoLostWakeup'
    <3>1. CASE stream = "readable"
      BY <2>4, <3>1, WokenInv
    <3>2. CASE stream # "readable"
      BY <3>2 DEF QueueShape, EndShape, EndIsClean, NoLostWakeup, parking
    <3>3. QED
      BY <3>1, <3>2
  <2>9. WaitersShape' /\ EndShape'
    BY DEF WaitersShape, EndShape, EndIsClean, ends, parking, told, QueueShape
  <2>10. QED
    BY <2>5, <2>6, <2>7, <2>8, <2>9
<1>3. CASE PullSettles
  <2> USE <1>3 DEF PullSettles, ends, parking, told, frames
  <2>1. TypeOK'
    BY DEF TypeOK
  <2>2. NoLostWakeup'
    BY DEF NoLostWakeup, desiredSize, TypeOK, EndShape, EndIsClean, QueueShape
  <2>3. WaitersShape' /\ QueueShape' /\ SizeShape' /\ EndShape'
    BY DEF WaitersShape, QueueShape, SizeShape, EndShape, EndIsClean, onlyAwaited
  <2>4. QED
    BY <2>1, <2>2, <2>3
<1>4. CASE FlushOne
  <2> USE <1>4 DEF FlushOne
  <2> DEFINE e == Head(waiters)
  <2>1. e \in Events /\ e \in Frames /\ verdict[e] = "parked" /\ Size[e] \in Nat
    <3>1. Len(waiters) \in Nat \ {0} /\ e = waiters[1]
      BY DEF TypeOK
    <3>2. 1 \in 1 .. Len(waiters) /\ waiters[1] \in Events
      BY <3>1 DEF TypeOK
    <3>3. QED
      BY <3>1, <3>2, FramesAssumption DEF WaitersShape, Frames
  <2>2. ~closed /\ UNCHANGED ends
    BY DEF EndShape, EndIsClean
  <2>3. TypeOK'
    <3>1. waiters' \in Seq(Events) /\ pendingSendBytes' \in Int /\ verdict' \in [Events -> Verdicts]
      BY <2>1 DEF TypeOK, Verdicts
    <3>2. QED
      BY <2>1, <2>2, <3>1, EnqueueShape DEF TypeOK, ends, Enqueue
  <2>4. WaitersShape'
    <3>1. Len(waiters') = Len(waiters) - 1 /\ \A i \in 1 .. Len(waiters') : waiters'[i] = waiters[i + 1]
      BY DEF TypeOK
    <3>2. \A i \in 1 .. Len(waiters') : waiters'[i] # e /\ waiters'[i] \in Events
      BY <3>1 DEF TypeOK, WaitersShape
    <3>3. QED
      BY <3>1, <3>2 DEF TypeOK, WaitersShape
  <2>5. Budget => pendingSendBytes' <= Limit
    BY <2>1, ConfigAssumption DEF SizeShape, TypeOK
  <2>6. onlyAwaited' => onlyAwaited
    BY <2>1 DEF onlyAwaited, TypeOK
  <2>7. PICK f \in Frames : f = e
    BY <2>1
  <2>8. Enqueue(f)
    BY <2>7 DEF Enqueue, Receive
  <2>9. QED
    BY <2>2, <2>3, <2>4, <2>5, <2>6, <2>8, InvEnqueue
<1>5. CASE FlushDone
  <2> USE <1>5 DEF FlushDone, ends, parking, told, frames
  <2>1. TypeOK'
    BY DEF TypeOK
  <2>2. NoLostWakeup'
    <3>1. reading => desiredSize > 0
      BY TotalsEmpty, ConfigAssumption DEF QueueShape, desiredSize, highWaterMark, TypeOK
    <3>2. QED
      BY <3>1 DEF NoLostWakeup, desiredSize
  <2>3. WaitersShape' /\ QueueShape' /\ SizeShape' /\ EndShape'
    BY DEF WaitersShape, QueueShape, SizeShape, EndShape, EndIsClean, onlyAwaited
  <2>4. QED
    BY <2>1, <2>2, <2>3
<1>6. ASSUME NEW e \in Events, Send(e) PROVE IInv'
  <2> USE <1>6 DEF Send
  <2>1. TypeOK'
    BY EnqueueShape DEF TypeOK, Verdicts, Frames, ends, parking, Enqueue
  <2>2. WaitersShape'
    BY DEF WaitersShape, TypeOK, parking
  <2>3. ~onlyAwaited'
    BY DEF onlyAwaited, TypeOK
  <2>4. Enqueue(e) /\ e \in Frames /\ ~closed /\ UNCHANGED ends /\ (Budget => pendingSendBytes' <= Limit)
    BY DEF Frames, SizeShape, parking
  <2>5. QED
    BY <2>1, <2>2, <2>3, <2>4, InvEnqueue
<1>7. ASSUME NEW e \in Events, SendAwaitNow(e) PROVE IInv'
  <2> USE <1>7 DEF SendAwaitNow
  <2>1. TypeOK'
    <3>1. verdict' \in [Events -> Verdicts] /\ calls' \in Seq(Events) /\ e \in Frames
      BY DEF TypeOK, Verdicts, Frames
    <3>2. QED
      BY <3>1, EnqueueShape DEF TypeOK, ends, parking, Enqueue
  <2>2. WaitersShape'
    BY DEF WaitersShape, TypeOK, parking
  <2>3. onlyAwaited' => onlyAwaited /\ desiredSize > 0
    BY DEF onlyAwaited, TypeOK
  <2>4. Enqueue(e) /\ e \in Frames /\ ~closed /\ UNCHANGED ends /\ (Budget => pendingSendBytes' <= Limit)
    BY DEF Frames, SizeShape, parking
  <2>5. QED
    BY <2>1, <2>2, <2>3, <2>4, InvEnqueue
<1>8. ASSUME NEW e \in Events, SendAwaitRefused(e) \/ SendLate(e) PROVE IInv'
  <2> USE <1>8 DEF SendAwaitRefused, SendLate, ends, parking, frames, pulls
  <2>1. TypeOK'
    BY DEF TypeOK, Verdicts
  <2>2. WaitersShape'
    BY DEF WaitersShape, TypeOK
  <2>3. EndShape'
    BY DEF EndShape, EndIsClean, TypeOK
  <2>4. QueueShape'
    BY DEF QueueShape
  <2>5. SizeShape'
    BY DEF SizeShape, onlyAwaited, TypeOK
  <2>6. NoLostWakeup'
    BY DEF NoLostWakeup, desiredSize
  <2>7. QED
    BY <2>1, <2>2, <2>3, <2>4, <2>5, <2>6
<1>9. ASSUME NEW e \in Events, SendAwaitParks(e) PROVE IInv'
  <2> USE <1>9 DEF SendAwaitParks, ends, frames, pulls
  <2>1. TypeOK'
    BY FramesAssumption DEF TypeOK, Verdicts
  <2>2. WaitersShape'
    BY DEF WaitersShape, TypeOK
  <2>3. EndShape' /\ QueueShape'
    BY DEF EndShape, EndIsClean, QueueShape, TypeOK
  <2>4. SizeShape'
    <3>1. Budget => pendingSendBytes' <= Limit
      <4>1. pendingSendBytes' = pendingSendBytes + Size[e] /\ pendingSendBytes \in Int /\ Size[e] \in Int
        <5>1. pendingSendBytes' = pendingSendBytes + Size[e]
          OBVIOUS
        <5>2. pendingSendBytes \in Int
          BY DEF TypeOK
        <5>3. Size[e] \in Int
          BY ONLY FramesAssumption, e \in Events
        <5>4. QED
          BY ONLY <5>1, <5>2, <5>3
      <4>2. Budget => ~(pendingSendBytes + Size[e] > Limit)
        BY DEF capExceeded
      <4>3. QED
        BY ONLY <4>1, <4>2, ConfigAssumption
    <3>2. onlyAwaited' => onlyAwaited
      BY DEF onlyAwaited, TypeOK
    <3>3. QED
      BY <3>1, <3>2 DEF SizeShape
  <2>5. NoLostWakeup'
    <3>1. reading => desiredSize > 0
      BY TotalsEmpty, ConfigAssumption DEF QueueShape, desiredSize, highWaterMark, TypeOK
    <3>2. QED
      BY <3>1 DEF NoLostWakeup, desiredSize
  <2>6. QED
    BY <2>1, <2>2, <2>3, <2>4, <2>5
<1>10. CASE HeartbeatFires
  <2> USE <1>10 DEF HeartbeatFires
  <2>1. TypeOK'
    BY EnqueueShape DEF TypeOK, Verdicts, Frames, ends, parking, told, Enqueue
  <2>2. WaitersShape'
    BY DEF WaitersShape, TypeOK, parking, told
  <2>3. Budget /\ onlyAwaited' => onlyAwaited /\ desiredSize > 0
    BY ConfigAssumption DEF onlyAwaited, told, congested, desiredSize, highWaterMark, TypeOK
  <2>4. Enqueue(Beat) /\ Beat \in Frames /\ ~closed /\ UNCHANGED ends /\ (Budget => pendingSendBytes' <= Limit)
    BY DEF Frames, SizeShape, parking
  <2>5. QED
    BY <2>1, <2>2, <2>3, <2>4, InvEnqueue
<1>11. CASE Close \/ Cancel
  <2> USE <1>11 DEF Close, Cancel, RunCleanup, pulls
  <2>1. TypeOK'
    <3>1. closed' \in BOOLEAN /\ heartbeat' \in BOOLEAN /\ reading' \in BOOLEAN
      OBVIOUS
    <3>2. verdict' \in [Events -> Verdicts] /\ cleanupRuns' \in Nat
      BY DEF TypeOK, Verdicts
    <3>3. queue' \in Seq(Frames) /\ queueTotalSize' \in Int
      <4>1. CASE Close
        BY <4>1 DEF TypeOK
      <4>2. CASE Cancel
        <5>1. queue' = <<>> /\ queueTotalSize' = 0
          BY <4>2
        <5>2. QED
          BY <5>1
      <4>3. QED
        BY <4>1, <4>2
    <3>4. /\ phase' \in {"starting", "running", "failed"} /\ cleanup' \in BOOLEAN
          /\ calls' \in Seq(Events) /\ stream' \in {"readable", "closing", "closed"} /\ started' \in BOOLEAN
          /\ pull' \in {"none", "flushing", "settling"} /\ pullAgain' \in BOOLEAN
          /\ delivered' \in Seq(Events)
      BY DEF TypeOK
    <3>5. waiters' \in Seq(Events) /\ pendingSendBytes' \in Int
      <4>1. waiters' = <<>> /\ pendingSendBytes' = 0
        OBVIOUS
      <4>2. QED
        BY <4>1
    <3>6. QED
      BY <3>1, <3>2, <3>3, <3>4, <3>5 DEF TypeOK
  <2>2. WaitersShape'
    BY DEF WaitersShape
  <2>3. QueueShape'
    BY TotalsEmpty DEF QueueShape
  <2>4. SizeShape'
    BY TotalsEmpty, FramesAssumption, ConfigAssumption DEF SizeShape, onlyAwaited, TypeOK
  <2>5. EndShape' /\ NoLostWakeup'
    BY DEF EndShape, EndIsClean, NoLostWakeup, TypeOK, QueueShape
  <2>6. QED
    BY <2>1, <2>2, <2>3, <2>4, <2>5
<1>12. ASSUME NEW withCleanup \in BOOLEAN, StartReturns(withCleanup) PROVE IInv'
  <2> USE <1>12 DEF StartReturns, RunCleanup, frames, pulls, parking
  <2>1. TypeOK'
    <3>1. cleanup' \in BOOLEAN /\ heartbeat' \in BOOLEAN
      BY ConfigAssumption DEF TypeOK
    <3>2. CASE withCleanup /\ closed
      <4>1. verdict' \in [Events -> Verdicts] /\ cleanupRuns' \in Nat
        BY <3>2 DEF TypeOK, Verdicts
      <4>2. QED
        BY <3>1, <3>2, <4>1 DEF TypeOK
    <3>3. CASE ~(withCleanup /\ closed)
      BY <3>1, <3>3 DEF TypeOK
    <3>4. QED
      BY <3>2, <3>3
  <2>2. WaitersShape'
    BY DEF WaitersShape
  <2>3. QueueShape' /\ NoLostWakeup'
    BY DEF QueueShape, NoLostWakeup, desiredSize, EndShape, EndIsClean
  <2>4. SizeShape'
    BY ConfigAssumption DEF SizeShape, onlyAwaited, TypeOK
  <2>5. EndShape'
    BY DEF EndShape, EndIsClean, TypeOK
  <2>6. QED
    BY <2>1, <2>2, <2>3, <2>4, <2>5
<1>13. CASE StartThrows \/ UNCHANGED vars
  <2> USE <1>13 DEF StartThrows, vars, ends, parking, told, frames, pulls
  <2>1. TypeOK'
    BY DEF TypeOK
  <2>2. WaitersShape' /\ QueueShape' /\ SizeShape' /\ EndShape' /\ NoLostWakeup'
    BY DEF WaitersShape, QueueShape, SizeShape, EndShape, EndIsClean, NoLostWakeup, onlyAwaited, desiredSize
  <2>3. QED
    BY <2>1, <2>2
<1>14. QED
  BY <1>1, <1>2, <1>3, <1>4, <1>5, <1>6, <1>7, <1>8, <1>9, <1>10, <1>11, <1>12, <1>13 DEF Next, SendAwait

\* Every reachable state satisfies the inductive invariant.
THEOREM Inductive == Spec => []IInv
<1>1. IInv /\ [Next]_vars => IInv'
  BY InvNext
<1>2. QED
  BY InvInit, <1>1, PTL DEF Spec

-----------------------------------------------------------------------------
(* What follows from it.                                                   *)

\* The stream's variables always hold values of their types.
THEOREM TypeCorrect == Spec => []TypeOK
<1>1. IInv => TypeOK
  BY DEF IInv
<1>2. QED
  BY Inductive, <1>1, PTL

\* For any budget and any frames, the framework retains no more than the
\* queue's budget, the parked budget and one largest frame.
THEOREM Bounded == Spec => []RetainedBound
<1>1. ASSUME IInv PROVE RetainedBound
  <2> SUFFICES ASSUME Budget
               PROVE /\ pendingSendBytes <= Limit
                     /\ onlyAwaited => queuedBytes + pendingSendBytes < 2 * Limit + LargestFrame
    BY DEF RetainedBound
  <2>1. pendingSendBytes \in Int /\ pendingSendBytes <= Limit
    BY <1>1 DEF IInv, TypeOK, SizeShape
  <2>2. ASSUME onlyAwaited PROVE queuedBytes \in Int /\ queuedBytes < Limit + LargestFrame
    BY <1>1, <2>2, ConfigAssumption, FramesAssumption
    DEF IInv, TypeOK, SizeShape, queuedBytes, desiredSize, highWaterMark
  <2>3. QED
    BY <2>1, <2>2, ConfigAssumption, FramesAssumption
<1>2. QED
  BY Inductive, <1>1, PTL

\* No interleaving of the producer, the consumer and the platform's pull
\* protocol leaves parked events without a flush to come.
THEOREM Wakeup == Spec => []NoLostWakeup
<1>1. IInv => NoLostWakeup
  BY DEF IInv
<1>2. QED
  BY Inductive, <1>1, PTL

\* Every path on which a stream ends stops the timer, settles the parked
\* events and runs the cleanup exactly once.
THEOREM CleanEnd == Spec => []EndIsClean
<1>1. IInv => EndIsClean
  BY DEF IInv, EndShape
<1>2. QED
  BY Inductive, <1>1, PTL

-----------------------------------------------------------------------------
(* Presence and order in a sequence, as it grows, shrinks and is joined.   *)

\* Nothing is in the empty sequence.
LEMMA OnEmpty == \A e, g : ~Has(<<>>, e) /\ ~Ahead(<<>>, e, g)
  BY DEF Has, Ahead

\* What an append adds.
LEMMA OnAppend ==
  ASSUME NEW S, NEW s \in Seq(S), NEW f \in S
  PROVE  /\ \A e : Has(Append(s, f), e) <=> Has(s, e) \/ e = f
         /\ \A e, g : Ahead(Append(s, f), e, g) <=> Ahead(s, e, g) \/ (Has(s, e) /\ g = f)
<1> DEFINE t == Append(s, f)
<1>1. /\ Len(s) \in Nat /\ Len(t) = Len(s) + 1 /\ t[Len(s) + 1] = f
      /\ \A i \in 1 .. Len(s) : t[i] = s[i]
  OBVIOUS
<1> HIDE DEF t
<1>2. ASSUME NEW e PROVE Has(t, e) <=> Has(s, e) \/ e = f
  BY <1>1 DEF Has
<1>3. ASSUME NEW e, NEW g PROVE Ahead(t, e, g) <=> Ahead(s, e, g) \/ (Has(s, e) /\ g = f)
  <2>1. ASSUME Ahead(t, e, g) PROVE Ahead(s, e, g) \/ (Has(s, e) /\ g = f)
    <3>1. PICK i, j \in 1 .. Len(t) : i < j /\ t[i] = e /\ t[j] = g
      BY <2>1 DEF Ahead
    <3>2. i \in 1 .. Len(s) /\ s[i] = e
      BY <1>1, <3>1
    <3>3. CASE j = Len(s) + 1
      BY <1>1, <3>1, <3>2, <3>3 DEF Has
    <3>4. CASE j \in 1 .. Len(s)
      BY <1>1, <3>1, <3>2, <3>4 DEF Ahead
    <3>5. QED
      BY <1>1, <3>3, <3>4
  <2>2. ASSUME Ahead(s, e, g) PROVE Ahead(t, e, g)
    BY <1>1, <2>2 DEF Ahead
  <2>3. ASSUME Has(s, e), g = f PROVE Ahead(t, e, g)
    <3>1. PICK i \in 1 .. Len(s) : s[i] = e
      BY <2>3 DEF Has
    <3>2. i \in 1 .. Len(t) /\ Len(s) + 1 \in 1 .. Len(t) /\ i < Len(s) + 1 /\ t[i] = e /\ t[Len(s) + 1] = g
      BY <1>1, <2>3, <3>1
    <3>3. QED
      BY <3>2 DEF Ahead
  <2>4. QED
    BY <2>1, <2>2, <2>3
<1>4. QED
  BY <1>2, <1>3 DEF t

\* What a tail leaves.
LEMMA OnTail ==
  ASSUME NEW S, NEW s \in Seq(S), s # <<>>
  PROVE  /\ \A e : Has(s, e) <=> e = Head(s) \/ Has(Tail(s), e)
         /\ \A e, g : Ahead(s, e, g) <=> Ahead(Tail(s), e, g) \/ (e = Head(s) /\ Has(Tail(s), g))
<1> DEFINE t == Tail(s)
<1>1. /\ Len(t) \in Nat /\ Len(s) = Len(t) + 1 /\ Head(s) = s[1]
      /\ \A i \in 1 .. Len(t) : t[i] = s[i + 1]
  OBVIOUS
<1> HIDE DEF t
<1>2. ASSUME NEW e PROVE Has(s, e) <=> e = Head(s) \/ Has(t, e)
  <2>1. ASSUME Has(s, e) PROVE e = Head(s) \/ Has(t, e)
    <3>1. PICK i \in 1 .. Len(s) : s[i] = e
      BY <2>1 DEF Has
    <3>2. CASE i = 1
      BY <1>1, <3>1, <3>2
    <3>3. CASE i # 1
      <4>1. i - 1 \in 1 .. Len(t) /\ t[i - 1] = s[i]
        BY <1>1, <3>1, <3>3
      <4>2. QED
        BY <3>1, <4>1 DEF Has
    <3>4. QED
      BY <3>2, <3>3
  <2>2. ASSUME e = Head(s) PROVE Has(s, e)
    BY <1>1, <2>2 DEF Has
  <2>3. ASSUME Has(t, e) PROVE Has(s, e)
    <3>1. PICK i \in 1 .. Len(t) : t[i] = e
      BY <2>3 DEF Has
    <3>2. i + 1 \in 1 .. Len(s) /\ s[i + 1] = e
      BY <1>1, <3>1
    <3>3. QED
      BY <3>2 DEF Has
  <2>4. QED
    BY <2>1, <2>2, <2>3
<1>3. ASSUME NEW e, NEW g PROVE Ahead(s, e, g) <=> Ahead(t, e, g) \/ (e = Head(s) /\ Has(t, g))
  <2>1. ASSUME Ahead(s, e, g) PROVE Ahead(t, e, g) \/ (e = Head(s) /\ Has(t, g))
    <3>1. PICK i, j \in 1 .. Len(s) : i < j /\ s[i] = e /\ s[j] = g
      BY <2>1 DEF Ahead
    <3>2. j - 1 \in 1 .. Len(t) /\ t[j - 1] = g
      BY <1>1, <3>1
    <3>3. CASE i = 1
      BY <1>1, <3>1, <3>2, <3>3 DEF Has
    <3>4. CASE i # 1
      <4>1. i - 1 \in 1 .. Len(t) /\ t[i - 1] = e /\ i - 1 < j - 1
        BY <1>1, <3>1, <3>4
      <4>2. QED
        BY <3>2, <4>1 DEF Ahead
    <3>5. QED
      BY <3>3, <3>4
  <2>2. ASSUME Ahead(t, e, g) PROVE Ahead(s, e, g)
    <3>1. PICK i, j \in 1 .. Len(t) : i < j /\ t[i] = e /\ t[j] = g
      BY <2>2 DEF Ahead
    <3>2. i + 1 \in 1 .. Len(s) /\ j + 1 \in 1 .. Len(s) /\ i + 1 < j + 1 /\ s[i + 1] = e /\ s[j + 1] = g
      BY <1>1, <3>1
    <3>3. QED
      BY <3>2 DEF Ahead
  <2>3. ASSUME e = Head(s), Has(t, g) PROVE Ahead(s, e, g)
    <3>1. PICK j \in 1 .. Len(t) : t[j] = g
      BY <2>3 DEF Has
    <3>2. 1 \in 1 .. Len(s) /\ j + 1 \in 1 .. Len(s) /\ 1 < j + 1 /\ s[1] = e /\ s[j + 1] = g
      BY <1>1, <2>3, <3>1
    <3>3. QED
      BY <3>2 DEF Ahead
  <2>4. QED
    BY <2>1, <2>2, <2>3
<1>4. QED
  BY <1>2, <1>3 DEF t

\* What is in one of two sequences, or in one before the other.
LEMMA OnConcat ==
  ASSUME NEW S, NEW s \in Seq(S), NEW t \in Seq(S)
  PROVE  /\ s \o t \in Seq(S)
         /\ \A e : Has(s \o t, e) <=> Has(s, e) \/ Has(t, e)
         /\ \A e, g : Ahead(s \o t, e, g) <=> Ahead(s, e, g) \/ Ahead(t, e, g) \/ (Has(s, e) /\ Has(t, g))
<1> DEFINE u == s \o t
<1>1. /\ Len(s) \in Nat /\ Len(t) \in Nat /\ Len(u) = Len(s) + Len(t) /\ u \in Seq(S)
      /\ \A i \in 1 .. Len(s) : u[i] = s[i]
      /\ \A i \in 1 .. Len(t) : u[Len(s) + i] = t[i]
  OBVIOUS
<1> HIDE DEF u
<1>2. \A i \in 1 .. Len(u) : i > Len(s) => i - Len(s) \in 1 .. Len(t) /\ t[i - Len(s)] = u[i]
  <2> TAKE i \in 1 .. Len(u)
  <2>1. ASSUME i > Len(s) PROVE i - Len(s) \in 1 .. Len(t) /\ t[i - Len(s)] = u[i]
    <3>1. i - Len(s) \in 1 .. Len(t) /\ Len(s) + (i - Len(s)) = i
      BY <1>1, <2>1
    <3>2. QED
      BY <1>1, <3>1
  <2>2. QED
    BY <2>1
<1>3. ASSUME NEW e PROVE Has(u, e) <=> Has(s, e) \/ Has(t, e)
  <2>1. ASSUME Has(u, e) PROVE Has(s, e) \/ Has(t, e)
    <3>1. PICK i \in 1 .. Len(u) : u[i] = e
      BY <2>1 DEF Has
    <3>2. CASE i > Len(s)
      BY <1>2, <3>1, <3>2 DEF Has
    <3>3. CASE ~(i > Len(s))
      BY <1>1, <3>1, <3>3 DEF Has
    <3>4. QED
      BY <3>2, <3>3
  <2>2. ASSUME Has(s, e) PROVE Has(u, e)
    BY <1>1, <2>2 DEF Has
  <2>3. ASSUME Has(t, e) PROVE Has(u, e)
    <3>1. PICK i \in 1 .. Len(t) : t[i] = e
      BY <2>3 DEF Has
    <3>2. Len(s) + i \in 1 .. Len(u) /\ u[Len(s) + i] = e
      BY <1>1, <3>1
    <3>3. QED
      BY <3>2 DEF Has
  <2>4. QED
    BY <2>1, <2>2, <2>3
<1>4. ASSUME NEW e, NEW g
      PROVE Ahead(u, e, g) <=> Ahead(s, e, g) \/ Ahead(t, e, g) \/ (Has(s, e) /\ Has(t, g))
  <2>1. ASSUME Ahead(u, e, g) PROVE Ahead(s, e, g) \/ Ahead(t, e, g) \/ (Has(s, e) /\ Has(t, g))
    <3>1. PICK i, j \in 1 .. Len(u) : i < j /\ u[i] = e /\ u[j] = g
      BY <2>1 DEF Ahead
    <3>2. CASE i > Len(s)
      <4>1. /\ i - Len(s) \in 1 .. Len(t) /\ t[i - Len(s)] = e
            /\ j - Len(s) \in 1 .. Len(t) /\ t[j - Len(s)] = g /\ i - Len(s) < j - Len(s)
        BY <1>1, <1>2, <3>1, <3>2
      <4>2. QED
        BY <4>1 DEF Ahead
    <3>3. CASE ~(i > Len(s)) /\ j > Len(s)
      <4>1. i \in 1 .. Len(s) /\ s[i] = e /\ j - Len(s) \in 1 .. Len(t) /\ t[j - Len(s)] = g
        BY <1>1, <1>2, <3>1, <3>3
      <4>2. QED
        BY <4>1 DEF Has
    <3>4. CASE ~(j > Len(s))
      <4>1. i \in 1 .. Len(s) /\ j \in 1 .. Len(s) /\ s[i] = e /\ s[j] = g
        BY <1>1, <3>1, <3>4
      <4>2. QED
        BY <3>1, <4>1 DEF Ahead
    <3>5. QED
      BY <3>2, <3>3, <3>4
  <2>2. ASSUME Ahead(s, e, g) PROVE Ahead(u, e, g)
    BY <1>1, <2>2 DEF Ahead
  <2>3. ASSUME Ahead(t, e, g) PROVE Ahead(u, e, g)
    <3>1. PICK i, j \in 1 .. Len(t) : i < j /\ t[i] = e /\ t[j] = g
      BY <2>3 DEF Ahead
    <3>2. /\ Len(s) + i \in 1 .. Len(u) /\ Len(s) + j \in 1 .. Len(u) /\ Len(s) + i < Len(s) + j
          /\ u[Len(s) + i] = e /\ u[Len(s) + j] = g
      BY <1>1, <3>1
    <3>3. QED
      BY <3>2 DEF Ahead
  <2>4. ASSUME Has(s, e), Has(t, g) PROVE Ahead(u, e, g)
    <3>1. PICK i \in 1 .. Len(s), j \in 1 .. Len(t) : s[i] = e /\ t[j] = g
      BY <2>4 DEF Has
    <3>2. i \in 1 .. Len(u) /\ Len(s) + j \in 1 .. Len(u) /\ i < Len(s) + j /\ u[i] = e /\ u[Len(s) + j] = g
      BY <1>1, <3>1
    <3>3. QED
      BY <3>2 DEF Ahead
  <2>5. QED
    BY <2>1, <2>2, <2>3, <2>4
<1>5. QED
  BY <1>1, <1>3, <1>4 DEF u

\* Of two in an order, both are there.
LEMMA OfAhead == \A s, e, g : Ahead(s, e, g) => Has(s, e) /\ Has(s, g)
  BY DEF Ahead, Has
-----------------------------------------------------------------------------
(* The place, the bytes and the answer of every event.                     *)

\* On its way to the consumer, past the writer.
Kept(e) == Has(delivered, e) \/ Has(queue, e)

\* The answer each producer got says where its event is, once.
AnswersShape ==
  \A e \in Events :
    /\ ~(Has(delivered, e) /\ Has(queue, e)) /\ ~Ahead(delivered, e, e) /\ ~Ahead(queue, e, e)
    /\ Kept(e) => verdict[e] \in {"sent", "bypass"}
    /\ ~closed /\ verdict[e] \in {"sent", "bypass"} => Kept(e)
    /\ verdict[e] = "parked" => Has(waiters, e)
    /\ verdict[e] = "ended" => closed

\* The calls taken on are the awaited events, each once.
CallsShape ==
  \A e \in Events :
    /\ ~Ahead(calls, e, e)
    /\ Has(calls, e) => verdict[e] \in {"parked", "sent", "ended"}
    /\ verdict[e] = "parked" => Has(calls, e)

\* Of two calls, the second is nowhere unless the first is there or further.
OrderShape ==
  \A e, f \in Events :
    Ahead(calls, e, f) =>
      /\ Has(delivered, f) => Ahead(delivered, e, f)
      /\ Has(queue, f) => Has(delivered, e) \/ Ahead(queue, e, f)
      /\ Has(waiters, f) => Kept(e) \/ Ahead(waiters, e, f)

\* The parked events, by presence and order.
LEMMA WaitersApart ==
  ASSUME WaitersShape, TypeOK
  PROVE  \A e \in Events : (Has(waiters, e) => verdict[e] = "parked") /\ ~Ahead(waiters, e, e)
  BY DEF WaitersShape, TypeOK, Has, Ahead

\* Events are frames.
LEMMA FramesSeq == \A s \in Seq(Events) : s \in Seq(Frames)
  BY DEF Frames

\* An enqueue puts the frame last, behind all that are on their way.
LEMMA Enqueued ==
  ASSUME TypeOK, QueueShape, NEW f \in Frames, Enqueue(f)
  PROVE  \/ /\ \A e, g \in Events : ~Has(queue, e) /\ ~Has(queue', e) /\ ~Ahead(queue', e, g)
            /\ \A e, g \in Events :
                 /\ Has(delivered', e) <=> Has(delivered, e) \/ e = f
                 /\ Ahead(delivered', e, g) <=> Ahead(delivered, e, g) \/ (Has(delivered, e) /\ g = f)
         \/ /\ delivered' = delivered
            /\ \A e, g \in Events :
                 /\ Has(queue', e) <=> Has(queue, e) \/ e = f
                 /\ Ahead(queue', e, g) <=> Ahead(queue, e, g) \/ (Has(queue, e) /\ g = f)
<1>1. CASE reading
  <2>1. queue = <<>> /\ queue' = <<>> /\ Receive(f)
    BY <1>1 DEF QueueShape, Enqueue
  <2>2. CASE f = Beat
    <3>1. delivered' = delivered /\ \A e \in Events : e # f
      BY <2>1, <2>2, FramesAssumption DEF Receive
    <3>2. QED
      BY <2>1, <3>1, OnEmpty
  <2>3. CASE f # Beat
    <3>1. delivered' = Append(delivered, f) /\ f \in Events /\ delivered \in Seq(Events)
      BY <2>1, <2>3 DEF Receive, Frames, TypeOK
    <3>2. \A e, g \in Events :
            /\ Has(delivered', e) <=> Has(delivered, e) \/ e = f
            /\ Ahead(delivered', e, g) <=> Ahead(delivered, e, g) \/ (Has(delivered, e) /\ g = f)
      BY <3>1, OnAppend
    <3>3. QED
      BY <2>1, <3>2, OnEmpty
  <2>4. QED
    BY <2>2, <2>3
<1>2. CASE ~reading
  <2>1. queue' = Append(queue, f) /\ delivered' = delivered /\ queue \in Seq(Frames)
    BY <1>2 DEF Enqueue, TypeOK
  <2>2. \A e, g \in Events :
          /\ Has(queue', e) <=> Has(queue, e) \/ e = f
          /\ Ahead(queue', e, g) <=> Ahead(queue, e, g) \/ (Has(queue, e) /\ g = f)
    BY <2>1, OnAppend
  <2>3. QED
    BY <2>1, <2>2
<1>3. QED
  BY <1>1, <1>2

\* What it does to the account, given what the action does to the writer.
LEMMA AccountEnqueue ==
  ASSUME TypeOK, QueueShape, WaitersShape', TypeOK', AnswersShape, OrderShape,
         NEW f \in Frames, Enqueue(f), ~closed, UNCHANGED closed,
         f \in Events => ~Kept(f) /\ verdict'[f] \in {"sent", "bypass"},
         \A e \in Events : e # f => verdict'[e] = verdict[e] /\ (Has(waiters, e) => Has(waiters', e)),
         \A e, g \in Events :
           Ahead(calls', e, g) =>
             \/ g = f /\ Kept(e)
             \/ /\ g # f /\ Ahead(calls, e, g)
                /\ Has(waiters', g) => Has(waiters, g)
                /\ Ahead(waiters, e, g) => Ahead(waiters', e, g) \/ e = f
  PROVE  AnswersShape' /\ OrderShape'
<1>1. \A e \in Events : Kept(e)' <=> Kept(e) \/ e = f
  BY Enqueued DEF Kept
<1>2. AnswersShape'
  <2> SUFFICES ASSUME NEW e \in Events
               PROVE  /\ ~(Has(delivered', e) /\ Has(queue', e))
                      /\ ~Ahead(delivered', e, e) /\ ~Ahead(queue', e, e)
                      /\ Kept(e)' => verdict'[e] \in {"sent", "bypass"}
                      /\ ~closed' /\ verdict'[e] \in {"sent", "bypass"} => Kept(e)'
                      /\ verdict'[e] = "parked" => Has(waiters', e)
                      /\ verdict'[e] = "ended" => closed'
    BY DEF AnswersShape
  <2>1. ~(Has(delivered', e) /\ Has(queue', e)) /\ ~Ahead(delivered', e, e) /\ ~Ahead(queue', e, e)
    BY Enqueued DEF AnswersShape, Kept
  <2>2. CASE e = f
    BY <1>1, <2>1, <2>2
  <2>3. CASE e # f
    BY <1>1, <2>1, <2>3 DEF AnswersShape
  <2>4. QED
    BY <2>2, <2>3
<1>3. OrderShape'
  <2> SUFFICES ASSUME NEW e \in Events, NEW g \in Events, Ahead(calls', e, g)
               PROVE  /\ Has(delivered', g) => Ahead(delivered', e, g)
                      /\ Has(queue', g) => Has(delivered', e) \/ Ahead(queue', e, g)
                      /\ Has(waiters', g) => Kept(e)' \/ Ahead(waiters', e, g)
    BY DEF OrderShape
  <2>1. CASE g = f /\ Kept(e)
    <3>1. ~Has(delivered, g) /\ ~Has(queue, g)
      BY <2>1 DEF Kept
    <3>2. QED
      BY <1>1, <2>1, <3>1, Enqueued DEF Kept
  <2>2. CASE /\ g # f /\ Ahead(calls, e, g)
             /\ Has(waiters', g) => Has(waiters, g)
             /\ Ahead(waiters, e, g) => Ahead(waiters', e, g) \/ e = f
    <3>1. /\ Has(delivered, g) => Ahead(delivered, e, g)
          /\ Has(queue, g) => Has(delivered, e) \/ Ahead(queue, e, g)
          /\ Has(waiters, g) => Kept(e) \/ Ahead(waiters, e, g)
      BY <2>2 DEF OrderShape
    <3>2. Has(waiters', g) => Kept(e)' \/ Ahead(waiters', e, g)
      BY <1>1, <2>2, <3>1
    <3>3. /\ Has(delivered', g) => Ahead(delivered', e, g)
          /\ Has(queue', g) => Has(delivered', e) \/ Ahead(queue', e, g)
      BY <2>2, <3>1, Enqueued
    <3>4. QED
      BY <3>2, <3>3
  <2>3. QED
    BY <2>1, <2>2
<1>4. QED
  BY <1>2, <1>3

\* The account, and the counter as running totals of the parked sizes.
CInv ==
  AnswersShape /\ CallsShape /\ OrderShape /\ RunningTotals(waiters, pendingSendBytes, Size)

\* It holds at first.
LEMMA AccountInit == Init => CInv
<1> SUFFICES ASSUME Init PROVE CInv
  OBVIOUS
<1> USE DEF Init
<1>1. AnswersShape
  BY OnEmpty DEF AnswersShape, Kept
<1>2. CallsShape /\ OrderShape
  BY OnEmpty DEF CallsShape, OrderShape
<1>3. RunningTotals(waiters, pendingSendBytes, Size)
  BY RunningEmpty
<1>4. QED
  BY <1>1, <1>2, <1>3 DEF CInv

\* Actions that leave the events alone.
LEMMA AccountSame ==
  ASSUME CInv, UNCHANGED <<closed, parking, told, queue, delivered>>
  PROVE  CInv'
BY DEF CInv, AnswersShape, CallsShape, OrderShape, Kept, parking, told

\* Sizes are weights.
LEMMA SizesType == Size \in [Events -> Int]
  BY FramesAssumption

\* Every step keeps the account.
LEMMA AccountNext == ASSUME IInv, IInv', CInv, [Next]_vars PROVE CInv'
<1> USE DEF IInv, CInv
<1>1. CASE Started \/ PullSettles \/ FlushDone \/ StartThrows \/ UNCHANGED vars
  <2>1. UNCHANGED <<closed, parking, told, queue, delivered>>
    BY <1>1 DEF Started, PullSettles, FlushDone, StartThrows, vars, ends, parking, told, frames
  <2>2. QED
    BY <2>1, AccountSame
<1>2. CASE Read
  <2> USE <1>2 DEF Read
  <2>1. CASE queue = <<>>
    <3>1. UNCHANGED <<closed, parking, told, queue, delivered>>
      BY <2>1 DEF ends
    <3>2. QED
      BY <3>1, AccountSame
  <2>2. CASE queue # <<>>
    <3> DEFINE f == Head(queue)
    <3>1. queue' = Tail(queue) /\ Receive(f) /\ f \in Frames /\ queue \in Seq(Frames) /\ delivered \in Seq(Events)
      BY <2>2 DEF TypeOK
    <3>2. \A e, g \in Events :
            /\ Has(queue, e) <=> e = f \/ Has(queue', e)
            /\ Ahead(queue, e, g) <=> Ahead(queue', e, g) \/ (e = f /\ Has(queue', g))
      BY <2>2, <3>1, OnTail
    <3>3. \A e, g \in Events :
            /\ Has(delivered', e) <=> Has(delivered, e) \/ e = f
            /\ Ahead(delivered', e, g) <=> Ahead(delivered, e, g) \/ (Has(delivered, e) /\ g = f)
      <4>1. CASE f = Beat
        <5>1. delivered' = delivered /\ \A e \in Events : e # f
          BY <3>1, <4>1, FramesAssumption DEF Receive
        <5>2. QED
          BY <5>1
      <4>2. CASE f # Beat
        <5>1. delivered' = Append(delivered, f) /\ f \in Events
          BY <3>1, <4>2 DEF Receive, Frames
        <5>2. QED
          BY <3>1, <5>1, OnAppend
      <4>3. QED
        BY <4>1, <4>2
    <3> HIDE DEF f
    <3>4. UNCHANGED <<closed, waiters, pendingSendBytes, verdict, calls>>
      BY DEF ends, parking, told
    <3>5. \A e \in Events : Kept(e)' <=> Kept(e)
      BY <3>2, <3>3 DEF Kept
    <3>6. AnswersShape'
      <4> SUFFICES ASSUME NEW e \in Events
                   PROVE  /\ ~(Has(delivered', e) /\ Has(queue', e))
                          /\ ~Ahead(delivered', e, e) /\ ~Ahead(queue', e, e)
        BY <3>4, <3>5 DEF AnswersShape
      <4>1. QED
        BY <3>2, <3>3 DEF AnswersShape
    <3>7. OrderShape'
      <4> SUFFICES ASSUME NEW e \in Events, NEW g \in Events, Ahead(calls, e, g)
                   PROVE  /\ Has(delivered', g) => Ahead(delivered', e, g)
                          /\ Has(queue', g) => Has(delivered', e) \/ Ahead(queue', e, g)
        BY <3>4, <3>5 DEF OrderShape
      <4>1. /\ Has(delivered, g) => Ahead(delivered, e, g)
            /\ Has(queue, g) => Has(delivered, e) \/ Ahead(queue, e, g)
        BY DEF OrderShape
      <4>2. ~Ahead(queue', e, g) \/ ~(g = f)
        BY <3>2, OfAhead DEF AnswersShape
      <4>3. ~(g = f /\ Has(queue', g))
        BY <3>2 DEF AnswersShape
      <4>4. QED
        BY <3>2, <3>3, <4>1, <4>2, <4>3
    <3>8. QED
      BY <3>4, <3>6, <3>7 DEF CallsShape
  <2>3. QED
    BY <2>1, <2>2
<1>3. CASE FlushOne
  <2> USE <1>3 DEF FlushOne
  <2> DEFINE f == Head(waiters)
  <2>1. /\ f \in Events /\ f \in Frames /\ waiters \in Seq(Events) /\ waiters' = Tail(waiters)
        /\ Enqueue(f) /\ verdict' = [verdict EXCEPT ![f] = "sent"]
        /\ UNCHANGED <<closed, calls>>
    BY DEF TypeOK, Frames, ends
  <2>2. \A e, g \in Events :
          /\ Has(waiters, e) <=> e = f \/ Has(waiters', e)
          /\ Ahead(waiters, e, g) <=> Ahead(waiters', e, g) \/ (e = f /\ Has(waiters', g))
    BY <2>1, OnTail
  <2>3. RunningTotals(waiters', pendingSendBytes', Size)
    <3>1. pendingSendBytes' = pendingSendBytes - Size[f] /\ pendingSendBytes \in Int
      BY DEF TypeOK
    <3>2. RunningTotals(waiters, pendingSendBytes, Size)
      OBVIOUS
    <3>3. waiters # <<>> /\ waiters \in Seq(Events) /\ waiters' = Tail(waiters)
      BY <2>1
    <3>4. RunningTotals(Tail(waiters), pendingSendBytes - Size[f], Size)
      BY ONLY <3>1, <3>2, <3>3, SizesType, RunningTail
    <3>5. QED
      BY ONLY <3>1, <3>3, <3>4
  <2> HIDE DEF f
  <2>4. verdict[f] = "parked" /\ ~closed /\ ~Kept(f) /\ Has(waiters, f) /\ ~Has(waiters', f)
    BY <2>1, <2>2, WaitersApart DEF AnswersShape, EndShape, EndIsClean
  <2>5. /\ verdict'[f] = "sent"
        /\ \A e \in Events : e # f => verdict'[e] = verdict[e] /\ (Has(waiters, e) => Has(waiters', e))
    BY <2>1, <2>2 DEF TypeOK
  <2>6. ASSUME NEW e \in Events, NEW g \in Events, Ahead(calls', e, g)
        PROVE  \/ g = f /\ Kept(e)
               \/ /\ g # f /\ Ahead(calls, e, g)
                  /\ Has(waiters', g) => Has(waiters, g)
                  /\ Ahead(waiters, e, g) => Ahead(waiters', e, g) \/ e = f
    <3>1. Ahead(calls, e, g)
      BY <2>1, <2>6
    <3>2. CASE g = f
      <4>1. ~Ahead(waiters, e, g)
        BY <2>2, <2>4, <3>2, OfAhead
      <4>2. QED
        BY <2>4, <3>1, <3>2, <4>1 DEF OrderShape
    <3>3. CASE g # f
      BY <2>2, <3>1, <3>3
    <3>4. QED
      BY <3>2, <3>3
  <2>7. AnswersShape' /\ OrderShape'
    BY <2>1, <2>4, <2>5, <2>6, AccountEnqueue
  <2>8. CallsShape'
    BY <2>1, <2>5 DEF CallsShape
  <2>9. QED
    BY <2>3, <2>7, <2>8
<1>4. ASSUME NEW f \in Events, Send(f) PROVE CInv'
  <2> USE <1>4 DEF Send
  <2>1. /\ f \in Frames /\ Enqueue(f) /\ ~closed
        /\ verdict[f] = "new" /\ verdict' = [verdict EXCEPT ![f] = "bypass"]
        /\ UNCHANGED <<closed, calls, waiters, pendingSendBytes>>
    BY DEF Frames, ends, parking
  <2>2. ~Kept(f) /\ ~Has(calls, f) /\ ~Has(waiters, f)
    BY <2>1, WaitersApart DEF AnswersShape, CallsShape
  <2>3. verdict'[f] = "bypass" /\ \A e \in Events : e # f => verdict'[e] = verdict[e]
    BY <2>1 DEF TypeOK
  <2>4. \A e, g \in Events : Ahead(calls', e, g) => g # f /\ Ahead(calls, e, g)
    BY <2>1, <2>2, OfAhead
  <2>5. AnswersShape' /\ OrderShape'
    BY <2>1, <2>2, <2>3, <2>4, AccountEnqueue
  <2>6. CallsShape'
    BY <2>1, <2>2, <2>3 DEF CallsShape
  <2>7. QED
    BY <2>1, <2>5, <2>6
<1>5. ASSUME NEW f \in Events, SendAwaitNow(f) PROVE CInv'
  <2> USE <1>5 DEF SendAwaitNow
  <2>1. /\ f \in Frames /\ Enqueue(f) /\ ~closed /\ waiters = <<>>
        /\ verdict[f] = "new" /\ verdict' = [verdict EXCEPT ![f] = "sent"]
        /\ calls \in Seq(Events) /\ calls' = Append(calls, f)
        /\ UNCHANGED <<closed, waiters, pendingSendBytes>>
    BY DEF Frames, ends, parking, TypeOK
  <2>2. ~Kept(f) /\ ~Has(calls, f) /\ \A e \in Events : ~Has(waiters, e)
    BY <2>1, OnEmpty DEF AnswersShape, CallsShape
  <2>3. verdict'[f] = "sent" /\ \A e \in Events : e # f => verdict'[e] = verdict[e]
    BY <2>1 DEF TypeOK
  <2>4. \A e, g \in Events :
          /\ Has(calls', e) <=> Has(calls, e) \/ e = f
          /\ Ahead(calls', e, g) <=> Ahead(calls, e, g) \/ (Has(calls, e) /\ g = f)
    BY <2>1, OnAppend
  <2>5. \A e \in Events : Has(calls, e) => Kept(e)
    BY <2>1, <2>2 DEF CallsShape, AnswersShape
  <2>6. \A e, g \in Events : Ahead(calls', e, g) => (g = f /\ Kept(e)) \/ (g # f /\ Ahead(calls, e, g))
    BY <2>2, <2>4, <2>5, OfAhead
  <2>7. AnswersShape' /\ OrderShape'
    BY <2>1, <2>2, <2>3, <2>6, AccountEnqueue
  <2>8. CallsShape'
    BY <2>1, <2>2, <2>3, <2>4 DEF CallsShape
  <2>9. QED
    BY <2>1, <2>7, <2>8
<1>6. ASSUME NEW f \in Events, SendAwaitRefused(f) \/ SendLate(f) PROVE CInv'
  <2> USE <1>6 DEF SendAwaitRefused, SendLate
  <2>1. /\ verdict[f] = "new" /\ UNCHANGED <<closed, calls, waiters, pendingSendBytes, queue, delivered>>
        /\ \A e \in Events : e # f => verdict'[e] = verdict[e]
        /\ verdict'[f] = "refused" \/ (verdict'[f] = "ended" /\ closed)
    BY DEF ends, parking, frames, TypeOK
  <2>2. ~Kept(f) /\ ~Has(calls, f)
    BY <2>1 DEF AnswersShape, CallsShape
  <2>3. AnswersShape'
    <3> SUFFICES ASSUME NEW e \in Events
                 PROVE  /\ Kept(e) => verdict'[e] \in {"sent", "bypass"}
                        /\ ~closed /\ verdict'[e] \in {"sent", "bypass"} => Kept(e)
                        /\ verdict'[e] = "parked" => Has(waiters, e)
                        /\ verdict'[e] = "ended" => closed
      BY <2>1 DEF AnswersShape, Kept
    <3>1. CASE e = f
      BY <2>1, <2>2, <3>1
    <3>2. CASE e # f
      BY <2>1, <3>2 DEF AnswersShape
    <3>3. QED
      BY <3>1, <3>2
  <2>4. CallsShape' /\ OrderShape'
    BY <2>1, <2>2 DEF CallsShape, OrderShape, Kept
  <2>5. QED
    BY <2>1, <2>3, <2>4
<1>7. ASSUME NEW f \in Events, SendAwaitParks(f) PROVE CInv'
  <2> USE <1>7 DEF SendAwaitParks
  <2>1. /\ ~closed /\ verdict[f] = "new" /\ verdict' = [verdict EXCEPT ![f] = "parked"]
        /\ calls \in Seq(Events) /\ calls' = Append(calls, f)
        /\ waiters \in Seq(Events) /\ waiters' = Append(waiters, f)
        /\ UNCHANGED <<closed, queue, delivered>>
    BY DEF ends, frames, TypeOK
  <2>2. ~Kept(f) /\ ~Has(calls, f)
    BY <2>1 DEF AnswersShape, CallsShape
  <2>3. verdict'[f] = "parked" /\ \A e \in Events : e # f => verdict'[e] = verdict[e]
    BY <2>1 DEF TypeOK
  <2>4. \A e, g \in Events :
          /\ Has(calls', e) <=> Has(calls, e) \/ e = f
          /\ Ahead(calls', e, g) <=> Ahead(calls, e, g) \/ (Has(calls, e) /\ g = f)
    BY <2>1, OnAppend
  <2>5. \A e, g \in Events :
          /\ Has(waiters', e) <=> Has(waiters, e) \/ e = f
          /\ Ahead(waiters', e, g) <=> Ahead(waiters, e, g) \/ (Has(waiters, e) /\ g = f)
    BY <2>1, OnAppend
  <2>6. AnswersShape'
    <3> SUFFICES ASSUME NEW e \in Events
                 PROVE  /\ Kept(e) => verdict'[e] \in {"sent", "bypass"}
                        /\ ~closed /\ verdict'[e] \in {"sent", "bypass"} => Kept(e)
                        /\ verdict'[e] = "parked" => Has(waiters', e)
                        /\ verdict'[e] = "ended" => closed
      BY <2>1 DEF AnswersShape, Kept
    <3>1. CASE e = f
      BY <2>2, <2>3, <2>5, <3>1
    <3>2. CASE e # f
      BY <2>3, <2>5, <3>2 DEF AnswersShape
    <3>3. QED
      BY <3>1, <3>2
  <2>7. CallsShape'
    BY <2>2, <2>3, <2>4 DEF CallsShape
  <2>8. OrderShape'
    <3> SUFFICES ASSUME NEW e \in Events, NEW g \in Events, Ahead(calls', e, g)
                 PROVE  /\ Has(delivered, g) => Ahead(delivered, e, g)
                        /\ Has(queue, g) => Has(delivered, e) \/ Ahead(queue, e, g)
                        /\ Has(waiters', g) => Kept(e) \/ Ahead(waiters', e, g)
      BY <2>1 DEF OrderShape, Kept
    <3>1. CASE g = f
      <4>1. Has(calls, e) /\ verdict[e] \in {"parked", "sent"}
        BY <2>1, <2>2, <2>4, <3>1, OfAhead DEF CallsShape, AnswersShape
      <4>2. Kept(e) \/ Has(waiters, e)
        BY <2>1, <4>1 DEF AnswersShape
      <4>3. QED
        BY <2>2, <2>5, <3>1, <4>2 DEF Kept
    <3>2. CASE g # f
      BY <2>4, <2>5, <3>2 DEF OrderShape
    <3>3. QED
      BY <3>1, <3>2
  <2>9. RunningTotals(waiters', pendingSendBytes', Size)
    <3>1. pendingSendBytes' = pendingSendBytes + Size[f] /\ pendingSendBytes \in Int
      BY DEF TypeOK
    <3>2. RunningTotals(waiters, pendingSendBytes, Size)
      OBVIOUS
    <3>3. RunningTotals(Append(waiters, f), pendingSendBytes + Size[f], Size)
      BY ONLY <2>1, <3>1, <3>2, f \in Events, SizesType, RunningAppend
    <3>4. QED
      BY ONLY <2>1, <3>1, <3>3
  <2>10. QED
    BY <2>6, <2>7, <2>8, <2>9
<1>8. CASE HeartbeatFires
  <2> USE <1>8 DEF HeartbeatFires
  <2>1. /\ Beat \in Frames /\ Enqueue(Beat) /\ ~closed /\ Beat \notin Events
        /\ UNCHANGED <<closed, calls, verdict, waiters, pendingSendBytes>>
    BY FramesAssumption DEF Frames, ends, parking, told
  <2>2. \A e, g \in Events : Ahead(calls', e, g) => g # Beat /\ Ahead(calls, e, g)
    BY <2>1
  <2>3. AnswersShape' /\ OrderShape'
    BY <2>1, <2>2, AccountEnqueue
  <2>4. QED
    BY <2>1, <2>3 DEF CallsShape
<1>9. CASE Close \/ Cancel
  <2> USE <1>9 DEF Close, Cancel, RunCleanup
  <2>1. /\ closed' /\ waiters' = <<>> /\ pendingSendBytes' = 0 /\ UNCHANGED <<calls, delivered>>
        /\ verdict' = [e \in Events |-> IF verdict[e] = "parked" THEN "ended" ELSE verdict[e]]
        /\ queue' = queue \/ queue' = <<>>
    OBVIOUS
  <2>2. \A e, g \in Events :
          /\ Has(queue', e) => Has(queue, e)
          /\ Ahead(queue', e, e) => Ahead(queue, e, e)
          /\ Has(queue', g) /\ Ahead(queue, e, g) => Ahead(queue', e, g)
    BY <2>1, OnEmpty
  <2>3. AnswersShape'
    BY <2>1, <2>2 DEF AnswersShape, Kept
  <2>4. CallsShape'
    BY <2>1 DEF CallsShape
  <2>5. OrderShape'
    BY <2>1, <2>2, OnEmpty DEF OrderShape
  <2>6. QED
    BY <2>1, <2>3, <2>4, <2>5, RunningEmpty
<1>10. ASSUME NEW withCleanup \in BOOLEAN, StartReturns(withCleanup) PROVE CInv'
  <2> USE <1>10 DEF StartReturns, RunCleanup
  <2>1. CASE withCleanup /\ closed
    <3>1. /\ waiters = <<>> /\ waiters' = <<>> /\ pendingSendBytes' = 0
          /\ verdict' = verdict /\ UNCHANGED <<closed, calls, queue, delivered>>
      BY <2>1 DEF EndShape, EndIsClean, TypeOK, frames
    <3>2. QED
      BY <3>1, RunningEmpty DEF AnswersShape, CallsShape, OrderShape, Kept
  <2>2. CASE ~(withCleanup /\ closed)
    <3>1. UNCHANGED <<closed, parking, told, queue, delivered>>
      BY <2>2 DEF frames, told
    <3>2. QED
      BY <3>1, AccountSame
  <2>3. QED
    BY <2>1, <2>2
<1>11. QED
  BY <1>1, <1>2, <1>3, <1>4, <1>5, <1>6, <1>7, <1>8, <1>9, <1>10 DEF Next, SendAwait

\* A property of the numbers up to n that 0 has and that each passes on.
LEMMA UpTo ==
  ASSUME NEW n \in Nat, NEW D \in SUBSET (0 .. n), 0 \notin D,
         \A i \in 1 .. n : i \in D => i - 1 \in D
  PROVE  D = {}
<1> SUFFICES ASSUME D # {} PROVE FALSE
  OBVIOUS
<1> DEFINE R == OpToRel(<, Nat)
<1>1. IsWellFoundedOn(R, Nat)
  BY NatLessThanWellFounded
<1>2. D \subseteq Nat
  OBVIOUS
<1>3. PICK x \in D : \A y \in D : <<y, x>> \notin R
  <2> HIDE DEF R
  <2> QED
    BY <1>1, <1>2, WFMin
<1>4. x \in 1 .. n /\ x - 1 \in D
  BY <1>2
<1>5. <<x - 1, x>> \in R
  <2>1. x \in Nat /\ x - 1 \in Nat /\ x - 1 < x
    BY <1>4
  <2>2. QED
    BY <2>1 DEF OpToRel
<1>6. QED
  BY <1>3, <1>4, <1>5

\* The running totals of the parked events are the recursive sum.
LEMMA SumOf ==
  ASSUME waiters \in Seq(Events), NEW total, RunningTotals(waiters, total, Size)
  PROVE  parkedSum[Len(waiters)] = total
<1> DEFINE L == Len(waiters)
           Sums(g) == g = [n \in 0 .. L |-> IF n = 0 THEN 0 ELSE g[n - 1] + Size[waiters[n]]]
<1>1. L \in Nat
  OBVIOUS
<1>2. PICK p \in [0 .. L -> Int] :
        /\ p[0] = 0 /\ p[L] = total
        /\ \A i \in 1 .. L : p[i] = p[i - 1] + Size[waiters[i]]
  BY DEF RunningTotals
<1>3. Sums(p)
  <2>1. \A n \in 0 .. L : p[n] = IF n = 0 THEN 0 ELSE p[n - 1] + Size[waiters[n]]
    BY <1>1, <1>2
  <2>2. QED
    BY <2>1
<1>4. Sums(parkedSum)
  <2>1. parkedSum = CHOOSE g : Sums(g)
    BY DEF parkedSum
  <2> HIDE DEF Sums
  <2>2. QED
    BY <1>3, <2>1
<1>5. \A n \in 0 .. L : parkedSum[n] = IF n = 0 THEN 0 ELSE parkedSum[n - 1] + Size[waiters[n]]
  BY <1>4, Zenon
<1> DEFINE D == {n \in 0 .. L : parkedSum[n] # p[n]}
<1> HIDE DEF L, Sums
<1>6. D = {}
  <2>1. 0 \notin D
    BY <1>1, <1>2, <1>5
  <2>2. ASSUME NEW i \in 1 .. L, i \in D PROVE i - 1 \in D
    <3>1. i \in 0 .. L /\ i # 0 /\ i - 1 \in 0 .. L
      BY <1>1
    <3>2. parkedSum[i] = parkedSum[i - 1] + Size[waiters[i]] /\ p[i] = p[i - 1] + Size[waiters[i]]
      BY <1>2, <1>5, <3>1
    <3>3. QED
      BY <2>2, <3>1, <3>2
  <2>3. D \in SUBSET (0 .. L)
    OBVIOUS
  <2> HIDE DEF D
  <2>4. QED
    BY <1>1, <2>1, <2>2, <2>3, UpTo
<1>7. QED
  BY <1>1, <1>2, <1>6 DEF L

\* What the account says of the property.
LEMMA Accounts == ASSUME IInv, CInv PROVE EventsAccounted
<1> USE DEF IInv, CInv
<1>1. delivered \in Seq(Frames) /\ queue \in Seq(Frames) /\ waiters \in Seq(Frames)
      /\ calls \in Seq(Events) /\ waiters \in Seq(Events)
  BY FramesSeq DEF TypeOK
<1>2. /\ delivered \o queue \in Seq(Frames)
      /\ \A e : Has(delivered \o queue, e) <=> Kept(e)
      /\ \A e, g : Ahead(delivered \o queue, e, g) <=>
           Ahead(delivered, e, g) \/ Ahead(queue, e, g) \/ (Has(delivered, e) /\ Has(queue, g))
  BY <1>1, OnConcat DEF Kept
<1>3. /\ \A e : Has(line, e) <=> Kept(e) \/ Has(waiters, e)
      /\ \A e, g : Ahead(line, e, g) <=>
           \/ Ahead(delivered, e, g) \/ Ahead(queue, e, g) \/ (Has(delivered, e) /\ Has(queue, g))
           \/ Ahead(waiters, e, g) \/ (Kept(e) /\ Has(waiters, g))
  <2> DEFINE d == delivered \o queue
  <2>1. d \in Seq(Frames) /\ waiters \in Seq(Frames) /\ line = d \o waiters
    BY <1>1, <1>2 DEF line
  <2> HIDE DEF d
  <2>2. /\ \A e : Has(line, e) <=> Has(d, e) \/ Has(waiters, e)
        /\ \A e, g : Ahead(line, e, g) <=>
             Ahead(d, e, g) \/ Ahead(waiters, e, g) \/ (Has(d, e) /\ Has(waiters, g))
    BY <2>1, OnConcat
  <2>3. QED
    BY <1>2, <2>2 DEF d
<1>4. \A e \in Events : (Has(waiters, e) => verdict[e] = "parked") /\ ~Ahead(waiters, e, e)
  BY WaitersApart
<1>5. InCallOrder
  <2>1. \A e \in Events : ~Ahead(line, e, e)
    BY <1>3, <1>4 DEF AnswersShape
  <2>2. ASSUME NEW i \in 1 .. Len(calls), NEW j \in 1 .. Len(calls), i < j, Has(line, calls[j])
        PROVE  Ahead(line, calls[i], calls[j])
    <3>1. calls[i] \in Events /\ calls[j] \in Events /\ Ahead(calls, calls[i], calls[j])
      BY <1>1, <2>2 DEF Ahead
    <3>2. QED
      BY <1>3, <2>2, <3>1 DEF OrderShape, Kept
  <2>3. ASSUME ~closed, NEW i \in 1 .. Len(calls) PROVE Has(line, calls[i])
    <3>1. calls[i] \in Events /\ Has(calls, calls[i])
      BY <1>1 DEF Has
    <3>2. QED
      BY <1>3, <2>3, <3>1 DEF CallsShape, AnswersShape
  <2>4. ASSUME NEW i \in 1 .. Len(waiters) PROVE Has(calls, waiters[i])
    <3>1. waiters[i] \in Events
      BY <1>1
    <3>2. QED
      BY <3>1 DEF CallsShape, WaitersShape
  <2>5. QED
    BY <2>1, <2>2, <2>3, <2>4 DEF InCallOrder
<1>6. ParkedBytes
  BY <1>1, SumOf DEF ParkedBytes
<1>7. AnswersHonest
  BY <1>2 DEF AnswersHonest, AnswersShape
<1>8. QED
  BY <1>5, <1>6, <1>7 DEF EventsAccounted

\* Whatever the interleaving, an event is delivered in the order of the calls
\* or cut off with the tail, the counter is the bytes of the parked ones, and
\* the producer was told what happened to its own.
THEOREM Accounted == Spec => []EventsAccounted
<1>1. IInv /\ IInv' /\ CInv /\ [Next]_vars => CInv'
  BY AccountNext
<1>2. Spec => []CInv
  BY AccountInit, <1>1, Inductive, PTL DEF Spec
<1>3. IInv /\ CInv => EventsAccounted
  BY Accounts
<1>4. QED
  BY Inductive, <1>2, <1>3, PTL
=============================================================================
