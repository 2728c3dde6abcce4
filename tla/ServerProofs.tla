----------------------------- MODULE ServerProofs -----------------------------
(***************************************************************************)
(* Proofs about the lifecycle coordinator and about the composition that   *)
(* serve() makes around it, for any number of services, requests and       *)
(* tasks.                                                                  *)
(*                                                                         *)
(* The coordinator's safety properties do not mention the two loops'       *)
(* cursors, so none of them is inductive.  CoreInv adds, for each phase of *)
(* start-up and of shutdown, what every service is doing on either side of *)
(* the cursor, and that Bun's count and the tracked set between them miss  *)
(* no live work until the deadline has forced the connections shut.  It is *)
(* kept by the steps of serve() too, so the composition inherits what      *)
(* follows from it.                                                        *)
(*                                                                         *)
(* About the spans and the sockets the argument is a bookkeeping one: the  *)
(* span's counter is the number of unsettled tasks it counted; a request   *)
(* has a response exactly when its handler is over; and what a handler or  *)
(* a task is still doing is, until the outcome is known, among what the    *)
(* drain polls.                                                            *)
(***************************************************************************)
EXTENDS LugasServer, FiniteSetTheorems, TLAPS

\* Services on each side of a start-up or rollback cursor.
StartupShape ==
  /\ initPhase = "running" =>
       /\ initialized < ServiceCount
       /\ \A s \in Services :
            /\ s <= initialized => svc[s] = "up"
            /\ s = initialized + 1 => svc[s] \in {"down", "initializing"}
            /\ s > initialized + 1 => svc[s] = "down"
  /\ initPhase = "rollback" =>
       /\ initialized < ServiceCount /\ rollbackAt <= initialized
       /\ \A s \in Services :
            /\ s < rollbackAt => svc[s] = "up"
            /\ s = rollbackAt => svc[s] \in {"up", "disposing"}
            /\ rollbackAt < s /\ s <= initialized => svc[s] \in DisposeResults
            /\ s = initialized + 1 => svc[s] = "broken"
            /\ s > initialized + 1 => svc[s] = "down"
  /\ initPhase = "failed" =>
       /\ initialized = 0
       /\ \A s \in Services : svc[s] \in {"down", "broken"} \cup DisposeResults
  /\ initPhase = "ready" => initialized = ServiceCount

\* Services on each side of the disposal cursor.
DisposalShape ==
  /\ initPhase = "ready" /\ stage # "dispose" /\ outcome # "drained" =>
       \A s \in Services : svc[s] = "up"
  /\ initPhase = "ready" /\ stage = "dispose" =>
       \A s \in Services :
         /\ s < disposeAt => svc[s] = "up"
         /\ s = disposeAt => svc[s] \in {"up", "disposing"}
         /\ s > disposeAt => svc[s] \in DisposeResults
  /\ initPhase = "ready" /\ outcome = "drained" =>
       \A s \in Services : svc[s] \in DisposeResults
  /\ initPhase = "failed" /\ stage = "dispose" => disposeAt = 0
  /\ disposalFailures = IF initPhase = "ready" THEN {s \in Services : svc[s] = "leaked"} ELSE {}

\* The two promises meet only at the await on initPromise.
StageShape ==
  /\ stage \in {"drain", "dispose", "finished"} => initPhase \in {"ready", "failed"}
  /\ outcome # "none" <=> stage = "finished"

\* What the drain counts against what is live.
AccountShape ==
  /\ \A r \in pending : handler[r] \in {"held", "running"} /\ r \notin lost
  /\ \A r \in lost : handler[r] # "none"
  /\ outcome # "expired" =>
       \A r \in Requests : handler[r] \in {"held", "running"} /\ r \notin lost => r \in pending
  /\ \A t \in Tasks : task[t] = "running" => t \in tracked
  /\ \A t \in tracked : task[t] \in {"running", "late"}
  /\ \A t \in Tasks : task[t] = "late" => stage \in {"dispose", "finished"}
  /\ stage = "dispose" \/ outcome = "drained" => LiveWork = {}

CoreInv == TypeOK /\ StartupShape /\ DisposalShape /\ StageShape /\ AccountShape

\* A request that no route matches does not wait at the gate.
GateShape == \A r \in Requests : handler[r] \in {"running", "done"} => initPhase = "ready"

-----------------------------------------------------------------------------
(* The inductive invariant.                                                *)

LEMMA InvInit == Init => CoreInv
<1> SUFFICES ASSUME Init PROVE CoreInv
  OBVIOUS
<1> USE ServiceCountAssumption DEF Init, Services
<1>1. TypeOK
  <2>1. deadlinePassed \in BOOLEAN
    OBVIOUS
  <2>2. QED
    BY <2>1 DEF TypeOK, ServiceStates, TaskStates
<1>2. StartupShape
  BY DEF StartupShape
<1>3. DisposalShape
  BY DEF DisposalShape
<1>4. StageShape
  BY DEF StageShape
<1>5. AccountShape
  BY DEF AccountShape, LiveWork
<1>6. QED
  BY <1>1, <1>2, <1>3, <1>4, <1>5 DEF CoreInv

\* A request that arrives is live and counted, and no drain has ended yet.
LEMMA InvArrive ==
  ASSUME CoreInv, NEW r \in Requests, Arrive(r) \/ ArriveUnmatched(r) PROVE CoreInv'
<1> USE DEF CoreInv, Arrive, ArriveUnmatched, startup, work, ending
<1>1. TypeOK'
  BY DEF TypeOK
<1>2. StartupShape' /\ DisposalShape' /\ StageShape'
  BY DEF StartupShape, DisposalShape, StageShape
<1>3. AccountShape'
  <2>2. r \notin lost
    BY DEF AccountShape
  <2>3. ~(stage' = "dispose" \/ outcome' = "drained")
    BY DEF StageShape, listening, TypeOK
  <2>4. QED
    BY <2>2, <2>3 DEF AccountShape, TypeOK
<1>4. QED
  BY <1>1, <1>2, <1>3

\* A service leaves the disposal cursor settled, and is listed iff it leaked.
LEMMA InvDisposeSettles ==
  ASSUME CoreInv, NEW result \in DisposeResults, DisposeSettles(result) PROVE CoreInv'
<1> USE ServiceCountAssumption DEF CoreInv, DisposeSettles, startup, traffic, work, ending
<1>1. initPhase = "ready"
  BY DEF TypeOK, DisposalShape, StageShape
<1>2. /\ disposeAt \in Services /\ disposeAt - 1 \in 0 .. ServiceCount
      /\ svc' \in [Services -> ServiceStates]
      /\ svc'[disposeAt] = result
      /\ \A s \in Services \ {disposeAt} : svc'[s] = svc[s]
  BY DEF TypeOK, Services, ServiceStates
<1>3. disposalFailures' = {s \in Services : svc'[s] = "leaked"}
  <2>1. disposalFailures = {s \in Services : svc[s] = "leaked"}
    BY <1>1 DEF DisposalShape
  <2>2. QED
    BY <1>2, <2>1
<1>4. \A s \in Services :
         /\ s < disposeAt' => svc'[s] = "up"
         /\ s = disposeAt' => svc'[s] \in {"up", "disposing"}
         /\ s > disposeAt' => svc'[s] \in DisposeResults
  BY <1>1, <1>2 DEF DisposalShape, Services, TypeOK
<1>5. TypeOK'
  BY <1>2, <1>3 DEF TypeOK
<1>6. DisposalShape'
  BY <1>1, <1>3, <1>4 DEF DisposalShape, StageShape
<1>7. StartupShape' /\ StageShape' /\ AccountShape'
  BY <1>1 DEF StartupShape, StageShape, AccountShape, LiveWork
<1>8. QED
  BY <1>5, <1>6, <1>7

LEMMA InvCallDispose == ASSUME CoreInv, CallDispose PROVE CoreInv'
<1> USE ServiceCountAssumption DEF CoreInv, CallDispose, startup, traffic, work, ending
<1>1. initPhase = "ready"
  BY DEF TypeOK, DisposalShape, StageShape
<1>2. disposeAt \in Services /\ svc[disposeAt] = "up"
  BY <1>1 DEF TypeOK, DisposalShape, Services
<1>3. TypeOK'
  BY DEF TypeOK, ServiceStates
<1>4. DisposalShape'
  BY <1>1, <1>2 DEF DisposalShape, StageShape, TypeOK
<1>5. StartupShape' /\ StageShape' /\ AccountShape'
  BY <1>1 DEF StartupShape, StageShape, AccountShape, LiveWork
<1>6. QED
  BY <1>3, <1>4, <1>5

\* A step of the coordinator, or of a request outside its gate.
AnyNext == Next \/ \E r \in Requests : ArriveUnmatched(r)

LEMMA InvNext == ASSUME CoreInv, [AnyNext]_vars PROVE CoreInv'
<1> USE ServiceCountAssumption
    DEF CoreInv, TypeOK, StartupShape, DisposalShape, StageShape, AccountShape, LiveWork,
        Services, ServiceStates, DisposeResults, TaskStates, startup, traffic, work, ending
<1>1. ASSUME NEW s \in Services, CallInit(s) PROVE CoreInv'
  BY <1>1 DEF CallInit
<1>2. ASSUME NEW s \in Services, InitResolves(s) PROVE CoreInv'
  BY <1>2 DEF InitResolves
<1>3. ASSUME NEW s \in Services, InitRejects(s) PROVE CoreInv'
  BY <1>3 DEF InitRejects
<1>4. CASE CallRollback
  BY <1>4 DEF CallRollback
<1>5. ASSUME NEW result \in DisposeResults, RollbackSettles(result) PROVE CoreInv'
  BY <1>5 DEF RollbackSettles
<1>6. CASE RollbackDone
  BY <1>6 DEF RollbackDone
<1>7. ASSUME NEW r \in Requests, Arrive(r) \/ ArriveUnmatched(r) PROVE CoreInv'
  BY <1>7, InvArrive
<1>8. ASSUME NEW r \in Requests, Release(r) PROVE CoreInv'
  BY <1>8 DEF Release
<1>9. ASSUME NEW r \in Requests, Unavailable(r) PROVE CoreInv'
  BY <1>9 DEF Unavailable
<1>10. ASSUME NEW r \in Requests, Respond(r) PROVE CoreInv'
  BY <1>10 DEF Respond
<1>11. ASSUME NEW r \in Requests, ClientGone(r) PROVE CoreInv'
  BY <1>11 DEF ClientGone
<1>12. ASSUME NEW t \in Tasks, Track(t) PROVE CoreInv'
  BY <1>12 DEF Track
<1>13. ASSUME NEW t \in Tasks, TaskSettles(t) PROVE CoreInv'
  BY <1>13 DEF TaskSettles
<1>14. CASE Shutdown
  BY <1>14 DEF Shutdown
<1>15. CASE BeginDrain
  BY <1>15 DEF BeginDrain
<1>16. CASE DeadlinePasses
  BY <1>16 DEF DeadlinePasses
<1>17. CASE PollDrained
  BY <1>17 DEF PollDrained, WorkDone
<1>18. CASE PollExpired
  BY <1>18 DEF PollExpired, WorkDone
<1>19. CASE CallDispose
  BY <1>19, InvCallDispose
<1>20. ASSUME NEW result \in DisposeResults, DisposeSettles(result) PROVE CoreInv'
  BY <1>20, InvDisposeSettles
<1>21. CASE Report
  BY <1>21 DEF Report
<1>22. CASE UNCHANGED vars
  BY <1>22 DEF vars
<1>23. QED
  BY <1>1, <1>2, <1>3, <1>4, <1>5, <1>6, <1>7, <1>8, <1>9, <1>10, <1>11,
     <1>12, <1>13, <1>14, <1>15, <1>16, <1>17, <1>18, <1>19, <1>20, <1>21, <1>22
     DEF AnyNext, Next, ServiceStep, RequestStep, TaskStep, DisposalStep

\* Every reachable state satisfies the inductive invariant.
THEOREM Inductive == Spec => []CoreInv
<1>1. CoreInv /\ [Next]_vars => CoreInv'
  BY InvNext DEF AnyNext
<1>2. QED
  BY InvInit, <1>1, PTL DEF Spec

\* Where every request waits at the gate, none runs before start-up is over.
LEMMA GateInductive == Spec => []GateShape
<1> USE DEF GateShape, startup, traffic, work, ending
<1>1. Init => GateShape
  BY DEF Init
<1>2. ASSUME CoreInv, GateShape, [Next]_vars PROVE GateShape'
  <2> USE <1>2 DEF CoreInv, TypeOK
  <2>1. CASE ServiceStep
    BY <2>1 DEF ServiceStep, CallInit, InitResolves, InitRejects, CallRollback, RollbackSettles, RollbackDone
  <2>2. ASSUME NEW r \in Requests, RequestStep(r) PROVE GateShape'
    BY <2>2 DEF RequestStep, Arrive, settled, Release, Unavailable, Respond, ClientGone
  <2>3. CASE \E t \in Tasks : TaskStep(t)
    BY <2>3 DEF TaskStep, Track, TaskSettles
  <2>4. CASE Shutdown \/ BeginDrain \/ DeadlinePasses \/ PollDrained \/ PollExpired
    BY <2>4 DEF Shutdown, BeginDrain, DeadlinePasses, PollDrained, PollExpired
  <2>5. CASE DisposalStep
    BY <2>5 DEF DisposalStep, CallDispose, DisposeSettles, Report
  <2>6. CASE UNCHANGED vars
    BY <2>6 DEF vars
  <2> QED
    BY <1>2, <2>1, <2>2, <2>3, <2>4, <2>5, <2>6 DEF Next
<1> QED
  BY <1>1, <1>2, Inductive, PTL DEF Spec

-----------------------------------------------------------------------------
(* What follows from it.                                                   *)

\* The coordinator's variables always hold values of their types.
THEOREM CoordinatorTyped == Spec => []TypeOK
<1>1. CoreInv => TypeOK
  BY DEF CoreInv
<1>2. QED
  BY Inductive, <1>1, PTL

\* What the invariant says of a state.
LEMMA CoreSafe == ASSUME CoreInv PROVE ServicesOutliveWork /\ DependenciesUp /\ OutcomeHonest
<1>1. ServicesOutliveWork
  BY DEF CoreInv, ServicesOutliveWork, TypeOK, DisposalShape, AccountShape
<1>2. DependenciesUp
  <2> SUFFICES ASSUME NEW s \in Services, NEW dep \in Services, dep < s,
                      svc[s] \in {"initializing", "up", "disposing"}
               PROVE svc[dep] = "up"
    BY DEF DependenciesUp
  <2> USE ServiceCountAssumption DEF CoreInv, TypeOK, Services, DisposeResults
  <2>1. CASE initPhase \in {"running", "rollback", "failed"}
    BY <2>1 DEF StartupShape
  <2>2. CASE initPhase = "ready"
    BY <2>2 DEF DisposalShape
  <2>3. QED
    BY <2>1, <2>2
<1>3. OutcomeHonest
  BY DEF CoreInv, OutcomeHonest, TypeOK, StartupShape, DisposalShape, StageShape, DisposeResults
<1> QED
  BY <1>1, <1>2, <1>3

\* No service is closed beneath accounted work (docs/services.md, ADR-0020).
THEOREM WorkIsSafe == Spec => []ServicesOutliveWork
<1>1. CoreInv => ServicesOutliveWork
  BY CoreSafe
<1>2. QED
  BY Inductive, <1>1, PTL

\* Init, rollback and disposal respect declaration order for any number of
\* services.
THEOREM Ordered == Spec => []DependenciesUp
<1>1. CoreInv => DependenciesUp
  BY CoreSafe
<1>2. QED
  BY Inductive, <1>1, PTL

\* A handler only ever sees services whose init hooks have all settled.
THEOREM Gated == Spec => []GateHolds
<1>1. ASSUME CoreInv, GateShape PROVE GateHolds
  <2> USE <1>1 DEF CoreInv, TypeOK, GateShape, StageShape, DisposalShape
  <2>1. ASSUME NEW r \in Requests, handler[r] \in {"running", "done"}
        PROVE \A s \in Services : svc[s] \notin {"down", "initializing", "broken"}
    BY <2>1, ServiceCountAssumption DEF AccountShape, DisposeResults, Services
  <2>2. settled /\ listening => \A s \in Services : svc[s] = "up"
    BY DEF settled, listening
  <2>3. QED
    BY <2>1, <2>2 DEF GateHolds
<1>2. QED
  BY Inductive, GateInductive, <1>1, PTL

\* The ShutdownOutcome tells what happened to the services.
THEOREM Honest == Spec => []OutcomeHonest
<1>1. CoreInv => OutcomeHonest
  BY CoreSafe
<1>2. QED
  BY Inductive, <1>1, PTL

\* Neither loop calls a dispose hook on a service that is not up.
THEOREM DisposedOnce == Spec => DisposeOnce
<1> DEFINE Once ==
      \A s \in Services : svc[s] # "disposing" /\ svc'[s] = "disposing" => svc[s] = "up"
<1>1. ASSUME CoreInv, [Next]_vars PROVE [Once]_svc
  <2> USE <1>1, ServiceCountAssumption
      DEF CoreInv, TypeOK, Services, ServiceStates, DisposeResults, startup, traffic, work, ending
  <2>1. ASSUME NEW s \in Services, CallInit(s) \/ InitResolves(s) \/ InitRejects(s) PROVE Once
    BY <2>1 DEF CallInit, InitResolves, InitRejects
  <2>2. CASE CallRollback
    BY <2>2 DEF CallRollback, StartupShape
  <2>3. CASE CallDispose
    BY <2>3 DEF CallDispose, DisposalShape, StageShape
  <2>4. ASSUME NEW result \in DisposeResults, RollbackSettles(result) \/ DisposeSettles(result)
        PROVE Once
    BY <2>4 DEF RollbackSettles, DisposeSettles
  <2>5. CASE RollbackDone \/ Report \/ \E r \in Requests : RequestStep(r)
    BY <2>5 DEF RollbackDone, Report, RequestStep, Arrive, Release, Unavailable, Respond, ClientGone
  <2>6. CASE \/ \E t \in Tasks : TaskStep(t)
             \/ Shutdown \/ BeginDrain \/ DeadlinePasses \/ PollDrained \/ PollExpired
    BY <2>6 DEF TaskStep, Track, TaskSettles, Shutdown, BeginDrain, DeadlinePasses, PollDrained, PollExpired
  <2>7. CASE UNCHANGED vars
    BY <2>7 DEF vars
  <2>8. QED
    BY <2>1, <2>2, <2>3, <2>4, <2>5, <2>6, <2>7 DEF Next, ServiceStep, DisposalStep
<1>2. QED
  BY Inductive, <1>1, PTL DEF Spec, DisposeOnce

-----------------------------------------------------------------------------
(* The coordinator implements ServiceContract.                             *)

\* The services an application may use: the contract's `open`.
Up == {s \in Services : svc[s] = "up"}

\* What a step must leave alone for the contract not to see it.
LEMMA Hidden ==
  ASSUME ContractMode' = ContractMode, Up' = Up, LiveWork' = LiveWork, outcome' = outcome
  PROVE UNCHANGED Contract!vars
  BY DEF Contract!vars, Up

\* A service's opening or closing is a step of the contract.
LEMMA ContractServices ==
  ASSUME NEW s \in Services, Contract!Open(s) \/ Contract!Close(s) PROVE Contract!Next
  BY DEF Contract!Next, Contract!Services, Services

LEMMA ContractInit == Init => Contract!Init
<1> SUFFICES ASSUME Init PROVE Contract!Init
  OBVIOUS
<1>1. Up = {} /\ LiveWork = {}
  BY DEF Init, Up, LiveWork
<1>2. ContractMode = IF ServiceCount = 0 THEN "serving" ELSE "starting"
  BY DEF Init, ContractMode
<1>3. QED
  BY <1>1, <1>2 DEF Init, Contract!Init, Up

\* Start-up: a hook that resolves opens its service, the first that rejects
\* ends starting, and a rollback closes the latest service still open.
LEMMA ContractService ==
  ASSUME CoreInv, CoreInv', ServiceStep PROVE [Contract!Next]_(Contract!vars)
<1> USE ServiceCountAssumption
    DEF CoreInv, TypeOK, Services, ServiceStates, DisposeResults, startup, traffic, work, ending
<1>1. ASSUME NEW s \in Services, CallInit(s) PROVE UNCHANGED Contract!vars
  BY <1>1, Hidden DEF CallInit, ContractMode, Up, LiveWork
<1>2. ASSUME NEW s \in Services, InitResolves(s) PROVE Contract!Next
  <2> USE <1>2 DEF InitResolves
  <2>1. ContractMode = "starting" /\ outcome = "none"
    BY DEF ContractMode, StageShape
  <2>2. s = initialized + 1 /\ \A dep \in Services : dep < s <=> dep \in Up
    BY DEF StartupShape, Up
  <2>3. Up' = Up \cup {s} /\ (Up' = Services <=> s = ServiceCount)
    BY <2>2 DEF Up, StartupShape
  <2>4. ContractMode' = IF Up' = Services THEN "serving" ELSE "starting"
    BY <2>1, <2>3 DEF ContractMode, StageShape
  <2>5. UNCHANGED <<LiveWork, outcome>>
    BY DEF LiveWork
  <2>6. Contract!Open(s)
    BY <2>1, <2>2, <2>3, <2>4, <2>5 DEF Contract!Open, Contract!Services, Up
  <2>7. QED
    BY <2>6, ContractServices
<1>3. ASSUME NEW s \in Services, InitRejects(s) PROVE Contract!Next
  <2>1. UNCHANGED <<Up, LiveWork, outcome>>
    BY <1>3 DEF InitRejects, Up, LiveWork
  <2>2. Contract!StartFails
    BY <1>3, <2>1 DEF InitRejects, Contract!StartFails, ContractMode, Up
  <2>3. QED
    BY <2>2 DEF Contract!Next
<1>4. ASSUME CallRollback PROVE Contract!Next
  <2> USE <1>4 DEF CallRollback
  <2>0. PICK s \in Services : s = rollbackAt
    OBVIOUS
  <2>1. ContractMode = "undoing" /\ ContractMode' = "undoing" /\ outcome = "none"
    BY DEF ContractMode, StageShape
  <2>2. s \in Up /\ \A t \in Up : t <= s
    BY <2>0 DEF StartupShape, Up
  <2>3. Up' = Up \ {s}
    BY <2>0 DEF Up
  <2>4. UNCHANGED <<LiveWork, outcome>>
    BY DEF LiveWork
  <2>5. Contract!Close(s)
    BY <2>1, <2>2, <2>3, <2>4 DEF Contract!Close, Up
  <2>6. QED
    BY <2>5, ContractServices
<1>5. ASSUME NEW result \in DisposeResults, RollbackSettles(result) PROVE UNCHANGED Contract!vars
  BY <1>5, Hidden DEF RollbackSettles, ContractMode, Up, LiveWork
<1>6. ASSUME RollbackDone PROVE UNCHANGED Contract!vars
  BY <1>6, Hidden DEF RollbackDone, ContractMode, Up, LiveWork
<1>7. QED
  BY <1>1, <1>2, <1>3, <1>4, <1>5, <1>6 DEF ServiceStep

\* Work begins when a request arrives or a task is tracked in time, and ends
\* when it settles, or when Bun stops counting it.
LEMMA ContractWork ==
  ASSUME CoreInv, CoreInv',
         \/ \E r \in Requests : RequestStep(r) \/ ArriveUnmatched(r)
         \/ \E t \in Tasks : TaskStep(t)
  PROVE  [Contract!Next]_(Contract!vars)
<1> USE DEF CoreInv, TypeOK, StageShape, AccountShape, startup, traffic, work, ending
<1>1. ASSUME NEW w, w \notin LiveWork, LiveWork' = LiveWork \cup {w},
             UNCHANGED <<startup, svc, ending>>, stage \notin {"dispose", "finished"}
      PROVE Contract!Begin(w)
  <2>1. UNCHANGED <<ContractMode, Up, outcome>> /\ ContractMode # "closing" /\ outcome = "none"
    BY <1>1 DEF ContractMode, Up
  <2>2. QED
    BY <1>1, <2>1 DEF Contract!Begin, Up
<1>2. ASSUME NEW w, w \in LiveWork, LiveWork' = LiveWork \ {w},
             UNCHANGED <<startup, svc, stage, outcome>>
      PROVE Contract!End(w)
  <2>1. UNCHANGED <<ContractMode, Up, outcome>>
    BY <1>2 DEF ContractMode, Up
  <2>2. QED
    BY <1>2, <2>1 DEF Contract!End, Up
<1>3. ASSUME LiveWork' = LiveWork, UNCHANGED <<startup, svc, stage, outcome>>
      PROVE UNCHANGED Contract!vars
  BY <1>3, Hidden DEF ContractMode, Up
<1>4. ASSUME NEW r \in Requests, RequestStep(r) \/ ArriveUnmatched(r)
      PROVE Contract!Begin(r) \/ Contract!End(r) \/ UNCHANGED Contract!vars
  <2> USE WorkAssumption DEF LiveWork
  <2>1. CASE Arrive(r) \/ ArriveUnmatched(r)
    <3>1. r \notin lost /\ r \notin Tasks
      BY <2>1 DEF Arrive, ArriveUnmatched
    <3>2. r \notin LiveWork /\ LiveWork' = LiveWork \cup {r}
      BY <2>1, <3>1 DEF Arrive, ArriveUnmatched
    <3>3. QED
      BY <1>1, <2>1, <3>2 DEF Arrive, ArriveUnmatched, listening
  <2>2. CASE Release(r)
    BY <1>3, <2>2 DEF Release
  <2>3. CASE Unavailable(r) \/ Respond(r)
    <3>1. r \notin Tasks
      OBVIOUS
    <3>2. \/ r \in LiveWork /\ LiveWork' = LiveWork \ {r}
          \/ r \in lost /\ LiveWork' = LiveWork
      BY <2>3, <3>1 DEF Unavailable, Respond
    <3>3. QED
      BY <1>2, <1>3, <2>3, <3>2 DEF Unavailable, Respond
  <2>4. CASE ClientGone(r)
    <3>1. r \notin Tasks
      OBVIOUS
    <3>2. r \in LiveWork /\ LiveWork' = LiveWork \ {r}
      BY <2>4, <3>1 DEF ClientGone
    <3>3. QED
      BY <1>2, <2>4, <3>2 DEF ClientGone
  <2>5. QED
    BY <1>4, <2>1, <2>2, <2>3, <2>4 DEF RequestStep
<1>5. ASSUME NEW t \in Tasks, TaskStep(t)
      PROVE Contract!Begin(t) \/ Contract!End(t) \/ UNCHANGED Contract!vars
  <2> USE WorkAssumption DEF LiveWork
  <2>0. t \notin Requests
    OBVIOUS
  <2>1. CASE Track(t) /\ stage \in {"dispose", "finished"}
    BY <1>3, <2>0, <2>1 DEF Track, TaskStates
  <2>2. CASE Track(t) /\ stage \notin {"dispose", "finished"}
    <3>1. t \notin LiveWork /\ LiveWork' = LiveWork \cup {t}
      BY <2>0, <2>2 DEF Track, TaskStates
    <3>2. QED
      BY <1>1, <2>2, <3>1 DEF Track
  <2>3. CASE TaskSettles(t)
    <3>1. \/ t \in LiveWork /\ LiveWork' = LiveWork \ {t}
          \/ task[t] = "late" /\ LiveWork' = LiveWork
      BY <2>0, <2>3 DEF TaskSettles, TaskStates
    <3>2. QED
      BY <1>2, <1>3, <2>3, <3>1 DEF TaskSettles
  <2>4. QED
    BY <1>5, <2>1, <2>2, <2>3 DEF TaskStep
<1>6. QED
  BY <1>4, <1>5 DEF Contract!Next

\* Shutdown: leaving the drain closes a healthy application or gives up on
\* live work; each dispose hook closes the latest service; then the report.
LEMMA ContractShutdown ==
  ASSUME CoreInv, CoreInv',
         \/ Shutdown \/ BeginDrain \/ DeadlinePasses \/ PollDrained \/ PollExpired
         \/ DisposalStep
  PROVE  [Contract!Next]_(Contract!vars)
<1> USE ServiceCountAssumption
    DEF CoreInv, TypeOK, Services, ServiceStates, DisposeResults, StageShape, startup, traffic, work, ending
<1>1. CASE Shutdown \/ BeginDrain \/ DeadlinePasses
  BY <1>1, Hidden DEF Shutdown, BeginDrain, DeadlinePasses, ContractMode, Up, LiveWork
<1>2. CASE PollDrained
  <2>1. LiveWork = {} /\ UNCHANGED <<LiveWork, Up, outcome>> /\ outcome = "none"
    BY <1>2 DEF PollDrained, WorkDone, AccountShape, LiveWork, Up
  <2>2. CASE initPhase = "ready"
    <3>1. ContractMode = "serving" /\ ContractMode' = "closing"
      BY <1>2, <2>1, <2>2 DEF PollDrained, ContractMode
    <3>2. QED
      BY <2>1, <3>1 DEF Contract!Next, Contract!StartClosing, Up
  <2>3. CASE initPhase = "failed"
    <3>1. ContractMode' = ContractMode
      BY <1>2, <2>3 DEF PollDrained, ContractMode
    <3>2. QED
      BY <2>1, <3>1, Hidden
  <2>4. QED
    BY <1>2, <2>2, <2>3 DEF PollDrained
<1>3. CASE PollExpired
  <2>1. LiveWork # {} /\ UNCHANGED <<LiveWork, Up>>
    BY <1>3 DEF PollExpired, WorkDone, AccountShape, LiveWork, Up
  <2>2. UNCHANGED ContractMode /\ ContractMode \in {"undoing", "serving"}
    BY <1>3 DEF PollExpired, ContractMode
  <2>3. QED
    BY <1>3, <2>1, <2>2 DEF PollExpired, Contract!Next, Contract!Expired, Up
<1>4. CASE CallDispose
  <2> USE <1>4 DEF CallDispose
  <2>1. initPhase = "ready"
    BY DEF DisposalShape
  <2>2. ContractMode = "closing" /\ UNCHANGED <<ContractMode, LiveWork, outcome>> /\ outcome = "none"
    BY <2>1 DEF ContractMode, LiveWork
  <2>3. PICK s \in Services : s = disposeAt
    OBVIOUS
  <2>4. s \in Up /\ \A t \in Up : t <= s
    BY <2>1, <2>3 DEF DisposalShape, Up
  <2>5. Up' = Up \ {s}
    BY <2>3 DEF Up
  <2>6. Contract!Close(s)
    BY <2>2, <2>4, <2>5 DEF Contract!Close, Up
  <2>7. QED
    BY <2>6, ContractServices
<1>5. ASSUME NEW result \in DisposeResults, DisposeSettles(result) PROVE UNCHANGED Contract!vars
  BY <1>5, Hidden DEF DisposeSettles, ContractMode, Up, LiveWork
<1>6. CASE Report
  <2>1. LiveWork = {} /\ UNCHANGED <<LiveWork, Up>>
    BY <1>6 DEF Report, AccountShape, LiveWork, Up
  <2>2. Up = {}
    BY <1>6 DEF Report, Up, DisposalShape, StartupShape
  <2>3. UNCHANGED ContractMode /\ ContractMode \in {"undoing", "closing"}
    BY <1>6 DEF Report, ContractMode
  <2>4. QED
    BY <1>6, <2>1, <2>2, <2>3 DEF Report, Contract!Next, Contract!Drained, Up
<1>7. QED
  BY <1>1, <1>2, <1>3, <1>4, <1>5, <1>6 DEF DisposalStep

LEMMA ContractStep ==
  ASSUME CoreInv, CoreInv', [AnyNext]_vars PROVE [Contract!Next]_(Contract!vars)
<1>1. CASE AnyNext
  BY <1>1, ContractService, ContractWork, ContractShutdown DEF AnyNext, Next
<1>2. CASE UNCHANGED vars
  BY <1>2, Hidden DEF vars, startup, traffic, work, ending, ContractMode, Up, LiveWork
<1>3. QED
  BY <1>1, <1>2

\* The coordinator keeps the contract of docs/services.md.
THEOREM Refines == Spec => ImplementsContract
<1>1. CoreInv /\ CoreInv' /\ [Next]_vars => [Contract!Next]_(Contract!vars)
  BY ContractStep DEF AnyNext
<1>2. QED
  BY Inductive, ContractInit, <1>1, PTL DEF Spec, ImplementsContract, Contract!Spec

-----------------------------------------------------------------------------
(* The composition.                                                        *)

over == {"done", "unavailable"}
underWay == {"held", "running"}
unsettled == {"running", "late"}

\* The tasks a span still waits for.
openOf(r) == {t \in counted : token[t] = r /\ task[t] \in unsettled}

\* A request has its response when its handler, or the gate, is done with it.
Answered == \A r \in Requests : r \in produced <=> handler[r] \in over

\* state.tracked counts them.
Counting == \A r \in Requests : IsFiniteSet(openOf(r)) /\ openTasks[r] = Cardinality(openOf(r))

\* The last of the response and the tasks ends the span.
Ended == \A r \in Requests : ends[r] = IF r \in produced /\ openTasks[r] = 0 THEN 1 ELSE 0

Correlated == \A t \in counted : t \in Tasks /\ token[t] \in Requests /\ task[t] # "none"

\* What the drain polls, until there is an outcome.
Accounted ==
  /\ outcome = "none" \/ stage = "finished"
  /\ outcome = "none" => \A t \in Tasks : task[t] \in unsettled => t \in tracked
  /\ stage \in {"idle", "awaitInit", "drain"} =>
       \A r \in Requests : handler[r] \in underWay /\ r \notin lost => r \in pending

Registered == \A r \in Requests : socket[r] = "open" => r \in sockets

ServerInv ==
  /\ ServerTypeOK /\ Answered /\ Counting /\ Ended /\ Correlated
  /\ Accounted /\ DrainCoversSpans /\ Registered

LEMMA Initially == ServerInit => ServerInv
<1> SUFFICES ASSUME ServerInit PROVE ServerInv
  OBVIOUS
<1>1. TypeOK
  <2>1. deadlinePassed \in BOOLEAN
    BY DEF ServerInit, Init
  <2> QED
    BY <2>1, ServiceCountAssumption DEF ServerInit, Init, TypeOK, Services, ServiceStates, TaskStates
<1>2. ServerTypeOK
  BY <1>1 DEF ServerInit, ServerTypeOK, SocketStates
<1>3. /\ counted = {} /\ produced = {} /\ stage = "idle" /\ outcome = "none"
      /\ \A r \in Requests : openTasks[r] = 0 /\ ends[r] = 0 /\ handler[r] = "none" /\ socket[r] = "none"
      /\ \A t \in Tasks : task[t] = "none"
  BY DEF ServerInit, Init
<1>4. Counting
  <2> SUFFICES ASSUME NEW r \in Requests PROVE IsFiniteSet(openOf(r)) /\ openTasks[r] = Cardinality(openOf(r))
    BY DEF Counting
  <2>1. openOf(r) = {}
    BY <1>3 DEF openOf
  <2> QED
    BY <1>3, <2>1, FS_EmptySet
<1>5. Answered /\ Ended /\ Correlated /\ Registered
  BY <1>3 DEF Answered, Ended, Correlated, Registered, over
<1>6. Accounted /\ DrainCoversSpans
  BY <1>3 DEF Accounted, DrainCoversSpans, underWay, unsettled
<1> QED
  BY <1>2, <1>4, <1>5, <1>6 DEF ServerInv

-----------------------------------------------------------------------------
(* What the steps do to the spans and to the work.                         *)

\* A step of serve(): one of the coordinator's, or a request outside its gate.
LEMMA BaseStep ==
  ASSUME [ServerNext]_serverVars
  PROVE  \/ UNCHANGED vars
         \/ ServiceStep \/ BeginDrain \/ DeadlinePasses \/ PollDrained \/ PollExpired \/ DisposalStep \/ Shutdown
         \/ \E r \in Requests : \/ Arrive(r) \/ ArriveUnmatched(r) \/ Release(r) \/ Unavailable(r)
                                \/ Respond(r) \/ ClientGone(r)
         \/ \E t \in Tasks : Track(t) \/ TaskSettles(t)
<1> USE DEF vars
<1>1. CASE UNCHANGED serverVars
  BY <1>1 DEF serverVars
<1>2. CASE RequestStarts
  BY <1>2 DEF RequestStarts, Receive
<1>3. CASE RequestEnds
  BY <1>3 DEF RequestEnds, Answer, Upgrade
<1>4. CASE SocketStep
  BY <1>4 DEF SocketStep, SocketOpens, SocketLeaves, SocketClosed
<1>5. CASE TaskStarts
  BY <1>5 DEF TaskStarts, TrackCall
<1>6. CASE TaskEnds
  BY <1>6 DEF TaskEnds, TaskDone
<1>7. CASE HandleShutdown \/ Signal
  BY <1>7 DEF HandleShutdown, Signal, shutdownBy
<1>8. CASE ForceStop
  BY <1>8 DEF ForceStop
<1>9. CASE Coordinate
  BY <1>9 DEF Coordinate
<1> QED
  BY <1>1, <1>2, <1>3, <1>4, <1>5, <1>6, <1>7, <1>8, <1>9 DEF ServerNext

LEMMA BaseTypes == ASSUME TypeOK, [ServerNext]_serverVars PROVE TypeOK'
<1> USE DEF TypeOK, startup, traffic, work, ending
<1>1. CASE UNCHANGED vars
  BY <1>1 DEF vars
<1>2. CASE ServiceStep
  <2>1. ASSUME NEW s \in Services, CallInit(s) \/ InitResolves(s) \/ InitRejects(s) PROVE TypeOK'
    <3>1. s \in 0 .. ServiceCount
      BY ServiceCountAssumption DEF Services
    <3>2. CASE CallInit(s)
      BY <3>2 DEF CallInit, ServiceStates
    <3>3. CASE InitResolves(s)
      BY <3>1, <3>3 DEF InitResolves, ServiceStates
    <3>4. CASE InitRejects(s)
      BY <3>4 DEF InitRejects, ServiceStates
    <3> QED
      BY <2>1, <3>2, <3>3, <3>4
  <2>2. CASE CallRollback \/ RollbackDone
    BY <2>2, ServiceCountAssumption DEF CallRollback, RollbackDone, ServiceStates
  <2>3. ASSUME NEW result \in DisposeResults, RollbackSettles(result) PROVE TypeOK'
    <3>1. rollbackAt - 1 \in 0 .. ServiceCount
      BY <2>3, ServiceCountAssumption DEF RollbackSettles
    <3> QED
      BY <2>3, <3>1 DEF RollbackSettles, ServiceStates, DisposeResults
  <2> QED
    BY <1>2, <2>1, <2>2, <2>3 DEF ServiceStep
<1>3. CASE Shutdown \/ BeginDrain \/ DeadlinePasses \/ PollDrained \/ PollExpired
  BY <1>3 DEF Shutdown, BeginDrain, DeadlinePasses, PollDrained, PollExpired
<1>4. CASE DisposalStep
  <2>1. CASE CallDispose \/ Report
    BY <1>4, <2>1 DEF CallDispose, Report, ServiceStates
  <2>2. ASSUME NEW result \in DisposeResults, DisposeSettles(result) PROVE TypeOK'
    <3>1. disposeAt \in Services /\ disposeAt - 1 \in 0 .. ServiceCount
      BY <2>2, ServiceCountAssumption DEF DisposeSettles, Services
    <3> QED
      BY <2>2, <3>1 DEF DisposeSettles, ServiceStates, DisposeResults
  <2> QED
    BY <1>4, <2>1, <2>2 DEF DisposalStep
<1>5. ASSUME NEW r \in Requests,
             \/ Arrive(r) \/ ArriveUnmatched(r) \/ Release(r) \/ Unavailable(r) \/ Respond(r) \/ ClientGone(r)
      PROVE  TypeOK'
  BY <1>5 DEF Arrive, ArriveUnmatched, Release, Unavailable, Respond, ClientGone
<1>6. ASSUME NEW t \in Tasks, Track(t) \/ TaskSettles(t) PROVE TypeOK'
  BY <1>6 DEF Track, TaskSettles, TaskStates
<1> QED
  BY <1>1, <1>2, <1>3, <1>4, <1>5, <1>6, BaseStep

\* A request is received: nothing but its handler and Bun's count changes.
LEMMA Received ==
  ASSUME ServerTypeOK, NEW r \in Requests, Receive(r)
  PROVE  /\ handler[r] = "none" /\ stage = "idle" /\ r \in pending'
         /\ pending \subseteq pending' /\ handler'[r] \in underWay
         /\ \A q \in Requests : q # r => handler'[q] = handler[q]
         /\ UNCHANGED <<lost, work, ending, spans, hub>>
<1>1. handler \in [Requests -> {"none", "held", "running", "done", "unavailable"}]
  BY DEF ServerTypeOK, TypeOK
<1> QED
  BY <1>1 DEF Receive, Arrive, ArriveUnmatched, listening, underWay

\* A response: the span may end with it.
LEMMA Responded ==
  ASSUME ServerTypeOK, NEW r \in Requests, Answer(r) \/ Upgrade(r)
  PROVE  /\ handler[r] \in underWay /\ handler'[r] \in over /\ pending' = pending \ {r}
         /\ \A q \in Requests : q # r => handler'[q] = handler[q]
         /\ UNCHANGED <<lost, work, ending, openTasks, token, counted, sockets>>
         /\ produced' = produced \cup {r} /\ tryFinish(r)
         /\ \A q \in Requests : socket'[q] = "open" => socket[q] = "open"
<1>1. handler \in [Requests -> {"none", "held", "running", "done", "unavailable"}]
  BY DEF ServerTypeOK, TypeOK
<1>2. CASE Answer(r)
  BY <1>1, <1>2 DEF Answer, Respond, Unavailable, Responds, hub, underWay, over
<1>3. CASE Upgrade(r)
  BY <1>1, <1>3 DEF Upgrade, Respond, Responds, underWay, over, ServerTypeOK
<1> QED
  BY <1>2, <1>3

\* The steps that are neither a request's beginning or end nor a task's.
Otherwise == SocketStep \/ HandleShutdown \/ Signal \/ ForceStop \/ Coordinate \/ UNCHANGED serverVars

LEMMA Elsewhere ==
  ASSUME ServerTypeOK, Otherwise
  PROVE  /\ UNCHANGED spans /\ UNCHANGED work
         /\ \A r \in Requests : \/ handler'[r] = handler[r]
                                \/ handler[r] \in underWay /\ handler'[r] \in underWay
<1>1. handler \in [Requests -> {"none", "held", "running", "done", "unavailable"}]
  BY DEF ServerTypeOK, TypeOK
<1> USE DEF traffic, vars
<1>2. CASE SocketStep
  BY <1>2 DEF SocketStep, SocketOpens, SocketLeaves, SocketClosed
<1>3. CASE HandleShutdown \/ Signal
  BY <1>3 DEF HandleShutdown, Signal, shutdownBy, Shutdown
<1>4. CASE ForceStop
  BY <1>4 DEF ForceStop, PollExpired
<1>5. CASE Coordinate
  <2>1. CASE ServiceStep
    BY <1>5, <2>1 DEF Coordinate, ServiceStep, CallInit, InitResolves, InitRejects, CallRollback, RollbackSettles, RollbackDone
  <2>2. CASE BeginDrain \/ DeadlinePasses \/ PollDrained
    BY <1>5, <2>2 DEF Coordinate, BeginDrain, DeadlinePasses, PollDrained
  <2>3. CASE DisposalStep
    BY <1>5, <2>3 DEF Coordinate, DisposalStep, CallDispose, DisposeSettles, Report
  <2>4. ASSUME NEW r \in Requests, Release(r) \/ ClientGone(r)
        PROVE  /\ UNCHANGED work
               /\ \A q \in Requests : \/ handler'[q] = handler[q]
                                      \/ handler[q] \in underWay /\ handler'[q] \in underWay
    BY <1>1, <2>4 DEF Release, ClientGone, underWay
  <2> QED
    BY <1>5, <2>1, <2>2, <2>3, <2>4 DEF Coordinate
<1>6. CASE UNCHANGED serverVars
  BY <1>6 DEF serverVars
<1> QED
  BY <1>2, <1>3, <1>4, <1>5, <1>6 DEF Otherwise

\* The five ways a step may go, one per lemma above and two for the tasks.
LEMMA Cases ==
  ASSUME [ServerNext]_serverVars
  PROVE  \/ Otherwise
         \/ \E r \in Requests : Receive(r) \/ Answer(r) \/ Upgrade(r)
         \/ \E t \in Tasks, r \in Requests \cup {nobody} : TrackCall(t, r)
         \/ \E t \in Tasks : TaskDone(t)
  BY DEF ServerNext, RequestStarts, RequestEnds, TaskStarts, TaskEnds, Otherwise
-----------------------------------------------------------------------------
(* The conjuncts of the invariant, one lemma each.                         *)

\* A task is registered with a span that has not ended, or with none.
LEMMA Tracked ==
  ASSUME ServerTypeOK, NEW t \in Tasks, NEW r \in Requests \cup {nobody}, TrackCall(t, r)
  PROVE  /\ task[t] = "none" /\ task'[t] \in unsettled /\ token'[t] = r
         /\ \A u \in Tasks : u # t => task'[u] = task[u] /\ token'[u] = token[u]
         /\ outcome = "none" => tracked' = tracked \cup {t}
         /\ UNCHANGED <<traffic, ending, produced, ends, hub, reason>>
         /\ IF correlates(r)
              THEN r \in Requests /\ counted' = counted \cup {t} /\ openTasks' = [openTasks EXCEPT ![r] = @ + 1]
              ELSE UNCHANGED <<counted, openTasks>>
<1>1. task \in [Tasks -> TaskStates] /\ token \in [Tasks -> Requests \cup {nobody}]
  BY DEF ServerTypeOK, TypeOK
<1>2. correlates(r) => r \in Requests
  BY DEF correlates
<1> QED
  BY <1>1, <1>2 DEF TrackCall, Track, unsettled

LEMMA Settled ==
  ASSUME ServerTypeOK, NEW t \in Tasks, TaskDone(t)
  PROVE  /\ task[t] \in unsettled /\ task'[t] \notin unsettled /\ task'[t] # "none"
         /\ \A u \in Tasks : u # t => task'[u] = task[u]
         /\ tracked' = tracked \ {t}
         /\ UNCHANGED <<traffic, ending, produced, token, counted, hub, reason>>
         /\ IF t \in counted
              THEN openTasks' = [openTasks EXCEPT ![token[t]] = @ - 1] /\ tryFinish(token[t])
              ELSE UNCHANGED <<openTasks, ends>>
<1>1. task \in [Tasks -> TaskStates]
  BY DEF ServerTypeOK, TypeOK
<1> QED
  BY <1>1 DEF TaskDone, TaskSettles, unsettled

LEMMA AnsweredStep == ASSUME ServerInv, [ServerNext]_serverVars PROVE Answered'
<1> USE DEF Answered
<1>0. ServerTypeOK /\ Answered
  BY DEF ServerInv
<1>1. CASE Otherwise
  BY <1>0, <1>1, Elsewhere DEF spans, over, underWay
<1>2. ASSUME NEW r \in Requests, Receive(r) PROVE Answered'
  BY <1>0, <1>2, Received DEF spans, over, underWay
<1>3. ASSUME NEW r \in Requests, Answer(r) \/ Upgrade(r) PROVE Answered'
  BY <1>0, <1>3, Responded
<1>4. ASSUME NEW t \in Tasks, NEW r \in Requests \cup {nobody}, TrackCall(t, r) PROVE Answered'
  BY <1>0, <1>4, Tracked DEF traffic
<1>5. ASSUME NEW t \in Tasks, TaskDone(t) PROVE Answered'
  BY <1>0, <1>5, Settled DEF traffic
<1> QED
  BY <1>1, <1>2, <1>3, <1>4, <1>5, Cases

LEMMA CorrelatedStep == ASSUME ServerInv, [ServerNext]_serverVars PROVE Correlated'
<1> USE DEF Correlated
<1>0. ServerTypeOK /\ Correlated
  BY DEF ServerInv
<1>1. CASE Otherwise
  BY <1>0, <1>1, Elsewhere DEF spans, work
<1>2. ASSUME NEW r \in Requests, Receive(r) PROVE Correlated'
  BY <1>0, <1>2, Received DEF spans, work
<1>3. ASSUME NEW r \in Requests, Answer(r) \/ Upgrade(r) PROVE Correlated'
  BY <1>0, <1>3, Responded DEF work
<1>4. ASSUME NEW t \in Tasks, NEW r \in Requests \cup {nobody}, TrackCall(t, r) PROVE Correlated'
  BY <1>0, <1>4, Tracked DEF unsettled
<1>5. ASSUME NEW t \in Tasks, TaskDone(t) PROVE Correlated'
  BY <1>0, <1>5, Settled
<1> QED
  BY <1>1, <1>2, <1>3, <1>4, <1>5, Cases

\* The counter follows the set it counts.
CountOf(q) == IsFiniteSet(openOf(q)) /\ openTasks[q] = Cardinality(openOf(q))

LEMMA CountingStep == ASSUME ServerInv, [ServerNext]_serverVars PROVE Counting'
<1> SUFFICES ASSUME NEW q \in Requests PROVE CountOf(q)'
  BY DEF Counting, CountOf
<1>0. ServerTypeOK /\ Correlated /\ CountOf(q) /\ openTasks \in [Requests -> Nat]
  BY DEF ServerInv, Counting, CountOf, ServerTypeOK
<1>1. ASSUME openOf(q)' = openOf(q), openTasks'[q] = openTasks[q] PROVE CountOf(q)'
  BY <1>0, <1>1 DEF CountOf
<1>2. CASE Otherwise
  <2>1. UNCHANGED <<openTasks, token, counted, task>>
    BY <1>0, <1>2, Elsewhere DEF spans, work
  <2> QED
    BY <1>1, <2>1 DEF openOf
<1>3. ASSUME NEW r \in Requests, Receive(r) \/ Answer(r) \/ Upgrade(r) PROVE CountOf(q)'
  <2>1. UNCHANGED <<openTasks, token, counted, task>>
    BY <1>0, <1>3, Received, Responded DEF spans, work
  <2> QED
    BY <1>1, <2>1 DEF openOf
<1>4. ASSUME NEW t \in Tasks, NEW r \in Requests \cup {nobody}, TrackCall(t, r) PROVE CountOf(q)'
  <2>1. t \notin counted /\ t \notin openOf(q)
    BY <1>0, <1>4, Tracked DEF Correlated, openOf
  <2>2. CASE correlates(r) /\ q = r
    <3>1. openOf(q)' = openOf(q) \cup {t} /\ openTasks'[q] = openTasks[q] + 1
      BY <1>0, <1>4, <2>1, <2>2, Tracked DEF openOf, Correlated
    <3> QED
      BY <1>0, <2>1, <3>1, FS_AddElement DEF CountOf
  <2>3. CASE ~(correlates(r) /\ q = r)
    <3>1. openOf(q)' = openOf(q)
      BY <1>0, <1>4, <2>1, <2>3, Tracked DEF openOf, Correlated
    <3>2. openTasks'[q] = openTasks[q]
      BY <1>0, <1>4, <2>3, Tracked
    <3> QED
      BY <1>1, <3>1, <3>2
  <2> QED
    BY <2>2, <2>3
<1>5. ASSUME NEW t \in Tasks, TaskDone(t) PROVE CountOf(q)'
  <2>1. CASE t \in counted /\ token[t] = q
    <3>1. t \in openOf(q) /\ openOf(q)' = openOf(q) \ {t} /\ openTasks'[q] = openTasks[q] - 1
      BY <1>0, <1>5, <2>1, Settled DEF openOf, Correlated
    <3> QED
      BY <1>0, <3>1, FS_RemoveElement DEF CountOf
  <2>2. CASE ~(t \in counted /\ token[t] = q)
    <3>1. openOf(q)' = openOf(q)
      BY <1>0, <1>5, <2>2, Settled DEF openOf, Correlated
    <3>2. openTasks'[q] = openTasks[q]
      BY <1>0, <1>5, <2>2, Settled DEF Correlated
    <3> QED
      BY <1>1, <3>1, <3>2
  <2> QED
    BY <2>1, <2>2
<1> QED
  BY <1>2, <1>3, <1>4, <1>5, Cases

\* The tasks of a span and its counter.
LEMMA Open ==
  ASSUME ServerInv, NEW r \in Requests
  PROVE  /\ openTasks[r] \in Nat /\ (openTasks[r] = 0 <=> openOf(r) = {})
         /\ r \in produced /\ openTasks[r] = 0 => ends[r] = 1
         /\ ~(r \in produced /\ openTasks[r] = 0) => ends[r] = 0
<1>1. IsFiniteSet(openOf(r)) /\ openTasks[r] = Cardinality(openOf(r))
  BY DEF ServerInv, Counting
<1>2. ends[r] = IF r \in produced /\ openTasks[r] = 0 THEN 1 ELSE 0
  BY DEF ServerInv, Ended
<1> QED
  BY <1>1, <1>2, FS_EmptySet, FS_CardinalityType

LEMMA EndedStep == ASSUME ServerInv, [ServerNext]_serverVars PROVE Ended'
<1> SUFFICES ASSUME NEW q \in Requests
             PROVE  ends'[q] = IF q \in produced' /\ openTasks'[q] = 0 THEN 1 ELSE 0
  BY DEF Ended
<1>0. /\ ServerTypeOK /\ openTasks \in [Requests -> Nat] /\ ends \in [Requests -> 0 .. 2]
      /\ \A r \in Requests : ends[r] = IF r \in produced /\ openTasks[r] = 0 THEN 1 ELSE 0
  BY DEF ServerInv, Ended, ServerTypeOK
<1>1. CASE Otherwise
  BY <1>0, <1>1, Elsewhere DEF spans
<1>2. ASSUME NEW r \in Requests, Receive(r) PROVE UNCHANGED <<ends, produced, openTasks>>
  BY <1>0, <1>2, Received DEF spans
<1>3. ASSUME NEW r \in Requests, Answer(r) \/ Upgrade(r)
      PROVE  ends'[q] = IF q \in produced' /\ openTasks'[q] = 0 THEN 1 ELSE 0
  <2>1. /\ r \notin produced /\ produced' = produced \cup {r} /\ openTasks' = openTasks
        /\ ends' = IF ends[r] = 0 /\ r \in produced' /\ openTasks'[r] = 0 THEN [ends EXCEPT ![r] = @ + 1] ELSE ends
    BY <1>0, <1>3, Responded DEF ServerInv, Answered, tryFinish, over, underWay
  <2> QED
    BY <1>0, <2>1
<1>4. ASSUME NEW t \in Tasks, NEW r \in Requests \cup {nobody}, TrackCall(t, r)
      PROVE  ends'[q] = IF q \in produced' /\ openTasks'[q] = 0 THEN 1 ELSE 0
  <2>1. UNCHANGED <<produced, ends>>
    BY <1>0, <1>4, Tracked
  <2>2. CASE correlates(r) /\ q = r
    <3>1. ends[q] = 0 /\ openTasks'[q] = openTasks[q] + 1
      BY <1>0, <1>4, <2>2, Tracked DEF correlates
    <3> QED
      BY <1>0, <2>1, <3>1
  <2>3. CASE ~(correlates(r) /\ q = r)
    <3>1. openTasks'[q] = openTasks[q]
      BY <1>0, <1>4, <2>3, Tracked
    <3> QED
      BY <1>0, <2>1, <3>1
  <2> QED
    BY <2>2, <2>3
<1>5. ASSUME NEW t \in Tasks, TaskDone(t)
      PROVE  ends'[q] = IF q \in produced' /\ openTasks'[q] = 0 THEN 1 ELSE 0
  <2>1. CASE t \notin counted
    BY <1>0, <1>5, <2>1, Settled
  <2>2. CASE t \in counted
    <3> DEFINE r == token[t]
    <3>1. r \in Requests /\ t \in openOf(r)
      BY <1>0, <1>5, <2>2, Settled DEF ServerInv, Correlated, openOf
    <3>2. ends[r] = 0
      BY <3>1, Open
    <3>3. /\ produced' = produced /\ openTasks' = [openTasks EXCEPT ![r] = @ - 1]
          /\ ends' = IF ends[r] = 0 /\ r \in produced' /\ openTasks'[r] = 0 THEN [ends EXCEPT ![r] = @ + 1] ELSE ends
      BY <1>0, <1>5, <2>2, Settled DEF tryFinish
    <3> HIDE DEF r
    <3> QED
      BY <1>0, <3>1, <3>2, <3>3
  <2> QED
    BY <2>1, <2>2
<1> QED
  BY <1>0, <1>1, <1>2, <1>3, <1>4, <1>5, Cases
-----------------------------------------------------------------------------
\* How a step that is no request's and no task's moves the drain.
DrainMoves ==
  /\ lost \subseteq lost'
  /\ stage' = "finished" \/ pending \subseteq pending' \cup lost'
  /\ outcome' = "none" => outcome = "none"
  /\ (outcome = "none" \/ stage = "finished") => (outcome' = "none" \/ stage' = "finished")
  /\ stage' \in {"idle", "awaitInit", "drain"} => stage \in {"idle", "awaitInit", "drain"}
  /\ \/ ~(stage' = "dispose" \/ outcome' = "drained")
     \/ stage = "dispose" \/ outcome = "drained"
     \/ stage = "drain" /\ WorkDone /\ UNCHANGED traffic

LEMMA Draining == ASSUME ServerTypeOK, Otherwise PROVE DrainMoves
<1> USE DEF DrainMoves
<1>1. ASSUME UNCHANGED <<pending, lost, ending>> PROVE DrainMoves
  BY <1>1 DEF ending
<1>2. CASE SocketStep
  BY <1>1, <1>2 DEF SocketStep, SocketOpens, SocketLeaves, SocketClosed, vars, traffic
<1>3. CASE HandleShutdown \/ Signal
  <2>1. CASE UNCHANGED vars
    BY <1>1, <2>1 DEF vars, traffic
  <2>2. CASE Shutdown
    BY <2>2 DEF Shutdown, traffic
  <2> QED
    BY <1>3, <2>1, <2>2 DEF HandleShutdown, Signal, shutdownBy
<1>4. CASE ForceStop
  BY <1>4 DEF ForceStop, PollExpired
<1>5. CASE Coordinate
  <2>1. CASE ServiceStep
    <3>1. UNCHANGED <<traffic, ending>>
      BY <2>1 DEF ServiceStep, CallInit, InitResolves, InitRejects, CallRollback, RollbackSettles, RollbackDone
    <3> QED
      BY <1>1, <3>1 DEF traffic
  <2>2. CASE BeginDrain \/ DeadlinePasses \/ PollDrained
    BY <2>2 DEF BeginDrain, DeadlinePasses, PollDrained, traffic
  <2>3. CASE DisposalStep
    BY <2>3 DEF DisposalStep, CallDispose, DisposeSettles, Report, traffic, ending
  <2>4. ASSUME NEW r \in Requests, Release(r) PROVE DrainMoves
    BY <1>1, <2>4 DEF Release
  <2>5. ASSUME NEW r \in Requests, ClientGone(r) PROVE DrainMoves
    BY <2>5 DEF ClientGone, ending
  <2> QED
    BY <1>5, <2>1, <2>2, <2>3, <2>4, <2>5 DEF Coordinate
<1>6. CASE UNCHANGED serverVars
  BY <1>1, <1>6 DEF serverVars, vars, traffic
<1> QED
  BY <1>2, <1>3, <1>4, <1>5, <1>6 DEF Otherwise

LEMMA AccountedStep == ASSUME ServerInv, [ServerNext]_serverVars PROVE Accounted'
<1> USE DEF Accounted
<1>0. ServerTypeOK /\ Accounted
  BY DEF ServerInv
<1>1. CASE Otherwise
  <2>1. DrainMoves /\ UNCHANGED <<task, tracked>>
    BY <1>0, <1>1, Draining, Elsewhere DEF work
  <2>2. \A r \in Requests : handler'[r] \in underWay => handler[r] \in underWay
    BY <1>0, <1>1, Elsewhere
  <2>3. stage' \in {"idle", "awaitInit", "drain"} => pending \subseteq pending' \cup lost' /\ lost \subseteq lost'
    BY <2>1 DEF DrainMoves
  <2>4. /\ outcome' = "none" => outcome = "none"
        /\ outcome' = "none" \/ stage' = "finished"
        /\ stage' \in {"idle", "awaitInit", "drain"} => stage \in {"idle", "awaitInit", "drain"}
    BY <1>0, <2>1 DEF DrainMoves
  <2> HIDE DEF DrainMoves
  <2>5. stage' \in {"idle", "awaitInit", "drain"} =>
          \A r \in Requests : handler'[r] \in underWay /\ r \notin lost' => r \in pending'
    BY <1>0, <2>2, <2>3, <2>4
  <2> QED
    BY <1>0, <2>1, <2>4, <2>5
<1>2. ASSUME NEW r \in Requests, Receive(r) PROVE Accounted'
  <2>1. /\ r \in pending' /\ pending \subseteq pending' /\ \A q \in Requests : q # r => handler'[q] = handler[q]
        /\ UNCHANGED <<lost, task, tracked, stage, outcome>>
    BY <1>0, <1>2, Received DEF work, ending
  <2> QED
    BY <1>0, <2>1
<1>3. ASSUME NEW r \in Requests, Answer(r) \/ Upgrade(r) PROVE Accounted'
  <2>1. /\ handler'[r] \notin underWay /\ pending' = pending \ {r}
        /\ \A q \in Requests : q # r => handler'[q] = handler[q]
        /\ UNCHANGED <<lost, task, tracked, stage, outcome>>
    BY <1>0, <1>3, Responded DEF work, ending, over, underWay
  <2> QED
    BY <1>0, <2>1
<1>4. ASSUME NEW t \in Tasks, NEW r \in Requests \cup {nobody}, TrackCall(t, r) PROVE Accounted'
  <2>1. /\ \A u \in Tasks : u # t => task'[u] = task[u]
        /\ outcome = "none" => tracked' = tracked \cup {t}
        /\ UNCHANGED <<pending, handler, lost, stage, outcome>>
    BY <1>0, <1>4, Tracked DEF traffic, ending
  <2> QED
    BY <1>0, <2>1
<1>5. ASSUME NEW t \in Tasks, TaskDone(t) PROVE Accounted'
  <2>1. /\ task'[t] \notin unsettled /\ \A u \in Tasks : u # t => task'[u] = task[u]
        /\ tracked' = tracked \ {t}
        /\ UNCHANGED <<pending, handler, lost, stage, outcome>>
    BY <1>0, <1>5, Settled DEF traffic, ending
  <2> QED
    BY <1>0, <2>1
<1> QED
  BY <1>1, <1>2, <1>3, <1>4, <1>5, Cases

\* A span that ended stays ended.
LEMMA EndsStay ==
  ASSUME ServerInv, [ServerNext]_serverVars, NEW q \in Requests, ends[q] = 1
  PROVE  ends'[q] = 1
<1>0. ServerTypeOK /\ ends \in [Requests -> 0 .. 2]
  BY DEF ServerInv, ServerTypeOK
<1>1. ASSUME NEW r, tryFinish(r) PROVE ends'[q] = 1
  BY <1>0, <1>1 DEF tryFinish
<1>2. CASE Otherwise
  BY <1>0, <1>2, Elsewhere DEF spans
<1>3. ASSUME NEW r \in Requests, Receive(r) PROVE ends'[q] = 1
  BY <1>0, <1>3, Received DEF spans
<1>4. ASSUME NEW r \in Requests, Answer(r) \/ Upgrade(r) PROVE ends'[q] = 1
  BY <1>0, <1>1, <1>4, Responded
<1>5. ASSUME NEW t \in Tasks, NEW r \in Requests \cup {nobody}, TrackCall(t, r) PROVE ends'[q] = 1
  BY <1>0, <1>5, Tracked
<1>6. ASSUME NEW t \in Tasks, TaskDone(t) PROVE ends'[q] = 1
  BY <1>0, <1>1, <1>6, Settled
<1> QED
  BY <1>2, <1>3, <1>4, <1>5, <1>6, Cases

\* A poll that finds no work leaves no span open.
LEMMA PollCovers ==
  ASSUME ServerInv, stage = "drain", WorkDone, NEW q \in Requests, started(q), q \notin lost
  PROVE  ends[q] = 1
<1>1. handler[q] \in over
  <2>1. handler[q] \in {"held", "running", "done", "unavailable"}
    BY DEF ServerInv, ServerTypeOK, TypeOK, started
  <2>2. handler[q] \notin underWay
    BY DEF ServerInv, Accounted, WorkDone
  <2> QED
    BY <2>1, <2>2 DEF over, underWay
<1>2. openOf(q) = {}
  <2>1. outcome = "none"
    BY DEF ServerInv, Accounted
  <2>2. \A t \in Tasks : task[t] \notin unsettled
    BY <2>1 DEF ServerInv, Accounted, WorkDone
  <2>3. \A t \in counted : t \in Tasks
    BY DEF ServerInv, Correlated
  <2> QED
    BY <2>2, <2>3 DEF openOf
<1> QED
  BY <1>1, <1>2, Open DEF ServerInv, Answered

LEMMA CoveredStep == ASSUME ServerInv, [ServerNext]_serverVars PROVE DrainCoversSpans'
<1> SUFFICES ASSUME stage' = "dispose" \/ outcome' = "drained", NEW q \in Requests, started(q)', q \notin lost'
             PROVE  ends'[q] = 1
  BY DEF DrainCoversSpans
<1>0. ServerTypeOK /\ Accounted
  BY DEF ServerInv
<1>1. ASSUME stage = "dispose" \/ outcome = "drained", started(q), q \notin lost PROVE ends'[q] = 1
  BY <1>1, EndsStay DEF ServerInv, DrainCoversSpans
<1>2. CASE Otherwise
  <2>1. DrainMoves
    BY <1>0, <1>2, Draining
  <2>2. started(q) /\ q \notin lost
    BY <1>0, <1>2, <2>1, Elsewhere DEF started, underWay, DrainMoves
  <2>3. stage = "dispose" \/ outcome = "drained" \/ (stage = "drain" /\ WorkDone)
    BY <2>1 DEF DrainMoves
  <2> QED
    BY <1>1, <2>2, <2>3, PollCovers, EndsStay
<1>3. ASSUME NEW r \in Requests, Receive(r) PROVE ends'[q] = 1
  BY <1>0, <1>3, Received DEF Accounted, ending
<1>4. ASSUME NEW r \in Requests, Answer(r) \/ Upgrade(r) PROVE ends'[q] = 1
  <2>1. started(q) /\ UNCHANGED <<stage, outcome, lost>>
    BY <1>0, <1>4, Responded DEF started, underWay, ending
  <2> QED
    BY <1>1, <2>1
<1>5. ASSUME NEW t \in Tasks, NEW r \in Requests \cup {nobody}, TrackCall(t, r) PROVE ends'[q] = 1
  <2>1. started(q) /\ UNCHANGED <<stage, outcome, lost>>
    BY <1>0, <1>5, Tracked DEF started, traffic, ending
  <2> QED
    BY <1>1, <2>1
<1>6. ASSUME NEW t \in Tasks, TaskDone(t) PROVE ends'[q] = 1
  <2>1. started(q) /\ UNCHANGED <<stage, outcome, lost>>
    BY <1>0, <1>6, Settled DEF started, traffic, ending
  <2> QED
    BY <1>1, <2>1
<1> QED
  BY <1>2, <1>3, <1>4, <1>5, <1>6, Cases

\* The hub knows every open socket.
LEMMA RegisteredStep == ASSUME ServerInv, [ServerNext]_serverVars PROVE Registered'
<1> USE DEF Registered
<1>0. ServerTypeOK /\ Registered /\ socket \in [Requests -> SocketStates]
  BY DEF ServerInv, ServerTypeOK
<1>1. ASSUME UNCHANGED hub PROVE Registered'
  BY <1>0, <1>1 DEF hub
<1>2. CASE Otherwise
  <2>1. CASE SocketStep
    BY <1>0, <2>1 DEF SocketStep, SocketOpens, SocketLeaves, SocketClosed
  <2>2. CASE HandleShutdown
    BY <1>0, <2>2 DEF HandleShutdown, closeAll, CloseSockets
  <2>3. CASE ForceStop
    BY <1>0, <2>3 DEF ForceStop, CloseSockets
  <2>4. CASE Signal \/ Coordinate \/ UNCHANGED serverVars
    BY <1>1, <2>4 DEF Signal, Coordinate, serverVars
  <2> QED
    BY <1>2, <2>1, <2>2, <2>3, <2>4 DEF Otherwise
<1>3. ASSUME NEW r \in Requests, Receive(r) PROVE Registered'
  BY <1>0, <1>1, <1>3, Received
<1>4. ASSUME NEW r \in Requests, Answer(r) \/ Upgrade(r) PROVE Registered'
  BY <1>0, <1>4, Responded
<1>5. ASSUME NEW t \in Tasks, NEW r \in Requests \cup {nobody}, TrackCall(t, r) PROVE Registered'
  BY <1>0, <1>1, <1>5, Tracked
<1>6. ASSUME NEW t \in Tasks, TaskDone(t) PROVE Registered'
  BY <1>0, <1>1, <1>6, Settled
<1> QED
  BY <1>2, <1>3, <1>4, <1>5, <1>6, Cases

LEMMA TypesStep == ASSUME ServerInv, [ServerNext]_serverVars PROVE ServerTypeOK'
<1>0. ServerTypeOK
  BY DEF ServerInv
<1>1. TypeOK'
  BY <1>0, BaseTypes DEF ServerTypeOK
<1> DEFINE SpanTypes == /\ openTasks \in [Requests -> Nat] /\ produced \in SUBSET Requests
                        /\ ends \in [Requests -> 0 .. 2]
                        /\ token \in [Tasks -> Requests \cup {nobody}] /\ counted \in SUBSET Tasks
           HubTypes == /\ socket \in [Requests -> SocketStates] /\ sockets \in SUBSET Requests
                       /\ reason \in {"none", "handle", "signal"}
<1>2. SpanTypes /\ HubTypes
  BY <1>0 DEF ServerTypeOK
<1>3. ASSUME NEW r \in Requests, tryFinish(r) PROVE ends' \in [Requests -> 0 .. 2]
  <2>1. ends' = ends \/ (ends[r] = 0 /\ ends' = [ends EXCEPT ![r] = ends[r] + 1])
    BY <1>3 DEF tryFinish
  <2>2. ends[r] = 0 => ends[r] + 1 \in 0 .. 2
    OBVIOUS
  <2> QED
    BY <1>2, <2>1, <2>2
<1>4. CASE Otherwise
  <2>1. SpanTypes'
    BY <1>0, <1>2, <1>4, Elsewhere DEF spans
  <2>2. CASE SocketStep
    BY <1>1, <1>2, <2>1, <2>2 DEF ServerTypeOK, SocketStep, SocketOpens, SocketLeaves, SocketClosed, SocketStates
  <2>3. CASE HandleShutdown \/ Signal
    BY <1>1, <1>2, <2>1, <2>3 DEF ServerTypeOK, HandleShutdown, Signal, shutdownBy, closeAll, CloseSockets, SocketStates, hub
  <2>4. CASE ForceStop
    BY <1>1, <1>2, <2>1, <2>4 DEF ServerTypeOK, ForceStop, CloseSockets, SocketStates
  <2>5. CASE Coordinate \/ UNCHANGED serverVars
    BY <1>1, <1>2, <2>1, <2>5 DEF ServerTypeOK, Coordinate, serverVars, hub
  <2> QED
    BY <1>4, <2>2, <2>3, <2>4, <2>5 DEF Otherwise
<1>5. ASSUME NEW r \in Requests, Receive(r) PROVE ServerTypeOK'
  BY <1>1, <1>2, <1>5 DEF ServerTypeOK, Receive, spans, hub
<1>6. ASSUME NEW r \in Requests, Answer(r) \/ Upgrade(r) PROVE ServerTypeOK'
  <2>1. SpanTypes'
    BY <1>0, <1>2, <1>3, <1>6, Responded
  <2>2. HubTypes'
    BY <1>2, <1>6 DEF Answer, Upgrade, SocketStates, hub
  <2> QED
    BY <1>1, <2>1, <2>2 DEF ServerTypeOK
<1>7. ASSUME NEW t \in Tasks, NEW r \in Requests \cup {nobody}, TrackCall(t, r) PROVE ServerTypeOK'
  BY <1>1, <1>2, <1>7 DEF ServerTypeOK, TrackCall, hub, correlates
<1>8. ASSUME NEW t \in Tasks, TaskDone(t) PROVE ServerTypeOK'
  <2>1. UNCHANGED <<hub, reason, produced, token, counted>>
    BY <1>0, <1>8, Settled
  <2>2. CASE t \notin counted
    BY <1>0, <1>1, <1>2, <1>8, <2>1, <2>2, Settled DEF ServerTypeOK, hub
  <2>3. CASE t \in counted
    <3> DEFINE r == token[t]
    <3>1. r \in Requests /\ t \in openOf(r)
      BY <1>0, <1>8, <2>3, Settled DEF ServerInv, Correlated, openOf
    <3>2. openTasks[r] - 1 \in Nat
      BY <3>1, Open
    <3>3. openTasks' = [openTasks EXCEPT ![r] = @ - 1] /\ ends' \in [Requests -> 0 .. 2]
      <4>1. openTasks' = [openTasks EXCEPT ![r] = @ - 1] /\ tryFinish(r)
        BY <1>0, <1>8, <2>3, Settled
      <4>2. ends' \in [Requests -> 0 .. 2]
        BY <1>3, <3>1, <4>1
      <4> QED
        BY <4>1, <4>2
    <3> HIDE DEF r
    <3>4. openTasks' \in [Requests -> Nat]
      BY <1>2, <3>2, <3>3
    <3> QED
      BY <1>1, <1>2, <2>1, <3>3, <3>4 DEF ServerTypeOK, hub
  <2> QED
    BY <2>2, <2>3
<1> QED
  BY <1>4, <1>5, <1>6, <1>7, <1>8, Cases

LEMMA ServerInductive == ServerSpec => []ServerInv
<1>1. ServerInit => ServerInv
  BY Initially
<1>2. ServerInv /\ [ServerNext]_serverVars => ServerInv'
  BY TypesStep, AnsweredStep, CountingStep, EndedStep, CorrelatedStep, AccountedStep, CoveredStep, RegisteredStep DEF ServerInv
<1> QED
  BY <1>1, <1>2, PTL DEF ServerSpec

-----------------------------------------------------------------------------
\* The types of the spans, of the hub and of the coordinator they sit on
\* (internal/telemetry.ts:88-103, websocket-hub.ts:33-45).
THEOREM TypeCorrect == ServerSpec => []ServerTypeOK
<1>1. ServerInv => ServerTypeOK
  BY DEF ServerInv
<1> QED
  BY <1>1, ServerInductive, PTL

\* However responses and correlated tasks interleave, each span ends once, at
\* the last of them (telemetry.ts: tryFinish).
THEOREM SpansEndOnce == ServerSpec => []SpanBoundary
<1>1. ServerInv => SpanBoundary
  <2> SUFFICES ASSUME ServerInv, NEW r \in Requests
               PROVE  ends[r] <= 1 /\ (ends[r] = 1 <=> r \in produced /\ workOf(r) \cap counted = {})
    BY DEF SpanBoundary
  <2>1. workOf(r) \cap counted = openOf(r)
    BY DEF workOf, openOf, unsettled, ServerInv, Correlated
  <2> QED
    BY <2>1, Open
<1> QED
  BY <1>1, ServerInductive, PTL

\* No service is disposed under an open span of a request the server still
\* knows (lifecycle.ts: the drain loop; ADR-0032).
THEOREM SpansCovered == ServerSpec => []DrainCoversSpans
<1>1. ServerInv => DrainCoversSpans
  BY DEF ServerInv
<1> QED
  BY <1>1, ServerInductive, PTL

\* shutdown() of the handle leaves no socket open (websocket-hub.ts: closeAll).
THEOREM SocketsTold == ServerSpec => ToldAtShutdown
<1> DEFINE Told == reason' = "handle" /\ reason # "handle" => \A r \in Requests : socket'[r] # "open"
<1>1. ServerInv /\ [ServerNext]_serverVars => [Told]_serverVars
  <2> SUFFICES ASSUME ServerInv, ServerNext, reason' = "handle", reason # "handle", NEW r \in Requests PROVE socket'[r] # "open"
    OBVIOUS
  <2>1. HandleShutdown
    <3>1. ~(RequestStarts \/ RequestEnds \/ SocketStep \/ TaskStarts \/ TaskEnds)
      BY DEF RequestStarts, RequestEnds, SocketStep, TaskStarts, TaskEnds, Receive, Answer, Upgrade, SocketOpens,
             SocketLeaves, SocketClosed, TrackCall, TaskDone
    <3>2. ~(Signal \/ ForceStop \/ Coordinate)
      BY DEF Signal, shutdownBy, ForceStop, Coordinate
    <3> QED
      BY <3>1, <3>2 DEF ServerNext
  <2> QED
    BY <2>1 DEF HandleShutdown, closeAll, CloseSockets, ServerInv, Registered
<1> QED
  BY <1>1, ServerInductive, PTL DEF ServerSpec, ToldAtShutdown

-----------------------------------------------------------------------------
(* The promises of the coordinator, kept by what serve() makes of it.      *)

LEMMA AnyStep == ASSUME [ServerNext]_serverVars PROVE [AnyNext]_vars
  BY BaseStep DEF AnyNext, Next, RequestStep, TaskStep

LEMMA CoreInductive == ServerSpec => []CoreInv
<1>1. ServerInit => CoreInv
  BY InvInit DEF ServerInit
<1>2. CoreInv /\ [ServerNext]_serverVars => CoreInv'
  BY InvNext, AnyStep
<1> QED
  BY <1>1, <1>2, PTL DEF ServerSpec

\* With the fetch fallback outside the gate, spans, sockets, signals and a
\* forced stop, still no service is closed beneath accounted work.
THEOREM ServerWorkIsSafe == ServerSpec => []ServicesOutliveWork
<1>1. CoreInv => ServicesOutliveWork
  BY CoreSafe
<1> QED
  BY <1>1, CoreInductive, PTL

\* The server as a whole keeps the contract of docs/services.md: a step of
\* the handle, of the hub or of a span is one the contract allows, or hidden.
THEOREM ServerRefines == ServerSpec => ImplementsContract
<1>1. ServerInit => Contract!Init
  BY ContractInit DEF ServerInit
<1>2. CoreInv /\ CoreInv' /\ [ServerNext]_serverVars => [Contract!Next]_(Contract!vars)
  BY ContractStep, AnyStep
<1> QED
  BY <1>1, <1>2, CoreInductive, PTL DEF ServerSpec, ImplementsContract, Contract!Spec
=============================================================================
