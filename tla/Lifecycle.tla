------------------------------ MODULE Lifecycle ------------------------------
(***************************************************************************)
(* The lifecycle coordinator of a served application: ordered service      *)
(* start-up with rollback, the traffic gate in front of every handler,     *)
(* work registered with track(), and the three-phase shutdown              *)
(*    stop accepting -> drain under a deadline -> reverse-order disposal.  *)
(*                                                                         *)
(* The code is two async functions, the start-up loop (initPromise) and    *)
(* the shutdown (shutdownPromise).  JavaScript interleaves them only at an *)
(* `await`, so one action is the code between two awaits: a hook is called *)
(* by one action and settles in another.                                   *)
(***************************************************************************)
EXTENDS Naturals

CONSTANTS
  ServiceCount,  \* number of service() descriptors; service i is the i-th declared
  Requests,      \* requests a client may send
  Tasks          \* promises the application may pass to track()

ASSUME ServiceCountAssumption == ServiceCount \in Nat
ASSUME WorkAssumption == Requests \cap Tasks = {}

Services == 1 .. ServiceCount

VARIABLES
  initPhase,         \* progress of initPromise
  initialized,       \* length of the coordinator's list, a declaration-order prefix
  rollbackAt,        \* `i` of the rollback loop
  svc,               \* what really became of each service's resource
  pending,           \* the requests counted by server.pendingRequests
  handler,           \* what became of each request's handler
  lost,              \* requests whose client disconnected before the response
  task,              \* what became of each task
  tracked,           \* the coordinator's set of tracked promises
  stage,             \* progress of shutdownPromise
  deadlinePassed,    \* Date.now() >= deadline
  disposeAt,         \* `i` of the disposal loop
  disposalFailures,  \* services whose dispose hook rejected during shutdown
  outcome            \* the ShutdownOutcome, "none" while undefined

startup == <<initPhase, initialized, rollbackAt>>
traffic == <<pending, handler, lost>>
work == <<task, tracked>>
ending == <<stage, deadlinePassed, disposeAt, disposalFailures, outcome>>
vars == <<startup, svc, traffic, work, ending>>

\* "broken": init rejected.  "leaked": dispose rejected.
DisposeResults == {"disposed", "leaked"}
ServiceStates == {"down", "initializing", "up", "broken", "disposing"} \cup DisposeResults

\* A "late" task was registered after the drain had ended.
TaskStates == {"none", "running", "late", "settled"}

TypeOK ==
  /\ initPhase \in {"running", "rollback", "ready", "failed"}
  /\ initialized \in 0 .. ServiceCount /\ rollbackAt \in 0 .. ServiceCount
  /\ svc \in [Services -> ServiceStates]
  /\ pending \in SUBSET Requests /\ lost \in SUBSET Requests
  /\ handler \in [Requests -> {"none", "held", "running", "done", "unavailable"}]
  /\ task \in [Tasks -> TaskStates] /\ tracked \in SUBSET Tasks
  /\ stage \in {"idle", "awaitInit", "drain", "dispose", "finished"}
  /\ deadlinePassed \in BOOLEAN /\ disposeAt \in 0 .. ServiceCount
  /\ disposalFailures \in SUBSET Services
  /\ outcome \in {"none", "drained", "expired"}

\* serve() has returned: Bun listens and the loop is about to call a hook.
Init ==
  /\ initPhase = IF ServiceCount = 0 THEN "ready" ELSE "running"
  /\ initialized = 0 /\ rollbackAt = 0
  /\ svc = [s \in Services |-> "down"]
  /\ pending = {} /\ lost = {}
  /\ handler = [r \in Requests |-> "none"]
  /\ task = [t \in Tasks |-> "none"] /\ tracked = {}
  /\ stage = "idle" /\ deadlinePassed = FALSE /\ disposeAt = 0
  /\ disposalFailures = {} /\ outcome = "none"

\* trafficGate.settled, which /ready also answers from.
settled == initPhase = "ready"

\* server.stop() is the first thing a shutdown does.
listening == stage = "idle"

-----------------------------------------------------------------------------
(* Start-up: the loop over services in declaration order.                  *)

\* `await svc.init?.(svc.value)` calls the next service's hook.
CallInit(s) ==
  /\ initPhase = "running" /\ s = initialized + 1
  /\ svc[s] = "down"
  /\ svc' = [svc EXCEPT ![s] = "initializing"]
  /\ UNCHANGED <<startup, traffic, work, ending>>

\* The hook resolves; the last one resolves initPromise and opens the gate.
InitResolves(s) ==
  /\ initPhase = "running" /\ svc[s] = "initializing"
  /\ svc' = [svc EXCEPT ![s] = "up"]
  /\ initialized' = s
  /\ initPhase' = IF s = ServiceCount THEN "ready" ELSE "running"
  /\ UNCHANGED <<rollbackAt, traffic, work, ending>>

\* The hook rejects: what was initialized before it is rolled back.
InitRejects(s) ==
  /\ initPhase = "running" /\ svc[s] = "initializing"
  /\ svc' = [svc EXCEPT ![s] = "broken"]
  /\ initPhase' = "rollback"
  /\ rollbackAt' = initialized
  /\ UNCHANGED <<initialized, traffic, work, ending>>

\* `await done.dispose?.(done.value)` calls the hook of initialized[i].
CallRollback ==
  /\ initPhase = "rollback" /\ rollbackAt > 0
  /\ svc[rollbackAt] # "disposing"
  /\ svc' = [svc EXCEPT ![rollbackAt] = "disposing"]
  /\ UNCHANGED <<startup, traffic, work, ending>>

\* The hook settles; a rejection is swallowed.
RollbackSettles(result) ==
  /\ initPhase = "rollback" /\ rollbackAt > 0
  /\ svc[rollbackAt] = "disposing"
  /\ svc' = [svc EXCEPT ![rollbackAt] = result]
  /\ rollbackAt' = rollbackAt - 1
  /\ UNCHANGED <<initPhase, initialized, traffic, work, ending>>

\* `initialized = []; throw error` rejects initPromise.
RollbackDone ==
  /\ initPhase = "rollback" /\ rollbackAt = 0
  /\ initialized' = 0
  /\ initPhase' = "failed"
  /\ UNCHANGED <<rollbackAt, svc, traffic, work, ending>>

-----------------------------------------------------------------------------
(* Traffic: the gate in front of a compiled handler, and Bun's count.      *)

\* Mutant: the handler is not wrapped by the gate.
ArriveUngated(r) ==
  /\ listening /\ handler[r] = "none"
  /\ pending' = pending \cup {r}
  /\ handler' = [handler EXCEPT ![r] = "running"]
  /\ UNCHANGED <<startup, svc, lost, work, ending>>

\* A request reaches the gate: run at once when settled, otherwise hold.
Arrive(r) ==
  /\ listening /\ handler[r] = "none"
  /\ pending' = pending \cup {r}
  /\ handler' = [handler EXCEPT ![r] = IF settled THEN "running" ELSE "held"]
  /\ UNCHANGED <<startup, svc, lost, work, ending>>

\* The gate's promise resolved.
Release(r) ==
  /\ handler[r] = "held" /\ initPhase = "ready"
  /\ handler' = [handler EXCEPT ![r] = "running"]
  /\ UNCHANGED <<startup, svc, pending, lost, work, ending>>

\* Mutant: a stopping server forgets to refuse what it holds.
UnavailableWhileListening(r) ==
  /\ listening /\ handler[r] = "held" /\ initPhase = "failed"
  /\ handler' = [handler EXCEPT ![r] = "unavailable"]
  /\ pending' = pending \ {r}
  /\ UNCHANGED <<startup, svc, lost, work, ending>>

\* The gate's promise rejected: a 503 problem.
Unavailable(r) ==
  /\ handler[r] = "held" /\ initPhase = "failed"
  /\ handler' = [handler EXCEPT ![r] = "unavailable"]
  /\ pending' = pending \ {r}
  /\ UNCHANGED <<startup, svc, lost, work, ending>>

\* The handler's promise settles and the response is sent.
Respond(r) ==
  /\ handler[r] = "running"
  /\ handler' = [handler EXCEPT ![r] = "done"]
  /\ pending' = pending \ {r}
  /\ UNCHANGED <<startup, svc, lost, work, ending>>

\* The client disconnects.  Bun may forget the request; the handler goes on.
ClientGone(r) ==
  /\ r \in pending
  /\ pending' = pending \ {r}
  /\ lost' = lost \cup {r}
  /\ UNCHANGED <<startup, svc, handler, work, ending>>

-----------------------------------------------------------------------------
(* track(): accounted until the outcome exists, ignored afterwards.        *)

\* Mutant: nothing is accounted once the shutdown has begun.
TrackBeforeShutdown(t) ==
  /\ task[t] = "none"
  /\ task' = [task EXCEPT ![t] =
                IF stage \in {"dispose", "finished"} THEN "late" ELSE "running"]
  /\ tracked' = IF stage = "idle" THEN tracked \cup {t} ELSE tracked
  /\ UNCHANGED <<startup, svc, traffic, ending>>

Track(t) ==
  /\ task[t] = "none"
  /\ task' = [task EXCEPT ![t] =
                IF stage \in {"dispose", "finished"} THEN "late" ELSE "running"]
  /\ tracked' = IF outcome = "none" THEN tracked \cup {t} ELSE tracked
  /\ UNCHANGED <<startup, svc, traffic, ending>>

TaskSettles(t) ==
  /\ task[t] \in {"running", "late"}
  /\ task' = [task EXCEPT ![t] = "settled"]
  /\ tracked' = tracked \ {t}
  /\ UNCHANGED <<startup, svc, traffic, ending>>

-----------------------------------------------------------------------------
(* shutdown(): a later call returns the first call's promise, no more.     *)

Shutdown ==
  /\ stage = "idle"
  /\ stage' = "awaitInit"
  /\ UNCHANGED <<startup, svc, traffic, work>>
  /\ UNCHANGED <<deadlinePassed, disposeAt, disposalFailures, outcome>>

\* Mutant: the wait has no handler for a rejected start-up.
BeginDrainIfReady ==
  /\ stage = "awaitInit" /\ initPhase = "ready"
  /\ stage' = "drain"
  /\ UNCHANGED <<startup, svc, traffic, work>>
  /\ UNCHANGED <<deadlinePassed, disposeAt, disposalFailures, outcome>>

\* `await initPromise.then(...)` returns and the deadline is armed.
BeginDrain ==
  /\ stage = "awaitInit" /\ initPhase \in {"ready", "failed"}
  /\ stage' = "drain"
  /\ UNCHANGED <<startup, svc, traffic, work>>
  /\ UNCHANGED <<deadlinePassed, disposeAt, disposalFailures, outcome>>

\* drainDeadlineMs have gone by since BeginDrain.
DeadlinePasses ==
  /\ stage = "drain" /\ ~deadlinePassed
  /\ deadlinePassed' = TRUE
  /\ UNCHANGED <<startup, svc, traffic, work, stage, disposeAt, disposalFailures, outcome>>

\* Mutant: the poll forgets the tracked set.
RequestsDone == pending = {}

WorkDone == pending = {} /\ tracked = {}

\* A poll that finds no accounted work.
PollDrained ==
  /\ stage = "drain" /\ WorkDone
  /\ stage' = "dispose"
  /\ disposeAt' = initialized
  /\ UNCHANGED <<startup, svc, traffic, work, deadlinePassed, disposalFailures, outcome>>

\* A poll that finds work after the deadline: stop(true) and no disposal.
\* Any other poll sleeps DRAIN_POLL_MS and changes nothing.
PollExpired ==
  /\ stage = "drain" /\ ~WorkDone /\ deadlinePassed
  /\ pending' = {}
  /\ outcome' = "expired"
  /\ stage' = "finished"
  /\ UNCHANGED <<startup, svc, handler, lost, work, deadlinePassed, disposeAt, disposalFailures>>

\* `await svc.dispose?.(svc.value)` calls the hook of initialized[i].
CallDispose ==
  /\ stage = "dispose" /\ disposeAt > 0
  /\ svc[disposeAt] # "disposing"
  /\ svc' = [svc EXCEPT ![disposeAt] = "disposing"]
  /\ UNCHANGED <<startup, traffic, work, ending>>

\* The hook settles; a rejection is collected.
DisposeSettles(result) ==
  /\ stage = "dispose" /\ disposeAt > 0
  /\ svc[disposeAt] = "disposing"
  /\ svc' = [svc EXCEPT ![disposeAt] = result]
  /\ disposalFailures' = IF result = "leaked" THEN disposalFailures \cup {disposeAt}
                                              ELSE disposalFailures
  /\ disposeAt' = disposeAt - 1
  /\ UNCHANGED <<startup, traffic, work, stage, deadlinePassed, outcome>>

\* The loop is over: the cooperative outcome is frozen.
Report ==
  /\ stage = "dispose" /\ disposeAt = 0
  /\ outcome' = "drained"
  /\ stage' = "finished"
  /\ UNCHANGED <<startup, svc, traffic, work, deadlinePassed, disposeAt, disposalFailures>>

-----------------------------------------------------------------------------
ServiceStep ==
  \/ \E s \in Services : CallInit(s) \/ InitResolves(s) \/ InitRejects(s)
  \/ CallRollback
  \/ \E result \in DisposeResults : RollbackSettles(result)
  \/ RollbackDone

RequestStep(r) ==
  Arrive(r) \/ Release(r) \/ Unavailable(r) \/ Respond(r) \/ ClientGone(r)

TaskStep(t) == Track(t) \/ TaskSettles(t)

DisposalStep ==
  CallDispose \/ (\E result \in DisposeResults : DisposeSettles(result)) \/ Report

Next ==
  \/ ServiceStep
  \/ \E r \in Requests : RequestStep(r)
  \/ \E t \in Tasks : TaskStep(t)
  \/ Shutdown \/ BeginDrain \/ DeadlinePasses \/ PollDrained \/ PollExpired
  \/ DisposalStep

\* The event loop runs every ready continuation, timers fire, and the
\* application's hooks settle.  Nothing obliges a handler or a task to
\* settle, a client to stay, or anyone to call shutdown().
Fairness ==
  /\ WF_vars(ServiceStep)
  /\ WF_vars(\E r \in Requests : Release(r) \/ Unavailable(r))
  /\ WF_vars(BeginDrain \/ DeadlinePasses)
  /\ WF_vars(PollDrained \/ PollExpired)
  /\ WF_vars(DisposalStep)

Spec == Init /\ [][Next]_vars /\ Fairness

-----------------------------------------------------------------------------
(* Work the drain accounts for, whatever became of its connection: a       *)
(* request Bun counted until its client left, a task tracked in time.      *)
LiveWork ==
  {r \in Requests : handler[r] \in {"held", "running"} /\ r \notin lost}
    \cup {t \in Tasks : task[t] = "running"}

\* ADR-0020's defining invariant: once started, no service is closed
\* beneath accounted work, not even after the deadline forced the
\* connections shut and the handler went on without one.
ServicesOutliveWork ==
  initPhase = "ready" /\ LiveWork # {} => \A s \in Services : svc[s] = "up"

\* A service is only ever being started, in use or being disposed while
\* every service declared before it is up: declaration-order init, reverse
\* rollback and reverse disposal, across both loops.
DependenciesUp ==
  \A s, dep \in Services :
    dep < s /\ svc[s] \in {"initializing", "up", "disposing"} => svc[dep] = "up"

\* No handler runs before every init settled, none at all after a failed
\* start-up, and an answer of /ready never promises a service that is not up.
GateHolds ==
  /\ \A r \in Requests :
       handler[r] \in {"running", "done"} => \A s \in Services : svc[s] \notin {"down", "initializing", "broken"}
  /\ settled /\ listening => \A s \in Services : svc[s] = "up"

\* The reported outcome is what happened: a cooperative one leaves nothing
\* open and lists exactly the dispose hooks that rejected since start-up; an
\* expired one has closed nothing.
OutcomeHonest ==
  /\ outcome = "drained" =>
       \A s \in Services : svc[s] \notin {"initializing", "up", "disposing"}
  /\ outcome # "none" /\ initPhase = "ready" =>
       disposalFailures = {s \in Services : svc[s] = "leaked"}
  /\ outcome = "expired" /\ initPhase = "ready" => \A s \in Services : svc[s] = "up"

\* A dispose hook is only called on a service that is up: rollback and
\* shutdown never dispose the same service twice, nor one whose init failed.
DisposeOnce ==
  [][\A s \in Services : svc[s] # "disposing" /\ svc'[s] = "disposing" => svc[s] = "up"]_svc

\* A shutdown ends with an outcome even if no handler or task ever settles.
ShutdownEnds == stage # "idle" ~> outcome # "none"

\* A request held at the gate is let through or refused, never forgotten.
HeldIsAnswered == \A r \in Requests : handler[r] = "held" ~> handler[r] # "held"

-----------------------------------------------------------------------------
(* The coordinator implements the promise made to applications.            *)
ContractMode ==
  CASE initPhase = "running" -> "starting"
    [] initPhase \in {"rollback", "failed"} -> "undoing"
    [] initPhase = "ready" /\ (stage = "dispose" \/ outcome = "drained") -> "closing"
    [] OTHER -> "serving"

Contract == INSTANCE ServiceContract WITH
  Work <- Requests \cup Tasks,
  mode <- ContractMode,
  open <- {s \in Services : svc[s] = "up"},
  live <- LiveWork,
  verdict <- outcome

\* Every step of the coordinator is a step the contract allows, or hidden.
ImplementsContract == Contract!Spec

=============================================================================
