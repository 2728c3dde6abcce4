----------------------------- MODULE LugasServer -----------------------------
(***************************************************************************)
(* What serve() puts together: the lifecycle coordinator, the telemetry    *)
(* span of every request, and the hub of open websockets.  Each part is    *)
(* driven by the events of the others: track() feeds the drain and a span, *)
(* shutdown() closes the sockets before it stops the listener, a handler   *)
(* that upgrades ends its request and leaves a socket behind.              *)
(*                                                                         *)
(* The coordinator is the module this one extends, with its own actions;   *)
(* an action here is one of them together with what serve() adds to it.    *)
(***************************************************************************)
EXTENDS Lifecycle

CONSTANT Kind  \* "route", "socket" for a websocket() route, "fallback" for no route

ASSUME KindAssumption == Kind \in [Requests -> {"route", "socket", "fallback"}]

\* The second argument of a track() call that has none.
nobody == "nobody"
ASSUME NobodyAssumption == nobody \notin Requests

VARIABLES
  openTasks,  \* state.tracked of each request
  produced,   \* requests whose state.response is set
  ends,       \* request.end events emitted for each request
  token,      \* the request each task was registered with
  counted,    \* tasks that a span waits for, or waited for
  socket,     \* what became of each upgraded connection
  sockets,    \* hub.sockets
  reason      \* what began the shutdown: a call of the handle or a signal

spans == <<openTasks, produced, ends, token, counted>>
hub == <<socket, sockets>>
serverVars == <<vars, spans, hub, reason>>

\* "closing": close() was called, by us or by the peer, and Bun has not yet
\* reported it.
SocketStates == {"none", "upgraded", "open", "closing", "closed"}

ServerTypeOK ==
  /\ TypeOK
  /\ openTasks \in [Requests -> Nat]
  /\ produced \in SUBSET Requests /\ ends \in [Requests -> 0 .. 2]
  /\ token \in [Tasks -> Requests \cup {nobody}] /\ counted \in SUBSET Tasks
  /\ socket \in [Requests -> SocketStates] /\ sockets \in SUBSET Requests
  /\ reason \in {"none", "handle", "signal"}

ServerInit ==
  /\ Init
  /\ openTasks = [r \in Requests |-> 0] /\ produced = {}
  /\ ends = [r \in Requests |-> 0]
  /\ token = [t \in Tasks |-> nobody] /\ counted = {}
  /\ socket = [r \in Requests |-> "none"] /\ sockets = {}
  /\ reason = "none"

-----------------------------------------------------------------------------
(* Telemetry: one span per request.                                        *)

\* request.start has been emitted, before the gate.
started(r) == handler[r] # "none"

\* Mutant: the counter is not consulted.
tryFinishEarly(r) ==
  ends' = IF ends[r] = 0 /\ r \in produced' THEN [ends EXCEPT ![r] = @ + 1] ELSE ends

\* tryFinish: the response exists and nothing correlated is unsettled.
tryFinish(r) ==
  ends' = IF ends[r] = 0 /\ r \in produced' /\ openTasks'[r] = 0
            THEN [ends EXCEPT ![r] = @ + 1] ELSE ends

\* Mutant: what follows the response is left to the tasks.
RespondsUnfinished(r) ==
  /\ produced' = produced \cup {r}
  /\ UNCHANGED <<ends, openTasks, token, counted>>

\* The wrapped handler's promise has resolved.
Responds(r) ==
  /\ produced' = produced \cup {r}
  /\ UNCHANGED <<openTasks, token, counted>>
  /\ tryFinish(r)

\* The registry knows the request, and its span has not ended.
correlates(r) == r # nobody /\ ends[r] = 0

\* Mutant: a correlated task is not accounted by the drain.
TrackFor(t, r) ==
  /\ r # nobody => handler[r] \in {"running", "done"}
  /\ IF r = nobody THEN Track(t)
     ELSE task[t] = "none" /\ task' = [task EXCEPT ![t] = "running"]
          /\ UNCHANGED <<startup, svc, traffic, tracked, ending>>
  /\ token' = [token EXCEPT ![t] = r]
  /\ counted' = IF correlates(r) THEN counted \cup {t} ELSE counted
  /\ openTasks' = IF correlates(r) THEN [openTasks EXCEPT ![r] = @ + 1] ELSE openTasks
  /\ UNCHANGED <<produced, ends, hub, reason>>

\* lugasLifecycle.track(task, request?): the span first, then the drain.  Code
\* that holds a request has been called with it, and may keep it.
TrackCall(t, r) ==
  /\ r # nobody => handler[r] \in {"running", "done"}
  /\ Track(t)
  /\ token' = [token EXCEPT ![t] = r]
  /\ counted' = IF correlates(r) THEN counted \cup {t} ELSE counted
  /\ openTasks' = IF correlates(r) THEN [openTasks EXCEPT ![r] = @ + 1] ELSE openTasks
  /\ UNCHANGED <<produced, ends, hub, reason>>

\* Both continuations of a settled task.
TaskDone(t) ==
  /\ TaskSettles(t)
  /\ IF t \in counted
       THEN /\ openTasks' = [openTasks EXCEPT ![token[t]] = @ - 1]
            /\ UNCHANGED produced
            /\ tryFinish(token[t])
       ELSE UNCHANGED <<openTasks, produced, ends>>
  /\ UNCHANGED <<token, counted, hub, reason>>

-----------------------------------------------------------------------------
(* Requests.                                                               *)

\* A request no route matches: the fetch fallback, outside the gate.
ArriveUnmatched(r) ==
  /\ listening /\ handler[r] = "none"
  /\ pending' = pending \cup {r}
  /\ handler' = [handler EXCEPT ![r] = "running"]
  /\ UNCHANGED <<startup, svc, lost, work, ending>>

Receive(r) ==
  /\ IF Kind[r] = "fallback" THEN ArriveUnmatched(r) ELSE Arrive(r)
  /\ UNCHANGED <<spans, hub, reason>>

\* Anything but an upgrade: a refused handshake (a guard, 422, 426) too.
Answer(r) == (Respond(r) \/ Unavailable(r)) /\ Responds(r) /\ UNCHANGED <<hub, reason>>

\* performUpgrade: Bun takes the connection over, also of a request accepted
\* before it was stopped, and the unsent 204 goes through the wrappers.
Upgrade(r) ==
  /\ Kind[r] = "socket" /\ r \notin lost
  /\ Respond(r) /\ Responds(r)
  /\ socket' = [socket EXCEPT ![r] = "upgraded"]
  /\ UNCHANGED <<sockets, reason>>

-----------------------------------------------------------------------------
(* The websocket hub.                                                      *)

\* Bun's open event.
SocketOpens(r) ==
  /\ socket[r] = "upgraded"
  /\ socket' = [socket EXCEPT ![r] = "open"]
  /\ sockets' = sockets \cup {r}
  /\ UNCHANGED <<vars, spans, reason>>

\* Either end closes it.
SocketLeaves(r) ==
  /\ socket[r] \in {"upgraded", "open"}
  /\ socket' = [socket EXCEPT ![r] = "closing"]
  /\ UNCHANGED <<vars, spans, sockets, reason>>

\* Bun's close event.
SocketClosed(r) ==
  /\ socket[r] = "closing"
  /\ socket' = [socket EXCEPT ![r] = "closed"]
  /\ sockets' = sockets \ {r}
  /\ UNCHANGED <<vars, spans, reason>>

CloseSockets(S) == socket' = [r \in Requests |-> IF r \in S THEN "closing" ELSE socket[r]]

\* closeAll(1001): a socket that has left already is not closed again.
closeAll ==
  /\ CloseSockets({r \in sockets : socket[r] = "open"})
  /\ sockets' = {}

-----------------------------------------------------------------------------
(* Shutting down.                                                          *)

shutdownBy(who) ==
  IF stage = "idle" THEN Shutdown /\ reason' = who ELSE UNCHANGED <<vars, reason>>

\* Mutant: the coordinator is asked, the sockets are left to the drain.
HandleShutdownOnly == shutdownBy("handle") /\ UNCHANGED <<spans, hub>>

\* lugasLifecycle.shutdown(): a later call closes the sockets opened since.
HandleShutdown ==
  /\ shutdownBy("handle")
  /\ closeAll
  /\ UNCHANGED spans

\* signalHandler, if shutdown.signals installed it and the shutdown has not
\* removed it yet: the coordinator's own shutdown().
Signal ==
  /\ stage = "idle" /\ shutdownBy("signal")
  /\ UNCHANGED <<spans, hub>>

\* stop(true) ends every connection, upgraded ones included.
ForceStop ==
  /\ PollExpired
  /\ CloseSockets({r \in Requests : socket[r] \in {"upgraded", "open"}})
  /\ UNCHANGED <<spans, sockets, reason>>

Coordinate ==
  /\ \/ ServiceStep \/ BeginDrain \/ DeadlinePasses \/ PollDrained \/ DisposalStep
     \/ \E r \in Requests : Release(r) \/ ClientGone(r)
  /\ UNCHANGED <<spans, hub, reason>>

RequestStarts == \E r \in Requests : Receive(r)
RequestEnds == \E r \in Requests : Answer(r) \/ Upgrade(r)
SocketStep == \E r \in Requests : SocketOpens(r) \/ SocketLeaves(r) \/ SocketClosed(r)
TaskStarts == \E t \in Tasks, r \in Requests \cup {nobody} : TrackCall(t, r)
TaskEnds == \E t \in Tasks : TaskDone(t)

ServerNext ==
  \/ RequestStarts \/ RequestEnds \/ SocketStep \/ TaskStarts \/ TaskEnds
  \/ HandleShutdown \/ Signal \/ ForceStop \/ Coordinate

\* As for the coordinator; handlers and tasks are only assumed to settle here.
ServerFairness ==
  /\ WF_serverVars(ServiceStep /\ UNCHANGED <<spans, hub, reason>>)
  /\ \A r \in Requests : /\ WF_serverVars(Release(r) /\ UNCHANGED <<spans, hub, reason>>)
                         /\ WF_serverVars(Answer(r) \/ Upgrade(r))
  /\ \A t \in Tasks : WF_serverVars(TaskDone(t))

ServerSpec == ServerInit /\ [][ServerNext]_serverVars /\ ServerFairness

-----------------------------------------------------------------------------
(* Properties.                                                             *)

workOf(r) == {t \in Tasks : token[t] = r /\ task[t] \in {"running", "late"}}

\* One request.end per request, when the response exists and the work its
\* span waits for has settled: not before, and not never, whichever of the
\* two comes last (ADR-0032 #2, telemetry.ts: tryFinish).
SpanBoundary ==
  \A r \in Requests :
    /\ ends[r] <= 1
    /\ ends[r] = 1 <=> r \in produced /\ workOf(r) \cap counted = {}

\* "The same set the drain waits on": a cooperative shutdown disposes nothing
\* before the span of every request it knows of has ended, so that no exporter
\* that is a service is closed under an open span.
DrainCoversSpans ==
  stage = "dispose" \/ outcome = "drained" =>
    \A r \in Requests : started(r) /\ r \notin lost => ends[r] = 1

\* Every request.start is followed by its request.end once handlers and tasks
\* settle: held at the gate, refused, upgraded, abandoned by its client or
\* outliving a forced stop.
SpanEnds == \A r \in Requests : started(r) ~> ends[r] = 1

\* A shutdown asked of the handle closes every socket that is open then, in
\* the step that stops the listener: none is left to outlive the drain.
ToldAtShutdown ==
  [][reason' = "handle" /\ reason # "handle" => \A r \in Requests : socket'[r] # "open"]_serverVars
=============================================================================
