------------------------------- MODULE Startup -------------------------------
(***************************************************************************)
(* serve(), called again and again on one application.  What defineApp()   *)
(* prepared is shared by every server: the traffic gate, the services, the *)
(* hub of the websockets.  A call starts the services before it looks at   *)
(* the rest of its options, so it may throw when they are already on their *)
(* way.  One server's own start and shutdown is the subject of Lifecycle;  *)
(* here they are as coarse as the others can see them.                     *)
(***************************************************************************)
EXTENDS Naturals

CONSTANTS
  CallCount,     \* a bound on the calls of serve()
  ServiceCount,  \* the services with hooks
  Requests       \* requests a client may send

ASSUME CountsAssumption == CallCount \in Nat /\ ServiceCount \in Nat

Calls == 1 .. CallCount
nobody == 0

\* Whether serve() throws once the services are on their way (LUGAS_BODY_003,
\* LUGAS_WS_002, or what Bun.serve() throws), and whether signals reach its
\* coordinator.
ServeOptions == [refused: BOOLEAN, signals: BOOLEAN]

VARIABLES
  options,  \* what each call was given
  server,   \* what each call came to
  init,     \* the coordinator's initPromise
  live,     \* how many services the call has initialized and not disposed
  gate,     \* the call whose promise trafficGate.gate is
  settled,  \* trafficGate.settled
  hub,      \* the call whose server the websocket hub upgrades with
  request,  \* the server of each request, the gate it waits for, its state
  beside    \* history: the calls whose services were starting when each was made

shared == <<gate, settled, hub>>
startupVars == <<options, server, init, live, shared, request, beside>>

Fine == [refused |-> FALSE, signals |-> FALSE]
NoRequest == [server |-> nobody, gate |-> nobody, state |-> "none"]

StartupInit ==
  /\ options = [c \in Calls |-> Fine] /\ server = [c \in Calls |-> "none"]
  /\ init = [c \in Calls |-> "none"] /\ live = [c \in Calls |-> 0]
  /\ gate = nobody /\ settled = TRUE /\ hub = nobody
  /\ request = [r \in Requests |-> NoRequest] /\ beside = [c \in Calls |-> {}]

-----------------------------------------------------------------------------
\* Mutant: the gate is opened once and for all.
GatesOnce(c) == IF gate = nobody THEN gate' = c /\ settled' = FALSE ELSE UNCHANGED <<gate, settled>>

\* Without services the gate of the preparation stays, which is open.
Gates(c) ==
  IF ServiceCount = 0 THEN UNCHANGED <<gate, settled>> ELSE gate' = c /\ settled' = FALSE

\* serveApp(): startLifecycle() and the gate come first.  Nothing keeps a
\* caller from a second server, or from another try while the services of one
\* that was refused are still starting.
Serve(c, o) ==
  /\ server[c] = "none" /\ \A d \in 1 .. c - 1 : server[d] # "none"
  /\ options' = [options EXCEPT ![c] = o]
  /\ init' = [init EXCEPT ![c] = IF ServiceCount = 0 THEN "ready" ELSE "running"]
  /\ Gates(c)
  /\ server' = [server EXCEPT ![c] = IF o.refused THEN "refused" ELSE "listening"]
  /\ hub' = IF o.refused THEN hub ELSE c
  /\ beside' = [beside EXCEPT ![c] = {d \in Calls : init[d] = "running"}]
  /\ UNCHANGED <<live, request>>

-----------------------------------------------------------------------------
\* Whoever's promise it is that settles, its callback sets the shared flag.
InitResolves(c) ==
  /\ init[c] = "running"
  /\ live' = [live EXCEPT ![c] = @ + 1]
  /\ IF live[c] + 1 = ServiceCount
     THEN init' = [init EXCEPT ![c] = "ready"] /\ settled' = TRUE
     ELSE UNCHANGED <<init, settled>>
  /\ UNCHANGED <<options, server, gate, hub, request, beside>>

InitRejects(c) ==
  /\ init[c] = "running" /\ init' = [init EXCEPT ![c] = "rollback"]
  /\ UNCHANGED <<options, server, live, shared, request, beside>>

RolledBack(c) ==
  /\ init[c] = "rollback"
  /\ init' = [init EXCEPT ![c] = "failed"] /\ live' = [live EXCEPT ![c] = 0]
  /\ settled' = FALSE
  /\ UNCHANGED <<options, server, gate, hub, request, beside>>

-----------------------------------------------------------------------------
\* A handler runs at once when the flag is up; else it waits for the promise
\* the gate is at that moment.
Arrive(r, c) ==
  /\ request[r].state = "none" /\ server[c] = "listening"
  /\ request' = [request EXCEPT ![r] =
       [server |-> c, gate |-> gate, state |-> IF settled THEN "running" ELSE "held"]]
  /\ UNCHANGED <<options, server, init, live, shared, beside>>

Released(r) ==
  /\ request[r].state = "held"
  /\ \/ /\ request[r].gate = nobody \/ init[request[r].gate] = "ready"
        /\ request' = [request EXCEPT ![r].state = "running"]
     \/ /\ request[r].gate # nobody /\ init[request[r].gate] = "failed"
        /\ request' = [request EXCEPT ![r].state = "unavailable"]
  /\ UNCHANGED <<options, server, init, live, shared, beside>>

Respond(r) ==
  /\ request[r].state = "running" /\ request' = [request EXCEPT ![r].state = "done"]
  /\ UNCHANGED <<options, server, init, live, shared, beside>>

-----------------------------------------------------------------------------
\* By the handle serve() returned, or by a signal.
Shutdown(c) ==
  /\ server[c] = "listening" \/ (server[c] = "refused" /\ options[c].signals)
  /\ server' = [server EXCEPT ![c] = "stopping"]
  /\ UNCHANGED <<options, init, live, shared, request, beside>>

\* Drained, and the services of a call that started are disposed.
Dispose(c) ==
  /\ server[c] = "stopping" /\ init[c] \in {"ready", "failed"}
  /\ \A r \in Requests : request[r].server = c => request[r].state \in {"done", "unavailable"}
  /\ server' = [server EXCEPT ![c] = "gone"] /\ live' = [live EXCEPT ![c] = 0]
  /\ UNCHANGED <<options, init, shared, request, beside>>

StartupNext ==
  \/ \E c \in Calls :
       \/ \E o \in ServeOptions : Serve(c, o)
       \/ InitResolves(c) \/ InitRejects(c) \/ RolledBack(c) \/ Shutdown(c) \/ Dispose(c)
       \/ \E r \in Requests : Arrive(r, c)
  \/ \E r \in Requests : Released(r) \/ Respond(r)

StartupSpec == StartupInit /\ [][StartupNext]_startupVars

-----------------------------------------------------------------------------
TypeOK ==
  /\ options \in [Calls -> ServeOptions]
  /\ server \in [Calls -> {"none", "refused", "listening", "stopping", "gone"}]
  /\ init \in [Calls -> {"none", "running", "rollback", "ready", "failed"}]
  /\ live \in [Calls -> 0 .. ServiceCount]
  /\ gate \in Calls \cup {nobody} /\ settled \in BOOLEAN /\ hub \in Calls \cup {nobody}
  /\ request \in [Requests -> [server: Calls \cup {nobody}, gate: Calls \cup {nobody},
                               state: {"none", "held", "running", "done", "unavailable"}]]
  /\ beside \in [Calls -> SUBSET Calls]

\* The services of a call are up, all of them.
up(c) == init[c] = "ready" /\ live[c] = ServiceCount

\* The calls whose services were starting together with those of c: when it was
\* made, or that were made later.
company(c) == (beside[c] \cup {d \in Calls : d > c}) \ {c}

\* A handler only runs when its server's services are up, whatever calls of
\* serve() that threw, failed or ended long ago have left in the gate and its
\* flag.  Only a call in whose company it was can make it run before: one that
\* was starting its own when it was made, a refused one included, or a later
\* one, and then its services have come up.  Its websockets are upgraded by its
\* own server, or by a later one's (serve.ts:68-81, which says that traffic is
\* held "until initialization settles").
GateCoversServer ==
  \A r \in Requests :
    LET c == request[r].server
    IN request[r].state = "running" =>
         /\ up(c) \/ \E d \in company(c) : init[d] = "ready"
         /\ hub >= c

=============================================================================
