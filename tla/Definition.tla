------------------------------ MODULE Definition ------------------------------
(***************************************************************************)
(* The application file: the top-level code that calls guard(), route(),   *)
(* websocket(), service(), drizzleService(), defineModule() and, once,     *)
(* defineApp().  Every factory checks what it is given at that moment; the *)
(* arrays and objects it was given stay the caller's, who may change them  *)
(* between the checks and long after them, while the application serves.   *)
(*                                                                         *)
(* An uncaught diagnostic ends the file.  What matters is the sharing:     *)
(* `arrays` is the heap of guard arrays, a descriptor names the array it   *)
(* refers to, and the services of an application hang on the caller's      *)
(* object through a prototype chain.                                       *)
(***************************************************************************)
EXTENDS Naturals, Sequences, FiniteSets

CONSTANTS
  Shape,     \* of each path: does it start with "/", its segments
  Patterns,  \* the paths route maps use
  Keys,      \* of the services object
  Guards,    \* what is put into a guard array
  Files,     \* the literals a file may start with
  Services,  \* arguments of service() and drizzleService()
  Options,   \* arguments of defineApp(), without routes and services
  MaxChain,  \* bound: guards in an array
  MaxEdits   \* bound: changes to the caller's objects

SegmentType == [kind: {"text", "empty", "param", "unnamed", "star", "mixed"}, name: STRING]
GuardType == [name: STRING, callable: BOOLEAN]
Methods == {"select", "insert", "update", "delete"}

\* A function, a route() or websocket() descriptor, { GET: websocket(...) }, a
\* hand-made { handler, before }, { GET, get }, null.
Entries == {"none", "function", "route", "socket", "upgrade", "object", "twice", "null"}
Maps == [Patterns -> Entries]
ValueType == [kind: {"absent", "plain", "service"}, name: STRING, value: STRING]

ServiceType ==
  [via: {"service", "drizzle"}, name: STRING, hooks: BOOLEAN, crud: SUBSET Methods,
   close: {"absent", "no", "yes", "odd"}, closable: BOOLEAN]

ASSUME PathsAssumption ==
  /\ \A p \in DOMAIN Shape : Shape[p].rooted \in BOOLEAN /\ Shape[p].segments \in Seq(SegmentType)
  /\ Patterns \cup {"/openapi.json", "/docs", "/health", "/ready"} \subseteq DOMAIN Shape
ASSUME GuardsAssumption == Guards \subseteq GuardType

\* A value stands for its key, so that what is no value is no key either.
ASSUME KeysAssumption == IsFiniteSet(Keys) /\ Keys \subseteq STRING \ {"none", "undefined"}
ASSUME FilesAssumption ==
  \A f \in Files : /\ f.root \in Maps /\ f.module \in Maps /\ f.services \in [Keys -> ValueType]
                   /\ \A k \in Keys : f.services[k].kind = "service" => f.services[k].value = k
ASSUME ServicesAssumption == Services \subseteq ServiceType
ASSUME BoundsAssumption == MaxChain \in Nat /\ MaxEdits \in Nat

VARIABLES
  arrays,    \* guard arrays: the caller's own and the one route() froze
  maps,      \* the caller's route maps
  services,  \* the caller's services object
  route,     \* the array the route descriptor refers to, or "none"
  socket,    \* the array the websocket descriptor refers to, or "none"
  module,    \* the module: "none", "defined" or "byHand"
  vetted,    \* the paths defineModule() and the services defineApp() found
  app,       \* "none", "accepted", or the diagnostic that ended the file
  rows,      \* PreparedApp: what each path runs
  facts,     \* guard names of the manifest's records
  endpoints, \* the paths of the documents and of the health checks
  slots,     \* serviceSlots: its own properties
  starting,  \* lifecycleServices whose init has not resolved
  edits

authored == <<arrays, maps, services, edits>>
made == <<route, socket, module, vetted>>
prepared == <<rows, facts, endpoints>>
started == <<slots, starting>>
vars == <<authored, made, app, prepared, started>>

noRow == [entry |-> "none", before |-> "none", guarded |-> FALSE]

Init ==
  /\ \E f \in Files : /\ maps = [root |-> f.root, module |-> f.module]
                      /\ services = f.services
  /\ arrays = [own |-> <<>>, frozen |-> <<>>]
  /\ route = "none" /\ socket = "none" /\ module = "none"
  /\ vetted = [paths |-> {}, services |-> {}]
  /\ app = "none" /\ edits = 0
  /\ rows = [p \in Patterns |-> noRow] /\ facts = [p \in Patterns |-> <<>>] /\ endpoints = {}
  /\ slots = [k \in Keys |-> "none"] /\ starting = <<>>

Refuse(code) == app' = code /\ UNCHANGED <<authored, made, prepared, started>>

\* The code of the first check that fails, "ok" when none does.
FirstFault(checks) ==
  IF \E i \in DOMAIN checks : checks[i].fails
  THEN checks[CHOOSE i \in DOMAIN checks : /\ checks[i].fails
                                           /\ \A j \in 1 .. i - 1 : ~checks[j].fails].code
  ELSE "ok"

check(code, fails) == [code |-> code, fails |-> fails]

-----------------------------------------------------------------------------
(* The factories, and the caller's own objects.                            *)

Edit == edits < MaxEdits /\ edits' = edits + 1

guard(g) == FirstFault(<<check("LUGAS_GUARD_003", g.name \in {"", "absent"}), check("LUGAS_GUARD_004", ~g.callable)>>)

\* before.push(guard(g)), or before.push(g) of a hand-made object.
Push(g, factory) ==
  /\ Len(arrays.own) < MaxChain
  /\ IF factory /\ guard(g) # "ok"
     THEN app = "none" /\ Refuse(guard(g))
     ELSE /\ app \in {"none", "accepted"} /\ Edit
          /\ arrays' = [arrays EXCEPT !.own = Append(@, g)]
          /\ UNCHANGED <<maps, services, made, app, prepared, started>>

\* before.length = 0
Clear ==
  /\ app \in {"none", "accepted"} /\ arrays.own # <<>> /\ Edit
  /\ arrays' = [arrays EXCEPT !.own = <<>>]
  /\ UNCHANGED <<maps, services, made, app, prepared, started>>

isGuard(g) == g.name # "absent" /\ g.callable

unfit == \E i \in DOMAIN arrays.own : arrays.own[i].name = "absent" \/ ~arrays.own[i].callable

\* route()'s checks: unknown key, handler, budget, guards.
routeFault(known, callable, budget) ==
  FirstFault(<<check("LUGAS_ROUTE_002", ~known), check("LUGAS_ROUTE_003", ~callable),
               check("LUGAS_BODY_001", ~budget), check("LUGAS_ROUTE_005", unfit)>>)

\* Mutant: the descriptor keeps the array it was given.
routeKeeps(known, callable, budget) ==
  /\ app = "none" /\ route = "none"
  /\ LET code == routeFault(known, callable, budget)
     IN IF code # "ok"
        THEN Refuse(code)
        ELSE route' = "own" /\ UNCHANGED <<authored, socket, module, vetted, app, prepared, started>>

\* route({ before, handler }): Object.freeze([...before]).
Route(known, callable, budget) ==
  /\ app = "none" /\ route = "none"
  /\ LET code == routeFault(known, callable, budget)
     IN IF code # "ok"
        THEN Refuse(code)
        ELSE /\ route' = "frozen" /\ arrays' = [arrays EXCEPT !.frozen = arrays.own]
             /\ UNCHANGED <<maps, services, edits, socket, module, vetted, app, prepared, started>>

\* websocket({ before, message }): Object.freeze({ ...config }), the same array.
Websocket(known, callable) ==
  /\ app = "none" /\ socket = "none"
  /\ IF ~known \/ ~callable \/ unfit
     THEN Refuse("LUGAS_WS_001")
     ELSE socket' = "own" /\ UNCHANGED <<authored, route, module, vetted, app, prepared, started>>

service(c) ==
  FirstFault(<<check("LUGAS_LIFECYCLE_001", c.name = ""), check("LUGAS_LIFECYCLE_001", ~c.hooks)>>)

\* drizzleService() hands over to service() with the client's close() as dispose.
drizzleService(c) ==
  LET own == FirstFault(<<check("LUGAS_DRIZZLE_001", c.crud # Methods),
                          check("LUGAS_DRIZZLE_002", c.close = "odd"),
                          check("LUGAS_DRIZZLE_002", c.close = "yes" /\ ~c.closable)>>)
  IN IF own # "ok" THEN own ELSE FirstFault(<<check("LUGAS_LIFECYCLE_001", c.name = "")>>)

\* services[k] = service(c) or drizzleService(c)
Describe(k, c) ==
  LET code == IF c.via = "service" THEN service(c) ELSE drizzleService(c)
  IN IF code # "ok"
     THEN app = "none" /\ Refuse(code)
     ELSE /\ app \in {"none", "accepted"} /\ Edit
          /\ services' = [services EXCEPT ![k] = [kind |-> "service", name |-> c.name, value |-> k]]
          /\ UNCHANGED <<arrays, maps, made, app, prepared, started>>

\* services[k] = a plain value
Assign(k) ==
  /\ app \in {"none", "accepted"} /\ Edit
  /\ services' = [services EXCEPT ![k] = [kind |-> "plain", name |-> "", value |-> "later"]]
  /\ UNCHANGED <<arrays, maps, made, app, prepared, started>>

exists(e) == (e = "route" => route # "none") /\ (e \in {"socket", "upgrade"} => socket # "none")

\* routes[p] = e, or delete routes[p]
Enter(o, p, e) ==
  /\ app \in {"none", "accepted"} /\ exists(e) /\ maps[o][p] # e /\ Edit
  /\ maps' = [maps EXCEPT ![o][p] = e]
  /\ UNCHANGED <<arrays, services, made, app, prepared, started>>

\* The descriptors of a literal are made before it is.
complete(m) == \A p \in Patterns : exists(m[p])
declared(m) == {p \in Patterns : m[p] # "none"}

-----------------------------------------------------------------------------
(* Paths, and defineModule().                                              *)

kinds(p) == {Shape[p].segments[i].kind : i \in DOMAIN Shape[p].segments}

\* analyzePath(): well-formed parameters, each once, a wildcard only at the end.
wellFormed(p) ==
  LET s == Shape[p].segments
  IN /\ Shape[p].rooted
     /\ kinds(p) \cap {"unnamed", "mixed"} = {}
     /\ \A i \in DOMAIN s : /\ s[i].kind = "star" => i = Len(s)
                            /\ \A j \in 1 .. i - 1 : s[i].kind = "param" => s[j] # s[i]

assertValidRoutePaths(m) == \A p \in declared(m) : wellFormed(p)

\* "twice" is a method map with "GET" and "get": upper-cased they are the same.
DefineModule(named, shaped) ==
  /\ app = "none" /\ module = "none" /\ complete(maps.module)
  /\ LET code == FirstFault(<<check("LUGAS_MODULE_003", ~named), check("LUGAS_MODULE_004", ~shaped),
                              check("LUGAS_ROUTES_004", ~assertValidRoutePaths(maps.module)),
                              check("LUGAS_MODULE_005", \E p \in Patterns : maps.module[p] = "twice")>>)
     IN IF code # "ok"
        THEN Refuse(code)
        ELSE /\ module' = "defined" /\ vetted' = [vetted EXCEPT !.paths = declared(maps.module)]
             /\ UNCHANGED <<authored, route, socket, app, prepared, started>>

\* An object with a name and a routes map is as good to defineApp().
ByHand ==
  /\ app = "none" /\ module = "none" /\ complete(maps.module)
  /\ module' = "byHand"
  /\ UNCHANGED <<authored, route, socket, vetted, app, prepared, started>>

-----------------------------------------------------------------------------
(* The options: given(c, o) says that the key is there.                    *)

given(c, o) == o \in DOMAIN c
atOr(r, field, default) == IF field \in DOMAIN r THEN r[field] ELSE default

compileLogging(r) ==
  check("LUGAS_LOG_001", ~(r.known /\ atOr(r, "level", "info") \in {"debug", "info", "warn", "error"}
                           /\ r.sink /\ r.flags))

compileTelemetry(r) == check("LUGAS_TELEMETRY_001", ~(r.known /\ r.callable))

\* The paths of the document and, when there is one, of its page.
docPath(r) == atOr(r, "path", "/openapi.json")
uiPath(r) == IF r.ui \in {"absent", "false", "odd"} THEN {} ELSE {atOr(r, "uiPath", "/docs")}

compileOpenApiConfig(r) ==
  check("LUGAS_OPENAPI_001",
        ~(/\ r.known /\ r.titled /\ r.ui # "odd"
          /\ \A p \in {docPath(r)} \cup uiPath(r) : Shape[p].rooted
          /\ docPath(r) \notin uiPath(r)))

livenessPath(r) == atOr(r, "livenessPath", "/health")
readinessPath(r) == atOr(r, "readinessPath", "/ready")

\* Concrete only in that it has no "*": a parameter is accepted.
validHealthPath(p) == Shape[p].rooted /\ kinds(p) # {"empty"} /\ kinds(p) \cap {"star", "mixed"} = {}

compileHealthConfig(r) ==
  check("LUGAS_HEALTH_001",
        ~(/\ validHealthPath(livenessPath(r)) /\ validHealthPath(readinessPath(r))
          /\ livenessPath(r) # readinessPath(r)))

\* The verdicts on cors, secureHeaders, compression and etag are Exchange's.
verdict(c, o) == check(atOr(c, o, "ok"), atOr(c, o, "ok") # "ok")

compiled(c) ==
  <<verdict(c, "cors")>>
  \o (IF given(c, "logging") THEN <<compileLogging(c.logging)>> ELSE <<>>)
  \o (IF given(c, "openapi") THEN <<compileOpenApiConfig(c.openapi)>> ELSE <<>>)
  \o <<verdict(c, "secureHeaders")>>
  \o (IF given(c, "health") THEN <<compileHealthConfig(c.health)>> ELSE <<>>)
  \o (IF given(c, "telemetry") THEN <<compileTelemetry(c.telemetry)>> ELSE <<>>)
  \o <<verdict(c, "compression"), verdict(c, "etag")>>

-----------------------------------------------------------------------------
(* defineApp().                                                            *)

\* The checks in the order the code makes them, up to the ownership index.
configured(c) ==
  <<check("LUGAS_APP_006", given(c, "routes")), check("LUGAS_ROUTES_004", ~assertValidRoutePaths(maps.root)),
    check("LUGAS_APP_002", ~atOr(c, "onError", TRUE)), check("LUGAS_APP_002", ~atOr(c, "notFound", TRUE)),
    check("LUGAS_APP_002", given(c, "unknown")), check("LUGAS_BODY_001", atOr(c, "bodyBudget", 1) = 0)>>
  \o compiled(c)
  \o <<check("LUGAS_APP_003", atOr(c, "modules", "array") = "object"),
       check("LUGAS_APP_004", atOr(c, "modules", "array") = "odd"),
       check("LUGAS_APP_005", atOr(c, "modules", "array") = "twice")>>

\* The module's map, when the application is given the module.
composed == IF module = "none" THEN [p \in Patterns |-> "none"] ELSE maps.module

\* compose(): the methods an entry claims, those of its keys that are upper-case;
\* a bare websocket has none.
claims(e) == CASE e \in {"function", "route", "object", "null"} -> {"*"}
               [] e \in {"upgrade", "twice"} -> {"GET"}
               [] e \in {"none", "socket"} -> {}

duplicated == \E p \in Patterns : claims(maps.root[p]) \cap claims(composed[p]) # {}

\* What assembly answers for one path: a key that is no method (of a websocket as
\* of { get }), two values, no value.
assembled(p) ==
  LET es == <<maps.root[p], composed[p]>>
      n == Cardinality({i \in 1 .. 2 : es[i] # "none"})
  IN FirstFault(<<check("LUGAS_ROUTES_002", \E i \in 1 .. 2 : es[i] \in {"twice", "socket"}),
                  check("LUGAS_ROUTES_001", n > 1),
                  check("LUGAS_ROUTES_003", \E i \in 1 .. 2 : es[i] = "null")>>)

openApiPaths(c) == IF given(c, "openapi") THEN {docPath(c.openapi)} \cup uiPath(c.openapi) ELSE {}
healthPaths(c) == IF given(c, "health") THEN {livenessPath(c.health), readinessPath(c.health)} ELSE {}

existingPaths == declared(maps.root) \cup declared(composed)

mounted(c) ==
  FirstFault(<<check("LUGAS_OPENAPI_002", openApiPaths(c) \cap existingPaths # {}),
               check("LUGAS_HEALTH_002", healthPaths(c) \cap existingPaths # {})>>)

\* The paths of a map come in the order they were written: any of their codes.
prepareFaults(c) ==
  IF duplicated THEN {"LUGAS_ROUTES_001"}
  ELSE IF \E p \in Patterns : assembled(p) # "ok" THEN {assembled(p) : p \in Patterns} \ {"ok"}
  ELSE {mounted(c)} \ {"ok"}

entryAt(p) == IF maps.root[p] # "none" THEN maps.root[p] ELSE composed[p]

\* Whatever has a handler and a before array is taken for a descriptor.
beforeOf(e) == CASE e = "route" -> route
                 [] e \in {"socket", "upgrade"} -> socket
                 [] e = "object" -> "own"
                 [] OTHER -> "none"
guardsOf(before) == IF before = "none" THEN <<>> ELSE arrays[before]
names(gs) == [i \in DOMAIN gs |-> gs[i].name]

\* compilePipeline() notes whether there are guards and keeps the array.
compileAt(p) == [entry |-> entryAt(p), before |-> beforeOf(entryAt(p)),
                 guarded |-> guardsOf(beforeOf(entryAt(p))) # <<>>]

described == {k \in Keys : services[k].kind = "service"}

\* serviceSlots[key] = undefined, for what is a service() descriptor now.
serviceSlots == [k \in Keys |-> IF k \in described THEN "undefined" ELSE "none"]

\* lifecycleServices, each once, in an order of the object's keys.
lifecycleOrders ==
  {s \in [1 .. Cardinality(described) -> described] :
     /\ \A i, j \in DOMAIN s : s[i] = s[j] => i = j
     /\ \A k \in described : \E i \in DOMAIN s : s[i] = k}

lifecycleService(k) == [name |-> services[k].name, value |-> services[k].value]

DefineApp(c) ==
  /\ app = "none" /\ complete(maps.root) /\ complete(composed)
  /\ IF FirstFault(configured(c)) # "ok"
     THEN Refuse(FirstFault(configured(c)))
     ELSE IF prepareFaults(c) # {}
     THEN \E code \in prepareFaults(c) : Refuse(code)
     ELSE /\ app' = "accepted"
          /\ rows' = [p \in Patterns |-> compileAt(p)]
          /\ facts' = [p \in Patterns |-> names(guardsOf(beforeOf(entryAt(p))))]
          /\ endpoints' = openApiPaths(c) \cup healthPaths(c)
          /\ slots' = serviceSlots /\ vetted' = [vetted EXCEPT !.services = {lifecycleService(k) : k \in described}]
          /\ \E s \in lifecycleOrders : starting' = [i \in DOMAIN s |-> lifecycleService(s[i])]
          /\ UNCHANGED <<authored, route, socket, module>>

\* Mutant: a service that is up is not handed to the handlers.
keepsBack ==
  /\ app = "accepted" /\ starting # <<>>
  /\ starting' = Tail(starting)
  /\ UNCHANGED <<authored, made, app, prepared, slots>>

\* init of the next service resolves: slots[svc.name] = svc.value.
Resolve ==
  /\ app = "accepted" /\ starting # <<>>
  /\ starting' = Tail(starting)
  /\ slots' = [k \in Keys |-> IF k = Head(starting).name THEN Head(starting).value ELSE slots[k]]
  /\ UNCHANGED <<authored, made, app, prepared>>

Next ==
  \/ \E g \in Guards, f \in BOOLEAN : Push(g, f)
  \/ Clear
  \/ \E known, callable, budget \in BOOLEAN : Route(known, callable, budget)
  \/ \E known, callable \in BOOLEAN : Websocket(known, callable)
  \/ \E k \in Keys : Assign(k) \/ \E c \in Services : Describe(k, c)
  \/ \E o \in {"root", "module"}, p \in Patterns, e \in Entries : Enter(o, p, e)
  \/ \E named, shaped \in BOOLEAN : DefineModule(named, shaped)
  \/ ByHand
  \/ \E c \in Options : DefineApp(c)
  \/ Resolve

Spec == Init /\ [][Next]_vars

-----------------------------------------------------------------------------
(* Properties.                                                             *)

\* What a request for p meets now: the guards of its descriptor's array.
run(p) == IF rows[p].guarded THEN arrays[rows[p].before] ELSE <<>>
served == {p \in Patterns : rows[p].entry # "none"}

guardsHold(entry) ==
  \A p \in Patterns : rows[p].entry = entry =>
    /\ names(run(p)) = facts[p]
    /\ \A i \in DOMAIN run(p) : run(p)[i].name # "absent" /\ run(p)[i].callable

\* Whatever the file does with its arrays and maps afterwards, a route made by
\* route() runs the guards the manifest lists, each callable (a websocket and a
\* hand-made { handler, before } run what their array holds by now); every path
\* it serves went through analyzePath(), but for the paths of a module made by
\* hand and those a module got after defineModule() looked; no document and no
\* health check is served where a route is
\* (route.ts:112-121, tests/unit/guard-chain-freeze.test.ts, app.ts:201-224).
ServedAsValidated ==
  app = "accepted" =>
    /\ guardsHold("route")
    /\ \A p \in served : wellFormed(p) \/ (module # "none" /\ p \notin vetted.paths)
    /\ endpoints \cap served = {}

\* A handler's view of a key: the slot's own value, or the caller's object now.
inherited(k) == IF services[k].kind = "service" THEN "descriptor" ELSE services[k].value
view(k) == IF slots[k] # "none" THEN slots[k] ELSE inherited(k)

\* The services that are to start, and those of a name that are up.
waiting == {starting[i] : i \in DOMAIN starting}
ready(k) == {s.value : s \in {t \in vetted.services \ waiting : t.name = k}}
shadowed == {s.value : s \in vetted.services}

\* Once the init of a service() the application was defined with has resolved,
\* handlers get its value under its name, or that of another of this name; until
\* then, under the key it was described at, they get nothing, and never the
\* descriptor.  Any other key is the live object's, where a service() put in after
\* defineApp() does show its descriptor (prepared-app.ts:147-163, lifecycle.ts:98).
ServicesView ==
  app = "accepted" =>
    \A k \in Keys :
      IF ready(k) # {} THEN view(k) \in ready(k)
      ELSE view(k) = (IF k \in shadowed THEN "undefined" ELSE inherited(k))

=============================================================================
