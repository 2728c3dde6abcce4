----------------------------- MODULE RouteTable ------------------------------
(***************************************************************************)
(* prepareApp(): from the declarations of an application to the table Bun  *)
(* is given, or to a diagnostic.  Routes of the root and of the modules    *)
(* are gathered per path, classified and compiled with their wrappers;     *)
(* then come the assets, the secure-headers pass, the CORS pass, the       *)
(* OpenAPI and health endpoints and the SPA navigations, each with its own *)
(* ownership check.  The passes rewrite the table built so far, so what a  *)
(* route ends up with depends on where in this order it was mounted.       *)
(*                                                                         *)
(* A path is the sequence of its segments, of which "/" has one.  An entry *)
(* maps the methods it names, or "*" for a value serving every method, to  *)
(* the kind of value.                                                      *)
(***************************************************************************)
EXTENDS Naturals, FiniteSets, SequencesExt, Bags

CONSTANTS
  Owners,       \* the root's name and those of the modules
  Modules,      \* the modules' names
  Paths,        \* the patterns declared
  Params,       \* the segments that are parameters
  Methods,      \* VALID_METHODS
  Entries,      \* the route entries declared
  Configs,      \* the other options of defineApp(), whether "assets" is one of them,
                \* which files are missing, and whether the platform is Linux
  Declarations, \* a bound on the routes declared
  Requests      \* the concrete paths requested, for the properties

VARIABLES
  config,     \* the other options of defineApp()
  declared,   \* declarationsByPath
  phase,      \* how far prepareApp() has come
  table,      \* compiled: the rows Bun will route by
  facts,      \* facts: the manifest's rows, a bag
  diagnostic  \* the code of the error thrown, or ""

vars == <<config, declared, phase, table, facts, diagnostic>>

\* A pattern as analyzePath() has it: a wildcard may only come last.
star == "*"
Patterns == Seq(STRING) \ {<<>>}
WellFormed(p) == \A i \in 1 .. Len(p) - 1 : p[i] # star

\* What a value of an entry is classified as.
Kinds == {"lugas", "socket", "function", "static", "directory", "nested", "junk"}

\* assertValidRoutePath() has seen the routes; the framework's owners are names
\* no module may have here, "null" is what a fact of the root says.
Framework == {"asset", "openapi", "health", "spa"}
ASSUME RoutesAssumption ==
  /\ Paths \subseteq Patterns /\ \A p \in Paths : WellFormed(p)
  /\ Params \subseteq STRING \ {star}
  /\ star \notin Methods /\ \A e \in Entries : Range(e) \subseteq Kinds
  /\ Modules \subseteq Owners /\ "null" \notin Modules /\ Owners \cap Framework = {}

\* One record maps the files, hashed or not.  validHealthPath() refuses a
\* wildcard; compileOpenApiConfig() does not: a document at a wildcard is left
\* out.
ASSUME ConfigsAssumption ==
  \A c \in Configs :
    /\ c.files \cup c.hashed \cup c.dirs \cup c.spa \subseteq Patterns
    /\ c.files \cap c.hashed = {}
    /\ c.files \cup c.hashed \cup c.dirs # {} => c.assets
    /\ c.openapi \in Seq(Patterns) /\ c.health \in Seq(Patterns)
    /\ \A p \in Range(c.openapi) \cup Range(c.health) : star \notin Range(p)

Policies == {"etag", "compression", "telemetry", "logging", "secure", "cors"}

Init ==
  /\ config \in Configs
  /\ declared = {} /\ phase = "declaring"
  /\ table = {} /\ facts = EmptyBag /\ diagnostic = ""

Enter(p) == phase' = p /\ UNCHANGED diagnostic

Refuse(code) ==
  /\ phase' = "refused" /\ diagnostic' = code
  /\ UNCHANGED <<config, declared, table, facts>>

-----------------------------------------------------------------------------
(* Patterns.                                                               *)

\* Where config.missing has the file of the SPA's shell.
shell == <<>>

\* Mutant: a parameter is only seen on the left.
overlapLeft(a, b) ==
  LET both == 1 .. (IF Len(a) < Len(b) THEN Len(a) ELSE Len(b))
      agree(i) == a[i] = b[i] \/ a[i] \in Params
  IN \/ \E i \in both : star \in {a[i], b[i]} /\ \A j \in 1 .. i - 1 : agree(j)
     \/ Len(a) = Len(b) /\ \A i \in both : agree(i)

\* Whether some request path matches both patterns.
patternsOverlap(a, b) ==
  LET both == 1 .. (IF Len(a) < Len(b) THEN Len(a) ELSE Len(b))
      agree(i) == a[i] = b[i] \/ a[i] \in Params \/ b[i] \in Params
  IN \/ \E i \in both : /\ star \in {a[i], b[i]}
                        /\ \A j \in 1 .. i - 1 : agree(j)
     \/ Len(a) = Len(b) /\ \A i \in both : agree(i)

Clash(S, T) == \E a \in S, b \in T : patternsOverlap(a, b)

Literal(p) == \A i \in DOMAIN p : p[i] # star /\ p[i] \notin Params

\* assets.dirs: an explicit prefix and a trailing wildcard.
Prefix(p) == Len(p) > 1 /\ Last(p) = star /\ WellFormed(p)

-----------------------------------------------------------------------------
(* Declarations and composition.                                           *)

apiPaths == {d.path : d \in declared}

Declare(o, p, e) ==
  /\ phase = "declaring" /\ Cardinality(declared) < Declarations
  /\ \A d \in declared : d.owner # o \/ d.path # p
  /\ declared' = declared \cup {[owner |-> o, path |-> p, entry |-> e]}
  /\ UNCHANGED <<config, phase, table, facts, diagnostic>>

\* A second declaration of a method and path.
Duplicate(D) == \E d, e \in D : /\ d # e /\ d.path = e.path
                                /\ DOMAIN d.entry \cap DOMAIN e.entry \cap (Methods \cup {star}) # {}

Compose ==
  /\ phase = "declaring"
  /\ IF Duplicate(declared)
     THEN Refuse("LUGAS_ROUTES_001")
     ELSE Enter("assembling") /\ UNCHANGED <<config, declared, table, facts>>

-----------------------------------------------------------------------------
(* Assembly of the routes, path by path.                                   *)

claims(p) == {d \in declared : d.path = p}
anyClaims(p) == {d \in claims(p) : star \in DOMAIN d.entry}

\* Everything declared at a path, one record per method.
claimed(p) == UNION {{[owner |-> d.owner, method |-> m, kind |-> d.entry[m]] : m \in DOMAIN d.entry}
                     : d \in claims(p)}

\* The wrapper of a policy that is configured.
When(policy) == IF policy \in config.policies THEN <<policy>> ELSE <<>>

\* The wrappers compileLugasHandler puts around a pipeline, innermost first.
LugasLayers ==
  <<"errors", "gate">> \o When("etag") \o When("compression") \o When("telemetry") \o When("logging")

Route(p, m, o, value, layers) ==
  [path |-> p, method |-> m, owner |-> o, value |-> value, layers |-> layers]

compileMethodValue(p, c) ==
  CASE c.kind \in {"lugas", "socket"} -> Route(p, c.method, c.owner, "handler", LugasLayers)
    [] c.kind = "function" -> Route(p, c.method, c.owner, "handler", When("logging"))
    [] OTHER -> Route(p, c.method, c.owner, c.kind, <<>>)

Fact(p, m, o, kind) ==
  [path |-> p, method |-> m, module |-> IF o \in Modules THEN o ELSE "null", kind |-> kind]

compileFact(p, c) ==
  Fact(p, c.method, c.owner, IF c.kind \in {"lugas", "socket"} THEN "lugas" ELSE c.kind)

\* Mutant: only values for all methods are compared.
ShadowedByAny(p) == Cardinality(anyClaims(p)) > 1

\* A value serving every method beside one serving some.
Shadowed(p) == anyClaims(p) # {} /\ \E c \in claimed(p) : c.method # star

\* A path-level websocket descriptor is read as a method map, so its keys are
\* refused here; a method map is not a value of a method.
assemblyError(p) ==
  IF \E c \in claimed(p) : c.method \notin Methods \cup {star} THEN "LUGAS_ROUTES_002"
  ELSE IF Shadowed(p) THEN "LUGAS_ROUTES_001"
  ELSE IF claimed(p) = {} \/ \E c \in claimed(p) : c.method = star /\ c.kind = "junk" THEN "LUGAS_ROUTES_003"
  ELSE IF \E c \in claimed(p) : c.kind \in {"nested", "junk"} THEN "LUGAS_ROUTES_002"
  ELSE ""

Assemble(p) ==
  /\ phase = "assembling" /\ p \in apiPaths /\ \A r \in table : r.path # p
  /\ IF assemblyError(p) # ""
     THEN Refuse(assemblyError(p))
     ELSE /\ table' = table \cup {compileMethodValue(p, c) : c \in claimed(p)}
          /\ facts' = facts (+) SetToBag({compileFact(p, c) : c \in claimed(p)})
          /\ UNCHANGED <<config, declared, phase, diagnostic>>

Assembled ==
  /\ phase = "assembling" /\ \A p \in apiPaths : \E r \in table : r.path = p
  /\ Enter("assets") /\ UNCHANGED <<config, declared, table, facts>>

-----------------------------------------------------------------------------
(* Assets and the two passes over the table built so far.                  *)

assetFiles == config.files \cup config.hashed
assetPaths == assetFiles \cup config.dirs

\* compileAssets: a mapping or a mount meets a route, or another of them.
AmbiguousAssets ==
  \/ Clash(assetPaths, apiPaths)
  \/ \E a, b \in assetPaths : a # b /\ patternsOverlap(a, b)

\* Plain files and mounts are native values; a hashed file is a handler.
assetRoutes ==
  {Route(p, "GET", "asset", "static", <<>>) : p \in config.files}
    \cup {Route(p, "GET", "asset", "directory", <<>>) : p \in config.dirs}
    \cup {Route(p, m, "asset", "handler", <<>>) : p \in config.hashed, m \in {"GET", "HEAD"}}

\* compiled[path] = ..., for every path of the rows.
Overwrite(rows) == {r \in table : \A s \in rows : s.path # r.path} \cup rows

assetError ==
  IF config.assets /\ "cors" \in config.policies THEN "LUGAS_CORS_004"
  ELSE IF ~(\A p \in assetFiles : Literal(p)) \/ ~(\A p \in config.dirs : Prefix(p)) THEN "LUGAS_ASSET_001"
  ELSE IF assetPaths \cap config.missing # {} THEN "LUGAS_ASSET_003"
  ELSE IF config.dirs # {} /\ ~config.linux THEN "LUGAS_ASSET_004"
  ELSE IF AmbiguousAssets THEN "LUGAS_ASSET_002"
  ELSE ""

MountAssets ==
  /\ phase = "assets"
  /\ IF assetError # ""
     THEN Refuse(assetError)
     ELSE table' = Overwrite(assetRoutes) /\ Enter("securing") /\ UNCHANGED <<config, declared, facts>>

Wrapped(r, layer) == IF r.value = "handler" THEN [r EXCEPT !.layers = Append(@, layer)] ELSE r

\* The secure-headers pass: native values stay as they are.
Secure ==
  /\ phase = "securing"
  /\ table' = IF "secure" \in config.policies THEN {Wrapped(r, "secure") : r \in table} ELSE table
  /\ Enter("sharing") /\ UNCHANGED <<config, declared, facts>>

\* The CORS pass: a native value cannot be wrapped, so it is refused.
Share ==
  /\ phase = "sharing"
  /\ IF "cors" \in config.policies /\ \E r \in table : r.value # "handler"
     THEN Refuse("LUGAS_CORS_004")
     ELSE /\ table' = IF "cors" \in config.policies THEN {Wrapped(r, "cors") : r \in table} ELSE table
          /\ Enter("openapi") /\ UNCHANGED <<config, declared, facts>>

-----------------------------------------------------------------------------
(* Endpoints of the framework, mounted after the passes.                   *)

openapiPaths == Range(config.openapi)
healthPaths == Range(config.health)

\* existingPaths: asset mounts are not in it.
existingPaths == apiPaths \cup assetFiles

MountRows(rows, next) ==
  /\ table' = Overwrite(rows)
  /\ facts' = facts (+) SetToBag({Fact(r.path, r.method, r.owner, "function") : r \in rows})
  /\ Enter(next) /\ UNCHANGED <<config, declared>>

MountOpenApi ==
  /\ phase = "openapi"
  /\ IF openapiPaths \cap existingPaths # {}
     THEN Refuse("LUGAS_OPENAPI_002")
     ELSE MountRows({Route(p, "GET", "openapi", "handler", When("logging") \o When("cors"))
                     : p \in openapiPaths}, "health")

\* Mutant: CORS innermost.
EndpointLayersInverted == When("cors") \o When("logging") \o When("secure")

\* The wrappers of the health endpoints and of the SPA shell.
EndpointLayers == When("logging") \o When("secure") \o When("cors")

MountHealth ==
  /\ phase = "health"
  /\ IF healthPaths \cap existingPaths # {}
     THEN Refuse("LUGAS_HEALTH_002")
     ELSE MountRows({Route(p, "GET", "health", "handler", EndpointLayers) : p \in healthPaths}, "spa")

\* compileSpa: a navigation meets any other owner, or another navigation.
AmbiguousNavigations ==
  \/ Clash(config.spa, apiPaths \cup assetPaths \cup healthPaths \cup openapiPaths)
  \/ \E a, b \in config.spa : a # b /\ patternsOverlap(a, b)

\* The shell is looked for before the navigations are read.
spaError ==
  IF config.spa # {} /\ shell \in config.missing THEN "LUGAS_SPA_001"
  ELSE IF \E p \in config.spa : Range(p) \cap Params # {} \/ ~WellFormed(p) THEN "LUGAS_SPA_001"
  ELSE IF AmbiguousNavigations THEN "LUGAS_SPA_002"
  ELSE ""

\* One file-backed handler behind every navigation, and one for HEAD.
shellRoutes ==
  {Route(p, m, "spa", "handler", EndpointLayers) : p \in config.spa, m \in {"GET", "HEAD"}}

MountSpa ==
  /\ phase = "spa"
  /\ IF spaError # "" THEN Refuse(spaError) ELSE MountRows(shellRoutes, "accepted")

Next ==
  \/ \E o \in Owners, p \in Paths, e \in Entries : Declare(o, p, e)
  \/ Compose
  \/ \E p \in Paths : Assemble(p)
  \/ Assembled \/ MountAssets \/ Secure \/ Share
  \/ MountOpenApi \/ MountHealth \/ MountSpa

Spec == Init /\ [][Next]_vars

-----------------------------------------------------------------------------
(* Properties.                                                             *)

\* Bun's patterns: a parameter stands for a segment, a trailing wildcard for
\* one or more.
Matches(c, p) ==
  /\ Len(c) = Len(p) \/ (Last(p) = star /\ Len(c) >= Len(p))
  /\ \A i \in DOMAIN p : p[i] \in {c[i], star} \cup Params

\* A request for a pattern that a second one matches too, if any does.
Filled(p, q, s) ==
  [i \in 1 .. (IF Len(p) < Len(q) THEN Len(q) ELSE Len(p)) |->
     IF i <= Len(p) /\ p[i] \notin {star} \cup Params THEN p[i]
     ELSE IF i <= Len(q) /\ q[i] \notin {star} \cup Params THEN q[i] ELSE s]

\* Requests have neither wildcards nor parameters, and among them is one for
\* every two patterns of an application.
ASSUME RequestsAssumption ==
  /\ Requests \subseteq Patterns /\ \A c \in Requests : Literal(c)
  /\ \E s \in UNION {Range(c) : c \in Requests} : \A c \in Configs :
       LET patterns == Paths \cup c.files \cup c.hashed \cup c.dirs \cup c.spa
                         \cup Range(c.openapi) \cup Range(c.health)
       IN \A p, q \in patterns : patternsOverlap(p, q) => Filled(p, q, s) \in Requests

Shared(p, q) == \E c \in Requests : Matches(c, p) /\ Matches(c, q)

accepted == phase = "accepted"

\* An accepted application serves every route, asset and navigation it
\* declares under the owner that declared it, one value per method, and never
\* a value for all methods beside one for some: Bun would let the order of
\* insertion decide, and one of them would be dead.  Its endpoints are there
\* too, but for an OpenAPI endpoint at the path of a health endpoint, which is
\* compared with nothing and takes its place (prepareApp, ADR-0018).
DeclaredIsServed ==
  accepted =>
    /\ \A d \in declared : \A m \in DOMAIN d.entry :
         \E r \in table : r.path = d.path /\ r.method = m /\ r.owner = d.owner
    /\ \A p \in assetPaths : \E r \in table : r.path = p /\ r.owner = "asset"
    /\ \A p \in config.spa : \E r \in table : r.path = p /\ r.owner = "spa"
    /\ \A p \in healthPaths : \E r \in table : r.path = p /\ r.owner = "health"
    /\ \A p \in openapiPaths \ healthPaths : \E r \in table : r.path = p /\ r.owner = "openapi"
    /\ \A r, s \in table :
         r.path = s.path /\ r # s => r.method # s.method /\ star \notin {r.method, s.method}

\* What the application owns as an asset or a navigation it owns alone: no
\* request could be answered by two of them, or by one of them and a route;
\* and an application is only refused for an overlap that some request
\* exhibits (assets.ts, spa.ts: patternsOverlap).
OneOwner ==
  /\ accepted =>
       /\ \A p \in assetPaths, q \in apiPaths \cup assetPaths : p # q => ~Shared(p, q)
       /\ assetPaths \cap apiPaths = {}
       /\ \A p \in config.spa : /\ \A r \in table : r.owner # "spa" => ~Shared(p, r.path)
                                /\ \A q \in config.spa : p # q => ~Shared(p, q)
  /\ diagnostic = "LUGAS_ASSET_002" =>
       \E p \in assetPaths, q \in apiPaths \cup assetPaths : Shared(p, q) /\ (p # q \/ q \in apiPaths)
  /\ diagnostic = "LUGAS_SPA_002" =>
       \E p \in config.spa, q \in apiPaths \cup assetPaths \cup openapiPaths \cup healthPaths \cup config.spa :
         Shared(p, q)

\* The wrappers from the inside out.
Depth ==
  [errors |-> 1, gate |-> 2, etag |-> 3, compression |-> 4, telemetry |-> 5, logging |-> 6, secure |-> 7, cors |-> 8]

\* Whether a handler runs the pipeline of a route that was declared.
isPipeline(r) ==
  \E d \in declared : /\ d.path = r.path /\ d.owner = r.owner
                      /\ r.method \in DOMAIN d.entry /\ d.entry[r.method] \in {"lugas", "socket"}

\* The wrappers a mount leaves out: the OpenAPI endpoints come after the
\* secure-headers pass, the hashed assets never log.
exempt(r) == CASE r.owner = "openapi" -> {"secure"} [] r.owner = "asset" -> {"logging"} [] OTHER -> {}

\* The wrappers a handler is due.
due(r) ==
  IF isPipeline(r) THEN {"errors", "gate"} \cup (config.policies \cap Policies)
  ELSE config.policies \cap ({"logging", "secure", "cors"} \ exempt(r))

\* Every handler of an accepted application runs the policies it is due, all of
\* them, once, and in one order, in which a held request's 503 and a 304 carry
\* the headers and are logged under the id telemetry stamped.  A route's
\* pipeline is due all that are configured, inside them the traffic gate and the
\* error policy; a plain function, a health endpoint and the SPA's shell are due
\* logging, the secure headers and CORS, and no gate.  Two mounts get less: the
\* OpenAPI endpoints, which are mounted after the secure-headers pass, have no
\* such headers, and the hashed assets are not logged.  A native value has no
\* wrapper, and is refused under CORS (compileLugasHandler, the two passes and
\* the mounts of prepareApp).
PolicyCoverage ==
  accepted => \A r \in table :
    /\ Range(r.layers) = IF r.value = "handler" THEN due(r) ELSE {}
    /\ \A i, j \in DOMAIN r.layers : i < j => Depth[r.layers[i]] < Depth[r.layers[j]]
    /\ "cors" \in config.policies => r.value = "handler"

=============================================================================
