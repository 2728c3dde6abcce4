------------------------------ MODULE Documents ------------------------------
(***************************************************************************)
(* What an application says of itself: the OpenAPI document, generated     *)
(* from the facts and the descriptors while the routes are mounted, and    *)
(* the manifest, built from the facts when preparation is over.  Both are  *)
(* read by people and by the command line and never compared with what is  *)
(* served, so nothing but these properties ties them to the table.         *)
(*                                                                         *)
(* Schemas are represented by the parameters they name and by whether they *)
(* can be introspected; texts by whether they are given.                   *)
(***************************************************************************)
EXTENDS RouteTable

CONSTANTS
  Descriptors,  \* what a lugas route may have been given
  Introspected, \* properties of an introspected query schema: <<name, required>>
  Order         \* the paths in code-unit order

VARIABLES
  descriptor, \* rawDescriptors, and validates of the facts
  document,   \* the paths object of the OpenAPI document: its operations
  manifest    \* app.manifest

dvars == <<vars, descriptor, document, manifest>>

Slots == {"params", "query", "headers", "body"}
Schemas == {"explicit", "introspected", "opaque", "throwing"}

\* A route's slots, how its query and body schemas show, and its metadata.  A
\* schema or metadata with no property at all is not among them.
ASSUME DescriptorsAssumption ==
  /\ Descriptors \subseteq [slots : SUBSET Slots, query : Schemas, body : Schemas, tags : BOOLEAN, responses : BOOLEAN]
  /\ Introspected # {}

DocInit == Init /\ descriptor = <<>> /\ document = {} /\ manifest = [routes |-> <<>>, modules |-> <<>>]

-----------------------------------------------------------------------------
(* generateOpenApiDocument().                                              *)

all == BagToSet(facts)

\* Mutant: native rows are documented too.
everyMethod(f) == f.method # star

\* API routes of one method; a value for every method is not documented.
documented(f) == f.method # star /\ f.kind = "lugas"

isSocket(f) == \E c \in claimed(f.path) : c.method = f.method /\ c.kind = "socket"

\* A parameter or a wildcard in braces: "/x/*" and "/x/:wildcard" are one key.
openApiPath(p) == [i \in DOMAIN p |-> IF p[i] = star THEN ":wildcard" ELSE p[i]]

pathParamNames(p) == Range(p) \cap Params

\* extractJsonSchema(): null for a schema that has no jsonSchema() or throws.
extractJsonSchema(schema) == IF schema = "introspected" THEN Introspected ELSE {}

presenceOnly == {<<"query", FALSE>>}

\* Mutant: presence-only parameters whatever the route validates.
queryParametersAlways(d) ==
  IF d.query = "explicit" THEN {<<x[1], FALSE>> : x \in Introspected}
  ELSE IF extractJsonSchema(d.query) # {} THEN extractJsonSchema(d.query) ELSE presenceOnly

\* Metadata first, then the schema's own properties, then presence alone.
queryParameters(d) ==
  IF "query" \notin d.slots THEN {}
  ELSE IF d.query = "explicit" THEN {<<x[1], FALSE>> : x \in Introspected}
  ELSE IF extractJsonSchema(d.query) # {} THEN extractJsonSchema(d.query) ELSE presenceOnly

\* A body is always documented as application/json, a form's too.
requestBody(d) ==
  IF "body" \notin d.slots THEN {}
  ELSE {[required |-> TRUE, schema |-> IF d.body \in {"explicit", "introspected"} THEN d.body ELSE "object"]}

\* A descriptor of a websocket is not in rawDescriptors: no metadata, no schema.
seen(f) ==
  IF isSocket(f) THEN [descriptor[f] EXCEPT !.query = "opaque", !.tags = FALSE, !.responses = FALSE]
  ELSE descriptor[f]

operation(f) ==
  LET d == seen(f)
  IN [path |-> openApiPath(f.path), method |-> f.method,
      tags |-> IF d.tags THEN {"own"} ELSE {f.module} \ {"null"},
      params |-> pathParamNames(f.path), query |-> queryParameters(d), body |-> requestBody(d),
      responses |-> IF d.responses THEN {"default", "declared"} ELSE {"default", "200"}]

\* paths[openApiPath][method]: routes that come to the same key overwrite each
\* other in the order of declaration, which the table does not keep.
generates(doc) ==
  LET api == {f \in all : documented(f)}
      Same(f, g) == openApiPath(f.path) = openApiPath(g.path) /\ f.method = g.method
  IN \E kept \in SUBSET api :
       /\ \A f \in api : \E g \in kept : Same(f, g)
       /\ \A f, g \in kept : Same(f, g) => f = g
       /\ doc = {operation(f) : f \in kept}

lugasFacts == {f \in all : f.kind = "lugas"}

\* A websocket has neither body nor metadata, route() may have all of them.
Described(f, d) == isSocket(f) => "body" \notin d.slots /\ ~d.tags /\ ~d.responses

\* The facts carry their descriptors from the start; they are chosen here, at
\* their first use.
Describe ==
  /\ phase = "openapi" /\ openapiPaths # {} /\ descriptor = <<>> /\ lugasFacts # {}
  /\ \E D \in [lugasFacts -> Descriptors] : (\A f \in lugasFacts : Described(f, D[f])) /\ descriptor' = D
  /\ UNCHANGED <<vars, document, manifest>>

Generate ==
  /\ MountOpenApi /\ (openapiPaths # {} => lugasFacts = DOMAIN descriptor)
  /\ IF openapiPaths = {} \/ phase' = "refused"
     THEN UNCHANGED document
     ELSE \E kept \in SUBSET lugasFacts : LET doc == {operation(f) : f \in kept} IN generates(doc) /\ document' = doc
  /\ UNCHANGED <<descriptor, manifest>>

-----------------------------------------------------------------------------
(* buildManifest().                                                        *)

Rank(p) == CHOOSE i \in DOMAIN Order : Order[i] = p
\* VALID_METHODS and "*" in code-unit order.
MethodOrder == <<star, "DELETE", "GET", "HEAD", "OPTIONS", "PATCH", "POST", "PUT">>
MethodRank(m) == CHOOSE i \in DOMAIN MethodOrder : MethodOrder[i] = m

\* Order has every path that can come to be in the manifest, once.
ASSUME OrderAssumption ==
  /\ Methods \subseteq Range(MethodOrder)
  /\ Order \in Seq(Patterns) /\ IsInjective(Order)
  /\ Paths \cup UNION {Range(c.openapi) \cup Range(c.health) \cup c.spa : c \in Configs} \subseteq Range(Order)

Before(p, q) == Rank(p) < Rank(q)

\* The only order of the members of S in which nothing follows its successor.
Sorted(S, less(_, _)) ==
  [i \in 1 .. Cardinality(S) |-> CHOOSE x \in S : Cardinality({y \in S : less(y, x)}) = i - 1]

\* Mutant: the methods the other way round.
sortMethodsDown(x, y) == \/ Before(x[1].path, y[1].path)
                    \/ /\ x[1].path = y[1].path
                       /\ \/ MethodRank(x[1].method) > MethodRank(y[1].method)
                          \/ x[1].method = y[1].method /\ x[2] < y[2]

\* By path, then by method; a fact may be there twice.
sortForSerialization(x, y) ==
  \/ Before(x[1].path, y[1].path)
  \/ /\ x[1].path = y[1].path
     /\ \/ MethodRank(x[1].method) < MethodRank(y[1].method)
        \/ x[1].method = y[1].method /\ x[2] < y[2]

records == Sorted(UNION {{<<f, i>> : i \in 1 .. facts[f]} : f \in DOMAIN facts}, sortForSerialization)

\* The paths of a module, each once.
moduleRoutes(n) == Sorted({f.path : f \in {g \in all : g.module = n}}, Before)

BuildManifest ==
  /\ phase = "accepted" /\ manifest.modules = <<>>
  /\ manifest' = [routes |-> [i \in DOMAIN records |-> records[i][1]],
                  modules |-> [n \in Modules |-> moduleRoutes(n)]]
  /\ UNCHANGED <<vars, descriptor, document>>

DocNext ==
  \/ /\ \/ \E o \in Owners, p \in Paths, e \in Entries : Declare(o, p, e)
        \/ Compose \/ (\E p \in Paths : Assemble(p)) \/ Assembled
        \/ MountAssets \/ Secure \/ Share \/ MountHealth \/ MountSpa
     /\ UNCHANGED <<descriptor, document, manifest>>
  \/ Describe \/ Generate \/ BuildManifest

DocSpec == DocInit /\ [][DocNext]_dvars

-----------------------------------------------------------------------------
gated(r) == "gate" \in Range(r.layers)
published == manifest.modules # <<>>

\* The document shows the API that is served: an operation stands for a row
\* behind the pipeline with its parameters, its module as tag and a query and
\* a body exactly where the pipeline validates one, and every such row of one
\* method has an operation, its own or that of the row which took its key
\* (openapi.ts: never invents; docs/openapi.md).
DocumentTruth ==
  published /\ openapiPaths # {} =>
    /\ \A op \in document : \E f \in DOMAIN descriptor :
         /\ op.path = openApiPath(f.path) /\ op.method = f.method /\ op.params = pathParamNames(f.path)
         /\ (op.query # {}) = ("query" \in descriptor[f].slots)
         /\ (op.body # {}) = ("body" \in descriptor[f].slots)
         /\ \E r \in table : /\ r.path = f.path /\ r.method = f.method /\ gated(r)
                             /\ op.tags = {"own"} \/ op.tags = {r.owner} \cap Modules
    /\ \A r \in table : gated(r) /\ r.method # star =>
         Cardinality({op \in document : op.path = openApiPath(r.path) /\ op.method = r.method}) = 1

\* The manifest tells the runtime truth in a stable order: a record for every
\* row but assets, none without its row, with the row's module and kind; a
\* module lists each of its paths once; records never decrease (ADR-0017).
ManifestTruth ==
  published =>
    /\ \A r \in table : r.owner # "asset" =>
         \E i \in DOMAIN manifest.routes :
           LET f == manifest.routes[i]
           IN /\ f.path = r.path /\ f.method = r.method
              /\ f.module = (IF r.owner \in Modules THEN r.owner ELSE "null")
              /\ (f.kind = "lugas") = gated(r)
    /\ \A i \in DOMAIN manifest.routes :
         LET f == manifest.routes[i]
         IN /\ \E r \in table : f.path = r.path /\ f.method = r.method /\ r.owner # "asset"
            /\ i > 1 => \/ Rank(manifest.routes[i - 1].path) < Rank(f.path)
                        \/ /\ manifest.routes[i - 1].path = f.path
                           /\ MethodRank(manifest.routes[i - 1].method) <= MethodRank(f.method)
    /\ \A n \in Modules : LET own == manifest.modules[n]
                          IN IsInjective(own) /\ Range(own) = {r.path : r \in {s \in table : s.owner = n}}

=============================================================================
